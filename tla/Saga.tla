-------------------------------- MODULE Saga --------------------------------
(***************************************************************************)
(* transaction/saga: one Run over a list of steps, forwards with Do and,   *)
(* once a Do fails, backwards with Undo.                                   *)
(***************************************************************************)
EXTENDS Naturals, Sequences

CONSTANT MaxSteps  \* bound: steps of a saga

ASSUME SagaAssumption == MaxSteps \in Nat

VARIABLES
    steps,    \* the argument of Run: which of its functions each step has
    sagaPc,   \* "do", "undo" or "returned"
    at,       \* the step the loop of Run or compensate is at
    effects,  \* the steps whose Do took effect and is not compensated
    undone,   \* the steps whose Undo was called, in order
    sagaErr   \* the error so far: its kind, the step it names and, joined to
              \* it, the steps whose Undo failed

sagaVars == <<steps, sagaPc, at, effects, undone, sagaErr>>

-----------------------------------------------------------------------------
Step == [do : BOOLEAN, undo : BOOLEAN]

SagaTypeOK ==
    /\ steps \in UNION {[1..n -> Step] : n \in 0..MaxSteps}
    /\ sagaPc \in {"do", "undo", "returned"}
    /\ at \in 0..(Len(steps) + 1)
    /\ effects \in SUBSET DOMAIN steps
    /\ undone \in Seq(DOMAIN steps)
    /\ sagaErr \in [kind : {"nil", "noDo", "failed"}, step : 0..Len(steps),
                   undo : SUBSET DOMAIN steps]

SagaInit ==
    /\ steps \in UNION {[1..n -> Step] : n \in 0..MaxSteps}
    /\ sagaPc = "do" /\ at = 1
    /\ effects = {}
    /\ undone = <<>>
    /\ sagaErr = [kind |-> "nil", step |-> 0, undo |-> {}]

-----------------------------------------------------------------------------
(* Definitions named Mutant... are faulty variants of the one after them;  *)
(* no specification uses them.                                             *)

\* A step without Do ends Run where it stands.
MissingDo ==
    /\ sagaPc = "do" /\ at <= Len(steps) /\ ~steps[at].do
    /\ sagaPc' = "returned" /\ sagaErr' = [sagaErr EXCEPT !.kind = "noDo", !.step = at]
    /\ UNCHANGED <<steps, at, effects, undone>>

MutantDoCompensatesAll ==
    /\ sagaPc = "do" /\ at <= Len(steps) /\ steps[at].do
    /\ \/ effects' = effects \cup {at} /\ at' = at + 1 /\ UNCHANGED <<sagaPc, sagaErr>>
       \/ /\ sagaPc' = "undo" /\ at' = Len(steps)
          /\ sagaErr' = [sagaErr EXCEPT !.kind = "failed", !.step = at]
          /\ UNCHANGED effects
    /\ UNCHANGED <<steps, undone>>

\* A Do that fails has no effect of its own; the steps completed before it are
\* compensated, last first.
Do ==
    /\ sagaPc = "do" /\ at <= Len(steps) /\ steps[at].do
    /\ \/ effects' = effects \cup {at} /\ at' = at + 1 /\ UNCHANGED <<sagaPc, sagaErr>>
       \/ /\ sagaPc' = "undo" /\ at' = at - 1
          /\ sagaErr' = [sagaErr EXCEPT !.kind = "failed", !.step = at]
          /\ UNCHANGED effects
    /\ UNCHANGED <<steps, undone>>

Done ==
    /\ sagaPc = "do" /\ at > Len(steps)
    /\ sagaPc' = "returned"
    /\ UNCHANGED <<steps, at, effects, undone, sagaErr>>

MutantUndoStopsAtError ==
    /\ sagaPc = "undo" /\ at > 0
    /\ IF steps[at].undo
       THEN /\ undone' = Append(undone, at)
            /\ \/ effects' = effects \ {at} /\ at' = at - 1 /\ UNCHANGED sagaErr
               \/ sagaErr' = [sagaErr EXCEPT !.undo = @ \cup {at}] /\ at' = 0 /\ UNCHANGED effects
       ELSE at' = at - 1 /\ UNCHANGED <<effects, undone, sagaErr>>
    /\ UNCHANGED <<steps, sagaPc>>

\* A step without Undo is passed over; the error of an Undo is joined and the
\* loop goes on.
Undo ==
    /\ sagaPc = "undo" /\ at > 0
    /\ at' = at - 1
    /\ IF steps[at].undo
       THEN /\ undone' = Append(undone, at)
            /\ \/ effects' = effects \ {at} /\ UNCHANGED sagaErr
               \/ sagaErr' = [sagaErr EXCEPT !.undo = @ \cup {at}] /\ UNCHANGED effects
       ELSE UNCHANGED <<effects, undone, sagaErr>>
    /\ UNCHANGED <<steps, sagaPc>>

Compensated ==
    /\ sagaPc = "undo" /\ at = 0
    /\ sagaPc' = "returned"
    /\ UNCHANGED <<steps, at, effects, undone, sagaErr>>

SagaNext == MissingDo \/ Do \/ Done \/ Undo \/ Compensated

SagaSpec == SagaInit /\ [][SagaNext]_sagaVars

-----------------------------------------------------------------------------
\* Run (saga.go:49-52): when a Do has failed, the effects that are left after
\* the compensation are those of steps without Undo and of steps whose Undo
\* failed, and each of the latter is named by the joined error; a nil answer
\* means that every step took effect and none was undone.
LeftoversAreReported ==
    sagaPc = "returned" =>
      /\ sagaErr.kind = "failed" =>
           \A i \in effects : steps[i].undo => i \in sagaErr.undo
      /\ sagaErr.kind = "nil" => effects = DOMAIN steps /\ undone = <<>>

\* compensate (saga.go:50): Undo is called for completed steps only, each once
\* and in the reverse of the order in which their Do took effect.
UndoneInReverse ==
    /\ \A i \in 1..(Len(undone) - 1) : undone[i + 1] < undone[i]
    /\ \A i \in DOMAIN undone : undone[i] \in effects => undone[i] \in sagaErr.undo
    /\ undone # <<>> => sagaErr.kind = "failed" /\ undone[1] < sagaErr.step

\* What a caller of Run (saga.go:49-52) can rely on: the error names what is
\* left, and the compensation went backwards over completed steps.
SagaContract == LeftoversAreReported /\ UndoneInReverse

\* saga.go:49-50 as it is written: whatever error Run returns, the completed
\* steps that have an Undo have been compensated, or their Undo failed.
FailureIsCompensated ==
    sagaPc = "returned" /\ sagaErr.kind # "nil" =>
      \A i \in effects : steps[i].undo => i \in sagaErr.undo
=============================================================================
