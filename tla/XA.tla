--------------------------------- MODULE XA ---------------------------------
(***************************************************************************)
(* transaction/xa: one Run of the two-phase commit over N databases, from  *)
(* XA START to XA COMMIT, and the operator who resolves what Pending       *)
(* lists.  The databases are MySQL as the package uses it: a session that  *)
(* ends takes its branch with it unless the branch is prepared.            *)
(***************************************************************************)
EXTENDS Naturals

CONSTANTS
    N,              \* len(resources), validated to be at least one
    OperatorWaits,  \* does the operator resolve only what no live Run drives?
    MaxFaults       \* bound: refused statements, lost connections, crashes

ASSUME XAAssumption ==
    /\ N \in Nat \ {0}
    /\ OperatorWaits \in BOOLEAN
    /\ MaxFaults \in Nat

Resources == 1..N

VARIABLES
    branch,  \* the XA branch in each database
    lost,    \* resources whose connection is gone
    phase,   \* xaRes.phase
    pc,      \* the loop Run is in
    cur,     \* the resource that loop is at
    ctx,     \* "live" or "cancelled"
    err,     \* what Run returns so far: "nil", or the stage of its first error
    faults

vars == <<branch, lost, phase, pc, cur, ctx, err, faults>>

-----------------------------------------------------------------------------
Branches == {"none", "active", "idle", "prepared", "committed", "aborted"}

Phases == {"new", "started", "ended", "prepared", "committed", "inDoubt", "rolledBack"}

Pcs == {"start", "business", "end", "prepare", "commit", "rollbackEnd", "rollback",
        "returned", "crashed"}

Errors == {"nil", "acquire", "start", "business", "end", "prepare", "commit"}

TypeOK ==
    /\ branch \in [Resources -> Branches]
    /\ lost \in SUBSET Resources
    /\ phase \in [Resources -> Phases]
    /\ pc \in Pcs
    /\ cur \in Resources
    /\ ctx \in {"live", "cancelled"}
    /\ err \in Errors
    /\ faults \in Nat

Init ==
    /\ branch = [i \in Resources |-> "none"]
    /\ lost = {}
    /\ phase = [i \in Resources |-> "new"]
    /\ pc = "start" /\ cur = 1
    /\ ctx = "live"
    /\ err = "nil"
    /\ faults = 0

Fault == faults < MaxFaults /\ faults' = faults + 1

-----------------------------------------------------------------------------
(* Definitions named Mutant... are faulty variants of the one after them;  *)
(* no specification uses them.                                             *)

(* The databases.  Moves(verb) are the state changes a statement may make. *)

Moves(verb) ==
    CASE verb = "START"    -> {<<"none", "active">>}
      [] verb = "END"      -> {<<"active", "idle">>}
      [] verb = "PREPARE"  -> {<<"idle", "prepared">>}
      [] verb = "COMMIT"   -> {<<"prepared", "committed">>}
      [] verb = "ROLLBACK" -> {<<"idle", "aborted">>, <<"prepared", "aborted">>}

\* The session of a branch ends.
Dropped(b) == IF b \in {"active", "idle"} THEN "aborted" ELSE b

\* r.exec(ctx, verb, xid) returns nil.
ExecOk(i, verb) ==
    /\ ctx = "live" /\ i \notin lost
    /\ \E to \in Branches : <<branch[i], to>> \in Moves(verb)
                            /\ branch' = [branch EXCEPT ![i] = to]
    /\ UNCHANGED <<lost, faults>>

\* r.exec returns an error: the context is over, the connection is gone, the
\* branch is not in the right state, the database refuses, or the connection
\* breaks before or after the statement took effect.
ExecErr(i, verb) ==
    \/ /\ \/ ctx = "cancelled" \/ i \in lost
          \/ \A to \in Branches : <<branch[i], to>> \notin Moves(verb)
       /\ UNCHANGED <<branch, lost, faults>>
    \/ /\ ctx = "live" /\ i \notin lost
       /\ Fault
       /\ \/ UNCHANGED <<branch, lost>>
          \/ /\ lost' = lost \cup {i}
             /\ \E to \in Branches :
                  /\ to = branch[i] \/ <<branch[i], to>> \in Moves(verb)
                  /\ branch' = [branch EXCEPT ![i] = Dropped(to)]

-----------------------------------------------------------------------------
(* Run.                                                                    *)

\* The loop over the resources goes on, or its successor begins.
Continue(here, next) ==
    IF cur < N THEN pc' = here /\ cur' = cur + 1 ELSE pc' = next /\ cur' = 1

\* rollbackAll at resource i: END a started branch first; one that was never
\* started, or has no connection yet, is only marked.
RollbackFrom(i) ==
    /\ cur' = i
    /\ pc' = IF phase[i] = "started" THEN "rollbackEnd" ELSE "rollback"

GiveUp(stage) == err' = stage /\ RollbackFrom(1) /\ UNCHANGED phase

SetPhase(p) == phase' = [phase EXCEPT ![cur] = p]

\* Phase 0, DB.Conn: an error returns at once, without rollbackAll.
AcquireError ==
    /\ pc = "start"
    /\ (ctx = "cancelled" /\ UNCHANGED faults) \/ Fault
    /\ err' = "acquire" /\ pc' = "returned"
    /\ UNCHANGED <<branch, lost, phase, cur, ctx>>

Start ==
    /\ pc = "start"
    /\ \/ /\ ExecOk(cur, "START") /\ SetPhase("started")
          /\ Continue("start", "business") /\ UNCHANGED err
       \/ ExecErr(cur, "START") /\ GiveUp("start")
    /\ UNCHANGED ctx

\* fn runs its statements on the branches; they change data, not the branch.
Business ==
    /\ pc = "business"
    /\ \/ pc' = "end" /\ UNCHANGED <<cur, err, phase>>
       \/ GiveUp("business")
    /\ UNCHANGED <<branch, lost, ctx, faults>>

End ==
    /\ pc = "end"
    /\ \/ /\ ExecOk(cur, "END") /\ SetPhase("ended")
          /\ Continue("end", "prepare") /\ UNCHANGED err
       \/ ExecErr(cur, "END") /\ GiveUp("end")
    /\ UNCHANGED ctx

MutantPrepareErrorIgnored ==
    /\ pc = "prepare"
    /\ ExecOk(cur, "PREPARE") \/ ExecErr(cur, "PREPARE")
    /\ SetPhase("prepared") /\ Continue("prepare", "commit")
    /\ UNCHANGED <<ctx, err>>

Prepare ==
    /\ pc = "prepare"
    /\ \/ /\ ExecOk(cur, "PREPARE") /\ SetPhase("prepared")
          /\ Continue("prepare", "commit") /\ UNCHANGED err
       \/ ExecErr(cur, "PREPARE") /\ GiveUp("prepare")
    /\ UNCHANGED ctx

MutantCommitErrorDropped ==
    /\ pc = "commit"
    /\ \/ ExecOk(cur, "COMMIT") /\ SetPhase("committed")
       \/ ExecErr(cur, "COMMIT") /\ SetPhase("inDoubt")
    /\ Continue("commit", "returned")
    /\ UNCHANGED <<ctx, err>>

MutantCommitErrorRollsBack ==
    /\ pc = "commit"
    /\ \/ /\ ExecOk(cur, "COMMIT") /\ SetPhase("committed") /\ UNCHANGED err
          /\ Continue("commit", "returned")
       \/ ExecErr(cur, "COMMIT") /\ GiveUp("commit")
    /\ UNCHANGED ctx

\* An error leaves the branch in doubt and the loop goes on.
Commit ==
    /\ pc = "commit"
    /\ \/ ExecOk(cur, "COMMIT") /\ SetPhase("committed") /\ UNCHANGED err
       \/ ExecErr(cur, "COMMIT") /\ SetPhase("inDoubt") /\ err' = "commit"
    /\ Continue("commit", "returned")
    /\ UNCHANGED ctx

\* rollbackAll: both statements ignore their error.
RollbackEnd ==
    /\ pc = "rollbackEnd"
    /\ ExecOk(cur, "END") \/ ExecErr(cur, "END")
    /\ pc' = "rollback"
    /\ UNCHANGED <<phase, cur, ctx, err>>

Rollback ==
    /\ pc = "rollback"
    /\ IF phase[cur] \in {"started", "ended", "prepared"}
       THEN ExecOk(cur, "ROLLBACK") \/ ExecErr(cur, "ROLLBACK")
       ELSE UNCHANGED <<branch, lost, faults>>
    /\ SetPhase("rolledBack")
    /\ IF cur < N THEN RollbackFrom(cur + 1) ELSE pc' = "returned" /\ UNCHANGED cur
    /\ UNCHANGED <<ctx, err>>

Running == pc \notin {"returned", "crashed"}

RunStep ==
    \/ AcquireError \/ Start \/ Business \/ End \/ Prepare \/ Commit
    \/ RollbackEnd \/ Rollback

-----------------------------------------------------------------------------
(* Around Run.                                                             *)

Cancel ==
    /\ Running /\ ctx = "live"
    /\ ctx' = "cancelled"
    /\ UNCHANGED <<branch, lost, phase, pc, cur, err, faults>>

\* A connection breaks between two statements.
Disconnect(i) ==
    /\ i \notin lost /\ Fault
    /\ lost' = lost \cup {i}
    /\ branch' = [branch EXCEPT ![i] = Dropped(@)]
    /\ UNCHANGED <<phase, pc, cur, ctx, err>>

\* The coordinator dies, and its connections with it.
CrashRun ==
    /\ Running /\ Fault
    /\ pc' = "crashed"
    /\ lost' = Resources
    /\ branch' = [i \in Resources |-> Dropped(branch[i])]
    /\ UNCHANGED <<phase, cur, ctx, err>>

MutantPendingInDoubtOnly == {i \in Resources : branch[i] = "prepared" /\ phase[i] = "inDoubt"}

\* Pending: XA RECOVER lists the prepared branches.
Pending == {i \in Resources : branch[i] = "prepared"}

MayResolve == ~OperatorWaits \/ ~Running

resolve(i, to) ==
    /\ i \in Pending /\ MayResolve
    /\ branch' = [branch EXCEPT ![i] = to]
    /\ UNCHANGED <<lost, phase, pc, cur, ctx, err, faults>>

\* The operator looks at all databases first and commits a branch only if none
\* of the others is missing, ...
CommitPending(i) ==
    /\ \A j \in Resources : branch[j] \in {"prepared", "committed"}
    /\ resolve(i, "committed")

\* ... and rolls it back only if none of the others has committed.
RollbackPending(i) ==
    /\ \A j \in Resources : branch[j] # "committed"
    /\ resolve(i, "aborted")

Operator == \E i \in Resources : CommitPending(i) \/ RollbackPending(i)

Next ==
    \/ RunStep
    \/ Cancel \/ CrashRun \/ \E i \in Resources : Disconnect(i)
    \/ Operator

Spec == Init /\ [][Next]_vars

\* Run goes on, and the operator attends to what Pending lists.
Fairness == WF_vars(RunStep) /\ WF_vars(Operator)

FairSpec == Spec /\ Fairness

-----------------------------------------------------------------------------
\* Run (xa.go:50-51): all resources commit, or none do.  Neither a failure in
\* any phase, nor an answer that is lost, nor a crash, nor the recovery after
\* it leaves one branch committed and another rolled back.
Atomic ==
    ~ \E i, j \in Resources : branch[i] = "committed" /\ branch[j] = "aborted"

\* Run's answer: nil means that every branch is committed, so no branch is
\* still waiting for an operator nobody calls.
NilMeansCommitted ==
    pc = "returned" /\ err = "nil" => \A i \in Resources : branch[i] = "committed"

\* The outcome of Run (xa.go:50-51): all or nothing, and nil for all.
AllOrNothing == Atomic /\ NilMeansCommitted

\* Phase 3 (xa.go:23-24): a branch commits only once every branch has been
\* prepared, whoever commits it.
CommitsAfterAllPrepared ==
    \A i \in Resources :
      branch[i] # "committed" /\ branch'[i] = "committed" =>
        \A j \in Resources : branch[j] \in {"prepared", "committed"}

TwoPhase == [][CommitsAfterAllPrepared]_vars

\* xa.go:26-29: what a crash or an unconfirmed commit strands is prepared, is
\* listed by Pending, and is resolved in the end: no branch keeps its locks
\* prepared for ever.
PreparedIsResolved == <>[](\A i \in Resources : branch[i] # "prepared")

\* xa.go:24 as it is written: any failure before the commit rolls back
\* everything, so a Run that returned such an error leaves no branch open.
FailureRollsBackEverything ==
    pc = "returned" /\ err \notin {"nil", "commit"} =>
      \A i \in Resources : branch[i] \in {"none", "aborted"}
=============================================================================
