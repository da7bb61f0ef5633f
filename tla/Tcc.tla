--------------------------------- MODULE Tcc ---------------------------------
(***************************************************************************)
(* transaction/tcc: one Run over a list of participants: Try for each, and *)
(* then Confirm for each, or Cancel for each that was attempted.           *)
(***************************************************************************)
EXTENDS Naturals, Sequences

CONSTANT MaxParticipants  \* bound: participants of a transaction

ASSUME TccAssumption == MaxParticipants \in Nat

VARIABLES
    participants,  \* the argument of Run: does Run accept it, can it cancel?
    tccPc,         \* "validate", "try", "confirm", "cancel" or "returned"
    turn,          \* the participant the current loop is at
    reservation,   \* what each participant holds
    calls,         \* the calls made to each participant
    tccErr         \* which calls' errors Run returns: <<function, participant>>

tccVars == <<participants, tccPc, turn, reservation, calls, tccErr>>

-----------------------------------------------------------------------------
Participant == [complete : BOOLEAN, cancel : BOOLEAN]

Functions == {"Try", "Confirm", "Cancel"}

TccTypeOK ==
    /\ participants \in UNION {[1..n -> Participant] : n \in 0..MaxParticipants}
    /\ tccPc \in {"validate", "try", "confirm", "cancel", "returned"}
    /\ turn \in 0..(Len(participants) + 1)
    /\ reservation \in [DOMAIN participants -> {"none", "held", "confirmed", "released"}]
    /\ calls \in [DOMAIN participants -> SUBSET Functions]
    /\ tccErr \in SUBSET ((Functions \cup {"validate"}) \X DOMAIN participants)

TccInit ==
    /\ participants \in UNION {[1..n -> Participant] : n \in 0..MaxParticipants}
    /\ tccPc = "validate" /\ turn = 1
    /\ reservation = [i \in DOMAIN participants |-> "none"]
    /\ calls = [i \in DOMAIN participants |-> {}]
    /\ tccErr = {}

-----------------------------------------------------------------------------
(* Definitions named Mutant... are faulty variants of the one after them;  *)
(* no specification uses them.                                             *)

Holds(to) == reservation' = [reservation EXCEPT ![turn] = to]

Calls(f) == calls' = [calls EXCEPT ![turn] = @ \cup {f}]

Reports(f) == tccErr' = tccErr \cup {<<f, turn>>}

\* Run refuses a participant without Try or Confirm before it calls anyone.
Validate ==
    /\ tccPc = "validate"
    /\ IF turn > Len(participants)
       THEN tccPc' = "try" /\ turn' = 1 /\ UNCHANGED tccErr
       ELSE IF participants[turn].complete
            THEN turn' = turn + 1 /\ UNCHANGED <<tccPc, tccErr>>
            ELSE Reports("validate") /\ tccPc' = "returned" /\ UNCHANGED turn
    /\ UNCHANGED <<participants, reservation, calls>>

MutantTryCancelsCompletedOnly ==
    /\ tccPc = "try"
    /\ IF turn > Len(participants)
       THEN tccPc' = "confirm" /\ turn' = 1 /\ UNCHANGED <<reservation, calls, tccErr>>
       ELSE /\ Calls("Try")
            /\ \/ Holds("held") /\ turn' = turn + 1 /\ UNCHANGED <<tccPc, tccErr>>
               \/ /\ Holds("held") \/ UNCHANGED reservation
                  /\ Reports("Try") /\ tccPc' = "cancel" /\ turn' = turn - 1
    /\ UNCHANGED participants

\* A Try that reports an error may have stored its reservation or not.
Try ==
    /\ tccPc = "try"
    /\ IF turn > Len(participants)
       THEN tccPc' = "confirm" /\ turn' = 1 /\ UNCHANGED <<reservation, calls, tccErr>>
       ELSE /\ Calls("Try")
            /\ \/ Holds("held") /\ turn' = turn + 1 /\ UNCHANGED <<tccPc, tccErr>>
               \/ /\ Holds("held") \/ UNCHANGED reservation
                  /\ Reports("Try") /\ tccPc' = "cancel" /\ UNCHANGED turn
    /\ UNCHANGED participants

MutantConfirmFailureCancels ==
    /\ tccPc = "confirm"
    /\ IF turn > Len(participants)
       THEN tccPc' = "returned" /\ UNCHANGED <<turn, reservation, calls, tccErr>>
       ELSE /\ Calls("Confirm")
            /\ \/ Holds("confirmed") /\ turn' = turn + 1 /\ UNCHANGED <<tccPc, tccErr>>
               \/ Reports("Confirm") /\ tccPc' = "cancel" /\ UNCHANGED <<turn, reservation>>
    /\ UNCHANGED participants

\* An error is joined and the loop goes on.
Confirm ==
    /\ tccPc = "confirm"
    /\ IF turn > Len(participants)
       THEN tccPc' = "returned" /\ UNCHANGED <<turn, reservation, calls, tccErr>>
       ELSE /\ Calls("Confirm") /\ turn' = turn + 1
            /\ \/ Holds("confirmed") /\ UNCHANGED tccErr
               \/ Reports("Confirm") /\ UNCHANGED reservation
            /\ UNCHANGED tccPc
    /\ UNCHANGED participants

\* cancel, last attempted first; a participant without Cancel is passed over.
CancelOne ==
    /\ tccPc = "cancel"
    /\ IF turn = 0
       THEN tccPc' = "returned" /\ UNCHANGED <<turn, reservation, calls, tccErr>>
       ELSE /\ turn' = turn - 1
            /\ IF participants[turn].cancel
               THEN /\ Calls("Cancel")
                    /\ \/ /\ IF reservation[turn] = "held"
                             THEN Holds("released") ELSE UNCHANGED reservation
                          /\ UNCHANGED tccErr
                       \/ Reports("Cancel") /\ UNCHANGED reservation
               ELSE UNCHANGED <<reservation, calls, tccErr>>
            /\ UNCHANGED tccPc
    /\ UNCHANGED participants

TccNext == Validate \/ Try \/ Confirm \/ CancelOne

TccSpec == TccInit /\ [][TccNext]_tccVars

-----------------------------------------------------------------------------
\* Run (tcc.go:25-28): when it returns after a failed Try, a participant still
\* holding its reservation has no Cancel, or its Cancel failed and Run says
\* so; the participant whose Try failed is no exception, although it may have
\* reserved before it failed.
NothingStranded ==
    tccPc = "returned" =>
      \A i \in DOMAIN participants :
        /\ reservation[i] = "held" =>
             \/ ~participants[i].cancel
             \/ <<"Cancel", i>> \in tccErr \/ <<"Confirm", i>> \in tccErr
        /\ tccErr = {} => reservation[i] = "confirmed"

\* tcc.go:29-32: Confirm starts only after every Try succeeded, and no
\* participant is cancelled once one of them was asked to confirm.
ConfirmedOrCancelled ==
    (\E i \in DOMAIN participants : "Confirm" \in calls[i]) =>
      \A i \in DOMAIN participants :
        "Try" \in calls[i] /\ "Cancel" \notin calls[i] /\ <<"Try", i>> \notin tccErr

\* What a caller of Run (tcc.go:25-32) can rely on: no reservation is left
\* without a word, and the participants are confirmed or cancelled, not both.
TccContract == NothingStranded /\ ConfirmedOrCancelled
=============================================================================
