------------------------- MODULE CoordinatorProofs --------------------------
(***************************************************************************)
(* The coordinators of transaction/: xa, saga and tcc, for lists of        *)
(* resources, steps and participants of any length.                        *)
(***************************************************************************)
EXTENDS XA, Saga, Tcc, TLAPS

-----------------------------------------------------------------------------
(***************************************************************************)
(* Atomicity of transaction/xa for any number of resources, of faults and  *)
(* of operator's steps, given an operator who resolves a branch only when  *)
(* no Run is driving it.  AllOrNothing is not inductive: a branch commits  *)
(* safely only because, in the commit loop, nobody can roll back any more. *)
(***************************************************************************)

NoneCommitted == \A i \in Resources : branch[i] # "committed"

AllYes == \A i \in Resources : branch[i] \in {"prepared", "committed"}

\* A branch is committed only after all of them have voted, and then no vote is
\* taken back; Run's position says which of the two holds.
Voted ==
    /\ NoneCommitted \/ AllYes
    /\ pc \in {"start", "business", "end", "prepare", "rollbackEnd", "rollback"} => NoneCommitted
    /\ pc \in {"rollbackEnd", "rollback"} => err # "nil"
    /\ pc = "prepare" => \A i \in Resources : i < cur => branch[i] = "prepared"
    /\ pc = "commit" =>
         /\ AllYes
         /\ err = "nil" => \A i \in Resources : i < cur => branch[i] = "committed"
    /\ pc = "returned" /\ err = "nil" => \A i \in Resources : branch[i] = "committed"

XAInv == TypeOK /\ Voted

-----------------------------------------------------------------------------
(* What statements do to branches.                                         *)

\* A session that ends leaves prepared and committed branches alone, and
\* commits nothing.
LEMMA DroppedFacts ==
    ASSUME NEW b \in Branches
    PROVE  /\ Dropped(b) \in Branches
           /\ Dropped(b) = "committed" <=> b = "committed"
           /\ b \in {"prepared", "committed"} => Dropped(b) = b
  BY DEF Dropped, Branches

\* exec touches one branch and, unless the statement is COMMIT, commits none; a
\* PREPARE or COMMIT never undoes a vote.
LEMMA ExecFacts ==
    ASSUME TypeOK, NEW i \in Resources,
           NEW verb \in {"START", "END", "PREPARE", "COMMIT", "ROLLBACK"},
           ExecOk(i, verb) \/ ExecErr(i, verb)
    PROVE  /\ branch' \in [Resources -> Branches]
           /\ lost' \in SUBSET Resources
           /\ faults' \in Nat
           /\ \A j \in Resources : j # i => branch'[j] = branch[j]
           /\ branch'[i] = "committed" /\ verb # "COMMIT" => branch[i] = "committed"
           /\ verb \in {"PREPARE", "COMMIT"} /\ branch[i] \in {"prepared", "committed"} =>
                branch'[i] \in {"prepared", "committed"}
  <1>1. CASE ExecOk(i, verb)
    BY <1>1 DEF ExecOk, Moves, TypeOK, Branches
  <1>2. CASE ExecErr(i, verb)
    <2>1. CASE UNCHANGED <<branch, lost, faults>>
      BY <2>1 DEF TypeOK
    <2>2. CASE Fault /\ UNCHANGED <<branch, lost>>
      BY <2>2 DEF Fault, TypeOK
    <2>3. ASSUME Fault, lost' = lost \cup {i},
                 NEW to \in Branches,
                 to = branch[i] \/ <<branch[i], to>> \in Moves(verb),
                 branch' = [branch EXCEPT ![i] = Dropped(to)]
          PROVE  /\ branch' \in [Resources -> Branches]
                 /\ lost' \in SUBSET Resources
                 /\ faults' \in Nat
                 /\ \A j \in Resources : j # i => branch'[j] = branch[j]
                 /\ branch'[i] = "committed" /\ verb # "COMMIT" => branch[i] = "committed"
                 /\ verb \in {"PREPARE", "COMMIT"} /\ branch[i] \in {"prepared", "committed"} =>
                      branch'[i] \in {"prepared", "committed"}
      <3>1. branch'[i] = Dropped(to) /\ \A j \in Resources : j # i => branch'[j] = branch[j]
        BY <2>3 DEF TypeOK
      <3>2. branch' \in [Resources -> Branches]
        BY <2>3, DroppedFacts DEF TypeOK
      <3>3. to = "committed" /\ verb # "COMMIT" => branch[i] = "committed"
        BY <2>3 DEF Moves
      <3>4. verb \in {"PREPARE", "COMMIT"} /\ branch[i] \in {"prepared", "committed"} =>
              to \in {"prepared", "committed"}
        BY <2>3 DEF Moves
      <3>5. lost' \in SUBSET Resources /\ faults' \in Nat
        BY <2>3 DEF Fault, TypeOK
      <3> QED
        BY <3>1, <3>2, <3>3, <3>4, <3>5, DroppedFacts
    <2> QED
      BY <1>2, <2>1, <2>2, <2>3, Zenon DEF ExecErr
  <1> QED
    BY <1>1, <1>2

\* A successful PREPARE prepares and a successful COMMIT commits.
LEMMA ExecVotes ==
    ASSUME TypeOK, NEW i \in Resources
    PROVE  /\ ExecOk(i, "PREPARE") => branch'[i] = "prepared"
           /\ ExecOk(i, "COMMIT") => branch'[i] = "committed"
  BY DEF ExecOk, Moves, TypeOK

-----------------------------------------------------------------------------
LEMMA XAInit == Init => XAInv
  <1> SUFFICES ASSUME Init PROVE XAInv
    OBVIOUS
  <1>1. 1 \in Resources
    BY XAAssumption DEF Resources
  <1>2. TypeOK
    BY <1>1 DEF Init, TypeOK, Branches, Phases, Pcs, Errors
  <1>3. Voted
    BY DEF Init, Voted, NoneCommitted
  <1> QED
    BY <1>2, <1>3 DEF XAInv

\* The loops keep to the resources.
LEMMA LoopTypes ==
    ASSUME TypeOK
    PROVE  /\ \A here, next \in Pcs : Continue(here, next) => pc' \in Pcs /\ cur' \in Resources
           /\ \A i \in Resources : RollbackFrom(i) => pc' \in Pcs /\ cur' \in Resources
           /\ \A p \in Phases : SetPhase(p) => phase' \in [Resources -> Phases]
  <1>1. N \in Nat /\ N > 0 /\ cur \in 1..N
    BY XAAssumption DEF TypeOK, Resources
  <1>2. \A here, next \in Pcs : Continue(here, next) => pc' \in Pcs /\ cur' \in Resources
    BY <1>1 DEF Continue, Resources
  <1>3. \A i \in Resources : RollbackFrom(i) => pc' \in Pcs /\ cur' \in Resources
    BY DEF RollbackFrom, Pcs
  <1>4. \A p \in Phases : SetPhase(p) => phase' \in [Resources -> Phases]
    BY DEF SetPhase, TypeOK
  <1> QED
    BY <1>2, <1>3, <1>4

\* Giving up before the commit leads into rollbackAll with an error set.
LEMMA GiveUpFacts ==
    ASSUME TypeOK, NEW stage \in Errors \ {"nil"}, GiveUp(stage)
    PROVE  /\ pc' \in {"rollbackEnd", "rollback"} /\ err' # "nil"
           /\ err' \in Errors /\ cur' \in Resources /\ phase' \in [Resources -> Phases]
  <1>1. 1 \in Resources
    BY XAAssumption DEF Resources
  <1> QED
    BY <1>1 DEF GiveUp, RollbackFrom, TypeOK

-----------------------------------------------------------------------------
LEMMA TypeStep == TypeOK /\ [Next]_vars => TypeOK'
  <1> SUFFICES ASSUME TypeOK, [Next]_vars PROVE TypeOK'
    OBVIOUS
  <1> USE LoopTypes
  <1>1. cur \in Resources /\ 1 \in Resources
    BY XAAssumption DEF TypeOK, Resources
  <1>2. {"start", "business", "end", "prepare", "commit", "rollbackEnd", "rollback",
         "returned"} \subseteq Pcs
    BY DEF Pcs
  <1>3. CASE AcquireError
    BY <1>3 DEF AcquireError, Fault, TypeOK, Pcs, Errors
  <1>4. CASE Start
    <2>1. ExecOk(cur, "START") \/ ExecErr(cur, "START")
      BY <1>4 DEF Start
    <2>2. branch' \in [Resources -> Branches] /\ lost' \in SUBSET Resources /\ faults' \in Nat
      BY <1>1, <2>1, ExecFacts
    <2>3. phase' \in [Resources -> Phases] /\ pc' \in Pcs /\ cur' \in Resources
          /\ err' \in Errors /\ ctx' = ctx
      BY <1>2, <1>4, GiveUpFacts DEF Start, TypeOK, Phases, Errors, Pcs
    <2> QED
      BY <2>2, <2>3 DEF TypeOK
  <1>5. CASE Business
    BY <1>1, <1>5, GiveUpFacts DEF Business, TypeOK, Pcs, Errors
  <1>6. CASE End
    <2>1. ExecOk(cur, "END") \/ ExecErr(cur, "END")
      BY <1>6 DEF End
    <2>2. branch' \in [Resources -> Branches] /\ lost' \in SUBSET Resources /\ faults' \in Nat
      BY <1>1, <2>1, ExecFacts
    <2>3. phase' \in [Resources -> Phases] /\ pc' \in Pcs /\ cur' \in Resources
          /\ err' \in Errors /\ ctx' = ctx
      BY <1>2, <1>6, GiveUpFacts DEF End, TypeOK, Phases, Errors, Pcs
    <2> QED
      BY <2>2, <2>3 DEF TypeOK
  <1>7. CASE Prepare
    <2>1. ExecOk(cur, "PREPARE") \/ ExecErr(cur, "PREPARE")
      BY <1>7 DEF Prepare
    <2>2. branch' \in [Resources -> Branches] /\ lost' \in SUBSET Resources /\ faults' \in Nat
      BY <1>1, <2>1, ExecFacts
    <2>3. phase' \in [Resources -> Phases] /\ pc' \in Pcs /\ cur' \in Resources
          /\ err' \in Errors /\ ctx' = ctx
      BY <1>2, <1>7, GiveUpFacts DEF Prepare, TypeOK, Phases, Errors, Pcs
    <2> QED
      BY <2>2, <2>3 DEF TypeOK
  <1>8. CASE Commit
    <2>1. ExecOk(cur, "COMMIT") \/ ExecErr(cur, "COMMIT")
      BY <1>8 DEF Commit
    <2>2. branch' \in [Resources -> Branches] /\ lost' \in SUBSET Resources /\ faults' \in Nat
      BY <1>1, <2>1, ExecFacts
    <2>3. phase' \in [Resources -> Phases] /\ pc' \in Pcs /\ cur' \in Resources
          /\ err' \in Errors /\ ctx' = ctx
      BY <1>2, <1>8 DEF Commit, TypeOK, Phases, Errors
    <2> QED
      BY <2>2, <2>3 DEF TypeOK
  <1>9. CASE RollbackEnd
    BY <1>1, <1>9, ExecFacts DEF RollbackEnd, TypeOK, Pcs
  <1>10. CASE Rollback
    <2>1. branch' \in [Resources -> Branches] /\ lost' \in SUBSET Resources /\ faults' \in Nat
      BY <1>1, <1>10, ExecFacts DEF Rollback, TypeOK
    <2>2. phase' \in [Resources -> Phases] /\ err' = err /\ ctx' = ctx
      BY <1>10 DEF Rollback, Phases
    <2>3. pc' \in Pcs /\ cur' \in Resources
      <3>1. CASE cur < N
        <4>1. cur + 1 \in Resources
          BY <1>1, <3>1, XAAssumption DEF Resources
        <4> QED
          BY <1>10, <3>1, <4>1 DEF Rollback
      <3>2. CASE ~(cur < N)
        BY <1>1, <1>2, <1>10, <3>2 DEF Rollback
      <3> QED
        BY <3>1, <3>2
    <2> QED
      BY <2>1, <2>2, <2>3 DEF TypeOK
  <1>11. CASE Cancel
    BY <1>11 DEF Cancel, TypeOK
  <1>12. CASE CrashRun
    BY <1>12, DroppedFacts DEF CrashRun, Fault, TypeOK, Pcs
  <1>13. ASSUME NEW i \in Resources, Disconnect(i) PROVE TypeOK'
    BY <1>13, DroppedFacts DEF Disconnect, Fault, TypeOK
  <1>14. ASSUME NEW i \in Resources, CommitPending(i) \/ RollbackPending(i) PROVE TypeOK'
    BY <1>14 DEF CommitPending, RollbackPending, resolve, TypeOK, Branches
  <1>15. CASE UNCHANGED vars
    BY <1>15 DEF vars, TypeOK
  <1> QED
    BY <1>3, <1>4, <1>5, <1>6, <1>7, <1>8, <1>9, <1>10, <1>11, <1>12, <1>13, <1>14, <1>15
    DEF Next, RunStep, Operator

-----------------------------------------------------------------------------
\* A step that leaves Run in its position or drops it, and takes back no vote.
LEMMA VotesKept ==
    ASSUME TypeOK, Voted, UNCHANGED err,
           pc' = "crashed" \/ UNCHANGED <<pc, cur>>,
           \A i \in Resources : /\ branch'[i] = "committed" <=> branch[i] = "committed"
                                /\ branch[i] \in {"prepared", "committed"} => branch'[i] = branch[i]
    PROVE  Voted'
  BY DEF Voted, NoneCommitted, AllYes

LEMMA VotedStep ==
    ASSUME OperatorWaits, XAInv, [Next]_vars
    PROVE  Voted' /\ (CommitsAfterAllPrepared \/ UNCHANGED vars)
  <1> USE DEF XAInv
  <1>1. cur \in Resources /\ 1 \in Resources /\ N \in Nat /\ cur \in 1..N
    BY XAAssumption DEF TypeOK, Resources
  <1>2. ASSUME NoneCommitted, NoneCommitted',
               pc' \in {"start", "business", "end", "rollbackEnd", "rollback"},
               pc' \in {"rollbackEnd", "rollback"} => err' # "nil"
        PROVE  Voted' /\ CommitsAfterAllPrepared
    BY <1>2 DEF Voted, NoneCommitted, CommitsAfterAllPrepared
  <1>3. CASE AcquireError
    BY <1>3 DEF AcquireError, Voted, NoneCommitted, AllYes, CommitsAfterAllPrepared
  <1>4. ASSUME NEW verb \in {"START", "END", "PREPARE", "ROLLBACK"},
               ExecOk(cur, verb) \/ ExecErr(cur, verb), NoneCommitted
        PROVE  NoneCommitted'
    BY <1>1, <1>4, ExecFacts DEF NoneCommitted
  <1>5. CASE Start
    <2>1. NoneCommitted /\ NoneCommitted'
      BY <1>4, <1>5 DEF Start, Voted
    <2>2. CASE GiveUp("start")
      BY <1>2, <2>1, <2>2, GiveUpFacts DEF Errors
    <2>3. CASE Continue("start", "business")
      BY <1>2, <2>1, <2>3 DEF Continue
    <2> QED
      BY <1>5, <2>2, <2>3 DEF Start
  <1>6. CASE Business
    <2>1. NoneCommitted /\ NoneCommitted'
      BY <1>6 DEF Business, Voted, NoneCommitted
    <2>2. CASE GiveUp("business")
      BY <1>2, <2>1, <2>2, GiveUpFacts DEF Errors
    <2>3. CASE pc' = "end"
      BY <1>2, <2>1, <2>3
    <2> QED
      BY <1>6, <2>2, <2>3 DEF Business
  <1>7. CASE End
    <2>1. NoneCommitted /\ NoneCommitted'
      BY <1>4, <1>7 DEF End, Voted
    <2>2. CASE GiveUp("end")
      BY <1>2, <2>1, <2>2, GiveUpFacts DEF Errors
    <2>3. CASE Continue("end", "prepare")
      <3>1. CASE cur < N
        BY <1>2, <2>1, <2>3, <3>1 DEF Continue
      <3>2. CASE ~(cur < N)
        BY <1>1, <2>1, <2>3, <3>2 DEF Continue, Voted, NoneCommitted, Resources,
                                      CommitsAfterAllPrepared
      <3> QED
        BY <3>1, <3>2
    <2> QED
      BY <1>7, <2>2, <2>3 DEF End
  <1>8. CASE Prepare
    <2>1. NoneCommitted /\ NoneCommitted'
      BY <1>4, <1>8 DEF Prepare, Voted
    <2>2. CASE GiveUp("prepare")
      BY <1>2, <2>1, <2>2, GiveUpFacts DEF Errors
    <2>3. CASE ExecOk(cur, "PREPARE") /\ Continue("prepare", "commit") /\ UNCHANGED err
      <3>1. \A i \in Resources : i < cur => branch[i] = "prepared"
        BY <1>8 DEF Prepare, Voted
      <3>2. \A i \in Resources : i <= cur => branch'[i] = "prepared"
        <4> SUFFICES ASSUME NEW i \in Resources, i <= cur PROVE branch'[i] = "prepared"
          OBVIOUS
        <4>1. CASE i = cur
          BY <1>1, <2>3, <4>1, ExecVotes
        <4>2. CASE i # cur
          <5>1. i < cur
            BY <1>1, <4>2 DEF Resources
          <5>2. branch'[i] = branch[i]
            BY <1>1, <2>3, <4>2, ExecFacts
          <5> QED
            BY <3>1, <5>1, <5>2
        <4> QED
          BY <4>1, <4>2
      <3>3. CASE cur < N
        <4>1. pc' = "prepare" /\ \A i \in Resources : i < cur' => branch'[i] = "prepared"
          BY <1>1, <2>3, <3>2, <3>3 DEF Continue, Resources
        <4> QED
          BY <2>1, <4>1 DEF Voted, NoneCommitted, CommitsAfterAllPrepared
      <3>4. CASE ~(cur < N)
        <4>1. pc' = "commit" /\ cur' = 1 /\ AllYes'
          BY <1>1, <2>3, <3>2, <3>4 DEF Continue, Resources, AllYes
        <4>2. \A i \in Resources : ~(i < cur')
          BY <4>1 DEF Resources
        <4> QED
          BY <2>1, <4>1, <4>2 DEF Voted, NoneCommitted, CommitsAfterAllPrepared
      <3> QED
        BY <3>3, <3>4
    <2> QED
      BY <1>8, <2>2, <2>3 DEF Prepare
  <1>9. CASE Commit
    <2>1. AllYes
      BY <1>9 DEF Commit, Voted
    <2>2. ExecOk(cur, "COMMIT") \/ ExecErr(cur, "COMMIT")
      BY <1>9 DEF Commit
    <2>3. AllYes'
      BY <1>1, <2>1, <2>2, ExecFacts DEF AllYes
    <2>4. ASSUME err' = "nil" PROVE \A i \in Resources : i <= cur => branch'[i] = "committed"
      <3>1. ExecOk(cur, "COMMIT") /\ err = "nil"
        BY <1>9, <2>4 DEF Commit
      <3>2. \A i \in Resources : i < cur => branch[i] = "committed"
        BY <1>9, <3>1 DEF Commit, Voted
      <3>3. \A i \in Resources : i # cur => branch'[i] = branch[i]
        BY <1>1, <2>2, ExecFacts
      <3>4. branch'[cur] = "committed"
        BY <1>1, <3>1, ExecVotes
      <3> QED
        BY <1>1, <3>2, <3>3, <3>4 DEF Resources
    <2>5. CASE cur < N
      <3>1. pc' = "commit" /\ cur' = cur + 1
        BY <1>9, <2>5 DEF Commit, Continue
      <3>2. err' = "nil" => \A i \in Resources : i < cur' => branch'[i] = "committed"
        BY <1>1, <2>4, <3>1 DEF Resources
      <3> QED
        BY <2>1, <2>3, <3>1, <3>2 DEF Voted, AllYes, CommitsAfterAllPrepared
    <2>6. CASE ~(cur < N)
      <3>1. pc' = "returned"
        BY <1>9, <2>6 DEF Commit, Continue
      <3>2. err' = "nil" => \A i \in Resources : branch'[i] = "committed"
        BY <1>1, <2>4, <2>6 DEF Resources
      <3> QED
        BY <2>1, <2>3, <3>1, <3>2 DEF Voted, AllYes, CommitsAfterAllPrepared
    <2> QED
      BY <2>5, <2>6
  <1>10. CASE RollbackEnd
    BY <1>2, <1>4, <1>10 DEF RollbackEnd, Voted
  <1>11. CASE Rollback
    <2>1. NoneCommitted /\ err # "nil" /\ err' = err
      BY <1>11 DEF Rollback, Voted
    <2>2. NoneCommitted'
      BY <1>4, <1>11, <2>1 DEF Rollback, NoneCommitted
    <2>3. pc' \in {"rollbackEnd", "rollback", "returned"}
      BY <1>11 DEF Rollback, RollbackFrom
    <2> QED
      BY <2>1, <2>2, <2>3 DEF Voted, NoneCommitted, CommitsAfterAllPrepared
  <1>12. CASE Cancel
    BY <1>12, VotesKept DEF Cancel, CommitsAfterAllPrepared
  <1>13. CASE CrashRun
    <2>1. \A i \in Resources : branch'[i] = Dropped(branch[i]) /\ branch[i] \in Branches
      BY <1>13 DEF CrashRun, TypeOK
    <2> QED
      BY <1>13, <2>1, DroppedFacts, VotesKept DEF CrashRun, CommitsAfterAllPrepared
  <1>14. ASSUME NEW i \in Resources, Disconnect(i)
         PROVE  Voted' /\ CommitsAfterAllPrepared
    <2>1. /\ branch'[i] = Dropped(branch[i]) /\ branch[i] \in Branches
          /\ \A j \in Resources : j # i => branch'[j] = branch[j]
      BY <1>14 DEF Disconnect, TypeOK
    <2> QED
      BY <1>14, <2>1, DroppedFacts, VotesKept DEF Disconnect, CommitsAfterAllPrepared
  <1>15. ASSUME NEW i \in Resources, CommitPending(i) \/ RollbackPending(i)
         PROVE  Voted' /\ CommitsAfterAllPrepared
    <2>1. pc \in {"returned", "crashed"} /\ branch[i] = "prepared" /\ UNCHANGED <<pc, err>>
      BY <1>15 DEF CommitPending, RollbackPending, resolve, MayResolve, Running, Pending
    <2>2. pc = "returned" => err # "nil"
      BY <2>1 DEF Voted
    <2>3. CASE CommitPending(i)
      <3>1. AllYes /\ AllYes'
        BY <2>3 DEF CommitPending, resolve, AllYes, TypeOK
      <3> QED
        BY <2>1, <2>2, <3>1 DEF Voted, AllYes, CommitsAfterAllPrepared
    <2>4. CASE RollbackPending(i)
      <3>1. NoneCommitted /\ NoneCommitted'
        BY <2>4 DEF RollbackPending, resolve, NoneCommitted, TypeOK
      <3> QED
        BY <2>1, <2>2, <3>1 DEF Voted, NoneCommitted, CommitsAfterAllPrepared
    <2> QED
      BY <1>15, <2>3, <2>4
  <1>16. CASE UNCHANGED vars
    BY <1>16, VotesKept DEF vars
  <1> QED
    BY <1>3, <1>5, <1>6, <1>7, <1>8, <1>9, <1>10, <1>11, <1>12, <1>13, <1>14, <1>15, <1>16
    DEF Next, RunStep, Operator

-----------------------------------------------------------------------------
LEMMA XAAlways == ASSUME OperatorWaits PROVE Spec => []XAInv
  <1>1. XAInv /\ [Next]_vars => XAInv'
    BY TypeStep, VotedStep DEF XAInv
  <1> QED
    BY <1>1, XAInit, PTL DEF Spec

\* Run (xa.go:50-51) commits all resources or none, and answers nil only when
\* all are committed, for any number of resources and any faults, provided the
\* operator resolves only what no live Run drives.
THEOREM XAAtomic == ASSUME OperatorWaits PROVE Spec => []AllOrNothing
  <1>1. XAInv => AllOrNothing
    BY DEF XAInv, Voted, NoneCommitted, AllYes, AllOrNothing, Atomic, NilMeansCommitted
  <1> QED
    BY <1>1, XAAlways, PTL

\* Under the same condition no branch commits, whether by Run or by the
\* operator, before every branch is prepared (xa.go:23-24).
THEOREM XATwoPhase == ASSUME OperatorWaits PROVE Spec => TwoPhase
  <1>1. XAInv /\ [Next]_vars => [CommitsAfterAllPrepared]_vars
    BY VotedStep
  <1> QED
    BY <1>1, XAAlways, PTL DEF Spec, TwoPhase

-----------------------------------------------------------------------------
(***************************************************************************)
(* The contract of saga.Run for sagas of any length.  SagaContract speaks  *)
(* of the end of Run; the invariant adds where the two loops stand: what   *)
(* is completed below the step Do is at, and what is already compensated   *)
(* above the step Undo is at.                                              *)
(***************************************************************************)

\* A list of steps of this length or less.
SagaSteps == UNION {[1..n -> Step] : n \in 0..MaxSteps}

SagaTypes ==
    /\ steps \in SagaSteps
    /\ at \in Nat
    /\ effects \subseteq DOMAIN steps
    /\ undone \in Seq(Nat)
    /\ sagaErr \in [kind : {"nil", "noDo", "failed"}, step : Nat, undo : SUBSET Nat]

Forward ==
    sagaPc = "do" =>
      /\ at \in 1..(Len(steps) + 1)
      /\ effects = 1..(at - 1)
      /\ undone = <<>>
      /\ sagaErr.kind = "nil"

\* The steps above at are compensated or reported, and at is below all that
\* was undone.
Backward ==
    sagaPc = "undo" =>
      /\ at < sagaErr.step
      /\ sagaErr.kind = "failed"
      /\ \A i \in effects : at < i /\ steps[i].undo => i \in sagaErr.undo
      /\ \A k \in 1..Len(undone) : at < undone[k]

SagaInv == SagaTypes /\ sagaPc \in {"do", "undo", "returned"} /\ Forward /\ Backward /\ SagaContract

\* Lists of steps are sequences.
LEMMA StepsFacts ==
    ASSUME NEW s \in SagaSteps
    PROVE  Len(s) \in Nat /\ DOMAIN s = 1..Len(s)
  <1>1. PICK n \in 0..MaxSteps : s \in [1..n -> Step]
    BY DEF SagaSteps
  <1>2. n \in Nat
    BY SagaAssumption
  <1>3. s \in Seq(Step)
    BY <1>1, <1>2
  <1> QED
    BY <1>3

LEMMA SagaStart == SagaInit => SagaInv
  <1> SUFFICES ASSUME SagaInit PROVE SagaInv
    OBVIOUS
  <1>1. steps \in SagaSteps
    BY DEF SagaInit, SagaSteps
  <1>2. Len(steps) \in Nat
    BY <1>1, StepsFacts
  <1>3. SagaTypes
    BY <1>1 DEF SagaInit, SagaTypes
  <1>4. Forward
    BY <1>2 DEF SagaInit, Forward
  <1>5. Backward /\ SagaContract
    BY DEF SagaInit, Backward, SagaContract, LeftoversAreReported, UndoneInReverse
  <1> QED
    BY <1>3, <1>4, <1>5 DEF SagaInv, SagaInit

-----------------------------------------------------------------------------
\* Going forwards: nothing is undone, and what is completed is what Do passed.
LEMMA ForwardStep ==
    ASSUME SagaInv, MissingDo \/ Do \/ Done
    PROVE  SagaInv'
  <1> USE DEF SagaInv
  <1>1. Len(steps) \in Nat /\ DOMAIN steps = 1..Len(steps)
    BY StepsFacts DEF SagaTypes
  <1>2. /\ sagaPc = "do" /\ steps' = steps /\ undone = <<>> /\ undone' = <<>>
        /\ at \in 1..(Len(steps) + 1) /\ effects = 1..(at - 1) /\ sagaErr.kind = "nil"
    BY DEF MissingDo, Do, Done, Forward
  <1>3. UndoneInReverse'
    BY <1>2 DEF UndoneInReverse
  <1>4. CASE MissingDo
    BY <1>2, <1>3, <1>4, Zenon DEF MissingDo, SagaTypes, Forward, Backward, SagaContract,
                            LeftoversAreReported
  <1>5. CASE Do /\ effects' = effects \cup {at} /\ at' = at + 1 /\ UNCHANGED <<sagaPc, sagaErr>>
    <2>1. at <= Len(steps)
      BY <1>5 DEF Do
    <2>2. effects' = 1..(at' - 1) /\ effects' \subseteq DOMAIN steps
      BY <1>1, <1>2, <1>5, <2>1
    <2> QED
      BY <1>1, <1>2, <1>3, <1>5, <2>1, <2>2 DEF SagaTypes, Forward, Backward, SagaContract,
                                                LeftoversAreReported
  <1>6. CASE Do /\ sagaPc' = "undo" /\ at' = at - 1 /\ UNCHANGED effects
             /\ sagaErr' = [sagaErr EXCEPT !.kind = "failed", !.step = at]
    <2>1. sagaErr'.kind = "failed" /\ sagaErr'.step = at
          /\ sagaErr' \in [kind : {"nil", "noDo", "failed"}, step : Nat, undo : SUBSET Nat]
      BY <1>2, <1>6, Zenon DEF SagaTypes
    <2>2. SagaTypes'
      BY <1>2, <1>6, <2>1 DEF SagaTypes
    <2>3. Backward'
      BY <1>2, <1>6, <2>1 DEF Backward
    <2> QED
      BY <1>3, <1>6, <2>2, <2>3 DEF Forward, SagaContract, LeftoversAreReported
  <1>7. CASE Done
    <2>1. effects = DOMAIN steps
      BY <1>1, <1>2, <1>7 DEF Done
    <2> QED
      BY <1>2, <1>3, <1>7, <2>1 DEF Done, SagaTypes, Forward, Backward, SagaContract,
                                    LeftoversAreReported
  <1> QED
    BY <1>4, <1>5, <1>6, <1>7 DEF Do

\* Going backwards: the step at hand is below all that was undone.
LEMMA UndoStep ==
    ASSUME SagaInv, Undo
    PROVE  SagaInv'
  <1> USE DEF SagaInv
  <1>1. Len(steps) \in Nat /\ DOMAIN steps = 1..Len(steps)
    BY StepsFacts DEF SagaTypes
  <1>2. /\ sagaPc = "undo" /\ sagaPc' = "undo" /\ steps' = steps
        /\ at \in Nat /\ at > 0 /\ at' = at - 1 /\ at < sagaErr.step
        /\ sagaErr.kind = "failed" /\ sagaErr.step \in Nat
    BY DEF Undo, Backward, SagaTypes
  <1>3. CASE UNCHANGED <<effects, undone, sagaErr>> /\ ~steps[at].undo
    <2>1. SagaTypes'
      BY <1>2, <1>3 DEF SagaTypes
    <2>2. \A i \in effects : i \in Nat
      BY <1>1 DEF SagaTypes
    <2>3. Backward'
      <3>1. \A i \in effects : at - 1 < i /\ steps[i].undo => at < i
        BY <1>2, <1>3, <2>2
      <3>2. \A k \in 1..Len(undone) : at - 1 < undone[k]
        BY <1>2 DEF Backward, SagaTypes
      <3> QED
        BY <1>2, <1>3, <3>1, <3>2 DEF Backward
    <2> QED
      BY <1>2, <1>3, <2>1, <2>3 DEF Forward, SagaContract, LeftoversAreReported, UndoneInReverse
  <1>4. ASSUME undone' = Append(undone, at),
               \/ effects' = effects \ {at} /\ sagaErr' = sagaErr
               \/ sagaErr' = [sagaErr EXCEPT !.undo = @ \cup {at}] /\ effects' = effects
        PROVE  SagaInv'
    <2>1. /\ sagaErr'.kind = "failed" /\ sagaErr'.step = sagaErr.step
          /\ sagaErr.undo \subseteq sagaErr'.undo
          /\ at \in effects' => at \in sagaErr'.undo
          /\ sagaErr' \in [kind : {"nil", "noDo", "failed"}, step : Nat, undo : SUBSET Nat]
          /\ effects' \subseteq effects
      BY <1>2, <1>4 DEF SagaTypes
    <2>2. undone \in Seq(Nat) /\ undone' \in Seq(Nat)
      BY <1>2, <1>4 DEF SagaTypes
    <2>3. /\ Len(undone) \in Nat /\ Len(undone') = Len(undone) + 1
          /\ undone'[Len(undone) + 1] = at
          /\ \A k \in 1..Len(undone) : undone'[k] = undone[k] /\ undone[k] \in Nat
      BY <1>2, <1>4, <2>2
    <2>4. SagaTypes'
      BY <1>2, <2>1, <2>2 DEF SagaTypes
    <2>5. \A i \in effects : i \in Nat
      BY <1>1 DEF SagaTypes
    <2>6. \A k \in 1..Len(undone') : at - 1 < undone'[k]
      BY <1>2, <2>3 DEF Backward
    <2>7. \A i \in effects' : at - 1 < i /\ steps[i].undo => i \in sagaErr'.undo
      BY <1>2, <2>1, <2>5 DEF Backward
    <2>8. Backward'
      BY <1>2, <2>1, <2>6, <2>7 DEF Backward
    <2>9. \A i \in 1..(Len(undone') - 1) : undone'[i + 1] < undone'[i]
      <3> SUFFICES ASSUME NEW i \in 1..Len(undone) PROVE undone'[i + 1] < undone'[i]
        BY <2>3
      <3>1. CASE i = Len(undone)
        BY <1>2, <2>3, <3>1 DEF Backward
      <3>2. CASE i # Len(undone)
        <4>1. i \in 1..(Len(undone) - 1) /\ i + 1 \in 1..Len(undone)
          BY <2>3, <3>2
        <4>2. undone[i + 1] < undone[i]
          BY <4>1 DEF SagaContract, UndoneInReverse
        <4> QED
          BY <2>3, <4>1, <4>2
      <3> QED
        BY <3>1, <3>2
    <2>10. \A i \in DOMAIN undone' : undone'[i] \in effects' => undone'[i] \in sagaErr'.undo
      <3>1. DOMAIN undone' = 1..(Len(undone) + 1) /\ DOMAIN undone = 1..Len(undone)
        BY <2>2, <2>3
      <3> SUFFICES ASSUME NEW i \in 1..(Len(undone) + 1), undone'[i] \in effects'
                   PROVE  undone'[i] \in sagaErr'.undo
        BY <3>1
      <3>2. CASE i = Len(undone) + 1
        BY <2>1, <2>3, <3>2
      <3>3. CASE i # Len(undone) + 1
        <4>1. i \in 1..Len(undone)
          BY <2>3, <3>3
        <4> QED
          BY <2>1, <2>3, <3>1, <4>1 DEF SagaContract, UndoneInReverse
      <3> QED
        BY <3>2, <3>3
    <2>11. undone'[1] < sagaErr'.step
      <3>1. CASE Len(undone) = 0
        BY <1>2, <2>1, <2>3, <3>1
      <3>2. CASE Len(undone) # 0
        <4>1. undone # <<>> /\ 1 \in 1..Len(undone)
          BY <2>2, <2>3, <3>2
        <4> QED
          BY <2>1, <2>3, <4>1 DEF SagaContract, UndoneInReverse
      <3> QED
        BY <3>1, <3>2
    <2>12. UndoneInReverse'
      BY <2>1, <2>9, <2>10, <2>11 DEF UndoneInReverse
    <2> QED
      BY <1>2, <2>4, <2>8, <2>12 DEF Forward, SagaContract, LeftoversAreReported
  <1> QED
    BY <1>3, <1>4 DEF Undo

LEMMA SagaStep == SagaInv /\ [SagaNext]_sagaVars => SagaInv'
  <1> SUFFICES ASSUME SagaInv, [SagaNext]_sagaVars PROVE SagaInv'
    OBVIOUS
  <1>1. CASE Compensated
    <2>1. \A i \in effects : 0 < i
      <3>1. Len(steps) \in Nat /\ DOMAIN steps = 1..Len(steps)
        BY StepsFacts DEF SagaInv, SagaTypes
      <3> QED
        BY <3>1 DEF SagaInv, SagaTypes
    <2> QED
      BY <1>1, <2>1 DEF Compensated, SagaInv, SagaTypes, Forward, Backward, SagaContract,
                        LeftoversAreReported, UndoneInReverse
  <1>2. CASE UNCHANGED sagaVars
    BY <1>2 DEF sagaVars, SagaInv, SagaTypes, Forward, Backward, SagaContract,
                LeftoversAreReported, UndoneInReverse
  <1> QED
    BY <1>1, <1>2, ForwardStep, UndoStep DEF SagaNext

\* saga.Run (saga.go:49-52), for sagas of any length and any failures: the joined
\* error names every effect that is left although it could be undone, nil means
\* that all steps took effect, and Undo runs backwards over completed steps.
THEOREM SagaKeepsContract == SagaSpec => []SagaContract
  <1>1. SagaInv => SagaContract
    BY DEF SagaInv
  <1> QED
    BY <1>1, SagaStart, SagaStep, PTL DEF SagaSpec

-----------------------------------------------------------------------------
(***************************************************************************)
(* The contract of tcc.Run for any number of participants.  The invariant  *)
(* says, for each of the four loops, what the participants behind it and   *)
(* before it hold and which calls they have had.                           *)
(***************************************************************************)

TccLists == UNION {[1..n -> Participant] : n \in 0..MaxParticipants}

\* A call is named by a function and a participant, so that calls to different
\* participants, or of different functions, differ.
TccTypes ==
    /\ participants \in TccLists
    /\ turn \in 0..(Len(participants) + 1)
    /\ reservation \in [DOMAIN participants -> {"none", "held", "confirmed", "released"}]
    /\ calls \in [DOMAIN participants -> SUBSET Functions]
    /\ tccPc \in {"validate", "try", "confirm", "cancel", "returned"}

Untouched(i) == reservation[i] = "none" /\ calls[i] = {}

Validating ==
    tccPc = "validate" =>
      turn >= 1 /\ tccErr = {} /\ \A i \in DOMAIN participants : Untouched(i)

Trying ==
    tccPc = "try" =>
      /\ turn >= 1 /\ tccErr = {}
      /\ \A i \in DOMAIN participants :
           IF i < turn THEN reservation[i] = "held" /\ calls[i] = {"Try"} ELSE Untouched(i)

\* Every Try succeeded; the participants behind are confirmed or reported.
Confirming ==
    tccPc = "confirm" =>
      /\ turn >= 1
      /\ \A i \in DOMAIN participants :
           /\ "Try" \in calls[i] /\ "Cancel" \notin calls[i] /\ <<"Try", i>> \notin tccErr
           /\ i < turn => reservation[i] = "confirmed" \/ <<"Confirm", i>> \in tccErr

\* Nobody was asked to confirm; the participants behind hold nothing that could
\* be cancelled and is not reported.
Cancelling ==
    tccPc = "cancel" =>
      /\ turn <= Len(participants) /\ tccErr # {}
      /\ \A i \in DOMAIN participants :
           /\ "Confirm" \notin calls[i]
           /\ turn < i /\ reservation[i] = "held" =>
                ~participants[i].cancel \/ <<"Cancel", i>> \in tccErr

TccInv == TccTypes /\ Validating /\ Trying /\ Confirming /\ Cancelling /\ TccContract

\* Lists of participants are sequences.
LEMMA ListFacts ==
    ASSUME NEW s \in TccLists
    PROVE  Len(s) \in Nat /\ DOMAIN s = 1..Len(s)
  <1>1. PICK n \in 0..MaxParticipants : s \in [1..n -> Participant]
    BY DEF TccLists
  <1>2. n \in Nat
    BY TccAssumption
  <1>3. s \in Seq(Participant)
    BY <1>1, <1>2
  <1> QED
    BY <1>3

LEMMA TccStart == TccInit => TccInv
  <1> SUFFICES ASSUME TccInit PROVE TccInv
    OBVIOUS
  <1>1. participants \in TccLists
    BY DEF TccInit, TccLists
  <1>2. Len(participants) \in Nat
    BY <1>1, ListFacts
  <1>3. TccTypes
    BY <1>1, <1>2 DEF TccInit, TccTypes
  <1>4. \A i \in DOMAIN participants : Untouched(i)
    BY DEF TccInit, Untouched
  <1>5. Validating /\ Trying /\ Confirming /\ Cancelling
    BY <1>4 DEF TccInit, Validating, Trying, Confirming, Cancelling
  <1>6. TccContract
    BY <1>4 DEF TccInit, TccContract, NothingStranded, ConfirmedOrCancelled, Untouched
  <1> QED
    BY <1>3, <1>5, <1>6 DEF TccInv

-----------------------------------------------------------------------------
\* What the three helpers change: the participant at hand and nothing else.
LEMMA HelperFacts ==
    ASSUME TccTypes, turn \in DOMAIN participants
    PROVE  /\ \A to \in {"none", "held", "confirmed", "released"} : Holds(to) =>
                /\ reservation' \in [DOMAIN participants -> {"none", "held", "confirmed", "released"}]
                /\ reservation'[turn] = to
                /\ \A i \in DOMAIN participants : i # turn => reservation'[i] = reservation[i]
           /\ \A f \in Functions : Calls(f) =>
                /\ calls' \in [DOMAIN participants -> SUBSET Functions]
                /\ calls'[turn] = calls[turn] \cup {f}
                /\ \A i \in DOMAIN participants : i # turn => calls'[i] = calls[i]
  BY DEF TccTypes, Holds, Calls

LEMMA ValidateStep == ASSUME TccInv, Validate PROVE TccInv'
  <1> USE DEF TccInv
  <1>1. Len(participants) \in Nat /\ DOMAIN participants = 1..Len(participants)
    BY ListFacts DEF TccTypes
  <1>2. /\ tccPc = "validate" /\ turn \in 0..(Len(participants) + 1) /\ turn >= 1 /\ tccErr = {}
        /\ \A i \in DOMAIN participants : Untouched(i)
        /\ UNCHANGED <<participants, reservation, calls>>
    BY DEF Validate, Validating, TccTypes
  <1>3. \A i \in DOMAIN participants' : Untouched(i)'
    BY <1>2 DEF Untouched
  <1>4. CASE tccPc' = "try" /\ turn' = 1 /\ tccErr' = tccErr
    <2>1. \A i \in DOMAIN participants' : ~(i < turn')
      BY <1>1, <1>2, <1>4
    <2>2. TccTypes'
      BY <1>1, <1>2, <1>4 DEF TccTypes
    <2>3. Trying'
      BY <1>2, <1>3, <1>4, <2>1 DEF Trying
    <2> QED
      BY <1>3, <1>4, <2>2, <2>3 DEF Validating, Confirming, Cancelling, TccContract,
                                    NothingStranded, ConfirmedOrCancelled, Untouched
  <1>5. CASE turn <= Len(participants) /\ turn' = turn + 1 /\ UNCHANGED <<tccPc, tccErr>>
    <2>1. TccTypes'
      BY <1>1, <1>2, <1>5 DEF TccTypes
    <2> QED
      BY <1>2, <1>3, <1>5, <2>1 DEF Validating, Trying, Confirming, Cancelling, TccContract,
                                    NothingStranded, ConfirmedOrCancelled, Untouched
  <1>6. CASE Reports("validate") /\ tccPc' = "returned" /\ UNCHANGED turn
    <2>1. tccErr' # {}
      BY <1>6, Zenon DEF Reports
    <2>2. TccTypes'
      BY <1>2, <1>6 DEF TccTypes
    <2> QED
      BY <1>3, <1>6, <2>1, <2>2 DEF Validating, Trying, Confirming, Cancelling, TccContract,
                                    NothingStranded, ConfirmedOrCancelled, Untouched
  <1> QED
    BY <1>1, <1>2, <1>4, <1>5, <1>6 DEF Validate

LEMMA TryStep == ASSUME TccInv, Try PROVE TccInv'
  <1> USE DEF TccInv
  <1>1. Len(participants) \in Nat /\ DOMAIN participants = 1..Len(participants)
    BY ListFacts DEF TccTypes
  <1>2. /\ tccPc = "try" /\ turn \in 1..(Len(participants) + 1) /\ tccErr = {}
        /\ UNCHANGED participants
        /\ \A i \in DOMAIN participants :
             IF i < turn THEN reservation[i] = "held" /\ calls[i] = {"Try"} ELSE Untouched(i)
    BY <1>1 DEF Try, Trying, TccTypes
  <1>3. CASE turn > Len(participants)
    <2>1. tccPc' = "confirm" /\ turn' = 1 /\ UNCHANGED <<reservation, calls, tccErr>>
      BY <1>3 DEF Try
    <2>2. \A i \in DOMAIN participants : calls[i] = {"Try"}
      BY <1>1, <1>2, <1>3
    <2>3. \A i \in DOMAIN participants : ~(i < turn')
      BY <1>1, <2>1
    <2>4. TccTypes'
      BY <1>1, <1>2, <2>1 DEF TccTypes
    <2>5. Confirming'
      BY <1>2, <2>1, <2>2, <2>3 DEF Confirming
    <2> QED
      BY <1>2, <2>1, <2>2, <2>4, <2>5 DEF Validating, Trying, Cancelling, TccContract,
                                          NothingStranded, ConfirmedOrCancelled
  <1>4. CASE ~(turn > Len(participants))
    <2>1. turn \in DOMAIN participants /\ Untouched(turn)
      BY <1>1, <1>2, <1>4
    <2>2. Calls("Try")
      BY <1>4 DEF Try
    <2>3. /\ calls' \in [DOMAIN participants -> SUBSET Functions]
          /\ calls'[turn] = {"Try"}
          /\ \A i \in DOMAIN participants : i # turn => calls'[i] = calls[i]
      BY <2>1, <2>2, HelperFacts DEF Functions, Untouched
    <2>4. \A i \in DOMAIN participants : "Confirm" \notin calls'[i]
      BY <1>2, <2>3 DEF Untouched
    <2>5. CASE Holds("held") /\ turn' = turn + 1 /\ UNCHANGED <<tccPc, tccErr>>
      <3>1. /\ reservation' \in [DOMAIN participants -> {"none", "held", "confirmed", "released"}]
            /\ reservation'[turn] = "held"
            /\ \A i \in DOMAIN participants : i # turn => reservation'[i] = reservation[i]
        BY <2>1, <2>5, HelperFacts
      <3>2. TccTypes'
        BY <1>1, <1>2, <1>4, <2>3, <2>5, <3>1 DEF TccTypes
      <3>3. ASSUME NEW i \in DOMAIN participants
            PROVE  IF i < turn' THEN reservation'[i] = "held" /\ calls'[i] = {"Try"}
                   ELSE Untouched(i)'
        <4>1. CASE i = turn
          BY <1>2, <2>3, <2>5, <3>1, <4>1
        <4>2. CASE i # turn
          <5>1. (i < turn' <=> i < turn) /\ reservation'[i] = reservation[i] /\ calls'[i] = calls[i]
            BY <1>1, <1>2, <2>3, <2>5, <3>1, <4>2
          <5> QED
            BY <1>2, <5>1 DEF Untouched
        <4> QED
          BY <4>1, <4>2
      <3>4. Trying'
        BY <1>2, <2>5, <3>3 DEF Trying
      <3> QED
        BY <1>2, <2>4, <2>5, <3>2, <3>4 DEF Validating, Confirming, Cancelling, TccContract,
                                            NothingStranded, ConfirmedOrCancelled
    <2>6. CASE /\ Holds("held") \/ UNCHANGED reservation
               /\ Reports("Try") /\ tccPc' = "cancel" /\ UNCHANGED turn
      <3>1. /\ reservation' \in [DOMAIN participants -> {"none", "held", "confirmed", "released"}]
            /\ \A i \in DOMAIN participants : i # turn => reservation'[i] = reservation[i]
        BY <2>1, <2>6, HelperFacts DEF TccTypes
      <3>2. tccErr' # {}
        BY <2>6, Zenon DEF Reports
      <3>3. TccTypes'
        BY <1>2, <2>3, <2>6, <3>1 DEF TccTypes
      <3>4. \A i \in DOMAIN participants : turn < i => reservation'[i] = "none"
        BY <1>1, <1>2, <3>1 DEF Untouched
      <3>5. Cancelling'
        BY <1>1, <1>2, <1>4, <2>4, <2>6, <3>2, <3>4 DEF Cancelling
      <3> QED
        BY <1>2, <2>4, <2>6, <3>3, <3>5 DEF Validating, Trying, Confirming, TccContract,
                                            NothingStranded, ConfirmedOrCancelled
    <2> QED
      BY <1>4, <2>5, <2>6 DEF Try
  <1> QED
    BY <1>3, <1>4

LEMMA ConfirmStep == ASSUME TccInv, Confirm PROVE TccInv'
  <1> USE DEF TccInv
  <1>1. Len(participants) \in Nat /\ DOMAIN participants = 1..Len(participants)
    BY ListFacts DEF TccTypes
  <1>2. /\ tccPc = "confirm" /\ turn \in 1..(Len(participants) + 1) /\ UNCHANGED participants
        /\ \A i \in DOMAIN participants :
             /\ "Try" \in calls[i] /\ "Cancel" \notin calls[i] /\ <<"Try", i>> \notin tccErr
             /\ i < turn => reservation[i] = "confirmed" \/ <<"Confirm", i>> \in tccErr
    BY <1>1 DEF Confirm, Confirming, TccTypes
  <1>3. CASE turn > Len(participants)
    <2>1. tccPc' = "returned" /\ UNCHANGED <<turn, reservation, calls, tccErr>>
      BY <1>3 DEF Confirm
    <2>2. \A i \in DOMAIN participants : reservation[i] = "confirmed" \/ <<"Confirm", i>> \in tccErr
      <3>1. \A i \in DOMAIN participants : i < turn
        BY <1>1, <1>2, <1>3
      <3> QED
        BY <1>2, <3>1, Zenon
    <2>3. TccTypes'
      BY <1>2, <2>1 DEF TccTypes
    <2>4. TccContract'
      BY <1>2, <2>1, <2>2 DEF TccContract, NothingStranded, ConfirmedOrCancelled
    <2> QED
      BY <2>1, <2>3, <2>4 DEF Validating, Trying, Confirming, Cancelling
  <1>4. CASE ~(turn > Len(participants))
    <2>1. turn \in DOMAIN participants
      BY <1>1, <1>2, <1>4
    <2>2. tccPc' = tccPc /\ turn' = turn + 1 /\ Calls("Confirm")
      BY <1>4 DEF Confirm
    <2>3. /\ calls' \in [DOMAIN participants -> SUBSET Functions]
          /\ \A i \in DOMAIN participants : "Try" \in calls'[i] /\ "Cancel" \notin calls'[i]
      BY <1>2, <2>1, <2>2, HelperFacts, Zenon DEF Functions
    <2>4. /\ reservation' \in [DOMAIN participants -> {"none", "held", "confirmed", "released"}]
          /\ reservation'[turn] = "confirmed" \/ <<"Confirm", turn>> \in tccErr'
          /\ \A i \in DOMAIN participants :
               /\ i # turn => reservation'[i] = reservation[i]
               /\ <<"Try", i>> \notin tccErr'
          /\ tccErr \subseteq tccErr'
      <3>1. CASE Holds("confirmed") /\ UNCHANGED tccErr
        BY <1>2, <2>1, <3>1, HelperFacts, Zenon
      <3>2. CASE Reports("Confirm") /\ UNCHANGED reservation
        <4>1. /\ <<"Confirm", turn>> \in tccErr' /\ tccErr \subseteq tccErr'
              /\ \A i \in DOMAIN participants : <<"Try", i>> \in tccErr' => <<"Try", i>> \in tccErr
          BY <3>2 DEF Reports
        <4> QED
          BY <1>2, <3>2, <4>1, Zenon DEF TccTypes
      <3> QED
        BY <1>4, <3>1, <3>2 DEF Confirm
    <2>5. TccTypes'
      BY <1>1, <1>2, <1>4, <2>2, <2>3, <2>4 DEF TccTypes
    <2>6. \A i \in DOMAIN participants :
            i < turn' => reservation'[i] = "confirmed" \/ <<"Confirm", i>> \in tccErr'
      <3> SUFFICES ASSUME NEW i \in DOMAIN participants, i < turn'
                   PROVE  reservation'[i] = "confirmed" \/ <<"Confirm", i>> \in tccErr'
        OBVIOUS
      <3>1. CASE i = turn
        BY <2>4, <3>1
      <3>2. CASE i # turn
        <4>1. i < turn
          BY <1>1, <1>2, <2>2, <3>2
        <4> QED
          BY <1>2, <2>4, <3>2, <4>1, Zenon
      <3> QED
        BY <3>1, <3>2
    <2>7. Confirming'
      BY <1>2, <2>2, <2>3, <2>4, <2>6 DEF Confirming
    <2> QED
      BY <1>2, <2>2, <2>3, <2>4, <2>5, <2>7 DEF Validating, Trying, Cancelling, TccContract,
                                                NothingStranded, ConfirmedOrCancelled
  <1> QED
    BY <1>3, <1>4

LEMMA CancelStep == ASSUME TccInv, CancelOne PROVE TccInv'
  <1> USE DEF TccInv
  <1>1. Len(participants) \in Nat /\ DOMAIN participants = 1..Len(participants)
    BY ListFacts DEF TccTypes
  <1>2. /\ tccPc = "cancel" /\ turn \in 0..Len(participants) /\ UNCHANGED participants
        /\ tccErr # {}
        /\ \A i \in DOMAIN participants :
             /\ "Confirm" \notin calls[i]
             /\ turn < i /\ reservation[i] = "held" =>
                  ~participants[i].cancel \/ <<"Cancel", i>> \in tccErr
    BY <1>1 DEF CancelOne, Cancelling, TccTypes
  <1>3. CASE turn = 0
    <2>1. tccPc' = "returned" /\ UNCHANGED <<turn, reservation, calls, tccErr>>
      BY <1>3 DEF CancelOne
    <2>2. \A i \in DOMAIN participants : turn < i
      BY <1>1, <1>3
    <2>3. TccTypes'
      BY <1>2, <2>1 DEF TccTypes
    <2>4. TccContract'
      BY <1>2, <2>1, <2>2 DEF TccContract, NothingStranded, ConfirmedOrCancelled
    <2> QED
      BY <2>1, <2>3, <2>4 DEF Validating, Trying, Confirming, Cancelling
  <1>4. CASE turn # 0
    <2>1. turn \in DOMAIN participants
      BY <1>1, <1>2, <1>4
    <2>2. tccPc' = tccPc /\ turn' = turn - 1
      BY <1>4 DEF CancelOne
    <2>3. /\ calls' \in [DOMAIN participants -> SUBSET Functions]
          /\ \A i \in DOMAIN participants : "Confirm" \notin calls'[i]
      BY <1>2, <1>4, <2>1, HelperFacts, Zenon DEF CancelOne, Functions, TccTypes
    <2>4. /\ reservation' \in [DOMAIN participants -> {"none", "held", "confirmed", "released"}]
          /\ reservation'[turn] = "held" =>
               ~participants[turn].cancel \/ <<"Cancel", turn>> \in tccErr'
          /\ \A i \in DOMAIN participants : i # turn => reservation'[i] = reservation[i]
          /\ tccErr \subseteq tccErr'
      BY <1>2, <1>4, <2>1, HelperFacts DEF CancelOne, Reports, TccTypes
    <2>5. TccTypes'
      BY <1>1, <1>2, <1>4, <2>2, <2>3, <2>4 DEF TccTypes
    <2>6. \A i \in DOMAIN participants :
            turn' < i /\ reservation'[i] = "held" =>
              ~participants[i].cancel \/ <<"Cancel", i>> \in tccErr'
      BY <1>1, <1>2, <1>4, <2>2, <2>4
    <2>7. Cancelling'
      BY <1>1, <1>2, <1>4, <2>2, <2>3, <2>4, <2>6 DEF Cancelling
    <2> QED
      BY <1>2, <2>2, <2>3, <2>5, <2>7 DEF Validating, Trying, Confirming, TccContract,
                                          NothingStranded, ConfirmedOrCancelled
  <1> QED
    BY <1>3, <1>4

LEMMA TccStep == TccInv /\ [TccNext]_tccVars => TccInv'
  <1>1. TccInv /\ UNCHANGED tccVars => TccInv'
    BY DEF tccVars, TccInv, TccTypes, Validating, Trying, Confirming, Cancelling, Untouched,
           TccContract, NothingStranded, ConfirmedOrCancelled
  <1> QED
    BY <1>1, ValidateStep, TryStep, ConfirmStep, CancelStep DEF TccNext

\* tcc.Run (tcc.go:25-32), for any number of participants and any failures: no
\* reservation is left without a word although it could be cancelled, nil means
\* that all are confirmed, and nobody is cancelled once anybody was asked to
\* confirm.
THEOREM TccKeepsContract == TccSpec => []TccContract
  <1>1. TccInv => TccContract
    BY DEF TccInv
  <1> QED
    BY <1>1, TccStart, TccStep, PTL DEF TccSpec
=============================================================================
