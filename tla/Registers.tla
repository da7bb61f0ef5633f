----------------------------- MODULE Registers -----------------------------
(***************************************************************************)
(* The variables shared by the modules that check many components in one   *)
(* run.  In a behaviour only one component moves, so that a run explores   *)
(* the sum of the state spaces and not their product; the components are   *)
(* instantiated over the same registers, each over the first few, and the  *)
(* ones it does not need stay 0.                                           *)
(***************************************************************************)
EXTENDS Naturals

VARIABLES component, r1, r2, r3, r4, r5, r6, r7, r8, r9, r10, r11, r12, r13, r14, r15, r16,
          r17, r18, r19, r20

registers == <<component, r1, r2, r3, r4, r5, r6, r7, r8, r9, r10, r11, r12, r13, r14, r15,
               r16, r17, r18, r19, r20>>

\* IdleN, SameN: the registers from N on are not in use, and stay so.
Idle20 == r20 = 0
Idle19 == r19 = 0 /\ Idle20
Idle18 == r18 = 0 /\ Idle19
Idle17 == r17 = 0 /\ Idle18
Idle16 == r16 = 0 /\ Idle17
Idle15 == r15 = 0 /\ Idle16
Idle14 == r14 = 0 /\ Idle15
Idle13 == r13 = 0 /\ Idle14
Idle12 == r12 = 0 /\ Idle13
Idle11 == r11 = 0 /\ Idle12
Idle10 == r10 = 0 /\ Idle11
Idle9 == r9 = 0 /\ Idle10
Idle8 == r8 = 0 /\ Idle9
Idle7 == r7 = 0 /\ Idle8
Idle6 == r6 = 0 /\ Idle7
Idle5 == r5 = 0 /\ Idle6
Idle4 == r4 = 0 /\ Idle5
Idle3 == r3 = 0 /\ Idle4
Idle2 == r2 = 0 /\ Idle3
Idle1 == r1 = 0 /\ Idle2

Same20 == UNCHANGED r20
Same19 == UNCHANGED r19 /\ Same20
Same18 == UNCHANGED r18 /\ Same19
Same17 == UNCHANGED r17 /\ Same18
Same16 == UNCHANGED r16 /\ Same17
Same15 == UNCHANGED r15 /\ Same16
Same14 == UNCHANGED r14 /\ Same15
Same13 == UNCHANGED r13 /\ Same14
Same12 == UNCHANGED r12 /\ Same13
Same11 == UNCHANGED r11 /\ Same12
Same10 == UNCHANGED r10 /\ Same11
Same9 == UNCHANGED r9 /\ Same10
Same8 == UNCHANGED r8 /\ Same9
Same7 == UNCHANGED r7 /\ Same8
Same6 == UNCHANGED r6 /\ Same7
Same5 == UNCHANGED r5 /\ Same6
Same4 == UNCHANGED r4 /\ Same5
Same3 == UNCHANGED r3 /\ Same4
Same2 == UNCHANGED r2 /\ Same3
Same1 == UNCHANGED r1 /\ Same2
=============================================================================
