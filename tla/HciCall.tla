------------------------------ MODULE HciCall -------------------------------
(***************************************************************************)
(* What a caller of the CC3000 host driver may rely on: one call at a time,*)
(* which the chip executes exactly once before the call returns.           *)
(***************************************************************************)
EXTENDS Naturals

VARIABLES
  issued,    \* calls begun
  executed,  \* commands the chip has received whole
  returned   \* calls that have returned

vars == <<issued, executed, returned>>

Init == issued = 0 /\ executed = 0 /\ returned = 0

Issue ==
  /\ returned = issued
  /\ issued' = issued + 1
  /\ UNCHANGED <<executed, returned>>

Execute ==
  /\ executed < issued
  /\ executed' = executed + 1
  /\ UNCHANGED <<issued, returned>>

Return ==
  /\ returned < executed
  /\ returned' = returned + 1
  /\ UNCHANGED <<issued, executed>>

Next == Issue \/ Execute \/ Return

SafeSpec == Init /\ [][Next]_vars

\* A call that was begun is executed and returns.
Spec == SafeSpec /\ WF_vars(Execute) /\ WF_vars(Return)
=============================================================================
