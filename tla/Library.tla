-------------------------------- MODULE Library --------------------------------
(***************************************************************************)
(* The library in use: a program calculates (Calculator) or searches texts *)
(* (Search).  Both depend on each other's part of IntMath.                 *)
(***************************************************************************)
EXTENDS Calculator, Search

vars == <<calculated, searched>>

Init == InitCalculator /\ InitSearch

Next ==
  \/ pc = "choose" /\ Calculate /\ UNCHANGED searched
  \/ InitCalculator /\ Look /\ UNCHANGED calculated

Spec == Init /\ [][Next]_vars
=============================================================================
