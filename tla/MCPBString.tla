------------------------------ MODULE MCPBString ------------------------------
(* Small instances of PBString for TLC. *)
EXTENDS PBString, TLC

Symmetry == Permutations(Slots) \cup Permutations(Blocks)

MCTrueLit  == <<1>>
MCFalseLit == <<0>>
MCLiterals == {<<1, 0>>}
MCDoubled  == {<<1, 1>>}

(* The texts of 0..MaxLen in base two: the largest sizes take more digits   *)
(* than the small ones, as decimal sizes do.                                *)
MCBaseTwo ==
  [n \in 0..MaxLen |-> IF n < 2 THEN <<n>>
                       ELSE IF n < 4 THEN <<1, n % 2>>
                       ELSE <<1, (n \div 2) % 2, n % 2>>]
=============================================================================
