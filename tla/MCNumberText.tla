----------------------------- MODULE MCNumberText -----------------------------
(* Small widths of size_t for TLC. *)
EXTENDS NumberText

(* The table of three-digit numbers, both sides of each power of ten, and the end. *)
EdgeSizes == 0..1010 \cup 9990..10010 \cup (SizeMax - 20)..SizeMax

(* Texts of up to six characters, leading zeros and other characters among them. *)
LongTexts == UNION {[1..n -> {0, 6, Other}] : n \in 0..6}
=============================================================================
