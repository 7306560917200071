----------------------------- MODULE StringStore -----------------------------
(***************************************************************************)
(* What the string runtime of PoiBoi promises: every PBString object is an *)
(* immutable value.  An object is raw storage (None) or holds a sequence   *)
(* of characters; an operation gives its destination the value the         *)
(* language defines and changes no other object, except that a move leaves *)
(* its source empty.  Nothing here knows of reference counts or of shared  *)
(* memory.  PBString.tla implements this specification.                    *)
(***************************************************************************)
EXTENDS Naturals, Sequences

CONSTANTS
  Slots,       \* storage for PBString objects: variables and temporaries
  Literals,    \* the quoted strings of the program
  TrueLit,     \* the value of TRUE
  FalseLit,    \* the value of FALSE
  SizeText,    \* the text of each length, a function on 0..MaxLen
  MaxLen,      \* bound: no string longer than this is built
  None         \* no object lives here

VARIABLE val

Live(s) == val[s] # None

Truth(b) == IF b THEN TrueLit ELSE FalseLit

IsTrue(s) == val[s] = TrueLit

(* A new object with value v is built in storage d, where no object lives. *)
Build(d, v) == val' = [val EXCEPT ![d] = v]

Init == val = [s \in Slots |-> None]

Literal(d) == \E v \in Literals \cup {<<>>} : Build(d, v)

Copy(d, s) == Live(s) /\ val' = [val EXCEPT ![d] = val[s]]

Move(d, s) == Live(s) /\ d # s /\ val' = [val EXCEPT ![d] = val[s], ![s] = <<>>]

Destroy(s) == Live(s) /\ val' = [val EXCEPT ![s] = None]

Concat(d, a, b) ==
  /\ Live(a) /\ Live(b)
  /\ Len(val[a]) + Len(val[b]) <= MaxLen
  /\ Build(d, val[a] \o val[b])

(* Characters start+1 .. end, as far as the string has them. *)
Substring(d, s, start, end) ==
  /\ Live(s)
  /\ LET last == IF end > Len(val[s]) THEN Len(val[s]) ELSE end
     IN  Build(d, SubSeq(val[s], start + 1, last))

Strlen(d, s) == Live(s) /\ Build(d, SizeText[Len(val[s])])

(* The answer of a comparison is left open here: PBString states separately *)
(* for which representations it is the right one.                           *)
Equal(d, a, b) == Live(a) /\ Live(b) /\ \E r \in BOOLEAN : Build(d, Truth(r))

Not(d, s) == Live(s) /\ Build(d, Truth(~IsTrue(s)))

And(d, a, b) == Live(a) /\ Live(b) /\ Build(d, Truth(IsTrue(a) /\ IsTrue(b)))

Or(d, a, b) == Live(a) /\ Live(b) /\ Build(d, Truth(IsTrue(a) \/ IsTrue(b)))

Next ==
  \E d \in Slots :
    \/ \E s \in Slots : Copy(d, s) \/ Move(d, s)
    \/ Destroy(d)
    \/ /\ ~Live(d)
       /\ \/ Literal(d)
          \/ \E s \in Slots :
               \/ Strlen(d, s)
               \/ Not(d, s)
               \/ \E start, end \in 0..MaxLen : Substring(d, s, start, end)
          \/ \E a, b \in Slots :
               \/ Concat(d, a, b)
               \/ Equal(d, a, b)
               \/ And(d, a, b)
               \/ Or(d, a, b)

Spec == Init /\ [][Next]_val
=============================================================================
