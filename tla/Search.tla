-------------------------------- MODULE Search --------------------------------
(***************************************************************************)
(* A program that looks for one text in another with PoiCoreFind, and then *)
(* for all occurrences between two indices with PoiCoreFindBetween: each   *)
(* search starts behind the last hit, until there is none.                 *)
(***************************************************************************)
EXTENDS IntMath

CONSTANTS
  Letters,   \* the characters of the texts
  MaxLen     \* bound: the length of the texts

ASSUME SearchAssumption == Letters \subseteq Chars /\ MaxLen \in Nat

VARIABLES
  str,     \* the text that is searched
  substr,  \* what is looked for
  start,   \* where the next search starts, a text
  end,     \* where it ends, a text
  first,   \* what PoiCoreFind returned, empty before
  found,   \* the indices the searches have returned
  pc       \* "choose", "find", "between", then "done"

searched == <<str, substr, start, end, first, found, pc>>

Texts == UNION {[1..n -> Letters] : n \in 0..MaxLen}

Bounds == {Decimal[n] : n \in 0..(MaxLen + 1)} \cup {<<>>, <<Other>>, <<Minus, 1>>}

(* The reference: where substr is in str, indices counting from zero. *)
Occurrences ==
  {i \in 0..(Len(str) - Len(substr)) : SubSeq(str, i + 1, i + Len(substr)) = substr}

From == Bound(start, 0)
To == Bound(end, Len(str))

-----------------------------------------------------------------------------
InitSearch ==
  /\ str = <<>> /\ substr = <<>> /\ start = <<>> /\ end = <<>>
  /\ first = <<>> /\ found = {} /\ pc = "choose"

Choose(s, t, b, e) ==
  /\ pc = "choose"
  /\ str' = s /\ substr' = t /\ start' = b /\ end' = e
  /\ pc' = "find"
  /\ UNCHANGED <<first, found>>

Find ==
  /\ pc = "find"
  /\ first' = PoiCoreFind(str, substr)
  /\ pc' = "between"
  /\ UNCHANGED <<str, substr, start, end, found>>

(* STRLEN(str) says that there is no further hit. *)
FindNext ==
  LET index == PoiCoreFindBetween(str, substr, start, end)
  IN  /\ pc = "between"
      /\ index # Strlen(str)
      /\ found' = found \cup {Value[index]}
      /\ start' = IntMathIncrement(index)
      /\ UNCHANGED <<str, substr, end, first, pc>>

FindNoMore ==
  /\ pc = "between"
  /\ PoiCoreFindBetween(str, substr, start, end) = Strlen(str)
  /\ pc' = "done"
  /\ UNCHANGED <<str, substr, start, end, first, found>>

Look ==
  \/ Find \/ FindNext \/ FindNoMore
  \/ \E s, t \in Texts, b, e \in Bounds : Choose(s, t, b, e)

-----------------------------------------------------------------------------
(* Properties *)

(* PoiCoreFind gives the first of the occurrences when there is one,        *)
(* overlapping ones, and those of the empty text, among them.  What it      *)
(* gives when there is none, which is not what PoiCore.poiboi:31 promises,  *)
(* is left out.                                                             *)
FindsFirst ==
  pc \in {"between", "done"} /\ Occurrences # {} =>
    \E i \in Occurrences : first = Decimal[i] /\ \A j \in Occurrences : i <= j

(* No occurrence of a text that is not empty is passed over, overlaps and   *)
(* bounds that are no numbers included: when a search starts behind an      *)
(* occurrence that lies between the bounds, an earlier one has returned it, *)
(* and at the end none is left.                                             *)
NoneSkipped ==
  [][LET Inside == {i \in Occurrences : From <= i /\ i + Len(substr) <= To}
     IN  substr # <<>> =>
           /\ pc = "between" => \A i \in Inside : i < From' => i \in found'
           /\ pc' = "done" => Inside = {}]_searched

(* The loop ends, although PoiCoreFindBetween reports hits that are none:   *)
(* each search starts further right than the one before, and none behind    *)
(* the end of the text.                                                     *)
MovesRight ==
  [][pc = "between" /\ pc' = "between" => From' > From /\ From' <= Len(str)]_searched
=============================================================================
