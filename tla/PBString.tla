------------------------------- MODULE PBString -------------------------------
(***************************************************************************)
(* The string runtime every compiled PoiBoi program carries               *)
(* (cc_src/poiboi_string.h and .cc).                                       *)
(*                                                                         *)
(* A PBString object is one of four representations: a static string, a    *)
(* small string stored in the object, a pointer into a reference counted   *)
(* heap block, or the join of two of these.  Here an object is a sequence  *)
(* of parts: one part for the first three, two parts for a join, and no    *)
(* part at all when no object is alive in that storage.  Copies and        *)
(* substrings share blocks, so the manual counting decides whether memory  *)
(* is released exactly when its last owner goes.                           *)
(***************************************************************************)
EXTENDS Integers, Sequences, FiniteSets

CONSTANTS
  Slots,            \* storage for PBString objects: variables and temporaries
  Blocks,           \* the blocks malloc can hand out
  Char,             \* characters
  Literals,         \* the quoted strings of the program
  TrueLit,          \* PBString::True()
  FalseLit,         \* PBString::False()
  SmallMax,         \* SmallStringMaxLength()
  StaticSizeLimit,  \* sizes below this have a static text (1000 in the code)
  SizeBuffer,       \* kBufferSize of SizeToString
  SizeText,         \* the text of each size, a function on 0..MaxLen
  MaxLen,           \* bound: no string longer than this is built
  None              \* raw storage in StringStore, an unallocated block here

Text == Seq(Char)

ASSUME SizesAssumption ==
  /\ SmallMax \in Nat \ {0}
  /\ MaxLen \in Nat
  /\ StaticSizeLimit \in Nat
  /\ SizeBuffer \in Nat

ASSUME TextAssumption ==
  /\ Literals \subseteq Text
  /\ \A v \in Literals \cup {TrueLit, FalseLit} : v \in Text /\ Len(v) <= MaxLen
  /\ None \notin Text
  /\ SizeText \in [0..MaxLen -> Text]
  /\ \A n \in 0..MaxLen : Len(SizeText[n]) <= MaxLen /\ Len(SizeText[n]) < SizeBuffer

ASSUME FiniteAssumption == IsFiniteSet(Slots) /\ IsFiniteSet(Blocks)

VARIABLES
  obj,      \* obj[s]: the parts of the object alive in storage s
  memory,   \* memory[b]: the characters of block b, None when it is not allocated
  refs,     \* refs[b]: *num_references_held
  crashed   \* malloc returned NULL and its result was written to

vars == <<obj, memory, refs, crashed>>

-----------------------------------------------------------------------------
(* Payloads *)

Static(str) == [kind |-> "static", str |-> str]
Small(str)  == [kind |-> "small", str |-> str]
Ref(b, n)   == [kind |-> "ref", blk |-> b, off |-> 0, len |-> n]

Parts == [kind : {"static", "small"}, str : Text]
           \cup [kind : {"ref"}, blk : Blocks, off : Nat, len : Nat]

Raw   == <<>>
Empty == <<Small(<<>>)>>

Live(s) == obj[s] # Raw
IsJoin(pl) == Len(pl) = 2

PartLen(p) == IF p.kind = "ref" THEN p.len ELSE Len(p.str)

PartText(p) == IF p.kind = "ref" THEN SubSeq(memory[p.blk], p.off + 1, p.off + p.len)
                                 ELSE p.str

Length(pl) == IF IsJoin(pl) THEN PartLen(pl[1]) + PartLen(pl[2]) ELSE PartLen(pl[1])

Content(pl) == IF IsJoin(pl) THEN PartText(pl[1]) \o PartText(pl[2]) ELSE PartText(pl[1])

(* Faulty: the shift of a small string without its memmove. *)
BugShiftKeepsFront(p, k) ==
  IF p.kind = "ref" THEN [p EXCEPT !.off = @ + k, !.len = @ - k]
                    ELSE [p EXCEPT !.str = SubSeq(@, 1, Len(@) - k)]

(* Faulty: the shift of a counted string keeps its length. *)
BugShiftKeepsLength(p, k) ==
  IF p.kind = "ref" THEN [p EXCEPT !.off = @ + k]
                    ELSE [p EXCEPT !.str = SubSeq(@, k + 1, Len(@))]

ShiftRight(p, k) ==
  IF p.kind = "ref" THEN [p EXCEPT !.off = @ + k, !.len = @ - k]
                    ELSE [p EXCEPT !.str = SubSeq(@, k + 1, Len(@))]

DecrementLength(p, k) ==
  IF p.kind = "ref" THEN [p EXCEPT !.len = @ - k]
                    ELSE [p EXCEPT !.str = SubSeq(@, 1, Len(@) - k)]

(* Faulty: a range that ends where the left part ends is taken for one that *)
(* reaches into the right part.                                             *)
BugSubPayloadBoundary(pl, start, end) ==
  LET left == PartLen(pl[1])
      all  == Length(pl)
  IN  IF ~IsJoin(pl) \/ end < left
        THEN <<DecrementLength(ShiftRight(pl[1], start), left - end)>>
      ELSE IF start >= left
        THEN <<DecrementLength(ShiftRight(pl[2], start - left), all - end)>>
      ELSE <<ShiftRight(pl[1], start), DecrementLength(pl[2], all - end)>>

(* Characters start+1 .. end of a payload that has them, start < end. *)
SubPayload(pl, start, end) ==
  LET left == PartLen(pl[1])
      all  == Length(pl)
  IN  IF ~IsJoin(pl) \/ end <= left
        THEN <<DecrementLength(ShiftRight(pl[1], start), left - end)>>
      ELSE IF start >= left
        THEN <<DecrementLength(ShiftRight(pl[2], start - left), all - end)>>
      ELSE IF end - start <= SmallMax
        THEN <<Small(SubSeq(PartText(pl[1]), start + 1, left)
                     \o SubSeq(PartText(pl[2]), 1, end - left))>>
      ELSE <<ShiftRight(pl[1], start), DecrementLength(pl[2], all - end)>>

-----------------------------------------------------------------------------
(* Reference counting *)

(* The parts of a payload that hold a reference to block b. *)
Handles(pl, b) == {i \in DOMAIN pl : pl[i].kind = "ref" /\ pl[i].blk = b}

Held(pl, b) == Cardinality(Handles(pl, b))

(* Faulty: copying a join counts its left part only. *)
BugAcquiredLeftOnly(r, pl) == [b \in Blocks |-> r[b] + (IF 1 \in Handles(pl, b) THEN 1 ELSE 0)]

(* CopyStringPayload: one more reference for each part copied. *)
Acquired(r, pl) == [b \in Blocks |-> r[b] + Held(pl, b)]

(* CleanupStringPayload: one reference less for each part dropped, ... *)
Released(r, pl) == [b \in Blocks |-> r[b] - Held(pl, b)]

(* ... and the block is freed when that leaves none. *)
Freed(m, r, pl) ==
  [b \in Blocks |-> IF Held(pl, b) > 0 /\ r[b] <= Held(pl, b) THEN None ELSE m[b]]

FreeBlocks == {b \in Blocks : memory[b] = None}

-----------------------------------------------------------------------------
(* The object of raw storage d is built with payload pl, whose references   *)
(* are copies of references other objects hold.                             *)
Construct(d, pl) ==
  /\ ~Live(d)
  /\ obj' = [obj EXCEPT ![d] = pl]
  /\ refs' = Acquired(refs, pl)
  /\ UNCHANGED <<memory, crashed>>

(* A result in a new block: NewRefCountedString writes the count through    *)
(* the pointer malloc returned, NULL or not.                                *)
ConstructInNewBlock(d, str) ==
  /\ ~Live(d)
  /\ \/ \E b \in FreeBlocks :
          /\ obj' = [obj EXCEPT ![d] = <<Ref(b, Len(str))>>]
          /\ refs' = [refs EXCEPT ![b] = 1]
          /\ memory' = [memory EXCEPT ![b] = str]
          /\ UNCHANGED crashed
     \/ /\ FreeBlocks = {}
        /\ crashed' = TRUE
        /\ UNCHANGED <<obj, memory, refs>>

DefaultConstruct(d) == Construct(d, Empty)

NewStaticString(d) == \E v \in Literals : Construct(d, <<Static(v)>>)

CopyConstruct(d, s) == Live(s) /\ Construct(d, obj[s])

MoveConstruct(d, s) ==
  /\ ~Live(d) /\ Live(s)
  /\ obj' = [obj EXCEPT ![d] = obj[s], ![s] = Empty]
  /\ UNCHANGED <<memory, refs, crashed>>

(* Faulty: no early return when an object is assigned to itself. *)
BugCopyAssignSelf(d, s) ==
  /\ Live(d) /\ Live(s)
  /\ obj' = [obj EXCEPT ![d] = obj[s]]
  /\ memory' = Freed(memory, refs, obj[d])
  /\ refs' = Acquired(Released(refs, obj[d]), obj[s])
  /\ UNCHANGED crashed

(* operator=(const PBString&): an assignment to itself returns early; the   *)
(* old references go before the new ones are taken.                         *)
CopyAssign(d, s) ==
  /\ Live(d) /\ Live(s)
  /\ d # s
  /\ obj' = [obj EXCEPT ![d] = obj[s]]
  /\ memory' = Freed(memory, refs, obj[d])
  /\ refs' = Acquired(Released(refs, obj[d]), obj[s])
  /\ UNCHANGED crashed

(* operator=(PBString&&): the source keeps no reference. *)
MoveAssign(d, s) ==
  /\ Live(d) /\ Live(s)
  /\ d # s
  /\ obj' = [obj EXCEPT ![d] = obj[s], ![s] = Empty]
  /\ memory' = Freed(memory, refs, obj[d])
  /\ refs' = Released(refs, obj[d])
  /\ UNCHANGED crashed

Destroy(s) ==
  /\ Live(s)
  /\ obj' = [obj EXCEPT ![s] = Raw]
  /\ memory' = Freed(memory, refs, obj[s])
  /\ refs' = Released(refs, obj[s])
  /\ UNCHANGED crashed

Concat(d, a, b) ==
  /\ Live(a) /\ Live(b)
  /\ Length(obj[a]) + Length(obj[b]) <= MaxLen
  /\ LET length == Length(obj[a]) + Length(obj[b])
     IN  IF Length(obj[a]) = 0 THEN Construct(d, obj[b])
         ELSE IF Length(obj[b]) = 0 THEN Construct(d, obj[a])
         ELSE IF IsJoin(obj[a]) \/ IsJoin(obj[b])
           THEN ConstructInNewBlock(d, Content(obj[a]) \o Content(obj[b]))
         ELSE IF length <= SmallMax
           THEN Construct(d, <<Small(Content(obj[a]) \o Content(obj[b]))>>)
         ELSE Construct(d, <<obj[a][1], obj[b][1]>>)

(* end is cut to the length; an empty range gives the empty string. *)
Substring(d, s, start, end) ==
  /\ Live(s)
  /\ LET length == Length(obj[s])
         last   == IF end > length THEN length ELSE end
     IN  Construct(d, IF start >= last THEN Empty ELSE SubPayload(obj[s], start, last))

(* Builtin_Strlen, the one caller of SizeToString. *)
Strlen(d, s) ==
  /\ Live(s)
  /\ LET size == Length(obj[s])
     IN  IF size < StaticSizeLimit THEN Construct(d, <<Static(SizeText[size])>>)
         ELSE IF SizeBuffer > SmallMax THEN ConstructInNewBlock(d, SizeText[size])
         ELSE Construct(d, <<Small(SizeText[size])>>)

-----------------------------------------------------------------------------
(* operator==, as coded: memcmp over the pieces. *)

(* One join whose left part is shorter than the other's. *)
ShortLongJoinsEqual(short, long) ==
  LET ls == PartLen(short[1])
      ll == PartLen(long[1])
      shortRight == PartText(short[2])
  IN  /\ PartText(short[1]) # SubSeq(PartText(long[1]), 1, ls)
      /\ SubSeq(PartText(long[1]), ls + 1, ll) # SubSeq(shortRight, 1, ll - ls)
      /\ SubSeq(shortRight, ll - ls + 1, Len(shortRight)) = PartText(long[2])

JoinsEqual(p, q) ==
  IF PartLen(p[1]) = PartLen(q[1])
    THEN PartText(p[1]) = PartText(q[1]) /\ PartText(p[2]) = PartText(q[2])
  ELSE IF PartLen(p[1]) < PartLen(q[1]) THEN ShortLongJoinsEqual(p, q)
  ELSE ShortLongJoinsEqual(q, p)

(* Faulty: the right part is not compared. *)
BugJoinEqualsLeft(join, str) ==
  SubSeq(str, 1, PartLen(join[1])) = PartText(join[1])

JoinEqualsRaw(join, str) ==
  /\ SubSeq(str, 1, PartLen(join[1])) = PartText(join[1])
  /\ SubSeq(str, PartLen(join[1]) + 1, Len(str)) = PartText(join[2])

EqualPayloads(p, q) ==
  /\ Length(p) = Length(q)
  /\ IF IsJoin(p) /\ IsJoin(q) THEN JoinsEqual(p, q)
     ELSE IF IsJoin(q) THEN JoinEqualsRaw(q, PartText(p[1]))
     ELSE IF IsJoin(p) THEN JoinEqualsRaw(p, PartText(q[1]))
     ELSE PartText(p[1]) = PartText(q[1])

True  == <<Static(TrueLit)>>
False == <<Static(FalseLit)>>

IsTrue(s) == EqualPayloads(obj[s], True)

Equal(d, a, b) ==
  /\ Live(a) /\ Live(b)
  /\ Construct(d, IF EqualPayloads(obj[a], obj[b]) THEN True ELSE False)

Not(d, s) == Live(s) /\ Construct(d, IF IsTrue(s) THEN False ELSE True)

And(d, a, b) ==
  Live(a) /\ Live(b) /\ Construct(d, IF IsTrue(a) /\ IsTrue(b) THEN True ELSE False)

Or(d, a, b) ==
  Live(a) /\ Live(b) /\ Construct(d, IF IsTrue(a) \/ IsTrue(b) THEN True ELSE False)

-----------------------------------------------------------------------------
Init ==
  /\ obj = [s \in Slots |-> Raw]
  /\ memory = [b \in Blocks |-> None]
  /\ refs = [b \in Blocks |-> 0]
  /\ crashed = FALSE

(* What one object undergoes on its own. *)
Lifetime(d) == DefaultConstruct(d) \/ NewStaticString(d) \/ Destroy(d)

(* The rule of five, between two objects. *)
Transfer(d, s) ==
  \/ CopyConstruct(d, s)
  \/ MoveConstruct(d, s)
  \/ CopyAssign(d, s)
  \/ MoveAssign(d, s)

Unary(d, s) ==
  \/ Strlen(d, s)
  \/ Not(d, s)
  \/ \E start, end \in 0..MaxLen : Substring(d, s, start, end)

Binary(d, a, b) ==
  \/ Concat(d, a, b)
  \/ Equal(d, a, b)
  \/ And(d, a, b)
  \/ Or(d, a, b)

Next ==
  /\ ~crashed
  /\ \E d \in Slots :
       \/ Lifetime(d)
       \/ \E s \in Slots : Transfer(d, s) \/ Unary(d, s)
       \/ \E a, b \in Slots : Binary(d, a, b)

Spec == Init /\ [][Next]_vars

-----------------------------------------------------------------------------
(* Properties *)

(* Objects, blocks and counts have the shape the C++ types give them. *)
TypeOK ==
  /\ obj \in [Slots -> Seq(Parts)]
  /\ \A s \in Slots : Len(obj[s]) <= 2
  /\ memory \in [Blocks -> Text \cup {None}]
  /\ refs \in [Blocks -> Nat]
  /\ crashed \in BOOLEAN

(* The parts of objects, anywhere, that refer to block b. *)
Owners(b) == {o \in Slots \X {1, 2} : o[2] \in Handles(obj[o[1]], b)}

(* The count of a block is the number of parts that refer to it, and a      *)
(* block is allocated exactly while there is one: no leak, no double free,  *)
(* no use after free, through any sequence of copies, moves, joins and      *)
(* substrings (CopyStringPayload, CleanupStringPayload and their callers).  *)
RefsExact ==
  \A b \in Blocks : /\ refs[b] = Cardinality(Owners(b))
                    /\ memory[b] = None <=> Owners(b) = {}

(* A part that refers to a block stays inside the characters written to it, *)
(* whatever shifts and cuts substrings of substrings have applied.          *)
HandlesInBounds ==
  \A s \in Slots : \A i \in DOMAIN obj[s] :
    LET p == obj[s][i]
    IN  p.kind = "ref" => /\ memory[p.blk] # None
                          /\ p.off + p.len <= Len(memory[p.blk])

(* A join has two nonempty parts and is longer than any small string, and a *)
(* small string fits in its object: what Concat and SubstringOfJoinResult   *)
(* rely on when they read the other's result.                               *)
JoinShape ==
  \A s \in Slots :
    /\ IsJoin(obj[s]) => /\ PartLen(obj[s][1]) > 0 /\ PartLen(obj[s][2]) > 0
                         /\ Length(obj[s]) > SmallMax
    /\ \A i \in DOMAIN obj[s] :
         obj[s][i].kind = "small" => Len(obj[s][i].str) <= SmallMax

Skewed(p, q) == IsJoin(p) /\ IsJoin(q) /\ PartLen(p[1]) # PartLen(q[1])

(* operator== agrees with the contents for every pair of representations    *)
(* but one: two joins that are split at different places.                   *)
EqualUnlessSkewed ==
  \A s, t \in Slots :
    Live(s) /\ Live(t) /\ ~Skewed(obj[s], obj[t]) =>
      (EqualPayloads(obj[s], obj[t]) <=> Content(obj[s]) = Content(obj[t]))

(* poiboi_string.h:134: "Two strings are equal if their raw strings are     *)
(* equal."                                                                  *)
EqualComparesContents ==
  \A s, t \in Slots :
    Live(s) /\ Live(t) =>
      (EqualPayloads(obj[s], obj[t]) <=> Content(obj[s]) = Content(obj[t]))

(* What StringStore keeps of each object: its characters. *)
Values == INSTANCE StringStore
            WITH val <- [s \in Slots |-> IF Live(s) THEN Content(obj[s]) ELSE None]

(* A step of an operation is the step StringStore defines for it. *)
OwnEffect ==
  ~crashed' =>
    \A d \in Slots : obj'[d] # obj[d] =>
      /\ Destroy(d) => Values!Destroy(d)
      /\ \A s \in Slots :
           /\ CopyConstruct(d, s) \/ CopyAssign(d, s) => Values!Copy(d, s)
           /\ MoveConstruct(d, s) \/ MoveAssign(d, s) => Values!Move(d, s)
           /\ Strlen(d, s) => Values!Strlen(d, s)
           /\ Not(d, s) => Values!Not(d, s)
           /\ \A start, end \in 0..MaxLen :
                Substring(d, s, start, end) => Values!Substring(d, s, start, end)
      /\ \A a, b \in Slots :
           /\ Concat(d, a, b) => Values!Concat(d, a, b)
           /\ And(d, a, b) => Values!And(d, a, b)
           /\ Or(d, a, b) => Values!Or(d, a, b)

(* Every operation has the effect StringStore gives it on values: sharing   *)
(* blocks between objects is never visible, no operation on one object      *)
(* changes what another contains, and each gives its own result, not one    *)
(* that some other operation could have given.                              *)
StringsAreValues == Values!Spec /\ [][OwnEffect]_vars
=============================================================================
