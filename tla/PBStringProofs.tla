---------------------------- MODULE PBStringProofs ----------------------------
(***************************************************************************)
(* Ownership of heap memory in the string runtime, for any number of       *)
(* objects, blocks and characters.  The inductive invariant IInv joins the *)
(* types, the exactness of the counts and the soundness of every payload;  *)
(* the three need each other: a count stays a natural number only because  *)
(* it counts owners, and a substring stays in bounds only because the      *)
(* block it points into is kept by that count.                             *)
(*                                                                         *)
(* What the strings contain rests on that invariant: contents are read     *)
(* through handles, and what a handle refers to is kept, and kept as it    *)
(* was, by the counts.  operator== agrees with the contents unless two     *)
(* joins are split at different places, and the runtime implements         *)
(* StringStore.                                                            *)
(***************************************************************************)
EXTENDS PBString, FiniteSetTheorems, SequenceTheorems, TLAPS

Payload(pl) == pl \in Seq(Parts) /\ Len(pl) <= 2

(* A part an object may hold: its reference is to allocated memory, within  *)
(* the characters written, or its characters fit in the object.             *)
Backed(m, p) == p.kind = "ref" => /\ m[p.blk] # None
                                  /\ p.off + p.len <= Len(m[p.blk])
Fits(p)      == p.kind = "small" => Len(p.str) <= SmallMax

(* A payload an object may hold: no longer than MaxLen, and a join only of  *)
(* two nonempty parts too long for a small string.                          *)
Sound(m, pl) ==
  /\ pl \in Seq(Parts)
  /\ Len(pl) \in {1, 2}
  /\ \A i \in DOMAIN pl : Backed(m, pl[i]) /\ Fits(pl[i])
  /\ Length(pl) <= MaxLen
  /\ IsJoin(pl) => /\ PartLen(pl[1]) > 0 /\ PartLen(pl[2]) > 0
                   /\ Length(pl) > SmallMax

IInv ==
  /\ TypeOK
  /\ RefsExact
  /\ \A s \in Slots : Live(s) => Sound(memory, obj[s])

(* Owners of b in any assignment of payloads to objects. *)
OwnersIn(o, b) == {x \in Slots \X {1, 2} : x[2] \in Handles(o[x[1]], b)}

-----------------------------------------------------------------------------
LEMMA PositionsFinite == IsFiniteSet({1, 2})
<1>1. IsFiniteSet({1})
  BY FS_Singleton
<1>2. IsFiniteSet({1} \cup {2})
  BY <1>1, FS_AddElement
<1>3. {1} \cup {2} = {1, 2}
  OBVIOUS
<1>. QED
  BY <1>2, <1>3

(* The handles of a payload on a block are few, so they can be counted. *)
LEMMA HandlesFinite ==
  ASSUME NEW pl, Payload(pl), NEW b \in Blocks
  PROVE  /\ Handles(pl, b) \subseteq {1, 2}
         /\ IsFiniteSet(Handles(pl, b))
         /\ Held(pl, b) \in Nat
         /\ Held(pl, b) = 0 <=> Handles(pl, b) = {}
<1>1. Handles(pl, b) \subseteq {1, 2}
  BY DEF Handles, Payload
<1>2. IsFiniteSet({1, 2})
  BY PositionsFinite
<1>3. IsFiniteSet(Handles(pl, b))
  BY <1>1, <1>2, FS_Subset
<1>. QED
  BY <1>1, <1>3, FS_CardinalityType, FS_EmptySet DEF Held

(* Only memory a payload refers to matters to its soundness. *)
LEMMA SoundKept ==
  ASSUME NEW m, NEW n, NEW pl, Sound(m, pl),
         \A b \in Blocks : Held(pl, b) > 0 => n[b] = m[b]
  PROVE  Sound(n, pl)
<1>1. pl \in Seq(Parts) /\ Len(pl) \in {1, 2} /\ Payload(pl)
  BY DEF Sound, Payload
<1>2. ASSUME NEW i \in DOMAIN pl
      PROVE  Backed(n, pl[i]) /\ Fits(pl[i])
  <2>1. CASE pl[i].kind = "ref"
    <3>1. pl[i] \in Parts
      BY <1>1
    <3>2. pl[i].blk \in Blocks
      BY <2>1, <3>1 DEF Parts
    <3>3. i \in Handles(pl, pl[i].blk)
      BY <2>1 DEF Handles
    <3>4. Held(pl, pl[i].blk) > 0
      BY <1>1, <3>2, <3>3, HandlesFinite
    <3>. QED
      BY <3>2, <3>4 DEF Sound, Backed
  <2>2. CASE pl[i].kind # "ref"
    BY <2>2 DEF Sound, Backed
  <2>. QED
    BY <2>1, <2>2
<1>. QED
  BY <1>2 DEF Sound

(* What a sound payload refers to is allocated. *)
LEMMA HeldAllocated ==
  ASSUME NEW m, NEW pl, Sound(m, pl), NEW b \in Blocks, Held(pl, b) > 0
  PROVE  m[b] # None
<1>1. Payload(pl)
  BY DEF Sound, Payload
<1>2. Handles(pl, b) # {}
  BY <1>1, HandlesFinite
<1>. QED
  BY <1>2 DEF Handles, Sound, Backed

(* The owners of a block can be counted. *)
LEMMA OwnersFinite ==
  ASSUME NEW o, NEW b
  PROVE  /\ IsFiniteSet(OwnersIn(o, b))
         /\ Cardinality(OwnersIn(o, b)) \in Nat
         /\ Cardinality(OwnersIn(o, b)) = 0 <=> OwnersIn(o, b) = {}
<1>1. IsFiniteSet(Slots \X {1, 2})
  BY PositionsFinite, FiniteAssumption, FS_Product
<1>2. OwnersIn(o, b) \subseteq Slots \X {1, 2}
  BY DEF OwnersIn
<1>3. IsFiniteSet(OwnersIn(o, b))
  BY <1>1, <1>2, FS_Subset
<1>. QED
  BY <1>3, FS_CardinalityType, FS_EmptySet

(* Replacing the payload of one object moves the number of owners of a      *)
(* block by exactly the difference of the references the two payloads hold. *)
LEMMA OneObject ==
  ASSUME NEW o \in [Slots -> Seq(Parts)], \A s \in Slots : Len(o[s]) <= 2,
         NEW d \in Slots, NEW pl, Payload(pl), NEW b \in Blocks
  PROVE  Cardinality(OwnersIn([o EXCEPT ![d] = pl], b)) + Held(o[d], b)
           = Cardinality(OwnersIn(o, b)) + Held(pl, b)
<1>. DEFINE n == [o EXCEPT ![d] = pl]
            Rest == {x \in (Slots \ {d}) \X {1, 2} : x[2] \in Handles(o[x[1]], b)}
            Of(q) == {d} \X Handles(q, b)
<1>0. Payload(o[d]) /\ Payload(pl)
  BY DEF Payload
<1>1. IsFiniteSet({1, 2})
  BY PositionsFinite
<1>2. IsFiniteSet(Rest)
  <2>1. IsFiniteSet((Slots \ {d}) \X {1, 2})
    BY <1>1, FiniteAssumption, FS_Subset, FS_Product, Slots \ {d} \subseteq Slots
  <2>. QED
    BY <2>1, FS_Subset, Rest \subseteq (Slots \ {d}) \X {1, 2}
<1>3. ASSUME NEW q, Payload(q)
      PROVE  IsFiniteSet(Of(q)) /\ Cardinality(Of(q)) = Held(q, b) /\ Rest \cap Of(q) = {}
  <2>1. IsFiniteSet(Handles(q, b)) /\ Held(q, b) \in Nat
    BY <1>3, HandlesFinite
  <2>2. IsFiniteSet({d}) /\ Cardinality({d}) = 1
    BY FS_Singleton
  <2>3. IsFiniteSet(Of(q)) /\ Cardinality(Of(q)) = 1 * Cardinality(Handles(q, b))
    BY <2>1, <2>2, FS_Product
  <2>4. Rest \cap Of(q) = {}
    OBVIOUS
  <2>. QED
    BY <2>1, <2>3, <2>4 DEF Held
<1>4. OwnersIn(o, b) = Rest \cup Of(o[d])
  <2>1. Handles(o[d], b) \subseteq {1, 2}
    BY <1>0, HandlesFinite
  <2>. QED
    BY <2>1 DEF OwnersIn
<1>5. OwnersIn(n, b) = Rest \cup Of(pl)
  <2>1. Handles(pl, b) \subseteq {1, 2}
    BY <1>0, HandlesFinite
  <2>2. n[d] = pl /\ \A s \in Slots \ {d} : n[s] = o[s]
    OBVIOUS
  <2>. HIDE DEF n
  <2>. QED
    BY <2>1, <2>2 DEF OwnersIn
<1>6. ASSUME NEW q, Payload(q)
      PROVE  /\ IsFiniteSet(Rest \cup Of(q))
             /\ Cardinality(Rest \cup Of(q)) = Cardinality(Rest) + Held(q, b)
  <2>. HIDE DEF Rest, Of
  <2>1. Cardinality(Rest \cup Of(q))
          = Cardinality(Rest) + Cardinality(Of(q)) - Cardinality(Rest \cap Of(q))
    BY <1>2, <1>3, <1>6, FS_Union
  <2>2. Cardinality(Rest \cap Of(q)) = 0
    BY <1>3, <1>6, FS_EmptySet
  <2>3. Cardinality(Rest) \in Nat /\ Cardinality(Of(q)) \in Nat
    BY <1>2, <1>3, <1>6, FS_CardinalityType
  <2>. QED
    <3>1. IsFiniteSet(Rest \cup Of(q))
      BY <1>2, <1>3, <1>6, FS_Union
    <3>2. Cardinality(Of(q)) = Held(q, b)
      BY <1>3, <1>6
    <3>. QED
      BY <2>1, <2>2, <2>3, <3>1, <3>2
<1>7. Cardinality(Rest) \in Nat /\ Held(o[d], b) \in Nat /\ Held(pl, b) \in Nat
  BY <1>0, <1>2, FS_CardinalityType, HandlesFinite
<1>. HIDE DEF Rest, Of
<1>8. Cardinality(OwnersIn(o, b)) = Cardinality(Rest) + Held(o[d], b)
  BY <1>0, <1>4, <1>6
<1>9. Cardinality(OwnersIn(n, b)) = Cardinality(Rest) + Held(pl, b)
  BY <1>0, <1>5, <1>6
<1>. QED
  BY <1>7, <1>8, <1>9

-----------------------------------------------------------------------------
(* Lengths are natural numbers. *)
LEMMA PartLenType ==
  ASSUME NEW p \in Parts
  PROVE  PartLen(p) \in Nat
BY DEF PartLen, Parts, Text

(* Shifting drops characters from the front and keeps the end in place. *)
LEMMA ShiftFacts ==
  ASSUME NEW p \in Parts, NEW k \in 0..PartLen(p), Backed(memory, p), Fits(p), TypeOK
  PROVE  /\ ShiftRight(p, k) \in Parts
         /\ PartLen(ShiftRight(p, k)) = PartLen(p) - k
         /\ Backed(memory, ShiftRight(p, k))
         /\ Fits(ShiftRight(p, k))
<1>1. CASE p.kind = "ref"
  <2>1. p \in [kind : {"ref"}, blk : Blocks, off : Nat, len : Nat]
    BY <1>1 DEF Parts
  <2>2. /\ ShiftRight(p, k) = [p EXCEPT !.off = p.off + k, !.len = p.len - k]
        /\ PartLen(p) = p.len
        /\ p.off + k \in Nat /\ p.len - k \in Nat
    BY <1>1, <2>1 DEF ShiftRight, PartLen
  <2>3. /\ ShiftRight(p, k).kind = "ref"
        /\ ShiftRight(p, k).blk = p.blk
        /\ ShiftRight(p, k).off = p.off + k
        /\ ShiftRight(p, k).len = p.len - k
    BY <2>1, <2>2
  <2>4. ShiftRight(p, k) \in [kind : {"ref"}, blk : Blocks, off : Nat, len : Nat]
    BY <2>1, <2>2
  <2>5. memory[p.blk] # None /\ Len(memory[p.blk]) \in Nat
    BY <1>1, <2>1 DEF Backed, TypeOK, Text
  <2>. QED
    BY <1>1, <2>1, <2>2, <2>3, <2>4, <2>5 DEF Parts, Backed, Fits, PartLen
<1>2. CASE p.kind # "ref"
  <2>1. p \in [kind : {"static", "small"}, str : Text] /\ PartLen(p) = Len(p.str)
    BY <1>2 DEF Parts, PartLen
  <2>2. ShiftRight(p, k) = [p EXCEPT !.str = SubSeq(p.str, k + 1, Len(p.str))]
    BY <1>2, <2>1 DEF ShiftRight
  <2>3. /\ SubSeq(p.str, k + 1, Len(p.str)) \in Text
        /\ Len(SubSeq(p.str, k + 1, Len(p.str))) = Len(p.str) - k
    BY <2>1 DEF Text
  <2>4. ShiftRight(p, k).kind = p.kind
        /\ ShiftRight(p, k).str = SubSeq(p.str, k + 1, Len(p.str))
        /\ ShiftRight(p, k) \in [kind : {"static", "small"}, str : Text]
    BY <2>1, <2>2, <2>3
  <2>5. Len(p.str) \in Nat /\ SmallMax \in Nat
    BY <2>1, SizesAssumption DEF Text
  <2>. QED
    BY <1>2, <2>1, <2>3, <2>4, <2>5 DEF Parts, Backed, Fits, PartLen
<1>. QED
  BY <1>1, <1>2

(* Cutting drops characters from the end and keeps the front in place. *)
LEMMA DecrementFacts ==
  ASSUME NEW p \in Parts, NEW k \in 0..PartLen(p), Backed(memory, p), Fits(p), TypeOK
  PROVE  /\ DecrementLength(p, k) \in Parts
         /\ PartLen(DecrementLength(p, k)) = PartLen(p) - k
         /\ Backed(memory, DecrementLength(p, k))
         /\ Fits(DecrementLength(p, k))
<1>1. CASE p.kind = "ref"
  <2>1. p \in [kind : {"ref"}, blk : Blocks, off : Nat, len : Nat]
    BY <1>1 DEF Parts
  <2>2. DecrementLength(p, k) = [p EXCEPT !.len = @ - k] /\ PartLen(p) = p.len
    BY <1>1 DEF DecrementLength, PartLen
  <2>3. /\ DecrementLength(p, k).kind = "ref"
        /\ DecrementLength(p, k).blk = p.blk
        /\ DecrementLength(p, k).off = p.off
        /\ DecrementLength(p, k).len = p.len - k
    BY <2>1, <2>2
  <2>4. DecrementLength(p, k) \in [kind : {"ref"}, blk : Blocks, off : Nat, len : Nat]
    BY <2>1, <2>2
  <2>5. memory[p.blk] # None /\ Len(memory[p.blk]) \in Nat
    BY <1>1, <2>1 DEF Backed, TypeOK, Text
  <2>. QED
    BY <1>1, <2>1, <2>2, <2>3, <2>4, <2>5 DEF Parts, Backed, Fits, PartLen
<1>2. CASE p.kind # "ref"
  <2>1. p \in [kind : {"static", "small"}, str : Text] /\ PartLen(p) = Len(p.str)
    BY <1>2 DEF Parts, PartLen
  <2>2. DecrementLength(p, k) = [p EXCEPT !.str = SubSeq(p.str, 1, Len(p.str) - k)]
    BY <1>2, <2>1 DEF DecrementLength
  <2>3. /\ SubSeq(p.str, 1, Len(p.str) - k) \in Text
        /\ Len(SubSeq(p.str, 1, Len(p.str) - k)) = Len(p.str) - k
    BY <2>1 DEF Text
  <2>4. DecrementLength(p, k).kind = p.kind
        /\ DecrementLength(p, k).str = SubSeq(p.str, 1, Len(p.str) - k)
        /\ DecrementLength(p, k) \in [kind : {"static", "small"}, str : Text]
    BY <2>1, <2>2, <2>3
  <2>5. Len(p.str) \in Nat /\ SmallMax \in Nat
    BY <2>1, SizesAssumption DEF Text
  <2>. QED
    BY <1>2, <2>1, <2>3, <2>4, <2>5 DEF Parts, Backed, Fits, PartLen
<1>. QED
  BY <1>1, <1>2

(* The characters of a part are as many as its length says. *)
LEMMA PartTextFacts ==
  ASSUME NEW p \in Parts, Backed(memory, p), TypeOK
  PROVE  PartText(p) \in Text /\ Len(PartText(p)) = PartLen(p)
<1>1. CASE p.kind = "ref"
  <2>1. p \in [kind : {"ref"}, blk : Blocks, off : Nat, len : Nat]
    BY <1>1 DEF Parts
  <2>2. memory[p.blk] \in Seq(Char) /\ p.off + p.len <= Len(memory[p.blk])
    BY <1>1, <2>1 DEF Backed, TypeOK, Text
  <2>3. /\ SubSeq(memory[p.blk], p.off + 1, p.off + p.len) \in Seq(Char)
        /\ Len(SubSeq(memory[p.blk], p.off + 1, p.off + p.len)) = p.len
    BY <2>1, <2>2
  <2>. QED
    BY <1>1, <2>3 DEF PartText, PartLen, Text
<1>2. CASE p.kind # "ref"
  BY <1>2 DEF Parts, PartText, PartLen
<1>. QED
  BY <1>1, <1>2

(* A part alone, or two that make a join, form a sound payload. *)
LEMMA SoundOne ==
  ASSUME NEW p \in Parts, Backed(memory, p), Fits(p), PartLen(p) <= MaxLen
  PROVE  Sound(memory, <<p>>)
<1>1. <<p>> \in Seq(Parts) /\ Len(<<p>>) = 1 /\ <<p>>[1] = p /\ DOMAIN <<p>> = {1}
  OBVIOUS
<1>. QED
  BY <1>1 DEF Sound, Length, IsJoin

LEMMA SoundTwo ==
  ASSUME NEW p \in Parts, Backed(memory, p), Fits(p), PartLen(p) > 0,
         NEW q \in Parts, Backed(memory, q), Fits(q), PartLen(q) > 0,
         PartLen(p) + PartLen(q) <= MaxLen, PartLen(p) + PartLen(q) > SmallMax
  PROVE  Sound(memory, <<p, q>>)
<1>1. /\ <<p, q>> \in Seq(Parts) /\ Len(<<p, q>>) = 2
      /\ <<p, q>>[1] = p /\ <<p, q>>[2] = q /\ DOMAIN <<p, q>> = {1, 2}
  OBVIOUS
<1>. QED
  BY <1>1 DEF Sound, Length, IsJoin

(* What is inside a sound payload. *)
LEMMA SoundParts ==
  ASSUME NEW pl, Sound(memory, pl)
  PROVE  /\ pl[1] \in Parts /\ Backed(memory, pl[1]) /\ Fits(pl[1]) /\ PartLen(pl[1]) \in Nat
         /\ IsJoin(pl) => /\ pl[2] \in Parts /\ Backed(memory, pl[2]) /\ Fits(pl[2])
                          /\ PartLen(pl[2]) \in Nat
                          /\ Length(pl) = PartLen(pl[1]) + PartLen(pl[2])
         /\ ~IsJoin(pl) => Length(pl) = PartLen(pl[1])
         /\ Length(pl) \in Nat
<1>0. pl \in Seq(Parts) /\ Len(pl) \in {1, 2}
  BY DEF Sound
<1>1. pl[1] \in Parts /\ 1 \in DOMAIN pl
  BY <1>0
<1>2. IsJoin(pl) => pl[2] \in Parts /\ 2 \in DOMAIN pl
  BY <1>0 DEF IsJoin
<1>3. PartLen(pl[1]) \in Nat /\ (IsJoin(pl) => PartLen(pl[2]) \in Nat)
  BY <1>1, <1>2, PartLenType
<1>. QED
  BY <1>1, <1>2, <1>3 DEF Sound, Length

LEMMA ContentFacts ==
  ASSUME TypeOK, NEW pl, Sound(memory, pl)
  PROVE  Content(pl) \in Text /\ Len(Content(pl)) = Length(pl)
<1>1. CASE IsJoin(pl)
  <2>1. /\ PartText(pl[1]) \in Text /\ Len(PartText(pl[1])) = PartLen(pl[1])
        /\ PartText(pl[2]) \in Text /\ Len(PartText(pl[2])) = PartLen(pl[2])
    BY <1>1, SoundParts, PartTextFacts
  <2>. DEFINE u == PartText(pl[1])
              v == PartText(pl[2])
  <2>2. Content(pl) = u \o v
    BY <1>1 DEF Content
  <2>3. Length(pl) = PartLen(pl[1]) + PartLen(pl[2])
    BY <1>1, SoundParts
  <2>4. u \in Seq(Char) /\ v \in Seq(Char)
    BY <2>1 DEF Text
  <2>5. Len(u) = PartLen(pl[1]) /\ Len(v) = PartLen(pl[2])
    BY <2>1
  <2>. HIDE DEF u, v
  <2>6. u \o v \in Seq(Char) /\ Len(u \o v) = Len(u) + Len(v)
    BY <2>4
  <2>. QED
    BY <2>2, <2>3, <2>5, <2>6 DEF Text
<1>2. CASE ~IsJoin(pl)
  BY <1>2, SoundParts, PartTextFacts DEF Content
<1>. QED
  BY <1>1, <1>2

(* Small and static payloads of characters. *)
LEMMA SmallSound ==
  ASSUME NEW str \in Text, Len(str) <= SmallMax, Len(str) <= MaxLen
  PROVE  Sound(memory, <<Small(str)>>)
<1>1. Small(str) \in Parts /\ Small(str).kind = "small" /\ Small(str).str = str
  BY DEF Small, Parts
<1>. QED
  BY <1>1, SoundOne DEF Backed, Fits, PartLen

LEMMA StaticSound ==
  ASSUME NEW str \in Text, Len(str) <= MaxLen
  PROVE  Sound(memory, <<Static(str)>>)
<1>1. Static(str) \in Parts /\ Static(str).kind = "static" /\ Static(str).str = str
  BY DEF Static, Parts
<1>. QED
  BY <1>1, SoundOne DEF Backed, Fits, PartLen

LEMMA EmptySound == Sound(memory, Empty)
<1>1. <<>> \in Text /\ Len(<<>>) = 0
  BY DEF Text
<1>. QED
  BY <1>1, SmallSound, SizesAssumption DEF Empty

(* SubstringOfJoinResult and the three plain cases of Substring: a          *)
(* nonempty range of a sound payload is a sound payload.                    *)
LEMMA SubPayloadSound ==
  ASSUME TypeOK, NEW pl, Sound(memory, pl),
         NEW start \in Nat, NEW end \in Nat, start < end, end <= Length(pl)
  PROVE  Sound(memory, SubPayload(pl, start, end))
<1>. DEFINE left == PartLen(pl[1])
            all  == Length(pl)
<1>0. /\ pl[1] \in Parts /\ Backed(memory, pl[1]) /\ Fits(pl[1]) /\ left \in Nat
      /\ all \in Nat /\ all <= MaxLen /\ MaxLen \in Nat /\ SmallMax \in Nat
  BY SoundParts, SizesAssumption DEF Sound
<1>1. CASE ~IsJoin(pl) \/ end <= left
  <2>. DEFINE p == ShiftRight(pl[1], start)
              q == DecrementLength(p, left - end)
  <2>1. end <= left /\ left <= all
    BY <1>0, <1>1, SoundParts
  <2>2. p \in Parts /\ PartLen(p) = left - start /\ Backed(memory, p) /\ Fits(p)
    BY <1>0, <2>1, ShiftFacts
  <2>3. left - end \in 0..PartLen(p)
    BY <1>0, <2>1, <2>2
  <2>4. q \in Parts /\ PartLen(q) = (left - start) - (left - end) /\ Backed(memory, q) /\ Fits(q)
    <3>. HIDE DEF p
    <3>. QED
      BY <2>2, <2>3, DecrementFacts
  <2>5. SubPayload(pl, start, end) = <<q>>
    BY <1>1 DEF SubPayload
  <2>6. PartLen(q) <= MaxLen
    <3>. HIDE DEF q
    <3>. QED
      BY <1>0, <2>1, <2>4
  <2>. HIDE DEF p, q
  <2>. QED
    BY <2>4, <2>5, <2>6, SoundOne
<1>2. CASE IsJoin(pl) /\ end > left
  <2>0. /\ pl[2] \in Parts /\ Backed(memory, pl[2]) /\ Fits(pl[2]) /\ PartLen(pl[2]) \in Nat
        /\ all = left + PartLen(pl[2])
    BY <1>2, SoundParts
  <2>1. CASE start >= left
    <3>. DEFINE p == ShiftRight(pl[2], start - left)
                q == DecrementLength(p, all - end)
    <3>1. start - left \in 0..PartLen(pl[2])
      BY <1>0, <2>0, <2>1
    <3>2. p \in Parts /\ PartLen(p) = PartLen(pl[2]) - (start - left) /\ Backed(memory, p) /\ Fits(p)
      BY <2>0, <3>1, ShiftFacts
    <3>3. all - end \in 0..PartLen(p)
      <4>. HIDE DEF p, left, all
      <4>. QED
        BY <1>0, <2>0, <2>1, <3>2 DEF all
    <3>4. q \in Parts /\ PartLen(q) = PartLen(p) - (all - end) /\ Backed(memory, q) /\ Fits(q)
      <4>. HIDE DEF p
      <4>. QED
        BY <3>2, <3>3, DecrementFacts
    <3>5. SubPayload(pl, start, end) = <<q>>
      BY <1>0, <1>2, <2>1 DEF SubPayload
    <3>6. PartLen(q) <= MaxLen
      <4>. HIDE DEF p, q
      <4>. QED
        BY <1>0, <2>0, <2>1, <3>2, <3>4
    <3>. HIDE DEF p, q
    <3>. QED
      BY <3>4, <3>5, <3>6, SoundOne
  <2>2. CASE start < left /\ end - start <= SmallMax
    <3>. DEFINE u == SubSeq(PartText(pl[1]), start + 1, left)
                v == SubSeq(PartText(pl[2]), 1, end - left)
    <3>1. /\ PartText(pl[1]) \in Text /\ Len(PartText(pl[1])) = left
          /\ PartText(pl[2]) \in Text /\ Len(PartText(pl[2])) = PartLen(pl[2])
      BY <1>0, <2>0, PartTextFacts
    <3>2. u \in Seq(Char) /\ Len(u) = left - start
      BY <1>0, <2>2, <3>1 DEF Text
    <3>3. v \in Seq(Char) /\ Len(v) = end - left
      BY <1>0, <1>2, <2>0, <3>1 DEF Text
    <3>4. u \o v \in Text /\ Len(u \o v) = end - start
      <4>. HIDE DEF u, v
      <4>. QED
        BY <1>0, <3>2, <3>3 DEF Text
    <3>5. SubPayload(pl, start, end) = <<Small(u \o v)>>
      BY <1>0, <1>2, <2>2 DEF SubPayload
    <3>6. Len(u \o v) <= SmallMax /\ Len(u \o v) <= MaxLen
      <4>. HIDE DEF u, v
      <4>. QED
        BY <1>0, <2>2, <3>4
    <3>. HIDE DEF u, v
    <3>. QED
      BY <3>4, <3>5, <3>6, SmallSound
  <2>3. CASE start < left /\ end - start > SmallMax
    <3>. DEFINE p == ShiftRight(pl[1], start)
                q == DecrementLength(pl[2], all - end)
    <3>1. p \in Parts /\ PartLen(p) = left - start /\ Backed(memory, p) /\ Fits(p)
      BY <1>0, <2>3, ShiftFacts
    <3>2. all - end \in 0..PartLen(pl[2])
      BY <1>0, <1>2, <2>0
    <3>3. q \in Parts /\ PartLen(q) = PartLen(pl[2]) - (all - end) /\ Backed(memory, q) /\ Fits(q)
      BY <2>0, <3>2, DecrementFacts
    <3>4. SubPayload(pl, start, end) = <<p, q>>
      BY <1>0, <1>2, <2>3 DEF SubPayload
    <3>5. /\ PartLen(p) > 0 /\ PartLen(q) > 0
          /\ PartLen(p) + PartLen(q) <= MaxLen /\ PartLen(p) + PartLen(q) > SmallMax
      <4>. HIDE DEF p, q
      <4>. QED
        BY <1>0, <1>2, <2>0, <2>3, <3>1, <3>3
    <3>. HIDE DEF p, q
    <3>. QED
      BY <3>1, <3>3, <3>4, <3>5, SoundTwo
  <2>. QED
    BY <1>0, <2>1, <2>2, <2>3
<1>. QED
  BY <1>0, <1>1, <1>2

-----------------------------------------------------------------------------
(* The counts in a state of the invariant. *)
LEMMA Exact ==
  ASSUME IInv, NEW b \in Blocks
  PROVE  /\ refs[b] \in Nat
         /\ refs[b] = Cardinality(OwnersIn(obj, b))
         /\ memory[b] = None <=> refs[b] = 0
         /\ \A s \in Slots : Held(obj[s], b) \in Nat
<1>1. TypeOK /\ RefsExact
  BY DEF IInv
<1>2. \A s \in Slots : Payload(obj[s])
  BY <1>1 DEF TypeOK, Payload
<1>3. Owners(b) = OwnersIn(obj, b)
  BY DEF Owners, OwnersIn
<1>. QED
  BY <1>1, <1>2, <1>3, OwnersFinite, HandlesFinite DEF TypeOK, RefsExact

(* The count of owners after one object changes. *)
LEMMA CountAfter ==
  ASSUME IInv, NEW d \in Slots, NEW pl, Payload(pl), NEW b \in Blocks
  PROVE  /\ Cardinality(OwnersIn([obj EXCEPT ![d] = pl], b)) \in Nat
         /\ Cardinality(OwnersIn([obj EXCEPT ![d] = pl], b))
              = refs[b] - Held(obj[d], b) + Held(pl, b)
<1>. DEFINE n == [obj EXCEPT ![d] = pl]
<1>1. obj \in [Slots -> Seq(Parts)] /\ \A s \in Slots : Len(obj[s]) <= 2
  BY DEF IInv, TypeOK
<1>3. Cardinality(OwnersIn(n, b)) + Held(obj[d], b)
        = Cardinality(OwnersIn(obj, b)) + Held(pl, b)
  BY <1>1, OneObject
<1>5. Cardinality(OwnersIn(n, b)) \in Nat
  BY OwnersFinite
<1>6. refs[b] = Cardinality(OwnersIn(obj, b)) /\ refs[b] \in Nat /\ Held(obj[d], b) \in Nat
  BY Exact
<1>7. Held(pl, b) \in Nat
  BY HandlesFinite
<1>. HIDE DEF n
<1>8. Cardinality(OwnersIn(n, b)) = refs[b] - Held(obj[d], b) + Held(pl, b)
  BY <1>3, <1>5, <1>6, <1>7
<1>. QED
  BY <1>5, <1>8 DEF n

(* Raw storage holds nothing, and neither does the empty string. *)
LEMMA NothingHeld ==
  ASSUME NEW b \in Blocks
  PROVE  /\ Payload(Raw) /\ Held(Raw, b) = 0
         /\ Payload(Empty) /\ Held(Empty, b) = 0
<1>1. Payload(Raw) /\ Handles(Raw, b) = {}
  BY DEF Payload, Raw, Handles
<1>2. Payload(Empty)
  BY EmptySound DEF Sound, Payload
<1>3. Handles(Empty, b) = {}
  BY DEF Handles, Empty, Small
<1>. QED
  BY <1>1, <1>2, <1>3, HandlesFinite

(* A block another object refers to outlives the references d drops. *)
LEMMA Survives ==
  ASSUME IInv, NEW d \in Slots, NEW t \in Slots, t # d, NEW b \in Blocks,
         Held(obj[t], b) > 0
  PROVE  refs[b] > Held(obj[d], b)
<1>. DEFINE n == [obj EXCEPT ![d] = Raw]
<1>1. obj \in [Slots -> Seq(Parts)] /\ Payload(obj[t])
  BY DEF IInv, TypeOK, Payload
<1>2. n[t] = obj[t]
  BY <1>1
<1>3. PICK i \in {1, 2} : i \in Handles(n[t], b)
  BY <1>1, <1>2, HandlesFinite
<1>4. <<t, i>> \in OwnersIn(n, b)
  BY <1>3 DEF OwnersIn
<1>5. Cardinality(OwnersIn(n, b)) = refs[b] - Held(obj[d], b) + Held(Raw, b)
  BY NothingHeld, CountAfter
<1>6. Held(Raw, b) = 0
  BY NothingHeld
<1>8. Cardinality(OwnersIn(n, b)) \in Nat /\ Cardinality(OwnersIn(n, b)) # 0
  BY <1>4, OwnersFinite
<1>9. refs[b] \in Nat /\ Held(obj[d], b) \in Nat
  BY Exact
<1>. HIDE DEF n
<1>. QED
  BY <1>5, <1>6, <1>8, <1>9

(* What a step must show to keep the invariant. *)
LEMMA Kept ==
  ASSUME IInv,
         obj' \in [Slots -> Seq(Parts)],
         \A s \in Slots : Len(obj'[s]) <= 2,
         memory' \in [Blocks -> Text \cup {None}],
         refs' \in [Blocks -> Nat],
         crashed' \in BOOLEAN,
         \A b \in Blocks : refs'[b] = Cardinality(OwnersIn(obj', b)),
         \A b \in Blocks : memory'[b] = None <=> refs'[b] = 0,
         \A s \in Slots : obj'[s] # Raw => Sound(memory', obj'[s])
  PROVE  IInv'
<1>1. TypeOK'
  BY DEF TypeOK
<1>2. ASSUME NEW b \in Blocks
      PROVE  Owners(b)' = OwnersIn(obj', b)
  BY DEF Owners, OwnersIn
<1>3. RefsExact'
  BY <1>2, OwnersFinite DEF RefsExact
<1>. QED
  BY <1>1, <1>3 DEF IInv, Live

(* A move from s to d changes the number of owners of a block only by what  *)
(* d held before.                                                           *)
LEMMA MovedCount ==
  ASSUME IInv, NEW d \in Slots, NEW s \in Slots, d # s, NEW b \in Blocks
  PROVE  Cardinality(OwnersIn([obj EXCEPT ![d] = obj[s], ![s] = Empty], b))
           = Cardinality(OwnersIn(obj, b)) - Held(obj[d], b)
<1>. DEFINE n == [obj EXCEPT ![d] = obj[s]]
<1>1. obj \in [Slots -> Seq(Parts)] /\ \A t \in Slots : Len(obj[t]) <= 2
  BY DEF IInv, TypeOK
<1>2. Payload(obj[s])
  BY <1>1 DEF Payload
<1>3. /\ n \in [Slots -> Seq(Parts)] /\ \A t \in Slots : Len(n[t]) <= 2
      /\ n[s] = obj[s]
      /\ [obj EXCEPT ![d] = obj[s], ![s] = Empty] = [n EXCEPT ![s] = Empty]
  BY <1>1
<1>4. Cardinality(OwnersIn(n, b)) = refs[b] - Held(obj[d], b) + Held(obj[s], b)
  BY <1>2, CountAfter
<1>. HIDE DEF n
<1>5. Cardinality(OwnersIn([n EXCEPT ![s] = Empty], b)) + Held(n[s], b)
        = Cardinality(OwnersIn(n, b)) + Held(Empty, b)
  <2>1. Payload(Empty)
    BY NothingHeld
  <2>2. n \in [Slots -> Seq(Parts)]
    BY <1>3
  <2>3. \A t \in Slots : Len(n[t]) <= 2
    BY <1>3
  <2>. QED
    BY <2>1, <2>2, <2>3, OneObject
<1>6. /\ Held(Empty, b) = 0 /\ Held(obj[s], b) \in Nat /\ Held(obj[d], b) \in Nat
      /\ refs[b] \in Nat /\ refs[b] = Cardinality(OwnersIn(obj, b))
  BY NothingHeld, Exact
<1>7. Cardinality(OwnersIn([n EXCEPT ![s] = Empty], b)) \in Nat
  BY OwnersFinite
<1>. QED
  BY <1>3, <1>4, <1>5, <1>6, <1>7

(* Releasing the payload of d: counts stay natural numbers, a block is      *)
(* freed exactly when its last reference goes, and what any other object    *)
(* refers to stays as it was.                                               *)
LEMMA ReleaseFacts ==
  ASSUME IInv, NEW d \in Slots
  PROVE  LET r == Released(refs, obj[d])
             m == Freed(memory, refs, obj[d])
         IN  /\ r \in [Blocks -> Nat]
             /\ m \in [Blocks -> Text \cup {None}]
             /\ \A b \in Blocks : m[b] = None <=> r[b] = 0
             /\ \A t \in Slots \ {d}, b \in Blocks :
                  Held(obj[t], b) > 0 => m[b] = memory[b] /\ r[b] > 0
<1>. DEFINE r == Released(refs, obj[d])
            m == Freed(memory, refs, obj[d])
<1>1. ASSUME NEW b \in Blocks
      PROVE  /\ r[b] = refs[b] - Held(obj[d], b)
             /\ r[b] \in Nat
             /\ m[b] = (IF Held(obj[d], b) > 0 /\ refs[b] <= Held(obj[d], b)
                          THEN None ELSE memory[b])
             /\ refs[b] \in Nat /\ Held(obj[d], b) \in Nat
  <2>1. r[b] = refs[b] - Held(obj[d], b) + 0
    BY Exact DEF Released
  <2>2. refs[b] - Held(obj[d], b) + 0 \in Nat
    BY NothingHeld, CountAfter
  <2>3. m[b] = (IF Held(obj[d], b) > 0 /\ refs[b] <= Held(obj[d], b)
                  THEN None ELSE memory[b])
    BY DEF Freed
  <2>4. refs[b] \in Nat /\ Held(obj[d], b) \in Nat
    BY Exact
  <2>. HIDE DEF r, m
  <2>. QED
    BY <2>1, <2>2, <2>3, <2>4
<1>2. ASSUME NEW b \in Blocks
      PROVE  m[b] = None <=> r[b] = 0
  <2>1. memory[b] = None <=> refs[b] = 0
    BY Exact
  <2>. HIDE DEF r, m
  <2>. QED
    BY <1>1, <2>1
<1>3. ASSUME NEW t \in Slots \ {d}, NEW b \in Blocks, Held(obj[t], b) > 0
      PROVE  m[b] = memory[b] /\ r[b] > 0
  <2>1. refs[b] > Held(obj[d], b)
    BY <1>3, Survives
  <2>. HIDE DEF r, m
  <2>. QED
    BY <1>1, <2>1
<1>4. r \in [Blocks -> Nat]
  BY <1>1 DEF Released
<1>5. m \in [Blocks -> Text \cup {None}]
  BY DEF IInv, TypeOK, Freed
<1>. QED
  BY <1>2, <1>3, <1>4, <1>5

(* A new object shares the blocks its payload refers to. *)
LEMMA ConstructKeeps ==
  ASSUME IInv, NEW d \in Slots, NEW pl, Sound(memory, pl), Construct(d, pl)
  PROVE  IInv'
<1>1. /\ obj \in [Slots -> Seq(Parts)] /\ \A s \in Slots : Len(obj[s]) <= 2
      /\ memory \in [Blocks -> Text \cup {None}] /\ crashed \in BOOLEAN
      /\ \A s \in Slots : obj[s] # Raw => Sound(memory, obj[s])
  BY DEF IInv, TypeOK, Live
<1>2. /\ obj[d] = Raw /\ obj' = [obj EXCEPT ![d] = pl]
      /\ refs' = Acquired(refs, pl) /\ memory' = memory /\ crashed' = crashed
  BY DEF Construct, Live
<1>3. Payload(pl)
  BY DEF Sound, Payload
<1>4. ASSUME NEW b \in Blocks
      PROVE  /\ refs'[b] = Cardinality(OwnersIn(obj', b))
             /\ refs'[b] \in Nat
             /\ memory'[b] = None <=> refs'[b] = 0
  <2>1. Held(pl, b) \in Nat /\ (Held(pl, b) > 0 => memory[b] # None)
    BY <1>3, HandlesFinite, HeldAllocated
  <2>2. refs[b] \in Nat /\ (memory[b] = None <=> refs[b] = 0)
    BY Exact
  <2>3. refs'[b] = refs[b] + Held(pl, b)
    BY <1>2 DEF Acquired
  <2>4. Cardinality(OwnersIn(obj', b)) = refs[b] - Held(obj[d], b) + Held(pl, b)
    BY <1>2, <1>3, CountAfter
  <2>5. Held(obj[d], b) = 0
    BY <1>2, NothingHeld
  <2>6. refs[b] - 0 + Held(pl, b) = refs[b] + Held(pl, b)
    BY <2>1, <2>2
  <2>7. memory'[b] = None <=> refs'[b] = 0
    BY <1>2, <2>1, <2>2, <2>3
  <2>. QED
    BY <2>1, <2>2, <2>3, <2>4, <2>5, <2>6, <2>7
<1>5. refs' \in [Blocks -> Nat]
  BY <1>2, <1>4 DEF Acquired
<1>6. obj' \in [Slots -> Seq(Parts)] /\ \A s \in Slots : Len(obj'[s]) <= 2
  BY <1>1, <1>2, <1>3 DEF Payload
<1>7. \A s \in Slots : obj'[s] # Raw => Sound(memory', obj'[s])
  BY <1>1, <1>2
<1>. QED
  BY <1>1, <1>2, <1>4, <1>5, <1>6, <1>7, Kept

(* A new block belongs to the object built in it alone. *)
LEMMA NewBlockKeeps ==
  ASSUME IInv, NEW d \in Slots, NEW str \in Text, Len(str) <= MaxLen,
         ConstructInNewBlock(d, str)
  PROVE  IInv'
<1>1. /\ obj \in [Slots -> Seq(Parts)] /\ \A s \in Slots : Len(obj[s]) <= 2
      /\ memory \in [Blocks -> Text \cup {None}] /\ refs \in [Blocks -> Nat]
      /\ \A s \in Slots : obj[s] # Raw => Sound(memory, obj[s])
  BY DEF IInv, TypeOK, Live
<1>2. CASE UNCHANGED <<obj, memory, refs>> /\ crashed' = TRUE
  <2>1. \A b \in Blocks : /\ refs[b] = Cardinality(OwnersIn(obj, b))
                          /\ memory[b] = None <=> refs[b] = 0
    BY Exact
  <2>. QED
    BY <1>1, <1>2, <2>1, Kept
<1>3. ASSUME NEW c \in FreeBlocks,
             obj' = [obj EXCEPT ![d] = <<Ref(c, Len(str))>>],
             refs' = [refs EXCEPT ![c] = 1],
             memory' = [memory EXCEPT ![c] = str],
             UNCHANGED crashed, obj[d] = Raw
      PROVE  IInv'
  <2>. DEFINE pl == <<Ref(c, Len(str))>>
  <2>1. c \in Blocks /\ memory[c] = None /\ refs[c] = 0
    BY Exact DEF FreeBlocks
  <2>2. str # None /\ Len(str) \in Nat
    BY TextAssumption DEF Text
  <2>3. /\ Ref(c, Len(str)) \in Parts
        /\ Ref(c, Len(str)).kind = "ref" /\ Ref(c, Len(str)).blk = c
        /\ Ref(c, Len(str)).off = 0 /\ Ref(c, Len(str)).len = Len(str)
    BY <2>1, <2>2 DEF Ref, Parts
  <2>4. memory'[c] = str
    BY <1>1, <1>3, <2>1
  <2>5. Sound(memory', pl)
    <3>1. Backed(memory', Ref(c, Len(str))) /\ Fits(Ref(c, Len(str)))
      BY <2>2, <2>3, <2>4 DEF Backed, Fits
    <3>2. PartLen(Ref(c, Len(str))) <= MaxLen
      BY <2>3 DEF PartLen
    <3>3. <<Ref(c, Len(str))>> \in Seq(Parts) /\ Len(pl) = 1
          /\ pl[1] = Ref(c, Len(str)) /\ DOMAIN pl = {1}
      BY <2>3
    <3>. HIDE DEF pl
    <3>. QED
      BY <3>1, <3>2, <3>3 DEF Sound, Length, IsJoin, pl
  <2>6. Payload(pl)
    BY <2>3 DEF Payload
  <2>7. ASSUME NEW b \in Blocks
        PROVE  Held(pl, b) = IF b = c THEN 1 ELSE 0
    <3>1. Handles(pl, b) = IF b = c THEN {1} ELSE {}
      BY <2>3 DEF Handles
    <3>2. Cardinality({1}) = 1
      BY FS_Singleton
    <3>. QED
      BY <3>1, <3>2, FS_EmptySet DEF Held
  <2>. HIDE DEF pl
  <2>8. ASSUME NEW b \in Blocks
        PROVE  /\ refs'[b] = Cardinality(OwnersIn(obj', b))
               /\ memory'[b] = None <=> refs'[b] = 0
    <3>1. Cardinality(OwnersIn(obj', b)) = refs[b] - Held(obj[d], b) + Held(pl, b)
      BY <1>3, <2>6, CountAfter DEF pl
    <3>2. Held(obj[d], b) = 0
      BY <1>3, NothingHeld
    <3>3. refs[b] \in Nat /\ (memory[b] = None <=> refs[b] = 0)
      BY Exact
    <3>4. refs'[b] = IF b = c THEN 1 ELSE refs[b]
      BY <1>1, <1>3
    <3>5. memory'[b] = IF b = c THEN str ELSE memory[b]
      BY <1>1, <1>3
    <3>6. refs[b] - 0 + Held(pl, b) = IF b = c THEN 1 ELSE refs[b]
      BY <2>1, <2>7, <3>3
    <3>. QED
      BY <2>2, <3>1, <3>2, <3>3, <3>4, <3>5, <3>6
  <2>9. ASSUME NEW s \in Slots, obj'[s] # Raw
        PROVE  Sound(memory', obj'[s])
    <3>1. CASE s = d
      BY <1>1, <1>3, <2>5, <3>1 DEF pl
    <3>2. CASE s # d
      <4>1. obj'[s] = obj[s] /\ Sound(memory, obj[s])
        BY <1>1, <1>3, <2>9, <3>2
      <4>2. \A b \in Blocks : Held(obj[s], b) > 0 => memory'[b] = memory[b]
        BY <1>1, <1>3, <2>1, <4>1, HeldAllocated
      <4>. QED
        BY <4>1, <4>2, SoundKept
    <3>. QED
      BY <3>1, <3>2
  <2>10. obj' \in [Slots -> Seq(Parts)] /\ \A s \in Slots : Len(obj'[s]) <= 2
    BY <1>1, <1>3, <2>6 DEF Payload, pl
  <2>11. memory' \in [Blocks -> Text \cup {None}] /\ refs' \in [Blocks -> Nat]
    BY <1>1, <1>3
  <2>12. crashed' \in BOOLEAN
    BY <1>3 DEF IInv, TypeOK
  <2>. QED
    BY <2>8, <2>9, <2>10, <2>11, <2>12, Kept
<1>. QED
  BY <1>2, <1>3 DEF ConstructInNewBlock, Live

(* The move constructor passes the references on without counting. *)
LEMMA MoveConstructKeeps ==
  ASSUME IInv, NEW d \in Slots, NEW s \in Slots, MoveConstruct(d, s)
  PROVE  IInv'
<1>1. /\ obj \in [Slots -> Seq(Parts)] /\ \A t \in Slots : Len(obj[t]) <= 2
      /\ memory \in [Blocks -> Text \cup {None}] /\ refs \in [Blocks -> Nat]
      /\ crashed \in BOOLEAN
      /\ \A t \in Slots : obj[t] # Raw => Sound(memory, obj[t])
  BY DEF IInv, TypeOK, Live
<1>2. /\ obj[d] = Raw /\ obj[s] # Raw /\ d # s
      /\ obj' = [obj EXCEPT ![d] = obj[s], ![s] = Empty]
      /\ memory' = memory /\ refs' = refs /\ crashed' = crashed
  BY DEF MoveConstruct, Live
<1>3. ASSUME NEW b \in Blocks
      PROVE  refs[b] = Cardinality(OwnersIn(obj', b))
  <2>1. Cardinality(OwnersIn(obj', b)) = Cardinality(OwnersIn(obj, b))
    <3>1. Cardinality(OwnersIn(obj', b)) = Cardinality(OwnersIn(obj, b)) - Held(obj[d], b)
      BY <1>2, MovedCount
    <3>2. Held(obj[d], b) = 0 /\ Cardinality(OwnersIn(obj, b)) \in Nat
      BY <1>2, NothingHeld, OwnersFinite
    <3>. QED
      BY <3>1, <3>2
  <2>. QED
    BY <2>1, Exact
<1>4. \A b \in Blocks : memory[b] = None <=> refs[b] = 0
  BY Exact
<1>5. \A t \in Slots : obj'[t] # Raw => Sound(memory, obj'[t])
  BY <1>1, <1>2, EmptySound
<1>6. Empty \in Seq(Parts) /\ Len(Empty) <= 2
  BY EmptySound DEF Sound
<1>7. obj' \in [Slots -> Seq(Parts)] /\ \A t \in Slots : Len(obj'[t]) <= 2
  BY <1>1, <1>2, <1>6
<1>. QED
  BY <1>1, <1>2, <1>3, <1>4, <1>5, <1>7, Kept

(* Copy assignment drops the old references before it takes the new ones.   *)
LEMMA CopyAssignKeeps ==
  ASSUME IInv, NEW d \in Slots, NEW s \in Slots, CopyAssign(d, s)
  PROVE  IInv'
<1>. DEFINE r == Released(refs, obj[d])
            m == Freed(memory, refs, obj[d])
<1>1. /\ obj \in [Slots -> Seq(Parts)] /\ \A t \in Slots : Len(obj[t]) <= 2
      /\ crashed \in BOOLEAN
      /\ \A t \in Slots : obj[t] # Raw => Sound(memory, obj[t])
  BY DEF IInv, TypeOK, Live
<1>2. /\ obj[s] # Raw /\ d # s /\ obj' = [obj EXCEPT ![d] = obj[s]]
      /\ memory' = m /\ refs' = Acquired(r, obj[s]) /\ crashed' = crashed
  BY DEF CopyAssign, Live
<1>3. /\ r \in [Blocks -> Nat] /\ m \in [Blocks -> Text \cup {None}]
      /\ \A b \in Blocks : m[b] = None <=> r[b] = 0
      /\ \A t \in Slots \ {d}, b \in Blocks :
           Held(obj[t], b) > 0 => m[b] = memory[b] /\ r[b] > 0
  BY ReleaseFacts
<1>4. Payload(obj[s])
  BY <1>1 DEF Payload
<1>5. ASSUME NEW b \in Blocks
      PROVE  /\ refs'[b] = Cardinality(OwnersIn(obj', b))
             /\ refs'[b] \in Nat
             /\ memory'[b] = None <=> refs'[b] = 0
  <2>1. Held(obj[s], b) \in Nat /\ Held(obj[d], b) \in Nat /\ refs[b] \in Nat
    BY Exact
  <2>2. Cardinality(OwnersIn(obj', b)) = refs[b] - Held(obj[d], b) + Held(obj[s], b)
    BY <1>2, <1>4, CountAfter
  <2>3. r[b] = refs[b] - Held(obj[d], b)
    BY DEF Released
  <2>4. refs'[b] = r[b] + Held(obj[s], b)
    BY <1>2 DEF Acquired
  <2>5. r[b] \in Nat /\ (m[b] = None <=> r[b] = 0) /\ (Held(obj[s], b) > 0 => r[b] > 0)
    BY <1>2, <1>3
  <2>. HIDE DEF r, m
  <2>. QED
    BY <1>2, <2>1, <2>2, <2>3, <2>4, <2>5
<1>6. ASSUME NEW t \in Slots, obj'[t] # Raw
      PROVE  Sound(memory', obj'[t])
  <2>. DEFINE u == IF t = d THEN s ELSE t
  <2>1. u \in Slots \ {d} /\ obj'[t] = obj[u] /\ Sound(memory, obj[u])
    BY <1>1, <1>2, <1>6
  <2>2. \A b \in Blocks : Held(obj[u], b) > 0 => m[b] = memory[b]
    BY <1>3, <2>1
  <2>. HIDE DEF u, m
  <2>. QED
    BY <1>2, <2>1, <2>2, SoundKept
<1>7. obj' \in [Slots -> Seq(Parts)] /\ \A t \in Slots : Len(obj'[t]) <= 2
  BY <1>1, <1>2
<1>8. refs' \in [Blocks -> Nat]
  BY <1>2, <1>5 DEF Acquired
<1>. HIDE DEF r, m
<1>. QED
  BY <1>1, <1>2, <1>3, <1>5, <1>6, <1>7, <1>8, Kept

(* Move assignment drops the old references and passes the new ones on. *)
LEMMA MoveAssignKeeps ==
  ASSUME IInv, NEW d \in Slots, NEW s \in Slots, MoveAssign(d, s)
  PROVE  IInv'
<1>. DEFINE r == Released(refs, obj[d])
            m == Freed(memory, refs, obj[d])
<1>1. /\ obj \in [Slots -> Seq(Parts)] /\ \A t \in Slots : Len(obj[t]) <= 2
      /\ crashed \in BOOLEAN
      /\ \A t \in Slots : obj[t] # Raw => Sound(memory, obj[t])
  BY DEF IInv, TypeOK, Live
<1>2. /\ obj[s] # Raw /\ d # s /\ obj' = [obj EXCEPT ![d] = obj[s], ![s] = Empty]
      /\ memory' = m /\ refs' = r /\ crashed' = crashed
  BY DEF MoveAssign, Live
<1>3. /\ r \in [Blocks -> Nat] /\ m \in [Blocks -> Text \cup {None}]
      /\ \A b \in Blocks : m[b] = None <=> r[b] = 0
      /\ \A t \in Slots \ {d}, b \in Blocks :
           Held(obj[t], b) > 0 => m[b] = memory[b] /\ r[b] > 0
  BY ReleaseFacts
<1>4. ASSUME NEW b \in Blocks
      PROVE  r[b] = Cardinality(OwnersIn(obj', b))
  <2>1. Cardinality(OwnersIn(obj', b)) = Cardinality(OwnersIn(obj, b)) - Held(obj[d], b)
    BY <1>1, <1>2, MovedCount
  <2>2. r[b] = refs[b] - Held(obj[d], b)
    BY DEF Released
  <2>. QED
    BY <2>1, <2>2, Exact
<1>5. ASSUME NEW t \in Slots, obj'[t] # Raw
      PROVE  Sound(memory', obj'[t])
  <2>1. CASE t = s
    BY <1>1, <1>2, <2>1, EmptySound, SoundKept, NothingHeld
  <2>2. CASE t # s
    <3>. DEFINE u == IF t = d THEN s ELSE t
    <3>1. u \in Slots \ {d} /\ obj'[t] = obj[u] /\ Sound(memory, obj[u])
      BY <1>1, <1>2, <1>5, <2>2
    <3>2. \A b \in Blocks : Held(obj[u], b) > 0 => m[b] = memory[b]
      BY <1>3, <3>1
    <3>. HIDE DEF u, m
    <3>. QED
      BY <1>2, <3>1, <3>2, SoundKept
  <2>. QED
    BY <2>1, <2>2
<1>6. Empty \in Seq(Parts) /\ Len(Empty) <= 2
  BY EmptySound DEF Sound
<1>7. obj' \in [Slots -> Seq(Parts)] /\ \A t \in Slots : Len(obj'[t]) <= 2
  BY <1>1, <1>2, <1>6
<1>. HIDE DEF r, m
<1>. QED
  BY <1>1, <1>2, <1>3, <1>4, <1>5, <1>7, Kept

(* The destructor drops the references of its object. *)
LEMMA DestroyKeeps ==
  ASSUME IInv, NEW d \in Slots, Destroy(d)
  PROVE  IInv'
<1>. DEFINE r == Released(refs, obj[d])
            m == Freed(memory, refs, obj[d])
<1>1. /\ obj \in [Slots -> Seq(Parts)] /\ \A t \in Slots : Len(obj[t]) <= 2
      /\ crashed \in BOOLEAN
      /\ \A t \in Slots : obj[t] # Raw => Sound(memory, obj[t])
  BY DEF IInv, TypeOK, Live
<1>2. /\ obj' = [obj EXCEPT ![d] = Raw]
      /\ memory' = m /\ refs' = r /\ crashed' = crashed
  BY DEF Destroy
<1>3. /\ r \in [Blocks -> Nat] /\ m \in [Blocks -> Text \cup {None}]
      /\ \A b \in Blocks : m[b] = None <=> r[b] = 0
      /\ \A t \in Slots \ {d}, b \in Blocks :
           Held(obj[t], b) > 0 => m[b] = memory[b] /\ r[b] > 0
  BY ReleaseFacts
<1>4. ASSUME NEW b \in Blocks
      PROVE  r[b] = Cardinality(OwnersIn(obj', b))
  <2>1. Cardinality(OwnersIn(obj', b)) = refs[b] - Held(obj[d], b) + Held(Raw, b)
    BY <1>2, NothingHeld, CountAfter
  <2>2. r[b] = refs[b] - Held(obj[d], b)
    BY DEF Released
  <2>3. Held(Raw, b) = 0 /\ refs[b] \in Nat /\ Held(obj[d], b) \in Nat
    BY NothingHeld, Exact
  <2>. HIDE DEF r
  <2>. QED
    BY <2>1, <2>2, <2>3
<1>5. ASSUME NEW t \in Slots, obj'[t] # Raw
      PROVE  Sound(memory', obj'[t])
  <2>1. t \in Slots \ {d} /\ obj'[t] = obj[t] /\ Sound(memory, obj[t])
    BY <1>1, <1>2, <1>5
  <2>2. \A b \in Blocks : Held(obj[t], b) > 0 => m[b] = memory[b]
    BY <1>3, <2>1
  <2>. HIDE DEF m
  <2>. QED
    BY <1>2, <2>1, <2>2, SoundKept
<1>6. obj' \in [Slots -> Seq(Parts)] /\ \A t \in Slots : Len(obj'[t]) <= 2
  BY <1>1, <1>2 DEF Raw
<1>. HIDE DEF r, m
<1>. QED
  BY <1>1, <1>2, <1>3, <1>4, <1>5, <1>6, Kept

-----------------------------------------------------------------------------
(* Every operation builds its result from sound payloads. *)
LEMMA TruthSound == Sound(memory, True) /\ Sound(memory, False)
<1>1. TrueLit \in Text /\ Len(TrueLit) <= MaxLen /\ FalseLit \in Text /\ Len(FalseLit) <= MaxLen
  BY TextAssumption
<1>. QED
  BY <1>1, StaticSound DEF True, False

LEMMA ConcatKeeps ==
  ASSUME IInv, NEW d \in Slots, NEW a \in Slots, NEW b \in Slots, Concat(d, a, b)
  PROVE  IInv'
<1>. DEFINE p == obj[a]
            q == obj[b]
            text == Content(p) \o Content(q)
<1>1. Sound(memory, p) /\ Sound(memory, q) /\ TypeOK
  BY DEF Concat, IInv
<1>2. /\ Length(p) \in Nat /\ Length(q) \in Nat /\ Length(p) + Length(q) <= MaxLen
      /\ SmallMax \in Nat
  BY <1>1, SoundParts, SizesAssumption DEF Concat
<1>3. /\ Content(p) \in Seq(Char) /\ Len(Content(p)) = Length(p)
      /\ Content(q) \in Seq(Char) /\ Len(Content(q)) = Length(q)
  BY <1>1, ContentFacts DEF Text
<1>4. text \in Text /\ Len(text) = Length(p) + Length(q)
  <2>. DEFINE u == Content(p)
              v == Content(q)
  <2>1. u \in Seq(Char) /\ v \in Seq(Char) /\ Len(u) = Length(p) /\ Len(v) = Length(q)
    BY <1>3
  <2>. HIDE DEF u, v
  <2>2. u \o v \in Seq(Char) /\ Len(u \o v) = Len(u) + Len(v)
    BY <2>1
  <2>3. text = u \o v
    BY DEF u, v
  <2>. QED
    BY <2>1, <2>2, <2>3 DEF Text
<1>5. CASE Length(p) = 0
  BY <1>1, <1>5, ConstructKeeps DEF Concat
<1>6. CASE Length(p) # 0 /\ Length(q) = 0
  BY <1>1, <1>6, ConstructKeeps DEF Concat
<1>7. CASE Length(p) # 0 /\ Length(q) # 0 /\ (IsJoin(p) \/ IsJoin(q))
  <2>1. ConstructInNewBlock(d, text)
    BY <1>7 DEF Concat
  <2>. HIDE DEF text
  <2>. QED
    BY <1>2, <1>4, <2>1, NewBlockKeeps
<1>8. CASE /\ Length(p) # 0 /\ Length(q) # 0 /\ ~IsJoin(p) /\ ~IsJoin(q)
           /\ Length(p) + Length(q) <= SmallMax
  <2>1. Construct(d, <<Small(text)>>)
    BY <1>8 DEF Concat
  <2>. HIDE DEF text
  <2>2. Sound(memory, <<Small(text)>>)
    BY <1>2, <1>4, <1>8, SmallSound
  <2>. QED
    BY <2>1, <2>2, ConstructKeeps
<1>9. CASE /\ Length(p) # 0 /\ Length(q) # 0 /\ ~IsJoin(p) /\ ~IsJoin(q)
           /\ Length(p) + Length(q) > SmallMax
  <2>1. Construct(d, <<p[1], q[1]>>)
    BY <1>2, <1>9 DEF Concat
  <2>2. /\ p[1] \in Parts /\ Backed(memory, p[1]) /\ Fits(p[1]) /\ PartLen(p[1]) = Length(p)
        /\ q[1] \in Parts /\ Backed(memory, q[1]) /\ Fits(q[1]) /\ PartLen(q[1]) = Length(q)
    BY <1>1, <1>9, SoundParts
  <2>3. Sound(memory, <<p[1], q[1]>>)
    BY <1>2, <1>9, <2>2, SoundTwo
  <2>. QED
    BY <2>1, <2>3, ConstructKeeps
<1>. QED
  BY <1>2, <1>5, <1>6, <1>7, <1>8, <1>9

LEMMA SubstringKeeps ==
  ASSUME IInv, NEW d \in Slots, NEW s \in Slots,
         NEW start \in 0..MaxLen, NEW end \in 0..MaxLen, Substring(d, s, start, end)
  PROVE  IInv'
<1>. DEFINE last == IF end > Length(obj[s]) THEN Length(obj[s]) ELSE end
<1>1. Sound(memory, obj[s]) /\ TypeOK /\ start \in Nat /\ end \in Nat
  BY SizesAssumption DEF Substring, IInv
<1>2. Length(obj[s]) \in Nat
  BY <1>1, SoundParts
<1>3. last \in Nat /\ last <= Length(obj[s])
  BY <1>1, <1>2
<1>4. Construct(d, IF start >= last THEN Empty ELSE SubPayload(obj[s], start, last))
  BY DEF Substring
<1>. HIDE DEF last
<1>5. CASE start >= last
  BY <1>4, <1>5, EmptySound, ConstructKeeps
<1>6. CASE start < last
  <2>1. Sound(memory, SubPayload(obj[s], start, last))
    BY <1>1, <1>3, <1>6, SubPayloadSound
  <2>2. Construct(d, SubPayload(obj[s], start, last))
    BY <1>1, <1>3, <1>4, <1>6
  <2>. QED
    BY <2>1, <2>2, ConstructKeeps
<1>. QED
  BY <1>1, <1>3, <1>5, <1>6

LEMMA StrlenKeeps ==
  ASSUME IInv, NEW d \in Slots, NEW s \in Slots, Strlen(d, s)
  PROVE  IInv'
<1>. DEFINE size == Length(obj[s])
            text == SizeText[size]
<1>1. Sound(memory, obj[s])
  BY DEF Strlen, IInv
<1>2. size \in 0..MaxLen
  BY <1>1, SoundParts, SizesAssumption DEF Sound
<1>3. text \in Text /\ Len(text) <= MaxLen /\ Len(text) < SizeBuffer
  BY <1>2, TextAssumption
<1>4. \/ Construct(d, <<Static(text)>>)
      \/ ConstructInNewBlock(d, text)
      \/ ~(SizeBuffer > SmallMax) /\ Construct(d, <<Small(text)>>)
  BY DEF Strlen
<1>. HIDE DEF text
<1>5. CASE Construct(d, <<Static(text)>>)
  BY <1>3, <1>5, StaticSound, ConstructKeeps
<1>6. CASE ConstructInNewBlock(d, text)
  BY <1>3, <1>6, NewBlockKeeps
<1>7. CASE ~(SizeBuffer > SmallMax) /\ Construct(d, <<Small(text)>>)
  <2>1. Len(text) <= SmallMax
    BY <1>3, <1>7, SizesAssumption DEF Text
  <2>. QED
    BY <1>3, <1>7, <2>1, SmallSound, ConstructKeeps
<1>. QED
  BY <1>4, <1>5, <1>6, <1>7

-----------------------------------------------------------------------------
LEMMA InitIInv == Init => IInv
<1>. SUFFICES ASSUME Init PROVE IInv
  OBVIOUS
<1>0. Raw \in Seq(Parts) /\ Len(Raw) = 0
  BY DEF Raw
<1>1. TypeOK
  <2>1. obj \in [Slots -> Seq(Parts)] /\ \A s \in Slots : Len(obj[s]) <= 2
    BY <1>0 DEF Init
  <2>2. memory \in [Blocks -> Text \cup {None}] /\ refs \in [Blocks -> Nat]
    BY DEF Init
  <2>3. crashed \in BOOLEAN
    BY DEF Init
  <2>. QED
    BY <2>1, <2>2, <2>3 DEF TypeOK
<1>2. ASSUME NEW b \in Blocks
      PROVE  Owners(b) = {}
  BY DEF Init, Owners, Handles, Raw
<1>3. RefsExact
  BY <1>2, FS_EmptySet DEF Init, RefsExact
<1>4. \A s \in Slots : ~Live(s)
  BY DEF Init, Live
<1>. QED
  BY <1>1, <1>3, <1>4 DEF IInv

LEMMA NextIInv == IInv /\ [Next]_vars => IInv'
<1>. SUFFICES ASSUME IInv, [Next]_vars PROVE IInv'
  OBVIOUS
<1>1. ASSUME NEW d \in Slots, Lifetime(d)
      PROVE  IInv'
  <2>1. CASE DefaultConstruct(d)
    BY <2>1, EmptySound, ConstructKeeps DEF DefaultConstruct
  <2>2. CASE NewStaticString(d)
    <3>1. PICK v \in Literals : Construct(d, <<Static(v)>>)
      BY <2>2 DEF NewStaticString
    <3>2. v \in Text /\ Len(v) <= MaxLen
      BY TextAssumption
    <3>. QED
      BY <3>1, <3>2, StaticSound, ConstructKeeps
  <2>3. CASE Destroy(d)
    BY <2>3, DestroyKeeps
  <2>. QED
    BY <1>1, <2>1, <2>2, <2>3 DEF Lifetime
<1>2. ASSUME NEW d \in Slots, NEW s \in Slots, Transfer(d, s)
      PROVE  IInv'
  <2>1. CASE CopyConstruct(d, s)
    BY <2>1, ConstructKeeps DEF CopyConstruct, IInv
  <2>2. CASE MoveConstruct(d, s)
    BY <2>2, MoveConstructKeeps
  <2>3. CASE CopyAssign(d, s)
    BY <2>3, CopyAssignKeeps
  <2>4. CASE MoveAssign(d, s)
    BY <2>4, MoveAssignKeeps
  <2>. QED
    BY <1>2, <2>1, <2>2, <2>3, <2>4 DEF Transfer
<1>3. ASSUME NEW d \in Slots, NEW s \in Slots, Unary(d, s)
      PROVE  IInv'
  <2>1. CASE Strlen(d, s)
    BY <2>1, StrlenKeeps
  <2>2. CASE Not(d, s)
    BY <2>2, TruthSound, ConstructKeeps DEF Not
  <2>3. CASE \E start, end \in 0..MaxLen : Substring(d, s, start, end)
    BY <2>3, SubstringKeeps
  <2>. QED
    BY <1>3, <2>1, <2>2, <2>3 DEF Unary
<1>4. ASSUME NEW d \in Slots, NEW a \in Slots, NEW b \in Slots, Binary(d, a, b)
      PROVE  IInv'
  <2>1. CASE Concat(d, a, b)
    BY <2>1, ConcatKeeps
  <2>2. CASE Equal(d, a, b)
    BY <2>2, TruthSound, ConstructKeeps DEF Equal
  <2>3. CASE And(d, a, b)
    BY <2>3, TruthSound, ConstructKeeps DEF And
  <2>4. CASE Or(d, a, b)
    BY <2>4, TruthSound, ConstructKeeps DEF Or
  <2>. QED
    BY <1>4, <2>1, <2>2, <2>3, <2>4 DEF Binary
<1>5. CASE UNCHANGED vars
  <2>1. /\ obj' = obj /\ memory' = memory /\ refs' = refs /\ crashed' = crashed
    BY <1>5 DEF vars
  <2>2. /\ obj \in [Slots -> Seq(Parts)] /\ \A s \in Slots : Len(obj[s]) <= 2
        /\ memory \in [Blocks -> Text \cup {None}] /\ refs \in [Blocks -> Nat]
        /\ crashed \in BOOLEAN
        /\ \A s \in Slots : obj[s] # Raw => Sound(memory, obj[s])
    BY DEF IInv, TypeOK, Live
  <2>3. \A b \in Blocks : /\ refs[b] = Cardinality(OwnersIn(obj, b))
                          /\ memory[b] = None <=> refs[b] = 0
    BY Exact
  <2>. QED
    BY <2>1, <2>2, <2>3, Kept
<1>. QED
  BY <1>1, <1>2, <1>3, <1>4, <1>5 DEF Next

(* The invariant holds in every state of the runtime. *)
THEOREM Ownership == Spec => []IInv
<1>1. Init => IInv
  BY InitIInv
<1>2. IInv /\ [Next]_vars => IInv'
  BY NextIInv
<1>. QED
  BY <1>1, <1>2, PTL DEF Spec

(* Objects, blocks and counts keep their types: in particular no reference  *)
(* count is ever decremented below zero by CleanupRefCountedString.         *)
THEOREM TypeCorrect == Spec => []TypeOK
<1>1. IInv => TypeOK
  BY DEF IInv
<1>. QED
  BY <1>1, Ownership, PTL

(* Each block of memory is counted exactly: it is allocated while some part *)
(* of some object refers to it and freed by the operation that drops the    *)
(* last reference, whatever the number of objects and blocks.               *)
THEOREM CountsExact == Spec => []RefsExact
<1>1. IInv => RefsExact
  BY DEF IInv
<1>. QED
  BY <1>1, Ownership, PTL

(* No substring of any depth reads outside the block it points into, or a   *)
(* block that has been freed.                                               *)
THEOREM InBounds == Spec => []HandlesInBounds
<1>1. IInv => HandlesInBounds
  <2>. SUFFICES ASSUME IInv, NEW s \in Slots, NEW i \in DOMAIN obj[s],
                       obj[s][i].kind = "ref"
                PROVE  /\ memory[obj[s][i].blk] # None
                       /\ obj[s][i].off + obj[s][i].len <= Len(memory[obj[s][i].blk])
    BY DEF HandlesInBounds
  <2>1. Live(s)
    BY DEF Live, Raw
  <2>. QED
    BY <2>1 DEF IInv, Sound, Backed
<1>. QED
  BY <1>1, Ownership, PTL

(* A join always has two nonempty parts that together exceed a small        *)
(* string, and a small string always fits in its object.                    *)
THEOREM JoinsWellShaped == Spec => []JoinShape
<1>1. IInv => JoinShape
  <2>. SUFFICES ASSUME IInv, NEW s \in Slots
                PROVE  /\ IsJoin(obj[s]) => /\ PartLen(obj[s][1]) > 0
                                            /\ PartLen(obj[s][2]) > 0
                                            /\ Length(obj[s]) > SmallMax
                       /\ \A i \in DOMAIN obj[s] :
                            obj[s][i].kind = "small" => Len(obj[s][i].str) <= SmallMax
    BY DEF JoinShape
  <2>1. CASE Live(s)
    BY <2>1 DEF IInv, Sound, Fits
  <2>2. CASE ~Live(s)
    BY <2>2 DEF Live, Raw, IsJoin
  <2>. QED
    BY <2>1, <2>2
<1>. QED
  BY <1>1, Ownership, PTL

-----------------------------------------------------------------------------
(* Slices: the characters i+1 .. j of a sequence. *)

LEMMA SliceFacts ==
  ASSUME NEW S, NEW s \in Seq(S), NEW i \in Nat, NEW j \in Nat, i <= j, j <= Len(s)
  PROVE  /\ SubSeq(s, i + 1, j) \in Seq(S)
         /\ Len(SubSeq(s, i + 1, j)) = j - i
         /\ \A n \in 1..(j - i) : SubSeq(s, i + 1, j)[n] = s[i + n]
<1>1. i + 1 \in Int /\ j \in Int /\ \A n \in (i + 1)..j : s[n] \in S
  OBVIOUS
<1>2. /\ SubSeq(s, i + 1, j) \in Seq(S)
      /\ Len(SubSeq(s, i + 1, j)) = IF i + 1 <= j THEN j - (i + 1) + 1 ELSE 0
      /\ \A n \in 1..(j - (i + 1) + 1) : SubSeq(s, i + 1, j)[n] = s[i + 1 + n - 1]
  BY <1>1, SubSeqProperties
<1>. QED
  BY <1>2

LEMMA SliceOfSlice ==
  ASSUME NEW S, NEW s \in Seq(S), NEW i \in Nat, NEW j \in Nat, i <= j, j <= Len(s),
         NEW k \in Nat, NEW l \in Nat, k <= l, l <= j - i
  PROVE  SubSeq(SubSeq(s, i + 1, j), k + 1, l) = SubSeq(s, (i + k) + 1, i + l)
<1>. DEFINE t == SubSeq(s, i + 1, j)
            u == SubSeq(t, k + 1, l)
            v == SubSeq(s, (i + k) + 1, i + l)
<1>1. t \in Seq(S) /\ Len(t) = j - i /\ \A n \in 1..(j - i) : t[n] = s[i + n]
  BY SliceFacts
<1>2. u \in Seq(S) /\ Len(u) = l - k /\ \A n \in 1..(l - k) : u[n] = t[k + n]
  <2>. HIDE DEF t
  <2>. QED
    BY <1>1, SliceFacts
<1>3. i + k \in Nat /\ i + l \in Nat /\ i + k <= i + l /\ i + l <= Len(s)
  OBVIOUS
<1>4. v \in Seq(S) /\ Len(v) = (i + l) - (i + k) /\ \A n \in 1..((i + l) - (i + k)) : v[n] = s[(i + k) + n]
  BY <1>3, SliceFacts
<1>. HIDE DEF t, u, v
<1>5. Len(u) = Len(v) /\ \A n \in 1..Len(u) : u[n] = v[n]
  BY <1>1, <1>2, <1>4
<1>. QED
  BY <1>2, <1>4, <1>5, SeqEqual DEF t, u, v

(* A slice of two sequences joined is one of the first, one of the second,  *)
(* or the end of the first and the beginning of the second.                 *)
LEMMA SliceOfConcat ==
  ASSUME NEW S, NEW s \in Seq(S), NEW t \in Seq(S),
         NEW i \in Nat, NEW j \in Nat, i <= j, j <= Len(s) + Len(t)
  PROVE  /\ j <= Len(s) => SubSeq(s \o t, i + 1, j) = SubSeq(s, i + 1, j)
         /\ i >= Len(s) =>
              SubSeq(s \o t, i + 1, j) = SubSeq(t, (i - Len(s)) + 1, j - Len(s))
         /\ i <= Len(s) /\ j >= Len(s) =>
              SubSeq(s \o t, i + 1, j)
                = SubSeq(s, i + 1, Len(s)) \o SubSeq(t, 1, j - Len(s))
<1>. DEFINE w == s \o t
            u == SubSeq(w, i + 1, j)
<1>0. Len(s) \in Nat /\ Len(t) \in Nat
  OBVIOUS
<1>1. /\ w \in Seq(S) /\ Len(w) = Len(s) + Len(t)
      /\ \A n \in 1..(Len(s) + Len(t)) :
           w[n] = IF n <= Len(s) THEN s[n] ELSE t[n - Len(s)]
  BY ConcatProperties
<1>2. u \in Seq(S) /\ Len(u) = j - i /\ \A n \in 1..(j - i) : u[n] = w[i + n]
  <2>. HIDE DEF w
  <2>. QED
    BY <1>1, SliceFacts
<1>. HIDE DEF w, u
<1>3. ASSUME j <= Len(s)
      PROVE  u = SubSeq(s, i + 1, j)
  <2>. DEFINE v == SubSeq(s, i + 1, j)
  <2>1. v \in Seq(S) /\ Len(v) = j - i /\ \A n \in 1..(j - i) : v[n] = s[i + n]
    BY <1>3, SliceFacts
  <2>. HIDE DEF v
  <2>2. ASSUME NEW n \in 1..(j - i)
        PROVE  u[n] = v[n]
    <3>1. i + n \in 1..(Len(s) + Len(t)) /\ i + n <= Len(s)
      BY <1>0, <1>3
    <3>2. w[i + n] = s[i + n]
      BY <1>1, <3>1
    <3>. QED
      BY <1>2, <2>1, <3>2
  <2>. QED
    BY <1>2, <2>1, <2>2, SeqEqual DEF v
<1>4. ASSUME i >= Len(s)
      PROVE  u = SubSeq(t, (i - Len(s)) + 1, j - Len(s))
  <2>. DEFINE a == i - Len(s)
              b == j - Len(s)
              v == SubSeq(t, a + 1, b)
  <2>1. a \in Nat /\ b \in Nat /\ a <= b /\ b <= Len(t) /\ b - a = j - i
    BY <1>0, <1>4
  <2>2. v \in Seq(S) /\ Len(v) = b - a /\ \A n \in 1..(b - a) : v[n] = t[a + n]
    <3>. HIDE DEF a, b
    <3>. QED
      BY <2>1, SliceFacts
  <2>. HIDE DEF v
  <2>3. ASSUME NEW n \in 1..Len(u)
        PROVE  u[n] = v[n]
    <3>1. u[n] = w[i + n] /\ i + n \in 1..(Len(s) + Len(t)) /\ i + n > Len(s)
      BY <1>0, <1>2, <1>4
    <3>2. u[n] = t[(i + n) - Len(s)]
      BY <1>0, <1>1, <3>1
    <3>. QED
      BY <1>0, <1>2, <2>1, <2>2, <3>2
  <2>. QED
    BY <1>2, <2>1, <2>2, <2>3, SeqEqual DEF v
<1>5. ASSUME i <= Len(s), j >= Len(s)
      PROVE  u = SubSeq(s, i + 1, Len(s)) \o SubSeq(t, 1, j - Len(s))
  <2>. DEFINE a == Len(s) - i
              b == j - Len(s)
              x == SubSeq(s, i + 1, Len(s))
              y == SubSeq(t, 0 + 1, b)
  <2>1. /\ a \in Nat /\ b \in Nat /\ b <= Len(t) /\ a + b = j - i
        /\ a = Len(s) - i /\ b = j - Len(s)
    BY <1>0, <1>5
  <2>. HIDE DEF a, b
  <2>2. x \in Seq(S) /\ Len(x) = a /\ \A n \in 1..a : x[n] = s[i + n]
    BY <1>0, <1>5, <2>1, SliceFacts
  <2>3. y \in Seq(S) /\ Len(y) = b /\ \A n \in 1..b : y[n] = t[n]
    <3>1. /\ y \in Seq(S) /\ Len(y) = b - 0
          /\ \A n \in 1..(b - 0) : y[n] = t[0 + n]
      BY <2>1, SliceFacts
    <3>. QED
      BY <2>1, <3>1
  <2>. HIDE DEF x, y
  <2>4. /\ x \o y \in Seq(S) /\ Len(x \o y) = a + b
        /\ \A n \in 1..(a + b) : (x \o y)[n] = IF n <= a THEN x[n] ELSE y[n - a]
    <3>0. x \in Seq(S) /\ y \in Seq(S)
      BY <2>2, <2>3
    <3>1. /\ x \o y \in Seq(S) /\ Len(x \o y) = Len(x) + Len(y)
          /\ \A n \in 1..(Len(x) + Len(y)) :
               (x \o y)[n] = IF n <= Len(x) THEN x[n] ELSE y[n - Len(x)]
      BY <3>0, ConcatProperties
    <3> QED  BY <2>2, <2>3, <3>1
  <2>5. ASSUME NEW n \in 1..(a + b)
        PROVE  u[n] = (x \o y)[n]
    <3>1. u[n] = w[i + n] /\ i + n \in 1..(Len(s) + Len(t))
      BY <1>0, <1>2, <2>1
    <3>2. CASE n <= a
      <4>1. w[i + n] = s[i + n] /\ n \in 1..a
        BY <1>0, <1>1, <2>1, <3>1, <3>2
      <4>. QED
        BY <2>1, <2>2, <2>4, <3>1, <3>2, <4>1
    <3>3. CASE n > a
      <4>1. i + n > Len(s) /\ (i + n) - Len(s) = n - a /\ n - a \in 1..b
        BY <1>0, <2>1, <3>1, <3>3
      <4>2. w[i + n] = t[n - a]
        BY <1>0, <1>1, <3>1, <4>1
      <4>3. (x \o y)[n] = y[n - a]
        BY <2>1, <2>4, <3>3
      <4>. QED
        BY <2>3, <3>1, <4>1, <4>2, <4>3
    <3>4. n <= a \/ n > a
      BY <2>1
    <3>. QED
      BY <3>2, <3>3, <3>4
  <2>6. Len(u) = a + b /\ Len(x \o y) = a + b
    BY <1>2, <2>1, <2>4
  <2>7. u = x \o y
    BY <1>2, <2>4, <2>5, <2>6, SeqEqual
  <2>. QED
    BY <2>7 DEF x, y, b
<1>. QED
  BY <1>3, <1>4, <1>5 DEF u, w

-----------------------------------------------------------------------------
(* Parts and payloads *)

(* The characters of a part are a sequence of its length. *)
LEMMA PartTextSeq ==
  ASSUME TypeOK, NEW p \in Parts, Backed(memory, p)
  PROVE  PartText(p) \in Seq(Char) /\ Len(PartText(p)) = PartLen(p) /\ PartLen(p) \in Nat
  BY PartTextFacts, PartLenType DEF Text

(* Shifting drops characters from the front, ... *)
LEMMA ShiftText ==
  ASSUME TypeOK, NEW p \in Parts, Backed(memory, p), NEW k \in 0..PartLen(p)
  PROVE  PartText(ShiftRight(p, k)) = SubSeq(PartText(p), k + 1, PartLen(p))
<1>1. CASE p.kind = "ref"
  <2>1. p \in [kind : {"ref"}, blk : Blocks, off : Nat, len : Nat]
    BY <1>1 DEF Parts
  <2>2. /\ ShiftRight(p, k) = [p EXCEPT !.off = p.off + k, !.len = p.len - k]
        /\ PartLen(p) = p.len /\ k \in Nat /\ k <= p.len
    BY <1>1, <2>1 DEF ShiftRight, PartLen
  <2>3. /\ ShiftRight(p, k).kind = "ref" /\ ShiftRight(p, k).blk = p.blk
        /\ ShiftRight(p, k).off = p.off + k /\ ShiftRight(p, k).len = p.len - k
    BY <2>1, <2>2
  <2>. DEFINE m == memory[p.blk]
  <2>4. m \in Seq(Char) /\ p.off + p.len <= Len(m) /\ p.off \in Nat /\ p.len \in Nat
    BY <1>1, <2>1 DEF Backed, TypeOK, Text
  <2>. HIDE DEF m
  <2>5. SubSeq(SubSeq(m, p.off + 1, p.off + p.len), k + 1, p.len)
          = SubSeq(m, (p.off + k) + 1, p.off + p.len)
    <3>. DEFINE i == p.off
                j == p.off + p.len
                l == p.len
    <3>1. /\ i \in Nat /\ j \in Nat /\ i <= j /\ j <= Len(m)
          /\ l \in Nat /\ k \in Nat /\ k <= l /\ l <= j - i
      BY <2>2, <2>4
    <3>2. SubSeq(SubSeq(m, i + 1, j), k + 1, l) = SubSeq(m, (i + k) + 1, i + l)
      <4>. HIDE DEF i, j, l
      <4>. QED
        BY <2>4, <3>1, SliceOfSlice
    <3>. QED
      BY <3>2
  <2>6. (p.off + k) + (p.len - k) = p.off + p.len
    BY <2>2, <2>4
  <2>. QED
    BY <1>1, <2>2, <2>3, <2>5, <2>6 DEF PartText, m
<1>2. CASE p.kind # "ref"
  <2>1. p \in [kind : {"static", "small"}, str : Text] /\ PartLen(p) = Len(p.str)
    BY <1>2 DEF Parts, PartLen
  <2>2. ShiftRight(p, k) = [p EXCEPT !.str = SubSeq(p.str, k + 1, Len(p.str))]
    BY <1>2, <2>1 DEF ShiftRight
  <2>. QED
    BY <1>2, <2>1, <2>2 DEF PartText
<1>. QED
  BY <1>1, <1>2

(* ... and cutting from the end. *)
LEMMA DecrementText ==
  ASSUME TypeOK, NEW p \in Parts, Backed(memory, p), NEW k \in 0..PartLen(p)
  PROVE  PartText(DecrementLength(p, k)) = SubSeq(PartText(p), 1, PartLen(p) - k)
<1>1. CASE p.kind = "ref"
  <2>1. p \in [kind : {"ref"}, blk : Blocks, off : Nat, len : Nat]
    BY <1>1 DEF Parts
  <2>2. /\ DecrementLength(p, k) = [p EXCEPT !.len = p.len - k]
        /\ PartLen(p) = p.len /\ k \in Nat /\ k <= p.len
    BY <1>1, <2>1 DEF DecrementLength, PartLen
  <2>3. /\ DecrementLength(p, k).kind = "ref" /\ DecrementLength(p, k).blk = p.blk
        /\ DecrementLength(p, k).off = p.off /\ DecrementLength(p, k).len = p.len - k
    BY <2>1, <2>2
  <2>. DEFINE m == memory[p.blk]
  <2>4. m \in Seq(Char) /\ p.off + p.len <= Len(m) /\ p.off \in Nat /\ p.len \in Nat
    BY <1>1, <2>1 DEF Backed, TypeOK, Text
  <2>. HIDE DEF m
  <2>5. SubSeq(SubSeq(m, p.off + 1, p.off + p.len), 1, p.len - k)
          = SubSeq(m, p.off + 1, p.off + (p.len - k))
    <3>. DEFINE i == p.off
                j == p.off + p.len
                l == p.len - k
    <3>1. /\ i \in Nat /\ j \in Nat /\ i <= j /\ j <= Len(m)
          /\ l \in Nat /\ 0 <= l /\ l <= j - i
      BY <2>2, <2>4
    <3>2. SubSeq(SubSeq(m, i + 1, j), 0 + 1, l) = SubSeq(m, (i + 0) + 1, i + l)
      <4>. HIDE DEF i, j, l
      <4>. QED
        BY <2>4, <3>1, SliceOfSlice
    <3>3. SubSeq(SubSeq(m, i + 1, j), 1, l) = SubSeq(m, i + 1, i + l)
      <4>1. i + 0 = i /\ 0 + 1 = 1
        BY <3>1
      <4>. HIDE DEF i, j, l
      <4>. QED
        BY <3>2, <4>1
    <3>. QED
      BY <3>3
  <2>. QED
    BY <1>1, <2>2, <2>3, <2>5 DEF PartText, m
<1>2. CASE p.kind # "ref"
  <2>1. p \in [kind : {"static", "small"}, str : Text] /\ PartLen(p) = Len(p.str)
    BY <1>2 DEF Parts, PartLen
  <2>2. DecrementLength(p, k) = [p EXCEPT !.str = SubSeq(p.str, 1, Len(p.str) - k)]
    BY <1>2, <2>1 DEF DecrementLength
  <2>. QED
    BY <1>2, <2>1, <2>2 DEF PartText
<1>. QED
  BY <1>1, <1>2

(* A part cut at both ends keeps the characters between. *)
LEMMA CutText ==
  ASSUME TypeOK, NEW p \in Parts, Backed(memory, p), Fits(p),
         NEW i \in Nat, NEW j \in Nat, i <= j, j <= PartLen(p)
  PROVE  PartText(DecrementLength(ShiftRight(p, i), PartLen(p) - j))
           = SubSeq(PartText(p), i + 1, j)
<1>. DEFINE n == PartLen(p)
            q == ShiftRight(p, i)
            u == PartText(p)
<1>1. u \in Seq(Char) /\ Len(u) = n /\ n \in Nat /\ i <= n
  BY PartTextSeq
<1>2. /\ q \in Parts /\ PartLen(q) = n - i /\ Backed(memory, q)
      /\ PartText(q) = SubSeq(u, i + 1, n)
  BY <1>1, ShiftFacts, ShiftText
<1>. HIDE DEF n, q, u
<1>3. n - j \in 0..PartLen(q) /\ PartLen(q) - (n - j) = j - i
  BY <1>1, <1>2 DEF n
<1>4. PartText(DecrementLength(q, n - j)) = SubSeq(SubSeq(u, i + 1, n), 1, j - i)
  BY <1>2, <1>3, DecrementText
<1>5. SubSeq(SubSeq(u, i + 1, n), 1, j - i) = SubSeq(u, i + 1, j)
  <2>1. SubSeq(SubSeq(u, i + 1, n), 0 + 1, j - i) = SubSeq(u, (i + 0) + 1, i + (j - i))
    <3>1. 0 \in Nat /\ j - i \in Nat /\ 0 <= j - i /\ j - i <= n - i
      BY <1>1 DEF n
    <3>. QED
      BY <1>1, <3>1, SliceOfSlice
  <2>2. 0 + 1 = 1 /\ i + 0 = i /\ i + (j - i) = j
    OBVIOUS
  <2>. QED
    BY <2>1, <2>2
<1>. QED
  BY <1>4, <1>5 DEF n, q, u

(* What a payload contains, in either of its shapes. *)
LEMMA OnePart ==
  ASSUME NEW p
  PROVE  Content(<<p>>) = PartText(p) /\ Length(<<p>>) = PartLen(p) /\ ~IsJoin(<<p>>)
<1>1. <<p>>[1] = p /\ Len(<<p>>) = 1
  OBVIOUS
<1>. QED
  BY <1>1 DEF Content, Length, IsJoin

LEMMA TwoParts ==
  ASSUME NEW p, NEW q
  PROVE  /\ Content(<<p, q>>) = PartText(p) \o PartText(q) /\ IsJoin(<<p, q>>)
         /\ Length(<<p, q>>) = PartLen(p) + PartLen(q)
<1>1. <<p, q>>[1] = p /\ <<p, q>>[2] = q /\ Len(<<p, q>>) = 2
  OBVIOUS
<1>. QED
  BY <1>1 DEF Content, Length, IsJoin

LEMMA OwnCharacters ==
  ASSUME NEW str
  PROVE  /\ Content(<<Small(str)>>) = str /\ Length(<<Small(str)>>) = Len(str)
         /\ Content(<<Static(str)>>) = str /\ Length(<<Static(str)>>) = Len(str)
         /\ PartText(Static(str)) = str /\ PartLen(Static(str)) = Len(str)
<1>1. /\ Small(str).kind = "small" /\ Small(str).str = str
      /\ Static(str).kind = "static" /\ Static(str).str = str
  BY DEF Small, Static
<1>. QED
  BY <1>1, OnePart DEF PartText, PartLen

(* A range of a payload contains the characters of that range, whichever of *)
(* the representations it gets (Substring, SubstringOfJoinResult).          *)
LEMMA SubPayloadContent ==
  ASSUME TypeOK, NEW pl, Sound(memory, pl),
         NEW start \in Nat, NEW end \in Nat, start < end, end <= Length(pl)
  PROVE  Content(SubPayload(pl, start, end)) = SubSeq(Content(pl), start + 1, end)
<1>. DEFINE left == PartLen(pl[1])
            all  == Length(pl)
            u == PartText(pl[1])
            v == PartText(pl[2])
<1>0. /\ pl[1] \in Parts /\ Backed(memory, pl[1]) /\ Fits(pl[1]) /\ left \in Nat
      /\ u \in Seq(Char) /\ Len(u) = left /\ all \in Nat
      /\ start <= end
  BY SoundParts, PartTextSeq
<1>1. CASE ~IsJoin(pl)
  <2>1. end <= left
    BY <1>1, SoundParts
  <2>2. SubPayload(pl, start, end) = <<DecrementLength(ShiftRight(pl[1], start), left - end)>>
    BY <1>1 DEF SubPayload
  <2>3. Content(pl) = u
    BY <1>1 DEF Content
  <2>. QED
    BY <1>0, <2>1, <2>2, <2>3, CutText, OnePart
<1>2. CASE IsJoin(pl)
  <2>0. /\ pl[2] \in Parts /\ Backed(memory, pl[2]) /\ Fits(pl[2]) /\ PartLen(pl[2]) \in Nat
        /\ v \in Seq(Char) /\ Len(v) = PartLen(pl[2])
        /\ all = left + Len(v)
    BY <1>2, SoundParts, PartTextSeq
  <2>1. Content(pl) = u \o v
    BY <1>2 DEF Content
  <2>2. CASE end <= left
    <3>1. SubPayload(pl, start, end) = <<DecrementLength(ShiftRight(pl[1], start), left - end)>>
      BY <2>2 DEF SubPayload
    <3>2. Content(SubPayload(pl, start, end)) = SubSeq(u, start + 1, end)
      BY <1>0, <2>2, <3>1, CutText, OnePart
    <3>. HIDE DEF u, v, left, all
    <3>. QED
      BY <1>0, <2>0, <2>1, <2>2, <3>2, SliceOfConcat DEF all
  <2>3. CASE end > left /\ start >= left
    <3>. DEFINE i == start - left
                j == end - left
    <3>1. i \in Nat /\ j \in Nat /\ i <= j /\ j <= PartLen(pl[2])
          /\ all - end = PartLen(pl[2]) - j
      <4>. HIDE DEF left, all
      <4>. QED
        BY <1>0, <2>0, <2>3 DEF all
    <3>2. SubPayload(pl, start, end)
            = <<DecrementLength(ShiftRight(pl[2], i), all - end)>>
      BY <1>0, <1>2, <2>3 DEF SubPayload
    <3>3. PartText(DecrementLength(ShiftRight(pl[2], i), PartLen(pl[2]) - j))
            = SubSeq(v, i + 1, j)
      <4>. HIDE DEF i, j
      <4>. QED
        BY <2>0, <3>1, CutText
    <3>4. Content(SubPayload(pl, start, end)) = SubSeq(v, (start - left) + 1, end - left)
      BY <3>1, <3>2, <3>3, OnePart
    <3>. HIDE DEF u, v, left, all
    <3>. QED
      BY <1>0, <2>0, <2>1, <2>3, <3>4, SliceOfConcat DEF all
  <2>4. CASE end > left /\ start < left
    <3>. DEFINE j == end - left
    <3>1. /\ j \in Nat /\ j <= PartLen(pl[2]) /\ all - end = PartLen(pl[2]) - j
          /\ PartLen(pl[2]) - j \in 0..PartLen(pl[2]) /\ start \in 0..left
      <4>. HIDE DEF left, all
      <4>. QED
        BY <1>0, <2>0, <2>4 DEF all
    <3>2. Content(SubPayload(pl, start, end)) = SubSeq(u, start + 1, left) \o SubSeq(v, 1, j)
      <4>1. CASE end - start <= SmallMax
        <5>1. SubPayload(pl, start, end) = <<Small(SubSeq(u, start + 1, left) \o SubSeq(v, 1, j))>>
          BY <1>0, <1>2, <2>4, <4>1 DEF SubPayload
        <5>. QED
          BY <5>1, OwnCharacters
      <4>2. CASE ~(end - start <= SmallMax)
        <5>1. SubPayload(pl, start, end)
                = <<ShiftRight(pl[1], start), DecrementLength(pl[2], all - end)>>
          BY <1>0, <1>2, <2>4, <4>2 DEF SubPayload
        <5>2. PartText(ShiftRight(pl[1], start)) = SubSeq(u, start + 1, left)
          BY <1>0, <3>1, ShiftText
        <5>3. PartText(DecrementLength(pl[2], PartLen(pl[2]) - j))
                = SubSeq(v, 1, PartLen(pl[2]) - (PartLen(pl[2]) - j))
          BY <2>0, <3>1, DecrementText
        <5>4. PartLen(pl[2]) - (PartLen(pl[2]) - j) = j
          <6>. HIDE DEF j
          <6>. QED
            BY <2>0, <3>1
        <5>. QED
          BY <3>1, <5>1, <5>2, <5>3, <5>4, TwoParts
      <4>. QED
        BY <4>1, <4>2
    <3>. HIDE DEF u, v, left, all
    <3>. QED
      BY <1>0, <2>0, <2>1, <2>4, <3>2, SliceOfConcat DEF all
  <2>5. \/ end <= left
        \/ end > left /\ start >= left
        \/ end > left /\ start < left
    BY <1>0
  <2>. QED
    BY <2>2, <2>3, <2>4, <2>5
<1>. QED
  BY <1>1, <1>2

-----------------------------------------------------------------------------
(* Comparison *)

(* Two sequences joined determine both, when their lengths are known. *)
LEMMA Halves ==
  ASSUME NEW S, NEW s \in Seq(S), NEW t \in Seq(S)
  PROVE  /\ SubSeq(s \o t, 1, Len(s)) = s
         /\ SubSeq(s \o t, Len(s) + 1, Len(s) + Len(t)) = t
<1>. DEFINE k == Len(s)
            n == Len(t)
            w == s \o t
            u == SubSeq(w, 0 + 1, k)
            v == SubSeq(w, k + 1, k + n)
<1>1. k \in Nat /\ n \in Nat /\ k = Len(s) /\ n = Len(t)
  OBVIOUS
<1>2. /\ w \in Seq(S) /\ Len(w) = k + n
      /\ \A i \in 1..(k + n) : w[i] = IF i <= k THEN s[i] ELSE t[i - k]
  BY ConcatProperties
<1>. HIDE DEF k, n, w
<1>3. u \in Seq(S) /\ Len(u) = k - 0 /\ \A i \in 1..(k - 0) : u[i] = w[0 + i]
  BY <1>1, <1>2, SliceFacts
<1>4. v \in Seq(S) /\ Len(v) = (k + n) - k /\ \A i \in 1..((k + n) - k) : v[i] = w[k + i]
  <2>1. k + n \in Nat /\ k <= k + n
    BY <1>1
  <2>. QED
    BY <1>1, <1>2, <2>1, SliceFacts
<1>. HIDE DEF u, v
<1>5. u = s
  <2>1. \A i \in 1..k : u[i] = s[i]
    BY <1>1, <1>2, <1>3
  <2>. QED
    BY <1>1, <1>3, <2>1, SeqEqual
<1>6. v = t
  <2>1. ASSUME NEW i \in 1..n
        PROVE  v[i] = t[i]
    <3>1. k + i \in 1..(k + n) /\ ~(k + i <= k) /\ (k + i) - k = i /\ (k + n) - k = n
      BY <1>1
    <3>2. v[i] = w[k + i]
      BY <1>4, <3>1
    <3>3. w[k + i] = t[(k + i) - k]
      BY <1>2, <3>1
    <3>. QED
      BY <3>1, <3>2, <3>3
  <2>. QED
    BY <1>1, <1>4, <2>1, SeqEqual
<1>. QED
  BY <1>5, <1>6 DEF u, v, w, k, n

(* A sequence cut in two is its two pieces joined. *)
LEMMA CutInTwo ==
  ASSUME NEW S, NEW s \in Seq(S), NEW k \in 0..Len(s)
  PROVE  SubSeq(s, 1, k) \o SubSeq(s, k + 1, Len(s)) = s
<1>. DEFINE n == Len(s)
            u == SubSeq(s, 0 + 1, k)
            v == SubSeq(s, k + 1, n)
<1>1. k \in Nat /\ n \in Nat /\ k <= n /\ n = Len(s)
  OBVIOUS
<1>. HIDE DEF n
<1>2. u \in Seq(S) /\ Len(u) = k - 0 /\ \A i \in 1..(k - 0) : u[i] = s[0 + i]
  BY <1>1, SliceFacts
<1>3. v \in Seq(S) /\ Len(v) = n - k /\ \A i \in 1..(n - k) : v[i] = s[k + i]
  BY <1>1, SliceFacts
<1>. HIDE DEF u, v
<1>4. /\ u \o v \in Seq(S) /\ Len(u \o v) = Len(u) + Len(v)
      /\ \A i \in 1..(Len(u) + Len(v)) :
           (u \o v)[i] = IF i <= Len(u) THEN u[i] ELSE v[i - Len(u)]
  BY <1>2, <1>3, ConcatProperties
<1>5. Len(u) = k /\ Len(v) = n - k /\ Len(u \o v) = n
  BY <1>1, <1>2, <1>3, <1>4
<1>6. ASSUME NEW i \in 1..n
      PROVE  (u \o v)[i] = s[i]
  <2>1. CASE i <= k
    BY <1>1, <1>2, <1>4, <1>5, <2>1
  <2>2. CASE i > k
    <3>1. i - k \in 1..(n - k) /\ k + (i - k) = i
      BY <1>1, <2>2
    <3>. QED
      BY <1>1, <1>3, <1>4, <1>5, <2>2, <3>1
  <2>3. i <= k \/ i > k
    BY <1>1
  <2>. QED
    BY <2>1, <2>2, <2>3
<1>7. u \o v = s
  BY <1>1, <1>4, <1>5, <1>6, SeqEqual
<1>8. u = SubSeq(s, 1, k)
  BY DEF u
<1>. QED
  BY <1>7, <1>8 DEF v, n

(* JoinEqualsRaw compares a join with a string of its length in two pieces. *)
LEMMA JoinWithRaw ==
  ASSUME TypeOK, NEW p, Sound(memory, p), IsJoin(p),
         NEW str \in Seq(Char), Len(str) = Length(p)
  PROVE  JoinEqualsRaw(p, str) <=> Content(p) = str
<1>. DEFINE u == PartText(p[1])
            v == PartText(p[2])
            k == PartLen(p[1])
<1>1. /\ u \in Seq(Char) /\ Len(u) = k /\ k \in Nat
      /\ v \in Seq(Char) /\ Len(str) = k + Len(v)
      /\ Content(p) = u \o v
  BY SoundParts, PartTextSeq DEF Content
<1>2. JoinEqualsRaw(p, str) <=> SubSeq(str, 1, k) = u /\ SubSeq(str, k + 1, Len(str)) = v
  BY DEF JoinEqualsRaw
<1>. HIDE DEF u, v, k
<1>3. k \in 0..Len(str)
  BY <1>1
<1>4. SubSeq(str, 1, k) \o SubSeq(str, k + 1, Len(str)) = str
  BY <1>3, CutInTwo
<1>5. SubSeq(u \o v, 1, k) = u /\ SubSeq(u \o v, k + 1, k + Len(v)) = v
  BY <1>1, Halves
<1>. QED
  BY <1>1, <1>2, <1>4, <1>5

(* operator== compares contents, except that of two joins split at          *)
(* different places.                                                        *)
LEMMA EqualityOfContents ==
  ASSUME TypeOK, NEW p, Sound(memory, p), NEW q, Sound(memory, q), ~Skewed(p, q)
  PROVE  EqualPayloads(p, q) <=> Content(p) = Content(q)
<1>1. /\ Content(p) \in Seq(Char) /\ Len(Content(p)) = Length(p)
      /\ Content(q) \in Seq(Char) /\ Len(Content(q)) = Length(q)
  BY ContentFacts DEF Text
<1>2. CASE Length(p) # Length(q)
  BY <1>1, <1>2 DEF EqualPayloads
<1>3. CASE Length(p) = Length(q) /\ IsJoin(p) /\ IsJoin(q)
  <2>. DEFINE a == PartText(p[1])
              b == PartText(p[2])
              c == PartText(q[1])
              e == PartText(q[2])
  <2>1. PartLen(p[1]) = PartLen(q[1])
    BY <1>3 DEF Skewed
  <2>2. /\ a \in Seq(Char) /\ Len(a) = PartLen(p[1])
        /\ b \in Seq(Char) /\ Len(b) = PartLen(p[2])
        /\ c \in Seq(Char) /\ Len(c) = PartLen(q[1])
        /\ e \in Seq(Char) /\ Len(e) = PartLen(q[2])
    BY <1>3, SoundParts, PartTextSeq
  <2>3. PartLen(p[2]) = PartLen(q[2])
    BY <1>3, <2>1, SoundParts
  <2>4. Content(p) = a \o b /\ Content(q) = c \o e
    BY <1>3 DEF Content
  <2>5. EqualPayloads(p, q) <=> a = c /\ b = e
    BY <1>3, <2>1 DEF EqualPayloads, JoinsEqual
  <2>. HIDE DEF a, b, c, e
  <2>6. /\ SubSeq(a \o b, 1, Len(a)) = a /\ SubSeq(a \o b, Len(a) + 1, Len(a) + Len(b)) = b
        /\ SubSeq(c \o e, 1, Len(c)) = c /\ SubSeq(c \o e, Len(c) + 1, Len(c) + Len(e)) = e
    BY <2>2, Halves
  <2>7. Len(a) = Len(c) /\ Len(b) = Len(e)
    BY <2>1, <2>2, <2>3
  <2>. QED
    BY <2>4, <2>5, <2>6, <2>7
<1>4. CASE Length(p) = Length(q) /\ ~IsJoin(p) /\ IsJoin(q)
  <2>1. Content(p) = PartText(p[1])
    BY <1>4 DEF Content
  <2>2. EqualPayloads(p, q) <=> JoinEqualsRaw(q, Content(p))
    BY <1>4, <2>1 DEF EqualPayloads
  <2>3. JoinEqualsRaw(q, Content(p)) <=> Content(q) = Content(p)
    BY <1>1, <1>4, JoinWithRaw
  <2>. QED
    BY <2>2, <2>3
<1>5. CASE Length(p) = Length(q) /\ IsJoin(p) /\ ~IsJoin(q)
  <2>1. Content(q) = PartText(q[1])
    BY <1>5 DEF Content
  <2>2. EqualPayloads(p, q) <=> JoinEqualsRaw(p, Content(q))
    BY <1>5, <2>1 DEF EqualPayloads
  <2>3. JoinEqualsRaw(p, Content(q)) <=> Content(p) = Content(q)
    BY <1>1, <1>5, JoinWithRaw
  <2>. QED
    BY <2>2, <2>3
<1>6. CASE Length(p) = Length(q) /\ ~IsJoin(p) /\ ~IsJoin(q)
  BY <1>6 DEF EqualPayloads, Content
<1>. QED
  BY <1>2, <1>3, <1>4, <1>5, <1>6

(* For any strings, operator== is equality of contents unless two joins are *)
(* split at different places.                                               *)
THEOREM EqualityRight == Spec => []EqualUnlessSkewed
<1>1. IInv => EqualUnlessSkewed
  <2>. SUFFICES ASSUME IInv, NEW s \in Slots, NEW t \in Slots,
                       Live(s), Live(t), ~Skewed(obj[s], obj[t])
                PROVE  EqualPayloads(obj[s], obj[t]) <=> Content(obj[s]) = Content(obj[t])
    BY DEF EqualUnlessSkewed
  <2>. QED
    BY EqualityOfContents DEF IInv
<1>. QED
  BY <1>1, Ownership, PTL

-----------------------------------------------------------------------------
(* The values of the objects, as StringStore sees them *)

PartTextIn(m, p) ==
  IF p.kind = "ref" THEN SubSeq(m[p.blk], p.off + 1, p.off + p.len) ELSE p.str

ContentIn(m, pl) ==
  IF IsJoin(pl) THEN PartTextIn(m, pl[1]) \o PartTextIn(m, pl[2]) ELSE PartTextIn(m, pl[1])

ValueIn(m, pl) == IF pl # Raw THEN ContentIn(m, pl) ELSE None

Val == [s \in Slots |-> IF Live(s) THEN Content(obj[s]) ELSE None]

LEMMA ContentNow ==
  ASSUME NEW pl
  PROVE  ContentIn(memory, pl) = Content(pl)
BY DEF ContentIn, Content, PartTextIn, PartText

LEMMA ValuesNow ==
  /\ Val = [s \in Slots |-> ValueIn(memory, obj[s])]
  /\ Val' = [s \in Slots |-> ValueIn(memory', obj'[s])]
BY DEF Val, Live, ValueIn, ContentIn, Content, PartTextIn, PartText

(* The value of an object that lives is a text, and raw storage has none. *)
LEMMA ValueFacts ==
  ASSUME IInv, NEW s \in Slots
  PROVE  /\ Val[s] # None <=> Live(s)
         /\ Live(s) => /\ Sound(memory, obj[s])
                       /\ Val[s] = Content(obj[s])
                       /\ Val[s] \in Seq(Char)
                       /\ Len(Val[s]) = Length(obj[s])
<1>1. Live(s) => Sound(memory, obj[s]) /\ TypeOK
  BY DEF IInv
<1>2. Val[s] = IF Live(s) THEN Content(obj[s]) ELSE None
  BY DEF Val
<1>3. Live(s) => Content(obj[s]) \in Text /\ Len(Content(obj[s])) = Length(obj[s])
  BY <1>1, ContentFacts
<1>. QED
  BY <1>1, <1>2, <1>3, TextAssumption DEF Text

(* A payload keeps its characters as long as the blocks it refers to keep   *)
(* theirs.                                                                  *)
LEMMA ContentKept ==
  ASSUME NEW m, NEW n, NEW pl, Sound(m, pl),
         \A b \in Blocks : Held(pl, b) > 0 => n[b] = m[b]
  PROVE  ContentIn(n, pl) = ContentIn(m, pl)
<1>1. Payload(pl) /\ Len(pl) \in {1, 2} /\ pl \in Seq(Parts)
  BY DEF Sound, Payload
<1>2. ASSUME NEW i \in DOMAIN pl
      PROVE  PartTextIn(n, pl[i]) = PartTextIn(m, pl[i])
  <2>1. CASE pl[i].kind = "ref"
    <3>1. pl[i] \in Parts
      BY <1>1
    <3>2. pl[i].blk \in Blocks
      BY <2>1, <3>1 DEF Parts
    <3>3. i \in Handles(pl, pl[i].blk)
      BY <2>1 DEF Handles
    <3>4. Held(pl, pl[i].blk) > 0
      BY <1>1, <3>2, <3>3, HandlesFinite
    <3>. QED
      BY <3>2, <3>4 DEF PartTextIn
  <2>2. CASE pl[i].kind # "ref"
    BY <2>2 DEF PartTextIn
  <2>. QED
    BY <2>1, <2>2
<1>3. 1 \in DOMAIN pl /\ (IsJoin(pl) => 2 \in DOMAIN pl)
  BY <1>1 DEF IsJoin
<1>. QED
  BY <1>2, <1>3 DEF ContentIn

(* An operation that gives d a payload and keeps every block another object *)
(* refers to changes the value of d and no other.                           *)
LEMMA OneValue ==
  ASSUME IInv, NEW d \in Slots, NEW pl,
         obj' = [obj EXCEPT ![d] = pl],
         \A t \in Slots \ {d} : \A b \in Blocks :
           Held(obj[t], b) > 0 => memory'[b] = memory[b]
  PROVE  Val' = [Val EXCEPT ![d] = ValueIn(memory', pl)]
<1>1. obj \in [Slots -> Seq(Parts)] /\ obj' \in [Slots -> Seq(Parts) \cup {pl}]
  BY DEF IInv, TypeOK
<1>2. \A t \in Slots : obj'[t] = IF t = d THEN pl ELSE obj[t]
  BY <1>1
<1>3. ASSUME NEW t \in Slots, t # d
      PROVE  ValueIn(memory', obj'[t]) = ValueIn(memory, obj[t])
  <2>1. CASE obj[t] = Raw
    BY <1>2, <1>3, <2>1 DEF ValueIn
  <2>2. CASE obj[t] # Raw
    <3>1. Sound(memory, obj[t])
      BY <2>2 DEF IInv, Live
    <3>2. ContentIn(memory', obj[t]) = ContentIn(memory, obj[t])
      BY <1>3, <3>1, ContentKept
    <3>. QED
      BY <1>2, <1>3, <2>2, <3>2 DEF ValueIn
  <2>. QED
    BY <2>1, <2>2
<1>. QED
  BY <1>2, <1>3, ValuesNow

(* The same for the object a move empties, whatever the target does. *)
LEMMA TwoValues ==
  ASSUME IInv, NEW d \in Slots, NEW s \in Slots, d # s, Live(s),
         obj' = [obj EXCEPT ![d] = obj[s], ![s] = Empty],
         \A t \in Slots \ {d} : \A b \in Blocks :
           Held(obj[t], b) > 0 => memory'[b] = memory[b]
  PROVE  Val' = [Val EXCEPT ![d] = Val[s], ![s] = <<>>]
<1>1. obj \in [Slots -> Seq(Parts)]
  BY DEF IInv, TypeOK
<1>2. \A t \in Slots : obj'[t] = IF t = s THEN Empty ELSE IF t = d THEN obj[s] ELSE obj[t]
  BY <1>1
<1>3. ASSUME NEW t \in Slots, t # d
      PROVE  ValueIn(memory', obj[t]) = ValueIn(memory, obj[t])
  <2>1. CASE obj[t] = Raw
    BY <2>1 DEF ValueIn
  <2>2. CASE obj[t] # Raw
    <3>1. Sound(memory, obj[t])
      BY <2>2 DEF IInv, Live
    <3>2. ContentIn(memory', obj[t]) = ContentIn(memory, obj[t])
      BY <1>3, <3>1, ContentKept
    <3>. QED
      BY <2>2, <3>2 DEF ValueIn
  <2>. QED
    BY <2>1, <2>2
<1>4. ValueIn(memory', Empty) = <<>>
  <2>1. Empty # Raw /\ Empty[1] = Small(<<>>) /\ ~IsJoin(Empty)
    BY DEF Empty, Raw, IsJoin
  <2>2. Small(<<>>).kind = "small" /\ Small(<<>>).str = <<>>
    BY DEF Small
  <2>. QED
    BY <2>1, <2>2 DEF ValueIn, ContentIn, PartTextIn
<1>5. Val' = [t \in Slots |-> IF t = s THEN <<>> ELSE IF t = d THEN Val[s] ELSE Val[t]]
  BY <1>2, <1>3, <1>4, ValuesNow
<1>6. Val = [t \in Slots |-> Val[t]]
  BY DEF Val
<1>. QED
  BY <1>5, <1>6

(* Construct builds the characters of the payload it is given, ... *)
LEMMA ConstructValue ==
  ASSUME IInv, NEW d \in Slots, NEW pl, Sound(memory, pl), Construct(d, pl)
  PROVE  /\ ~Live(d)
         /\ Val' = [Val EXCEPT ![d] = Content(pl)]
<1>1. /\ ~Live(d) /\ obj' = [obj EXCEPT ![d] = pl] /\ memory' = memory
  BY DEF Construct
<1>2. pl # Raw
  BY DEF Sound, Raw
<1>3. Val' = [Val EXCEPT ![d] = ValueIn(memory', pl)]
  BY <1>1, OneValue
<1>. QED
  BY <1>1, <1>2, <1>3, ContentNow DEF ValueIn

(* ... and so does the construction of a result in a new block, which no    *)
(* object refers to yet.                                                    *)
LEMMA NewBlockValue ==
  ASSUME IInv, NEW d \in Slots, NEW str \in Text, ConstructInNewBlock(d, str)
  PROVE  /\ ~Live(d)
         /\ ~crashed' => Val' = [Val EXCEPT ![d] = str]
         /\ crashed' /\ ~crashed => Val' = Val
<1>1. ~Live(d)
  BY DEF ConstructInNewBlock
<1>2. ASSUME NEW b \in FreeBlocks,
             obj' = [obj EXCEPT ![d] = <<Ref(b, Len(str))>>],
             memory' = [memory EXCEPT ![b] = str]
      PROVE  Val' = [Val EXCEPT ![d] = str]
  <2>. DEFINE pl == <<Ref(b, Len(str))>>
  <2>1. b \in Blocks /\ memory[b] = None /\ memory \in [Blocks -> Text \cup {None}]
    BY DEF FreeBlocks, IInv, TypeOK
  <2>2. ASSUME NEW t \in Slots, NEW c \in Blocks, Held(obj[t], c) > 0
        PROVE  memory'[c] = memory[c]
    <3>1. CASE obj[t] = Raw
      <4>1. Held(obj[t], c) = 0
        BY <3>1, NothingHeld
      <4>. QED
        BY <2>2, <4>1
    <3>2. CASE obj[t] # Raw
      <4>1. Sound(memory, obj[t])
        BY <3>2 DEF IInv, Live
      <4>2. memory[c] # None
        BY <2>2, <4>1, HeldAllocated
      <4>. QED
        BY <1>2, <2>1, <4>2
    <3>. QED
      BY <3>1, <3>2
  <2>3. ValueIn(memory', pl) = str
    <3>1. Len(pl) = 1 /\ pl # Raw /\ pl[1] = Ref(b, Len(str))
      BY DEF Raw
    <3>2. /\ Ref(b, Len(str)).kind = "ref" /\ Ref(b, Len(str)).blk = b
          /\ Ref(b, Len(str)).off = 0 /\ Ref(b, Len(str)).len = Len(str)
      BY DEF Ref
    <3>3. memory'[b] = str
      BY <1>2, <2>1
    <3>4. ValueIn(memory', pl) = SubSeq(str, 0 + 1, 0 + Len(str))
      BY <3>1, <3>2, <3>3 DEF ValueIn, ContentIn, IsJoin, PartTextIn
    <3>5. 0 + 1 = 1 /\ 0 + Len(str) = Len(str) /\ str \in Seq(Char) /\ Len(str) \in 0..Len(str)
      BY DEF Text
    <3>6. SubSeq(str, 1, Len(str)) = str
      BY <3>5
    <3>. QED
      BY <3>4, <3>5, <3>6
  <2>4. obj' = [obj EXCEPT ![d] = pl]
    BY <1>2
  <2>. HIDE DEF pl
  <2>5. Val' = [Val EXCEPT ![d] = ValueIn(memory', pl)]
    BY <2>2, <2>4, OneValue
  <2>. QED
    BY <2>3, <2>5
<1>3. ASSUME crashed' = TRUE, obj' = obj, memory' = memory
      PROVE  Val' = Val
  BY <1>3, ValuesNow
<1>4. crashed \in BOOLEAN
  BY DEF IInv, TypeOK
<1>5. ASSUME ~crashed'
      PROVE  Val' = [Val EXCEPT ![d] = str]
  <2>1. PICK b \in FreeBlocks : /\ obj' = [obj EXCEPT ![d] = <<Ref(b, Len(str))>>]
                                /\ memory' = [memory EXCEPT ![b] = str]
    BY <1>5 DEF ConstructInNewBlock
  <2>. QED
    BY <1>2, <2>1
<1>6. ASSUME crashed', ~crashed
      PROVE  Val' = Val
  <2>1. crashed' = TRUE /\ obj' = obj /\ memory' = memory
    BY <1>4, <1>6 DEF ConstructInNewBlock
  <2>. QED
    BY <1>3, <2>1
<1>. QED
  BY <1>1, <1>5, <1>6

-----------------------------------------------------------------------------
(* Each operation has the effect StringStore gives it *)

LEMMA LiteralValue ==
  ASSUME IInv, NEW d \in Slots, DefaultConstruct(d) \/ NewStaticString(d)
  PROVE  ~Values!Live(d) /\ Values!Literal(d)
<1>1. PICK v \in Literals \cup {<<>>} : ~Live(d) /\ Val' = [Val EXCEPT ![d] = v]
  <2>1. CASE DefaultConstruct(d)
    <3>1. Content(Empty) = <<>>
      BY OwnCharacters DEF Empty
    <3>2. ~Live(d) /\ Val' = [Val EXCEPT ![d] = Content(Empty)]
      BY <2>1, EmptySound, ConstructValue DEF DefaultConstruct
    <3>. QED
      BY <3>1, <3>2
  <2>2. CASE NewStaticString(d)
    <3>1. PICK v \in Literals : Construct(d, <<Static(v)>>)
      BY <2>2 DEF NewStaticString
    <3>2. v \in Text /\ Len(v) <= MaxLen
      BY TextAssumption
    <3>3. ~Live(d) /\ Val' = [Val EXCEPT ![d] = Content(<<Static(v)>>)]
      BY <3>1, <3>2, StaticSound, ConstructValue
    <3>. QED
      BY <3>3, OwnCharacters
  <2>. QED
    BY <2>1, <2>2
<1>2. ~Values!Live(d)
  BY <1>1, ValueFacts DEF Values!Live, Val
<1>3. Val' = [Val EXCEPT ![d] = v]
  BY <1>1
<1>. QED
  BY <1>1, <1>2, <1>3 DEF Values!Literal, Values!Build, Val

LEMMA CopyValue ==
  ASSUME IInv, NEW d \in Slots, NEW s \in Slots, CopyConstruct(d, s) \/ CopyAssign(d, s)
  PROVE  Values!Copy(d, s)
<1>1. Live(s)
  BY DEF CopyConstruct, CopyAssign
<1>2. Val' = [Val EXCEPT ![d] = Val[s]]
  <2>1. CASE CopyConstruct(d, s)
    BY <1>1, <2>1, ValueFacts, ConstructValue DEF CopyConstruct
  <2>2. CASE CopyAssign(d, s)
    <3>1. /\ d # s /\ obj' = [obj EXCEPT ![d] = obj[s]]
          /\ memory' = Freed(memory, refs, obj[d])
      BY <2>2 DEF CopyAssign
    <3>2. \A t \in Slots \ {d} : \A b \in Blocks :
            Held(obj[t], b) > 0 => memory'[b] = memory[b]
      BY <3>1, ReleaseFacts
    <3>3. Val' = [Val EXCEPT ![d] = ValueIn(memory', obj[s])]
      BY <3>1, <3>2, OneValue
    <3>4. ContentIn(memory', obj[s]) = ContentIn(memory, obj[s])
      BY <1>1, <3>1, <3>2, ValueFacts, ContentKept
    <3>. QED
      BY <1>1, <3>3, <3>4, ValueFacts, ContentNow DEF ValueIn, Live
  <2>. QED
    BY <2>1, <2>2
<1>3. Val[s] # None
  BY <1>1, ValueFacts
<1>. QED
  BY <1>2, <1>3 DEF Values!Copy, Values!Live, Val

LEMMA MoveValue ==
  ASSUME IInv, NEW d \in Slots, NEW s \in Slots, MoveConstruct(d, s) \/ MoveAssign(d, s)
  PROVE  Values!Move(d, s)
<1>1. Live(s) /\ d # s /\ obj' = [obj EXCEPT ![d] = obj[s], ![s] = Empty]
  BY DEF MoveConstruct, MoveAssign
<1>2. \A t \in Slots \ {d} : \A b \in Blocks : Held(obj[t], b) > 0 => memory'[b] = memory[b]
  <2>1. CASE MoveConstruct(d, s)
    BY <2>1 DEF MoveConstruct
  <2>2. CASE MoveAssign(d, s)
    BY <2>2, ReleaseFacts DEF MoveAssign
  <2>. QED
    BY <2>1, <2>2
<1>3. Val' = [Val EXCEPT ![d] = Val[s], ![s] = <<>>]
  BY <1>1, <1>2, TwoValues
<1>4. Val[s] # None
  BY <1>1, ValueFacts
<1>. QED
  BY <1>1, <1>3, <1>4 DEF Values!Move, Values!Live, Val

LEMMA DestroyValue ==
  ASSUME IInv, NEW d \in Slots, Destroy(d)
  PROVE  Values!Destroy(d)
<1>1. /\ Live(d) /\ obj' = [obj EXCEPT ![d] = Raw] /\ memory' = Freed(memory, refs, obj[d])
  BY DEF Destroy
<1>2. \A t \in Slots \ {d} : \A b \in Blocks : Held(obj[t], b) > 0 => memory'[b] = memory[b]
  BY <1>1, ReleaseFacts
<1>3. Val' = [Val EXCEPT ![d] = ValueIn(memory', Raw)]
  BY <1>1, <1>2, OneValue
<1>4. ValueIn(memory', Raw) = None /\ Val[d] # None
  BY <1>1, ValueFacts DEF ValueIn
<1>. QED
  BY <1>3, <1>4 DEF Values!Destroy, Values!Live, Val

LEMMA ConcatValue ==
  ASSUME IInv, NEW d \in Slots, NEW a \in Slots, NEW b \in Slots, Concat(d, a, b)
  PROVE  /\ ~Values!Live(d)
         /\ ~crashed' => Values!Concat(d, a, b)
         /\ crashed' /\ ~crashed => Val' = Val
<1>. DEFINE p == obj[a]
            q == obj[b]
            u == Content(p)
            v == Content(q)
            text == u \o v
<1>1. Live(a) /\ Live(b) /\ Length(p) + Length(q) <= MaxLen
  BY DEF Concat
<1>2. /\ Sound(memory, p) /\ u = Val[a] /\ u \in Seq(Char) /\ Len(u) = Length(p)
      /\ Sound(memory, q) /\ v = Val[b] /\ v \in Seq(Char) /\ Len(v) = Length(q)
      /\ Val[a] # None /\ Val[b] # None
  BY <1>1, ValueFacts
<1>3. text \in Text /\ Len(text) = Length(p) + Length(q)
  <2>. HIDE DEF u, v, text
  <2>1. u \o v \in Seq(Char) /\ Len(u \o v) = Len(u) + Len(v)
    BY <1>2, ConcatProperties
  <2>2. text = u \o v
    BY DEF text
  <2>. QED
    BY <1>2, <2>1, <2>2 DEF Text
<1>4. ASSUME NEW pl, Sound(memory, pl), Construct(d, pl), Content(pl) = text
      PROVE  ~Live(d) /\ Val' = [Val EXCEPT ![d] = text] /\ crashed' = crashed
  BY <1>4, ConstructValue DEF Construct
<1>. HIDE DEF text
<1>5. /\ ~Live(d)
      /\ ~crashed' => Val' = [Val EXCEPT ![d] = text]
      /\ crashed' /\ ~crashed => Val' = Val
  <2>1. CASE Length(p) = 0
    <3>1. Content(q) = text
      <4>1. u = <<>>
        BY <1>2, <2>1, EmptySeq
      <4>. HIDE DEF u, v
      <4>2. text = v
        BY <1>2, <4>1, ConcatEmptySeq DEF text
      <4>. QED
        BY <4>2 DEF v
    <3>. QED
      BY <1>2, <1>4, <2>1, <3>1 DEF Concat
  <2>2. CASE Length(p) # 0 /\ Length(q) = 0
    <3>1. Content(p) = text
      <4>1. v = <<>>
        BY <1>2, <2>2, EmptySeq
      <4>. HIDE DEF u, v
      <4>2. text = u
        BY <1>2, <4>1, ConcatEmptySeq DEF text
      <4>. QED
        BY <4>2 DEF u
    <3>. QED
      BY <1>2, <1>4, <2>2, <3>1 DEF Concat
  <2>3. CASE Length(p) # 0 /\ Length(q) # 0 /\ (IsJoin(p) \/ IsJoin(q))
    <3>1. ConstructInNewBlock(d, text)
      BY <2>3 DEF Concat, text
    <3>. QED
      BY <1>3, <3>1, NewBlockValue
  <2>4. CASE /\ Length(p) # 0 /\ Length(q) # 0 /\ ~IsJoin(p) /\ ~IsJoin(q)
             /\ Length(p) + Length(q) <= SmallMax
    <3>1. Construct(d, <<Small(text)>>)
      BY <2>4 DEF Concat, text
    <3>2. Sound(memory, <<Small(text)>>)
      BY <1>1, <1>3, <2>4, SmallSound
    <3>. QED
      BY <1>4, <3>1, <3>2, OwnCharacters
  <2>5. CASE /\ Length(p) # 0 /\ Length(q) # 0 /\ ~IsJoin(p) /\ ~IsJoin(q)
             /\ ~(Length(p) + Length(q) <= SmallMax)
    <3>0. Length(p) + Length(q) > SmallMax /\ Length(p) > 0 /\ Length(q) > 0
      BY <1>2, <2>5, SoundParts, SizesAssumption
    <3>1. Construct(d, <<p[1], q[1]>>)
      BY <2>5 DEF Concat
    <3>2. /\ p[1] \in Parts /\ Backed(memory, p[1]) /\ Fits(p[1]) /\ PartLen(p[1]) = Length(p)
          /\ q[1] \in Parts /\ Backed(memory, q[1]) /\ Fits(q[1]) /\ PartLen(q[1]) = Length(q)
      BY <1>2, <2>5, SoundParts
    <3>3. Sound(memory, <<p[1], q[1]>>)
      BY <1>1, <3>0, <3>2, SoundTwo
    <3>4. Content(<<p[1], q[1]>>) = text
      BY <2>5, TwoParts DEF Content, text
    <3>. QED
      BY <1>4, <3>1, <3>3, <3>4
  <2>. QED
    BY <2>1, <2>2, <2>3, <2>4, <2>5
<1>6. ~Values!Live(d)
  BY <1>5, ValueFacts DEF Values!Live, Val
<1>7. text = Val[a] \o Val[b] /\ Len(Val[a]) + Len(Val[b]) <= MaxLen
  BY <1>1, <1>2 DEF text
<1>. QED
  BY <1>2, <1>5, <1>6, <1>7 DEF Values!Concat, Values!Live, Values!Build, Val

LEMMA SubstringValue ==
  ASSUME IInv, NEW d \in Slots, NEW s \in Slots,
         NEW start \in 0..MaxLen, NEW end \in 0..MaxLen, Substring(d, s, start, end)
  PROVE  ~Values!Live(d) /\ Values!Substring(d, s, start, end)
<1>. DEFINE length == Length(obj[s])
            last   == IF end > length THEN length ELSE end
            pl     == IF start >= last THEN Empty ELSE SubPayload(obj[s], start, last)
<1>1. Live(s) /\ start \in Nat /\ end \in Nat
  BY SizesAssumption DEF Substring
<1>2. /\ Sound(memory, obj[s]) /\ Val[s] = Content(obj[s]) /\ Val[s] \in Seq(Char)
      /\ Len(Val[s]) = length /\ Val[s] # None /\ TypeOK /\ length \in Nat
  BY <1>1, ValueFacts, SoundParts DEF IInv
<1>3. Construct(d, pl)
  BY DEF Substring
<1>4. last \in Nat /\ last <= length
  BY <1>1, <1>2
<1>. HIDE DEF length
<1>5. Sound(memory, pl) /\ Content(pl) = SubSeq(Val[s], start + 1, last)
  <2>. HIDE DEF last
  <2>1. CASE start >= last
    <3>1. Content(Empty) = <<>>
      BY OwnCharacters DEF Empty
    <3>2. SubSeq(Val[s], start + 1, last) = <<>>
      <4>1. start + 1 > last /\ start + 1 \in Int /\ last \in Int
        BY <1>1, <1>4, <2>1
      <4>. QED
        BY <1>2, <4>1
    <3>. QED
      BY <2>1, <3>1, <3>2, EmptySound
  <2>2. CASE ~(start >= last)
    <3>1. start < last
      BY <1>1, <1>4, <2>2
    <3>. QED
      BY <1>1, <1>2, <1>4, <2>2, <3>1, SubPayloadSound, SubPayloadContent DEF length
  <2>. QED
    BY <2>1, <2>2
<1>. HIDE DEF pl
<1>6. ~Live(d) /\ Val' = [Val EXCEPT ![d] = SubSeq(Val[s], start + 1, last)]
  BY <1>3, <1>5, ConstructValue
<1>7. ~Values!Live(d)
  BY <1>6, ValueFacts DEF Values!Live, Val
<1>8. last = IF end > Len(Val[s]) THEN Len(Val[s]) ELSE end
  BY <1>2 DEF length
<1>. HIDE DEF last
<1>. QED
  BY <1>2, <1>6, <1>7, <1>8 DEF Values!Substring, Values!Live, Values!Build, Val

LEMMA StrlenValue ==
  ASSUME IInv, NEW d \in Slots, NEW s \in Slots, Strlen(d, s)
  PROVE  /\ ~Values!Live(d)
         /\ ~crashed' => Values!Strlen(d, s)
         /\ crashed' /\ ~crashed => Val' = Val
<1>. DEFINE size == Length(obj[s])
            text == SizeText[size]
<1>1. Live(s)
  BY DEF Strlen
<1>2. Sound(memory, obj[s]) /\ Len(Val[s]) = size /\ Val[s] # None
  BY <1>1, ValueFacts
<1>3. size \in 0..MaxLen
  BY <1>2, SoundParts, SizesAssumption DEF Sound
<1>4. text \in Text /\ Len(text) <= MaxLen /\ Len(text) < SizeBuffer
  BY <1>3, TextAssumption
<1>5. \/ Construct(d, <<Static(text)>>)
      \/ ConstructInNewBlock(d, text)
      \/ ~(SizeBuffer > SmallMax) /\ Construct(d, <<Small(text)>>)
  BY DEF Strlen
<1>. HIDE DEF text
<1>6. ASSUME NEW pl, Sound(memory, pl), Construct(d, pl), Content(pl) = text
      PROVE  ~Live(d) /\ Val' = [Val EXCEPT ![d] = text] /\ crashed' = crashed
  BY <1>6, ConstructValue DEF Construct
<1>7. /\ ~Live(d)
      /\ ~crashed' => Val' = [Val EXCEPT ![d] = text]
      /\ crashed' /\ ~crashed => Val' = Val
  <2>1. CASE Construct(d, <<Static(text)>>)
    BY <1>4, <1>6, <2>1, StaticSound, OwnCharacters
  <2>2. CASE ConstructInNewBlock(d, text)
    BY <1>4, <2>2, NewBlockValue
  <2>3. CASE ~(SizeBuffer > SmallMax) /\ Construct(d, <<Small(text)>>)
    <3>1. Len(text) <= SmallMax
      BY <1>4, <2>3, SizesAssumption DEF Text
    <3>. QED
      BY <1>4, <1>6, <2>3, <3>1, SmallSound, OwnCharacters
  <2>. QED
    BY <1>5, <2>1, <2>2, <2>3
<1>8. ~Values!Live(d)
  BY <1>7, ValueFacts DEF Values!Live, Val
<1>. QED
  BY <1>2, <1>7, <1>8 DEF Values!Strlen, Values!Live, Values!Build, Val, text

(* An answer of the runtime is TRUE or FALSE, and only TRUE reads as true. *)
LEMMA TruthValue ==
  ASSUME IInv, NEW d \in Slots, NEW r \in BOOLEAN,
         Construct(d, IF r THEN True ELSE False)
  PROVE  ~Values!Live(d) /\ Values!Build(d, Values!Truth(r))
<1>. DEFINE pl == IF r THEN True ELSE False
<1>1. Sound(memory, pl) /\ Content(pl) = IF r THEN TrueLit ELSE FalseLit
  BY TruthSound, OwnCharacters DEF True, False
<1>. HIDE DEF pl
<1>2. Construct(d, pl)
  BY DEF pl
<1>3. ~Live(d) /\ Val' = [Val EXCEPT ![d] = IF r THEN TrueLit ELSE FalseLit]
  BY <1>1, <1>2, ConstructValue
<1>4. ~Values!Live(d)
  BY <1>3, ValueFacts DEF Values!Live, Val
<1>. QED
  BY <1>3, <1>4 DEF Values!Build, Values!Truth, Val

LEMMA TrueValue ==
  ASSUME IInv, NEW s \in Slots, Live(s)
  PROVE  IsTrue(s) <=> Val[s] = TrueLit
<1>1. Sound(memory, obj[s]) /\ Sound(memory, True) /\ Val[s] = Content(obj[s]) /\ TypeOK
  BY ValueFacts, TruthSound DEF IInv
<1>2. Content(True) = TrueLit /\ ~IsJoin(True)
  BY OwnCharacters, OnePart DEF True
<1>3. ~Skewed(obj[s], True)
  BY <1>2 DEF Skewed
<1>. QED
  BY <1>1, <1>2, <1>3, EqualityOfContents DEF IsTrue

LEMMA AnswerValue ==
  ASSUME IInv, NEW d \in Slots
  PROVE  /\ \A s \in Slots : Not(d, s) => ~Values!Live(d) /\ Values!Not(d, s)
         /\ \A a, b \in Slots :
              /\ Equal(d, a, b) => ~Values!Live(d) /\ Values!Equal(d, a, b)
              /\ And(d, a, b) => ~Values!Live(d) /\ Values!And(d, a, b)
              /\ Or(d, a, b) => ~Values!Live(d) /\ Values!Or(d, a, b)
<1>0. \A s \in Slots : Live(s) => Values!Live(s) /\ (IsTrue(s) <=> Values!IsTrue(s))
  BY ValueFacts, TrueValue DEF Values!Live, Values!IsTrue, Val
<1>1. ASSUME NEW s \in Slots, Not(d, s)
      PROVE  ~Values!Live(d) /\ Values!Not(d, s)
  <2>1. Live(s) /\ Construct(d, IF ~IsTrue(s) THEN True ELSE False)
    BY <1>1 DEF Not
  <2>2. ~Values!Live(d) /\ Values!Build(d, Values!Truth(~Values!IsTrue(s)))
    BY <1>0, <2>1, TruthValue
  <2>. QED
    BY <1>0, <2>1, <2>2 DEF Values!Not
<1>2. ASSUME NEW a \in Slots, NEW b \in Slots, Equal(d, a, b)
      PROVE  ~Values!Live(d) /\ Values!Equal(d, a, b)
  <2>. DEFINE r == EqualPayloads(obj[a], obj[b])
  <2>1. Live(a) /\ Live(b) /\ Construct(d, IF r THEN True ELSE False)
    BY <1>2 DEF Equal
  <2>2. PICK t \in BOOLEAN : Construct(d, IF t THEN True ELSE False)
    BY <2>1
  <2>3. ~Values!Live(d) /\ Values!Build(d, Values!Truth(t))
    BY <2>2, TruthValue
  <2>. QED
    BY <1>0, <2>1, <2>3 DEF Values!Equal
<1>3. ASSUME NEW a \in Slots, NEW b \in Slots, And(d, a, b)
      PROVE  ~Values!Live(d) /\ Values!And(d, a, b)
  <2>1. Live(a) /\ Live(b) /\ Construct(d, IF IsTrue(a) /\ IsTrue(b) THEN True ELSE False)
    BY <1>3 DEF And
  <2>2. ~Values!Live(d) /\ Values!Build(d, Values!Truth(Values!IsTrue(a) /\ Values!IsTrue(b)))
    BY <1>0, <2>1, TruthValue
  <2>. QED
    BY <1>0, <2>1, <2>2 DEF Values!And
<1>4. ASSUME NEW a \in Slots, NEW b \in Slots, Or(d, a, b)
      PROVE  ~Values!Live(d) /\ Values!Or(d, a, b)
  <2>1. Live(a) /\ Live(b) /\ Construct(d, IF IsTrue(a) \/ IsTrue(b) THEN True ELSE False)
    BY <1>4 DEF Or
  <2>2. ~Values!Live(d) /\ Values!Build(d, Values!Truth(Values!IsTrue(a) \/ Values!IsTrue(b)))
    BY <1>0, <2>1, TruthValue
  <2>. QED
    BY <1>0, <2>1, <2>2 DEF Values!Or
<1>. QED
  BY <1>1, <1>2, <1>3, <1>4

-----------------------------------------------------------------------------
(* The runtime implements StringStore *)

(* The state every program starts in. *)
LEMMA InitValues == Init => Values!Init
  BY DEF Init, Values!Init, Live

(* Each step of the runtime is a step of StringStore, or malloc fails and   *)
(* the value of no object changes.                                          *)
LEMMA NextValues ==
  IInv /\ [Next]_vars =>
    [Values!Next]_[s \in Slots |-> IF Live(s) THEN Content(obj[s]) ELSE None]
<1>. SUFFICES ASSUME IInv, [Next]_vars
              PROVE  Values!Next \/ Val' = Val
  BY DEF Val
<1>1. ASSUME NEW d \in Slots, Lifetime(d)
      PROVE  Values!Next
  <2>1. CASE DefaultConstruct(d) \/ NewStaticString(d)
    BY <2>1, LiteralValue DEF Values!Next
  <2>2. CASE Destroy(d)
    BY <2>2, DestroyValue DEF Values!Next
  <2>. QED
    BY <1>1, <2>1, <2>2 DEF Lifetime
<1>2. ASSUME NEW d \in Slots, NEW s \in Slots, Transfer(d, s)
      PROVE  Values!Next
  BY <1>2, CopyValue, MoveValue DEF Transfer, Values!Next
<1>3. ASSUME NEW d \in Slots, NEW s \in Slots, Unary(d, s), ~crashed
      PROVE  Values!Next \/ Val' = Val
  <2>1. CASE Strlen(d, s)
    BY <1>3, <2>1, StrlenValue DEF Values!Next
  <2>2. CASE Not(d, s)
    BY <2>2, AnswerValue DEF Values!Next
  <2>3. CASE \E start, end \in 0..MaxLen : Substring(d, s, start, end)
    BY <2>3, SubstringValue DEF Values!Next
  <2>. QED
    BY <1>3, <2>1, <2>2, <2>3 DEF Unary
<1>4. ASSUME NEW d \in Slots, NEW a \in Slots, NEW b \in Slots, Binary(d, a, b), ~crashed
      PROVE  Values!Next \/ Val' = Val
  <2>1. CASE Concat(d, a, b)
    BY <1>4, <2>1, ConcatValue DEF Values!Next
  <2>2. CASE Equal(d, a, b) \/ And(d, a, b) \/ Or(d, a, b)
    BY <2>2, AnswerValue DEF Values!Next
  <2>. QED
    BY <1>4, <2>1, <2>2 DEF Binary
<1>5. CASE UNCHANGED vars
  BY <1>5, ValuesNow DEF vars
<1>. QED
  BY <1>1, <1>2, <1>3, <1>4, <1>5 DEF Next

(* Each operation gives its own result and not that of another one. *)
LEMMA OwnEffects == IInv => OwnEffect
<1>. SUFFICES ASSUME IInv, ~crashed', NEW d \in Slots
              PROVE  /\ Destroy(d) => Values!Destroy(d)
                     /\ \A s \in Slots :
                          /\ CopyConstruct(d, s) \/ CopyAssign(d, s) => Values!Copy(d, s)
                          /\ MoveConstruct(d, s) \/ MoveAssign(d, s) => Values!Move(d, s)
                          /\ Strlen(d, s) => Values!Strlen(d, s)
                          /\ Not(d, s) => Values!Not(d, s)
                          /\ \A start, end \in 0..MaxLen :
                               Substring(d, s, start, end) => Values!Substring(d, s, start, end)
                     /\ \A a, b \in Slots :
                          /\ Concat(d, a, b) => Values!Concat(d, a, b)
                          /\ And(d, a, b) => Values!And(d, a, b)
                          /\ Or(d, a, b) => Values!Or(d, a, b)
  BY DEF OwnEffect
<1>. QED
  BY DestroyValue, CopyValue, MoveValue, StrlenValue, AnswerValue, SubstringValue, ConcatValue

(* Whatever blocks objects share, every operation has the effect on values  *)
(* that the language gives it, and no effect on the value of another        *)
(* object: the runtime implements StringStore.                              *)
THEOREM ValuesImplemented == Spec => StringsAreValues
<1>1. Init => Values!Init
  BY InitValues
<1>2. IInv /\ [Next]_vars =>
        [Values!Next]_[s \in Slots |-> IF Live(s) THEN Content(obj[s]) ELSE None]
  BY NextValues
<1>3. IInv => OwnEffect
  BY OwnEffects
<1>. QED
  BY <1>1, <1>2, <1>3, Ownership, PTL DEF Spec, StringsAreValues, Values!Spec
=============================================================================
