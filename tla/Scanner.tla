-------------------------------- MODULE Scanner --------------------------------
(***************************************************************************)
(* ScanTokens.  The first pass reads the file character by character: it   *)
(* finds strings, removes comments, and cuts what is left into pieces of   *)
(* lines.  The second cuts pieces at whitespace.  The third takes tokens   *)
(* off the front of each piece, the longest first.  The file is chosen     *)
(* while it is read.  Pieces and tokens are kept as places in the file.    *)
(***************************************************************************)
EXTENDS Integers, Sequences, FiniteSets, SequencesExt

CONSTANTS
  Lower, Upper, \* letters
  Symbols,      \* the tokens of one character
  Keywords,     \* words of upper case letters
  Junk,         \* characters no token contains
  MaxLen        \* bound: the length of the file

Quote == "quote"
Hash == "hash"
Backslash == "backslash"
Newline == "newline"
Space == "space"

CONSTANT Alphabets  \* bound: a file has characters of one of these sets only

Letters == Lower \cup Upper

Whitespace == {Space, Newline}

ASSUME CharsAssumption ==
  /\ UNION Alphabets \subseteq
       Letters \cup Symbols \cup Junk \cup {Quote, Hash, Backslash, Newline, Space}
  /\ Keywords \subseteq Seq(Upper)
  /\ MaxLen \in Nat

(* No character is of two of these kinds. *)
ASSUME ClassesAssumption ==
  /\ Lower \cap Upper = {}
  /\ Letters \cap Symbols = {}
  /\ Letters \cap Whitespace = {}

VARIABLES
  text,    \* the file as far as it has been read
  mode,    \* "code", "string" or "comment" while reading; then "strip", "parse"; "done", "failed"
  from,    \* where the pending piece starts (curr_line_begin), or the open string or comment
  line,    \* curr_line_num
  opened,  \* the line on which the open string or comment started
  slashes, \* num_backslashes_in_row_
  pieces,  \* lines_and_strings: [from, to, line, quoted]
  tokens,  \* [from, to, line, kind], to = from - 1 for the end of the file
  error    \* the line in the message, 0 when there is none

reading == <<mode, from, line, opened, slashes>>
vars == <<text, reading, pieces, tokens, error>>

-----------------------------------------------------------------------------
Init ==
  /\ text = <<>> /\ mode = "code" /\ from = 1 /\ line = 0 /\ opened = 0 /\ slashes = 0
  /\ pieces = <<>> /\ tokens = <<>> /\ error = 0

Piece(first, last, at, quoted) == [from |-> first, to |-> last, line |-> at, quoted |-> quoted]

(* The first pass *)

(* Any character that starts neither a string nor a comment. *)
ReadCode(c) ==
  /\ mode = "code" /\ c \notin {Quote, Hash}
  /\ text' = Append(text, c)
  /\ IF c = Newline
       THEN /\ pieces' = Append(pieces, Piece(from, Len(text) + 1, line, FALSE))
            /\ line' = line + 1
            /\ from' = Len(text) + 2
     ELSE UNCHANGED <<pieces, line, from>>
  /\ UNCHANGED <<mode, opened, slashes, tokens, error>>

(* Faulty: what precedes a string or a comment on its line is forgotten. *)
BugReadMark(c) ==
  /\ mode = "code" /\ c \in {Quote, Hash}
  /\ text' = Append(text, c)
  /\ mode' = IF c = Quote THEN "string" ELSE "comment"
  /\ from' = Len(text) + 1 /\ opened' = line /\ slashes' = 0
  /\ UNCHANGED <<pieces, line, tokens, error>>

ReadMark(c) ==
  /\ mode = "code" /\ c \in {Quote, Hash}
  /\ text' = Append(text, c)
  /\ pieces' = IF from > Len(text) THEN pieces
               ELSE Append(pieces, Piece(from, Len(text), line, FALSE))
  /\ mode' = IF c = Quote THEN "string" ELSE "comment"
  /\ from' = Len(text) + 1 /\ opened' = line /\ slashes' = 0
  /\ UNCHANGED <<line, tokens, error>>

ReadComment(c) ==
  /\ mode = "comment"
  /\ text' = Append(text, c)
  /\ line' = IF c = Newline THEN line + 1 ELSE line
  /\ IF c = Hash THEN mode' = "code" /\ from' = Len(text) + 2 ELSE UNCHANGED <<mode, from>>
  /\ UNCHANGED <<opened, slashes, pieces, tokens, error>>

(* Faulty: the line breaks inside a string are not counted. *)
BugReadString(c) ==
  /\ mode = "string"
  /\ text' = Append(text, c)
  /\ IF c = Quote /\ slashes % 2 = 0
       THEN /\ pieces' = Append(pieces, Piece(from, Len(text) + 1, opened, TRUE))
            /\ mode' = "code" /\ from' = Len(text) + 2
            /\ UNCHANGED slashes
     ELSE /\ slashes' = IF c = Backslash THEN slashes + 1 ELSE 0
          /\ UNCHANGED <<pieces, mode, from>>
  /\ UNCHANGED <<line, opened, tokens, error>>

(* ProcessString and QuotedString::Search: a quote after an odd number of    *)
(* backslashes does not end the string.                                      *)
ReadString(c) ==
  /\ mode = "string"
  /\ text' = Append(text, c)
  /\ IF c = Quote /\ slashes % 2 = 0
       THEN /\ pieces' = Append(pieces, Piece(from, Len(text) + 1, opened, TRUE))
            /\ mode' = "code" /\ from' = Len(text) + 2
            /\ UNCHANGED slashes
     ELSE /\ slashes' = IF c = Backslash THEN slashes + 1 ELSE 0
          /\ UNCHANGED <<pieces, mode, from>>
  /\ line' = IF c = Newline THEN line + 1 ELSE line
  /\ UNCHANGED <<opened, tokens, error>>

(* The end of the file: a pending piece is not kept. *)
EndOfText ==
  /\ mode \in {"code", "string", "comment"}
  /\ IF mode = "code" THEN mode' = "strip" /\ UNCHANGED error
     ELSE mode' = "failed" /\ error' = opened + 1
  /\ UNCHANGED <<text, from, line, opened, slashes, pieces, tokens>>

-----------------------------------------------------------------------------
(* The second pass *)

(* The word that is open at a place is closed there, unless it has no         *)
(* characters.                                                               *)
Closed(walk, last, at) ==
  IF walk.start > last THEN walk.words
  ELSE Append(walk.words, Piece(walk.start, last, at, FALSE))

(* The walk over a piece: the words closed so far, and where the open one    *)
(* starts (line_start).                                                      *)
Walk(p) ==
  LET walk[i \in (p.from - 1)..p.to] ==
        IF i < p.from THEN [words |-> <<>>, start |-> p.from]
        ELSE IF text[i] \in Whitespace
               THEN [words |-> Closed(walk[i - 1], i - 1, p.line), start |-> i + 1]
        ELSE walk[i - 1]
  IN  walk

Words(p) == Closed(Walk(p)[p.to], p.to, p.line)

StripWhitespaceFromLines ==
  /\ mode = "strip"
  /\ pieces' = FlattenSeq([n \in DOMAIN pieces |->
                  IF pieces[n].quoted THEN <<pieces[n]>> ELSE Words(pieces[n])])
  /\ mode' = "parse"
  /\ UNCHANGED <<text, from, line, opened, slashes, tokens, error>>

-----------------------------------------------------------------------------
(* The third pass: what each candidate's Search accepts at the front of a    *)
(* piece, 0 when it does not end as a token.                                 *)

(* The length of the longest beginning made of the given characters. *)
Run(s, set) ==
  CHOOSE n \in 0..Len(s) : /\ \A i \in 1..n : s[i] \in set
                           /\ n < Len(s) => s[n + 1] \notin set

SymbolLength(s) == IF s[1] \in Symbols THEN 1 ELSE 0

KeywordLength(s) ==
  LET found == {k \in Keywords : Len(k) <= Len(s) /\ SubSeq(s, 1, Len(k)) = k}
  IN  IF found = {} THEN 0 ELSE Len(CHOOSE k \in found : \A l \in found : Len(l) <= Len(k))

VariableLength(s) == IF s[1] \in Lower THEN Run(s, Letters) ELSE 0

BuiltinLength(s) == Run(s, Upper)

FunctionNameLength(s) ==
  LET n == IF s[1] \in Upper THEN Run(s, Letters) ELSE 0
  IN  IF \E i \in 1..n : s[i] \in Lower THEN n ELSE 0

(* In the order of CreateAllTokens; QuotedString never starts inside a line. *)
Candidates(s) ==
  << [kind |-> "symbol",   length |-> SymbolLength(s)],
     [kind |-> "keyword",  length |-> KeywordLength(s)],
     [kind |-> "variable", length |-> VariableLength(s)],
     [kind |-> "builtin",  length |-> BuiltinLength(s)],
     [kind |-> "function", length |-> FunctionNameLength(s)] >>

(* Faulty: the last of the longest candidates is taken. *)
BugLongest(s) ==
  LET all == Candidates(s)
  IN  all[CHOOSE i \in DOMAIN all : \A j \in DOMAIN all :
            /\ all[j].length <= all[i].length
            /\ j > i => all[j].length < all[i].length]

(* std::max_element takes the first of the longest. *)
Longest(s) ==
  LET all == Candidates(s)
  IN  all[CHOOSE i \in DOMAIN all : \A j \in DOMAIN all :
            /\ all[j].length <= all[i].length
            /\ j < i => all[j].length < all[i].length]

Token(first, last, at, kind) == [from |-> first, to |-> last, line |-> at, kind |-> kind]

TakeString ==
  /\ mode = "parse" /\ pieces # <<>>
  /\ LET p == Head(pieces)
     IN  /\ p.quoted
         /\ tokens' = Append(tokens, Token(p.from, p.to, p.line, "string"))
  /\ pieces' = Tail(pieces)
  /\ UNCHANGED <<text, reading, error>>

(* Faulty: the end of the file is a candidate, too. *)
BugParseSingleToken ==
  /\ mode = "parse" /\ pieces # <<>>
  /\ LET p == Head(pieces)
         token == Longest(SubSeq(text, p.from, p.to))
         next == p.from + token.length
         kind == IF token.length = 0 THEN "eof" ELSE token.kind
     IN  /\ ~p.quoted
         /\ tokens' = Append(tokens, Token(p.from, next - 1, p.line, kind))
         /\ pieces' = IF next > p.to THEN Tail(pieces)
                      ELSE <<[p EXCEPT !.from = next]>> \o Tail(pieces)
  /\ UNCHANGED <<text, reading, error>>

(* ParseSingleToken at the front of a piece that is not used up. *)
ParseSingleToken ==
  /\ mode = "parse" /\ pieces # <<>>
  /\ LET p == Head(pieces)
         token == Longest(SubSeq(text, p.from, p.to))
         next == p.from + token.length
     IN  /\ ~p.quoted
         /\ IF token.length = 0
              THEN /\ mode' = "failed" /\ error' = p.line + 1
                   /\ UNCHANGED <<tokens, pieces>>
            ELSE /\ tokens' = Append(tokens, Token(p.from, next - 1, p.line, token.kind))
                 /\ pieces' = IF next > p.to THEN Tail(pieces)
                              ELSE <<[p EXCEPT !.from = next]>> \o Tail(pieces)
                 /\ UNCHANGED <<mode, error>>
  /\ UNCHANGED <<text, from, line, opened, slashes>>

Finish ==
  /\ mode = "parse" /\ pieces = <<>>
  /\ tokens' = Append(tokens, Token(Len(text) + 1, Len(text), 0, "eof"))
  /\ mode' = "done"
  /\ UNCHANGED <<text, from, line, opened, slashes, pieces, error>>

Read(c) == ReadCode(c) \/ ReadMark(c) \/ ReadComment(c) \/ ReadString(c)

Next ==
  \/ Len(text) < MaxLen /\ \E alphabet \in Alphabets : \E c \in alphabet :
       Range(text) \subseteq alphabet /\ Read(c)
  \/ EndOfText \/ StripWhitespaceFromLines
  \/ TakeString \/ ParseSingleToken \/ Finish

Spec == Init /\ [][Next]_vars

-----------------------------------------------------------------------------
(* The reference: what each character of the file is, by an automaton that   *)
(* skips the character behind a backslash.                                   *)

Behind(state, c) ==
  CASE state = "code" -> IF c = Quote THEN "string" ELSE IF c = Hash THEN "comment" ELSE "code"
    [] state = "string" -> IF c = Quote THEN "code" ELSE IF c = Backslash THEN "escape" ELSE "string"
    [] state = "escape" -> "string"
    [] state = "comment" -> IF c = Hash THEN "code" ELSE "comment"

After[i \in 0..Len(text)] == IF i = 0 THEN "code" ELSE Behind(After[i - 1], text[i])

InString(i) ==
  After[i - 1] \in {"string", "escape"} \/ (After[i - 1] = "code" /\ After[i] = "string")

InCode(i) == After[i - 1] = "code" /\ After[i] = "code"

(* The scanner looks at the file up to its last line break, string or        *)
(* comment.                                                                  *)
Looked(i) ==
  \E j \in i..Len(text) :
    After[j] = "code" /\ (text[j] = Newline \/ After[j - 1] # "code")

LineOf(i) == Cardinality({j \in 1..(i - 1) : text[j] = Newline})

Covered(i) == \E n \in DOMAIN tokens : i \in tokens[n].from..tokens[n].to

Scanned == SubSeq(tokens, 1, IF mode = "done" THEN Len(tokens) - 1 ELSE Len(tokens))

-----------------------------------------------------------------------------
(* Properties *)

(* As far as the scanner looks, every character of code and of strings is   *)
(* in a token, and nothing else is: three passes over positions lose,       *)
(* repeat and invent nothing.                                               *)
NothingLost ==
  mode = "done" =>
    /\ \A i \in DOMAIN text :
         Covered(i) <=> Looked(i) /\ (InString(i) \/ (InCode(i) /\ text[i] \notin Whitespace))
    /\ \A n \in 1..(Len(tokens) - 1) : tokens[n].to < tokens[n + 1].from

(* The line of a token, and the line in a message, is the one on which the  *)
(* token, or what could not be scanned, starts, with the line breaks in     *)
(* strings and comments counted.                                            *)
LinesExact ==
  /\ \A n \in DOMAIN Scanned : tokens[n].line = LineOf(tokens[n].from)
  /\ mode = "failed" =>
       \E i \in DOMAIN text :
         /\ error = LineOf(i) + 1
         /\ \/ After[i - 1] = "code" /\ text[i] \in {Quote, Hash}
               /\ \A j \in i..Len(text) : After[j] # "code"
            \/ InCode(i) /\ Looked(i) /\ text[i] \in Junk \cup {Backslash}

Spelled(t, chars) == \A i \in t.from..t.to : text[i] \in chars

IsLetterAt(i) == i \in DOMAIN text /\ text[i] \in Letters /\ InCode(i)

(* A word is never cut in two, although the candidates for a word stop at   *)
(* different characters: the letters around a word's token are part of it,  *)
(* and its kind follows from its spelling, keywords first.                  *)
WholeWords ==
  \A n \in DOMAIN Scanned :
    LET t == tokens[n]
        word == SubSeq(text, t.from, t.to)
    IN  t.kind \notin {"string", "symbol"} =>
          /\ ~IsLetterAt(t.from - 1) /\ ~IsLetterAt(t.to + 1)
          /\ Spelled(t, Letters)
          /\ t.kind = IF word \in Keywords THEN "keyword"
                      ELSE IF text[t.from] \in Lower THEN "variable"
                      ELSE IF Spelled(t, Upper) THEN "builtin" ELSE "function"

(* Every token is taken from behind the last one, so that the loop over a   *)
(* piece ends: a candidate that needs no characters, as the end of the file *)
(* is, would be found at the same place for ever.                           *)
EveryTokenMovesOn ==
  [][LET last == IF tokens = <<>> THEN 0 ELSE tokens[Len(tokens)].to
     IN  mode' = "parse" /\ tokens' # tokens => tokens'[Len(tokens')].to > last]_vars

(* scanner.h:25: "Scans the code and outputs all the tokens." *)
OutputsAllTokens ==
  mode = "done" =>
    \A i \in DOMAIN text : InCode(i) /\ text[i] \notin Whitespace => Covered(i)
=============================================================================
