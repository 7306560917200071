-------------------------------- MODULE Parser --------------------------------
(***************************************************************************)
(* ParseTokens (cc_src/parser.cc): a predictive parser.  It keeps the list *)
(* of grammar pieces still to be found, and expands or consumes the first  *)
(* of them while it looks at one token.                                    *)
(*                                                                         *)
(* The tokens are chosen as the parser comes to look at them: any list the *)
(* scanner can return, which is any list with END_OF_FILE at its end and   *)
(* only there.  The history variable `possible` follows every leftmost     *)
(* derivation of the tokens consumed so far, the parser follows one.       *)
(***************************************************************************)
EXTENDS Grammar, Naturals, FiniteSets

CONSTANTS
  MaxTokens,   \* bound: the length of the longest list of tokens
  NoToken      \* the parser is not looking at a token

ASSUME BoundAssumption == MaxTokens \in Nat \ {0} /\ NoToken \notin Labels

VARIABLES
  current_program,  \* pieces to be found, the next one first
  token,            \* tokens.at(token_index), once the parser has looked
  token_index,
  at_end,           \* END_OF_FILE has been consumed
  status,           \* "parsing", "success", "failure", "aborted" (an assert) or "thrown"
  possible          \* history: the programs that could remain after the consumed tokens

vars == <<current_program, token, token_index, at_end, status, possible>>

-----------------------------------------------------------------------------
(* Faulty: an empty expansion counts as none. *)
BugAllowEmpty(label) == FALSE

AllowEmpty(label) == <<>> \in GetDescendents(label)

NonEmpty(label) == GetDescendents(label) \ {<<>>}

(* The tokens for which Expand finds an expansion of a piece. *)
Starters[label \in Labels] ==
  IF IsToken(label) THEN {label}
  ELSE IF AllowEmpty(label) THEN Tokens
  ELSE UNION {Starters[Head(d)] : d \in NonEmpty(label)}

Expands(label, t) == t \in Starters[label]

(* The nonempty expansions that can start with a token; Expand asserts that *)
(* there is at most one, for a piece and for every piece it looks into.     *)
Choices(label, t) == {d \in NonEmpty(label) : Expands(Head(d), t)}

LooksInto[label \in Labels] ==
  {label} \cup IF IsToken(label) THEN {}
               ELSE UNION {LooksInto[Head(d)] : d \in NonEmpty(label)}

Ambiguous(label, t) ==
  \E piece \in LooksInto[label] \cap Expandable : Cardinality(Choices(piece, t)) > 1

-----------------------------------------------------------------------------
Init ==
  /\ current_program = <<"MODULE">>
  /\ token = NoToken /\ token_index = 0 /\ at_end = FALSE
  /\ status = "parsing"
  /\ possible = {<<"MODULE">>}

Looking == status = "parsing" /\ current_program # <<>> /\ token # NoToken

(* tokens.at(token_index), which throws behind the last token. *)
Look ==
  /\ status = "parsing" /\ current_program # <<>> /\ token = NoToken
  /\ IF at_end
       THEN status' = "thrown" /\ UNCHANGED token
       ELSE /\ token' \in IF token_index + 1 < MaxTokens THEN Tokens ELSE {"END_OF_FILE"}
            /\ UNCHANGED status
  /\ UNCHANGED <<current_program, token_index, at_end, possible>>

(* The first piece is the token looked at. *)
Consume ==
  /\ Looking /\ Head(current_program) = token
  /\ current_program' = Tail(current_program)
  /\ token_index' = token_index + 1
  /\ at_end' = (token = "END_OF_FILE")
  /\ possible' = {Tail(p) : p \in LedBy(possible, token)}
  /\ token' = NoToken
  /\ UNCHANGED status

(* Faulty: an empty expansion leaves the piece where it is. *)
BugReplaceNonEmpty(expansion) ==
  IF expansion = <<>> THEN current_program ELSE expansion \o Tail(current_program)

(* Faulty: an expansion goes behind the pieces that follow. *)
BugReplaceAtEnd(expansion) == Tail(current_program) \o expansion

Replace(expansion) == expansion \o Tail(current_program)

(* Faulty: the index counts the turns of the loop, not the tokens. *)
BugExpandFront ==
  /\ Looking /\ Head(current_program) # token
  /\ LET label == Head(current_program)
     IN  IF Expands(label, token)
           THEN /\ current_program' = Replace(IF Choices(label, token) = {} THEN <<>>
                                             ELSE CHOOSE d \in Choices(label, token) : TRUE)
                /\ token_index' = token_index + 1
                /\ UNCHANGED status
         ELSE status' = "failure" /\ UNCHANGED <<current_program, token_index>>
  /\ UNCHANGED <<token, at_end, possible>>

(* The first piece is replaced by the one expansion that starts with the    *)
(* token, or by nothing if it may be empty; otherwise the token is an       *)
(* error.                                                                   *)
ExpandFront ==
  /\ Looking /\ Head(current_program) # token
  /\ LET label == Head(current_program)
     IN  IF Ambiguous(label, token)
           THEN status' = "aborted" /\ UNCHANGED current_program
         ELSE IF Expands(label, token)
           THEN /\ current_program' = Replace(IF Choices(label, token) = {} THEN <<>>
                                             ELSE CHOOSE d \in Choices(label, token) : TRUE)
                /\ UNCHANGED status
         ELSE status' = "failure" /\ UNCHANGED current_program
  /\ UNCHANGED <<token, token_index, at_end, possible>>

(* The assertion that no token is left. *)
Finish ==
  /\ status = "parsing" /\ current_program = <<>>
  /\ status' = IF at_end THEN "success" ELSE "aborted"
  /\ UNCHANGED <<current_program, token, token_index, at_end, possible>>

Next == Look \/ Consume \/ ExpandFront \/ Finish

(* ParseTokens runs on its own until it returns. *)
Spec == Init /\ [][Next]_vars /\ WF_vars(Next)

-----------------------------------------------------------------------------
(* Properties *)

TypeOK ==
  /\ current_program \in Seq(Labels)
  /\ token \in Tokens \cup {NoToken}
  /\ token_index \in 0..MaxTokens
  /\ status \in {"parsing", "success", "failure", "aborted", "thrown"}

(* One token is enough to decide: the one derivation the parser follows     *)
(* contains every way the grammar has to go on with the token it looks at.  *)
(* So what it accepts is derived from MODULE, and it never reports an error *)
(* for a list of tokens that starts a program (Expand's choice).            *)
FollowsEveryDerivation ==
  token # NoToken => LedBy({current_program}, token) = LedBy(possible, token)

(* An error is reported at the first token with which no program goes on,   *)
(* and at no other; success is a complete derivation (ParseTokens' result). *)
ErrorsAreReal ==
  /\ status = "failure" => LedBy(possible, token) = {}
  /\ status = "success" => <<>> \in possible

(* No assertion of the parser fails (parser.cc:45 and 90), and tokens.at is *)
(* never asked for a token behind END_OF_FILE.                              *)
NeverAborts == status \notin {"aborted", "thrown"}

(* ParseTokens returns on every list of tokens: no cycle of expansions      *)
(* consumes nothing.                                                        *)
Terminates == <>(status # "parsing")
=============================================================================
