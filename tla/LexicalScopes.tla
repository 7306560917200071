----------------------------- MODULE LexicalScopes -----------------------------
(***************************************************************************)
(* What a PoiBoi name stands for, said once: a block binds names to local  *)
(* or to global variables, a name means what the blocks around it bind it  *)
(* to, and a binding ends with its block.  The evaluator (module Evaluator) *)
(* implements this with sets it copies from block to block.                *)
(***************************************************************************)
EXTENDS Naturals, Sequences

CONSTANTS
  Vars,        \* variable names
  Lists,       \* the parameter lists of functions, as sets of names
  RValues      \* what an expression uses: [vars, calls]

VARIABLES
  callable, \* the calls that are right: pairs of a function and a number of arguments
  blocks,   \* the blocks around the current statement, the innermost last;
            \* what each of them binds itself, and whether it is a loop's
  last,     \* the statement evaluated last and the C++ for it
  status    \* "running" until the first error

vars == <<callable, blocks, last, status>>

NoCode == [op |-> "none"]

-----------------------------------------------------------------------------
Locals  == UNION {blocks[i].locals : i \in DOMAIN blocks}
Globals == UNION {blocks[i].globals : i \in DOMAIN blocks}
InLoop  == \E i \in DOMAIN blocks : blocks[i].loop

Meaningful(rv) == rv.vars \subseteq Locals \cup Globals /\ rv.calls \subseteq callable

(* An expression in C++: each name is that of the variable it stands for. *)
Code(rv) == [locals |-> rv.vars \cap Locals, globals |-> rv.vars \cap Globals,
             calls |-> rv.calls]

Does(stmt, code) == last' = [stmt |-> stmt, code |-> code] /\ UNCHANGED status

Reject(stmt) ==
  /\ last' = [stmt |-> stmt, code |-> NoCode]
  /\ status' = "failure"
  /\ UNCHANGED blocks

Binds(field, x) == blocks' = [blocks EXCEPT ![Len(blocks)][field] = @ \cup {x}]

-----------------------------------------------------------------------------
Assign(x, rv) ==
  LET stmt == <<"assign", x, rv>>
  IN  IF ~Meaningful(rv) THEN Reject(stmt)
      ELSE IF x \in Locals \cup Globals
        THEN /\ Does(stmt, [op |-> "assign", var |-> x, local |-> x \in Locals,
                            code |-> Code(rv)])
             /\ UNCHANGED blocks
      ELSE Does(stmt, [op |-> "declare", var |-> x, code |-> Code(rv)]) /\ Binds("locals", x)

Global(x) ==
  LET stmt == <<"global", x>>
  IN  IF x \in Locals THEN Reject(stmt)
      ELSE IF x \in Globals THEN Does(stmt, NoCode) /\ UNCHANGED blocks
      ELSE Does(stmt, NoCode) /\ Binds("globals", x)

(* A statement that is one expression, RETURN among them. *)
Expression(rv) ==
  LET stmt == <<"expression", rv>>
  IN  IF ~Meaningful(rv) THEN Reject(stmt)
      ELSE Does(stmt, [op |-> "expression", code |-> Code(rv)]) /\ UNCHANGED blocks

Break ==
  IF InLoop THEN Does(<<"break">>, [op |-> "break"]) /\ UNCHANGED blocks
            ELSE Reject(<<"break">>)

Open(loop, rv) ==
  LET stmt == <<"open", loop, rv>>
  IN  IF ~Meaningful(rv) THEN Reject(stmt)
      ELSE /\ Does(stmt, [op |-> "open", code |-> Code(rv)])
           /\ blocks' = Append(blocks, [locals |-> {}, globals |-> {}, loop |-> loop])

Close ==
  /\ Does(<<"close">>, [op |-> "close"])
  /\ blocks' = SubSeq(blocks, 1, Len(blocks) - 1)

EnterFunction ==
  /\ blocks = <<>>
  /\ \E list \in Lists :
       blocks' = <<[locals |-> list, globals |-> {}, loop |-> FALSE]>>
  /\ UNCHANGED <<last, status>>

(* The rest of the compiler: no block is open. *)
Outside == blocks = <<>> /\ UNCHANGED <<blocks, last>>

-----------------------------------------------------------------------------
Init == blocks = <<>> /\ last = [stmt |-> <<>>, code |-> NoCode] /\ status = "running"

Statement ==
  /\ blocks # <<>>
  /\ \/ \E rv \in RValues :
          \/ \E x \in Vars : Assign(x, rv)
          \/ Expression(rv)
          \/ \E loop \in BOOLEAN : Open(loop, rv)
     \/ \E x \in Vars : Global(x)
     \/ Break
     \/ Close

(* The functions of a program are known before any is compiled. *)
Next ==
  /\ status = "running" /\ (EnterFunction \/ Statement \/ Outside)
  /\ UNCHANGED callable

Spec == Init /\ [][Next]_vars
=============================================================================
