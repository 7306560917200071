------------------------------- MODULE MCCodegen -------------------------------
(* Small programs for TLC. *)
EXTENDS Codegen

Fn(name, params) == [name |-> name, params |-> params]

MCVars == {"a", "b"}

MCBuiltins == {<<"EQUAL", 2>>}

(* A string, a variable, a call of a builtin with both variables, and calls *)
(* of functions: itself, one compiled later, or with the wrong arguments.   *)
MCRValues ==
  {[vars |-> vs, calls |-> {}] : vs \in {{}, {"a"}, {"b"}}}
    \cup {[vars |-> {"a", "b"}, calls |-> {<<"EQUAL", 2>>}]}
    \cup {[vars |-> {}, calls |-> {<<"F", n>>}] : n \in 0..1}

Runnable ==
  {<<Fn("F", <<"a">>), Fn("Main", <<>>)>>,
   <<Fn("Main", <<"b">>), Fn("F", <<>>)>>}

MCPrograms ==
  Runnable \cup {<<>>, <<Fn("F", <<>>)>>, <<Fn("F", <<>>), Fn("F", <<"a">>)>>,
                 <<Fn("Main", <<"a", "b">>)>>, <<Fn("Main", <<>>), Fn("F", <<"a", "a">>)>>}
=============================================================================
