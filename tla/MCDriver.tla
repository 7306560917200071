------------------------------- MODULE MCDriver -------------------------------
(* Files and invocations for TLC. *)
EXTENDS Driver, TLC

Fn(name, params, calls) == [name |-> name, params |-> params, calls |-> calls, sound |-> TRUE]

Source(functions) ==
  [scans |-> TRUE, parses |-> TRUE, functions |-> functions,
   modules |-> <<>>, runtime |-> {}]

Garbled == [scans |-> FALSE, parses |-> FALSE, functions |-> <<>>, modules |-> <<>>, runtime |-> {}]
Unfinished == [scans |-> TRUE, parses |-> FALSE, functions |-> <<>>, modules |-> <<>>, runtime |-> {}]

App == Source(<<Fn("Main", 1, {<<"F", 1>>})>>)
Helpers == Source(<<Fn("F", 1, {}), Fn("G", 0, {<<"G", 0>>})>>)
OtherHelpers == Source(<<Fn("F", 2, {<<"F", 2>>})>>)
OldApp == Source(<<Fn("Main", 2, {})>>)
UndefinedVariable == Source(<<[Fn("Main", 0, {}) EXCEPT !.sound = FALSE]>>)

MCFiles == {"a.poiboi", "b.poiboi", "out", "poiboi_string.h", "poiboi_string.cc"}
MCSources == {"a.poiboi", "b.poiboi"}
MCRuntime == {"poiboi_string.h", "poiboi_string.cc"}

Folder(a, b, out, runtime) ==
  "a.poiboi" :> a @@ "b.poiboi" :> b @@ "out" :> out
    @@ "poiboi_string.h" :> runtime @@ "poiboi_string.cc" :> runtime

MCContents ==
  {Folder(a, b, out, runtime) :
     a \in {App, OldApp, UndefinedVariable, Garbled, Unfinished, Absent},
     b \in {Helpers, OtherHelpers, Unfinished, Absent},
     out \in {App, Helpers, Absent}, runtime \in {Garbled, Absent}}

MCArguments ==
  {<<>>, <<"out">>, <<"a.poiboi">>, <<"a.poiboi", "out">>, <<"b.poiboi", "out">>, <<"out", "out">>,
   <<"a.poiboi", "b.poiboi", "out">>, <<"b.poiboi", "a.poiboi", "out">>,
   <<"a.poiboi", "a.poiboi", "out">>, <<"out", "b.poiboi", "out">>}
=============================================================================
