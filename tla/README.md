# A verification of PoiBoi in TLA+

PoiBoi is a language whose only type is the string. `poiboic` compiles it to one
C++ file that carries its own string runtime. This directory models the
compiler and the runtime in TLA+, checks the models with TLC, and proves the
main invariants with TLAPS. Paths below are relative to the repository.

## The system

| part | code | state | operations |
|---|---|---|---|
| string runtime | `cc_src/poiboi_string.{h,cc}` | objects in one of four representations (static, small, reference counted, join of two of these); heap blocks with a count | the rule of five, `Concat`, `Substring`, `operator==`, the builtins |
| sizes as text | `SizeToString`, `StringToSize` in the same file | none | write a `size_t`, read one from a text |
| scanner | `cc_src/scanner.cc`, `tokens.*` | position in the file, line number, the token candidates still alive | strip comments, find strings, split lines, longest token |
| grammar, parser | `cc_src/grammar.*`, `parser.cc` | the pieces still to be found, the index of the token | expand, consume, fail |
| functions | `cc_src/function.*` | the functions of all modules | collect, build the dictionary |
| evaluators | `cc_src/evaluator.*`, `interpretation_context.h` | a `CompilationContext`, copied for each block | one `TryCreate` and `GetCode` per kind of statement |
| code generation | `cc_src/codegen.cc` | the context that goes from function to function, the set of all globals | check `Main`, declare, compile every function, emit globals and `main` |
| driver | `cc_src/poiboic.cc` | the index of the input, the trees so far, the output stream, the exit code; the file system | open, scan and parse each input, generate, write |
| library | `poiboi_src/*.poiboi` | none | arithmetic on decimal strings, search |

The driver scans and parses each file, and hands the trees to code generation,
which runs the evaluators over each function. The generated program contains
the runtime as text, and every PoiBoi value is a `PBString`.

Everything is sequential, and only the output of the compiler outlives it. What
is hard about the code is elsewhere: manual reference counts under sharing (an
object's block is shared by copies, by substrings, by both halves of joins),
boundaries (substrings of joins, the size of a small string, the number of
digits of a size, the end of a file), three passes over one text that hand
positions and lines on, a context that is copied at some places and shared at
others, a parser that must decide with one token, an output that may be an
input and is written without a check, and arithmetic on text with its carries,
signs and zeros. `PROJECT.json` lists these as hazards, each at its line.

What makes each part correct:

- runtime: strings behave as values; counts are exact; handles stay in bounds;
  equality is equality of contents;
- sizes: what `STRLEN` writes is decimal, and is read back as the same number;
- scanner: the tokens, with what lies between them, are the file; words are
  whole; lines are those of the file; the loop over a line ends;
- parser: it accepts exactly what the grammar derives, and returns;
- evaluators and code generation: contexts are lexical scopes, and accepted
  programs follow the rules of C++ on scopes, declarations, calls and loops;
- driver: the exit code is that of the first stage that fails, up to the
  generation; nothing but the output is touched, and that last; what is written
  is the program of the files that were there at the start;
- library: the functions compute what integers and strings say.

## Modules

**`PBString`** is the runtime. `obj[s]` is the object in storage `s`, as a
sequence of parts: none where no object is alive, one for a static, small or
counted string, two for a join. `memory` and `refs` are the heap blocks and
their counts. Each constructor, assignment, destructor and builtin is an
action: which representation the result takes, what is acquired and released,
in the order of the code. `malloc` takes a free block, and when there is none
the count is written through NULL (`crashed`). Text is a sequence of characters;
the terminating NUL of blocks is left out. `Builtin_Print` returns a copy of its
argument, which is `CopyConstruct`.

**`StringStore`** is what the runtime promises: a store of values, where each
operation changes one variable. `PBString` implements it under the mapping that
forgets representations and blocks (`StringsAreValues`), and each action by its
own counterpart (`OwnEffect`): with few characters many operations have a result
in common, so that some operation could have had the effect says little.
`EQUAL` may give either result there; that it gives the right one is
`EqualUnlessSkewed`.

**`Decimals`** is decimal notation, the reference for sizes as text and for the
integers of the library.

**`NumberText`** is the conversion between sizes and texts, for a `size_t` of 1,
2, 4 or 8 bytes, with the table of three-digit numbers, `snprintf` and the
limits of the buffers (`OfBytes` and `OfDigits` count what fits a width). A
number beyond the type, given to `sscanf`, reads as any size.

**`Grammar`** has the productions and, as the reference, the leftmost
derivations they allow. **`Parser`** is `ParseTokens`: the list of pieces still
to be found, one token of lookahead, one action per kind of turn of the loop.
Its input is chosen as it is looked at, so a run covers every list of tokens.
The history variable `possible` holds what every derivation of the consumed
tokens would still have to find.

**`Evaluator`** has one action per kind of statement. `contexts` is the stack of
`CompilationContext`s: that of `GenerateCode`, then the copy of each open block.
An expression is what it uses, a set of variables and of calls. Each action
decides as `TryCreate` does, and gives what `GetCode` emits to **`CppProgram`**,
the scopes a C++ compiler would have open at that place and the rules the text
has broken. The rules are those on scopes, declarations, calls and loops: string
literals, which `RValueEvaluator::GetCode` puts into the C++ as they stand, are
left out of both. `TryCreate` and `GetCode` visit statements in the same order, so
doing both in one step loses nothing: code for a program that is rejected later
is thrown away. **`Codegen`** is `GenerateCode` around it: the checks, the
functions one after the other, the globals and `main`. **`LexicalScopes`** says
what names mean with blocks that bind names and a lookup through the blocks
around; the evaluator's copied sets implement it (`ScopesAreLexical`).

**`Scanner`** is `ScanTokens` with its three passes. The file is chosen while
the first pass reads it, one action per kind of character and mode: `ReadCode`,
`ReadMark` (a quote or a `#`), `ReadComment`, `ReadString` with the count of
backslashes, `EndOfText`. `StripWhitespaceFromLines` is one action, the walk
over each piece a recursive function (`Walk`); `ParseSingleToken` one per token:
`Candidates` gives what each kind of token's `Search` accepts, in the order of
`CreateAllTokens`, and `Longest` is `std::max_element`. Pieces and tokens are
places in the file, so that losing or repeating something shows. The reference
is `After`, an automaton that knows what each character is.

**`Driver`** is `main` of `poiboic`, run by a shell several times over files that
remain: one action per stage, `Start`, `Open`, `Scan`, `Parse`, `Generate`,
`OpenOutput` and `Write`. A text is what the stages find in it, as data: whether
it scans, whether it parses and to which functions, and what a C++ text was made
from. How those verdicts come about is in `Scanner`, `Parser` and `Codegen`;
`Generate` has all reasons for exit code 5 (`Refused`): duplicate functions, no
`Main` or one with too many parameters, calls of no function, and what the
evaluators find wrong inside a function, on variables, builtins and `BREAK`,
which is one verdict per function (`sound`). A file may be missing, read-only,
output and input at once, and the disk may fill up while it is written. The
outcome is compared with what the files the invocation found say. `IsVerdict` is
the exit code up to the generation: an output that cannot be opened or written
gives 0 as well, and no property takes that for right or for wrong. What the exit
code should be without arguments nothing in the repository says, and no property
does.

**`IntMath`** is the library, function by function: decimal texts with their
signs and zeros, columns with carries and borrows, the rows of a product, long
division, and `PoiCore`'s search, which the library uses and which uses it.
What calls itself digit by digit is a recursive function on the texts the call
is for; a function that calls itself for what is behind a minus sign does so
once, and that call has a definition of its own (`UnsignedAdd` and others).
`CONCAT`, `SUBSTRING`, `STRLEN` and `EQUAL` are taken as the runtime promises
them (`StringStore`). **`Calculator`** is a program that gives the result of one
call to the next, with the integer it should be beside it, and compares and
classifies each result. **`Search`** is a
program that looks for all occurrences of a text, each search starting behind
the last hit. **`Library`** is a program that does one or the other.

`MC*` modules hold the values of constants for TLC. `*Proofs` modules hold the
theorems.

## Runs

| run | configuration | shows |
|---|---|---|
| `ownership` | 3 objects, 3 blocks, strings up to 3 characters | `TypeOK`, `RefsExact`, `HandlesInBounds`, `JoinShape`, `EqualUnlessSkewed` |
| `values` | 3 objects, 1 block | `StringsAreValues` |
| `equality` | two joins split at different places | `operator==` is wrong for them |
| `sizes` | `size_t` of two bytes | `WritesDecimal`, `ReadsExactly`, `RoundTrip` |
| `largest` | the same sizes and texts | a text with as many digits as the largest size is not read |
| `programs` | every list of at most 24 tokens | `FollowsEveryDerivation`, `ErrorsAreReal`, `NeverAborts`, `Terminates` |
| `scopes` | 7 programs, 2 names, blocks three deep | `CppFollowsRules`, `NoShadowing`, `OneMeaning`, `ScopesAreLexical` |
| `parameters` | the same programs | a function with two parameters of one name |
| `files` | every file of up to 6 characters of one of two alphabets | `NothingLost`, `WholeWords`, `LinesExact`, `EveryTokenMovesOn` |
| `last_line` | files of up to 4 characters | code behind the last line break is dropped |
| `sessions` | 2 invocations out of 10, 144 file systems with and without the runtime's sources, any output read-only | `ExitCodeIsFirstFailure`, `OnlyTheOutputIsTouched`, `OutputIsProgram`, `Terminates` |
| `calls` | 29 operands and 16 further texts, results up to 20; every two texts of up to 3 characters and every bounds | `Exact`, `Ordered`, `Classified`, `FindsFirst`, `NoneSkipped`, `MovesRight` |

The runs `equality`, `largest`, `parameters` and `last_line` each check one
sentence of the repository that the code does not keep, and TLC finds it
violated. The properties of the other runs leave such cases out.

Bounds, and why they are enough:

- Three objects let an operation read two others, or one object be the join of
  parts that two others hold as well. `SmallMax` is 1 (23 in the code), so a
  join needs two characters, and three characters allow a join of a join's
  substring. `StaticSizeLimit` (1000 in the code) is set so that short lengths
  take the static path and longer ones the printed one. `MaxLen` bounds the
  length of strings. Two paths are beyond these bounds: with 64 bits the text of
  a size is a small string (`SizeBuffer <= SmallMax` in `Strlen`), and a
  substring across the halves of a join may be one (`SubPayload`), which takes a
  `SmallMax` of 2. The theorems of `PBStringProofs` are about any sizes and
  cover both.
- `values` needs a single block: whether blocks are told apart is for
  `ownership`, and with one block a release at the wrong time is seen at once.
- `sizes` has every entry of the table, both sides of each power of ten beyond
  it and the end of the type, and every text of up to six characters out of
  three: one more than the longest size.
- 24 tokens hold a function with `IF`, `ELIF` and `ELSE`, with a call inside a
  call as condition, or two functions. The stack of pieces is not bounded
  otherwise.
- Two names are enough for one to be local and one global, or for both to be
  used in one expression; three blocks allow a block inside a loop inside a
  function. The programs have the good cases, recursion, a call of a function
  defined later, and every error of `GenerateCode`.

- Six characters hold a comment or a string over two lines with code before and
  behind it, a string with an escaped quote or an escaped backslash and what
  follows it, a keyword at the beginning of a longer word, and an error on the
  second line. The two alphabets (`Alphabets`) are words with symbols and errors,
  and marks with one letter; each has line breaks and comments.
- Two invocations let the first leave what the second reads or overwrites; three
  arguments have two inputs in either order, one input twice, an input that is
  the output, none. The texts are good and bad at each stage.
- The operands lie on both sides of a change in the number of digits, with
  leading zeros, signed zeros and texts that are no integers. Results go into
  further calls up to `MaxExact` and `MaxDigits`; any two digits meet in some
  column. Texts of three characters out of two have overlapping occurrences and
  hits that are none.

`CHECK_DEADLOCK FALSE` is set where the program ends: a compiler that is done, a
runtime that has crashed or has nothing left to do at the bound.

Fairness: `Parser` has `WF_vars(Next)`. `ParseTokens` runs in a single thread
that waits for nothing, so the next turn of its loop always comes. `Driver` has
`WF_vars(Step)`: once started, `main` waits for nothing but files. The shell
need never start it (`Invoke` is not fair). No other specification states
fairness.

## What was found

Each of these has a run that shows it:

- `operator==` is wrong for joins split at different places: `!= 0` for `== 0`
  in the first two comparisons of `ShortLongJoinResultsEqual`
  (`poiboi_string.cc:234-238`, run `equality`). Such joins with equal contents
  compare unequal, and some with different contents compare equal. It reaches
  `EQUAL`, and `WHILE`, `IF`, `AND`, `OR` and `NOT` through `operator bool` only
  with a join on the left, which compares with a static string and is right.
- `StringToSize` refuses texts of exactly `MaxSizeNumChars()` characters, one
  fewer than its comment says (`poiboi_string.cc:394` and `713`, run `largest`),
  so the largest sizes are written and not read back. `RoundTrip` is about the
  sizes with fewer digits.
- A function may name two parameters alike; the compiler reports success and
  its C++ does not compile (`codegen.cc:57`, run `parameters`).
- Code behind the last line break, string or comment of a file is dropped
  without an error (`scanner.cc:145`, run `last_line`): a file without a final
  line break loses its last line, one whose last line is `}` no longer parses.
  `NothingLost` says exactly what the scanner looks at (`Looked`).

These disagree with the repository's own words as well. One call or one file
shows each, so they have no run; no property takes them for right:

- A string may go over lines (`scanner.cc:97`: `ReadString`), against
  `tokens.h:252`, "anything between and including "", other than newlines". Its
  text goes into the C++ as it stands (`evaluator.cc:227`), so the program is
  accepted and its C++ does not compile. `CppFollowsRules` is not about literals.
- `main` never asks its output stream anything: it prints "Compilation
  successful!" (`poiboic.cc:107`) and returns 0 when the output could not be
  opened or written. `ExitCodeIsFirstFailure` and `OutputIsProgram` leave a
  failed stream out.
- The runtime's sources are read by a path relative to the working directory,
  and one that cannot be opened counts as empty (`codegen.cc:33`): elsewhere the
  program comes out without its runtime, as a success, against `README:6`.
  `OutputIsProgram` takes what there is of the runtime (`Carried`).
- `IntMathSubtract` of zero and zero is the empty text (`IntMath.poiboi:418`),
  against "Subtracts numTwo from numOne" (`IntMath.poiboi:392`), and a product of
  zero and a negative number is "-0" (`IntMath.poiboi:453`), against "the result
  is negative" (`IntMath.poiboi:452`). `Exact` lets these two results through.
- `IntMathIsValid` and `IntMathIsNegativeInt` take "--0" for an integer
  (`IntMath.poiboi:186`), against "can be validly parsed as an integer" and "is a
  valid integer < 0" (`IntMath.poiboi:182` and `175`). `Classified` leaves zeros
  behind two minus signs out (`SignedTwice`), and no such text is given to a call
  or compared.
- `PoiCoreFind` returns the length of what its loop has left of `str` when it
  finds nothing (`PoiCore.poiboi:39`), against "returns STRLEN(str)"
  (`PoiCore.poiboi:31-32`). `FindsFirst` is about searches that find something.
  `PoiCoreFindBetween` takes the index for a hit; a loop of searches still ends
  (`MovesRight`) and passes over nothing (`NoneSkipped`).
- `NewRefCountedString` writes through the result of `malloc` unchecked
  (`poiboi_string.cc:45`), against `README:3`: `crashed` of `PBString`.

Seen while modelling, with nothing in the repository that says otherwise:

- Errors of the scanner count lines from one, those of the evaluators from zero;
  the token at the end of a file has line 0, so the parser reports a premature
  end on line 1 (`Finish`).
- Without arguments `reserve` gets a negative number and throws
  (`poiboic.cc:68`); `poiboic x` without inputs, and inputs without functions,
  compile to an empty file that replaces `x` (`codegen.cc:72`).
- Escapes in string literals go into the C++ unread, too (`evaluator.cc:227`):
  whether a string with one compiles, and what it holds, is up to C++.

## Proofs

`PBStringProofs` proves, for any sets of slots, blocks and literals and any
sizes, that `TypeOK`, `RefsExact`, `HandlesInBounds` and `JoinShape` hold in
every reachable state. The assumptions are those of `PBString`: sizes are
natural numbers and small strings can hold a character; literals are texts, the
text of a size fits its buffer; slots and blocks are finite.

The invariant is `IInv`. `RefsExact` alone is not inductive: that a shift of a
handle keeps it in its block needs `HandlesInBounds`, that a part is cut by no
more than it has needs lengths, and the number of owners of a block is followed
by a count over one object at a time: an operation changes the parts of one or
two objects, and the cardinality of `Owners(b)` changes by what those objects
gained or lost. The proof has one lemma per primitive (`Construct`,
`ConstructInNewBlock`, the releases of an assignment, the moves), the actions
follow from these.

The same module goes on from that invariant to what the strings contain. It
proves `EqualUnlessSkewed` under the same assumptions: `operator==` compares the
right places of two objects of any representation except two joins split at
different places, which is where the code is wrong. And it proves that
`PBString` implements `StringStore` (`StringsAreValues`). The contents of an
object are read through its handles, so an operation leaves a value alone when
the blocks it refers to keep their texts; a block's text changes only when it is
taken, it is taken only when it is free, and by `RefsExact` a free block has no
owner. There is one lemma per action, which shows that the values change as that
operation of the store changes them (`OwnEffect`), and a family about slices (a
slice of a slice, of a concatenation, a text cut in two), which is what
substrings of joins come down to.

`CodegenProofs` proves `CppFollowsRules`, `NoShadowing`, `OneMeaning` and
`TypeOK` for any programs, names, expressions (without their literals) and depth
of blocks. It assumes
that a program is a list of functions whose parameters are variable names, and
that a block can be opened at all; of expressions and builtins it assumes
nothing. The invariant `IInv` relates the two stacks that the compiler itself
never compares: the contexts of the evaluators and the scopes of the C++ text.
They have the same height, and at each level the local variables of the context
are exactly those declared in the scopes up to there (`SameLocals`), so what
`RValueEvaluator` finds in its set, C++ finds in scope, and a name that is new
to the context is new to every scope. `NoShadowing` needs this: by itself it
does not say what the evaluator knows. `Disjoint` keeps the assertion of
`VariableAssignmentEvaluator` from failing; `GlobalsKnown` and `CallsKnown`
carry what is defined at the end of the file and declared at its beginning;
`Base` says that nothing is left in the context that goes from function to
function. There is one lemma per action.

The same module proves the refinement `ScopesAreLexical`. `LInv` adds to `IInv`
that a context has the variables of the one below it (`GlobalsGrow` for the
globals), and that blocks and contexts agree on what is a loop (`LoopBlocks`).
Then the names a block binds are the difference of two neighbouring contexts, and
a lookup through the blocks around finds what the copied set holds.

`DriverProofs` proves the four invariants of `Driver` for any files, texts,
arguments and number of invocations. It assumes that the file system maps names
to texts, arguments name files, and that no text is the absence of one. The
properties compare the end of an invocation with the files at its beginning, so
`IInv` carries what has been found on the way: every input before the current
one was without a flaw and its functions are in `roots` (`Accepted`), `i` stays
where the program counter says (`Progress`), the text being read is that of the
input (`Reading`), no file has changed before the output is opened
(`Untouched`), and the program that waits to be written is the one of these
files (`Generated`). There is one lemma per action; one that returns shows that
its exit code is the verdict on the files at the beginning, which by `Untouched`
are still those it has read. `ExitCodesRight` says this of invocations with
arguments whose output has not failed.

`NumberFacts` has what the next four, and in one place `CodegenProofs`, rest on.
The references of `NumberText`, `Parser` and `Scanner` and the functions of
`IntMath` are recursive or are built by steps, and the prover knows neither that
such a function exists nor what it computes. The library's induction theorems
take a formula as a parameter, which the provers used here cannot fill in; the
module states them about sets and functions instead: a set of naturals with zero
and the successors of its members has them all (`SetInduction`,
`StrongInduction`), a non-empty one has a least member, a step function has the
function that repeats it (`PrimitiveRecursion`), what is collected step by step
exists (`Accumulates`), and a function that calls itself only where a measure is
smaller exists and is unique (`MeasuredRecursion`). The equations of `Decimals`
are here too, so that `Decimal` and `Value` are inverse.

`NumberTextProofs` proves `WritesDecimal`, `ReadsExactly` and `RoundTrip` for a
`size_t` of 1, 2, 4 or 8 bytes, every size it can hold, and texts of any length;
`RoundTrip` itself is about the sizes with fewer digits than the largest.
First, the recursive functions of the reference satisfy their equations. Then
the table of three-digit numbers is decimal, entry by entry, what is printed
digit by digit has the value of the number, and a text of so many digits stays
below a power of ten, which decides when the limits of the buffers are met.

`ParserProofs` proves `TypeOK`, `FollowsEveryDerivation`, `ErrorsAreReal` and
`NeverAborts` for lists of tokens of every length. That one token decides is not a
property of the rules alone: an expansion may be empty, and then what follows
decides. `IInv` says what may follow (`WellFormed`): a piece for the rest of a
list always stands before the one piece that ends the list, the piece for the
end of the file is the last. Both are kept by every expansion (`Fits`), so
a token that starts the list's next item never starts what comes behind it.
With this, the derivations that are `possible` between two tokens are the one
list of pieces the parser holds, and when it reports an error there are none.

`ScannerProofs` proves `NothingLost`, `WholeWords` and `LinesExact`, and the
action property `EveryTokenMovesOn`, for files of every length over any
characters. It assumes of them what `Scanner` states: lower and upper case
letters, symbols and whitespace are told apart as `isalpha` and `isspace` do,
and keywords are of upper case letters. `IInv` says what each pass leaves to the
next. In the first (`FirstPass`), the pieces hold exactly the strings and the
code before the piece that is being read, and the mode of the loop and the
parity of its count of backslashes are the state of the reference automaton.
When it is over (`SecondPass`), the pieces are what the scanner looks at. In the
third (`ThirdPass`), tokens and remaining pieces form one list of disjoint
places in the order of the file, and hold exactly what is looked at without the
whitespace; no word is cut where a piece ends, and none is cut by a token, since
the longest candidate at a letter is the whole word. Each place keeps the number
of line breaks before it, so an error's line is the line of the character it is
about.

`LibraryProofs` proves the four invariants `Exact`, `Ordered`, `Classified` and
`FindsFirst` and the action properties `NoneSkipped` and `MovesRight`, for
operands, results and searched texts of any length. It assumes what `IntMath`,
`Calculator` and `Search` state: that the five characters which are no digits
are told apart where the code tells them apart, that operands and letters are
texts and characters of this alphabet, and that "not a number" is no integer. A
text is read as a number by `NumberOf`, a number written by `Numeral`, and the
bulk of the module says of each function of `IntMath` what it gives for the
texts of numbers:

- a recursive function is given its equation by a measure that its calls
  decrease (`IncrementReversedEquation`; the sum of both columns for
  `AddColumnsEquation`; the number of digits, which is shorter than its number,
  for `UnsignedLessEquation`, where the comparison calls itself with lengths);
- then, by induction over numbers split into their last digit and the rest,
  its value: the carry of `IncrementReversedIs`, `AddColumnsIs`,
  `SubtractColumnsIs` with its borrows and the zeros it leaves, `RowValue` and
  `AddRowsIs` for products, and for `LongDivisionIs` the invariant of the loop,
  that quotient and rest so far are those of the digits read so far;
- with signs and leading zeros (`Reading`, `OperandIs`), the operations: `AddIs`,
  `SubtractIs`, `MultiplyIs`, `DivideIs`. Division finds the separator of its own
  result again with `PoiCoreFind` (`PartsOf`), whose index is counted with
  `IntMathIncrement`: the search is proved from addition, division from the
  search. `FloorIs`, `CeilIs` and `RoundIs` compare with the reference, whose
  halves go towards zero.

`IInv` joins the types of the state with `Exact` and `FindsFirst`. `Exact` is the
inductive part: results go into further calls, and what a call makes of a result
is known only because the result is one of the texts `Exact` allows; `Ordered`
and `Classified` then hold for the texts of the type that they are about.
`FindsFirst` is the case of a search that finds something. `NoneSkipped` and
`MovesRight` follow from what `PoiCoreFindBetween` returns (`FindBetweenIs`): an
index that is at most the first occurrence left, or the length of the text,
and this only when there is none between the bounds.

Only model-checked: `Terminates` of `Parser` and of `Driver`, as liveness is out
of reach of TLAPS. Every other property of a passing run is a theorem.

## Not modelled

The tests and `make.py` have no state. `PoiClass.poiboi` is an unfinished stub
that nothing uses. Generated programs are not executed: C++ leaves open in which
order the arguments of a call are evaluated (`evaluator.cc:324`), so calls with
effects on global variables may have several results; no model shows it yet.
String literals are not in the model of the C++ text. Memory beyond `malloc` in the runtime (the compiler's own `new`) is taken to
last.

## Plan

1. A small-step semantics of generated programs over `StringStore`, for the
   order of evaluation of arguments.
2. The stages composed: what `Scanner` makes of a file as the input of `Parser`,
   in place of the verdicts `Driver` takes as data.
