-------------------------------- MODULE Driver --------------------------------
(***************************************************************************)
(* poiboic (cc_src/poiboic.cc) run from a shell, one invocation after the  *)
(* other, on files that outlive them: each input is opened, scanned and    *)
(* parsed in the order of the arguments, the modules become one C++        *)
(* program, and the last argument is overwritten with it.  The output of   *)
(* one invocation may be an input of the next.                             *)
(*                                                                         *)
(* A text is what the stages find in it: whether it scans, whether it      *)
(* parses and to which functions, and, if it is C++, the modules it was    *)
(* made from and the files of the runtime it carries.  A function is its   *)
(* name, its number of parameters, the calls of functions in it, and       *)
(* whether it is sound: it reads variables where they are defined, takes   *)
(* no local variable for a global one, calls builtins that there are, with *)
(* their numbers of arguments, and has BREAK in loops only.  That is what  *)
(* the evaluators ask of it beside (Evaluator), and it depends on nothing  *)
(* outside the function.                                                   *)
(***************************************************************************)
EXTENDS Integers, Sequences

CONSTANTS
  Files,     \* names of files
  Sources,   \* the names that end in .poiboi
  Runtime,   \* cc_src/poiboi_string.h and cc_src/poiboi_string.cc
  Contents,  \* what the files may hold at first: functions from names to texts
  Arguments, \* the arguments of an invocation
  Absent,    \* no file of that name
  Main,      \* the name of the main function
  DiskFills, \* whether the disk may fill up while the output is written
  MaxRuns    \* bound: invocations in a row

Function ==
  [name : STRING, params : Nat, calls : SUBSET (STRING \X Nat), sound : BOOLEAN]

Text == [scans : BOOLEAN, parses : BOOLEAN, functions : Seq(Function),
         modules : Seq(Seq(Function)), runtime : SUBSET Runtime]

ASSUME FilesAssumption ==
  /\ Sources \subseteq Files /\ Runtime \subseteq Files
  /\ Contents \subseteq [Files -> Text \cup {Absent}]
  /\ Arguments \subseteq Seq(Files)
  /\ DiskFills \in BOOLEAN

ASSUME AbsentAssumption == Absent \notin Text

VARIABLES
  files,    \* the file system: from names to texts
  readonly, \* the names that cannot be opened for writing
  runs,     \* how many invocations there have been
  argv,     \* argv[1], argv[2], ...
  pc,       \* "shell", or what main does next
  i,        \* the input main is at
  input,    \* the text read from it
  roots,    \* the modules parsed so far: sequences of functions
  code,     \* the C++ program
  stream,   \* the state of the output stream: "closed", "good" or "bad"
  exit,     \* the exit code
  before    \* history: the files when the invocation began

vars == <<files, readonly, runs, argv, pc, i, input, roots, code, stream, exit, before>>

-----------------------------------------------------------------------------
(* A file without any text: it scans, and parses to no function. *)
NoText ==
  [scans |-> TRUE, parses |-> TRUE, functions |-> <<>>,
   modules |-> <<>>, runtime |-> {}]

(* The beginning of a program: #define does not scan, a # opens a comment. *)
Partial ==
  [scans |-> FALSE, parses |-> FALSE, functions |-> <<>>,
   modules |-> <<>>, runtime |-> {}]

Aborted == 134

Init ==
  /\ files \in Contents
  /\ readonly \in SUBSET (Files \ (Sources \cup Runtime))
  /\ runs = 0 /\ argv = <<>> /\ pc = "shell" /\ i = 1
  /\ input = NoText /\ roots = <<>> /\ code = NoText
  /\ stream = "closed" /\ exit = 0 /\ before = files

Output == argv[Len(argv)]

(* The shell starts poiboic.  *)
Invoke(a) ==
  /\ pc = "shell" /\ runs < MaxRuns
  /\ runs' = runs + 1 /\ argv' = a /\ pc' = "start" /\ i' = 1
  /\ input' = NoText /\ roots' = <<>> /\ code' = NoText
  /\ stream' = "closed" /\ exit' = 0 /\ before' = files
  /\ UNCHANGED <<files, readonly>>

Return(status) == pc' = "shell" /\ exit' = status

(* Faulty: the output is opened before the inputs are read. *)
BugStart ==
  /\ pc = "start"
  /\ IF argv = <<>> THEN Return(Aborted) /\ UNCHANGED files
     ELSE IF Output \in Sources THEN Return(1) /\ UNCHANGED files
     ELSE /\ pc' = "open" /\ UNCHANGED exit
          /\ files' = IF Output \in readonly THEN files ELSE [files EXCEPT ![Output] = NoText]
  /\ UNCHANGED <<readonly, runs, argv, i, input, roots, code, stream, before>>

(* Without arguments, argc - 2 is negative and reserve throws. *)
Start ==
  /\ pc = "start"
  /\ IF argv = <<>> THEN Return(Aborted)
     ELSE IF Output \in Sources THEN Return(1)
     ELSE pc' = "open" /\ UNCHANGED exit
  /\ UNCHANGED <<files, readonly, runs, argv, i, input, roots, code, stream, before>>

(* Faulty: the last argument is read as an input, too. *)
BugOpen ==
  /\ pc = "open" /\ i <= Len(argv)
  /\ IF files[argv[i]] = Absent THEN Return(2) /\ UNCHANGED input
     ELSE input' = files[argv[i]] /\ pc' = "scan" /\ UNCHANGED exit
  /\ UNCHANGED <<files, readonly, runs, argv, i, roots, code, stream, before>>

(* Open and read input i. *)
Open ==
  /\ pc = "open" /\ i < Len(argv)
  /\ IF files[argv[i]] = Absent THEN Return(2) /\ UNCHANGED input
     ELSE input' = files[argv[i]] /\ pc' = "scan" /\ UNCHANGED exit
  /\ UNCHANGED <<files, readonly, runs, argv, i, roots, code, stream, before>>

Scan ==
  /\ pc = "scan"
  /\ IF input.scans THEN pc' = "parse" /\ UNCHANGED exit ELSE Return(3)
  /\ UNCHANGED <<files, readonly, runs, argv, i, input, roots, code, stream, before>>

(* Faulty: a module that does not parse is left out. *)
BugParse ==
  /\ pc = "parse"
  /\ roots' = IF input.parses THEN Append(roots, input.functions) ELSE roots
  /\ i' = i + 1 /\ pc' = "open"
  /\ UNCHANGED <<files, readonly, runs, argv, input, code, stream, exit, before>>

(* Faulty: the same input is read again. *)
BugParseStays ==
  /\ pc = "parse"
  /\ IF input.parses THEN pc' = "open" /\ UNCHANGED exit ELSE Return(4)
  /\ roots' = <<input.functions>>
  /\ UNCHANGED <<files, readonly, runs, argv, i, input, code, stream, before>>

(* Faulty: a module is put before those parsed already. *)
BugParseReversed ==
  /\ pc = "parse"
  /\ IF input.parses
       THEN /\ roots' = <<input.functions>> \o roots
            /\ i' = i + 1 /\ pc' = "open" /\ UNCHANGED exit
     ELSE Return(4) /\ UNCHANGED <<roots, i>>
  /\ UNCHANGED <<files, readonly, runs, argv, input, code, stream, before>>

Parse ==
  /\ pc = "parse"
  /\ IF input.parses
       THEN /\ roots' = Append(roots, input.functions)
            /\ i' = i + 1 /\ pc' = "open" /\ UNCHANGED exit
     ELSE Return(4) /\ UNCHANGED <<roots, i>>
  /\ UNCHANGED <<files, readonly, runs, argv, input, code, stream, before>>

(* GetFunctionsFromModules: the functions, as module and place in it. *)
Places(modules) == UNION {{<<m, n>> : n \in DOMAIN modules[m]} : m \in DOMAIN modules}

At(modules, place) == modules[place[1]][place[2]]

(* What a call may name: a function of any module, by name and arguments. *)
Dictionary(modules) ==
  {<<At(modules, p).name, At(modules, p).params>> : p \in Places(modules)}

(* The checks of GenerateCode, and those of the evaluators it runs over each *)
(* function.                                                                 *)
Refused(modules) ==
  LET fn(p) == At(modules, p)
  IN  \/ \E p, q \in Places(modules) : p # q /\ fn(p).name = fn(q).name
      \/ \A p \in Places(modules) : fn(p).name # Main
      \/ \E p \in Places(modules) : fn(p).name = Main /\ fn(p).params > 1
      \/ \E p \in Places(modules) : ~ fn(p).calls \subseteq Dictionary(modules)
      \/ \E p \in Places(modules) : ~ fn(p).sound

(* AddPBStringSrc: what of the runtime can be opened is in the program. *)
Carried(fs) == {r \in Runtime : fs[r] # Absent}

Program(modules, runtime) ==
  [scans |-> FALSE, parses |-> FALSE, functions |-> <<>>, modules |-> modules, runtime |-> runtime]

(* GenerateCode: without any function there is no code. *)
Generate ==
  /\ pc = "open" /\ i = Len(argv)
  /\ IF Places(roots) = {} THEN pc' = "write" /\ UNCHANGED <<code, exit>>
     ELSE IF Refused(roots) THEN Return(5) /\ UNCHANGED code
     ELSE /\ code' = Program(roots, Carried(files))
          /\ pc' = "write" /\ UNCHANGED exit
  /\ UNCHANGED <<files, readonly, runs, argv, i, input, roots, stream, before>>

(* std::ofstream truncates the file, or fails and keeps quiet. *)
OpenOutput ==
  /\ pc = "write" /\ stream = "closed"
  /\ IF Output \in readonly THEN stream' = "bad" /\ UNCHANGED files
     ELSE stream' = "good" /\ files' = [files EXCEPT ![Output] = NoText]
  /\ UNCHANGED <<readonly, runs, argv, pc, i, input, roots, code, exit, before>>

(* Writing and closing, whatever the state of the stream; nobody asks it. *)
Write ==
  /\ pc = "write" /\ stream # "closed"
  /\ Return(0)
  /\ \/ stream = "good" /\ files' = [files EXCEPT ![Output] = code] /\ UNCHANGED stream
     \/ /\ stream = "good" /\ DiskFills /\ code # NoText
        /\ \E rest \in {NoText, Partial} : files' = [files EXCEPT ![Output] = rest]
        /\ stream' = "bad"
     \/ stream = "bad" /\ UNCHANGED <<files, stream>>
  /\ UNCHANGED <<readonly, runs, argv, i, input, roots, code, before>>

Step == Start \/ Open \/ Scan \/ Parse \/ Generate \/ OpenOutput \/ Write

Next == (\E a \in Arguments : Invoke(a)) \/ Step

Spec == Init /\ [][Next]_vars

FairSpec == Spec /\ WF_vars(Step)

-----------------------------------------------------------------------------
(* The reference: what an invocation should do, from the files it found. *)

Inputs == 1..(Len(argv) - 1)

(* What is wrong with an input by itself, as an exit code. *)
Flaw(text) ==
  IF text = Absent THEN 2
  ELSE IF ~text.scans THEN 3
  ELSE IF ~text.parses THEN 4
  ELSE 0

Linked == [n \in Inputs |-> before[argv[n]].functions]

(* The exit code for what the invocation was given: that of the first stage *)
(* that fails among the check of the output's name, the opening, scanning   *)
(* and parsing of each input, and the generation.  There are arguments.     *)
IsVerdict(status) ==
  IF Output \in Sources THEN status = 1
  ELSE \/ \E n \in Inputs : /\ status = Flaw(before[argv[n]]) /\ status # 0
                            /\ \A m \in Inputs : m < n => Flaw(before[argv[m]]) = 0
       \/ /\ \A n \in Inputs : Flaw(before[argv[n]]) = 0
          /\ status = IF Places(Linked) # {} /\ Refused(Linked) THEN 5 ELSE 0

Compiled == IF Places(Linked) = {} THEN NoText ELSE Program(Linked, Carried(before))

Returned == pc = "shell" /\ runs > 0

-----------------------------------------------------------------------------
(* Properties *)

TypeOK ==
  /\ files \in [Files -> Text \cup {Absent}] /\ before \in [Files -> Text \cup {Absent}]
  /\ readonly \subseteq Files
  /\ argv \in Arguments \cup {<<>>}
  /\ pc \in {"shell", "start", "open", "scan", "parse", "write"}
  /\ i \in 1..(IF argv = <<>> THEN 1 ELSE Len(argv))
  /\ input \in Text /\ code \in Text
  /\ roots \in Seq(Seq(Function))
  /\ stream \in {"closed", "good", "bad"}
  /\ exit \in {0, 1, 2, 3, 4, 5, Aborted}

(* The exit code tells the first stage that failed, up to the generation,   *)
(* with the inputs in the order of the arguments: an input that does not    *)
(* parse comes before the next one that cannot be opened, and 0 means that  *)
(* none failed.  An invocation without arguments, and one whose output      *)
(* could not be opened or written, which also returns 0, are left out.      *)
ExitCodeIsFirstFailure ==
  Returned /\ argv # <<>> /\ stream # "bad" => IsVerdict(exit)

(* Nothing is touched but the output, and that only once every input has    *)
(* been read and the program generated: a compilation that fails leaves the *)
(* last output, and an output that is also an input is read as it was.      *)
OnlyTheOutputIsTouched ==
  \A f \in Files : files[f] # before[f] => argv # <<>> /\ f = Output /\ IsVerdict(0)

(* What is in the output when the stream has not failed is the program of   *)
(* the files as the invocation found them: all functions of all modules in  *)
(* the order of the arguments, with what there is of the runtime.           *)
OutputIsProgram ==
  Returned /\ exit = 0 /\ stream = "good" => files[Output] = Compiled

(* Every invocation comes back to the shell. *)
Terminates == pc # "shell" ~> pc = "shell"
=============================================================================
