----------------------------- MODULE DriverProofs -----------------------------
(***************************************************************************)
(* Proofs about Driver, for any files, texts and arguments and any number  *)
(* of invocations: the exit code, what an invocation touches, and what it  *)
(* leaves in its output.                                                   *)
(***************************************************************************)
EXTENDS Driver, TLAPS

(* The inductive invariant: what main has established when it gets where it *)
(* is.                                                                      *)

Working == pc \in {"open", "scan", "parse", "write"}

(* An invocation that is under way has an output that is no source, ... *)
Accepted == Working => argv # <<>> /\ Output \notin Sources

(* ... has parsed the inputs before i, ... *)
Progress ==
  Working => /\ roots = [n \in 1..(i - 1) |-> before[argv[n]].functions]
             /\ \A n \in 1..(i - 1) : Flaw(before[argv[n]]) = 0

(* ... and has the text of input i where it is needed. *)
Reading ==
  /\ pc \in {"scan", "parse"} =>
       i < Len(argv) /\ before[argv[i]] # Absent /\ input = before[argv[i]]
  /\ pc = "parse" => input.scans

(* Nothing is written before the program is generated. *)
Untouched ==
  /\ pc \in {"start", "open", "scan", "parse"} =>
       files = before /\ stream = "closed" /\ code = NoText
  /\ pc = "start" => i = 1 /\ roots = <<>>
  /\ pc = "write" /\ stream = "closed" => files = before

Generated == pc = "write" => IsVerdict(0) /\ code = Compiled

IInv == /\ TypeOK /\ Accepted /\ Progress /\ Reading /\ Untouched /\ Generated
        /\ ExitCodeIsFirstFailure /\ OnlyTheOutputIsTouched /\ OutputIsProgram

(***************************************************************************)
(* The arguments and what is in the files.                                 *)
(***************************************************************************)

(* The output and every input are names of files. *)
LEMMA ArgumentsAreFiles ==
  ASSUME TypeOK, argv # <<>>
  PROVE  /\ argv \in Seq(Files) /\ Len(argv) \in Nat \ {0}
         /\ Output \in Files
         /\ \A n \in 1..Len(argv) : argv[n] \in Files
<1>1. argv \in Seq(Files)
  BY FilesAssumption DEF TypeOK
<1>2. Len(argv) \in Nat /\ Len(argv) # 0
  BY <1>1
<1> QED
  BY <1>1, <1>2 DEF Output

(* The text of a file has the fields of a text. *)
LEMMA TextFields ==
  ASSUME NEW t \in Text
  PROVE  /\ t.scans \in BOOLEAN /\ t.parses \in BOOLEAN
         /\ t.functions \in Seq(Function)
  BY DEF Text

LEMMA NoTextIsText == NoText \in Text
  BY DEF NoText, Text

LEMMA PartialIsText == Partial \in Text
  BY DEF Partial, Text

LEMMA ProgramIsText ==
  ASSUME NEW m \in Seq(Seq(Function)), NEW r \in SUBSET Runtime
  PROVE  Program(m, r) \in Text
  BY DEF Program, Text

(* A verdict speaks of the arguments and of the files an invocation found. *)
LEMMA VerdictKept ==
  ASSUME UNCHANGED <<argv, before>>
  PROVE  /\ \A e : IsVerdict(e) <=> IsVerdict(e)'
         /\ Output' = Output /\ Compiled' = Compiled
<1>1. Output' = Output /\ Inputs' = Inputs
  BY DEF Output, Inputs
<1>2. Linked' = Linked
  BY <1>1 DEF Linked
<1> QED
  BY <1>1, <1>2 DEF IsVerdict, Compiled, Carried

(* An input that has a flaw, behind inputs that have none, is the verdict. *)
LEMMA FlawIsVerdict ==
  ASSUME argv # <<>>, Output \notin Sources, NEW n \in Inputs,
         \A m \in Inputs : m < n => Flaw(before[argv[m]]) = 0,
         NEW e, e = Flaw(before[argv[n]]), e # 0
  PROVE  IsVerdict(e)
  BY DEF IsVerdict

(***************************************************************************)
(* The invariant holds at first.                                           *)
(***************************************************************************)

LEMMA InitInv == Init => IInv
<1> SUFFICES ASSUME Init PROVE IInv
  OBVIOUS
<1>1. TypeOK
  <2>1. files \in [Files -> Text \cup {Absent}]
    BY FilesAssumption DEF Init
  <2> QED
    BY <2>1, NoTextIsText DEF Init, TypeOK, Aborted
<1> QED
  BY <1>1 DEF Init, IInv, Accepted, Progress, Reading, Untouched, Generated, Working,
     ExitCodeIsFirstFailure, OnlyTheOutputIsTouched, OutputIsProgram, Returned

(***************************************************************************)
(* Every step keeps it.                                                    *)
(***************************************************************************)

LEMMA InvokeInv ==
  ASSUME IInv, NEW a \in Arguments, Invoke(a)
  PROVE  IInv'
<1>1. TypeOK'
  <2>1. 1 \in 1..(IF a = <<>> THEN 1 ELSE Len(a))
    <3>1. a \in Seq(Files)
      BY FilesAssumption
    <3>2. a # <<>> => Len(a) \in Nat /\ Len(a) # 0
      BY <3>1
    <3> QED
      BY <3>2
  <2> QED
    BY <2>1, NoTextIsText DEF IInv, TypeOK, Invoke
<1> QED
  BY <1>1 DEF IInv, Invoke, Accepted, Progress, Reading, Untouched, Generated, Working,
     ExitCodeIsFirstFailure, OnlyTheOutputIsTouched, OutputIsProgram, Returned

(* An invocation that ends before it writes has only its exit code to show. *)
LEMMA ReturnInv ==
  ASSUME IInv, NEW e \in {1, 2, 3, 4, 5, Aborted}, Return(e), argv # <<>> => IsVerdict(e),
         files = before, input' \in Text,
         UNCHANGED <<files, readonly, runs, argv, i, roots, code, stream, before>>
  PROVE  IInv'
<1>1. TypeOK'
  BY DEF IInv, TypeOK, Return
<1>2. (argv # <<>> => IsVerdict(exit))'
  BY VerdictKept DEF Return
<1>3. e # 0
  BY DEF Aborted
<1> QED
  BY <1>1, <1>2, <1>3 DEF IInv, Return, Accepted, Progress, Reading, Untouched, Generated,
     Working, ExitCodeIsFirstFailure, OnlyTheOutputIsTouched, OutputIsProgram, Returned

LEMMA StartInv ==
  ASSUME IInv, Start
  PROVE  IInv'
<1> USE DEF IInv
<1>0. files = before /\ input \in Text /\ i = 1 /\ roots = <<>>
  BY DEF Start, Untouched, TypeOK
<1>1. CASE argv = <<>>
  <2> QED
    BY <1>0, <1>1, ReturnInv DEF Start
<1>2. CASE argv # <<>> /\ Output \in Sources
  <2>1. IsVerdict(1)
    BY <1>2 DEF IsVerdict
  <2> QED
    BY <1>0, <1>2, <2>1, ReturnInv DEF Start
<1>3. CASE argv # <<>> /\ Output \notin Sources
  <2>1. pc' = "open" /\ UNCHANGED <<files, readonly, runs, argv, i, input, roots, code, stream, exit, before>>
    BY <1>3 DEF Start
  <2>2. TypeOK'
    BY <2>1 DEF TypeOK
  <2>3. Accepted'
    BY <1>3, <2>1 DEF Accepted, Output
  <2>4. Progress'
    <3>1. roots = [n \in 1..(i - 1) |-> before[argv[n]].functions]
      BY <1>0
    <3>2. \A n \in 1..(i - 1) : Flaw(before[argv[n]]) = 0
      BY <1>0
    <3> QED
      BY <2>1, <3>1, <3>2 DEF Progress, Flaw
  <2>5. Untouched' /\ Reading' /\ Generated'
    BY <1>0, <2>1 DEF Untouched, Reading, Generated, Start
  <2>6. OnlyTheOutputIsTouched'
    BY <1>0, <2>1 DEF OnlyTheOutputIsTouched
  <2> QED
    BY <2>1, <2>2, <2>3, <2>4, <2>5, <2>6 DEF ExitCodeIsFirstFailure, OutputIsProgram, Returned
<1> QED
  BY <1>1, <1>2, <1>3

(* While main works on the inputs nothing has been written. *)
LEMMA WorkingOnInputs ==
  ASSUME IInv, pc \in {"open", "scan", "parse"}
  PROVE  /\ files = before /\ stream = "closed" /\ code = NoText
         /\ argv # <<>> /\ Output \notin Sources
         /\ argv \in Seq(Files) /\ Len(argv) \in Nat \ {0} /\ i \in 1..Len(argv)
         /\ \A n \in 1..Len(argv) : argv[n] \in Files /\ before[argv[n]] \in Text \cup {Absent}
<1>1. files = before /\ stream = "closed" /\ code = NoText /\ argv # <<>> /\ Output \notin Sources
  BY DEF IInv, Untouched, Accepted, Working
<1>2. TypeOK
  BY DEF IInv
<1> QED
  BY <1>1, <1>2, ArgumentsAreFiles DEF TypeOK

(* An input at which main gives up is the first with a flaw. *)
LEMMA GiveUpInv ==
  ASSUME IInv, pc \in {"open", "scan", "parse"}, i < Len(argv),
         NEW e \in {2, 3, 4}, Flaw(before[argv[i]]) = e, Return(e), input' \in Text,
         UNCHANGED <<files, readonly, runs, argv, i, roots, code, stream, before>>
  PROVE  IInv'
<1>1. i \in Inputs /\ \A m \in Inputs : m < i => Flaw(before[argv[m]]) = 0
  BY WorkingOnInputs DEF IInv, Progress, Working, Inputs
<1>2. IsVerdict(e)
  BY <1>1, WorkingOnInputs, FlawIsVerdict
<1> QED
  BY <1>2, WorkingOnInputs, ReturnInv

(* A step to the next stage of the same input leaves most of it as it was. *)
LEMMA NextStageInv ==
  ASSUME IInv, pc \in {"open", "scan"}, pc' \in {"scan", "parse"},
         i < Len(argv), before[argv[i]] # Absent, input' = before[argv[i]],
         pc' = "parse" => input'.scans,
         UNCHANGED <<files, readonly, runs, argv, i, roots, code, stream, exit, before>>
  PROVE  IInv'
<1> USE WorkingOnInputs DEF IInv
<1>1. TypeOK'
  <2>1. input' \in Text
    OBVIOUS
  <2> QED
    BY <2>1 DEF TypeOK
<1>2. Accepted'
  BY DEF Accepted, Working, Output
<1>3. Progress'
  BY DEF Progress, Working, Flaw
<1>4. Reading' /\ Untouched' /\ Generated'
  BY DEF Reading, Untouched, Generated
<1>5. OnlyTheOutputIsTouched' /\ ExitCodeIsFirstFailure' /\ OutputIsProgram'
  BY DEF OnlyTheOutputIsTouched, ExitCodeIsFirstFailure, OutputIsProgram, Returned
<1> QED
  BY <1>1, <1>2, <1>3, <1>4, <1>5

LEMMA OpenInv ==
  ASSUME IInv, Open
  PROVE  IInv'
<1>1. pc = "open" /\ i < Len(argv) /\ files = before /\ input \in Text
  BY WorkingOnInputs DEF Open, IInv, TypeOK
<1>2. CASE files[argv[i]] = Absent
  <2>1. Flaw(before[argv[i]]) = 2
    BY <1>1, <1>2 DEF Flaw
  <2> QED
    BY <1>1, <1>2, <2>1, GiveUpInv DEF Open
<1>3. CASE files[argv[i]] # Absent
  BY <1>1, <1>3, NextStageInv DEF Open
<1> QED
  BY <1>2, <1>3

LEMMA ScanInv ==
  ASSUME IInv, Scan
  PROVE  IInv'
<1>1. /\ pc = "scan" /\ i < Len(argv) /\ before[argv[i]] # Absent /\ input = before[argv[i]]
      /\ input \in Text
  BY DEF Scan, IInv, TypeOK, Reading
<1>2. CASE ~input.scans
  <2>1. Flaw(before[argv[i]]) = 3
    BY <1>1, <1>2 DEF Flaw
  <2> QED
    BY <1>1, <1>2, <2>1, GiveUpInv DEF Scan
<1>3. CASE input.scans
  BY <1>1, <1>3, NextStageInv DEF Scan
<1> QED
  BY <1>2, <1>3

LEMMA ParseInv ==
  ASSUME IInv, Parse
  PROVE  IInv'
<1>1. /\ pc = "parse" /\ i < Len(argv) /\ before[argv[i]] # Absent /\ input = before[argv[i]]
      /\ input.scans /\ input \in Text
  BY DEF Parse, IInv, TypeOK, Reading
<1>2. CASE ~input.parses
  <2>1. Flaw(before[argv[i]]) = 4
    BY <1>1, <1>2 DEF Flaw
  <2> QED
    BY <1>1, <1>2, <2>1, GiveUpInv DEF Parse
<1>3. CASE input.parses
  <2>1. /\ pc' = "open" /\ i' = i + 1 /\ roots' = Append(roots, input.functions)
        /\ UNCHANGED <<files, readonly, runs, argv, input, code, stream, exit, before>>
    BY <1>3 DEF Parse
  <2>2. i \in Nat /\ Len(argv) \in Nat /\ argv # <<>> /\ Output \notin Sources /\ files = before
    BY <1>1, WorkingOnInputs
  <2>3. TypeOK'
    <3>1. roots' \in Seq(Seq(Function))
      BY <1>1, <2>1, TextFields DEF IInv, TypeOK
    <3>2. i' \in 1..Len(argv)
      BY <1>1, <2>1, <2>2
    <3> QED
      BY <2>1, <2>2, <3>1, <3>2 DEF IInv, TypeOK
  <2>4. Progress'
    <3>1. roots = [n \in 1..(i - 1) |-> before[argv[n]].functions]
      BY <1>1 DEF IInv, Progress, Working
    <3>2. \A n \in 1..(i - 1) : Flaw(before[argv[n]]) = 0
      BY <1>1 DEF IInv, Progress, Working
    <3>3. i \in Nat \ {0}
      BY <1>1, WorkingOnInputs
    <3>4. roots' = [n \in 1..i |-> before[argv[n]].functions]
      BY <1>1, <2>1, <3>1, <3>3
    <3>5. Flaw(before[argv[i]]) = 0
      BY <1>1, <1>3 DEF Flaw
    <3>6. \A n \in 1..i : Flaw(before[argv[n]]) = 0
      BY <3>2, <3>3, <3>5
    <3>7. i' - 1 = i
      BY <2>1, <2>2
    <3> QED
      BY <2>1, <3>4, <3>6, <3>7 DEF Progress, Flaw
  <2>5. Accepted'
    BY <2>1, <2>2 DEF Accepted, Output
  <2>6. Reading' /\ Untouched' /\ Generated'
    BY <1>1, <2>1, WorkingOnInputs DEF Reading, Untouched, Generated
  <2>7. OnlyTheOutputIsTouched' /\ ExitCodeIsFirstFailure' /\ OutputIsProgram'
    BY <2>1, <2>2 DEF OnlyTheOutputIsTouched, ExitCodeIsFirstFailure, OutputIsProgram, Returned
  <2> QED
    BY <2>3, <2>4, <2>5, <2>6, <2>7 DEF IInv
<1> QED
  BY <1>2, <1>3

(* At the last argument every input has been parsed. *)
LEMMA AllParsed ==
  ASSUME IInv, pc = "open", i = Len(argv)
  PROVE  /\ roots = Linked /\ roots \in Seq(Seq(Function))
         /\ \A n \in Inputs : Flaw(before[argv[n]]) = 0
         /\ Carried(files) = Carried(before)
<1>1. files = before
  BY WorkingOnInputs
<1> QED
  BY <1>1 DEF IInv, Progress, Working, Linked, Inputs, Carried, TypeOK

LEMMA GenerateInv ==
  ASSUME IInv, Generate
  PROVE  IInv'
<1>1. /\ pc = "open" /\ i = Len(argv) /\ files = before /\ stream = "closed" /\ code = NoText
      /\ argv # <<>> /\ Output \notin Sources /\ input' \in Text
  BY WorkingOnInputs DEF Generate, IInv, TypeOK
<1>2. CASE Places(roots) # {} /\ Refused(roots)
  <2>1. IsVerdict(5)
    BY <1>1, <1>2, AllParsed DEF IsVerdict
  <2>2. Return(5) /\ UNCHANGED <<files, readonly, runs, argv, i, roots, code, stream, before>>
    BY <1>2 DEF Generate
  <2> QED
    BY <1>1, <2>1, <2>2, ReturnInv
<1>3. CASE Places(roots) = {} \/ ~Refused(roots)
  <2>1. /\ pc' = "write" /\ code' = Compiled
        /\ UNCHANGED <<files, readonly, runs, argv, i, input, roots, stream, exit, before>>
    BY <1>1, <1>3, AllParsed DEF Generate, Compiled
  <2>2. IsVerdict(0)
    BY <1>1, <1>3, AllParsed DEF IsVerdict
  <2>3. code' \in Text
    <3>1. Carried(before) \in SUBSET Runtime
      BY DEF Carried
    <3> QED
      BY <1>1, <2>1, <3>1, AllParsed, NoTextIsText, ProgramIsText DEF Compiled
  <2>4. TypeOK'
    BY <2>1, <2>3 DEF IInv, TypeOK
  <2>5. Accepted'
    BY <1>1, <2>1 DEF Accepted, Output
  <2>6. Progress'
    BY <1>1, <2>1 DEF IInv, Progress, Working, Flaw
  <2>7. Generated'
    BY <2>1, <2>2, VerdictKept DEF Generated
  <2>8. Reading' /\ Untouched'
    BY <1>1, <2>1 DEF Reading, Untouched
  <2>9. OnlyTheOutputIsTouched' /\ ExitCodeIsFirstFailure' /\ OutputIsProgram'
    BY <1>1, <2>1 DEF OnlyTheOutputIsTouched, ExitCodeIsFirstFailure, OutputIsProgram, Returned
  <2> QED
    BY <2>4, <2>5, <2>6, <2>7, <2>8, <2>9 DEF IInv
<1> QED
  BY <1>2, <1>3

(* What main knows when it comes to the output. *)
LEMMA AtTheOutput ==
  ASSUME IInv, pc = "write"
  PROVE  /\ argv # <<>> /\ Output \notin Sources /\ Output \in Files
         /\ IsVerdict(0) /\ code = Compiled
  BY ArgumentsAreFiles DEF IInv, Accepted, Working, Generated

(* The output may be touched now. *)
LEMMA TouchedOutput ==
  ASSUME IInv, pc = "write", NEW t \in Text, UNCHANGED <<argv, before>>,
         files' = files \/ files' = [files EXCEPT ![Output] = t]
  PROVE  OnlyTheOutputIsTouched' /\ files' \in [Files -> Text \cup {Absent}]
<1>1. files' \in [Files -> Text \cup {Absent}]
  BY DEF IInv, TypeOK
<1>2. IsVerdict(0)' /\ Output' = Output /\ argv' # <<>>
  BY AtTheOutput, VerdictKept
<1>3. \A f \in Files : f # Output => files'[f] = files[f]
  BY AtTheOutput DEF IInv, TypeOK
<1> QED
  BY <1>1, <1>2, <1>3 DEF IInv, OnlyTheOutputIsTouched

LEMMA OpenOutputInv ==
  ASSUME IInv, OpenOutput
  PROVE  IInv'
<1>1. /\ pc = "write" /\ UNCHANGED <<readonly, runs, argv, pc, i, input, roots, code, exit, before>>
      /\ stream' \in {"good", "bad"}
      /\ files' = files \/ files' = [files EXCEPT ![Output] = NoText]
  BY DEF OpenOutput
<1>2. OnlyTheOutputIsTouched' /\ files' \in [Files -> Text \cup {Absent}]
  BY <1>1, TouchedOutput, NoTextIsText
<1>3. TypeOK'
  BY <1>1, <1>2 DEF IInv, TypeOK
<1>4. Accepted'
  BY <1>1 DEF IInv, Accepted, Working, Output
<1>5. Progress'
  BY <1>1 DEF IInv, Progress, Working, Flaw
<1>6. Generated'
  BY <1>1, AtTheOutput, VerdictKept DEF Generated
<1>7. Reading' /\ Untouched' /\ ExitCodeIsFirstFailure' /\ OutputIsProgram'
  BY <1>1 DEF Reading, Untouched, ExitCodeIsFirstFailure, OutputIsProgram, Returned
<1> QED
  BY <1>2, <1>3, <1>4, <1>5, <1>6, <1>7 DEF IInv

LEMMA WriteInv ==
  ASSUME IInv, Write
  PROVE  IInv'
<1>1. /\ pc = "write" /\ pc' = "shell" /\ exit' = 0
      /\ UNCHANGED <<readonly, runs, argv, i, input, roots, code, before>>
  BY DEF Write, Return
<1>2. \/ stream' = "good" /\ files' = [files EXCEPT ![Output] = code]
      \/ stream' = "bad" /\ \E t \in {NoText, Partial} :
                               files' = files \/ files' = [files EXCEPT ![Output] = t]
  BY DEF Write
<1>3. OnlyTheOutputIsTouched' /\ files' \in [Files -> Text \cup {Absent}]
  <2>1. code \in Text
    BY DEF IInv, TypeOK
  <2>2. \E t \in Text : files' = files \/ files' = [files EXCEPT ![Output] = t]
    BY <1>2, <2>1, NoTextIsText, PartialIsText
  <2> QED
    BY <1>1, <2>2, TouchedOutput
<1>4. TypeOK'
  BY <1>1, <1>2, <1>3 DEF IInv, TypeOK
<1>5. ExitCodeIsFirstFailure'
  BY <1>1, AtTheOutput, VerdictKept DEF ExitCodeIsFirstFailure
<1>6. OutputIsProgram'
  <2>1. stream' = "good" => files'[Output] = Compiled
    BY <1>1, <1>2, AtTheOutput DEF IInv, TypeOK
  <2> QED
    BY <1>1, <2>1, VerdictKept DEF OutputIsProgram
<1>7. Accepted' /\ Progress' /\ Reading' /\ Untouched' /\ Generated'
  BY <1>1 DEF Accepted, Progress, Reading, Untouched, Generated, Working
<1> QED
  BY <1>3, <1>4, <1>5, <1>6, <1>7 DEF IInv

LEMMA StutterInv ==
  ASSUME IInv, UNCHANGED vars
  PROVE  IInv'
<1>1. UNCHANGED <<argv, before>>
  BY DEF vars
<1>2. \A e : IsVerdict(e) <=> IsVerdict(e)'
  BY <1>1, VerdictKept
<1>3. Output' = Output /\ Compiled' = Compiled
  BY <1>1, VerdictKept
<1>4. TypeOK' /\ Accepted' /\ Reading' /\ Untouched'
  BY <1>3 DEF vars, IInv, TypeOK, Accepted, Reading, Untouched, Working
<1>5. Progress'
  BY DEF vars, IInv, Progress, Working, Flaw
<1>6. Generated' /\ ExitCodeIsFirstFailure' /\ OnlyTheOutputIsTouched' /\ OutputIsProgram'
  BY <1>2, <1>3 DEF vars, IInv, Generated, ExitCodeIsFirstFailure, OnlyTheOutputIsTouched,
     OutputIsProgram, Returned
<1> QED
  BY <1>4, <1>5, <1>6 DEF IInv

(* The invariant is inductive, one action after the other. *)
LEMMA NextInv == IInv /\ [Next]_vars => IInv'
<1> SUFFICES ASSUME IInv, [Next]_vars PROVE IInv'
  OBVIOUS
<1>1. CASE \E a \in Arguments : Invoke(a)
  BY <1>1, InvokeInv
<1>2. CASE Start
  BY <1>2, StartInv
<1>3. CASE Open
  BY <1>3, OpenInv
<1>4. CASE Scan
  BY <1>4, ScanInv
<1>5. CASE Parse
  BY <1>5, ParseInv
<1>6. CASE Generate
  BY <1>6, GenerateInv
<1>7. CASE OpenOutput
  BY <1>7, OpenOutputInv
<1>8. CASE Write
  BY <1>8, WriteInv
<1>9. CASE UNCHANGED vars
  BY <1>9, StutterInv
<1> QED
  BY <1>1, <1>2, <1>3, <1>4, <1>5, <1>6, <1>7, <1>8, <1>9 DEF Next, Step

LEMMA Invariant == Spec => []IInv
  BY InitInv, NextInv, PTL DEF Spec

(***************************************************************************)
(* The theorems.                                                           *)
(***************************************************************************)

(* The files, the arguments and what main keeps have their types in every   *)
(* reachable state, and the loop never looks at the output as an input.     *)
THEOREM TypeCorrect == Spec => []TypeOK
<1>1. IInv => TypeOK
  BY DEF IInv
<1> QED
  BY <1>1, Invariant, PTL

(* The exit code of every invocation with arguments whose output has not    *)
(* failed is that of the first stage that fails, from the check of the      *)
(* output's name to the generation, whatever the files and the arguments,   *)
(* and whatever ran before.                                                 *)
THEOREM ExitCodesRight == Spec => []ExitCodeIsFirstFailure
<1>1. IInv => ExitCodeIsFirstFailure
  BY DEF IInv
<1> QED
  BY <1>1, Invariant, PTL

(* No invocation changes a file but its output, and it changes that only    *)
(* when all stages up to the generation have succeeded.                     *)
THEOREM OthersUntouched == Spec => []OnlyTheOutputIsTouched
<1>1. IInv => OnlyTheOutputIsTouched
  BY DEF IInv
<1> QED
  BY <1>1, Invariant, PTL

(* Where the stream has not failed, the output is the program of the files  *)
(* as they were when the invocation began, its own output among them.       *)
THEOREM OutputsRight == Spec => []OutputIsProgram
<1>1. IInv => OutputIsProgram
  BY DEF IInv
<1> QED
  BY <1>1, Invariant, PTL
=============================================================================
