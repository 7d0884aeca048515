------------------------------ MODULE CompileProofs ------------------------------
(***************************************************************************)
(* What a compilation and an installation leave behind, for every set of    *)
(* options, versions, chunks and plans: the output of the driver, the       *)
(* object file of the wrapper, and the compiler the wrapper took the place  *)
(* of.  And what the backend keeps while the frontend asks: the symbols and *)
(* objects of the module, the scopes of the walk of a body, and the         *)
(* assertions on both.                                                      *)
(***************************************************************************)
EXTENDS Compile, SequenceTheorems, FiniteSetTheorems, Recursion, TLAPS

-----------------------------------------------------------------------------
(* The steps of Next, as the proofs distinguish them.                       *)

\* A step of the backend leaves the files and the wrapper alone.
NoFileStep == UNCHANGED <<driverVars, exportVars, wrapperVars, installVars>>

\* Every step is one of the driver, of the wrapper, of the installer, or concerns none
\* of them.
LEMMA StepKinds ==
  ASSUME [Next]_vars
  PROVE  \/ NoFileStep
         \/ DriverStep /\ UNCHANGED <<wrapperVars, installVars>>
         \/ WrapperStep /\ UNCHANGED installVars
         \/ /\ InstallStep /\ wrapper # "exec"
            /\ UNCHANGED <<driverVars, exportVars, wrapperVars>>
PROOF
  <1>1. CASE BackendStep
    BY <1>1 DEF BackendStep, NoFileStep
  <1>2. CASE DriverPart
    BY <1>2 DEF DriverPart
  <1>3. CASE WrapperPart
    BY <1>3 DEF WrapperPart
  <1>4. CASE InstallPart
    BY <1>4 DEF InstallPart
  <1>5. CASE UNCHANGED vars
    BY <1>5 DEF vars, NoFileStep
  <1> QED
    BY <1>1, <1>2, <1>3, <1>4, <1>5 DEF Next

-----------------------------------------------------------------------------
(* The compiler that is moved aside.                                        *)

\* Where the compiler is, by the step of the installation that is next.  A failed
\* installation is in the state of the step that failed, of which only this is kept: a
\* script is called gccgo only when the compiler is gccgo.real.
InstallInv ==
  /\ install \in {"idle", "move", "emit", "chmod", "copy", "copy_utils", "installed", "failed"}
  /\ install \in {"idle", "move"} => gccgo = "compiler" /\ gccgoReal = "none"
  /\ install \in {"emit", "chmod", "copy", "copy_utils", "installed"} => gccgoReal = "compiler"
  /\ install \in {"copy_utils", "installed"} => "gollvm-wrap.py" \in copied
  /\ gccgo = "compiler" \/ gccgoReal = "compiler"
  /\ gccgo = "shim" => gccgoReal = "compiler"
  /\ wrapper = "exec" => gccgoReal = "compiler"

\* Every step keeps it.
LEMMA InstallInvStep ==
  ASSUME ~RetryAfterFailure, InstallInv, [Next]_vars
  PROVE  InstallInv'
PROOF
  <1>1. CASE NoFileStep \/ (DriverStep /\ UNCHANGED <<wrapperVars, installVars>>)
    BY <1>1 DEF NoFileStep, InstallInv, wrapperVars, installVars
  <1>2. CASE WrapperStep /\ UNCHANGED installVars
    <2>1. UNCHANGED <<install, gccgo, gccgoReal, copied>>
      BY <1>2 DEF installVars
    <2>2. wrapper' = "exec" => gccgoReal = "compiler"
      BY <1>2 DEF WrapperStep, PerformCompile, PerformNoOutput, AfterGoparse, RunAssembler,
         ExecReal, Edit, Callable, InstallInv
    <2> QED
      BY <2>1, <2>2 DEF InstallInv
  <1>3. CASE InstallStep /\ wrapper # "exec" /\ UNCHANGED <<driverVars, exportVars, wrapperVars>>
    <2> wrapper' # "exec"
      BY <1>3 DEF wrapperVars
    <2>1. CASE CheckInstalled
      <3>1. install \in {"idle", "installed"}
        BY <2>1 DEF CheckInstalled
      <3>2. CASE install = "idle"
        BY <2>1, <3>2 DEF CheckInstalled, InstallInv
      <3>3. CASE install = "installed"
        BY <2>1, <3>3 DEF CheckInstalled, InstallInv
      <3> QED
        BY <3>1, <3>2, <3>3
    <2>2. CASE InstallFails
      BY <2>2 DEF InstallFails, InstallInv
    <2>3. CASE MoveAside
      BY <2>3 DEF MoveAside, InstallInv
    <2>4. CASE EmitShim
      BY <2>4 DEF EmitShim, InstallInv
    <2>5. CASE ChangeMode
      BY <2>5 DEF ChangeMode, InstallInv
    <2>6. CASE CopyScripts
      BY <2>6 DEF CopyScripts, InstallInv
    <2> QED
      BY <1>3, <2>1, <2>2, <2>3, <2>4, <2>5, <2>6 DEF InstallStep
  <1> QED
    BY <1>1, <1>2, <1>3, StepKinds

\* An installation that is not tried again after a failure never loses the compiler,
\* whichever of its commands fails, and the wrapper only ever executes the compiler.
\* (With a retry the script that was emitted is moved over the compiler.)
THEOREM CompilerIsKept ==
  ASSUME ~RetryAfterFailure
  PROVE  Spec => []CompilerKept
PROOF
  <1>1. Init => InstallInv
    BY DEF Init, WrapperInit, InstallInv
  <1>2. InstallInv /\ [Next]_vars => InstallInv'
    BY InstallInvStep
  <1>3. InstallInv => CompilerKept
    BY DEF InstallInv, CompilerKept
  <1> QED
    BY <1>1, <1>2, <1>3, PTL DEF Spec
-----------------------------------------------------------------------------
(* The files of the driver and the wrapper.                                 *)

\* What main has seen to when it is in a phase.  An output file that is there while it
\* does not run is whole; before it is opened again, it is of an earlier run.
DriverInv ==
  /\ version \in Nat /\ out.version \in Nat /\ out.version <= version
  /\ phase \in {"idle", "options", "parse", "globals", "verify", "passes", "emitted"}
  /\ phase # "idle" => exitCode = Running
  /\ phase \in {"idle", "options"} => (out.there => out.whole)
  /\ phase = "options" => exportStarted = FALSE
  /\ phase \in {"passes", "emitted"} => ~errorsSeen /\ (options.verify => ~broken)
  /\ phase = "emitted" => out.there /\ out.version = version /\ (~hasError => out.whole)

\* The result of llvm-goparse the wrapper goes on with is of the present sources, and it
\* does not go on before main has returned.
WrapperInv ==
  /\ wrapper \in {"idle", "goparse", "as", "returned", "exec"}
  /\ wrapper # "goparse" => phase = "idle"
  /\ wrapper = "as" => exitCode = Success
  /\ wrapper \in {"goparse", "as"} /\ exitCode = Success =>
       out.there /\ out.version = version /\ ~errorsSeen /\ ~hasError

FilesInv == DriverInv /\ OutputOnlyWhenClean /\ WrapperInv /\ ObjectIsCurrent

\* Every step of main keeps it.
LEMMA DriverStepKeepsFiles ==
  ASSUME FilesInv, DriverStep, UNCHANGED <<wrapperVars, installVars>>
  PROVE  FilesInv'
PROOF
  <1> USE DEF Success, Failure, Aborted, Running
  <1> wrapper' = wrapper /\ wrapperRc' = wrapperRc /\ object' = object
    BY DEF wrapperVars
  <1>w. phase # "idle" => wrapper = "goparse"
    BY DEF FilesInv, WrapperInv
  <1>1. ASSUME NEW code \in {Success, Failure, Aborted}, Exit(code), phase # "idle",
               \/ phase = "options" /\ code = Failure
               \/ phase # "options" /\ code # Success
               \/ phase = "emitted" /\ code = Verdict
        PROVE  FilesInv'
    <2>1. /\ phase' = "idle" /\ exitCode' = code
          /\ UNCHANGED <<options, version, errorsSeen, hasError, broken, exportStarted>>
          /\ out' = IF phase = "options" \/ code = Success THEN out ELSE NoFile
      BY <1>1 DEF Exit, exportVars
    <2>2. CASE phase = "options" /\ code = Failure
      BY <1>1, <1>w, <2>1, <2>2 DEF FilesInv, DriverInv, OutputOnlyWhenClean, WrapperInv, ObjectIsCurrent
    <2>3. CASE phase # "options" /\ code # Success
      BY <1>1, <1>w, <2>1, <2>3 DEF FilesInv, DriverInv, OutputOnlyWhenClean, WrapperInv, ObjectIsCurrent, NoFile
    <2>4. CASE phase = "emitted" /\ code = Verdict /\ code = Success
      <3>1. ~hasError
        BY <2>4 DEF Verdict
      <3> QED
        BY <1>1, <1>w, <2>1, <2>4, <3>1 DEF FilesInv, DriverInv, OutputOnlyWhenClean, WrapperInv, ObjectIsCurrent
    <2> QED
      BY <1>1, <2>2, <2>3, <2>4
  <1>2. ASSUME NEW to \in {"globals", "verify", "passes"}, Proceed(to), phase # "idle",
               to = "passes" => ~errorsSeen /\ (options.verify => ~broken)
        PROVE  FilesInv'
    <2>1. /\ phase' = to
          /\ UNCHANGED <<options, version, errorsSeen, hasError, broken, out, exitCode, exportStarted>>
      BY <1>2 DEF Proceed, exportVars
    <2> QED
      BY <1>2, <1>w, <2>1 DEF FilesInv, DriverInv, OutputOnlyWhenClean, WrapperInv, ObjectIsCurrent
  <1>3. CASE ParseOptions
    <2>1. CASE options.target /\ options.level /\ options.output /\ options.canOpen
      <3>1. /\ phase = "options" /\ phase' = "parse"
            /\ out' = AsmFile(version, <<>>, FALSE)
            /\ UNCHANGED <<options, version, errorsSeen, hasError, broken, exitCode, exportStarted>>
        BY <1>3, <2>1 DEF ParseOptions, exportVars
      <3> QED
        BY <1>w, <3>1 DEF FilesInv, DriverInv, OutputOnlyWhenClean, WrapperInv, ObjectIsCurrent, AsmFile
    <2>2. CASE ~(options.target /\ options.level /\ options.output /\ options.canOpen)
      <3>1. phase = "options" /\ Exit(Failure)
        BY <1>3, <2>2 DEF ParseOptions
      <3> QED
        BY <1>1, <3>1
    <2> QED
      BY <2>1, <2>2
  <1>4. CASE GoBeError
    BY <1>4, <1>w DEF GoBeError, FilesInv, DriverInv, OutputOnlyWhenClean, WrapperInv, ObjectIsCurrent, exportVars
  <1>5. CASE GoBeFatalError
    BY <1>1, <1>5 DEF GoBeFatalError
  <1>6. CASE ExportChunk
    <2>1. phase = "parse" /\ UNCHANGED driverVars
      BY <1>6 DEF ExportChunk
    <2> QED
      BY <1>w, <2>1 DEF FilesInv, DriverInv, OutputOnlyWhenClean, WrapperInv, ObjectIsCurrent, driverVars
  <1>7. CASE EndParse
    BY <1>2, <1>7 DEF EndParse
  <1>8. CASE WriteGlobalDefinitions
    <2>1. /\ phase = "globals" /\ phase' = "verify"
          /\ UNCHANGED <<options, version, errorsSeen, hasError, broken, out, exitCode>>
      BY <1>8 DEF WriteGlobalDefinitions
    <2> QED
      BY <1>w, <2>1 DEF FilesInv, DriverInv, OutputOnlyWhenClean, WrapperInv, ObjectIsCurrent
  <1>9. CASE BreakModule
    BY <1>9, <1>w DEF BreakModule, FilesInv, DriverInv, OutputOnlyWhenClean, WrapperInv, ObjectIsCurrent, exportVars
  <1>10. CASE VerifyModule
    <2>1. phase = "verify"
      BY <1>10 DEF VerifyModule
    <2>2. CASE options.verify /\ ~errorsSeen /\ broken
      BY <1>1, <1>10, <2>1, <2>2 DEF VerifyModule
    <2>3. CASE ~(options.verify /\ ~errorsSeen /\ broken) /\ EndsHere
      BY <1>1, <1>10, <2>1, <2>3 DEF VerifyModule
    <2>4. CASE ~(options.verify /\ ~errorsSeen /\ broken) /\ ~EndsHere
      BY <1>2, <1>10, <2>1, <2>4 DEF VerifyModule, EndsHere
    <2> QED
      BY <2>2, <2>3, <2>4
  <1>11. CASE RunPasses
    <2>1. phase = "passes"
      BY <1>11 DEF RunPasses
    <2>2. CASE ~options.fileType
      BY <1>1, <1>11, <2>1, <2>2 DEF RunPasses
    <2>3. CASE options.fileType
      <3>1. PICK found \in BOOLEAN : hasError' = found /\ out' = AsmFile(version, asmText, ~found)
        BY <1>11, <2>3 DEF RunPasses
      <3>2. /\ phase' = "emitted"
            /\ UNCHANGED <<options, version, errorsSeen, broken, exitCode, exportStarted>>
        BY <1>11, <2>3 DEF RunPasses, exportVars
      <3>3. out'.there /\ out'.version = version
        BY <3>1 DEF AsmFile
      <3>4. ~hasError' => out'.whole
        BY <3>1 DEF AsmFile
      <3> QED
        BY <1>w, <2>1, <3>2, <3>3, <3>4
        DEF FilesInv, DriverInv, OutputOnlyWhenClean, WrapperInv, ObjectIsCurrent
    <2> QED
      BY <2>2, <2>3
  <1>12. CASE EndMain
    <2>1. phase = "emitted" /\ Exit(Verdict) /\ Verdict \in {Success, Failure}
      BY <1>12 DEF EndMain, Verdict
    <2> QED
      BY <1>1, <2>1
  <1> QED
    BY <1>3, <1>4, <1>5, <1>6, <1>7, <1>8, <1>9, <1>10, <1>11, <1>12 DEF DriverStep

\* Every step of the wrapper keeps it.
LEMMA WrapperStepKeepsFiles ==
  ASSUME FilesInv, WrapperStep
  PROVE  FilesInv'
PROOF
  <1> USE DEF Success, Failure, Aborted, Running
  <1> USE DEF FilesInv, DriverInv, OutputOnlyWhenClean, WrapperInv, ObjectIsCurrent
  <1>1. CASE PerformCompile
    <2>1. /\ phase = "idle" /\ phase' = "options" /\ wrapper' = "goparse"
          /\ exitCode' = Running /\ exportStarted' = FALSE
          /\ UNCHANGED <<version, out>>
      BY <1>1 DEF PerformCompile, StartDriver
    <2> QED
      BY <2>1
  <1>2. CASE PerformNoOutput
    BY <1>2 DEF PerformNoOutput, driverVars, exportVars
  <1>3. CASE AfterGoparse
    <2>1. phase = "idle" /\ wrapper = "goparse" /\ UNCHANGED <<driverVars, exportStarted>>
      BY <1>3 DEF AfterGoparse, exportVars
    <2>2. CASE GoesOn
      <3>1. wrapper' = "as" /\ exitCode = Success
        BY <1>3, <2>2 DEF AfterGoparse, GoesOn
      <3> QED
        BY <2>1, <3>1 DEF driverVars
    <2>3. CASE ~GoesOn
      <3>1. wrapper' = "returned" /\ wrapperRc' = Failure
        BY <1>3, <2>3 DEF AfterGoparse
      <3> QED
        BY <2>1, <3>1 DEF driverVars
    <2> QED
      BY <2>2, <2>3
  <1>4. CASE RunAssembler
    <2>1. /\ wrapper = "as" /\ wrapper' = "returned"
          /\ UNCHANGED <<driverVars, exportStarted>>
      BY <1>4 DEF RunAssembler, exportVars
    <2>2. PICK ok \in {out.there} \cup {FALSE} :
            /\ wrapperRc' = IF ok THEN Success ELSE Failure
            /\ object' = IF ok THEN ObjectOf(out) ELSE NoObject
      BY <1>4 DEF RunAssembler
    <2>3. wrapperRc' = Success => object'.there = TRUE /\ object'.version = out.version
      BY <2>2 DEF ObjectOf
    <2> QED
      BY <2>1, <2>3 DEF driverVars
  <1>5. CASE ExecReal
    BY <1>5 DEF ExecReal, driverVars, exportVars
  <1>6. CASE Edit
    <2>1. /\ phase = "idle" /\ wrapper' = "idle" /\ version' = version + 1
          /\ UNCHANGED <<phase, errorsSeen, hasError, broken, out, exitCode, exportStarted>>
      BY <1>6 DEF Edit, exportVars
    <2>2. version' \in Nat /\ out.version # version' /\ out.version <= version'
      BY <2>1
    <2> QED
      BY <2>1, <2>2
  <1> QED
    BY <1>1, <1>2, <1>3, <1>4, <1>5, <1>6 DEF WrapperStep

\* Every step keeps it.
LEMMA FilesInvStep ==
  ASSUME FilesInv, [Next]_vars
  PROVE  FilesInv'
PROOF
  <1>1. CASE UNCHANGED <<driverVars, exportVars, wrapperVars>>
    BY <1>1 DEF FilesInv, DriverInv, OutputOnlyWhenClean, WrapperInv, ObjectIsCurrent,
       driverVars, exportVars, wrapperVars
  <1>2. CASE DriverStep /\ UNCHANGED <<wrapperVars, installVars>>
    BY <1>2, DriverStepKeepsFiles
  <1>3. CASE WrapperStep
    BY <1>3, WrapperStepKeepsFiles
  <1> QED
    BY <1>1, <1>2, <1>3, StepKinds DEF NoFileStep

\* The invariant of the files holds throughout.
LEMMA FilesInvariant == Spec => []FilesInv
PROOF
  <1>1. Init => FilesInv
    BY DEF Init, DriverInit, ExportInit, WrapperInit, NoFile, NoObject, Running, Success,
       FilesInv, DriverInv, OutputOnlyWhenClean, WrapperInv, ObjectIsCurrent
  <1>2. FilesInv /\ [Next]_vars => FilesInv'
    BY FilesInvStep
  <1> QED
    BY <1>1, <1>2, PTL DEF Spec

\* Whichever way main takes out of a run, and whatever an earlier run has left, a file
\* that is there is whole, and a file of the present sources has no errors in it.
THEOREM OutputIsClean == Spec => []OutputOnlyWhenClean
PROOF
  <1>1. FilesInv => OutputOnlyWhenClean
    BY DEF FilesInv
  <1> QED
    BY <1>1, FilesInvariant, PTL

\* When the wrapper reports success, the object file is of the present sources, however
\* often they were changed and compiled, with and without success.
THEOREM ObjectStaysCurrent == Spec => []ObjectIsCurrent
PROOF
  <1>1. FilesInv => ObjectIsCurrent
    BY DEF FilesInv
  <1> QED
    BY <1>1, FilesInvariant, PTL
-----------------------------------------------------------------------------
(* Sequences that are put together piece by piece.                          *)

Joins(u, n, p) == u[0] = <<>> /\ \A i \in 1..n : u[i] = u[i - 1] \o p[i]

\* What is put together is a sequence, and the pieces can be put together.
LEMMA JoinExists ==
  ASSUME NEW n \in Nat, NEW S, NEW p, \A i \in 1..n : p[i] \in Seq(S)
  PROVE  \E u \in [0..n -> Seq(S)] : Joins(u, n, p)
<1> DEFINE T == Seq(S)
           step == [x \in (1..n) \X T |-> x[2] \o p[x[1]]]
<1>1. step \in [(1..n) \X T -> T]
  <2>1. \A i \in 1..n, s \in T : s \o p[i] \in T
    BY ConcatProperties
  <2>2. QED
    BY <2>1
<1>2. <<>> \in T
  OBVIOUS
<1>3. \A i \in 1..n, s \in T : step[<<i, s>>] = s \o p[i]
  OBVIOUS
<1> HIDE DEF step, T
<1>4. PICK f \in [0..n -> T] : f[0] = <<>> /\ \A i \in 1..n : f[i] = step[<<i, f[i - 1]>>]
  <2>1. \E f \in [0..n -> T] : Follows(f, n, <<>>, step)
    BY <1>1, <1>2, IntervalRecursion
  <2>2. QED
    BY <2>1 DEF Follows
<1>5. ASSUME NEW i \in 1..n PROVE f[i] = f[i - 1] \o p[i]
  <2>1. i - 1 \in 0..n
    OBVIOUS
  <2>2. f[i - 1] \in T
    BY <1>4, <2>1
  <2>3. QED
    BY <1>3, <1>4, <2>2
<1>6. QED
  BY <1>4, <1>5 DEF Joins, T

\* What is put together so far is a sequence.
LEMMA JoinIsSeq ==
  ASSUME NEW n \in Nat, NEW S, NEW p, \A i \in 1..n : p[i] \in Seq(S),
         NEW u, Joins(u, n, p)
  PROVE  \A i \in 0..n : u[i] \in Seq(S)
<1> DEFINE T == {i \in 0..n : u[i] \in Seq(S)}
<1>1. 0 \in T
  <2>1. 0 \in 0..n /\ <<>> \in Seq(S)
    OBVIOUS
  <2>2. QED
    BY <2>1 DEF Joins
<1>2. ASSUME NEW i \in 1..n, i - 1 \in T PROVE i \in T
  <2>1. i - 1 \in 0..n /\ u[i - 1] \in Seq(S) /\ p[i] \in Seq(S) /\ i \in 0..n
    BY <1>2
  <2>a. u[i] = u[i - 1] \o p[i]
    BY DEF Joins
  <2>2. u[i] \in Seq(S)
    BY <2>1, <2>a, ConcatProperties
  <2>3. QED
    BY <2>1, <2>2
<1> HIDE DEF T
<1>3. 0..n \subseteq T
  BY <1>1, <1>2, IntervalInduction
<1>4. QED
  BY <1>3 DEF T

\* What follows a sequence of length a.
LEMMA Follow ==
  ASSUME NEW S, NEW s \in Seq(S), NEW t \in Seq(S), NEW a, NEW b, a = Len(s), b = Len(t)
  PROVE  /\ a \in Nat /\ b \in Nat /\ Len(s \o t) = a + b
         /\ \A j \in 1..a : (s \o t)[j] = s[j]
         /\ \A j \in 1..b : (s \o t)[a + j] = t[j]
<1>1. a \in Nat /\ b \in Nat
  BY LenProperties
<1>2. /\ Len(s \o t) = Len(s) + Len(t)
      /\ \A i \in 1..Len(s) + Len(t) :
            (s \o t)[i] = IF i <= Len(s) THEN s[i] ELSE t[i - Len(s)]
  BY ConcatProperties
<1> DEFINE q == s \o t
<1> HIDE DEF q
<1>3. Len(q) = a + b /\ \A i \in 1..(a + b) : q[i] = IF i <= a THEN s[i] ELSE t[i - a]
  BY <1>2 DEF q
<1>4. ASSUME NEW j \in 1..a PROVE q[j] = s[j]
  <2>1. j \in 1..(a + b) /\ j <= a
    BY <1>1
  <2>2. QED
    BY <1>3, <2>1
<1>5. ASSUME NEW j \in 1..b PROVE q[a + j] = t[j]
  <2>1. a + j \in 1..(a + b) /\ ~(a + j <= a) /\ (a + j) - a = j
    BY <1>1
  <2>2. QED
    BY <1>3, <2>1
<1>6. QED
  BY <1>1, <1>3, <1>4, <1>5 DEF q

\* Where the pieces are.
PartAt(u, n, p, k) ==
  /\ Len(u[k - 1]) \in Nat /\ Len(p[k]) \in Nat
  /\ Len(u[k]) = Len(u[k - 1]) + Len(p[k])
  /\ Len(u[k]) <= Len(u[n])
  /\ \A j \in 1..Len(p[k]) : u[n][Len(u[k - 1]) + j] = p[k][j]

\* Where the pieces are.
LEMMA JoinParts ==
  ASSUME NEW n \in Nat, NEW S, NEW p, \A i \in 1..n : p[i] \in Seq(S),
         NEW u, Joins(u, n, p), NEW k \in 1..n
  PROVE  PartAt(u, n, p, k)
<1>1. \A i \in 0..n : u[i] \in Seq(S) /\ Len(u[i]) \in Nat
  BY JoinIsSeq, LenProperties
<1>2. /\ k - 1 \in 0..n /\ k \in 0..n /\ u[k - 1] \in Seq(S) /\ p[k] \in Seq(S)
      /\ u[k] = u[k - 1] \o p[k]
  <2>1. k - 1 \in 0..n /\ k \in 0..n
    OBVIOUS
  <2>2. QED
    BY <1>1, <2>1 DEF Joins
<1>3. PICK a, b : a = Len(u[k - 1]) /\ b = Len(p[k])
  OBVIOUS
<1>4. a \in Nat /\ b \in Nat /\ Len(u[k]) = a + b /\ \A j \in 1..b : u[k][a + j] = p[k][j]
  <2>1. PICK s, t : s = u[k - 1] /\ t = p[k]
    OBVIOUS
  <2>2. s \in Seq(S) /\ t \in Seq(S) /\ a = Len(s) /\ b = Len(t) /\ u[k] = s \o t
    BY <1>2, <1>3, <2>1
  <2>3. /\ a \in Nat /\ b \in Nat /\ Len(s \o t) = a + b
        /\ \A j \in 1..b : (s \o t)[a + j] = t[j]
    BY <2>2, Follow
  <2>4. QED
    BY <2>1, <2>2, <2>3
<1> DEFINE Has(m) == a + b <= Len(u[m]) /\ \A j \in 1..b : u[m][a + j] = p[k][j]
           T == {i \in Nat : k <= i /\ i <= n => Has(i)}
<1>5. Has(k)
  BY <1>4
<1>6. ASSUME NEW i \in Nat, i \in T PROVE i + 1 \in T
  <2> SUFFICES ASSUME k <= i + 1, i + 1 <= n PROVE Has(i + 1)
    OBVIOUS
  <2>1. CASE k = i + 1
    BY <1>5, <2>1
  <2>2. CASE k # i + 1
    <3>1. k <= i /\ i \in 0..n /\ i + 1 \in 1..n /\ (i + 1) - 1 = i
      BY <2>2
    <3>2. Has(i)
      BY <1>6, <3>1
    <3>3. PICK s, t : s = u[i] /\ t = p[i + 1]
      OBVIOUS
    <3>4. u[i + 1] = s \o t /\ s \in Seq(S) /\ t \in Seq(S)
      BY <1>1, <3>1, <3>3 DEF Joins
    <3>5. PICK c \in Nat, d \in Nat : c = Len(s) /\ d = Len(t)
      BY <3>4, LenProperties
    <3>6. Len(u[i + 1]) = c + d /\ \A j \in 1..c : u[i + 1][j] = s[j]
      BY <3>4, <3>5, Follow
    <3>7. a + b <= c /\ \A j \in 1..b : s[a + j] = p[k][j]
      BY <3>2, <3>3, <3>5
    <3> HIDE DEF Has
    <3>8. ASSUME NEW j \in 1..b PROVE u[i + 1][a + j] = p[k][j]
      <4>1. a + j \in 1..c
        BY <1>4, <3>5, <3>7
      <4>2. QED
        BY <3>6, <3>7, <4>1
    <3>9. a + b <= Len(u[i + 1])
      BY <1>4, <3>5, <3>6, <3>7
    <3>10. QED
      BY <3>8, <3>9 DEF Has
  <2>3. QED
    BY <2>1, <2>2
<1>7. 0 \in T
  OBVIOUS
<1>8. n \in T
  <2> HIDE DEF T
  <2>1. QED
    BY <1>6, <1>7, NatSetInduction
<1>9. Has(n)
  BY <1>8
<1>10. QED
  BY <1>3, <1>4, <1>9 DEF PartAt

\* A function that reads a sequence from a place on takes a piece and goes on behind it.
Reads(f, n, head, width, rest) ==
  f = [i \in 1..n |-> IF width[i] = 0 THEN rest ELSE head[i] \o f[i + width[i]]]

\* There is such a function, when every place leads on or ends the reading.
LEMMA ReaderExists ==
  ASSUME NEW n \in Nat, NEW head, NEW width, NEW rest,
         \A i \in 1..n : width[i] \in Nat /\ i + width[i] <= n
  PROVE  \E f : Reads(f, n, head, width, rest)
<1> DEFINE Step(f, i) == IF width[i] = 0 THEN rest ELSE head[i] \o f[i + width[i]]
           Ok(m, f) == f = [i \in (n + 1 - m)..n |-> Step(f, i)]
           D == {m \in Nat : \E f : Ok(m, f)}
<1>1. 0 \in D
  <2> DEFINE f == [i \in (n + 1 - 0)..n |-> rest]
  <2>1. f = [i \in (n + 1 - 0)..n |-> Step(f, i)]
    <3>1. (n + 1 - 0)..n = {}
      OBVIOUS
    <3>2. QED
      BY <3>1
  <2>2. QED
    BY <2>1
<1>2. ASSUME NEW m \in 1..n, m - 1 \in D PROVE m \in D
  <2>1. PICK f : Ok(m - 1, f)
    BY <1>2
  <2>2. PICK k : k = n + 1 - m
    OBVIOUS
  <2>3. k \in 1..n /\ n + 1 - (m - 1) = k + 1
    BY <2>2
  <2>4. f = [i \in (k + 1)..n |-> Step(f, i)]
    BY <2>1, <2>3
  <2> DEFINE g == [i \in k..n |-> IF i = k THEN Step(f, k) ELSE f[i]]
  <2>5. \A i \in k..n : i # k => i \in (k + 1)..n /\ g[i] = f[i]
    BY <2>3
  <2>6. ASSUME NEW i \in k..n PROVE g[i] = Step(g, i)
    <3>1. g[i] = Step(f, i)
      <4>1. CASE i = k
        BY <4>1
      <4>2. CASE i # k
        <5>1. i \in (k + 1)..n /\ g[i] = f[i]
          BY <2>5, <4>2
        <5> HIDE DEF g, Step
        <5>2. f[i] = Step(f, i)
          BY <2>4, <5>1
        <5>3. QED
          BY <5>1, <5>2
      <4>3. QED
        BY <4>1, <4>2
    <3>2. Step(f, i) = Step(g, i)
      <4>1. CASE width[i] = 0
        BY <4>1
      <4>2. CASE width[i] # 0
        <5>1. i \in 1..n /\ width[i] \in Nat /\ i + width[i] <= n
          BY <2>3
        <5>2. i + width[i] \in k..n /\ i + width[i] # k
          BY <2>3, <4>2, <5>1
        <5>3. g[i + width[i]] = f[i + width[i]]
          BY <2>5, <5>2
        <5> HIDE DEF g
        <5>4. QED
          BY <4>2, <5>3
      <4>3. QED
        BY <4>1, <4>2
    <3>3. QED
      BY <3>1, <3>2
  <2>7. g = [i \in k..n |-> g[i]]
    OBVIOUS
  <2> HIDE DEF g
  <2>8. g = [i \in k..n |-> Step(g, i)]
    <3> HIDE DEF Step
    <3>1. QED
      BY <2>6, <2>7
  <2> HIDE DEF Step
  <2>9. Ok(m, g)
    BY <2>2, <2>8
  <2>a. m \in Nat
    OBVIOUS
  <2>10. QED
    BY <2>9, <2>a
<1> HIDE DEF Ok
<1>3. n \in 0..n /\ 0..n \subseteq D
  <2>1. n \in 0..n
    OBVIOUS
  <2> HIDE DEF D
  <2>2. 0..n \subseteq D
    BY <1>1, <1>2, IntervalInduction
  <2>3. QED
    BY <2>1, <2>2
<1>4. PICK f : Ok(n, f)
  BY <1>3
<1>5. n + 1 - n = 1
  OBVIOUS
<1>6. QED
  BY <1>4, <1>5 DEF Ok, Reads

-----------------------------------------------------------------------------
(* The assembler reads what the backend writes.                             *)

Characters == {"\\", "0", "n", "q", "7", "p"}

\* The character at a place, the octal digits from there on, what they denote.
CharAt(text, i) == IF i <= Len(text) THEN text[i] ELSE ""
DigitsAt(text, i) == IF CharAt(text, i) \notin Octal THEN 0
                     ELSE IF CharAt(text, i + 1) \notin Octal THEN 1
                     ELSE IF CharAt(text, i + 2) \notin Octal THEN 2 ELSE 3
NumberAt(text, i, n) == IF \A j \in i..(i + n - 1) : CharAt(text, j) = "0" THEN "nul" ELSE "other"

\* The byte that is read at a place, and the characters it takes.
Piece(byte, width) == [byte |-> byte, width |-> width]
PieceOf(c, d, n, number) ==
  CASE c = "p" -> Piece("plain", 1)
    [] c \in Octal -> Piece("digit", 1)
    [] c = "\\" /\ n > 0 -> Piece(number, n + 1)
    [] c = "\\" /\ d = "\\" -> Piece("backslash", 2)
    [] c = "\\" /\ d = "n" -> Piece("newline", 2)
    [] c = "\\" /\ d = "q" -> Piece("quote", 2)
    [] OTHER -> Piece("", 0)
PieceAt(text, i) ==
  LET n == DigitsAt(text, i + 1)
  IN PieceOf(CharAt(text, i), CharAt(text, i + 1), n, NumberAt(text, i + 1, n))

\* A character that is there is within the text.
LEMMA CharFits ==
  ASSUME NEW text, NEW i, CharAt(text, i) # ""
  PROVE  i <= Len(text)
BY DEF CharAt

\* So are the digits.
LEMMA DigitsFit ==
  ASSUME NEW text, NEW l \in Nat, l = Len(text), NEW i \in 1..l
  PROVE  DigitsAt(text, i) \in Nat /\ i + DigitsAt(text, i) <= l + 1
<1>1. \A j \in Nat : CharAt(text, j) \in Octal => j <= l
  <2>1. "" \notin Octal
    BY DEF Octal
  <2>2. QED
    BY <2>1 DEF CharAt
<1>2. PICK c, d, e : c = CharAt(text, i) /\ d = CharAt(text, i + 1) /\ e = CharAt(text, i + 2)
  OBVIOUS
<1>3. i \in Nat /\ i + 1 \in Nat /\ i + 2 \in Nat
  OBVIOUS
<1>4. /\ i <= l /\ (d \in Octal => i + 1 <= l) /\ (e \in Octal => i + 2 <= l)
  BY <1>1, <1>2, <1>3
<1>5. DigitsAt(text, i) = IF c \notin Octal THEN 0 ELSE IF d \notin Octal THEN 1
                          ELSE IF e \notin Octal THEN 2 ELSE 3
  BY <1>2 DEF DigitsAt
<1>6. QED
  BY <1>3, <1>4, <1>5

\* And what is read at a place.
LEMMA PieceFits ==
  ASSUME NEW text, Len(text) \in Nat, NEW i \in 1..(Len(text) + 1)
  PROVE  /\ PieceAt(text, i).width \in Nat
         /\ i + PieceAt(text, i).width <= Len(text) + 1
<1> DEFINE Fits(m) == m \in Nat /\ i + m <= Len(text) + 1
           P == PieceAt(text, i)
<1>1. PICK c, d, k, b : /\ c = CharAt(text, i) /\ d = CharAt(text, i + 1)
                        /\ k = DigitsAt(text, i + 1) /\ b = NumberAt(text, i + 1, k)
  OBVIOUS
<1>2. P = CASE c = "p" -> Piece("plain", 1)
            [] c \in Octal -> Piece("digit", 1)
            [] c = "\\" /\ k > 0 -> Piece(b, k + 1)
            [] c = "\\" /\ d = "\\" -> Piece("backslash", 2)
            [] c = "\\" /\ d = "n" -> Piece("newline", 2)
            [] c = "\\" /\ d = "q" -> Piece("quote", 2)
            [] OTHER -> Piece("", 0)
  BY <1>1 DEF PieceAt, PieceOf
<1>3. /\ c # "" => i <= Len(text)
      /\ d # "" => i + 1 <= Len(text)
  BY <1>1, CharFits
<1>4. /\ Piece("plain", 1).width = 1 /\ Piece("digit", 1).width = 1
      /\ Piece(b, k + 1).width = k + 1 /\ Piece("backslash", 2).width = 2
      /\ Piece("newline", 2).width = 2 /\ Piece("quote", 2).width = 2
      /\ Piece("", 0).width = 0
  BY DEF Piece
<1>5. PICK l \in Nat : l = Len(text)
  OBVIOUS
<1>6. i \in Nat /\ Fits(0) /\ (i <= Len(text) => Fits(1)) /\ (i + 1 <= Len(text) => Fits(2))
  BY <1>5
<1>7. d \in Octal => k \in Nat /\ Fits(k + 1)
  <2> SUFFICES ASSUME d \in Octal PROVE k \in Nat /\ Fits(k + 1)
    OBVIOUS
  <2>1. d # ""
    BY DEF Octal
  <2>2. i + 1 <= l
    BY <1>3, <1>5, <2>1
  <2>3. PICK j : j = i + 1
    OBVIOUS
  <2>4. j \in 1..l
    BY <1>5, <1>6, <2>2, <2>3
  <2>5. k \in Nat /\ j + k <= l + 1
    BY <1>1, <1>5, <2>3, <2>4, DigitsFit
  <2>6. QED
    BY <1>5, <1>6, <2>3, <2>5
<1>8. k # 0 => d \in Octal
  BY <1>1 DEF DigitsAt
<1>9. k = 0 \/ (k \in Nat /\ Fits(k + 1))
  BY <1>7, <1>8
<1> HIDE DEF P, Fits
<1>10. Fits(P.width)
  <2>1. CASE c = "p" \/ c \in Octal
    <3>1. (P = Piece("plain", 1) \/ P = Piece("digit", 1)) /\ c # ""
      BY <1>2, <2>1 DEF Octal
    <3>2. QED
      BY <1>3, <1>4, <1>6, <3>1
  <2>2. CASE c = "\\" /\ k > 0
    <3>3. k # 0
      BY <2>2
    <3>1. /\ c # "p" /\ c \notin Octal
          /\ d # "\\" /\ d # "n" /\ d # "q"
      BY <1>8, <2>2, <3>3 DEF Octal
    <3>2. P = Piece(b, k + 1)
      BY <1>2, <2>2, <3>1
    <3>4. QED
      BY <1>4, <1>9, <3>2, <3>3
  <2>3. CASE c = "\\" /\ ~(k > 0) /\ d \in {"\\", "n", "q"}
    <3>1. c # "p" /\ c \notin Octal /\ d # ""
      BY <2>3 DEF Octal
    <3>2. \/ P = Piece("backslash", 2) \/ P = Piece("newline", 2) \/ P = Piece("quote", 2)
      BY <1>2, <2>3, <3>1
    <3>3. QED
      BY <1>3, <1>4, <1>6, <3>1, <3>2
  <2>4. CASE /\ c # "p" /\ c \notin Octal /\ ~(c = "\\" /\ k > 0)
             /\ ~(c = "\\" /\ d \in {"\\", "n", "q"})
    <3>1. P = Piece("", 0)
      BY <1>2, <2>4
    <3>2. QED
      BY <1>4, <1>6, <3>1
  <2>5. QED
    BY <2>1, <2>2, <2>3, <2>4
<1>11. QED
  BY <1>10 DEF P, Fits

\* What is read from a place on: the byte there, and what is read behind it.
LEMMA ReadIs ==
  ASSUME NEW text, Len(text) \in Nat
  PROVE  \E f : /\ Read(text) = f[1]
                /\ \A i \in 1..(Len(text) + 1) :
                      f[i] = IF PieceAt(text, i).width = 0 THEN <<>>
                             ELSE <<PieceAt(text, i).byte>> \o f[i + PieceAt(text, i).width]
<1> DEFINE n == Len(text) + 1
           at(i) == IF i <= Len(text) THEN text[i] ELSE ""
           digits(i) == IF at(i) \notin Octal THEN 0
                        ELSE IF at(i + 1) \notin Octal THEN 1
                        ELSE IF at(i + 2) \notin Octal THEN 2 ELSE 3
           number(i, m) == IF \A j \in i..(i + m - 1) : at(j) = "0" THEN "nul" ELSE "other"
           Rec(f) == [i \in 1..(Len(text) + 1) |->
             CASE at(i) = "p" -> <<"plain">> \o f[i + 1]
               [] at(i) \in Octal -> <<"digit">> \o f[i + 1]
               [] at(i) = "\\" /\ digits(i + 1) > 0 ->
                    <<number(i + 1, digits(i + 1))>> \o f[i + 1 + digits(i + 1)]
               [] at(i) = "\\" /\ at(i + 1) = "\\" -> <<"backslash">> \o f[i + 2]
               [] at(i) = "\\" /\ at(i + 1) = "n" -> <<"newline">> \o f[i + 2]
               [] at(i) = "\\" /\ at(i + 1) = "q" -> <<"quote">> \o f[i + 2]
               [] OTHER -> <<>>]
           from == CHOOSE f : f = Rec(f)
           head == [i \in 1..n |-> <<PieceAt(text, i).byte>>]
           width == [i \in 1..n |-> PieceAt(text, i).width]
           Lin(f) == [i \in 1..n |-> IF width[i] = 0 THEN <<>> ELSE head[i] \o f[i + width[i]]]
<1>1. Read(text) = from[1]
  BY DEF Read
<1>2. ASSUME NEW f, NEW i \in 1..n PROVE Rec(f)[i] = Lin(f)[i]
  <2>1. n \in Nat
    OBVIOUS
  <2>2. PICK c, d, k, b : /\ c = CharAt(text, i) /\ d = CharAt(text, i + 1)
                          /\ k = DigitsAt(text, i + 1) /\ b = NumberAt(text, i + 1, k)
    OBVIOUS
  <2>3. /\ at(i) = c /\ at(i + 1) = d /\ digits(i + 1) = k /\ number(i + 1, digits(i + 1)) = b
    BY <2>2 DEF CharAt, DigitsAt, NumberAt
  <2> HIDE DEF at, digits, number
  <2>4. k \in {0, 1, 2, 3}
    BY <2>2 DEF DigitsAt
  <2>5. PieceAt(text, i) = CASE c = "p" -> Piece("plain", 1)
                             [] c \in Octal -> Piece("digit", 1)
                             [] c = "\\" /\ k > 0 -> Piece(b, k + 1)
                             [] c = "\\" /\ d = "\\" -> Piece("backslash", 2)
                             [] c = "\\" /\ d = "n" -> Piece("newline", 2)
                             [] c = "\\" /\ d = "q" -> Piece("quote", 2)
                             [] OTHER -> Piece("", 0)
    BY <2>2 DEF PieceAt, PieceOf
  <2>6. Rec(f)[i] = CASE c = "p" -> <<"plain">> \o f[i + 1]
                      [] c \in Octal -> <<"digit">> \o f[i + 1]
                      [] c = "\\" /\ k > 0 -> <<b>> \o f[i + 1 + k]
                      [] c = "\\" /\ d = "\\" -> <<"backslash">> \o f[i + 2]
                      [] c = "\\" /\ d = "n" -> <<"newline">> \o f[i + 2]
                      [] c = "\\" /\ d = "q" -> <<"quote">> \o f[i + 2]
                      [] OTHER -> <<>>
    BY <2>3
  <2>7. Lin(f)[i] = IF PieceAt(text, i).width = 0 THEN <<>>
                    ELSE <<PieceAt(text, i).byte>> \o f[i + PieceAt(text, i).width]
    OBVIOUS
  <2> HIDE DEF Rec, Lin
  <2> DEFINE Agree(v, p) == v = IF p.width = 0 THEN <<>> ELSE <<p.byte>> \o f[i + p.width]
  <2>8. /\ Agree(<<"plain">> \o f[i + 1], Piece("plain", 1))
        /\ Agree(<<"digit">> \o f[i + 1], Piece("digit", 1))
        /\ Agree(<<"backslash">> \o f[i + 2], Piece("backslash", 2))
        /\ Agree(<<"newline">> \o f[i + 2], Piece("newline", 2))
        /\ Agree(<<"quote">> \o f[i + 2], Piece("quote", 2))
        /\ Agree(<<>>, Piece("", 0))
    <3>1. \A e : Agree(<<e>> \o f[i + 1], Piece(e, 1))
      <4>1. \A e : Piece(e, 1).width = 1 /\ Piece(e, 1).byte = e
        BY DEF Piece
      <4>2. QED
        BY <4>1
    <3>2. \A e : Agree(<<e>> \o f[i + 2], Piece(e, 2))
      <4>1. \A e : Piece(e, 2).width = 2 /\ Piece(e, 2).byte = e
        BY DEF Piece
      <4>2. QED
        BY <4>1
    <3>3. Agree(<<>>, Piece("", 0))
      <4>1. Piece("", 0).width = 0
        BY DEF Piece
      <4>2. QED
        BY <4>1
    <3> HIDE DEF Agree
    <3>4. QED
      BY <3>1, <3>2, <3>3
  <2>9. Agree(<<b>> \o f[i + 1 + k], Piece(b, k + 1))
    <3>1. k + 1 # 0 /\ i + (k + 1) = i + 1 + k
      BY <2>4
    <3>2. QED
      BY <3>1 DEF Piece
  <2>10. Agree(Rec(f)[i], PieceAt(text, i))
    <3> HIDE DEF Agree
    <3>1. CASE c = "p"
      <4>1. Rec(f)[i] = <<"plain">> \o f[i + 1] /\ PieceAt(text, i) = Piece("plain", 1)
        BY <2>5, <2>6, <3>1 DEF Octal
      <4>2. QED
        BY <2>8, <4>1
    <3>2. CASE c \in Octal
      <4>1. Rec(f)[i] = <<"digit">> \o f[i + 1] /\ PieceAt(text, i) = Piece("digit", 1)
        BY <2>5, <2>6, <3>2 DEF Octal
      <4>2. QED
        BY <2>8, <4>1
    <3>3. CASE c = "\\" /\ k > 0
      <4>1. Rec(f)[i] = <<b>> \o f[i + 1 + k] /\ PieceAt(text, i) = Piece(b, k + 1)
        <5>1. d \in Octal
          BY <2>2, <3>3 DEF DigitsAt
        <5>3. c # "p" /\ c \notin Octal /\ d # "\\" /\ d # "n" /\ d # "q"
          BY <3>3, <5>1 DEF Octal
        <5>2. QED
          BY <2>5, <2>6, <3>3, <5>3
      <4>2. QED
        BY <2>9, <4>1
    <3>4. CASE c = "\\" /\ ~(k > 0) /\ d = "\\"
      <4>1. Rec(f)[i] = <<"backslash">> \o f[i + 2] /\ PieceAt(text, i) = Piece("backslash", 2)
        BY <2>5, <2>6, <3>4 DEF Octal
      <4>2. QED
        BY <2>8, <4>1
    <3>5. CASE c = "\\" /\ ~(k > 0) /\ d = "n"
      <4>1. Rec(f)[i] = <<"newline">> \o f[i + 2] /\ PieceAt(text, i) = Piece("newline", 2)
        BY <2>5, <2>6, <3>5 DEF Octal
      <4>2. QED
        BY <2>8, <4>1
    <3>6. CASE c = "\\" /\ ~(k > 0) /\ d = "q"
      <4>1. Rec(f)[i] = <<"quote">> \o f[i + 2] /\ PieceAt(text, i) = Piece("quote", 2)
        BY <2>5, <2>6, <3>6 DEF Octal
      <4>2. QED
        BY <2>8, <4>1
    <3>7. CASE /\ c # "p" /\ c \notin Octal /\ ~(c = "\\" /\ k > 0)
               /\ ~(c = "\\" /\ d = "\\") /\ ~(c = "\\" /\ d = "n") /\ ~(c = "\\" /\ d = "q")
      <4>1. Rec(f)[i] = <<>> /\ PieceAt(text, i) = Piece("", 0)
        BY <2>5, <2>6, <3>7
      <4>2. QED
        BY <2>8, <4>1
    <3>8. QED
      BY <3>1, <3>2, <3>3, <3>4, <3>5, <3>6, <3>7
  <2>11. QED
    BY <2>7, <2>10
<1>3. \A f : Rec(f) = Lin(f)
  <2>1. \A f : Rec(f) = [i \in 1..n |-> Rec(f)[i]] /\ Lin(f) = [i \in 1..n |-> Lin(f)[i]]
    OBVIOUS
  <2> HIDE DEF Rec, Lin, n
  <2>2. QED
    BY <1>2, <2>1
<1>4. \E f : f = Lin(f)
  <2>1. n \in Nat /\ \A i \in 1..n : width[i] \in Nat /\ i + width[i] <= n
    BY PieceFits
  <2> HIDE DEF n, width, head
  <2>a. PICK m, w, h : m = n /\ w = width /\ h = head
    OBVIOUS
  <2>b. m \in Nat /\ \A i \in 1..m : w[i] \in Nat /\ i + w[i] <= m
    BY <2>1, <2>a
  <2>c. \E f : Reads(f, m, h, w, <<>>)
    BY <2>b, ReaderExists
  <2>2. \E f : f = [i \in 1..n |-> IF width[i] = 0 THEN <<>> ELSE head[i] \o f[i + width[i]]]
    BY <2>c, <2>a DEF Reads
  <2>3. QED
    BY <2>2
<1>5. from = Lin(from)
  <2> HIDE DEF Rec, Lin
  <2>1. from = Rec(from)
    BY <1>3, <1>4
  <2>2. QED
    BY <1>3, <2>1
<1>6. \A i \in 1..n : from[i] = IF PieceAt(text, i).width = 0 THEN <<>>
                                 ELSE <<PieceAt(text, i).byte>> \o from[i + PieceAt(text, i).width]
  <2> DEFINE g == from
  <2> HIDE DEF g
  <2>1. g = Lin(g)
    BY <1>5 DEF g
  <2>2. \A i \in 1..n : g[i] = IF PieceAt(text, i).width = 0 THEN <<>>
                                 ELSE <<PieceAt(text, i).byte>> \o g[i + PieceAt(text, i).width]
    BY <2>1
  <2>3. QED
    BY <2>2 DEF g
<1>7. QED
  <2> HIDE DEF from
  <2>1. QED
    BY <1>1, <1>6

\* The text of a chunk is put together of the texts of its bytes.
Texts(chunk) == [i \in 1..Len(chunk) |-> Rewritten(chunk[i])]

\* The text of a byte.
LEMMA RewrittenIs ==
  ASSUME NEW byte \in Bytes
  PROVE  \/ byte = "backslash" /\ Rewritten(byte) = <<"\\", "\\">>
         \/ byte = "nul" /\ Rewritten(byte) = <<"\\", "0", "0", "0">>
         \/ byte = "newline" /\ Rewritten(byte) = <<"\\", "n">>
         \/ byte = "quote" /\ Rewritten(byte) = <<"\\", "q">>
         \/ byte = "digit" /\ Rewritten(byte) = <<"7">>
         \/ byte = "plain" /\ Rewritten(byte) = <<"p">>
BY DEF Bytes, Rewritten

\* It is a text, and not an empty one.
LEMMA RewrittenType ==
  ASSUME NEW byte \in Bytes
  PROVE  Rewritten(byte) \in Seq(Characters) /\ Rewritten(byte) # <<>>
<1>1. /\ <<"\\", "\\">> \in Seq(Characters) /\ <<"\\", "0", "0", "0">> \in Seq(Characters)
      /\ <<"\\", "n">> \in Seq(Characters) /\ <<"\\", "q">> \in Seq(Characters)
      /\ <<"7">> \in Seq(Characters) /\ <<"p">> \in Seq(Characters)
  BY DEF Characters
<1>2. \A a, b, c, d : <<a>> # <<>> /\ <<a, b>> # <<>> /\ <<a, b, c, d>> # <<>>
  OBVIOUS
<1>3. QED
  BY <1>1, <1>2, RewrittenIs

\* The text of a chunk is put together of those of its bytes.
LEMMA ProcessedIs ==
  ASSUME NEW chunk \in Seq(Bytes)
  PROVE  \E u : Joins(u, Len(chunk), Texts(chunk)) /\ Processed(chunk) = u[Len(chunk)]
<1>1. PICK n \in Nat : n = Len(chunk)
  BY LenProperties
<1>2. PICK p : p = Texts(chunk)
  OBVIOUS
<1>3. \A i \in 1..n : p[i] = Rewritten(chunk[i]) /\ p[i] \in Seq(Characters)
  <2>1. \A i \in 1..n : chunk[i] \in Bytes
    BY <1>1, ElementOfSeq
  <2>2. QED
    BY <1>1, <1>2, <2>1, RewrittenType DEF Texts
<1>4. PICK v \in [0..n -> Seq(Characters)] : Joins(v, n, p)
  BY <1>3, JoinExists
<1> DEFINE Rec(f) == [i \in 0..Len(chunk) |->
                        IF i = 0 THEN <<>> ELSE f[i - 1] \o Rewritten(chunk[i])]
           upTo == CHOOSE f : f = Rec(f)
<1>5. Processed(chunk) = upTo[n]
  BY <1>1 DEF Processed
<1>6. v = Rec(v)
  <2>1. v = [i \in 0..n |-> v[i]]
    BY <1>4
  <2>2. \A i \in 0..n : v[i] = IF i = 0 THEN <<>> ELSE v[i - 1] \o Rewritten(chunk[i])
    <3>1. \A i \in 0..n : i # 0 => i \in 1..n
      OBVIOUS
    <3>2. QED
      BY <1>3, <1>4, <3>1 DEF Joins
  <2>3. QED
    BY <1>1, <2>1, <2>2
<1>7. upTo = Rec(upTo)
  <2> HIDE DEF Rec
  <2>1. QED
    BY <1>6
<1>8. Joins(upTo, n, p)
  <2> DEFINE f == upTo
  <2> HIDE DEF f
  <2>1. f = Rec(f)
    BY <1>7 DEF f
  <2>2. f[0] = <<>>
    <3>1. 0 \in 0..n
      OBVIOUS
    <3>2. QED
      BY <1>1, <2>1, <3>1
  <2>3. \A i \in 1..n : f[i] = f[i - 1] \o p[i]
    <3>1. \A i \in 1..n : i \in 0..n /\ i # 0
      OBVIOUS
    <3>2. QED
      BY <1>1, <1>3, <2>1, <3>1
  <2>4. QED
    BY <2>2, <2>3 DEF f, Joins
<1> HIDE DEF upTo
<1>9. QED
  BY <1>1, <1>2, <1>5, <1>8

\* It is a text.
LEMMA ProcessedType ==
  ASSUME NEW chunk \in Seq(Bytes)
  PROVE  Processed(chunk) \in Seq(Characters)
<1>0. PICK n \in Nat : n = Len(chunk)
  BY LenProperties
<1>1. PICK p, u : /\ n = Len(chunk) /\ p = Texts(chunk)
                  /\ Joins(u, n, p) /\ Processed(chunk) = u[n]
  BY <1>0, ProcessedIs
<1>2. \A i \in 1..n : p[i] \in Seq(Characters)
  <2>1. \A i \in 1..n : chunk[i] \in Bytes
    BY <1>1, ElementOfSeq
  <2>2. QED
    BY <1>1, <2>1, RewrittenType DEF Texts
<1>3. n \in 0..n
  OBVIOUS
<1>4. QED
  BY <1>1, <1>2, <1>3, JoinIsSeq

\* What is read where the text of a byte is: the byte, whatever follows it.
LEMMA PieceOfByte ==
  ASSUME NEW text, NEW a \in Nat, NEW byte \in Bytes,
         a + Len(Rewritten(byte)) <= Len(text), Len(text) \in Nat,
         \A j \in 1..Len(Rewritten(byte)) : text[a + j] = Rewritten(byte)[j]
  PROVE  PieceAt(text, a + 1) = Piece(byte, Len(Rewritten(byte)))
<1>1. PICK r, l : r = Rewritten(byte) /\ l = Len(text)
  OBVIOUS
<1>2. \A j \in 1..Len(r) : CharAt(text, a + j) = r[j]
  <2>1. r \in Seq(Characters)
    BY <1>1, RewrittenType
  <2>2. PICK m \in Nat : m = Len(r)
    BY <2>1, LenProperties
  <2>3. \A j \in 1..m : a + j <= l
    BY <1>1, <2>2
  <2>4. QED
    BY <1>1, <2>2, <2>3 DEF CharAt
<1>3. (a + 1) + 1 = a + 2 /\ ((a + 1) + 1) + 1 = a + 3 /\ ((a + 1) + 1) + 2 = a + 4
  OBVIOUS
<1>4. CASE byte = "plain"
  <2>1. r = <<"p">>
    BY <1>1, <1>4, RewrittenIs
  <2>2. CharAt(text, a + 1) = "p" /\ Len(r) = 1
    BY <1>2, <2>1
  <2>3. PieceAt(text, a + 1) = Piece("plain", 1)
    BY <2>2 DEF PieceAt, PieceOf, Octal
  <2>4. QED
    BY <1>1, <1>4, <2>2, <2>3
<1>5. CASE byte = "digit"
  <2>1. r = <<"7">>
    BY <1>1, <1>5, RewrittenIs
  <2>2. CharAt(text, a + 1) = "7" /\ Len(r) = 1
    BY <1>2, <2>1
  <2>3. PieceAt(text, a + 1) = Piece("digit", 1)
    BY <2>2 DEF PieceAt, PieceOf, Octal
  <2>4. QED
    BY <1>1, <1>5, <2>2, <2>3
<1>6. CASE byte = "nul"
  <2>1. r = <<"\\", "0", "0", "0">>
    BY <1>1, <1>6, RewrittenIs
  <2>2. /\ CharAt(text, a + 1) = "\\" /\ CharAt(text, a + 2) = "0"
        /\ CharAt(text, a + 3) = "0" /\ CharAt(text, a + 4) = "0" /\ Len(r) = 4
    BY <1>2, <2>1
  <2>3. DigitsAt(text, a + 2) = 3
    <3>1. (a + 2) + 1 = a + 3 /\ (a + 2) + 2 = a + 4
      OBVIOUS
    <3>2. QED
      BY <2>2, <3>1 DEF DigitsAt, Octal
  <2>4. NumberAt(text, a + 2, 3) = "nul"
    <3>1. ASSUME NEW j \in (a + 2)..((a + 2) + 3 - 1) PROVE CharAt(text, j) = "0"
      <4>1. j = a + 2 \/ j = a + 3 \/ j = a + 4
        OBVIOUS
      <4>2. QED
        BY <2>2, <4>1
    <3>2. QED
      BY <3>1 DEF NumberAt
  <2>5. PieceAt(text, a + 1) = Piece("nul", 3 + 1)
    <3>1. PICK i, c, d, k, b : /\ i = a + 1 /\ c = "\\" /\ d = "0" /\ k = 3 /\ b = "nul"
      OBVIOUS
    <3>2. /\ c = CharAt(text, i) /\ d = CharAt(text, i + 1) /\ k = DigitsAt(text, i + 1)
          /\ b = NumberAt(text, i + 1, k)
      <4>1. i + 1 = a + 2
        BY <3>1
      <4>2. QED
        BY <2>2, <2>3, <2>4, <3>1, <4>1
    <3>3. PieceAt(text, i) = PieceOf(c, d, k, b)
      BY <3>2 DEF PieceAt
    <3>4. /\ c # "p" /\ c \notin Octal /\ k > 0
          /\ d # "\\" /\ d # "n" /\ d # "q"
      BY <3>1 DEF Octal
    <3>5. PieceAt(text, i) = Piece(b, k + 1)
      BY <3>1, <3>3, <3>4 DEF PieceOf
    <3>6. QED
      BY <3>1, <3>5
  <2>6. 3 + 1 = 4
    OBVIOUS
  <2>7. QED
    BY <1>1, <1>6, <2>2, <2>5, <2>6
<1>7. ASSUME NEW d, d \notin Octal, d \in {"\\", "n", "q"}, r = <<"\\", d>>
      PROVE  /\ PieceAt(text, a + 1) = IF d = "\\" THEN Piece("backslash", 2)
                                       ELSE IF d = "n" THEN Piece("newline", 2)
                                       ELSE Piece("quote", 2)
             /\ Len(r) = 2
  <2>1. CharAt(text, a + 1) = "\\" /\ CharAt(text, a + 2) = d /\ Len(r) = 2
    BY <1>2, <1>7
  <2>2. DigitsAt(text, a + 2) = 0
    BY <1>7, <2>1 DEF DigitsAt
  <2>3. PieceAt(text, a + 1) = IF d = "\\" THEN Piece("backslash", 2)
                               ELSE IF d = "n" THEN Piece("newline", 2) ELSE Piece("quote", 2)
    <3>1. PICK i, c, k, b : /\ i = a + 1 /\ c = "\\" /\ k = 0 /\ b = NumberAt(text, i + 1, k)
      OBVIOUS
    <3>2. c = CharAt(text, i) /\ d = CharAt(text, i + 1) /\ k = DigitsAt(text, i + 1)
      <4>1. i + 1 = a + 2
        BY <3>1
      <4>2. QED
        BY <2>1, <2>2, <3>1, <4>1
    <3>3. PieceAt(text, i) = PieceOf(c, d, k, b)
      BY <3>1, <3>2 DEF PieceAt
    <3>4. c # "p" /\ c \notin Octal /\ ~(k > 0)
      BY <3>1 DEF Octal
    <3>5. PieceAt(text, i) = IF d = "\\" THEN Piece("backslash", 2)
                             ELSE IF d = "n" THEN Piece("newline", 2) ELSE Piece("quote", 2)
      BY <1>7, <3>1, <3>3, <3>4 DEF PieceOf
    <3>6. QED
      BY <3>1, <3>5
  <2>4. QED
    BY <2>1, <2>3
<1>8. "\\" \notin Octal /\ "n" \notin Octal /\ "q" \notin Octal
  BY DEF Octal
<1>9. CASE byte \in {"backslash", "newline", "quote"}
  <2>1. \/ byte = "backslash" /\ r = <<"\\", "\\">>
        \/ byte = "newline" /\ r = <<"\\", "n">>
        \/ byte = "quote" /\ r = <<"\\", "q">>
    BY <1>1, <1>9, RewrittenIs
  <2>2. PieceAt(text, a + 1) = Piece(byte, 2) /\ Len(r) = 2
    BY <1>7, <1>8, <2>1
  <2>3. QED
    BY <1>1, <2>2
<1>10. QED
  BY <1>4, <1>5, <1>6, <1>9 DEF Bytes

\* The assembler reads the bytes of a chunk.
LEMMA ChunkReadsBack ==
  ASSUME NEW chunk \in Seq(Bytes)
  PROVE  Read(Processed(chunk)) = chunk
<1>0. PICK n \in Nat : n = Len(chunk)
  BY LenProperties
<1>1. PICK p, u : /\ n = Len(chunk) /\ p = Texts(chunk)
                  /\ Joins(u, n, p) /\ Processed(chunk) = u[n]
  BY <1>0, ProcessedIs
<1>2. PICK text : text = Processed(chunk)
  OBVIOUS
<1>3. \A i \in 1..n : chunk[i] \in Bytes /\ p[i] = Rewritten(chunk[i]) /\ p[i] \in Seq(Characters)
  <2>1. \A i \in 1..n : chunk[i] \in Bytes
    BY <1>1, ElementOfSeq
  <2>2. QED
    BY <1>1, <2>1, RewrittenType DEF Texts
<1>4. text = u[n] /\ Len(text) \in Nat
  BY <1>1, <1>2, ProcessedType, LenProperties
<1>5. PICK f : /\ Read(text) = f[1]
               /\ \A i \in 1..(Len(text) + 1) :
                      f[i] = IF PieceAt(text, i).width = 0 THEN <<>>
                             ELSE <<PieceAt(text, i).byte>> \o f[i + PieceAt(text, i).width]
  BY <1>4, ReadIs
<1> DEFINE T == {m \in 0..n : f[Len(u[n - m]) + 1] = SubSeq(chunk, n - m + 1, n)}
<1>6. 0 \in T
  <2>1. SubSeq(chunk, n - 0 + 1, n) = <<>>
    BY SubSeqEmpty
  <2>2. f[Len(text) + 1] = <<>>
    <3>1. PICK l \in Nat : l = Len(text)
      BY <1>4
    <3>2. PICK i : i = l + 1
      OBVIOUS
    <3>3. i \in 1..(l + 1) /\ ~(i <= l)
      BY <3>2
    <3>4. CharAt(text, i) = ""
      BY <3>1, <3>3 DEF CharAt
    <3>5. PieceAt(text, i) = Piece("", 0)
      <4>1. \A d, k, b : PieceOf("", d, k, b) = Piece("", 0)
        BY DEF PieceOf, Octal
      <4>2. QED
        BY <3>4, <4>1 DEF PieceAt
    <3>6. PieceAt(text, i).width = 0
      <4>1. Piece("", 0).width = 0
        BY DEF Piece
      <4>2. QED
        BY <3>5, <4>1
    <3>7. f[i] = <<>>
      BY <1>5, <3>1, <3>3, <3>6
    <3>8. QED
      BY <3>1, <3>2, <3>7
  <2>3. n - 0 = n /\ 0 \in 0..n
    OBVIOUS
  <2>4. QED
    BY <1>4, <2>1, <2>2, <2>3
<1>7. ASSUME NEW m \in 1..n, m - 1 \in T PROVE m \in T
  <2>1. PICK k : k = n - m + 1
    OBVIOUS
  <2>2. k \in 1..n /\ n - m = k - 1 /\ n - (m - 1) = k /\ m \in 0..n
    BY <2>1
  <2>3. f[Len(u[k]) + 1] = SubSeq(chunk, k + 1, n)
    BY <1>7, <2>2
  <2>4. PICK a, b : a = Len(u[k - 1]) /\ b = Len(p[k])
    OBVIOUS
  <2>5. /\ a \in Nat /\ b \in Nat /\ Len(u[k]) = a + b /\ a + b <= Len(text)
        /\ \A j \in 1..b : text[a + j] = p[k][j]
    <3>1. Joins(u, n, p) /\ \A i \in 1..n : p[i] \in Seq(Characters)
      BY <1>1, <1>3
    <3>2. PartAt(u, n, p, k)
      BY <2>2, <3>1, JoinParts
    <3>3. QED
      BY <1>4, <2>4, <3>2 DEF PartAt
  <2>6. PICK byte \in Bytes : byte = chunk[k] /\ p[k] = Rewritten(byte)
    BY <1>3, <2>2
  <2>7. PieceAt(text, a + 1) = Piece(byte, b)
    <3>1. Len(Rewritten(byte)) = b /\ \A j \in 1..b : text[a + j] = Rewritten(byte)[j]
      BY <2>4, <2>5, <2>6
    <3>2. /\ a + Len(Rewritten(byte)) <= Len(text)
          /\ \A j \in 1..Len(Rewritten(byte)) : text[a + j] = Rewritten(byte)[j]
      BY <2>5, <3>1
    <3>3. PieceAt(text, a + 1) = Piece(byte, Len(Rewritten(byte)))
      BY <1>4, <2>5, <3>2, PieceOfByte
    <3>4. QED
      BY <3>1, <3>3
  <2>8. b # 0
    <3>1. p[k] # <<>>
      BY <2>6, RewrittenType
    <3>2. QED
      BY <1>3, <2>2, <2>4, <3>1, EmptySeq
  <2>9. f[a + 1] = <<byte>> \o f[a + 1 + b]
    <3>1. a + 1 \in 1..(Len(text) + 1)
      <4>1. PICK l \in Nat : l = Len(text)
        BY <1>4
      <4>2. QED
        BY <2>5, <4>1
    <3>2. Piece(byte, b).width = b /\ Piece(byte, b).byte = byte
      BY DEF Piece
    <3>3. QED
      BY <1>5, <2>7, <2>8, <3>1, <3>2
  <2>10. a + 1 + b = Len(u[k]) + 1
    BY <2>5
  <2>11. SubSeq(chunk, k, n) = <<byte>> \o SubSeq(chunk, k + 1, n)
    <3>1. k \in 1..Len(chunk) /\ n \in k..Len(chunk)
      BY <1>1, <2>2
    <3>2. QED
      BY <2>6, <3>1, SubSeqRecursiveFirst
  <2>12. f[Len(u[k - 1]) + 1] = SubSeq(chunk, k, n)
    BY <2>3, <2>4, <2>9, <2>10, <2>11
  <2>13. n - m + 1 = k
    BY <2>1
  <2>14. QED
    BY <2>2, <2>12, <2>13
<1>8. n \in T
  <2> HIDE DEF T
  <2>1. 0..n \subseteq T /\ n \in 0..n
    BY <1>6, <1>7, IntervalInduction
  <2>2. QED
    BY <2>1
<1>9. f[1] = SubSeq(chunk, 1, n)
  <2>1. u[n - n] = <<>> /\ n - n + 1 = 1
    <3>1. n - n = 0
      OBVIOUS
    <3>2. QED
      BY <1>1, <3>1 DEF Joins
  <2>2. Len(u[n - n]) + 1 = 1
    BY <2>1
  <2>3. QED
    BY <1>8, <2>1, <2>2
<1>10. QED
  BY <1>1, <1>2, <1>5, <1>9, SubSeqFull

-----------------------------------------------------------------------------
(* The section that is assembled, and the files it is found in.             *)

Directive == [op : {"section", "ascii"}, text : {".go_export", ".text"} \cup Seq(Characters)]

\* The directives of a module for the chunks that were written.
IsTextOf(text, chunks, finalized) ==
  LET n == Len(chunks)
      m == IF n = 0 THEN 0 ELSE n + 1
  IN /\ text \in Seq(Directive)
     /\ Len(text) = IF finalized THEN m + 1 ELSE m
     /\ n # 0 => text[1] = Section(".go_export")
     /\ \A k \in 1..n : text[k + 1] = Ascii(Processed(chunks[k]))
     /\ finalized => text[m + 1] = Section(".text")

\* The functions of Assembled and Concatenated, written as the lemmas have them.
Current(text) ==
  LET current[i \in 0..Len(text)] ==
        IF i = 0 THEN ".text"
        ELSE IF text[i].op = "section" THEN text[i].text ELSE current[i - 1]
  IN current

Contributions(text) ==
  [i \in 1..Len(text) |-> IF text[i].op = "ascii" /\ Current(text)[i] = ".go_export"
                          THEN Read(text[i].text) ELSE <<>>]

\* The section that is current, directive by directive.
LEMMA SectionIs ==
  ASSUME NEW text, NEW l \in Nat, l = Len(text)
  PROVE  /\ Current(text)[0] = ".text"
         /\ \A i \in 1..l : Current(text)[i] = IF text[i].op = "section" THEN text[i].text
                                               ELSE Current(text)[i - 1]
<1> DEFINE Rec(f) == [i \in 0..Len(text) |->
                        IF i = 0 THEN ".text"
                        ELSE IF text[i].op = "section" THEN text[i].text ELSE f[i - 1]]
           current == CHOOSE f : f = Rec(f)
<1>1. Current(text) = current
  BY DEF Current
<1>2. PICK base, rooted, own, parent :
        /\ base = ".text" /\ rooted = {i \in 1..l : text[i].op = "section"}
        /\ own = [i \in 1..l |-> text[i].text] /\ parent = [i \in 1..l |-> i - 1]
  OBVIOUS
<1>3. \A i \in 1..l : parent[i] \in 0..(i - 1)
  BY <1>2
<1>4. PICK f : Inherited(f, l, base, rooted, own, parent)
  BY <1>3, TreeRecursion
<1>5. f = Rec(f)
  <2>1. f = [b \in 0..l |-> IF b = 0 THEN base ELSE IF b \in rooted THEN own[b] ELSE f[parent[b]]]
    BY <1>4 DEF Inherited
  <2>2. \A b \in 0..l :
          (IF b = 0 THEN base ELSE IF b \in rooted THEN own[b] ELSE f[parent[b]])
          = IF b = 0 THEN ".text" ELSE IF text[b].op = "section" THEN text[b].text ELSE f[b - 1]
    <3>1. \A b \in 0..l : b # 0 => b \in 1..l
      OBVIOUS
    <3>2. QED
      BY <1>2, <3>1
  <2>3. QED
    BY <2>1, <2>2
<1>6. current = Rec(current)
  <2> HIDE DEF Rec
  <2>1. QED
    BY <1>5
<1>7. PICK g : g = current
  OBVIOUS
<1>8. g = Rec(g)
  <2> HIDE DEF Rec
  <2>1. QED
    BY <1>6, <1>7
<1> HIDE DEF current
<1>9. 0 \in 0..l /\ \A i \in 1..l : i \in 0..l /\ i # 0
  OBVIOUS
<1>10. QED
  BY <1>1, <1>7, <1>8, <1>9

\* The section that is current where the export data is.
LEMMA CurrentInExport ==
  ASSUME NEW text, NEW chunks \in Seq(Seq(Bytes)), NEW finalized,
         IsTextOf(text, chunks, finalized), NEW n \in Nat \ {0}, n = Len(chunks)
  PROVE  \A k \in 1..(n + 1) : Current(text)[k] = ".go_export"
<1>1. PICK l \in Nat : l = Len(text)
  BY LenProperties DEF IsTextOf
<1>2. n + 1 <= l
  BY <1>1 DEF IsTextOf
<1>3. /\ text[1] = Section(".go_export")
      /\ \A k \in 1..n : text[k + 1] = Ascii(Processed(chunks[k]))
  BY DEF IsTextOf
<1>4. \A i \in 1..l : Current(text)[i] = IF text[i].op = "section" THEN text[i].text
                                         ELSE Current(text)[i - 1]
  BY <1>1, SectionIs
<1> DEFINE T == {k \in 0..n : Current(text)[k + 1] = ".go_export"}
<1>5. 0 \in T
  <2>1. Section(".go_export").op = "section" /\ Section(".go_export").text = ".go_export"
    BY DEF Section
  <2>2. 1 \in 1..l /\ 0 \in 0..n /\ 0 + 1 = 1
    BY <1>2
  <2>3. Current(text)[1] = ".go_export"
    BY <1>3, <1>4, <2>1, <2>2
  <2>4. QED
    BY <2>2, <2>3
<1>6. ASSUME NEW k \in 1..n, k - 1 \in T PROVE k \in T
  <2>1. k + 1 \in 1..l /\ (k + 1) - 1 = k /\ (k - 1) + 1 = k /\ k \in 0..n
    BY <1>2
  <2>2. Current(text)[k] = ".go_export"
    BY <1>6, <2>1
  <2>3. text[k + 1].op # "section"
    <3>1. \A t : Ascii(t).op # "section"
      BY DEF Ascii
    <3>2. QED
      BY <1>3, <3>1
  <2>4. Current(text)[k + 1] = ".go_export"
    BY <1>4, <2>1, <2>2, <2>3
  <2>5. QED
    BY <2>1, <2>4
<1> HIDE DEF T
<1>7. 0..n \subseteq T
  BY <1>5, <1>6, IntervalInduction
<1>8. \A k \in 1..(n + 1) : k - 1 \in 0..n /\ (k - 1) + 1 = k
  OBVIOUS
<1>9. QED
  BY <1>7, <1>8 DEF T

\* Chunks are put together one by one.
LEMMA ConcatenatedIs ==
  ASSUME NEW S, NEW chunks \in Seq(Seq(S))
  PROVE  \E u : Joins(u, Len(chunks), chunks) /\ Concatenated(chunks) = u[Len(chunks)]
<1>1. PICK n \in Nat : n = Len(chunks)
  BY LenProperties
<1>2. \A i \in 1..n : chunks[i] \in Seq(S)
  BY <1>1, ElementOfSeq
<1>3. PICK v \in [0..n -> Seq(S)] : Joins(v, n, chunks)
  BY <1>2, JoinExists
<1> DEFINE Rec(f) == [i \in 0..Len(chunks) |-> IF i = 0 THEN <<>> ELSE f[i - 1] \o chunks[i]]
           upTo == CHOOSE f : f = Rec(f)
<1>4. Concatenated(chunks) = upTo[n]
  BY <1>1 DEF Concatenated
<1>5. v = Rec(v)
  <2>1. v = [i \in 0..n |-> v[i]]
    BY <1>3
  <2>2. \A i \in 0..n : v[i] = IF i = 0 THEN <<>> ELSE v[i - 1] \o chunks[i]
    <3>1. \A i \in 0..n : i # 0 => i \in 1..n
      OBVIOUS
    <3>2. QED
      BY <1>3, <3>1 DEF Joins
  <2>3. QED
    BY <1>1, <2>1, <2>2
<1>6. PICK g : g = upTo
  OBVIOUS
<1>7. g = Rec(g)
  <2> HIDE DEF Rec
  <2>1. QED
    BY <1>5, <1>6
<1> HIDE DEF upTo
<1>8. Joins(g, n, chunks)
  <2>1. 0 \in 0..n /\ \A i \in 1..n : i \in 0..n /\ i # 0
    OBVIOUS
  <2>2. g[0] = <<>> /\ \A i \in 1..n : g[i] = g[i - 1] \o chunks[i]
    BY <1>1, <1>7, <2>1
  <2>3. QED
    BY <2>2 DEF Joins
<1>9. QED
  BY <1>1, <1>4, <1>6, <1>8

\* What every directive adds to the section.
LEMMA ContributionsAre ==
  ASSUME NEW text, NEW chunks \in Seq(Seq(Bytes)), NEW finalized,
         IsTextOf(text, chunks, finalized), NEW n \in Nat \ {0}, n = Len(chunks),
         NEW p, p = Contributions(text)
  PROVE  /\ p[1] = <<>>
         /\ \A k \in 1..n : p[k + 1] = chunks[k]
         /\ finalized => p[n + 2] = <<>>
         /\ \A i \in 1..Len(text) : p[i] \in Seq(Bytes)
<1>1. PICK l \in Nat : l = Len(text) /\ l = IF finalized THEN n + 2 ELSE n + 1
  <2>1. Len(text) = IF finalized THEN n + 2 ELSE n + 1
    BY DEF IsTextOf
  <2>2. QED
    BY <2>1
<1>2. /\ text[1] = Section(".go_export")
      /\ \A k \in 1..n : text[k + 1] = Ascii(Processed(chunks[k]))
      /\ finalized => text[n + 2] = Section(".text")
  <2>1. finalized => text[(n + 1) + 1] = Section(".text")
    BY DEF IsTextOf
  <2>2. (n + 1) + 1 = n + 2
    OBVIOUS
  <2>3. QED
    BY <2>1, <2>2 DEF IsTextOf
<1>3. \A i \in 1..l : p[i] = IF text[i].op = "ascii" /\ Current(text)[i] = ".go_export"
                             THEN Read(text[i].text) ELSE <<>>
  BY <1>1 DEF Contributions
<1>4. /\ \A t : Ascii(t).op = "ascii" /\ Ascii(t).text = t
      /\ \A t : Section(t).op # "ascii"
  BY DEF Ascii, Section
<1>5. p[1] = <<>> /\ (finalized => p[n + 2] = <<>>)
  <2>1. 1 \in 1..l /\ (finalized => n + 2 \in 1..l)
    BY <1>1
  <2>2. QED
    BY <1>2, <1>3, <1>4, <2>1
<1>6. ASSUME NEW k \in 1..n PROVE p[k + 1] = chunks[k] /\ chunks[k] \in Seq(Bytes)
  <2>1. k + 1 \in 1..l /\ k + 1 \in 1..(n + 1)
    BY <1>1
  <2>2. chunks[k] \in Seq(Bytes)
    BY ElementOfSeq
  <2>3. Current(text)[k + 1] = ".go_export"
    BY <2>1, CurrentInExport
  <2>4. p[k + 1] = Read(Processed(chunks[k]))
    BY <1>2, <1>3, <1>4, <2>1, <2>3
  <2>5. QED
    BY <2>2, <2>4, ChunkReadsBack
<1>7. ASSUME NEW i \in 1..l PROVE p[i] \in Seq(Bytes)
  <2>1. i = 1 \/ (finalized /\ i = n + 2) \/ (i - 1 \in 1..n /\ (i - 1) + 1 = i)
    BY <1>1
  <2>2. <<>> \in Seq(Bytes)
    OBVIOUS
  <2>3. QED
    BY <1>5, <1>6, <2>1, <2>2
<1>8. QED
  BY <1>1, <1>5, <1>6, <1>7

\* Assembled, in terms of what every directive adds.
LEMMA AssembledAs ==
  ASSUME NEW text, NEW l \in Nat, l = Len(text),
         \A i \in 1..l : Contributions(text)[i] \in Seq(Bytes)
  PROVE  \E u : /\ Joins(u, l, Contributions(text))
                /\ Assembled(text) = [there |-> \E i \in DOMAIN text : text[i] = Section(".go_export"),
                                      bytes |-> u[l]]
<1>1. PICK p, current : p = Contributions(text) /\ current = Current(text)
  OBVIOUS
<1> DEFINE Rec(f) == [i \in 0..Len(text) |->
                        IF i = 0 THEN <<>>
                        ELSE IF text[i].op = "ascii" /\ current[i] = ".go_export"
                             THEN f[i - 1] \o Read(text[i].text) ELSE f[i - 1]]
           bytes == CHOOSE f : f = Rec(f)
<1>2. Assembled(text) = [there |-> \E i \in DOMAIN text : text[i] = Section(".go_export"),
                         bytes |-> bytes[l]]
  BY <1>1 DEF Assembled, Current
<1>3. PICK v \in [0..l -> Seq(Bytes)] : Joins(v, l, p)
  BY <1>1, JoinExists
<1>4. \A i \in 1..l : p[i] = IF text[i].op = "ascii" /\ current[i] = ".go_export"
                             THEN Read(text[i].text) ELSE <<>>
  BY <1>1 DEF Contributions
<1>5. \A s \in Seq(Bytes) : s \o <<>> = s
  BY ConcatEmptySeq
<1>6. v = Rec(v)
  <2>1. v = [i \in 0..l |-> v[i]]
    BY <1>3
  <2>2. ASSUME NEW i \in 0..l
        PROVE  v[i] = IF i = 0 THEN <<>>
                      ELSE IF text[i].op = "ascii" /\ current[i] = ".go_export"
                           THEN v[i - 1] \o Read(text[i].text) ELSE v[i - 1]
    <3>1. CASE i = 0
      BY <1>3, <3>1 DEF Joins
    <3>2. CASE i # 0
      <4>1. i \in 1..l /\ i - 1 \in 0..l
        BY <3>2
      <4>2. v[i] = v[i - 1] \o p[i] /\ v[i - 1] \in Seq(Bytes)
        BY <1>3, <4>1 DEF Joins
      <4>3. QED
        BY <1>4, <1>5, <3>2, <4>1, <4>2
    <3>3. QED
      BY <3>1, <3>2
  <2>3. QED
    BY <2>1, <2>2
<1>7. PICK g : g = bytes
  OBVIOUS
<1>8. g = Rec(g)
  <2> HIDE DEF Rec
  <2>1. QED
    BY <1>6, <1>7
<1> HIDE DEF bytes
<1>9. Joins(g, l, p)
  <2>1. 0 \in 0..l /\ \A i \in 1..l : i \in 0..l /\ i # 0 /\ i - 1 \in 0..l
    OBVIOUS
  <2>2. /\ g[0] = <<>>
        /\ \A i \in 1..l : g[i] = IF text[i].op = "ascii" /\ current[i] = ".go_export"
                                  THEN g[i - 1] \o Read(text[i].text) ELSE g[i - 1]
    BY <1>8, <2>1
  <2> DEFINE T == {i \in 0..l : g[i] = v[i]}
  <2>3. 0 \in T
    BY <1>3, <2>1, <2>2 DEF Joins
  <2>4. ASSUME NEW i \in 1..l, i - 1 \in T PROVE i \in T
    <3>1. g[i - 1] = v[i - 1] /\ v[i - 1] \in Seq(Bytes)
      BY <1>3, <2>1, <2>4
    <3>2. v[i] = v[i - 1] \o p[i]
      BY <1>3 DEF Joins
    <3>3. g[i] = v[i]
      BY <1>4, <1>5, <2>2, <3>1, <3>2
    <3>4. QED
      BY <2>1, <3>3
  <2> HIDE DEF T
  <2>5. 0..l \subseteq T
    BY <2>3, <2>4, IntervalInduction
  <2>6. \A i \in 0..l : g[i] = v[i]
    BY <2>5 DEF T
  <2>7. QED
    BY <1>3, <2>1, <2>6 DEF Joins
<1>10. QED
  BY <1>1, <1>2, <1>7, <1>9

\* What the backend wrote for the chunks is the chunks, one after the other.
LEMMA AssembledIs ==
  ASSUME NEW text, NEW chunks \in Seq(Seq(Bytes)), NEW finalized \in BOOLEAN,
         IsTextOf(text, chunks, finalized)
  PROVE  Assembled(text) = [there |-> chunks # <<>>, bytes |-> Concatenated(chunks)]
<1>0. PICK n \in Nat : n = Len(chunks)
  BY LenProperties
<1>a. PICK m : m = IF n = 0 THEN 0 ELSE n + 1
  OBVIOUS
<1>b. PICK l \in Nat : l = Len(text)
  <2>1. text \in Seq(Directive)
    BY DEF IsTextOf
  <2>2. QED
    BY <2>1, LenProperties
<1>1. n = Len(chunks) /\ m = (IF n = 0 THEN 0 ELSE n + 1) /\ l = Len(text)
  BY <1>0, <1>a, <1>b
<1>2. l = IF finalized THEN m + 1 ELSE m
  BY <1>1 DEF IsTextOf
<1>3. PICK v : Joins(v, n, chunks) /\ Concatenated(chunks) = v[n]
  BY <1>1, ConcatenatedIs
<1>4. PICK p : p = Contributions(text)
  OBVIOUS
<1>5. chunks = <<>> <=> n = 0
  BY <1>1, EmptySeq
<1>6. \A t : Section(".text") # Section(".go_export") /\ Ascii(t).op = "ascii"
             /\ Section(t).op = "section"
  BY DEF Section, Ascii
<1>7. text \in Seq(Directive) /\ DOMAIN text = 1..l
  <2>1. text \in Seq(Directive)
    BY DEF IsTextOf
  <2>2. QED
    BY <1>1, <2>1, LenProperties
<1>8. CASE n = 0
  <2>1. \A i \in 1..l : i = 1 /\ text[i] = Section(".text")
    <3>1. m = 0 /\ (l = 0 \/ (l = 1 /\ finalized))
      BY <1>1, <1>2, <1>8
    <3>2. finalized => text[0 + 1] = Section(".text")
      BY <1>1, <1>8 DEF IsTextOf
    <3>3. QED
      BY <3>1, <3>2
  <2>2. \A i \in 1..l : p[i] = <<>>
    <3>1. \A i \in 1..l : p[i] = IF text[i].op = "ascii" /\ Current(text)[i] = ".go_export"
                                 THEN Read(text[i].text) ELSE <<>>
      BY <1>1, <1>4 DEF Contributions
    <3>2. QED
      BY <1>6, <2>1, <3>1
  <2>3. \A i \in 1..l : p[i] \in Seq(Bytes)
    <3>1. <<>> \in Seq(Bytes)
      OBVIOUS
    <3>2. QED
      BY <2>2, <3>1
  <2>4. PICK u : /\ Joins(u, l, p)
                 /\ Assembled(text) = [there |-> \E i \in DOMAIN text : text[i] = Section(".go_export"),
                                       bytes |-> u[l]]
    BY <1>1, <1>4, <2>3, AssembledAs
  <2>5. u[l] = <<>>
    <3>1. l = 0 \/ l = 1
      BY <1>1, <1>2, <1>8
    <3>2. u[0] = <<>>
      BY <2>4 DEF Joins
    <3>3. l = 1 => u[1] = u[0] \o p[1] /\ p[1] = <<>>
      <4>1. l = 1 => 1 \in 1..l /\ 1 - 1 = 0
        OBVIOUS
      <4>2. QED
        BY <2>2, <2>4, <4>1 DEF Joins
    <3>4. <<>> \o <<>> = <<>>
      OBVIOUS
    <3>5. QED
      BY <3>1, <3>2, <3>3, <3>4
  <2>6. ~(\E i \in DOMAIN text : text[i] = Section(".go_export"))
    BY <1>6, <1>7, <2>1
  <2>7. v[n] = <<>>
    BY <1>3, <1>8 DEF Joins
  <2>8. QED
    BY <1>3, <1>5, <1>8, <2>4, <2>5, <2>6, <2>7
<1>9. CASE n # 0
  <2>1. /\ p[1] = <<>>
        /\ \A k \in 1..n : p[k + 1] = chunks[k]
        /\ finalized => p[n + 2] = <<>>
        /\ \A i \in 1..l : p[i] \in Seq(Bytes)
    <3>1. n \in Nat \ {0}
      BY <1>9
    <3>2. QED
      BY <1>1, <1>4, <3>1, ContributionsAre
  <2>2. PICK u : /\ Joins(u, l, p)
                 /\ Assembled(text) = [there |-> \E i \in DOMAIN text : text[i] = Section(".go_export"),
                                       bytes |-> u[l]]
    BY <1>1, <1>4, <2>1, AssembledAs
  <2>3. n + 1 <= l /\ (l = n + 1 \/ (finalized /\ l = n + 2))
    BY <1>1, <1>2, <1>9
  <2>4. \A i \in 0..l : u[i] \in Seq(Bytes)
    BY <2>1, <2>2, JoinIsSeq
  <2> DEFINE T == {k \in 0..n : u[k + 1] = v[k]}
  <2>5. 0 \in T
    <3>1. 1 \in 1..l /\ 1 - 1 = 0 /\ 0 + 1 = 1 /\ 0 \in 0..n
      BY <2>3
    <3>2. u[1] = u[0] \o <<>> /\ u[0] = <<>>
      BY <2>1, <2>2, <3>1 DEF Joins
    <3>3. u[1] = <<>>
      BY <3>2
    <3>4. v[0] = <<>>
      BY <1>3 DEF Joins
    <3>5. QED
      BY <3>1, <3>3, <3>4
  <2>6. ASSUME NEW k \in 1..n, k - 1 \in T PROVE k \in T
    <3>1. k + 1 \in 1..l /\ (k + 1) - 1 = k /\ (k - 1) + 1 = k /\ k \in 0..n
      BY <2>3
    <3>2. u[k] = v[k - 1]
      BY <2>6, <3>1
    <3>3. u[k + 1] = u[k] \o p[k + 1]
      BY <2>2, <3>1 DEF Joins
    <3>4. v[k] = v[k - 1] \o chunks[k]
      BY <1>3 DEF Joins
    <3>5. QED
      BY <2>1, <3>1, <3>2, <3>3, <3>4
  <2> HIDE DEF T
  <2>7. 0..n \subseteq T
    BY <2>5, <2>6, IntervalInduction
  <2>8. u[n + 1] = v[n]
    <3>1. n \in 0..n
      OBVIOUS
    <3>2. QED
      BY <2>7, <3>1 DEF T
  <2>9. u[l] = v[n]
    <3>1. CASE l = n + 1
      BY <2>8, <3>1
    <3>2. CASE finalized /\ l = n + 2
      <4>1. n + 2 \in 1..l /\ (n + 2) - 1 = n + 1 /\ n + 1 \in 0..l
        BY <3>2
      <4>2. u[n + 2] = u[n + 1] \o p[n + 2]
        BY <2>2, <4>1 DEF Joins
      <4>3. u[n + 1] \in Seq(Bytes) /\ p[n + 2] = <<>>
        BY <2>1, <2>4, <3>2, <4>1
      <4>4. u[n + 1] \o <<>> = u[n + 1]
        BY <4>3, ConcatEmptySeq
      <4>5. QED
        BY <2>8, <3>2, <4>2, <4>3, <4>4
    <3>3. QED
      BY <2>3, <3>1, <3>2
  <2>10. \E i \in DOMAIN text : text[i] = Section(".go_export")
    <3>1. 1 \in 1..l /\ text[1] = Section(".go_export")
      BY <1>1, <1>9, <2>3 DEF IsTextOf
    <3>2. QED
      BY <1>7, <3>1
  <2>11. QED
    BY <1>3, <1>5, <1>9, <2>2, <2>9, <2>10
<1>10. QED
  BY <1>8, <1>9

\* Where the members of an archive of three start.
LEMMA OffsetsOfThree ==
  ASSUME NEW a, NEW b, NEW c, NEW x \in Nat, NEW y \in Nat, NEW z
  PROVE  LET offsets == ChildOffset(Archive(<<a, b, c>>, <<x, y, z>>))
         IN offsets[1] = 8 /\ offsets[2] = 68 + x /\ offsets[3] = 128 + x + y
<1>1. PICK file : file = Archive(<<a, b, c>>, <<x, y, z>>)
  OBVIOUS
<1>2. DOMAIN file.members = 1..3 /\ file.sizes[1] = x /\ file.sizes[2] = y
  BY <1>1 DEF Archive
<1> DEFINE Rec(f) == [i \in DOMAIN file.members |->
                        IF i = 1 THEN Magic ELSE f[i - 1] + HeaderSize + file.sizes[i - 1]]
           start == CHOOSE f : f = Rec(f)
           g == [i \in 1..3 |-> IF i = 1 THEN 8 ELSE IF i = 2 THEN 68 + x ELSE 128 + x + y]
<1>3. ChildOffset(file) = start
  BY DEF ChildOffset
<1>4. g = Rec(g)
  <2>1. \A i \in 1..3 : g[i] = IF i = 1 THEN Magic ELSE g[i - 1] + HeaderSize + file.sizes[i - 1]
    <3>1. g[1] = 8 /\ g[2] = 68 + x /\ g[3] = 128 + x + y
      OBVIOUS
    <3> HIDE DEF g
    <3>2. g[2] = g[1] + 60 + file.sizes[1] /\ g[3] = g[2] + 60 + file.sizes[2]
      BY <1>2, <3>1
    <3>3. \A i \in 1..3 : i = 1 \/ (i = 2 /\ i - 1 = 1) \/ (i = 3 /\ i - 1 = 2)
      OBVIOUS
    <3>4. QED
      BY <3>1, <3>2, <3>3 DEF Magic, HeaderSize
  <2>2. g = [i \in 1..3 |-> g[i]]
    OBVIOUS
  <2> HIDE DEF g
  <2>3. QED
    BY <1>2, <2>1, <2>2
<1>5. PICK h : h = start
  OBVIOUS
<1>6. h = Rec(h)
  <2> HIDE DEF Rec, g
  <2>1. QED
    BY <1>4, <1>5
<1> HIDE DEF start
<1>7. h[1] = 8
  BY <1>2, <1>6 DEF Magic
<1>8. h[2] = h[1] + 60 + x
  <2>1. 2 \in 1..3 /\ 2 - 1 = 1
    OBVIOUS
  <2>2. QED
    BY <1>2, <1>6, <2>1 DEF HeaderSize
<1>9. h[3] = h[2] + 60 + y
  <2>1. 3 \in 1..3 /\ 3 - 1 = 2
    OBVIOUS
  <2>2. QED
    BY <1>2, <1>6, <2>1 DEF HeaderSize
<1>10. h[1] = 8 /\ h[2] = 68 + x /\ h[3] = 128 + x + y
  BY <1>7, <1>8, <1>9
<1>11. ChildOffset(Archive(<<a, b, c>>, <<x, y, z>>)) = h
  BY <1>1, <1>3, <1>5
<1>12. QED
  BY <1>10, <1>11

\* What is found in the files of ExportReadsBack.
LEMMA FoundInFiles ==
  ASSUME NEW section, NEW other
  PROVE  LET library == Archive(<<other, section, other>>, <<100, 0, 8>>)
         IN /\ GoReadExportData(ObjectFile(section), 0) = section
            /\ GoReadExportData(library, MemberOffset(library, 2)) = section
            /\ GoReadExportData(library, 0) = NoSection
            /\ GoReadExportData(OtherFile, 0) = NoSection
<1> DEFINE library == Archive(<<other, section, other>>, <<100, 0, 8>>)
<1>1. GoReadExportData(OtherFile, 0) = NoSection
  BY DEF GoReadExportData, OtherFile
<1>2. GoReadExportData(ObjectFile(section), 0) = section
  <2>1. (CHOOSE i \in {1} : TRUE) = 1
    OBVIOUS
  <2>2. QED
    BY <2>1 DEF GoReadExportData, ObjectFile
<1>3. PICK offsets : offsets = ChildOffset(library)
  OBVIOUS
<1>4. offsets[1] = 8 /\ offsets[2] = 168 /\ offsets[3] = 228
  <2>1. /\ ChildOffset(library)[1] = 8 /\ ChildOffset(library)[2] = 68 + 100
        /\ ChildOffset(library)[3] = 128 + 100 + 0
    BY OffsetsOfThree
  <2> HIDE DEF library
  <2>2. QED
    BY <1>3, <2>1
<1>5. DOMAIN library.members = 1..3 /\ library.members[2] = section /\ library.kind = "archive"
  BY DEF Archive
<1> HIDE DEF library
<1>6. MemberOffset(library, 2) = 228
  BY <1>3, <1>4 DEF MemberOffset, HeaderSize
<1>7. \A i \in 1..3 : i = 1 \/ i = 2 \/ i = 3
  OBVIOUS
<1>8. Selected(library, 228) = {2} /\ Selected(library, 0) = {}
  <2>1. \A o : Selected(library, o) = {i \in 1..3 : offsets[i] = o - 60}
    BY <1>3, <1>5 DEF Selected, HeaderSize
  <2>2. 228 - 60 = 168 /\ 0 - 60 = -60
    OBVIOUS
  <2>3. {i \in 1..3 : offsets[i] = 168} = {2}
    BY <1>4, <1>7
  <2>4. {i \in 1..3 : offsets[i] = -60} = {}
    BY <1>4, <1>7
  <2>5. QED
    BY <2>1, <2>2, <2>3, <2>4
<1>9. GoReadExportData(library, 228) = section
  <2>1. (CHOOSE i \in {2} : TRUE) = 2 /\ {2} # {}
    OBVIOUS
  <2>2. QED
    BY <1>5, <1>8, <2>1 DEF GoReadExportData
<1>10. GoReadExportData(library, 0) = NoSection
  BY <1>5, <1>8 DEF GoReadExportData
<1>11. QED
  BY <1>1, <1>2, <1>6, <1>9, <1>10 DEF library

-----------------------------------------------------------------------------
(* What is written while a module is made.                                  *)

\* The directives the backend writes.
LEMMA DirectiveTypes ==
  /\ Section(".go_export") \in Directive /\ Section(".text") \in Directive
  /\ \A chunk \in Seq(Bytes) : Ascii(Processed(chunk)) \in Directive
<1>1. \A t \in Seq(Characters) : Ascii(t) \in Directive
  BY DEF Directive, Ascii
<1>2. Section(".go_export") \in Directive /\ Section(".text") \in Directive
  BY DEF Directive, Section
<1>3. QED
  BY <1>1, <1>2, ProcessedType

\* A sequence of two.
LEMMA TwoElements ==
  ASSUME NEW S, NEW x \in S, NEW y \in S
  PROVE  <<x>> \o <<y>> = <<x, y>>
<1>1. PICK a, b, ab : a = <<x>> /\ b = <<y>> /\ ab = <<x, y>>
  OBVIOUS
<1>2. /\ a \in Seq(S) /\ b \in Seq(S) /\ Len(a) = 1 /\ Len(b) = 1 /\ a[1] = x /\ b[1] = y
      /\ ab \in Seq(S) /\ Len(ab) = 2 /\ ab[1] = x /\ ab[2] = y
  BY <1>1
<1>3. PICK m, n : m = 1 /\ n = 1
  OBVIOUS
<1>4. /\ Len(a \o b) = m + n
      /\ \A j \in 1..m : (a \o b)[j] = a[j]
      /\ \A j \in 1..n : (a \o b)[m + j] = b[j]
  <2>1. a \in Seq(S) /\ b \in Seq(S) /\ m = Len(a) /\ n = Len(b)
    BY <1>2, <1>3
  <2>2. QED
    BY <2>1, Follow
<1>5. a \o b \in Seq(S)
  BY <1>2, ConcatProperties
<1>6. Len(a \o b) = 2 /\ (a \o b)[1] = x /\ (a \o b)[2] = y
  <2>1. 1 \in 1..1 /\ 1 + 1 = 2
    OBVIOUS
  <2>2. QED
    BY <1>2, <1>3, <1>4, <2>1
<1>7. \A i \in 1..2 : i = 1 \/ i = 2
  OBVIOUS
<1>8. a \o b = ab
  <2>1. PICK c : c = a \o b
    OBVIOUS
  <2>2. c \in Seq(S) /\ Len(c) = Len(ab) /\ \A i \in 1..Len(c) : c[i] = ab[i]
    BY <1>2, <1>5, <1>6, <1>7, <2>1
  <2>3. QED
    BY <1>2, <2>1, <2>2, SeqEqual
<1>9. QED
  BY <1>1, <1>8

\* Another chunk.
LEMMA ChunkKeepsShape ==
  ASSUME written \in Seq(Seq(Bytes)), exportStarted <=> written # <<>>,
         IsTextOf(asmText, written, FALSE), NEW chunk \in Seq(Bytes)
  PROVE  IsTextOf(asmText \o Directives(chunk), Append(written, chunk), FALSE)
<1>1. PICK n \in Nat : n = Len(written)
  BY LenProperties
<1>2. PICK x, more : x = Ascii(Processed(chunk)) /\ more = Append(written, chunk)
  OBVIOUS
<1>3. Len(more) = n + 1 /\ more[n + 1] = chunk /\ \A k \in 1..n : more[k] = written[k]
  BY <1>1, <1>2, AppendProperties
<1>4. x \in Directive /\ Section(".go_export") \in Directive
  BY <1>2, DirectiveTypes
<1>5. asmText \in Seq(Directive)
  BY DEF IsTextOf
<1> DEFINE s == asmText \o Directives(chunk)
<1>6. /\ s \in Seq(Directive) /\ Len(s) = n + 2 /\ s[1] = Section(".go_export")
      /\ \A k \in 1..(n + 1) : s[k + 1] = Ascii(Processed(more[k]))
  <2>1. CASE n = 0
    <3>1. asmText = <<>> /\ written = <<>>
      <4>1. Len(asmText) = 0
        BY <1>1, <2>1 DEF IsTextOf
      <4>2. QED
        BY <1>1, <1>5, <2>1, <4>1, EmptySeq
    <3>2. Directives(chunk) = <<Section(".go_export")>> \o <<x>>
      BY <1>2, <3>1 DEF Directives
    <3>3. PICK y \in Directive : y = Section(".go_export")
      BY <1>4
    <3>4. s = <<y, x>>
      <4>1. <<y>> \o <<x>> = <<y, x>>
        BY <1>4, TwoElements
      <4>2. <<y, x>> \in Seq(Directive)
        BY <1>4
      <4>3. <<>> \o <<y, x>> = <<y, x>>
        BY <4>2, ConcatEmptySeq
      <4>4. QED
        BY <3>1, <3>2, <3>3, <4>1, <4>3
    <3> HIDE DEF s
    <3>5. s \in Seq(Directive) /\ Len(s) = 2 /\ s[1] = y /\ s[2] = x
      BY <1>4, <3>4
    <3>6. \A k \in 1..(n + 1) : k = 1 /\ k + 1 = 2 /\ n + 1 = 1
      BY <2>1
    <3>7. \A k \in 1..(n + 1) : s[k + 1] = Ascii(Processed(more[k]))
      BY <1>2, <1>3, <3>5, <3>6
    <3>8. QED
      BY <2>1, <3>3, <3>5, <3>7
  <2>2. CASE n # 0
    <3>1. written # <<>>
      BY <1>1, <2>2
    <3>2. Directives(chunk) = <<x>>
      <4>1. <<>> \o <<x>> = <<x>>
        <5>1. <<x>> \in Seq(Directive)
          BY <1>4
        <5>2. QED
          BY <5>1, ConcatEmptySeq
      <4>2. QED
        BY <1>2, <3>1, <4>1 DEF Directives
    <3>3. PICK t : t = <<x>>
      OBVIOUS
    <3>4. t \in Seq(Directive) /\ 1 = Len(t) /\ t[1] = x
      BY <1>4, <3>3
    <3>5. n + 1 = Len(asmText)
      BY <1>1, <2>2 DEF IsTextOf
    <3>6. /\ Len(asmText \o t) = n + 1 + 1
          /\ \A j \in 1..(n + 1) : (asmText \o t)[j] = asmText[j]
          /\ \A j \in 1..1 : (asmText \o t)[n + 1 + j] = t[j]
      <4>1. PICK a, b : a = n + 1 /\ b = 1
        OBVIOUS
      <4>2. asmText \in Seq(Directive) /\ t \in Seq(Directive) /\ a = Len(asmText) /\ b = Len(t)
        BY <1>5, <3>4, <3>5, <4>1
      <4>3. /\ Len(asmText \o t) = a + b
            /\ \A j \in 1..a : (asmText \o t)[j] = asmText[j]
            /\ \A j \in 1..b : (asmText \o t)[a + j] = t[j]
        BY <4>2, Follow
      <4>4. QED
        BY <4>1, <4>3
    <3>7. s \in Seq(Directive)
      BY <1>5, <3>2, <3>3, <3>4, ConcatProperties
    <3>8. s = asmText \o t
      BY <3>2, <3>3
    <3> HIDE DEF s
    <3>9. Len(s) = n + 2 /\ s[n + 2] = x /\ \A j \in 1..(n + 1) : s[j] = asmText[j]
      <4>1. n + 1 + 1 = n + 2 /\ 1 \in 1..1
        OBVIOUS
      <4>2. QED
        BY <3>4, <3>6, <3>8, <4>1
    <3>10. asmText[1] = Section(".go_export") /\ \A k \in 1..n : asmText[k + 1] = Ascii(Processed(written[k]))
      BY <1>1, <2>2 DEF IsTextOf
    <3>11. ASSUME NEW k \in 1..(n + 1) PROVE s[k + 1] = Ascii(Processed(more[k]))
      <4>1. CASE k = n + 1
        <5>1. k + 1 = n + 2
          BY <4>1
        <5>2. QED
          BY <1>2, <1>3, <3>9, <4>1, <5>1
      <4>2. CASE k # n + 1
        <5>1. k \in 1..n /\ k + 1 \in 1..(n + 1)
          BY <4>2
        <5>2. QED
          BY <1>3, <3>9, <3>10, <5>1
      <4>3. QED
        BY <4>1, <4>2
    <3>12. s[1] = Section(".go_export")
      <4>1. 1 \in 1..(n + 1)
        OBVIOUS
      <4>2. QED
        BY <3>9, <3>10, <4>1
    <3>13. QED
      BY <3>7, <3>9, <3>11, <3>12
  <2>3. QED
    BY <2>1, <2>2
<1> HIDE DEF s
<1>7. n + 1 # 0 /\ (n + 1) + 1 = n + 2
  OBVIOUS
<1>8. IsTextOf(s, more, FALSE)
  BY <1>3, <1>6, <1>7 DEF IsTextOf
<1>9. QED
  BY <1>2, <1>8 DEF s

\* The end of the data.
LEMMA EndKeepsShape ==
  ASSUME NEW text, NEW chunks \in Seq(Seq(Bytes)), IsTextOf(text, chunks, FALSE)
  PROVE  IsTextOf(Append(text, Section(".text")), chunks, TRUE)
<1>1. PICK n \in Nat : n = Len(chunks)
  BY LenProperties
<1>2. PICK m \in Nat : m = IF n = 0 THEN 0 ELSE n + 1
  OBVIOUS
<1>3. text \in Seq(Directive) /\ Len(text) = m
  BY <1>1, <1>2 DEF IsTextOf
<1>4. PICK s, x : s = Append(text, x) /\ x = Section(".text")
  OBVIOUS
<1>5. x \in Directive
  BY <1>4, DirectiveTypes
<1>6. s \in Seq(Directive) /\ Len(s) = m + 1 /\ s[m + 1] = x /\ \A i \in 1..m : s[i] = text[i]
  BY <1>3, <1>4, <1>5, AppendProperties
<1>7. n # 0 => s[1] = Section(".go_export")
  <2>1. n # 0 => 1 \in 1..m
    BY <1>2
  <2>2. n # 0 => text[1] = Section(".go_export")
    BY <1>1 DEF IsTextOf
  <2>3. QED
    BY <1>6, <2>1, <2>2
<1>8. \A k \in 1..n : s[k + 1] = Ascii(Processed(chunks[k]))
  <2>1. \A k \in 1..n : k + 1 \in 1..m
    BY <1>2
  <2>2. \A k \in 1..n : text[k + 1] = Ascii(Processed(chunks[k]))
    BY <1>1 DEF IsTextOf
  <2>3. QED
    BY <1>6, <2>1, <2>2
<1>9. IsTextOf(s, chunks, TRUE)
  BY <1>1, <1>2, <1>4, <1>6, <1>7, <1>8 DEF IsTextOf
<1>10. QED
  BY <1>4, <1>9

\* The text of the module is that of the chunks that were written; the output file and
\* then the object file are made of it.
ExportInv ==
  /\ written \in Seq(Seq(Bytes))
  /\ exportFinalized \in BOOLEAN
  /\ exportStarted <=> written # <<>>
  /\ IsTextOf(asmText, written, exportFinalized)
  /\ phase = "emitted" \/ exitCode = Success => out.text = asmText
  /\ wrapper = "returned" /\ wrapperRc = Success => object.section = Assembled(asmText)

\* Of no chunks there is no text.
LEMMA NothingWritten == <<>> \in Seq(Seq(Bytes)) /\ IsTextOf(<<>>, <<>>, FALSE)
  BY DEF IsTextOf

\* A step that writes nothing.
LEMMA NothingIsWritten ==
  ASSUME ExportInv, exportVars' = exportVars,
         phase' = "emitted" \/ exitCode' = Success => out'.text = asmText,
         wrapper' = "returned" /\ wrapperRc' = Success => object'.section = Assembled(asmText)
  PROVE  ExportInv'
<1>1. /\ exportStarted' = exportStarted /\ exportFinalized' = exportFinalized
      /\ asmText' = asmText /\ written' = written
  BY DEF exportVars
<1>2. QED
  BY <1>1 DEF ExportInv

\* Every step of main keeps it.
LEMMA DriverStepKeepsExport ==
  ASSUME FilesInv, ExportInv, DriverStep, UNCHANGED <<wrapperVars, installVars>>
  PROVE  ExportInv'
<1> wrapper' = wrapper /\ wrapperRc' = wrapperRc /\ object' = object
  BY DEF wrapperVars
<1>a. /\ wrapper = "returned" /\ wrapperRc = Success => object.section = Assembled(asmText)
      /\ phase = "emitted" \/ exitCode = Success => out.text = asmText
  BY DEF ExportInv
<1>b. phase # "idle" => exitCode # Success
  BY DEF FilesInv, DriverInv, Running, Success
<1>c. phase # "idle" => wrapper = "goparse"
  BY DEF FilesInv, WrapperInv
<1>1. ASSUME NEW code, Exit(code), phase # "idle", code = Success => phase = "emitted"
      PROVE  ExportInv'
  <2>1. phase' = "idle" /\ exitCode' = code /\ exportVars' = exportVars
    BY <1>1 DEF Exit
  <2>2. exitCode' = Success => out' = out
    BY <1>1 DEF Exit
  <2>3. QED
    BY <1>1, <1>a, <2>1, <2>2, NothingIsWritten
<1>2. ASSUME NEW to, Proceed(to), phase # "idle", to # "emitted"
      PROVE  ExportInv'
  <2>1. phase' = to /\ exitCode' = exitCode /\ exportVars' = exportVars
    BY <1>2 DEF Proceed
  <2>2. QED
    BY <1>2, <1>a, <1>b, <2>1, NothingIsWritten
<1>s. Failure # Success /\ Aborted # Success
  BY DEF Failure, Aborted, Success
<1>3. CASE ParseOptions
  <2>1. phase = "options"
    BY <1>3 DEF ParseOptions
  <2>2. CASE options.target /\ options.level /\ options.output /\ options.canOpen
    <3>1. phase' = "parse" /\ exitCode' = exitCode /\ exportVars' = exportVars
      BY <1>3, <2>2 DEF ParseOptions
    <3>2. QED
      BY <1>a, <1>b, <2>1, <3>1, NothingIsWritten
  <2>3. CASE ~(options.target /\ options.level /\ options.output /\ options.canOpen)
    <3>1. Exit(Failure)
      BY <1>3, <2>3 DEF ParseOptions
    <3>2. QED
      BY <1>1, <1>s, <2>1, <3>1
  <2>4. QED
    BY <2>2, <2>3
<1>4. CASE GoBeError \/ BreakModule
  <2>1. /\ phase \in {"parse", "globals"} /\ phase' = phase /\ exitCode' = exitCode
        /\ exportVars' = exportVars
    BY <1>4 DEF GoBeError, BreakModule
  <2>2. QED
    BY <1>a, <1>b, <2>1, NothingIsWritten
<1>5. CASE GoBeFatalError
  <2>1. phase # "idle" /\ Exit(Aborted)
    BY <1>5 DEF GoBeFatalError
  <2>2. QED
    BY <1>1, <1>s, <2>1
<1>6. CASE ExportChunk
  <2>1. PICK chunk \in Chunks : WriteExportData(chunk)
    BY <1>6 DEF ExportChunk
  <2>2. phase = "parse" /\ phase' = phase /\ exitCode' = exitCode
    BY <1>6 DEF ExportChunk, driverVars
  <2>3. chunk \in Seq(Bytes)
    BY DriverAssumption
  <2>4. /\ ~exportFinalized /\ exportStarted' = TRUE /\ exportFinalized' = exportFinalized
        /\ asmText' = asmText \o Directives(chunk) /\ written' = Append(written, chunk)
    BY <2>1 DEF WriteExportData
  <2>5. exportFinalized = FALSE /\ exportFinalized' = FALSE
    BY <2>4 DEF ExportInv
  <2>6. IsTextOf(asmText \o Directives(chunk), Append(written, chunk), FALSE)
    BY <2>3, <2>5, ChunkKeepsShape DEF ExportInv
  <2>7. IsTextOf(asmText, written, exportFinalized)'
    BY <2>4, <2>5, <2>6
  <2>8. written' \in Seq(Seq(Bytes)) /\ written' # <<>>
    <3>1. written \in Seq(Seq(Bytes))
      BY DEF ExportInv
    <3>2. QED
      BY <2>3, <2>4, <3>1, AppendProperties
  <2>9. ~(phase' = "emitted" \/ exitCode' = Success) /\ wrapper' # "returned"
    BY <1>b, <1>c, <2>2
  <2>10. QED
    BY <2>4, <2>5, <2>7, <2>8, <2>9 DEF ExportInv
<1>7. CASE EndParse
  <2>1. PICK to \in {"globals", "verify"} : Proceed(to) /\ phase # "idle"
    BY <1>7 DEF EndParse
  <2>2. QED
    BY <1>2, <2>1
<1>8. CASE WriteGlobalDefinitions
  <2>1. /\ phase = "globals" /\ phase' = "verify" /\ exitCode' = exitCode
        /\ ~exportFinalized /\ exportFinalized' = TRUE
        /\ asmText' = Append(asmText, Section(".text"))
        /\ exportStarted' = exportStarted /\ written' = written
    BY <1>8 DEF WriteGlobalDefinitions, FinalizeExportData
  <2>2. exportFinalized = FALSE
    BY <2>1 DEF ExportInv
  <2>3. IsTextOf(Append(asmText, Section(".text")), written, TRUE)
    BY <2>2, EndKeepsShape DEF ExportInv
  <2>4. IsTextOf(asmText, written, exportFinalized)'
    BY <2>1, <2>3
  <2>5. ~(phase' = "emitted" \/ exitCode' = Success) /\ wrapper' # "returned"
    BY <1>b, <1>c, <2>1
  <2>6. QED
    BY <2>1, <2>4, <2>5 DEF ExportInv
<1>9. CASE VerifyModule
  <2>1. phase = "verify" /\ (Exit(Aborted) \/ Exit(Failure) \/ Proceed("passes"))
    BY <1>9 DEF VerifyModule
  <2>2. QED
    BY <1>1, <1>2, <1>s, <2>1
<1>10. CASE RunPasses
  <2>1. phase = "passes"
    BY <1>10 DEF RunPasses
  <2>2. CASE ~options.fileType
    <3>1. Exit(Failure)
      BY <1>10, <2>2 DEF RunPasses
    <3>2. QED
      BY <1>1, <1>s, <2>1, <3>1
  <2>3. CASE options.fileType
    <3>1. PICK found \in BOOLEAN : out' = AsmFile(version, asmText, ~found)
      BY <1>10, <2>3 DEF RunPasses
    <3>2. exitCode' = exitCode /\ exportVars' = exportVars
      BY <1>10, <2>3 DEF RunPasses
    <3>3. out'.text = asmText
      BY <3>1 DEF AsmFile
    <3>4. QED
      BY <1>a, <3>2, <3>3, NothingIsWritten
  <2>4. QED
    BY <2>2, <2>3
<1>11. CASE EndMain
  <2>1. phase = "emitted" /\ Exit(Verdict)
    BY <1>11 DEF EndMain
  <2>2. PICK code : code = Verdict
    OBVIOUS
  <2>3. Exit(code)
    BY <2>1, <2>2
  <2>4. QED
    BY <1>1, <2>1, <2>3
<1>12. QED
  BY <1>3, <1>4, <1>5, <1>6, <1>7, <1>8, <1>9, <1>10, <1>11 DEF DriverStep

\* Every step of the wrapper keeps it.
LEMMA WrapperStepKeepsExport ==
  ASSUME FilesInv, ExportInv, WrapperStep
  PROVE  ExportInv'
<1>a. /\ wrapper = "returned" /\ wrapperRc = Success => object.section = Assembled(asmText)
      /\ phase = "emitted" \/ exitCode = Success => out.text = asmText
  BY DEF ExportInv
<1>1. CASE PerformCompile
  <2>1. /\ phase' = "options" /\ wrapper' = "goparse" /\ exitCode' = Running
        /\ exportStarted' = FALSE /\ exportFinalized' = FALSE
        /\ asmText' = <<>> /\ written' = <<>>
    BY <1>1 DEF PerformCompile, StartDriver
  <2>2. exitCode' # Success
    BY <2>1 DEF Running, Success
  <2>3. QED
    BY <2>1, <2>2, NothingWritten DEF ExportInv
<1>2. CASE PerformNoOutput
  <2>1. wrapperRc' = Failure /\ driverVars' = driverVars /\ exportVars' = exportVars
    BY <1>2 DEF PerformNoOutput
  <2>2. wrapperRc' # Success
    BY <2>1 DEF Failure, Success
  <2>3. QED
    BY <1>a, <2>1, <2>2, NothingIsWritten DEF driverVars
<1>3. CASE AfterGoparse
  <2>1. /\ driverVars' = driverVars /\ exportVars' = exportVars
        /\ wrapper' = "as" \/ (wrapper' = "returned" /\ wrapperRc' = Failure)
    BY <1>3 DEF AfterGoparse
  <2>2. ~(wrapper' = "returned" /\ wrapperRc' = Success)
    BY <2>1 DEF Failure, Success
  <2>3. QED
    BY <1>a, <2>1, <2>2, NothingIsWritten DEF driverVars
<1>4. CASE RunAssembler
  <2>1. wrapper = "as" /\ driverVars' = driverVars /\ exportVars' = exportVars
    BY <1>4 DEF RunAssembler
  <2>2. PICK ok \in {out.there} \cup {FALSE} :
          /\ wrapperRc' = IF ok THEN Success ELSE Failure
          /\ object' = IF ok THEN ObjectOf(out) ELSE NoObject
    BY <1>4 DEF RunAssembler
  <2>3. exitCode = Success
    BY <2>1 DEF FilesInv, WrapperInv
  <2>4. wrapperRc' = Success => object'.section = Assembled(asmText)
    <3>1. CASE ok
      <4>1. object' = ObjectOf(out)
        BY <2>2, <3>1
      <4>2. object'.section = Assembled(out.text)
        BY <4>1 DEF ObjectOf
      <4>3. QED
        BY <1>a, <2>3, <4>2
    <3>2. CASE ~ok
      BY <2>2, <3>2 DEF Success, Failure
    <3>3. QED
      BY <3>1, <3>2
  <2>5. QED
    BY <1>a, <2>1, <2>4, NothingIsWritten DEF driverVars
<1>5. CASE ExecReal
  <2>1. wrapper' = "exec" /\ driverVars' = driverVars /\ exportVars' = exportVars
    BY <1>5 DEF ExecReal
  <2>2. QED
    BY <1>a, <2>1, NothingIsWritten DEF driverVars
<1>6. CASE Edit
  <2>1. /\ wrapper' = "idle" /\ UNCHANGED <<phase, out, exitCode>> /\ exportVars' = exportVars
    BY <1>6 DEF Edit
  <2>2. QED
    BY <1>a, <2>1, NothingIsWritten
<1>7. QED
  BY <1>1, <1>2, <1>3, <1>4, <1>5, <1>6 DEF WrapperStep

\* Every step keeps it.
LEMMA ExportInvStep ==
  ASSUME FilesInv, ExportInv, [Next]_vars
  PROVE  ExportInv'
<1>1. CASE UNCHANGED <<driverVars, exportVars, wrapperVars>>
  <2>1. UNCHANGED <<phase, exitCode, out, wrapper, wrapperRc, object>> /\ exportVars' = exportVars
    BY <1>1 DEF driverVars, wrapperVars
  <2>2. QED
    BY <2>1, NothingIsWritten DEF ExportInv
<1>2. CASE DriverStep /\ UNCHANGED <<wrapperVars, installVars>>
  BY <1>2, DriverStepKeepsExport
<1>3. CASE WrapperStep
  BY <1>3, WrapperStepKeepsExport
<1>4. QED
  BY <1>1, <1>2, <1>3, StepKinds DEF NoFileStep

\* The invariant of the export data holds throughout.
LEMMA ExportInvariant == Spec => []ExportInv
<1>1. Init => ExportInv
  <2>1. Init => /\ written = <<>> /\ asmText = <<>> /\ exportStarted = FALSE
                /\ exportFinalized = FALSE /\ phase = "idle" /\ exitCode = Running
                /\ wrapper = "idle"
    BY DEF Init, ExportInit, DriverInit, WrapperInit
  <2>2. Running # Success
    BY DEF Running, Success
  <2>3. QED
    BY <2>1, <2>2, NothingWritten DEF ExportInv
<1>2. FilesInv /\ ExportInv /\ [Next]_vars => ExportInv'
  BY ExportInvStep
<1>3. QED
  BY <1>1, <1>2, FilesInvariant, PTL DEF Spec

\* Whatever the chunks are, an importer reads from the object file, or from an archive it
\* is a member of, exactly the bytes the frontend wrote, and nothing where nothing was.
THEOREM ExportIsReadBack == Spec => []ExportReadsBack
<1>1. ASSUME ExportInv PROVE ExportReadsBack
  <2> SUFFICES ASSUME wrapper = "returned" /\ wrapperRc = Success
               PROVE  LET expected == [there |-> written # <<>>, bytes |-> Concatenated(written)]
                          other == [there |-> TRUE, bytes |-> <<"plain">>]
                          library == Archive(<<other, object.section, other>>, <<100, 0, 8>>)
                      IN /\ GoReadExportData(ObjectFile(object.section), 0) = expected
                         /\ GoReadExportData(library, MemberOffset(library, 2)) = expected
                         /\ GoReadExportData(library, 0) = NoSection
                         /\ GoReadExportData(OtherFile, 0) = NoSection
    BY DEF ExportReadsBack
  <2>1. PICK section, other, expected :
          /\ section = object.section /\ other = [there |-> TRUE, bytes |-> <<"plain">>]
          /\ expected = [there |-> written # <<>>, bytes |-> Concatenated(written)]
    OBVIOUS
  <2>2. section = expected
    <3>1. object.section = Assembled(asmText)
      BY <1>1 DEF ExportInv
    <3>2. /\ written \in Seq(Seq(Bytes)) /\ exportFinalized \in BOOLEAN
          /\ IsTextOf(asmText, written, exportFinalized)
      BY <1>1 DEF ExportInv
    <3>3. Assembled(asmText) = [there |-> written # <<>>, bytes |-> Concatenated(written)]
      BY <3>2, AssembledIs
    <3>4. QED
      BY <2>1, <3>1, <3>3
  <2> DEFINE library == Archive(<<other, section, other>>, <<100, 0, 8>>)
  <2>3. /\ GoReadExportData(ObjectFile(section), 0) = section
        /\ GoReadExportData(library, MemberOffset(library, 2)) = section
        /\ GoReadExportData(library, 0) = NoSection
        /\ GoReadExportData(OtherFile, 0) = NoSection
    BY FoundInFiles
  <2>4. QED
    BY <2>1, <2>2, <2>3
<1>2. QED
  BY <1>1, ExportInvariant, PTL
-----------------------------------------------------------------------------
(* The symbols and objects of a module.                                     *)

OwnNames == UNION {FrontendNames[i] : i \in 1..4}
Names == BackendNames \cup OwnNames \cup {ConstName(k) : k \in 0..MaxSymbols}
SymbolType == [name : Names, copy : {0}]
Kinds == {"function", "global", "error", "param"} \cup LocalKinds
ObjectType == [kind : Kinds, symbol : Nat, fn : Nat]

\* Why a name may be the name of a symbol: what was done to create one.
Reserved(n) ==
  /\ n \in Declared => n \in DOMAIN fcnNameMap
  /\ n \in Defined \cup Globals => Asked(n)
  /\ n \in References => n \in DOMAIN structRefs
  /\ \A e \in Builtins : e.flavor = "libcall" /\ n = e.name => bfunction[e.name] # None
  /\ n = Personality => personality # None
  /\ \A k \in 0..MaxSymbols : n = ConstName(k) => k < nametags["const"]

NotYet(n) == \A i \in 1..Len(symbols) : symbols[i].name # n

\* Object o is a function or variable of its own, with a symbol of one of these names.
SymbolFor(o, names, objs, syms) ==
  /\ o \in 1..Len(objs) /\ objs[o].fn = None
  /\ objs[o].symbol \in 1..Len(syms) /\ syms[objs[o].symbol].name \in names

EntrySymbol(e) == IF e.flavor = "libcall" THEN e.name ELSE e.intrinsic

\* No two symbols have the same name, so that LLVM renames none.
SymbolsInv ==
  /\ symbols \in Seq(SymbolType) /\ Len(symbols) >= 1
  /\ objects \in Seq(ObjectType)
  /\ \A i, j \in 1..Len(symbols) : symbols[i].name = symbols[j].name => i = j
  /\ \A n : NotYet(n) \/ Reserved(n)
  /\ nametags \in [{"const"} -> Nat] /\ nametags["const"] < Len(symbols)
  /\ bfunction \in [{e.name : e \in Builtins} -> Nat]

\* What the tables hold has the symbol it is held under.
TablesInv ==
  /\ \A a \in asked : SymbolFor(a.object, SymbolOf(a.name), objects, symbols)
  /\ \A n \in DOMAIN fcnNameMap :
       n \in Declared /\ SymbolFor(fcnNameMap[n], {n}, objects, symbols)
  /\ \A n \in DOMAIN structRefs :
       n \in References /\ SymbolFor(structRefs[n], {n}, objects, symbols)
  /\ \A e \in Builtins : bfunction[e.name] # None =>
       SymbolFor(bfunction[e.name], {EntrySymbol(e)}, objects, symbols)
  /\ personality # None =>
       personality \in 1..Len(symbols) /\ symbols[personality].name = Personality

\* How often an object is held by a map, by the table of builtin functions, and altogether.
Held(map, o) == Cardinality({s \in DOMAIN map : map[s] = o})
TableHeld(t, o) == Cardinality({e \in Builtins : e.flavor = "intrinsic" /\ t[e.name] = o})
FreedBy(o, list, map, t) ==
  Occurrences(o, list) + Held(map, o) + TableHeld(t, o)
  + (IF o \in {ErrorFunction, ErrorVariable} THEN 1 ELSE 0)

\* Every object is held for deletion once: what has no function to delete it by one of
\* the tables, and these hold nothing that is not there.
FreedInv ==
  /\ functions \in Seq(Nat) /\ \A i \in 1..Len(functions) : functions[i] \in 1..Len(objects)
  /\ \A s \in DOMAIN valueVarMap : s \in 1..Len(symbols) /\ valueVarMap[s] \in 1..Len(objects)
  /\ \A e \in Builtins : bfunction[e.name] \in 0..Len(objects)
  /\ 2 <= Len(objects) /\ objects[1].fn = None
  /\ \A o \in 1..Len(objects) :
       IF objects[o].fn = None THEN FreedBy(o, functions, valueVarMap, bfunction) = 1
       ELSE objects[o].fn \in 1..Len(objects) /\ objects[objects[o].fn].fn = None

ModuleInv == SymbolsInv /\ TablesInv /\ FreedInv

\* The frontend's names, those of the backend and the generated ones are apart.
LEMMA Apart ==
  /\ \A n \in OwnNames : n \notin BackendNames
  /\ \A n \in Declared : n \in OwnNames /\ n \notin Defined \cup Globals \cup References
  /\ \A n \in Defined : n \in OwnNames /\ n \notin Declared \cup Globals \cup References
  /\ \A n \in Globals : n \in OwnNames /\ n \notin Declared \cup Defined \cup References
  /\ \A n \in References : n \in OwnNames /\ n \notin Declared \cup Defined \cup Globals
  /\ \A e \in Builtins : {e.name, e.libname, e.intrinsic} \subseteq BackendNames
  /\ Personality \in BackendNames /\ "" \in BackendNames
  /\ \A k \in 0..MaxSymbols : ConstName(k) \notin BackendNames \cup OwnNames
<1> DEFINE F == FrontendNames
<1>1. F[1] = Declared /\ F[2] = Defined /\ F[3] = Globals /\ F[4] = References
  BY DEF FrontendNames
<1>2. \A i \in 1..4 : F[i] \subseteq OwnNames
  BY DEF OwnNames
<1>3. \A i \in 1..4 : F[i] \cap BackendNames = {}
  BY NameAssumption
<1>4. \A i, j \in 1..4 : i # j => F[i] \cap F[j] = {}
  BY NameAssumption
<1> HIDE DEF F
<1>5. 1 \in 1..4 /\ 2 \in 1..4 /\ 3 \in 1..4 /\ 4 \in 1..4
  OBVIOUS
<1>6. /\ Declared \cap Defined = {} /\ Declared \cap Globals = {} /\ Declared \cap References = {}
      /\ Defined \cap Globals = {} /\ Defined \cap References = {}
      /\ Globals \cap References = {}
  BY <1>1, <1>4, <1>5
<1>7. \A n \in OwnNames : n \notin BackendNames
  BY <1>3 DEF OwnNames, F
<1>8. /\ Declared \subseteq OwnNames /\ Defined \subseteq OwnNames
      /\ Globals \subseteq OwnNames /\ References \subseteq OwnNames
  BY <1>1, <1>2, <1>5
<1>9. /\ \A e \in Builtins : {e.name, e.libname, e.intrinsic} \subseteq BackendNames
      /\ Personality \in BackendNames /\ "" \in BackendNames
  BY DEF BackendNames
<1>10. \A k \in 0..MaxSymbols : ConstName(k) \notin BackendNames \cup OwnNames
  BY TagAssumption DEF OwnNames
<1>11. QED
  BY <1>6, <1>7, <1>8, <1>9, <1>10

\* What is asked for under a name that is not in the table of builtin functions is the
\* symbol of this name.
LEMMA OwnSymbol ==
  ASSUME NEW n, n \notin BackendNames
  PROVE  SymbolOf(n) = {n}
<1>1. Found(n) = {}
  BY Apart DEF Found
<1>2. QED
  BY <1>1 DEF SymbolOf

\* A symbol that is created under a new name keeps it.
LEMMA SymbolAdded ==
  ASSUME SymbolsInv, NEW n \in Names, NotYet(n), symbols' = Append(symbols, Created(n))
  PROVE  /\ symbols' \in Seq(SymbolType) /\ Len(symbols') = Len(symbols) + 1
         /\ Len(symbols) \in Nat
         /\ \A i \in 1..Len(symbols) : symbols'[i] = symbols[i]
         /\ symbols'[Len(symbols) + 1].name = n
         /\ \A i, j \in 1..Len(symbols') : symbols'[i].name = symbols'[j].name => i = j
         /\ \A m : NotYet(m)' <=> NotYet(m) /\ m # n
         /\ NewSymbol \in 1..Len(symbols') /\ NewSymbol \in Nat /\ NewSymbol \notin 1..Len(symbols)
<1> DEFINE more == symbols'
<1>1. symbols \in Seq(SymbolType) /\ DOMAIN symbols = 1..Len(symbols) /\ Len(symbols) \in Nat
  BY LenProperties DEF SymbolsInv
<1>2. {i \in DOMAIN symbols : symbols[i].name = n} = {}
  BY <1>1 DEF NotYet
<1>3. Created(n) = Symbol(n, 0)
  BY <1>2, FS_EmptySet DEF Created
<1>4. Created(n) \in SymbolType /\ Created(n).name = n
  BY <1>3 DEF Symbol, SymbolType
<1>5. /\ more \in Seq(SymbolType) /\ Len(more) = Len(symbols) + 1
      /\ \A i \in 1..Len(symbols) : more[i] = symbols[i]
      /\ more[Len(symbols) + 1].name = n
  BY <1>1, <1>4, AppendProperties
<1>6. ASSUME NEW i \in 1..Len(more), NEW j \in 1..Len(more), more[i].name = more[j].name
      PROVE  i = j
  <2>1. (i \in 1..Len(symbols) \/ i = Len(symbols) + 1)
        /\ (j \in 1..Len(symbols) \/ j = Len(symbols) + 1)
    BY <1>1, <1>5
  <2>2. \A k \in 1..Len(symbols) : more[k].name # n
    BY <1>5 DEF NotYet
  <2>3. CASE i \in 1..Len(symbols) /\ j \in 1..Len(symbols)
    BY <1>5, <1>6, <2>3 DEF SymbolsInv
  <2>4. QED
    BY <1>5, <1>6, <2>1, <2>2, <2>3
<1>7. ASSUME NEW m PROVE NotYet(m)' <=> NotYet(m) /\ m # n
  <2> DEFINE k == Len(symbols)
  <2>1. k \in Nat /\ Len(symbols') = k + 1 /\ symbols'[k + 1].name = n
    BY <1>1, <1>5
  <2>2. \A i \in 1..k : symbols'[i] = symbols[i]
    BY <1>5
  <2>3. NotYet(m) <=> \A i \in 1..k : symbols[i].name # m
    BY DEF NotYet
  <2>4. NotYet(m)' <=> \A i \in 1..(k + 1) : symbols'[i].name # m
    BY <2>1 DEF NotYet
  <2> HIDE DEF k
  <2>5. QED
    BY <2>1, <2>2, <2>3, <2>4
<1>8. QED
  BY <1>1, <1>5, <1>6, <1>7 DEF NewSymbol

LEMMA ObjectAdded ==
  ASSUME objects \in Seq(ObjectType), NEW obj \in ObjectType, objects' = Append(objects, obj)
  PROVE  /\ objects' \in Seq(ObjectType) /\ Len(objects') = Len(objects) + 1 /\ Len(objects) \in Nat
         /\ \A o \in 1..Len(objects) : objects'[o] = objects[o] /\ o \in 1..Len(objects')
         /\ objects'[Len(objects) + 1] = obj /\ Len(objects) + 1 \in 1..Len(objects')
<1>1. /\ objects' \in Seq(ObjectType) /\ Len(objects') = Len(objects) + 1 /\ Len(objects) \in Nat
      /\ \A o \in 1..Len(objects) : objects'[o] = objects[o]
      /\ objects'[Len(objects) + 1] = obj
  BY AppendProperties, LenProperties
<1>2. QED
  BY <1>1

\* Symbols and objects are only added, so that what a table holds keeps its symbol.
Longer(s, t) == Len(s) \in Nat /\ Len(t) \in Nat /\ Len(s) <= Len(t)
                /\ \A i \in 1..Len(s) : t[i] = s[i]

LEMMA SymbolForKept ==
  ASSUME NEW objs, NEW objs2, NEW syms, NEW syms2, Longer(objs, objs2), Longer(syms, syms2)
  PROVE  \A o, names : SymbolFor(o, names, objs, syms) => SymbolFor(o, names, objs2, syms2)
<1> SUFFICES ASSUME NEW o, NEW names, SymbolFor(o, names, objs, syms)
             PROVE  SymbolFor(o, names, objs2, syms2)
  OBVIOUS
<1>1. objs2[o] = objs[o] /\ o \in 1..Len(objs2)
  BY DEF Longer, SymbolFor
<1>2. objs[o].symbol \in 1..Len(syms2) /\ syms2[objs[o].symbol] = syms[objs[o].symbol]
  BY DEF Longer, SymbolFor
<1>3. QED
  BY <1>1, <1>2 DEF SymbolFor

LEMMA ReservedKept ==
  ASSUME DOMAIN fcnNameMap \subseteq DOMAIN fcnNameMap', DOMAIN structRefs \subseteq DOMAIN structRefs',
         asked \subseteq asked', personality # None => personality' # None,
         nametags["const"] \in Nat, nametags'["const"] \in Nat,
         nametags["const"] <= nametags'["const"],
         \A e \in Builtins : bfunction[e.name] # None => bfunction'[e.name] # None
  PROVE  \A n : Reserved(n) => Reserved(n)'
<1>1. \A n : Asked(n) => Asked(n)'
  BY DEF Asked
<1>2. \A k \in 0..MaxSymbols : k < nametags["const"] => k < nametags'["const"]
  <2>1. MaxSymbols \in Nat
    BY PlanAssumption
  <2>2. QED
    BY <2>1
<1>3. QED
  BY <1>1, <1>2 DEF Reserved

\* A step that creates a symbol under a new name.
LEMMA SymbolsStep ==
  ASSUME SymbolsInv, NEW n \in Names, NotYet(n), symbols' = Append(symbols, Created(n)),
         objects' \in Seq(ObjectType),
         Reserved(n)', \A m : Reserved(m) => Reserved(m)',
         nametags' \in [{"const"} -> Nat], nametags'["const"] <= Len(symbols),
         bfunction' \in [{e.name : e \in Builtins} -> Nat]
  PROVE  SymbolsInv' /\ Longer(symbols, symbols')
<1>1. /\ symbols' \in Seq(SymbolType) /\ Len(symbols') = Len(symbols) + 1
      /\ \A i \in 1..Len(symbols) : symbols'[i] = symbols[i]
      /\ symbols'[Len(symbols) + 1].name = n
      /\ \A i, j \in 1..Len(symbols') : symbols'[i].name = symbols'[j].name => i = j
  BY SymbolAdded
<1>2. Len(symbols) \in Nat /\ Len(symbols) >= 1
  BY LenProperties DEF SymbolsInv
<1>3. ASSUME NEW m PROVE NotYet(m)' \/ Reserved(m)'
  <2>1. NotYet(m)' <=> NotYet(m) /\ m # n
    BY SymbolAdded
  <2>2. NotYet(m) \/ Reserved(m)
    BY DEF SymbolsInv
  <2>3. Reserved(m) => Reserved(m)'
    OBVIOUS
  <2>4. CASE m = n
    BY <2>4
  <2>5. CASE m # n
    BY <2>1, <2>2, <2>3, <2>5
  <2>6. QED
    BY <2>4, <2>5
<1>4. Longer(symbols, symbols')
  BY <1>1, <1>2 DEF Longer
<1>5. nametags'["const"] < Len(symbols')
  BY <1>1, <1>2
<1>6. Len(symbols') >= 1
  BY <1>1, <1>2
<1>7. QED
  BY <1>1, <1>3, <1>4, <1>5, <1>6 DEF SymbolsInv

\* A step that creates none.
LEMMA SymbolsSame ==
  ASSUME SymbolsInv, UNCHANGED symbols, objects' \in Seq(ObjectType),
         \A m : Reserved(m) => Reserved(m)', UNCHANGED nametags,
         bfunction' \in [{e.name : e \in Builtins} -> Nat]
  PROVE  SymbolsInv' /\ Longer(symbols, symbols')
<1>1. Longer(symbols, symbols')
  <2>1. Len(symbols) \in Nat
    BY LenProperties DEF SymbolsInv
  <2>2. QED
    BY <2>1 DEF Longer
<1>2. ASSUME NEW m PROVE NotYet(m)' \/ Reserved(m)'
  <2>1. NotYet(m)' <=> NotYet(m)
    BY DEF NotYet
  <2>2. NotYet(m) \/ Reserved(m)
    BY DEF SymbolsInv
  <2>3. QED
    BY <2>1, <2>2
<1>3. QED
  BY <1>1, <1>2 DEF SymbolsInv

\* What is new in a table has the symbol it is held under.
LEMMA TablesStep ==
  ASSUME TablesInv, Longer(symbols, symbols'), Longer(objects, objects'),
         \A a \in asked' : a \in asked \/ SymbolFor(a.object, SymbolOf(a.name), objects', symbols'),
         \A n \in DOMAIN fcnNameMap' :
           \/ n \in DOMAIN fcnNameMap /\ fcnNameMap'[n] = fcnNameMap[n]
           \/ n \in Declared /\ SymbolFor(fcnNameMap'[n], {n}, objects', symbols'),
         \A n \in DOMAIN structRefs' :
           \/ n \in DOMAIN structRefs /\ structRefs'[n] = structRefs[n]
           \/ n \in References /\ SymbolFor(structRefs'[n], {n}, objects', symbols'),
         \A e \in Builtins :
           \/ bfunction'[e.name] = bfunction[e.name]
           \/ SymbolFor(bfunction'[e.name], {EntrySymbol(e)}, objects', symbols'),
         \/ personality' = personality
         \/ personality' \in 1..Len(symbols') /\ symbols'[personality'].name = Personality
  PROVE  TablesInv'
<1>1. \A o, names : SymbolFor(o, names, objects, symbols) => SymbolFor(o, names, objects', symbols')
  BY SymbolForKept
<1>2. \A a \in asked' : SymbolFor(a.object, SymbolOf(a.name), objects', symbols')
  BY <1>1 DEF TablesInv
<1>3. \A n \in DOMAIN fcnNameMap' :
        n \in Declared /\ SymbolFor(fcnNameMap'[n], {n}, objects', symbols')
  BY <1>1 DEF TablesInv
<1>4. \A n \in DOMAIN structRefs' :
        n \in References /\ SymbolFor(structRefs'[n], {n}, objects', symbols')
  BY <1>1 DEF TablesInv
<1>5. \A e \in Builtins : bfunction'[e.name] # None =>
        SymbolFor(bfunction'[e.name], {EntrySymbol(e)}, objects', symbols')
  BY <1>1 DEF TablesInv
<1>6. personality' # None =>
        personality' \in 1..Len(symbols') /\ symbols'[personality'].name = Personality
  BY DEF TablesInv, Longer
<1>7. QED
  BY <1>2, <1>3, <1>4, <1>5, <1>6 DEF TablesInv

\* The new object of a step that creates one with a symbol of its own.
LEMMA MadeWithSymbol ==
  ASSUME SymbolsInv, NEW n \in Names, NotYet(n), symbols' = Append(symbols, Created(n)),
         NEW kind \in Kinds, objects' = Append(objects, Object(kind, NewSymbol, None))
  PROVE  /\ objects' \in Seq(ObjectType) /\ Longer(objects, objects')
         /\ NewObject \in Nat /\ NewObject # None
         /\ SymbolFor(NewObject, {n}, objects', symbols')
<1>1. /\ NewSymbol \in 1..Len(symbols') /\ NewSymbol \in Nat
      /\ symbols'[NewSymbol].name = n
  BY SymbolAdded DEF NewSymbol
<1>2. Object(kind, NewSymbol, None) \in ObjectType
  BY <1>1 DEF Object, ObjectType, None
<1>3. objects \in Seq(ObjectType)
  BY DEF SymbolsInv
<1>4. /\ objects' \in Seq(ObjectType) /\ Len(objects') = Len(objects) + 1 /\ Len(objects) \in Nat
      /\ \A o \in 1..Len(objects) : objects'[o] = objects[o] /\ o \in 1..Len(objects')
      /\ objects'[Len(objects) + 1] = Object(kind, NewSymbol, None)
      /\ Len(objects) + 1 \in 1..Len(objects')
  BY <1>2, <1>3, ObjectAdded
<1>5. Longer(objects, objects')
  BY <1>4 DEF Longer
<1>6. SymbolFor(Len(objects) + 1, {n}, objects', symbols')
  BY <1>1, <1>4 DEF SymbolFor, Object
<1>7. QED
  BY <1>4, <1>5, <1>6 DEF NewObject, None

-----------------------------------------------------------------------------
(* Who deletes an object.                                                   *)

LEMMA FreedDirectlyIs ==
  \A o : FreedDirectly(o) = FreedBy(o, functions, valueVarMap, bfunction)
BY DEF FreedDirectly, FreedByTable, Held, TableHeld, FreedBy

LEMMA ListAdded ==
  ASSUME NEW list \in Seq(Nat), NEW new \in Nat, \A i \in 1..Len(list) : list[i] # new
  PROVE  /\ Append(list, new) \in Seq(Nat)
         /\ Occurrences(new, list) = 0 /\ Occurrences(new, Append(list, new)) = 1
         /\ \A o : o # new => Occurrences(o, Append(list, new)) = Occurrences(o, list)
         /\ Len(Append(list, new)) = Len(list) + 1 /\ Len(list) \in Nat
         /\ Append(list, new)[Len(list) + 1] = new
         /\ \A i \in 1..Len(list) : Append(list, new)[i] = list[i]
<1> DEFINE more == Append(list, new)
           n == Len(list)
<1>1. /\ more \in Seq(Nat) /\ Len(more) = n + 1 /\ n \in Nat /\ more[n + 1] = new
      /\ \A i \in 1..n : more[i] = list[i]
      /\ DOMAIN list = 1..n /\ DOMAIN more = 1..(n + 1)
  BY AppendProperties, LenProperties
<1> HIDE DEF more, n
<1>2. {i \in DOMAIN list : list[i] = new} = {}
  BY <1>1 DEF n
<1>3. {i \in DOMAIN more : more[i] = new} = {n + 1}
  BY <1>1 DEF n
<1>4. ASSUME NEW o, o # new
      PROVE  {i \in DOMAIN more : more[i] = o} = {i \in DOMAIN list : list[i] = o}
  BY <1>1, <1>4
<1>6. Occurrences(new, list) = 0
  BY <1>2, FS_EmptySet DEF Occurrences
<1>7. Occurrences(new, more) = 1
  BY <1>3, FS_Singleton DEF Occurrences
<1>8. \A o : o # new => Occurrences(o, more) = Occurrences(o, list)
  BY <1>4 DEF Occurrences
<1>9. more \in Seq(Nat)
  BY <1>1
<1>10. QED
  BY <1>1, <1>6, <1>7, <1>8, <1>9 DEF more, n

LEMMA MapAdded ==
  ASSUME NEW key, key \notin DOMAIN valueVarMap, NEW new,
         \A s \in DOMAIN valueVarMap : valueVarMap[s] # new,
         valueVarMap' = With(valueVarMap, key, new)
  PROVE  /\ DOMAIN valueVarMap' = {key} \cup DOMAIN valueVarMap
         /\ valueVarMap'[key] = new
         /\ \A s \in DOMAIN valueVarMap : valueVarMap'[s] = valueVarMap[s]
         /\ Held(valueVarMap, new) = 0 /\ Held(valueVarMap', new) = 1
         /\ \A o : o # new => Held(valueVarMap', o) = Held(valueVarMap, o)
<1> DEFINE map == valueVarMap
           more == valueVarMap'
<1>1. /\ DOMAIN more = {key} \cup DOMAIN map
      /\ more[key] = new /\ \A s \in DOMAIN map : more[s] = map[s]
  BY DEF With
<1> HIDE DEF map, more
<1>2. {s \in DOMAIN map : map[s] = new} = {} /\ {s \in DOMAIN more : more[s] = new} = {key}
  BY <1>1 DEF map
<1>3. \A o : o # new => {s \in DOMAIN more : more[s] = o} = {s \in DOMAIN map : map[s] = o}
  BY <1>1
<1>4. Held(map, new) = 0 /\ Held(more, new) = 1
  BY <1>2, FS_EmptySet, FS_Singleton DEF Held
<1>5. \A o : o # new => Held(more, o) = Held(map, o)
  BY <1>3 DEF Held
<1>6. QED
  BY <1>1, <1>4, <1>5 DEF map, more

\* The entries of the table have names of their own.
LEMMA EntryNames == \A e, d \in Builtins : e.name = d.name => e = d
<1> SUFFICES ASSUME NEW e \in Builtins, NEW d \in Builtins, e.name = d.name PROVE e = d
  OBVIOUS
<1>1. Found(e.name) = {e} /\ d \in Found(e.name)
  BY TableAssumption DEF Found
<1>2. QED
  BY <1>1

LEMMA TableAdded ==
  ASSUME bfunction \in [{e.name : e \in Builtins} -> Nat], NEW e \in Builtins,
         bfunction[e.name] = None, NEW new \in Nat, new # None,
         \A d \in Builtins : bfunction[d.name] # new, bfunction' = Remembered(e, new)
  PROVE  /\ bfunction' \in [{d.name : d \in Builtins} -> Nat]
         /\ bfunction'[e.name] = new
         /\ \A d \in Builtins : d # e => bfunction'[d.name] = bfunction[d.name]
         /\ TableHeld(bfunction, new) = 0
         /\ TableHeld(bfunction', new) = IF e.flavor = "intrinsic" THEN 1 ELSE 0
         /\ \A o : o # new /\ o # None => TableHeld(bfunction', o) = TableHeld(bfunction, o)
<1> DEFINE t == bfunction
           more == bfunction'
<1>1. /\ more \in [{d.name : d \in Builtins} -> Nat] /\ more[e.name] = new
      /\ \A d \in Builtins : d # e => more[d.name] = t[d.name]
  BY EntryNames DEF Remembered
<1>2. {d \in Builtins : d.flavor = "intrinsic" /\ t[d.name] = new} = {}
  OBVIOUS
<1>3. {d \in Builtins : d.flavor = "intrinsic" /\ more[d.name] = new}
        = IF e.flavor = "intrinsic" THEN {e} ELSE {}
  BY <1>1
<1>4. \A o : o # new /\ o # None =>
        {d \in Builtins : d.flavor = "intrinsic" /\ more[d.name] = o}
          = {d \in Builtins : d.flavor = "intrinsic" /\ t[d.name] = o}
  BY <1>1
<1>5. TableHeld(t, new) = 0
  BY <1>2, FS_EmptySet DEF TableHeld
<1>6. TableHeld(more, new) = IF e.flavor = "intrinsic" THEN 1 ELSE 0
  <2>1. CASE e.flavor = "intrinsic"
    BY <1>3, <2>1, FS_Singleton DEF TableHeld
  <2>2. CASE e.flavor # "intrinsic"
    BY <1>3, <2>2, FS_EmptySet DEF TableHeld
  <2>3. QED
    BY <2>1, <2>2
<1>7. \A o : o # new /\ o # None => TableHeld(more, o) = TableHeld(t, o)
  BY <1>4 DEF TableHeld
<1>8. QED
  BY <1>1, <1>5, <1>6, <1>7

LEMMA ObjectIs ==
  \A kind \in Kinds : \A symbol, fn \in Nat :
    /\ Object(kind, symbol, fn) \in ObjectType
    /\ Object(kind, symbol, fn).kind = kind
    /\ Object(kind, symbol, fn).symbol = symbol /\ Object(kind, symbol, fn).fn = fn
BY DEF Object, ObjectType

\* Nothing holds the object that is next.
LEMMA NextUnheld ==
  ASSUME FreedInv, SymbolsInv
  PROVE  /\ Len(objects) \in Nat /\ NewObject = Len(objects) + 1 /\ NewObject \in Nat
         /\ NewObject \notin {None, ErrorFunction, ErrorVariable}
         /\ \A i \in 1..Len(functions) : functions[i] # NewObject
         /\ \A s \in DOMAIN valueVarMap : valueVarMap[s] # NewObject
         /\ \A e \in Builtins : bfunction[e.name] # NewObject
         /\ Occurrences(NewObject, functions) = 0 /\ Held(valueVarMap, NewObject) = 0
         /\ TableHeld(bfunction, NewObject) = 0
<1>1. Len(objects) \in Nat /\ NewObject = Len(objects) + 1 /\ 2 <= Len(objects)
  BY LenProperties DEF SymbolsInv, FreedInv, NewObject
<1>2. \A x \in 0..Len(objects) : x # NewObject
  BY <1>1
<1>3. /\ \A i \in 1..Len(functions) : functions[i] # NewObject
      /\ \A s \in DOMAIN valueVarMap : valueVarMap[s] # NewObject
      /\ \A e \in Builtins : bfunction[e.name] # NewObject
  BY <1>1, <1>2 DEF FreedInv
<1>4. NewObject \in Nat /\ NewObject \notin {None, ErrorFunction, ErrorVariable}
  BY <1>1 DEF None, ErrorFunction, ErrorVariable
<1>5. Occurrences(NewObject, functions) = 0
  BY <1>3, <1>4, ListAdded DEF FreedInv
<1>6. {s \in DOMAIN valueVarMap : valueVarMap[s] = NewObject} = {}
  BY <1>3
<1>7. {e \in Builtins : e.flavor = "intrinsic" /\ bfunction[e.name] = NewObject} = {}
  BY <1>3
<1>8. Held(valueVarMap, NewObject) = 0
  BY <1>6, FS_EmptySet DEF Held
<1>9. TableHeld(bfunction, NewObject) = 0
  BY <1>7, FS_EmptySet DEF TableHeld
<1>10. QED
  BY <1>1, <1>3, <1>4, <1>5, <1>8, <1>9

\* A step that creates an object that one of the tables holds.
LEMMA HeldFreed ==
  ASSUME FreedInv, SymbolsInv, Longer(symbols, symbols'),
         NEW obj \in ObjectType, objects' = Append(objects, obj), obj.fn = None,
         functions' \in Seq(Nat), \A i \in 1..Len(functions') : functions'[i] \in 1..NewObject,
         \A s \in DOMAIN valueVarMap' : s \in 1..Len(symbols') /\ valueVarMap'[s] \in 1..NewObject,
         \A e \in Builtins : bfunction'[e.name] \in 0..NewObject,
         FreedBy(NewObject, functions', valueVarMap', bfunction') = 1,
         \A o : o # None /\ o # NewObject =>
           FreedBy(o, functions', valueVarMap', bfunction')
             = FreedBy(o, functions, valueVarMap, bfunction)
  PROVE  FreedInv'
<1> DEFINE k == Len(objects)
           new == NewObject
<1>1. k \in Nat /\ new = k + 1 /\ 2 <= k
  BY NextUnheld DEF FreedInv
<1>2. /\ Len(objects') = k + 1 /\ objects'[k + 1] = obj
      /\ \A o \in 1..k : objects'[o] = objects[o]
  BY ObjectAdded DEF SymbolsInv
<1>3. ASSUME NEW o \in 1..Len(objects')
      PROVE  IF objects'[o].fn = None THEN FreedBy(o, functions', valueVarMap', bfunction') = 1
             ELSE objects'[o].fn \in 1..Len(objects') /\ objects'[objects'[o].fn].fn = None
  <2>1. CASE o = k + 1
    <3>1. objects'[o].fn = None /\ o = NewObject
      BY <1>1, <1>2, <2>1
    <3>2. QED
      BY <3>1
  <2>2. CASE o # k + 1
    <3>1. o \in 1..k /\ o # None /\ o # NewObject
      BY <1>1, <1>2, <2>2 DEF None
    <3>2. objects'[o] = objects[o]
      BY <1>2, <3>1
    <3>3. IF objects[o].fn = None THEN FreedBy(o, functions, valueVarMap, bfunction) = 1
          ELSE objects[o].fn \in 1..k /\ objects[objects[o].fn].fn = None
      BY <3>1 DEF FreedInv
    <3>4. FreedBy(o, functions', valueVarMap', bfunction')
            = FreedBy(o, functions, valueVarMap, bfunction)
      BY <3>1
    <3>5. CASE objects[o].fn = None
      BY <3>2, <3>3, <3>4, <3>5
    <3>6. CASE objects[o].fn # None
      <4> DEFINE f == objects[o].fn
      <4>1. f \in 1..k /\ objects[f].fn = None
        BY <3>3, <3>6
      <4>2. objects'[f] = objects[f] /\ f \in 1..Len(objects')
        BY <1>1, <1>2, <4>1
      <4>3. QED
        BY <3>2, <3>6, <4>1, <4>2
    <3>7. QED
      BY <3>5, <3>6
  <2>3. QED
    BY <2>1, <2>2
<1>4. 2 <= Len(objects') /\ objects'[1].fn = None
  <2>1. 1 \in 1..k
    BY <1>1
  <2>2. QED
    BY <1>1, <1>2, <2>1 DEF FreedInv
<1>5. new = Len(objects')
  BY <1>1, <1>2
<1>6. QED
  BY <1>3, <1>4, <1>5 DEF FreedInv

\* A step that creates no object, and one that creates a variable of a function.
LEMMA SameFreed ==
  ASSUME FreedInv, SymbolsInv, Longer(symbols, symbols'),
         UNCHANGED <<objects, functions, valueVarMap, bfunction>>
  PROVE  FreedInv'
<1>1. Len(symbols) \in Nat /\ Len(symbols') \in Nat /\ Len(symbols) <= Len(symbols')
  BY DEF Longer
<1>2. \A s \in DOMAIN valueVarMap' : s \in 1..Len(symbols')
  BY <1>1 DEF FreedInv
<1>3. QED
  BY <1>2 DEF FreedInv

LEMMA VariableFreed ==
  ASSUME FreedInv, SymbolsInv, UNCHANGED <<symbols, functions, valueVarMap, bfunction>>,
         NEW obj \in ObjectType, objects' = Append(objects, obj),
         obj.fn \in 1..Len(objects), objects[obj.fn].fn = None
  PROVE  FreedInv'
<1> DEFINE k == Len(objects)
<1>1. k \in Nat /\ 2 <= k
  BY NextUnheld DEF FreedInv
<1>2. /\ Len(objects') = k + 1 /\ objects'[k + 1] = obj
      /\ \A o \in 1..k : objects'[o] = objects[o]
  BY ObjectAdded DEF SymbolsInv
<1>3. obj.fn # None /\ objects'[obj.fn].fn = None /\ obj.fn \in 1..Len(objects')
  BY <1>1, <1>2 DEF None
<1>4. ASSUME NEW o \in 1..Len(objects')
      PROVE  IF objects'[o].fn = None THEN FreedBy(o, functions', valueVarMap', bfunction') = 1
             ELSE objects'[o].fn \in 1..Len(objects') /\ objects'[objects'[o].fn].fn = None
  <2>1. CASE o = k + 1
    BY <1>2, <1>3, <2>1
  <2>2. CASE o # k + 1
    <3>1. o \in 1..k
      BY <1>1, <1>2, <2>2
    <3>2. objects'[o] = objects[o]
      BY <1>2, <3>1
    <3>3. IF objects[o].fn = None THEN FreedBy(o, functions, valueVarMap, bfunction) = 1
          ELSE objects[o].fn \in 1..k /\ objects[objects[o].fn].fn = None
      BY <3>1 DEF FreedInv
    <3>4. FreedBy(o, functions', valueVarMap', bfunction')
            = FreedBy(o, functions, valueVarMap, bfunction)
      OBVIOUS
    <3>5. CASE objects[o].fn = None
      BY <3>2, <3>3, <3>4, <3>5
    <3>6. CASE objects[o].fn # None
      <4> DEFINE f == objects[o].fn
      <4>1. f \in 1..k /\ objects[f].fn = None
        BY <3>3, <3>6
      <4>2. objects'[f] = objects[f] /\ f \in 1..Len(objects')
        BY <1>1, <1>2, <4>1
      <4>3. QED
        BY <3>2, <3>6, <4>1, <4>2
    <3>7. QED
      BY <3>5, <3>6
  <2>3. QED
    BY <2>1, <2>2
<1>5. 2 <= Len(objects') /\ objects'[1].fn = None
  <2>1. 1 \in 1..k
    BY <1>1
  <2>2. QED
    BY <1>1, <1>2, <2>1 DEF FreedInv
<1>6. 1..k \subseteq 1..Len(objects') /\ 0..k \subseteq 0..Len(objects')
  BY <1>1, <1>2
<1>7. QED
  BY <1>4, <1>5, <1>6 DEF FreedInv

\* A new function is deleted through the list, unless it is an intrinsic function, which the
\* table deletes.
LEMMA FunctionFreed ==
  ASSUME FreedInv, SymbolsInv, Longer(symbols, symbols'), NEW sym \in Nat,
         objects' = Append(objects, Object("function", sym, None)),
         functions' = Append(functions, NewObject), UNCHANGED valueVarMap,
         \/ UNCHANGED bfunction
         \/ \E e \in Builtins : /\ e.flavor = "libcall" /\ bfunction[e.name] = None
                                /\ bfunction' = Remembered(e, NewObject)
  PROVE  FreedInv'
<1> DEFINE new == NewObject
           obj == Object("function", sym, None)
<1>1. obj \in ObjectType /\ obj.fn = None
  <2>1. "function" \in Kinds /\ None \in Nat
    BY DEF None, Kinds
  <2>2. QED
    BY <2>1, ObjectIs DEF None
<1>2. /\ Len(objects) \in Nat /\ new = Len(objects) + 1 /\ new \in Nat
      /\ new \notin {None, ErrorFunction, ErrorVariable}
      /\ Held(valueVarMap, new) = 0 /\ TableHeld(bfunction, new) = 0
      /\ \A i \in 1..Len(functions) : functions[i] # new
      /\ \A e \in Builtins : bfunction[e.name] # new
  BY NextUnheld
<1>3. functions \in Seq(Nat)
  BY DEF FreedInv
<1>4. /\ functions' \in Seq(Nat) /\ Occurrences(new, functions') = 1
      /\ \A o : o # new => Occurrences(o, functions') = Occurrences(o, functions)
      /\ Len(functions') = Len(functions) + 1 /\ Len(functions) \in Nat
      /\ functions'[Len(functions) + 1] = new
      /\ \A i \in 1..Len(functions) : functions'[i] = functions[i]
  BY <1>2, <1>3, ListAdded
<1>5. /\ \A o : o # None => TableHeld(bfunction', o) = TableHeld(bfunction, o)
      /\ \A e \in Builtins : bfunction'[e.name] \in 0..new
  <2>1. \A e \in Builtins : bfunction[e.name] \in 0..new
    BY <1>2 DEF FreedInv
  <2>2. CASE UNCHANGED bfunction
    BY <2>1, <2>2
  <2>3. ASSUME NEW e \in Builtins, e.flavor = "libcall", bfunction[e.name] = None,
               bfunction' = Remembered(e, NewObject)
        PROVE  /\ \A o : o # None => TableHeld(bfunction', o) = TableHeld(bfunction, o)
               /\ \A d \in Builtins : bfunction'[d.name] \in 0..new
    <3>1. bfunction \in [{d.name : d \in Builtins} -> Nat]
      BY DEF SymbolsInv
    <3>2. bfunction' = [bfunction EXCEPT ![e.name] = new]
      BY <2>3 DEF Remembered
    <3>3. new \in Nat /\ new # None /\ \A d \in Builtins : bfunction[d.name] # new
      BY <1>2
    <3> HIDE DEF new
    <3>4. /\ bfunction'[e.name] = new
          /\ \A d \in Builtins : d # e => bfunction'[d.name] = bfunction[d.name]
          /\ TableHeld(bfunction, new) = 0
          /\ TableHeld(bfunction', new) = IF e.flavor = "intrinsic" THEN 1 ELSE 0
          /\ \A o : o # new /\ o # None => TableHeld(bfunction', o) = TableHeld(bfunction, o)
      BY <2>3, <3>1, <3>3, TableAdded DEF new
    <3>5. TableHeld(bfunction', new) = TableHeld(bfunction, new)
      BY <2>3, <3>4
    <3>6. \A o : o # None => TableHeld(bfunction', o) = TableHeld(bfunction, o)
      BY <3>4, <3>5
    <3>7. new \in 0..new
      BY <3>3
    <3>8. \A d \in Builtins : bfunction'[d.name] \in 0..new
      BY <2>1, <3>4, <3>7 DEF new
    <3>9. QED
      BY <3>6, <3>8
  <2>4. QED
    BY <2>2, <2>3
<1>6. \A i \in 1..Len(functions') : functions'[i] \in 1..new
  <2>1. \A i \in 1..Len(functions) : functions[i] \in 1..new
    BY <1>2 DEF FreedInv
  <2>2. new \in 1..new
    BY <1>2
  <2>3. \A i \in 1..Len(functions') : i \in 1..Len(functions) \/ i = Len(functions) + 1
    BY <1>4
  <2>4. QED
    BY <1>4, <2>1, <2>2, <2>3
<1>7. \A s \in DOMAIN valueVarMap' : s \in 1..Len(symbols') /\ valueVarMap'[s] \in 1..new
  BY <1>2 DEF FreedInv, Longer
<1>8. FreedBy(new, functions', valueVarMap', bfunction') = 1
  <2>1. /\ Occurrences(new, functions') = 1 /\ Held(valueVarMap', new) = 0
        /\ TableHeld(bfunction', new) = 0
    BY <1>2, <1>4, <1>5
  <2>2. new \notin {ErrorFunction, ErrorVariable}
    BY <1>2
  <2> HIDE DEF new
  <2>3. QED
    BY <2>1, <2>2 DEF FreedBy
<1>9. \A o : o # None /\ o # new =>
        FreedBy(o, functions', valueVarMap', bfunction')
          = FreedBy(o, functions, valueVarMap, bfunction)
  BY <1>4, <1>5 DEF FreedBy
<1>10. QED
  BY <1>1, <1>4, <1>5, <1>6, <1>7, <1>8, <1>9, HeldFreed

LEMMA IntrinsicFreed ==
  ASSUME FreedInv, SymbolsInv, Longer(symbols, symbols'), NEW sym \in Nat,
         objects' = Append(objects, Object("function", sym, None)),
         UNCHANGED <<functions, valueVarMap>>,
         NEW e \in Builtins, e.flavor = "intrinsic", bfunction[e.name] = None,
         bfunction' = Remembered(e, NewObject)
  PROVE  FreedInv'
<1> DEFINE new == NewObject
           obj == Object("function", sym, None)
<1>1. obj \in ObjectType /\ obj.fn = None
  <2>1. "function" \in Kinds /\ None \in Nat
    BY DEF None, Kinds
  <2>2. QED
    BY <2>1, ObjectIs DEF None
<1>2. /\ Len(objects) \in Nat /\ new = Len(objects) + 1 /\ new \in Nat
      /\ new \notin {None, ErrorFunction, ErrorVariable}
      /\ Held(valueVarMap, new) = 0 /\ Occurrences(new, functions) = 0
      /\ \A d \in Builtins : bfunction[d.name] # new
  BY NextUnheld
<1>3. /\ bfunction \in [{d.name : d \in Builtins} -> Nat]
      /\ bfunction' = [bfunction EXCEPT ![e.name] = new]
  BY DEF SymbolsInv, Remembered
<1>4. new \in Nat /\ new # None /\ \A d \in Builtins : bfunction[d.name] # new
  BY <1>2
<1>5. /\ bfunction'[e.name] = new
      /\ \A d \in Builtins : d # e => bfunction'[d.name] = bfunction[d.name]
      /\ TableHeld(bfunction', new) = IF e.flavor = "intrinsic" THEN 1 ELSE 0
      /\ \A o : o # new /\ o # None => TableHeld(bfunction', o) = TableHeld(bfunction, o)
  BY <1>3, <1>4, TableAdded
<1>6. \A d \in Builtins : bfunction'[d.name] \in 0..new
  <2>1. \A d \in Builtins : bfunction[d.name] \in 0..new
    BY <1>2 DEF FreedInv
  <2>2. new \in 0..new
    BY <1>2
  <2>3. QED
    BY <1>5, <2>1, <2>2
<1>7. \A i \in 1..Len(functions') : functions'[i] \in 1..new
  BY <1>2 DEF FreedInv
<1>8. \A s \in DOMAIN valueVarMap' : s \in 1..Len(symbols') /\ valueVarMap'[s] \in 1..new
  BY <1>2 DEF FreedInv, Longer
<1>9. functions' \in Seq(Nat)
  BY DEF FreedInv
<1>10. FreedBy(new, functions', valueVarMap', bfunction') = 1
  <2>1. /\ Occurrences(new, functions') = 0 /\ Held(valueVarMap', new) = 0
        /\ TableHeld(bfunction', new) = 1
    BY <1>2, <1>5
  <2>2. new \notin {ErrorFunction, ErrorVariable}
    BY <1>2
  <2> HIDE DEF new
  <2>3. QED
    BY <2>1, <2>2 DEF FreedBy
<1>11. \A o : o # None /\ o # new =>
         FreedBy(o, functions', valueVarMap', bfunction')
           = FreedBy(o, functions, valueVarMap, bfunction)
  BY <1>5 DEF FreedBy
<1>12. QED
  BY <1>1, <1>6, <1>7, <1>8, <1>9, <1>10, <1>11, HeldFreed

LEMMA GlobalFreed ==
  ASSUME FreedInv, SymbolsInv, Longer(symbols, symbols'), Len(symbols') = Len(symbols) + 1,
         objects' = Append(objects, Object("global", NewSymbol, None)),
         UNCHANGED <<functions, bfunction>>,
         valueVarMap' = With(valueVarMap, NewSymbol, NewObject)
  PROVE  FreedInv'
<1> DEFINE new == NewObject
           obj == Object("global", NewSymbol, None)
<1>1. Len(symbols) \in Nat /\ NewSymbol = Len(symbols) + 1
  BY DEF Longer, NewSymbol
<1>2. obj \in ObjectType /\ obj.fn = None
  <2>1. "global" \in Kinds /\ None \in Nat /\ NewSymbol \in Nat
    BY <1>1 DEF None, Kinds
  <2>2. QED
    BY <2>1, ObjectIs DEF None
<1>3. /\ Len(objects) \in Nat /\ new = Len(objects) + 1 /\ new \in Nat
      /\ new \notin {None, ErrorFunction, ErrorVariable}
      /\ Occurrences(new, functions) = 0 /\ TableHeld(bfunction, new) = 0
      /\ \A s \in DOMAIN valueVarMap : valueVarMap[s] # new
  BY NextUnheld
<1>4. NewSymbol \notin DOMAIN valueVarMap
  BY <1>1 DEF FreedInv
<1>5. /\ DOMAIN valueVarMap' = {NewSymbol} \cup DOMAIN valueVarMap
      /\ valueVarMap'[NewSymbol] = new
      /\ \A s \in DOMAIN valueVarMap : valueVarMap'[s] = valueVarMap[s]
      /\ Held(valueVarMap', new) = 1
      /\ \A o : o # new => Held(valueVarMap', o) = Held(valueVarMap, o)
  <2>1. NewSymbol \notin DOMAIN valueVarMap /\ \A s \in DOMAIN valueVarMap : valueVarMap[s] # NewObject
    BY <1>3, <1>4
  <2>2. QED
    BY <2>1, MapAdded
<1>6. \A d \in Builtins : bfunction'[d.name] \in 0..new
  BY <1>3 DEF FreedInv
<1>7. \A i \in 1..Len(functions') : functions'[i] \in 1..new
  BY <1>3 DEF FreedInv
<1>8. \A s \in DOMAIN valueVarMap' : s \in 1..Len(symbols') /\ valueVarMap'[s] \in 1..new
  <2>1. \A s \in DOMAIN valueVarMap : s \in 1..Len(symbols') /\ valueVarMap[s] \in 1..new
    BY <1>1, <1>3 DEF FreedInv
  <2>2. NewSymbol \in 1..Len(symbols') /\ new \in 1..new
    BY <1>1, <1>3
  <2>3. QED
    BY <1>5, <2>1, <2>2
<1>9. functions' \in Seq(Nat)
  BY DEF FreedInv
<1>10. FreedBy(new, functions', valueVarMap', bfunction') = 1
  <2>1. /\ Occurrences(new, functions') = 0 /\ Held(valueVarMap', new) = 1
        /\ TableHeld(bfunction', new) = 0
    BY <1>3, <1>5
  <2>2. new \notin {ErrorFunction, ErrorVariable}
    BY <1>3
  <2> HIDE DEF new
  <2>3. QED
    BY <2>1, <2>2 DEF FreedBy
<1>11. \A o : o # None /\ o # new =>
         FreedBy(o, functions', valueVarMap', bfunction')
           = FreedBy(o, functions, valueVarMap, bfunction)
  BY <1>5 DEF FreedBy
<1>12. QED
  BY <1>2, <1>6, <1>7, <1>8, <1>9, <1>10, <1>11, HeldFreed

-----------------------------------------------------------------------------
(* What the requests for symbols keep.                                      *)

LEMMA OfFrontend ==
  ASSUME NEW n \in OwnNames
  PROVE  /\ n \in Names /\ n # Personality /\ \A e \in Builtins : n # e.name
         /\ \A k \in 0..MaxSymbols : n # ConstName(k)
         /\ SymbolOf(n) = {n}
<1>1. n \notin BackendNames
  BY Apart
<1>2. \A k \in 0..MaxSymbols : n # ConstName(k)
  BY Apart
<1>3. n # Personality /\ \A e \in Builtins : n # e.name
  BY <1>1, Apart
<1>4. QED
  BY <1>1, <1>2, <1>3, OwnSymbol DEF Names

LEMMA OfBackend ==
  ASSUME NEW n \in BackendNames
  PROVE  /\ n \in Names
         /\ n \notin Declared /\ n \notin Defined \cup Globals /\ n \notin References
         /\ \A k \in 0..MaxSymbols : n # ConstName(k)
BY Apart DEF Names

LEMMA OfTag ==
  ASSUME NEW k \in 0..MaxSymbols
  PROVE  /\ ConstName(k) \in Names /\ SymbolOf(ConstName(k)) = {ConstName(k)}
         /\ ConstName(k) # Personality /\ \A e \in Builtins : ConstName(k) # e.name
         /\ ConstName(k) \notin Declared /\ ConstName(k) \notin Defined \cup Globals
         /\ ConstName(k) \notin References
         /\ \A l \in 0..MaxSymbols : ConstName(k) = ConstName(l) => k = l
<1>1. ConstName(k) \notin BackendNames \cup OwnNames
  BY Apart
<1>2. SymbolOf(ConstName(k)) = {ConstName(k)}
  BY <1>1, OwnSymbol
<1>3. ConstName(k) # Personality /\ \A e \in Builtins : ConstName(k) # e.name
  BY <1>1, Apart
<1>4. /\ ConstName(k) \notin Declared /\ ConstName(k) \notin Defined \cup Globals
      /\ ConstName(k) \notin References
  BY <1>1, Apart
<1>5. \A l \in 0..MaxSymbols : ConstName(k) = ConstName(l) => k = l
  BY TagAssumption
<1>6. QED
  BY <1>2, <1>3, <1>4, <1>5 DEF Names

\* What the steps below have in common: a step keeps the invariant if it adds symbols and
\* objects and every table holds what it should.
LEMMA KeptReserved ==
  ASSUME SymbolsInv,
         DOMAIN fcnNameMap \subseteq DOMAIN fcnNameMap', DOMAIN structRefs \subseteq DOMAIN structRefs',
         asked \subseteq asked', personality # None => personality' # None, UNCHANGED nametags,
         \A e \in Builtins : bfunction[e.name] # None => bfunction'[e.name] # None
  PROVE  \A n : Reserved(n) => Reserved(n)'
<1>1. nametags["const"] \in Nat
  BY DEF SymbolsInv
<1>2. nametags["const"] <= nametags'["const"] /\ nametags'["const"] \in Nat
  BY <1>1
<1>3. QED
  BY <1>1, <1>2, ReservedKept

LEMMA NameIsNew ==
  ASSUME SymbolsInv, NEW n, ~Reserved(n)
  PROVE  NotYet(n)
BY DEF SymbolsInv

LEMMA TagBound ==
  ASSUME SymbolsInv
  PROVE  /\ nametags \in [{"const"} -> Nat] /\ nametags["const"] \in Nat
         /\ nametags["const"] <= Len(symbols) /\ Len(symbols) \in Nat
         /\ bfunction \in [{e.name : e \in Builtins} -> Nat]
         /\ objects \in Seq(ObjectType)
BY LenProperties DEF SymbolsInv

LEMMA Unchanging ==
  ASSUME SymbolsInv
  PROVE  Longer(symbols, symbols) /\ Longer(objects, objects)
<1>1. Len(symbols) \in Nat /\ Len(objects) \in Nat
  BY LenProperties DEF SymbolsInv
<1>2. QED
  BY <1>1 DEF Longer

LEMMA AnswerKept ==
  ASSUME NEW n, NEW o, asked' = asked \cup {Answer(n, o)},
         SymbolFor(o, SymbolOf(n), objects', symbols')
  PROVE  \A a \in asked' :
           a \in asked \/ SymbolFor(a.object, SymbolOf(a.name), objects', symbols')
<1> SUFFICES ASSUME NEW a \in asked', a \notin asked
             PROVE  SymbolFor(a.object, SymbolOf(a.name), objects', symbols')
  OBVIOUS
<1>1. a = Answer(n, o)
  OBVIOUS
<1>2. a.name = n /\ a.object = o
  BY <1>1 DEF Answer
<1>3. QED
  BY <1>2

\* A declaration is found again or made.
LEMMA DeclareFunctionKeeps ==
  ASSUME ModuleInv, NEW n \in Declared, DeclareFunction(n)
  PROVE  ModuleInv'
<1> USE DEF ModuleInv
<1>1. /\ n \in OwnNames /\ n \notin Defined \cup Globals /\ n \notin References
      /\ n \in Names /\ n # Personality /\ SymbolOf(n) = {n}
      /\ \A e \in Builtins : n # e.name
      /\ \A k \in 0..MaxSymbols : n # ConstName(k)
  BY Apart, OfFrontend
<1>2. UNCHANGED <<valueVarMap, structRefs, bfunction, personality, nametags>>
  BY DEF DeclareFunction
<1>3. /\ nametags \in [{"const"} -> Nat] /\ nametags["const"] <= Len(symbols)
      /\ bfunction \in [{e.name : e \in Builtins} -> Nat] /\ objects \in Seq(ObjectType)
  BY TagBound
<1>4. CASE n \in DOMAIN fcnNameMap
  <2>1. /\ asked' = asked \cup {Answer(n, fcnNameMap[n])}
        /\ UNCHANGED <<symbols, objects, functions, fcnNameMap>>
    BY <1>4 DEF DeclareFunction
  <2>2. \A m : Reserved(m) => Reserved(m)'
    BY <1>2, <2>1, KeptReserved
  <2>3. SymbolsInv' /\ Longer(symbols, symbols')
    BY <1>2, <1>3, <2>1, <2>2, SymbolsSame
  <2>4. Longer(objects, objects')
    BY <2>1, Unchanging
  <2>5. SymbolFor(fcnNameMap[n], {n}, objects, symbols)
    BY <1>4 DEF TablesInv
  <2>6. \A a \in asked' : a \in asked \/ SymbolFor(a.object, SymbolOf(a.name), objects', symbols')
    BY <1>1, <2>1, <2>5, AnswerKept
  <2>7. TablesInv'
    BY <1>2, <2>1, <2>3, <2>4, <2>6, TablesStep
  <2>8. FreedInv'
    BY <1>2, <2>1, <2>3, SameFreed
  <2>9. QED
    BY <2>3, <2>7, <2>8
<1>5. CASE n \notin DOMAIN fcnNameMap
  <2>1. /\ symbols' = Append(symbols, Created(n))
        /\ objects' = Append(objects, Object("function", NewSymbol, None))
        /\ functions' = Append(functions, NewObject)
        /\ asked' = asked \cup {Answer(n, NewObject)}
        /\ fcnNameMap' = With(fcnNameMap, n, NewObject)
    BY <1>5 DEF DeclareFunction, CreateFunction
  <2>2. /\ DOMAIN fcnNameMap' = {n} \cup DOMAIN fcnNameMap /\ fcnNameMap'[n] = NewObject
        /\ \A m \in DOMAIN fcnNameMap : m # n => fcnNameMap'[m] = fcnNameMap[m]
    BY <2>1 DEF With
  <2>3. NotYet(n)
    BY <1>5, NameIsNew DEF Reserved
  <2>4. \A m : Reserved(m) => Reserved(m)'
    BY <1>2, <2>1, <2>2, KeptReserved
  <2>5. Reserved(n)'
    BY <1>1, <2>2 DEF Reserved
  <2>6. /\ objects' \in Seq(ObjectType) /\ Longer(objects, objects')
        /\ NewObject \in Nat /\ NewObject # None
        /\ SymbolFor(NewObject, {n}, objects', symbols')
    <3>1. "function" \in Kinds
      BY DEF Kinds
    <3>2. QED
      BY <1>1, <2>1, <2>3, <3>1, MadeWithSymbol
  <2>7. SymbolsInv' /\ Longer(symbols, symbols')
    BY <1>1, <1>2, <1>3, <2>1, <2>3, <2>4, <2>5, <2>6, SymbolsStep
  <2>8. \A a \in asked' : a \in asked \/ SymbolFor(a.object, SymbolOf(a.name), objects', symbols')
    BY <1>1, <2>1, <2>6, AnswerKept
  <2>9. \A m \in DOMAIN fcnNameMap' :
          \/ m \in DOMAIN fcnNameMap /\ fcnNameMap'[m] = fcnNameMap[m]
          \/ m \in Declared /\ SymbolFor(fcnNameMap'[m], {m}, objects', symbols')
    BY <2>2, <2>6
  <2>10. TablesInv'
    BY <1>2, <2>6, <2>7, <2>8, <2>9, TablesStep
  <2>11. NewSymbol \in Nat
    BY <1>1, <2>1, <2>3, SymbolAdded
  <2>12. FreedInv'
    BY <1>2, <2>1, <2>7, <2>11, FunctionFreed
  <2>13. QED
    BY <2>7, <2>10, <2>12
<1>6. QED
  BY <1>4, <1>5

LEMMA DefineFunctionKeeps ==
  ASSUME ModuleInv, NEW n \in Defined, DefineFunction(n)
  PROVE  ModuleInv'
<1> USE DEF ModuleInv
<1>1. /\ n \in OwnNames /\ n \notin Declared /\ n \notin References
      /\ n \in Names /\ n # Personality /\ SymbolOf(n) = {n}
      /\ \A e \in Builtins : n # e.name
      /\ \A k \in 0..MaxSymbols : n # ConstName(k)
  BY Apart, OfFrontend
<1>2. /\ UNCHANGED <<fcnNameMap, valueVarMap, structRefs, bfunction, personality, nametags>>
      /\ ~Asked(n)
  BY DEF DefineFunction
<1>3. /\ nametags \in [{"const"} -> Nat] /\ nametags["const"] <= Len(symbols)
      /\ bfunction \in [{e.name : e \in Builtins} -> Nat] /\ objects \in Seq(ObjectType)
  BY TagBound
<1>4. /\ symbols' = Append(symbols, Created(n))
      /\ objects' = Append(objects, Object("function", NewSymbol, None))
      /\ functions' = Append(functions, NewObject)
      /\ asked' = asked \cup {Answer(n, NewObject)}
  BY DEF DefineFunction, CreateFunction
<1>5. NotYet(n)
  BY <1>2, NameIsNew DEF Reserved
<1>6. \A m : Reserved(m) => Reserved(m)'
  BY <1>2, <1>4, KeptReserved
<1>7. Asked(n)'
  <2>1. \E a \in asked' : a.name = n
    <3>1. Answer(n, NewObject) \in asked' /\ Answer(n, NewObject).name = n
      BY <1>4 DEF Answer
    <3>2. QED
      BY <3>1
  <2>2. QED
    BY <2>1 DEF Asked
<1>8. Reserved(n)'
  BY <1>1, <1>7 DEF Reserved
<1>9. "function" \in Kinds
  BY DEF Kinds
<1>10. /\ objects' \in Seq(ObjectType) /\ Longer(objects, objects')
       /\ SymbolFor(NewObject, {n}, objects', symbols')
  BY <1>1, <1>4, <1>5, <1>9, MadeWithSymbol
<1>11. SymbolsInv' /\ Longer(symbols, symbols')
  BY <1>1, <1>2, <1>3, <1>4, <1>5, <1>6, <1>8, <1>10, SymbolsStep
<1>12. \A a \in asked' : a \in asked \/ SymbolFor(a.object, SymbolOf(a.name), objects', symbols')
  BY <1>1, <1>4, <1>10, AnswerKept
<1>13. TablesInv'
  BY <1>2, <1>10, <1>11, <1>12, TablesStep
<1>14. NewSymbol \in Nat
  BY <1>1, <1>4, <1>5, SymbolAdded
<1>15. FreedInv'
  BY <1>2, <1>4, <1>11, <1>14, FunctionFreed
<1>16. QED
  BY <1>11, <1>13, <1>15

\* A variable of the module is made under a name nothing has.
LEMMA ModuleVarMade ==
  ASSUME ModuleInv, NEW n \in Names, NotYet(n), SymbolOf(n) = {n}, MakeModuleVar(n),
         UNCHANGED <<functions, bfunction>>,
         Reserved(n)', \A m : Reserved(m) => Reserved(m)',
         nametags' \in [{"const"} -> Nat], nametags'["const"] <= Len(symbols)
  PROVE  /\ SymbolsInv' /\ FreedInv' /\ Longer(symbols, symbols') /\ Longer(objects, objects')
         /\ SymbolFor(NewObject, {n}, objects', symbols')
         /\ \A a \in asked' :
              a \in asked \/ SymbolFor(a.object, SymbolOf(a.name), objects', symbols')
<1> USE DEF ModuleInv
<1>1. /\ symbols' = Append(symbols, Created(n))
      /\ objects' = Append(objects, Object("global", NewSymbol, None))
      /\ valueVarMap' = With(valueVarMap, NewSymbol, NewObject)
      /\ asked' = asked \cup {Answer(n, NewObject)}
  BY DEF MakeModuleVar
<1>2. bfunction' \in [{e.name : e \in Builtins} -> Nat]
  BY TagBound
<1>3. "global" \in Kinds
  BY DEF Kinds
<1>4. /\ objects' \in Seq(ObjectType) /\ Longer(objects, objects')
      /\ SymbolFor(NewObject, {n}, objects', symbols')
  BY <1>1, <1>3, MadeWithSymbol
<1>5. SymbolsInv' /\ Longer(symbols, symbols')
  BY <1>1, <1>2, <1>4, SymbolsStep
<1>6. Len(symbols') = Len(symbols) + 1
  BY <1>1, SymbolAdded
<1>7. FreedInv'
  BY <1>1, <1>5, <1>6, GlobalFreed
<1>8. \A a \in asked' : a \in asked \/ SymbolFor(a.object, SymbolOf(a.name), objects', symbols')
  BY <1>1, <1>4, AnswerKept, ZenonT(30)
<1>9. QED
  BY <1>4, <1>5, <1>7, <1>8

LEMMA ModuleVariableKeeps ==
  ASSUME ModuleInv, NEW n \in Globals, ModuleVariable(n)
  PROVE  ModuleInv'
<1>1. /\ n \in OwnNames /\ n \notin Declared /\ n \notin References
      /\ n \in Names /\ n # Personality /\ SymbolOf(n) = {n}
      /\ \A e \in Builtins : n # e.name
      /\ \A k \in 0..MaxSymbols : n # ConstName(k)
  BY Apart, OfFrontend
<1>2. /\ UNCHANGED <<fcnNameMap, functions, structRefs, bfunction, personality, nametags>>
      /\ ~Asked(n) /\ MakeModuleVar(n)
  BY DEF ModuleVariable
<1>3. /\ nametags \in [{"const"} -> Nat] /\ nametags["const"] <= Len(symbols)
  BY TagBound DEF ModuleInv
<1>4. NotYet(n)
  BY <1>2, NameIsNew DEF Reserved, ModuleInv
<1>5. asked' = asked \cup {Answer(n, NewObject)}
  BY <1>2 DEF MakeModuleVar
<1>6. \A m : Reserved(m) => Reserved(m)'
  BY <1>2, <1>5, KeptReserved DEF ModuleInv
<1>7. Asked(n)'
  <2>1. \E a \in asked' : a.name = n
    <3>1. Answer(n, NewObject) \in asked' /\ Answer(n, NewObject).name = n
      BY <1>5 DEF Answer
    <3>2. QED
      BY <3>1
  <2>2. QED
    BY <2>1 DEF Asked
<1>8. Reserved(n)'
  BY <1>1, <1>7 DEF Reserved
<1>9. /\ SymbolsInv' /\ FreedInv' /\ Longer(symbols, symbols') /\ Longer(objects, objects')
      /\ \A a \in asked' :
           a \in asked \/ SymbolFor(a.object, SymbolOf(a.name), objects', symbols')
  BY <1>1, <1>2, <1>3, <1>4, <1>6, <1>8, ModuleVarMade
<1>10. TablesInv'
  BY <1>2, <1>9, TablesStep DEF ModuleInv
<1>11. QED
  BY <1>9, <1>10 DEF ModuleInv

LEMMA StructReferenceKeeps ==
  ASSUME ModuleInv, NEW n \in References, ImmutableStructReference(n)
  PROVE  ModuleInv'
<1>1. /\ n \in OwnNames /\ n \notin Declared /\ n \notin Defined \cup Globals
      /\ n \in Names /\ n # Personality /\ SymbolOf(n) = {n}
      /\ \A e \in Builtins : n # e.name
      /\ \A k \in 0..MaxSymbols : n # ConstName(k)
  BY Apart, OfFrontend
<1>2. UNCHANGED <<fcnNameMap, functions, bfunction, personality, nametags>>
  BY DEF ImmutableStructReference
<1>3. /\ nametags \in [{"const"} -> Nat] /\ nametags["const"] <= Len(symbols)
      /\ bfunction \in [{e.name : e \in Builtins} -> Nat] /\ objects \in Seq(ObjectType)
  BY TagBound DEF ModuleInv
<1>4. CASE n \in DOMAIN structRefs
  <2>1. /\ asked' = asked \cup {Answer(n, structRefs[n])}
        /\ UNCHANGED <<symbols, objects, valueVarMap, structRefs>>
    BY <1>4 DEF ImmutableStructReference
  <2>2. \A m : Reserved(m) => Reserved(m)'
    BY <1>2, <2>1, KeptReserved DEF ModuleInv
  <2>3. SymbolsInv' /\ Longer(symbols, symbols')
    BY <1>2, <1>3, <2>1, <2>2, SymbolsSame DEF ModuleInv
  <2>4. Longer(objects, objects')
    BY <2>1, Unchanging DEF ModuleInv
  <2>5. SymbolFor(structRefs[n], {n}, objects, symbols)
    BY <1>4 DEF TablesInv, ModuleInv
  <2>6. \A a \in asked' : a \in asked \/ SymbolFor(a.object, SymbolOf(a.name), objects', symbols')
    BY <1>1, <2>1, <2>5, AnswerKept
  <2>7. TablesInv'
    BY <1>2, <2>1, <2>3, <2>4, <2>6, TablesStep DEF ModuleInv
  <2>8. FreedInv'
    BY <1>2, <2>1, <2>3, SameFreed DEF ModuleInv
  <2>9. QED
    BY <2>3, <2>7, <2>8 DEF ModuleInv
<1>5. CASE n \notin DOMAIN structRefs
  <2>1. MakeModuleVar(n) /\ structRefs' = With(structRefs, n, NewObject)
    BY <1>5 DEF ImmutableStructReference
  <2>2. /\ DOMAIN structRefs' = {n} \cup DOMAIN structRefs /\ structRefs'[n] = NewObject
        /\ \A m \in DOMAIN structRefs : m # n => structRefs'[m] = structRefs[m]
    BY <2>1 DEF With
  <2>3. NotYet(n)
    BY <1>5, NameIsNew DEF Reserved, ModuleInv
  <2>4. asked' = asked \cup {Answer(n, NewObject)} /\ personality' = personality
    BY <2>1, <1>2 DEF MakeModuleVar
  <2>5. \A m : Reserved(m) => Reserved(m)'
    BY <1>2, <2>2, <2>4, KeptReserved DEF ModuleInv
  <2>6. Reserved(n)'
    BY <1>1, <2>2 DEF Reserved
  <2>7. /\ SymbolsInv' /\ FreedInv' /\ Longer(symbols, symbols') /\ Longer(objects, objects')
        /\ SymbolFor(NewObject, {n}, objects', symbols')
        /\ \A a \in asked' :
             a \in asked \/ SymbolFor(a.object, SymbolOf(a.name), objects', symbols')
    BY <1>1, <1>2, <1>3, <2>1, <2>3, <2>5, <2>6, ModuleVarMade
  <2>8. \A m \in DOMAIN structRefs' :
          \/ m \in DOMAIN structRefs /\ structRefs'[m] = structRefs[m]
          \/ m \in References /\ SymbolFor(structRefs'[m], {m}, objects', symbols')
    BY <2>2, <2>7
  <2>9. TablesInv'
    BY <1>2, <2>7, <2>8, TablesStep DEF ModuleInv
  <2>10. QED
    BY <2>7, <2>9 DEF ModuleInv
<1>6. QED
  BY <1>4, <1>5

\* The count of the tag makes the name new.
LEMMA ConstantVariableKeeps ==
  ASSUME ModuleInv, Len(symbols) < MaxSymbols, ConstantVariable
  PROVE  ModuleInv'
<1> DEFINE k == nametags["const"]
           n == ConstName(k)
<1>1. /\ nametags \in [{"const"} -> Nat] /\ k \in Nat /\ k < Len(symbols) /\ Len(symbols) \in Nat
  BY LenProperties DEF ModuleInv, SymbolsInv
<1>2. k \in 0..MaxSymbols
  BY <1>1, PlanAssumption
<1>3. /\ n \notin Declared /\ n \notin Defined \cup Globals /\ n \notin References
      /\ n \in Names /\ n # Personality /\ SymbolOf(n) = {n}
      /\ \A e \in Builtins : n # e.name
      /\ \A l \in 0..MaxSymbols : n = ConstName(l) => k = l
  BY <1>2, OfTag
<1>4. /\ UNCHANGED <<fcnNameMap, functions, structRefs, bfunction, personality>>
      /\ MakeModuleVar(n) /\ nametags' = [nametags EXCEPT !["const"] = k + 1]
  BY DEF ConstantVariable, Counted
<1>5. /\ nametags' \in [{"const"} -> Nat] /\ nametags'["const"] = k + 1
      /\ nametags'["const"] <= Len(symbols)
  BY <1>1, <1>4
<1> HIDE DEF n
<1>6. ~Reserved(n)
  <2>1. ~(k < nametags["const"])
    BY <1>1
  <2>2. QED
    BY <1>2, <2>1 DEF Reserved, n
<1>7. NotYet(n)
  BY <1>6, NameIsNew DEF ModuleInv
<1>8. asked' = asked \cup {Answer(n, NewObject)}
  BY <1>4 DEF MakeModuleVar
<1>9. \A m : Reserved(m) => Reserved(m)'
  <2>1. nametags["const"] \in Nat /\ nametags'["const"] \in Nat
        /\ nametags["const"] <= nametags'["const"]
    BY <1>1, <1>5
  <2>2. QED
    BY <1>4, <1>8, <2>1, ReservedKept
<1>10. ASSUME NEW m, m = n PROVE Reserved(m)'
  <2>1. \A l \in 0..MaxSymbols : m = ConstName(l) => l < nametags'["const"]
    BY <1>1, <1>3, <1>5, <1>10
  <2>2. QED
    BY <1>3, <1>10, <2>1 DEF Reserved
<1>11. PICK m : m = n
  OBVIOUS
<1>12. /\ m \in Names /\ NotYet(m) /\ SymbolOf(m) = {m} /\ MakeModuleVar(m) /\ Reserved(m)'
  BY <1>3, <1>4, <1>7, <1>10, <1>11
<1>13. /\ SymbolsInv' /\ FreedInv' /\ Longer(symbols, symbols') /\ Longer(objects, objects')
       /\ \A a \in asked' :
            a \in asked \/ SymbolFor(a.object, SymbolOf(a.name), objects', symbols')
  BY <1>4, <1>5, <1>9, <1>12, ModuleVarMade
<1>14. TablesInv'
  BY <1>4, <1>13, TablesStep DEF ModuleInv
<1>15. QED
  BY <1>13, <1>14 DEF ModuleInv

\* A function for a symbol that is there.
LEMMA MadeForSymbol ==
  ASSUME SymbolsInv, NEW i \in 1..Len(symbols), UNCHANGED symbols,
         NEW kind \in Kinds, objects' = Append(objects, Object(kind, i, None))
  PROVE  /\ objects' \in Seq(ObjectType) /\ Longer(objects, objects')
         /\ NewObject \in Nat /\ NewObject # None
         /\ SymbolFor(NewObject, {symbols[i].name}, objects', symbols')
<1>1. i \in Nat /\ None \in Nat
  BY DEF None
<1>2. /\ Object(kind, i, None) \in ObjectType
      /\ Object(kind, i, None).symbol = i /\ Object(kind, i, None).fn = None
  BY <1>1, ObjectIs
<1>3. objects \in Seq(ObjectType)
  BY DEF SymbolsInv
<1>4. /\ objects' \in Seq(ObjectType) /\ Len(objects') = Len(objects) + 1 /\ Len(objects) \in Nat
      /\ \A o \in 1..Len(objects) : objects'[o] = objects[o] /\ o \in 1..Len(objects')
      /\ objects'[Len(objects) + 1] = Object(kind, i, None)
      /\ Len(objects) + 1 \in 1..Len(objects')
  BY <1>2, <1>3, ObjectAdded
<1>5. Longer(objects, objects')
  BY <1>4 DEF Longer
<1>6. SymbolFor(Len(objects) + 1, {symbols[i].name}, objects', symbols')
  BY <1>2, <1>4 DEF SymbolFor
<1>7. QED
  BY <1>4, <1>5, <1>6 DEF NewObject, None

LEMMA Entries ==
  ASSUME NEW n, NEW e \in Found(n)
  PROVE  /\ e \in Builtins /\ EntrySymbol(e) \in SymbolOf(n)
         /\ EntrySymbol(e) \in BackendNames /\ EntrySymbol(e) # Personality
         /\ e.flavor = "libcall" \/ (e.flavor = "intrinsic" /\ e.flavor # "libcall")
         /\ e.flavor # "libcall" =>
              \A d \in Builtins : d.flavor = "libcall" => d.name # EntrySymbol(e)
<1>1. e \in Builtins
  BY DEF Found
<1>2. EntrySymbol(e) \in SymbolOf(n)
  BY DEF SymbolOf, EntrySymbol
<1>3. e.flavor \in {"libcall", "intrinsic"}
  BY <1>1, TableAssumption
<1>4. EntrySymbol(e) \in BackendNames
  BY <1>1, <1>3, Apart DEF EntrySymbol
<1>5. CASE e.flavor = "libcall"
  BY <1>1, <1>2, <1>4, <1>5, TableAssumption DEF EntrySymbol
<1>6. CASE e.flavor = "intrinsic"
  BY <1>1, <1>2, <1>4, <1>6, TableAssumption DEF EntrySymbol
<1>7. QED
  BY <1>3, <1>5, <1>6

\* Once it is remembered, the function of an entry is found.
LEMMA EntryRemembered ==
  ASSUME SymbolsInv, NEW e \in Builtins, bfunction[e.name] = None,
         NEW o \in Nat, o # None, bfunction' = Remembered(e, o)
  PROVE  /\ bfunction' \in [{d.name : d \in Builtins} -> Nat] /\ bfunction'[e.name] = o
         /\ \A d \in Builtins : d # e => bfunction'[d.name] = bfunction[d.name]
         /\ \A d \in Builtins : bfunction[d.name] # None => bfunction'[d.name] # None
<1>1. bfunction \in [{d.name : d \in Builtins} -> Nat]
  BY DEF SymbolsInv
<1>2. /\ bfunction' \in [{d.name : d \in Builtins} -> Nat] /\ bfunction'[e.name] = o
      /\ \A d \in Builtins : d # e => bfunction'[d.name] = bfunction[d.name]
  BY <1>1, EntryNames DEF Remembered
<1>3. QED
  BY <1>2

LEMMA LookupKeeps ==
  ASSUME ModuleInv, NEW n, LookupBuiltin(n)
  PROVE  ModuleInv'
<1> USE DEF ModuleInv
<1>1. UNCHANGED <<fcnNameMap, valueVarMap, structRefs, personality, nametags>>
  BY DEF LookupBuiltin
<1>2. /\ nametags \in [{"const"} -> Nat] /\ nametags["const"] <= Len(symbols)
      /\ bfunction \in [{e.name : e \in Builtins} -> Nat] /\ objects \in Seq(ObjectType)
  BY TagBound
<1>3. PICK e \in Found(n) :
       IF bfunction[e.name] # None
       THEN /\ asked' = asked \cup {Answer(n, bfunction[e.name])}
            /\ UNCHANGED <<symbols, objects, functions, bfunction>>
       ELSE /\ IF e.flavor = "libcall" THEN CreateFunction(n, e.name)
               ELSE LET there == {i \in DOMAIN symbols : symbols[i].name = e.intrinsic} IN
                    /\ symbols' = IF there = {} THEN Append(symbols, Created(e.intrinsic))
                                  ELSE symbols
                    /\ objects' = Append(objects, Object("function",
                                    IF there = {} THEN NewSymbol ELSE CHOOSE i \in there : TRUE,
                                    None))
                    /\ asked' = asked \cup {Answer(n, NewObject)}
                    /\ UNCHANGED functions
            /\ bfunction' = Remembered(e, NewObject)
  BY DEF LookupBuiltin
<1> DEFINE sym == EntrySymbol(e)
<1>4. /\ e \in Builtins /\ sym \in SymbolOf(n) /\ sym \in BackendNames /\ sym # Personality
      /\ e.flavor = "libcall" \/ (e.flavor = "intrinsic" /\ e.flavor # "libcall")
      /\ e.flavor # "libcall" => \A d \in Builtins : d.flavor = "libcall" => d.name # sym
  BY Entries
<1>5. /\ sym \in Names /\ sym \notin Declared /\ sym \notin Defined \cup Globals
      /\ sym \notin References /\ \A k \in 0..MaxSymbols : sym # ConstName(k)
  BY <1>4, OfBackend
<1>6. "function" \in Kinds
  BY DEF Kinds
<1> HIDE DEF sym
<1>7. CASE bfunction[e.name] # None
  <2>1. /\ asked' = asked \cup {Answer(n, bfunction[e.name])}
        /\ UNCHANGED <<symbols, objects, functions, bfunction>>
    BY <1>3, <1>7
  <2>2. \A m : Reserved(m) => Reserved(m)'
    BY <1>1, <2>1, KeptReserved
  <2>3. SymbolsInv' /\ Longer(symbols, symbols')
    BY <1>1, <1>2, <2>1, <2>2, SymbolsSame
  <2>4. Longer(objects, objects')
    BY <2>1, Unchanging
  <2>5. SymbolFor(bfunction[e.name], {sym}, objects, symbols)
    BY <1>4, <1>7 DEF TablesInv, sym
  <2>6. SymbolFor(bfunction[e.name], SymbolOf(n), objects', symbols')
    BY <1>4, <2>1, <2>5 DEF SymbolFor
  <2>7. \A a \in asked' : a \in asked \/ SymbolFor(a.object, SymbolOf(a.name), objects', symbols')
    BY <2>1, <2>6, AnswerKept
  <2>8. TablesInv'
    BY <1>1, <2>1, <2>3, <2>4, <2>7, TablesStep
  <2>9. FreedInv'
    BY <1>1, <2>1, <2>3, SameFreed
  <2>10. QED
    BY <2>3, <2>8, <2>9
<1>8. ASSUME bfunction[e.name] = None, bfunction' = Remembered(e, NewObject),
             asked' = asked \cup {Answer(n, NewObject)},
             NewObject \in Nat, NewObject # None,
             objects' \in Seq(ObjectType), Longer(objects, objects'),
             SymbolFor(NewObject, {sym}, objects', symbols'),
             \/ NotYet(sym) /\ symbols' = Append(symbols, Created(sym))
             \/ UNCHANGED symbols
      PROVE  /\ SymbolsInv' /\ TablesInv' /\ Longer(symbols, symbols')
  <2>1. /\ bfunction' \in [{d.name : d \in Builtins} -> Nat] /\ bfunction'[e.name] = NewObject
        /\ \A d \in Builtins : d # e => bfunction'[d.name] = bfunction[d.name]
        /\ \A d \in Builtins : bfunction[d.name] # None => bfunction'[d.name] # None
    BY <1>4, <1>8, EntryRemembered
  <2>2. \A m : Reserved(m) => Reserved(m)'
    BY <1>1, <1>8, <2>1, KeptReserved
  <2>3. \A d \in Builtins : d.flavor = "libcall" /\ sym = d.name => bfunction'[d.name] # None
    <3> SUFFICES ASSUME NEW d \in Builtins, d.flavor = "libcall", sym = d.name
                 PROVE  bfunction'[d.name] # None
      OBVIOUS
    <3>1. e.flavor = "libcall"
      BY <1>4
    <3>2. d = e
      BY <1>4, <3>1, EntryNames DEF EntrySymbol, sym
    <3>3. QED
      BY <1>8, <2>1, <3>2
  <2>4. ASSUME NEW m, m = sym PROVE Reserved(m)'
    <3>1. /\ m \notin Declared /\ m \notin Defined \cup Globals /\ m \notin References
          /\ \A d \in Builtins : d.flavor = "libcall" /\ m = d.name => bfunction'[d.name] # None
          /\ m # Personality /\ \A k \in 0..MaxSymbols : m # ConstName(k)
      BY <1>4, <1>5, <2>3, <2>4
    <3>2. QED
      BY <3>1 DEF Reserved
  <2>5. PICK m : m = sym
    OBVIOUS
  <2>6. SymbolsInv' /\ Longer(symbols, symbols')
    <3>1. CASE NotYet(sym) /\ symbols' = Append(symbols, Created(sym))
      <4>1. /\ m \in Names /\ NotYet(m) /\ symbols' = Append(symbols, Created(m)) /\ Reserved(m)'
        BY <1>5, <2>4, <2>5, <3>1
      <4>2. QED
        BY <1>1, <1>2, <1>8, <2>1, <2>2, <4>1, SymbolsStep
    <3>2. CASE UNCHANGED symbols
      BY <1>1, <1>8, <2>1, <2>2, <3>2, SymbolsSame
    <3>3. QED
      BY <1>8, <3>1, <3>2
  <2>7. SymbolFor(NewObject, SymbolOf(n), objects', symbols')
    BY <1>4, <1>8 DEF SymbolFor
  <2>8. \A a \in asked' : a \in asked \/ SymbolFor(a.object, SymbolOf(a.name), objects', symbols')
    BY <1>8, <2>7, AnswerKept
  <2>9. \A d \in Builtins :
          \/ bfunction'[d.name] = bfunction[d.name]
          \/ SymbolFor(bfunction'[d.name], {EntrySymbol(d)}, objects', symbols')
    BY <1>8, <2>1 DEF sym
  <2>10. TablesInv'
    BY <1>1, <1>8, <2>6, <2>8, <2>9, TablesStep
  <2>11. QED
    BY <2>6, <2>10
<1>9. CASE bfunction[e.name] = None /\ e.flavor = "libcall"
  <2>1. sym = e.name
    BY <1>9 DEF EntrySymbol, sym
  <2>2. /\ symbols' = Append(symbols, Created(sym))
        /\ objects' = Append(objects, Object("function", NewSymbol, None))
        /\ functions' = Append(functions, NewObject)
        /\ asked' = asked \cup {Answer(n, NewObject)}
        /\ bfunction' = Remembered(e, NewObject)
    BY <1>3, <1>9, <2>1 DEF CreateFunction
  <2>3. NotYet(sym)
    <3>1. ~Reserved(sym)
      BY <1>4, <1>9, <2>1 DEF Reserved
    <3>2. QED
      BY <3>1, NameIsNew
  <2>4. /\ objects' \in Seq(ObjectType) /\ Longer(objects, objects')
        /\ NewObject \in Nat /\ NewObject # None
        /\ SymbolFor(NewObject, {sym}, objects', symbols')
    BY <1>5, <1>6, <2>2, <2>3, MadeWithSymbol
  <2>5. SymbolsInv' /\ TablesInv' /\ Longer(symbols, symbols')
    BY <1>8, <1>9, <2>2, <2>3, <2>4
  <2>6. NewSymbol \in Nat
    BY <1>5, <2>2, <2>3, SymbolAdded
  <2>7. FreedInv'
    BY <1>1, <1>4, <1>9, <2>2, <2>5, <2>6, FunctionFreed
  <2>8. QED
    BY <2>5, <2>7
<1>10. CASE bfunction[e.name] = None /\ e.flavor # "libcall"
  <2> DEFINE there == {i \in DOMAIN symbols : symbols[i].name = sym}
  <2>1. sym = e.intrinsic /\ e.flavor = "intrinsic"
    BY <1>4, <1>10 DEF EntrySymbol, sym
  <2>2. /\ symbols' = IF there = {} THEN Append(symbols, Created(sym)) ELSE symbols
        /\ objects' = Append(objects, Object("function",
                        IF there = {} THEN NewSymbol ELSE CHOOSE i \in there : TRUE, None))
        /\ asked' = asked \cup {Answer(n, NewObject)}
        /\ bfunction' = Remembered(e, NewObject)
        /\ UNCHANGED functions
    BY <1>3, <1>10, <2>1
  <2>3. DOMAIN symbols = 1..Len(symbols)
    BY LenProperties DEF SymbolsInv
  <2>4. CASE there = {}
    <3>1. NotYet(sym)
      BY <2>3, <2>4 DEF NotYet
    <3>2. /\ symbols' = Append(symbols, Created(sym))
          /\ objects' = Append(objects, Object("function", NewSymbol, None))
      BY <2>2, <2>4
    <3>3. /\ objects' \in Seq(ObjectType) /\ Longer(objects, objects')
          /\ NewObject \in Nat /\ NewObject # None
          /\ SymbolFor(NewObject, {sym}, objects', symbols')
      BY <1>5, <1>6, <3>1, <3>2, MadeWithSymbol
    <3>4. SymbolsInv' /\ TablesInv' /\ Longer(symbols, symbols')
      BY <1>8, <1>10, <2>2, <3>1, <3>2, <3>3
    <3>5. NewSymbol \in Nat
      BY <1>5, <3>1, <3>2, SymbolAdded
    <3>6. FreedInv'
      BY <1>1, <1>4, <1>10, <2>1, <2>2, <3>2, <3>4, <3>5, IntrinsicFreed
    <3>7. QED
      BY <3>4, <3>6
  <2>5. CASE there # {}
    <3>1. PICK i : i = CHOOSE j \in there : TRUE
      OBVIOUS
    <3>2. i \in 1..Len(symbols) /\ symbols[i].name = sym
      BY <2>3, <2>5, <3>1
    <3>3. UNCHANGED symbols /\ objects' = Append(objects, Object("function", i, None))
      BY <2>2, <2>5, <3>1
    <3>4. /\ objects' \in Seq(ObjectType) /\ Longer(objects, objects')
          /\ NewObject \in Nat /\ NewObject # None
          /\ SymbolFor(NewObject, {sym}, objects', symbols')
      BY <1>6, <3>2, <3>3, MadeForSymbol
    <3>5. SymbolsInv' /\ TablesInv' /\ Longer(symbols, symbols')
      BY <1>8, <1>10, <2>2, <3>3, <3>4
    <3>6. FreedInv'
      BY <1>1, <1>4, <1>10, <2>1, <2>2, <3>2, <3>3, <3>5, IntrinsicFreed
    <3>7. QED
      BY <3>5, <3>6
  <2>6. QED
    BY <2>4, <2>5
<1>11. QED
  BY <1>7, <1>9, <1>10

LEMMA PersonalityKeeps ==
  ASSUME ModuleInv, PersonalityFunction
  PROVE  ModuleInv'
<1> USE DEF ModuleInv
<1> DEFINE n == Personality
<1>1. /\ UNCHANGED <<objects, fcnNameMap, functions, valueVarMap, structRefs, bfunction,
                     nametags, asked>>
      /\ personality = None /\ personality' = NewSymbol /\ symbols' = Append(symbols, Created(n))
  BY DEF PersonalityFunction
<1>2. /\ n \in Names /\ n \notin Declared /\ n \notin Defined \cup Globals
      /\ n \notin References /\ \A k \in 0..MaxSymbols : n # ConstName(k)
  BY Apart, OfBackend
<1>3. \A e \in Builtins : e.flavor = "libcall" => e.name # n
  BY TableAssumption
<1>4. /\ nametags \in [{"const"} -> Nat] /\ nametags["const"] <= Len(symbols)
      /\ bfunction \in [{e.name : e \in Builtins} -> Nat] /\ objects \in Seq(ObjectType)
  BY TagBound
<1> HIDE DEF n
<1>5. NotYet(n)
  <2>1. ~Reserved(n)
    BY <1>1 DEF Reserved, n
  <2>2. QED
    BY <2>1, NameIsNew
<1>6. /\ NewSymbol \in 1..Len(symbols') /\ NewSymbol # None /\ symbols'[NewSymbol].name = n
  BY <1>1, <1>2, <1>5, SymbolAdded DEF NewSymbol, None
<1>7. \A m : Reserved(m) => Reserved(m)'
  BY <1>1, KeptReserved
<1>8. ASSUME NEW m, m = n PROVE Reserved(m)'
  <2>1. personality' # None
    BY <1>1, <1>6
  <2>2. \A e \in Builtins : ~(e.flavor = "libcall" /\ m = e.name)
    BY <1>3, <1>8
  <2>3. QED
    BY <1>2, <1>8, <2>1, <2>2 DEF Reserved
<1>9. PICK m : m = n
  OBVIOUS
<1>10. m \in Names /\ NotYet(m) /\ symbols' = Append(symbols, Created(m)) /\ Reserved(m)'
  BY <1>1, <1>2, <1>5, <1>8, <1>9
<1>11. SymbolsInv' /\ Longer(symbols, symbols')
  BY <1>1, <1>4, <1>7, <1>10, SymbolsStep
<1>12. Longer(objects, objects')
  BY <1>1, Unchanging
<1>13. personality' \in 1..Len(symbols') /\ symbols'[personality'].name = Personality
  BY <1>1, <1>6 DEF n
<1>14. TablesInv'
  BY <1>1, <1>11, <1>12, <1>13, TablesStep
<1>15. FreedInv'
  BY <1>1, <1>11, SameFreed
<1>16. QED
  BY <1>11, <1>14, <1>15

LEMMA SameModuleKeeps ==
  ASSUME ModuleInv,
         UNCHANGED <<symbols, objects, fcnNameMap, functions, valueVarMap, structRefs, bfunction,
                     personality, nametags, asked>>
  PROVE  ModuleInv'
<1> USE DEF ModuleInv
<1>1. \A m : Reserved(m) => Reserved(m)'
  BY KeptReserved
<1>2. bfunction \in [{e.name : e \in Builtins} -> Nat] /\ objects \in Seq(ObjectType)
  BY TagBound
<1>3. SymbolsInv' /\ Longer(symbols, symbols')
  BY <1>1, <1>2, SymbolsSame
<1>4. Longer(objects, objects')
  BY Unchanging
<1>5. TablesInv'
  BY <1>3, <1>4, TablesStep
<1>6. FreedInv'
  BY <1>3, SameFreed
<1>7. QED
  BY <1>3, <1>5, <1>6

\* A variable of a function has neither a symbol nor an entry in a table.
LEMMA NewVariableKeeps ==
  ASSUME ModuleInv, NEW f \in 1..Len(objects), objects[f].fn = None, NEW kind \in Kinds,
         NewVariable(f, kind), sameModule
  PROVE  ModuleInv'
<1> USE DEF ModuleInv
<1>1. /\ UNCHANGED <<symbols, fcnNameMap, functions, valueVarMap, structRefs, bfunction,
                     personality, nametags, asked>>
      /\ objects' = Append(objects, Object(kind, None, f))
  BY DEF sameModule, NewVariable
<1>2. /\ Object(kind, None, f) \in ObjectType /\ Object(kind, None, f).fn = f
  <2>1. f \in Nat /\ None \in Nat
    BY DEF None
  <2>2. QED
    BY <2>1, ObjectIs
<1>3. /\ objects \in Seq(ObjectType) /\ bfunction \in [{e.name : e \in Builtins} -> Nat]
  BY TagBound
<1>4. /\ objects' \in Seq(ObjectType) /\ Len(objects') = Len(objects) + 1 /\ Len(objects) \in Nat
      /\ \A o \in 1..Len(objects) : objects'[o] = objects[o]
  BY <1>1, <1>2, <1>3, ObjectAdded
<1>5. Longer(objects, objects')
  BY <1>4 DEF Longer
<1>6. \A m : Reserved(m) => Reserved(m)'
  BY <1>1, KeptReserved
<1>7. SymbolsInv' /\ Longer(symbols, symbols')
  BY <1>1, <1>3, <1>4, <1>6, SymbolsSame
<1>8. TablesInv'
  BY <1>1, <1>5, <1>7, TablesStep
<1>9. FreedInv'
  <2> DEFINE obj == Object(kind, None, f)
  <2>1. obj \in ObjectType /\ obj.fn = f /\ objects' = Append(objects, obj)
    BY <1>1, <1>2
  <2> HIDE DEF obj
  <2>2. obj.fn \in 1..Len(objects) /\ objects[obj.fn].fn = None
    BY <2>1
  <2>3. QED
    BY <1>1, <2>1, <2>2, VariableFreed
<1>10. QED
  BY <1>7, <1>8, <1>9

\* What the frontend may be building is a function.
LEMMA BuildableIs ==
  ASSUME ModuleInv, NEW f, Buildable(f)
  PROVE  f \in 1..Len(objects) /\ objects[f].fn = None
<1>1. CASE f = ErrorFunction
  <2>1. Len(objects) \in Nat /\ 2 <= Len(objects) /\ objects[1].fn = None
    BY LenProperties DEF ModuleInv, SymbolsInv, FreedInv
  <2>2. QED
    BY <1>1, <2>1 DEF ErrorFunction
<1>2. CASE f # ErrorFunction
  <2>1. f \in DefinedFunctions
    BY <1>2 DEF Buildable
  <2>2. PICK a \in asked : f = a.object
    BY <2>1 DEF DefinedFunctions
  <2>3. QED
    BY <2>2 DEF ModuleInv, TablesInv, SymbolFor
<1>3. QED
  BY <1>1, <1>2

LEMMA BuildKeeps ==
  ASSUME ModuleInv, NEW f, Build(f)
  PROVE  ModuleInv'
<1>1. \A k \in {"local", "empty", "param", "temp"} : k \in Kinds
  BY DEF Kinds, LocalKinds
<1>2. ASSUME NEW k \in Kinds, NewVariable(f, k), sameModule, Buildable(f) PROVE ModuleInv'
  BY <1>2, BuildableIs, NewVariableKeeps
<1>3. ASSUME UNCHANGED objects, sameModule PROVE ModuleInv'
  BY <1>3, SameModuleKeeps DEF sameModule
<1>4. ASSUME NEW kind \in {"local", "empty"}, LocalVariable(f, kind) PROVE ModuleInv'
  BY <1>1, <1>2, <1>4 DEF LocalVariable
<1>5. CASE ParameterVariable(f)
  <2>1. CASE f = ErrorFunction
    BY <1>3, <1>5, <2>1 DEF ParameterVariable
  <2>2. CASE f # ErrorFunction
    BY <1>1, <1>2, <1>5, <2>2 DEF ParameterVariable
  <2>3. QED
    BY <2>1, <2>2
<1>6. CASE TemporaryVariable(f)
  <2>1. CASE f = ErrorFunction
    BY <1>3, <1>6, <2>1 DEF TemporaryVariable
  <2>2. CASE f # ErrorFunction
    BY <1>1, <1>2, <1>6, <2>2 DEF TemporaryVariable
  <2>3. QED
    BY <2>1, <2>2
<1>7. CASE (\E v \in DOMAIN objects : InitStatement(f, v)) \/ Statement(f) \/ BranchStatement(f)
  BY <1>3, <1>7 DEF InitStatement, Statement, BranchStatement
<1>8. QED
  BY <1>4, <1>5, <1>6, <1>7 DEF Build

LEMMA WalkKeepsModule ==
  ASSUME WalkStep
  PROVE  UNCHANGED <<moduleVars, curFcn, initialized, bodies, building>>
BY DEF WalkStep, BeginLexicalBlock, Instruction, InitializerInst, Jump, LabelDefinition,
       EndLexicalBlock, EndFunction, onlyAssertFails, symbolVars, buildVars

LEMMA SymbolRequestKeeps ==
  ASSUME ModuleInv, Len(symbols) < MaxSymbols, SymbolRequest
  PROVE  ModuleInv'
<1>1. CASE ErrorRequest
  BY <1>1, SameModuleKeeps DEF ErrorRequest
<1>2. CASE ConstantVariable
  BY <1>2, ConstantVariableKeeps
<1>3. CASE PersonalityFunction
  BY <1>3, PersonalityKeeps
<1>4. CASE \E n \in Declared : DeclareFunction(n)
  BY <1>4, DeclareFunctionKeeps
<1>5. CASE \E n \in Defined : DefineFunction(n)
  BY <1>5, DefineFunctionKeeps
<1>6. CASE \E n \in Lookups : LookupBuiltin(n)
  BY <1>6, LookupKeeps
<1>7. CASE \E n \in Globals : ModuleVariable(n)
  BY <1>7, ModuleVariableKeeps
<1>8. CASE \E n \in References : ImmutableStructReference(n)
  BY <1>8, StructReferenceKeeps
<1>9. QED
  BY <1>1, <1>2, <1>3, <1>4, <1>5, <1>6, <1>7, <1>8 DEF SymbolRequest

LEMMA ModuleStep ==
  ASSUME ModuleInv, [Next]_vars
  PROVE  ModuleInv'
<1>1. CASE UNCHANGED moduleVars
  BY <1>1, SameModuleKeeps DEF moduleVars
<1>2. CASE SymbolsPart
  BY <1>2, SymbolRequestKeeps DEF SymbolsPart, Room
<1>3. CASE DefinePart
  <2>1. CASE ErrorRequest
    BY <2>1, SameModuleKeeps DEF ErrorRequest
  <2>2. CASE \E n \in Defined : DefineFunction(n)
    BY <2>2, DefineFunctionKeeps
  <2>3. QED
    BY <1>3, <2>1, <2>2 DEF DefinePart
<1>4. CASE BuildPart
  <2>1. PICK f \in DOMAIN objects : Build(f) \/ BeginWalk(f)
    BY <1>4 DEF BuildPart
  <2>2. CASE Build(f)
    BY <2>2, BuildKeeps
  <2>3. CASE BeginWalk(f)
    BY <2>3, SameModuleKeeps DEF BeginWalk, SetBody, sameModule
  <2>4. QED
    BY <2>1, <2>2, <2>3
<1>5. CASE WalkPart
  BY <1>1, <1>5, WalkKeepsModule DEF WalkPart
<1>6. CASE UNCHANGED backendVars
  BY <1>1, <1>6 DEF backendVars, symbolVars
<1>7. BackendStep \/ UNCHANGED backendVars
  BY DEF Next, DriverPart, WrapperPart, InstallPart, vars
<1>8. QED
  BY <1>2, <1>3, <1>4, <1>5, <1>6, <1>7 DEF BackendStep

LEMMA ModuleInit == Init => ModuleInv
<1> SUFFICES ASSUME Init PROVE ModuleInv
  OBVIOUS
<1>1. SymbolsInit
  BY DEF Init
<1>0. PICK unnamed : unnamed = ""
  OBVIOUS
<1>a. symbols = <<Symbol(unnamed, 0)>>
  BY <1>0, <1>1, Zenon DEF SymbolsInit
<1>b. objects = <<Object("function", 1, None), Object("error", None, None)>>
  BY <1>1 DEF SymbolsInit
<1>c. bfunction = [n \in {e.name : e \in Builtins} |-> None]
  BY <1>1 DEF SymbolsInit
<1>d. nametags = [t \in {"const"} |-> 0]
  BY <1>1 DEF SymbolsInit
<1>e. /\ DOMAIN fcnNameMap = {} /\ DOMAIN valueVarMap = {} /\ DOMAIN structRefs = {}
      /\ personality = None /\ asked = {}
  <2>1. fcnNameMap = <<>> /\ valueVarMap = <<>> /\ structRefs = <<>>
    BY <1>1 DEF SymbolsInit
  <2>2. DOMAIN fcnNameMap = 1..0 /\ DOMAIN valueVarMap = 1..0 /\ DOMAIN structRefs = 1..0
    BY <2>1
  <2>3. personality = None /\ asked = {}
    BY <1>1 DEF SymbolsInit
  <2>4. QED
    BY <2>2, <2>3
<1>f. functions = <<>>
  BY <1>1 DEF SymbolsInit
<1>2. Symbol(unnamed, 0) \in SymbolType /\ Symbol(unnamed, 0).name = unnamed
  <2>1. unnamed \in Names
    BY <1>0, Apart, OfBackend
  <2>2. QED
    BY <2>1 DEF Symbol, SymbolType
<1>3. /\ symbols \in Seq(SymbolType) /\ Len(symbols) = 1 /\ symbols[1].name = unnamed
  BY <1>a, <1>2
<1>4. /\ Object("function", 1, None) \in ObjectType /\ Object("error", None, None) \in ObjectType
      /\ Object("function", 1, None).fn = None /\ Object("error", None, None).fn = None
  <2>1. "function" \in Kinds /\ "error" \in Kinds /\ 1 \in Nat /\ None \in Nat
    BY DEF Kinds, None
  <2>2. QED
    BY <2>1, ObjectIs
<1>5. /\ objects \in Seq(ObjectType) /\ Len(objects) = 2
      /\ objects[1].fn = None /\ objects[2].fn = None
  BY <1>b, <1>4
<1>6. \A m : NotYet(m) <=> m # unnamed
  BY <1>3 DEF NotYet
<1>7. Reserved(unnamed)
  <2>1. /\ unnamed \in BackendNames /\ \A e \in Builtins : e.flavor = "libcall" => e.name # unnamed
    BY <1>0, Apart, TableAssumption
  <2>2. unnamed # Personality
    BY <1>0 DEF Personality
  <2>3. /\ unnamed \notin Declared /\ unnamed \notin Defined \cup Globals /\ unnamed \notin References
        /\ \A k \in 0..MaxSymbols : unnamed # ConstName(k)
    BY <2>1, OfBackend
  <2>4. QED
    BY <2>1, <2>2, <2>3 DEF Reserved
<1>8. \A m : NotYet(m) \/ Reserved(m)
  BY <1>6, <1>7
<1>9. \A e \in Builtins : bfunction[e.name] = None
  BY <1>c
<1>10. SymbolsInv
  <2>1. nametags \in [{"const"} -> Nat] /\ nametags["const"] < Len(symbols)
    BY <1>3, <1>d
  <2>2. bfunction \in [{e.name : e \in Builtins} -> Nat]
    BY <1>c DEF None
  <2>3. \A i, j \in 1..Len(symbols) : symbols[i].name = symbols[j].name => i = j
    BY <1>3
  <2>4. QED
    BY <1>3, <1>5, <1>8, <2>1, <2>2, <2>3 DEF SymbolsInv
<1>11. TablesInv
  BY <1>9, <1>e DEF TablesInv
<1>12. FreedInv
  <2>1. \A o : o # None => TableHeld(bfunction, o) = 0
    <3> SUFFICES ASSUME NEW o, o # None PROVE TableHeld(bfunction, o) = 0
      OBVIOUS
    <3>1. {e \in Builtins : e.flavor = "intrinsic" /\ bfunction[e.name] = o} = {}
      BY <1>9
    <3>2. QED
      BY <3>1, FS_EmptySet DEF TableHeld
  <2>2. \A o : Held(valueVarMap, o) = 0
    <3> SUFFICES ASSUME NEW o PROVE Held(valueVarMap, o) = 0
      OBVIOUS
    <3>1. {s \in DOMAIN valueVarMap : valueVarMap[s] = o} = {}
      BY <1>e
    <3>2. QED
      BY <3>1, FS_EmptySet DEF Held
  <2>3. \A o : Occurrences(o, functions) = 0
    <3> SUFFICES ASSUME NEW o PROVE Occurrences(o, functions) = 0
      OBVIOUS
    <3>1. {i \in DOMAIN functions : functions[i] = o} = {}
      BY <1>f
    <3>2. QED
      BY <3>1, FS_EmptySet DEF Occurrences
  <2>4. \A o \in 1..Len(objects) : /\ objects[o].fn = None
                                   /\ FreedBy(o, functions, valueVarMap, bfunction) = 1
    <3> SUFFICES ASSUME NEW o \in 1..Len(objects)
                 PROVE  /\ objects[o].fn = None
                        /\ FreedBy(o, functions, valueVarMap, bfunction) = 1
      OBVIOUS
    <3>1. o = 1 \/ o = 2
      BY <1>5
    <3>2. o # None /\ o \in {ErrorFunction, ErrorVariable} /\ objects[o].fn = None
      BY <1>5, <3>1 DEF None, ErrorFunction, ErrorVariable
    <3>3. /\ Occurrences(o, functions) = 0 /\ Held(valueVarMap, o) = 0
          /\ TableHeld(bfunction, o) = 0
      BY <2>1, <2>2, <2>3, <3>2
    <3>4. QED
      BY <3>2, <3>3 DEF FreedBy
  <2>5. functions \in Seq(Nat) /\ Len(functions) = 0 /\ DOMAIN valueVarMap = {}
    BY <1>e, <1>f
  <2>6. \A e \in Builtins : bfunction[e.name] \in 0..Len(objects)
    BY <1>5, <1>9 DEF None
  <2>7. QED
    BY <1>5, <2>4, <2>5, <2>6 DEF FreedInv
<1>13. QED
  BY <1>10, <1>11, <1>12 DEF ModuleInv

LEMMA ModuleInvariant == Spec => []ModuleInv
<1>1. ModuleInv /\ [Next]_vars => ModuleInv'
  BY ModuleStep
<1> QED
  BY <1>1, ModuleInit, PTL DEF Spec

\* Whatever the frontend declares, defines, refers to and looks up, in whatever order, it
\* gets one object for each name, with the symbol of that name and no renamed copy of it:
\* no request of function(), lookup_builtin, makeModuleVar or immutable_struct_reference
\* creates a symbol under a name that is taken.
THEOREM SymbolsAreKept == Spec => []SymbolsKept
<1>1. ASSUME ModuleInv PROVE SymbolsKept
  <2>1. ASSUME NEW i \in 1..Len(symbols) PROVE symbols[i].copy = 0
    <3>1. symbols[i] \in SymbolType
      BY <1>1, ElementOfSeq DEF ModuleInv, SymbolsInv
    <3>2. QED
      BY <3>1 DEF SymbolType
  <2>2. ASSUME NEW a \in asked
        PROVE  /\ symbols[objects[a.object].symbol].name \in SymbolOf(a.name)
               /\ symbols[objects[a.object].symbol].copy = 0
    <3>1. SymbolFor(a.object, SymbolOf(a.name), objects, symbols)
      BY <1>1 DEF ModuleInv, TablesInv
    <3>2. /\ objects[a.object].symbol \in 1..Len(symbols)
          /\ symbols[objects[a.object].symbol].name \in SymbolOf(a.name)
      BY <3>1 DEF SymbolFor
    <3>3. QED
      BY <2>1, <3>2
  <2>3. ASSUME personality # None PROVE symbols[personality] = Symbol(Personality, 0)
    <3>1. personality \in 1..Len(symbols) /\ symbols[personality].name = Personality
      BY <1>1, <2>3 DEF ModuleInv, TablesInv
    <3>2. symbols[personality] \in SymbolType
      BY <1>1, <3>1, ElementOfSeq DEF ModuleInv, SymbolsInv
    <3>3. QED
      BY <3>1, <3>2 DEF Symbol, SymbolType
  <2>4. QED
    BY <2>2, <2>3 DEF SymbolsKept
<1> QED
  BY <1>1, ModuleInvariant, PTL

\* However the tables of functions, declarations, builtin functions, values and references
\* came to hold an object, ~Llvm_backend deletes it exactly once: the list has every
\* function that is no intrinsic one, valueVarMap_ every variable of the module, and what
\* belongs to a function is deleted with it.
THEOREM ObjectsFreedOnce == Spec => []FreedOnce
<1>1. ASSUME ModuleInv PROVE FreedOnce
  <2>1. DOMAIN objects = 1..Len(objects)
    BY <1>1, LenProperties DEF ModuleInv, SymbolsInv
  <2>2. ASSUME NEW o \in 1..Len(objects) PROVE Freed(o) = 1
    <3>1. IF objects[o].fn = None THEN FreedBy(o, functions, valueVarMap, bfunction) = 1
          ELSE objects[o].fn \in 1..Len(objects) /\ objects[objects[o].fn].fn = None
      BY <1>1, <2>2 DEF ModuleInv, FreedInv
    <3>2. CASE objects[o].fn = None
      BY <3>1, <3>2, FreedDirectlyIs DEF Freed
    <3>3. CASE objects[o].fn # None
      <4> DEFINE f == objects[o].fn
      <4>1. f \in 1..Len(objects) /\ objects[f].fn = None
        BY <3>1, <3>3
      <4>2. FreedBy(f, functions, valueVarMap, bfunction) = 1
        BY <1>1, <4>1 DEF ModuleInv, FreedInv
      <4>3. QED
        BY <3>3, <4>2, FreedDirectlyIs DEF Freed
    <3>4. QED
      BY <3>2, <3>3
  <2>3. QED
    BY <2>1, <2>2 DEF FreedOnce
<1> QED
  BY <1>1, ModuleInvariant, PTL

-----------------------------------------------------------------------------
(* The scopes of a body.                                                    *)

BlockType == [vars : SUBSET Nat, parent : Nat]
ScopeType == [parent : Nat, block : Nat]
DeclarationType == [var : Nat, scope : Nat]

Locals == {o \in DOMAIN objects : objects[o].fn = walking /\ objects[o].kind \in LocalKinds}
Varied(b) == \E v \in blocks[b].vars : ~IsTemporary(v)
Opens(b) == ~IsTopBlock(b) /\ Varied(b)
Made(b) == CHOOSE s \in DOMAIN scopes : scopes[s].block = b

\* The tree of blocks: a block is numbered behind the one around it.
Shape ==
  /\ blocks \in Seq(BlockType)
  /\ \A b \in 1..Len(blocks) : blocks[b].parent \in 0..(b - 1)

\* Blocks list local variables of the function, each variable in one block.
BlocksInv ==
  /\ Shape
  /\ \A b \in 1..Len(blocks) : blocks[b].vars \subseteq Locals
  /\ \A b, c \in 1..Len(blocks) : \A v \in blocks[b].vars : v \in blocks[c].vars => b = c
  /\ open \in Seq(Nat)
  /\ \A i \in 1..Len(open) : open[i] \in 1..Len(blocks)
  /\ \A i \in 1..Len(open) :
       blocks[open[i]].parent = IF i = 1 THEN None ELSE open[i - 1]

\* A scope for each block that has a variable of the program, in that of the block around.
ScopesShape ==
  /\ scopes \in Seq(ScopeType)
  /\ 2 <= Len(scopes) /\ scopes[1].block = None /\ scopes[2].block = None
  /\ \A s \in 3..Len(scopes) : scopes[s].block \in 1..Len(blocks)
  /\ \A s, t \in 3..Len(scopes) : scopes[s].block = scopes[t].block => s = t
  /\ \A b \in 1..Len(blocks) : Opens(b) <=> \E s \in 3..Len(scopes) : scopes[s].block = b

ScopesInv ==
  /\ ScopesShape
  /\ \A s \in 3..Len(scopes) : \A p :
       p = blocks[scopes[s].block].parent => scopes[s].parent = ScopeOf[p]

\* How deep the stack of scopes was when each open block was entered.
Depths(depth) ==
  /\ depth[0] = 2 /\ depth[Len(open)] = Len(diScopeStack)
  /\ \A i \in 1..Len(open) : \A b :
       b = open[i] => depth[i] = IF Opens(b) THEN depth[i - 1] + 1 ELSE depth[i - 1]
  /\ \A i, j \in 0..Len(open) : i <= j => depth[i] <= depth[j]
  /\ diScopeStack[2] = Subprogram
  /\ \A i \in 1..Len(open) : diScopeStack[depth[i]] = ScopeOf[open[i]]

StackInv ==
  /\ diScopeStack \in Seq(Nat) /\ diScopeStack[1] = Module
  /\ \E depth \in [0..Len(open) -> Nat] : Depths(depth)

\* Where instructions are located and variables declared.
PlacesInv ==
  /\ \A l \in located : l.block \in 0..Len(blocks) /\ l.scope = ScopeOf[l.block]
  /\ declarations \in Seq(DeclarationType)
  /\ \A i \in 1..Len(declarations) : \A b \in 1..Len(blocks) :
       declarations[i].var \in blocks[b].vars => declarations[i].scope = ScopeOf[b]
  /\ \A i \in 1..Len(declarations) :
       (\A b \in 1..Len(blocks) : declarations[i].var \notin blocks[b].vars) =>
         declarations[i].scope = Subprogram
  /\ \A i, j \in 1..Len(declarations) : declarations[i].var = declarations[j].var => i = j
  /\ \A b \in 1..Len(blocks) : (\A i \in 1..Len(open) : open[i] # b) =>
       \A v \in blocks[b].vars : IsTemporary(v) \/ IsDeclared(v)

\* During the walk what is declared is a variable of a block, and every variable that needs
\* it has an initializer; behind it everything is declared.
ProgressInv ==
  IF Walking
  THEN /\ StackInv
       /\ \A i \in 1..Len(declarations) :
            \E b \in 1..Len(blocks) : declarations[i].var \in blocks[b].vars
       /\ \A v \in Locals : objects[v].kind # "empty" => v \in initialized
  ELSE \A v \in Locals : objects[v].kind # "temp" => IsDeclared(v)

BodyInv ==
  /\ walking \in 1..Len(objects)
  /\ BlocksInv /\ ScopesInv /\ PlacesInv /\ ProgressInv
  /\ DeadInits \/ \A v \in DOMAIN placed : placed[v] = "block"

DebugInv ==
  IF walking = None
  THEN blocks = <<>> /\ scopes = <<>> /\ located = {} /\ declarations = <<>>
  ELSE BodyInv

\* The recursion of ScopeOf along the tree of blocks.
Rooted == {b \in 1..Len(blocks) : IsTopBlock(b) \/ Varied(b)}
Own == [b \in 1..Len(blocks) |-> IF IsTopBlock(b) THEN Subprogram ELSE Made(b)]
Parent == [b \in 1..Len(blocks) |-> blocks[b].parent]

LEMMA ScopeOfIs ==
  Shape => Inherits(ScopeOf, Len(blocks), Subprogram, Rooted, Own, Parent)
<1> SUFFICES ASSUME Shape
             PROVE  Inherits(ScopeOf, Len(blocks), Subprogram, Rooted, Own, Parent)
  OBVIOUS
<1> DEFINE n == Len(blocks)
           Rec(f) == [b \in 0..n |->
                        IF b = None \/ IsTopBlock(b) THEN Subprogram
                        ELSE IF Varied(b) THEN Made(b) ELSE f[blocks[b].parent]]
           Tree(f) == [b \in 0..n |-> IF b = 0 THEN Subprogram
                                      ELSE IF b \in Rooted THEN Own[b] ELSE f[Parent[b]]]
<1>1. n \in Nat /\ \A b \in 1..n : blocks[b].parent \in 0..(b - 1)
  BY LenProperties DEF Shape
<1>2. ScopeOf = CHOOSE f : f = Rec(f)
  BY DEF ScopeOf, Varied, Made
<1>3. \A b \in 1..n : /\ Parent[b] = blocks[b].parent
                      /\ b \in Rooted <=> IsTopBlock(b) \/ Varied(b)
                      /\ Own[b] = IF IsTopBlock(b) THEN Subprogram ELSE Made(b)
  BY DEF Parent, Rooted, Own
<1> HIDE DEF n
<1>4. \A f : Rec(f) = Tree(f)
  <2> SUFFICES ASSUME NEW f, NEW b \in 0..n PROVE Rec(f)[b] = Tree(f)[b]
    OBVIOUS
  <2>1. CASE b = 0
    BY <2>1 DEF None
  <2>2. CASE b # 0
    <3>1. b \in 1..n /\ b # None
      BY <1>1, <2>2 DEF None
    <3>2. QED
      BY <1>3, <3>1
  <2>3. QED
    BY <2>1, <2>2
<1>5. \E f : f = Tree(f)
  <2>1. n \in Nat /\ \A b \in 1..n : Parent[b] \in 0..(b - 1)
    BY <1>1, <1>3
  <2>2. \E f : Inherited(f, n, Subprogram, Rooted, Own, Parent)
    BY <2>1, TreeRecursion
  <2>3. QED
    BY <2>2 DEF Inherited
<1>6. ScopeOf = Tree(ScopeOf)
  <2> HIDE DEF Rec, Tree
  <2>1. QED
    BY <1>2, <1>4, <1>5
<1>7. \A b \in 0..n : ScopeOf[b] = IF b = 0 THEN Subprogram
                                   ELSE IF b \in Rooted THEN Own[b] ELSE ScopeOf[Parent[b]]
  BY <1>6
<1>8. 0 \in 0..n /\ \A b \in 1..n : b \in 0..n /\ b # 0
  BY <1>1
<1>9. Inherits(ScopeOf, n, Subprogram, Rooted, Own, Parent)
  BY <1>7, <1>8 DEF Inherits
<1>10. QED
  BY <1>9 DEF n

\* A step that only adds blocks and scopes keeps the scopes of those there are.
LEMMA ScopesKept ==
  ASSUME Shape, Shape', Len(blocks) <= Len(blocks'),
         \A b \in 1..Len(blocks) :
           /\ blocks'[b].parent = blocks[b].parent
           /\ IsTopBlock(b)' <=> IsTopBlock(b)
           /\ Varied(b)' <=> Varied(b)
           /\ Opens(b) => Made(b)' = Made(b)
  PROVE  \A b \in 0..Len(blocks) : ScopeOf'[b] = ScopeOf[b]
<1> DEFINE n == Len(blocks)
           m == Len(blocks')
<1>1. Inherits(ScopeOf, n, Subprogram, Rooted, Own, Parent)
  BY ScopeOfIs
<1>2. Inherits(ScopeOf', m, Subprogram, Rooted', Own', Parent')
  <2>1. (Shape => Inherits(ScopeOf, Len(blocks), Subprogram, Rooted, Own, Parent))'
    BY ScopeOfIs, PTL
  <2>2. QED
    BY <2>1
<1>3. n \in Nat /\ m \in Nat /\ n <= m
  BY LenProperties DEF Shape
<1>4. \A b \in 1..n : b \in 1..m
  BY <1>3
<1>5. \A b \in 1..n : Parent[b] = blocks[b].parent /\ Parent[b] \in 0..(b - 1)
  BY DEF Parent, Shape
<1>6. \A b \in 1..n : Parent'[b] = Parent[b]
  <2>1. \A b \in 1..m : Parent'[b] = blocks'[b].parent
    BY DEF Parent
  <2>2. QED
    BY <1>4, <1>5, <2>1
<1>7. \A b \in 1..n : b \in Rooted' <=> b \in Rooted
  BY <1>4 DEF Rooted
<1>8. \A b \in 1..n : b \in Rooted => Own'[b] = Own[b]
  <2> SUFFICES ASSUME NEW b \in 1..n, b \in Rooted PROVE Own'[b] = Own[b]
    OBVIOUS
  <2>1. Own[b] = IF IsTopBlock(b) THEN Subprogram ELSE Made(b)
    BY DEF Own
  <2>2. Own'[b] = IF IsTopBlock(b)' THEN Subprogram ELSE Made(b)'
    BY <1>4 DEF Own
  <2>3. IsTopBlock(b) \/ Opens(b)
    BY DEF Rooted, Opens
  <2>4. QED
    BY <2>1, <2>2, <2>3
<1> HIDE DEF n, m
<1>9. Inherits(ScopeOf', n, Subprogram, Rooted, Own, Parent)
  BY <1>2, <1>4, <1>6, <1>7, <1>8 DEF Inherits
<1>10. QED
  BY <1>1, <1>3, <1>5, <1>9, InheritsAlike, SMTT(30) DEF n

MadeForBlocks == \A s \in 3..Len(scopes) : \A b : b = scopes[s].block => Made(b) = s

LEMMA MadeIs == ScopesShape => MadeForBlocks
<1> SUFFICES ASSUME ScopesShape, NEW s \in 3..Len(scopes), NEW b, b = scopes[s].block
             PROVE  Made(b) = s
  BY DEF MadeForBlocks
<1>1. DOMAIN scopes = 1..Len(scopes) /\ Len(scopes) \in Nat
  BY LenProperties DEF ScopesInv, ScopesShape
<1>2. b # None
  BY DEF ScopesInv, ScopesShape, None
<1>3. \A t \in DOMAIN scopes : scopes[t].block = b => t = s
  <2> SUFFICES ASSUME NEW t \in DOMAIN scopes, scopes[t].block = b PROVE t = s
    OBVIOUS
  <2>1. t = 1 \/ t = 2 \/ t \in 3..Len(scopes)
    BY <1>1
  <2>2. QED
    BY <1>2, <2>1 DEF ScopesInv, ScopesShape
<1>4. s \in DOMAIN scopes
  BY <1>1
<1>5. QED
  BY <1>3, <1>4 DEF Made

\* What ScopeOf says of the function and of each block.
ScopeOfBlocks ==
  /\ ScopeOf[0] = Subprogram
  /\ \A b \in 1..Len(blocks) :
       ScopeOf[b] = IF IsTopBlock(b) THEN Subprogram
                    ELSE IF Varied(b) THEN Made(b) ELSE ScopeOf[blocks[b].parent]

LEMMA ScopeValues == Shape => ScopeOfBlocks
<1> SUFFICES ASSUME Shape PROVE ScopeOfBlocks
  OBVIOUS
<1>1. Inherits(ScopeOf, Len(blocks), Subprogram, Rooted, Own, Parent)
  BY ScopeOfIs
<1>2. \A b \in 1..Len(blocks) :
        ScopeOf[b] = IF b \in Rooted THEN Own[b] ELSE ScopeOf[Parent[b]]
  BY <1>1 DEF Inherits
<1>3. \A b \in 1..Len(blocks) : /\ Parent[b] = blocks[b].parent
                                /\ b \in Rooted <=> IsTopBlock(b) \/ Varied(b)
                                /\ Own[b] = IF IsTopBlock(b) THEN Subprogram ELSE Made(b)
  BY DEF Parent, Rooted, Own
<1>4. QED
  BY <1>1, <1>2, <1>3 DEF Inherits, ScopeOfBlocks

\* Steps that leave the blocks, scopes and declarations alone.
Framed ==
  /\ UNCHANGED <<walking, topblock, open, blocks, scopes, diScopeStack, declarations, initialized>>
  /\ Longer(objects, objects')
  /\ \A o \in 1..Len(objects') : o \in 1..Len(objects) \/ objects'[o].fn = None

LEMMA FramedFacts ==
  ASSUME BodyInv, walking # None, objects \in Seq(ObjectType), objects' \in Seq(ObjectType), Framed
  PROVE  /\ Locals' = Locals /\ Locals \subseteq 1..Len(objects)
         /\ \A v \in Locals : objects'[v] = objects[v] /\ (IsTemporary(v)' <=> IsTemporary(v))
         /\ \A b \in 1..Len(blocks) : Opens(b)' <=> Opens(b)
         /\ \A b \in 0..Len(blocks) : ScopeOf'[b] = ScopeOf[b]
         /\ Shape'
<1>1. DOMAIN objects = 1..Len(objects) /\ DOMAIN objects' = 1..Len(objects')
  BY LenProperties
<1>2. \A o \in 1..Len(objects) : objects'[o] = objects[o] /\ o \in 1..Len(objects')
  BY DEF Framed, Longer
<1>3. Locals' = Locals /\ Locals \subseteq 1..Len(objects)
  BY <1>1, <1>2 DEF Locals, Framed
<1>4. \A v \in Locals : objects'[v] = objects[v] /\ (IsTemporary(v)' <=> IsTemporary(v))
  BY <1>2, <1>3 DEF IsTemporary
<1>5. Shape /\ Shape' /\ Len(blocks) <= Len(blocks')
  <2>1. Shape /\ Len(blocks) \in Nat /\ blocks' = blocks
    BY LenProperties DEF BodyInv, BlocksInv, Shape, Framed
  <2>2. QED
    BY <2>1 DEF Shape
<1>6. ASSUME NEW b \in 1..Len(blocks)
      PROVE  /\ blocks'[b].parent = blocks[b].parent
             /\ IsTopBlock(b)' <=> IsTopBlock(b)
             /\ Varied(b)' <=> Varied(b)
             /\ Opens(b) => Made(b)' = Made(b)
  <2>1. blocks' = blocks /\ scopes' = scopes /\ topblock' = topblock
    BY DEF Framed
  <2>2. blocks[b].vars \subseteq Locals
    BY DEF BodyInv, BlocksInv
  <2>3. Varied(b)' <=> Varied(b)
    BY <1>4, <2>1, <2>2 DEF Varied
  <2>4. IsTopBlock(b)' <=> IsTopBlock(b)
    BY <2>1 DEF IsTopBlock
  <2>5. Made(b)' = Made(b)
    BY <2>1 DEF Made
  <2>6. QED
    BY <2>1, <2>3, <2>4, <2>5
<1>7. \A b \in 0..Len(blocks) : ScopeOf'[b] = ScopeOf[b]
  BY <1>5, <1>6, ScopesKept
<1>8. \A b \in 1..Len(blocks) : Opens(b)' <=> Opens(b)
  BY <1>6 DEF Opens
<1>9. QED
  BY <1>3, <1>4, <1>5, <1>7, <1>8

LEMMA FramedKeeps ==
  ASSUME BodyInv, walking # None, objects \in Seq(ObjectType), objects' \in Seq(ObjectType), Framed,
         \A l \in located' : l \in located
                             \/ (l.block \in 0..Len(blocks) /\ l.scope = ScopeOf[l.block]),
         DeadInits \/ \A v \in DOMAIN placed' : placed'[v] = "block"
  PROVE  BodyInv'
<1>1. /\ walking' = walking /\ topblock' = topblock /\ open' = open /\ blocks' = blocks
      /\ scopes' = scopes /\ diScopeStack' = diScopeStack /\ declarations' = declarations
      /\ initialized' = initialized
  BY DEF Framed
<1>2. /\ Locals' = Locals /\ Locals \subseteq 1..Len(objects)
      /\ \A v \in Locals : objects'[v] = objects[v] /\ (IsTemporary(v)' <=> IsTemporary(v))
      /\ \A b \in 1..Len(blocks) : Opens(b)' <=> Opens(b)
      /\ \A b \in 0..Len(blocks) : ScopeOf'[b] = ScopeOf[b]
      /\ Shape'
  BY FramedFacts
<1>3. Len(blocks) \in Nat /\ \A b \in 1..Len(blocks) : b \in 0..Len(blocks)
  BY LenProperties DEF BodyInv, BlocksInv, Shape
<1>4. BlocksInv'
  BY <1>1, <1>2 DEF BodyInv, BlocksInv
<1>5. ScopesInv'
  <2>1. \A s \in 3..Len(scopes) : blocks[scopes[s].block].parent \in 0..Len(blocks)
    BY <1>3 DEF BodyInv, BlocksInv, Shape, ScopesInv, ScopesShape
  <2>2. \A s \in 3..Len(scopes) : \A p :
          p = blocks[scopes[s].block].parent => scopes[s].parent = ScopeOf'[p]
    BY <1>2, <2>1 DEF BodyInv, ScopesInv, ScopesShape
  <2>3. \A b \in 1..Len(blocks) : Opens(b)' <=> \E s \in 3..Len(scopes) : scopes[s].block = b
    BY <1>2 DEF BodyInv, ScopesInv, ScopesShape
  <2>4. ScopesInv
    BY DEF BodyInv
  <2>5. QED
    BY <1>1, <2>2, <2>3, <2>4 DEF ScopesInv, ScopesShape
<1>6. \A v : IsDeclared(v)' <=> IsDeclared(v)
  BY <1>1 DEF IsDeclared
<1>7. \A b \in 1..Len(blocks) : blocks[b].vars \subseteq Locals
  BY DEF BodyInv, BlocksInv
<1>8. PlacesInv'
  <2>1. PlacesInv
    BY DEF BodyInv
  <2>2. \A l \in located' : l.block \in 0..Len(blocks) /\ l.scope = ScopeOf'[l.block]
    BY <1>2, <2>1 DEF PlacesInv
  <2>3. \A i \in 1..Len(declarations) : \A b \in 1..Len(blocks) :
          declarations[i].var \in blocks[b].vars => declarations[i].scope = ScopeOf'[b]
    BY <1>2, <1>3, <2>1 DEF PlacesInv
  <2>4. \A b \in 1..Len(blocks) : (\A i \in 1..Len(open) : open[i] # b) =>
          \A v \in blocks[b].vars : IsTemporary(v)' \/ IsDeclared(v)'
    BY <1>2, <1>6, <1>7, <2>1 DEF PlacesInv
  <2>5. QED
    BY <1>1, <2>1, <2>2, <2>3, <2>4 DEF PlacesInv
<1>9. Walking' <=> Walking
  BY <1>1 DEF Walking
<1>10. ProgressInv'
  <2>1. CASE Walking
    <3>1. StackInv /\ BlocksInv
      BY <2>1 DEF BodyInv, ProgressInv
    <3>2. PICK depth \in [0..Len(open) -> Nat] : Depths(depth)
      BY <3>1 DEF StackInv
    <3>3. Depths(depth)'
      <4>1. \A i \in 1..Len(open) : open[i] \in 1..Len(blocks)
        BY <3>1 DEF BlocksInv
      <4>2. \A i \in 1..Len(open) : \A b :
              b = open[i] => depth[i] = IF Opens(b)' THEN depth[i - 1] + 1 ELSE depth[i - 1]
        BY <1>2, <3>2, <4>1 DEF Depths
      <4>3. \A i \in 1..Len(open) : diScopeStack[depth[i]] = ScopeOf'[open[i]]
        BY <1>2, <1>3, <3>2, <4>1 DEF Depths
      <4>4. QED
        BY <1>1, <3>2, <4>2, <4>3 DEF Depths
    <3>4. StackInv'
      BY <1>1, <3>1, <3>3 DEF StackInv
    <3>5. \A v \in Locals' : objects'[v].kind # "empty" => v \in initialized'
      BY <1>1, <1>2, <2>1 DEF BodyInv, ProgressInv
    <3>6. \A i \in 1..Len(declarations') :
            \E b \in 1..Len(blocks') : declarations'[i].var \in blocks'[b].vars
      BY <1>1, <2>1 DEF BodyInv, ProgressInv
    <3>7. QED
      BY <1>9, <2>1, <3>4, <3>5, <3>6 DEF ProgressInv
  <2>2. CASE ~Walking
    <3>1. \A v \in Locals' : objects'[v].kind # "temp" => IsDeclared(v)'
      BY <1>2, <1>6, <2>2 DEF BodyInv, ProgressInv
    <3>2. QED
      BY <1>9, <2>2, <3>1 DEF ProgressInv
  <2>3. QED
    BY <2>1, <2>2
<1>11. walking' \in 1..Len(objects')
  <2>1. walking \in 1..Len(objects)
    BY DEF BodyInv
  <2>2. QED
    BY <1>1, <2>1 DEF Framed, Longer
<1>12. QED
  BY <1>4, <1>5, <1>8, <1>10, <1>11 DEF BodyInv

\* The scope on top of the stack is that of the innermost block.
LEMMA CurrentIs ==
  ASSUME BodyInv, Walking
  PROVE  /\ Len(diScopeStack) \in Nat /\ Len(diScopeStack) >= 2 /\ CurrentScope \in Nat
         /\ Len(open) \in Nat /\ Len(blocks) \in Nat
         /\ Innermost = IF Len(open) = 0 THEN 0 ELSE open[Len(open)]
         /\ Innermost \in 0..Len(blocks) /\ CurrentScope = ScopeOf[Innermost]
         /\ Len(open) = 0 => Len(diScopeStack) = 2 /\ CurrentScope = Subprogram
<1>1. StackInv /\ BlocksInv
  BY DEF BodyInv, ProgressInv
<1>2. PICK depth \in [0..Len(open) -> Nat] : Depths(depth)
  BY <1>1 DEF StackInv
<1>3. /\ open \in Seq(Nat) /\ Len(open) \in Nat /\ Len(blocks) \in Nat
      /\ diScopeStack \in Seq(Nat) /\ Len(diScopeStack) \in Nat
  BY <1>1, LenProperties DEF BlocksInv, Shape, StackInv
<1>4. Innermost = IF Len(open) = 0 THEN 0 ELSE open[Len(open)]
  <2>1. open = <<>> <=> Len(open) = 0
    BY <1>3, EmptySeq
  <2>2. QED
    BY <2>1 DEF Innermost, None
<1>5. depth[0] = 2 /\ depth[Len(open)] = Len(diScopeStack) /\ depth[0] <= depth[Len(open)]
  BY <1>2, <1>3 DEF Depths
<1>6. ScopeOf[0] = Subprogram
  BY <1>1, ScopeValues DEF BlocksInv, ScopeOfBlocks
<1>7. Innermost \in 0..Len(blocks) /\ CurrentScope = ScopeOf[Innermost]
  <2>1. CASE Len(open) = 0
    <3>1. CurrentScope = Subprogram
      BY <1>2, <1>5, <2>1 DEF Depths, CurrentScope
    <3>2. QED
      BY <1>3, <1>4, <1>6, <2>1, <3>1
  <2>2. CASE Len(open) # 0
    <3>1. Len(open) \in 1..Len(open)
      BY <1>3, <2>2
    <3>2. open[Len(open)] \in 1..Len(blocks)
      BY <1>1, <3>1 DEF BlocksInv
    <3>3. diScopeStack[depth[Len(open)]] = ScopeOf[open[Len(open)]]
      BY <1>2, <3>1 DEF Depths
    <3>4. QED
      BY <1>3, <1>4, <1>5, <2>2, <3>2, <3>3 DEF CurrentScope
  <2>3. QED
    BY <2>1, <2>2
<1>8. Len(open) = 0 => Len(diScopeStack) = 2 /\ CurrentScope = Subprogram
  BY <1>2, <1>5 DEF Depths, CurrentScope
<1>9. CurrentScope \in Nat
  <2>1. Len(diScopeStack) \in 1..Len(diScopeStack)
    BY <1>3, <1>5
  <2>2. QED
    BY <1>3, <2>1, ElementOfSeq DEF CurrentScope
<1>10. QED
  BY <1>3, <1>4, <1>5, <1>7, <1>8, <1>9

\* A new block, numbered b, in the innermost one.
BlockBegun(b, vs) ==
  /\ b = Len(blocks) + 1 /\ vs \subseteq Locals
  /\ \A c \in 1..Len(blocks) : \A v \in vs : v \notin blocks[c].vars
  /\ blocks' = Append(blocks, [vars |-> vs, parent |-> Innermost])
  /\ open' = Append(open, b)
  /\ topblock /\ b = 1 => Len(open) = 0
  /\ UNCHANGED <<walking, topblock, located, placed, declarations, objects, initialized>>

LEMMA BegunBlocks ==
  ASSUME BodyInv, Walking, objects \in Seq(ObjectType), NEW b, NEW vs, BlockBegun(b, vs)
  PROVE  /\ Len(blocks) \in Nat /\ b = Len(blocks) + 1 /\ Len(blocks') = Len(blocks) + 1
         /\ \A c \in 1..Len(blocks) : blocks'[c] = blocks[c]
         /\ \A c \in 1..Len(blocks') : c \in 1..Len(blocks) \/ c = b
         /\ blocks'[b].vars = vs /\ blocks'[b].parent = Innermost
         /\ Len(open) \in Nat /\ Len(open') = Len(open) + 1 /\ open'[Len(open) + 1] = b
         /\ \A i \in 1..Len(open) : open'[i] = open[i]
         /\ BlocksInv'
         /\ \A c \in 1..Len(blocks) : /\ IsTopBlock(c)' <=> IsTopBlock(c)
                                      /\ Varied(c)' <=> Varied(c)
                                      /\ Opens(c)' <=> Opens(c)
<1> DEFINE k == Len(blocks)
           m == Len(open)
           new == [vars |-> vs, parent |-> Innermost]
<1>1. /\ k \in Nat /\ m \in Nat /\ Innermost \in 0..k
      /\ Innermost = IF m = 0 THEN 0 ELSE open[m]
  BY CurrentIs
<1>2. /\ BlocksInv /\ blocks \in Seq(BlockType) /\ open \in Seq(Nat)
      /\ DOMAIN objects = 1..Len(objects) /\ Len(objects) \in Nat
  BY LenProperties DEF BodyInv, BlocksInv, Shape
<1>3. new \in BlockType
  <2>1. vs \subseteq Nat
    BY <1>2 DEF BlockBegun, Locals
  <2>2. QED
    BY <1>1, <2>1 DEF BlockType
<1>4. /\ blocks' \in Seq(BlockType) /\ Len(blocks') = k + 1 /\ blocks'[k + 1] = new
      /\ \A c \in 1..k : blocks'[c] = blocks[c]
  BY <1>2, <1>3, AppendProperties DEF BlockBegun
<1>5. b = k + 1 /\ b \in Nat /\ blocks'[b].vars = vs /\ blocks'[b].parent = Innermost
  BY <1>1, <1>4 DEF BlockBegun
<1>6. /\ open' \in Seq(Nat) /\ Len(open') = m + 1 /\ open'[m + 1] = b
      /\ \A i \in 1..m : open'[i] = open[i]
  BY <1>2, <1>5, AppendProperties DEF BlockBegun
<1>7. \A c \in 1..Len(blocks') : c \in 1..k \/ c = b
  BY <1>1, <1>4, <1>5
<1>8. \A i \in 1..Len(open') : i \in 1..m \/ i = m + 1
  BY <1>1, <1>6
<1>9. Locals' = Locals
  BY DEF Locals, BlockBegun
<1> HIDE DEF k, m, new
<1>10. BlocksInv'
  <2>1. Shape'
    <3>1. \A c \in 1..Len(blocks') : blocks'[c].parent \in 0..(c - 1)
      <4>1. \A c \in 1..k : blocks'[c].parent \in 0..(c - 1)
        BY <1>2, <1>4 DEF BlocksInv, Shape, k
      <4>2. blocks'[b].parent \in 0..(b - 1)
        BY <1>1, <1>5
      <4>3. QED
        BY <1>7, <4>1, <4>2
    <3>2. QED
      BY <1>4, <3>1 DEF Shape
  <2>2. \A c \in 1..Len(blocks') : blocks'[c].vars \subseteq Locals
    <3>1. \A c \in 1..k : blocks[c].vars \subseteq Locals
      BY <1>2 DEF BlocksInv, k
    <3>2. QED
      BY <1>4, <1>5, <1>7, <3>1 DEF BlockBegun
  <2>3. \A c, d \in 1..Len(blocks') : \A v \in blocks'[c].vars : v \in blocks'[d].vars => c = d
    <3>1. \A c, d \in 1..k : \A v \in blocks[c].vars : v \in blocks[d].vars => c = d
      BY <1>2 DEF BlocksInv, k
    <3>2. \A c \in 1..k : \A v \in vs : v \notin blocks[c].vars
      BY DEF BlockBegun, k
    <3>3. QED
      BY <1>4, <1>5, <1>7, <3>1, <3>2
  <2>4. \A i \in 1..Len(open') : open'[i] \in 1..Len(blocks')
    <3>1. \A i \in 1..m : open'[i] \in 1..k
      BY <1>2, <1>6 DEF BlocksInv, k, m
    <3>2. b \in 1..Len(blocks') /\ \A c \in 1..k : c \in 1..Len(blocks')
      BY <1>1, <1>4, <1>5
    <3>3. QED
      BY <1>6, <1>8, <3>1, <3>2
  <2>5. \A i \in 1..Len(open') :
          blocks'[open'[i]].parent = IF i = 1 THEN None ELSE open'[i - 1]
    <3>1. ASSUME NEW i \in 1..m
          PROVE  blocks'[open'[i]].parent = IF i = 1 THEN None ELSE open'[i - 1]
      <4>1. open'[i] = open[i] /\ open[i] \in 1..k
        BY <1>2, <1>6 DEF BlocksInv, k, m
      <4>2. blocks'[open'[i]].parent = IF i = 1 THEN None ELSE open[i - 1]
        BY <1>2, <1>4, <4>1 DEF BlocksInv, k, m
      <4>3. i # 1 => open'[i - 1] = open[i - 1]
        BY <1>1, <1>6, SMTT(30)
      <4>4. QED
        BY <4>2, <4>3
    <3>2. blocks'[open'[m + 1]].parent = IF m + 1 = 1 THEN None ELSE open'[(m + 1) - 1]
      <4>1. m # 0 => m \in 1..m /\ open'[m] = open[m]
        BY <1>1, <1>6
      <4>2. (m + 1) - 1 = m /\ (m + 1 = 1 <=> m = 0)
        BY <1>1
      <4>3. QED
        BY <1>1, <1>5, <1>6, <4>1, <4>2 DEF None
    <3>3. QED
      BY <1>8, <3>1, <3>2
  <2>6. QED
    BY <1>6, <1>9, <2>1, <2>2, <2>3, <2>4, <2>5 DEF BlocksInv
<1>11. ASSUME NEW c \in 1..k
       PROVE  /\ IsTopBlock(c)' <=> IsTopBlock(c)
              /\ Varied(c)' <=> Varied(c)
              /\ Opens(c)' <=> Opens(c)
  <2>1. topblock' = topblock /\ objects' = objects
    BY DEF BlockBegun
  <2>2. IsTopBlock(c)' <=> IsTopBlock(c)
    BY <2>1 DEF IsTopBlock
  <2>3. Varied(c)' <=> Varied(c)
    BY <1>4, <2>1 DEF Varied, IsTemporary
  <2>4. QED
    BY <2>2, <2>3 DEF Opens
<1>12. QED
  BY <1>1, <1>4, <1>5, <1>6, <1>7, <1>10, <1>11 DEF k, m

\* A scope for the block if it needs one.
ScopePushed(b) ==
  IF Opens(b)'
  THEN /\ scopes' = Append(scopes, [parent |-> CurrentScope, block |-> b])
       /\ diScopeStack' = Append(diScopeStack, Len(scopes) + 1)
  ELSE UNCHANGED <<scopes, diScopeStack>>

LEMMA BegunScopes ==
  ASSUME BodyInv, Walking, objects \in Seq(ObjectType), NEW b, NEW vs, BlockBegun(b, vs),
         ScopePushed(b)
  PROVE  /\ ScopesShape'
         /\ \A c \in 0..Len(blocks) : ScopeOf'[c] = ScopeOf[c]
         /\ ScopeOf'[b] = IF Opens(b)' THEN Len(scopes) + 1 ELSE CurrentScope
         /\ ScopesInv'
<1> DEFINE k == Len(blocks)
           q == Len(scopes)
           new == [parent |-> CurrentScope, block |-> b]
<1>1. /\ k \in Nat /\ b = k + 1 /\ Len(blocks') = k + 1
      /\ \A c \in 1..k : blocks'[c] = blocks[c]
      /\ \A c \in 1..Len(blocks') : c \in 1..k \/ c = b
      /\ blocks'[b].vars = vs /\ blocks'[b].parent = Innermost /\ BlocksInv'
      /\ \A c \in 1..k : /\ IsTopBlock(c)' <=> IsTopBlock(c)
                         /\ Varied(c)' <=> Varied(c)
                         /\ Opens(c)' <=> Opens(c)
  BY BegunBlocks
<1>2. /\ CurrentScope \in Nat /\ Innermost \in 0..k /\ CurrentScope = ScopeOf[Innermost]
      /\ Innermost = IF Len(open) = 0 THEN 0 ELSE open[Len(open)]
      /\ Len(open) = 0 => CurrentScope = Subprogram
  BY CurrentIs
<1>3. /\ ScopesInv /\ ScopesShape /\ scopes \in Seq(ScopeType) /\ q \in Nat /\ 2 <= q
  BY LenProperties DEF BodyInv, ScopesInv, ScopesShape
<1>4. new \in ScopeType /\ new.block = b /\ new.parent = CurrentScope
  BY <1>1, <1>2 DEF ScopeType
<1>7. \A c \in 1..k : blocks[c].parent \in 0..k
  <2>1. \A c \in 1..k : blocks[c].parent \in 0..(c - 1)
    BY DEF BodyInv, BlocksInv, Shape
  <2>2. \A c \in 1..k : \A p \in 0..(c - 1) : p \in 0..k
    BY <1>1
  <2>3. QED
    BY <2>1, <2>2
<1> HIDE DEF k, q, new
<1>5. CASE Opens(b)'
  <2>1. /\ scopes' \in Seq(ScopeType) /\ Len(scopes') = q + 1 /\ scopes'[q + 1] = new
        /\ \A s \in 1..q : scopes'[s] = scopes[s]
    <3>1. scopes' = Append(scopes, new)
      BY <1>5 DEF ScopePushed, new
    <3>2. QED
      BY <1>3, <1>4, <3>1, AppendProperties DEF q
  <2>2. \A s \in 3..Len(scopes') : (s \in 3..q /\ s \in 1..q /\ scopes'[s] = scopes[s])
                                   \/ (s = q + 1 /\ scopes'[s].block = b)
    BY <1>3, <1>4, <2>1
  <2>3. \A s \in 3..q : scopes[s].block \in 1..k /\ s \in 1..q /\ s \in 3..Len(scopes')
    BY <1>3, <2>1 DEF ScopesShape, k, q
  <2>4. \A s \in 3..q : scopes[s].block # b
    BY <1>1, <2>3
  <2>5. ScopesShape'
    <3>1. 2 <= Len(scopes') /\ scopes'[1].block = None /\ scopes'[2].block = None
      <4>1. 1 \in 1..q /\ 2 \in 1..q
        BY <1>3
      <4>2. QED
        BY <1>3, <2>1, <4>1, SMTT(30) DEF ScopesShape
    <3>2. \A s \in 3..Len(scopes') : scopes'[s].block \in 1..Len(blocks')
      <4>1. b \in 1..Len(blocks') /\ \A c \in 1..k : c \in 1..Len(blocks')
        BY <1>1
      <4>2. QED
        BY <2>2, <2>3, <4>1
    <3>3. \A s, t \in 3..Len(scopes') : scopes'[s].block = scopes'[t].block => s = t
      <4>1. \A s, t \in 3..q : scopes[s].block = scopes[t].block => s = t
        BY <1>3 DEF ScopesShape, q
      <4>2. QED
        BY <2>2, <2>4, <4>1
    <3>4. \A c \in 1..Len(blocks') :
            Opens(c)' <=> \E s \in 3..Len(scopes') : scopes'[s].block = c
      <4>1. ASSUME NEW c \in 1..k
            PROVE  Opens(c)' <=> \E s \in 3..Len(scopes') : scopes'[s].block = c
        <5>1. c # b
          BY <1>1
        <5>2. Opens(c) <=> \E s \in 3..q : scopes[s].block = c
          BY <1>3 DEF ScopesShape, k, q
        <5>3. (\E s \in 3..Len(scopes') : scopes'[s].block = c)
                <=> \E s \in 3..q : scopes[s].block = c
          <6>1. ASSUME NEW s \in 3..Len(scopes'), scopes'[s].block = c
                PROVE  \E t \in 3..q : scopes[t].block = c
            BY <2>2, <5>1, <6>1
          <6>2. ASSUME NEW s \in 3..q, scopes[s].block = c
                PROVE  \E t \in 3..Len(scopes') : scopes'[t].block = c
            <7>1. s \in 3..Len(scopes') /\ scopes'[s] = scopes[s]
              BY <2>1, <2>3
            <7>2. QED
              BY <6>2, <7>1
          <6>3. QED
            BY <6>1, <6>2
        <5>4. QED
          BY <1>1, <5>2, <5>3
      <4>2. \E s \in 3..Len(scopes') : scopes'[s].block = b
        <5>1. q + 1 \in 3..Len(scopes') /\ scopes'[q + 1].block = b
          BY <1>3, <1>4, <2>1
        <5>2. QED
          BY <5>1
      <4>3. QED
        BY <1>1, <1>5, <4>1, <4>2
    <3>5. QED
      BY <2>1, <3>1, <3>2, <3>3, <3>4 DEF ScopesShape
  <2>6. \A s \in 3..Len(scopes') : \A c : c = scopes'[s].block => Made(c)' = s
    <3>1. (ScopesShape => MadeForBlocks)'
      BY MadeIs, PTL
    <3>2. QED
      BY <2>5, <3>1 DEF MadeForBlocks
  <2>7. \A c \in 1..k : Opens(c) => Made(c)' = Made(c)
    <3> SUFFICES ASSUME NEW c \in 1..k, Opens(c) PROVE Made(c)' = Made(c)
      OBVIOUS
    <3>1. PICK s \in 3..q : scopes[s].block = c
      BY <1>3 DEF ScopesShape, k, q
    <3>2. Made(c) = s
      BY <1>3, <3>1, MadeIs DEF q, MadeForBlocks
    <3>3. Made(c)' = s
      BY <2>1, <2>3, <2>6, <3>1
    <3>4. QED
      BY <3>2, <3>3
  <2>8. \A c \in 0..k : ScopeOf'[c] = ScopeOf[c]
    <3>1. Shape /\ Shape' /\ Len(blocks) <= Len(blocks')
      BY <1>1 DEF BodyInv, BlocksInv, k
    <3>2. \A c \in 1..Len(blocks) :
            /\ blocks'[c].parent = blocks[c].parent
            /\ IsTopBlock(c)' <=> IsTopBlock(c)
            /\ Varied(c)' <=> Varied(c)
            /\ Opens(c) => Made(c)' = Made(c)
      BY <1>1, <2>7 DEF k
    <3>3. QED
      BY <3>1, <3>2, ScopesKept DEF k
  <2>9. ScopeOf'[b] = q + 1
    <3>1. \A c \in 1..Len(blocks') :
            ScopeOf'[c] = IF IsTopBlock(c)' THEN Subprogram
                          ELSE IF Varied(c)' THEN Made(c)' ELSE ScopeOf'[blocks'[c].parent]
      <4>1. (Shape => ScopeOfBlocks)'
        BY ScopeValues, PTL
      <4>2. QED
        BY <1>1, <4>1 DEF BlocksInv, ScopeOfBlocks
    <3>2. b \in 1..Len(blocks') /\ ~IsTopBlock(b)' /\ Varied(b)'
      BY <1>1, <1>5 DEF Opens
    <3>3. Made(b)' = q + 1
      <4>1. q + 1 \in 3..Len(scopes') /\ scopes'[q + 1].block = b
        BY <1>3, <1>4, <2>1
      <4>2. QED
        BY <2>6, <4>1
    <3>4. QED
      BY <3>1, <3>2, <3>3
  <2>10. \A s \in 3..Len(scopes') : \A p :
           p = blocks'[scopes'[s].block].parent => scopes'[s].parent = ScopeOf'[p]
    <3>1. ASSUME NEW s \in 3..q
          PROVE  \A p : p = blocks'[scopes'[s].block].parent => scopes'[s].parent = ScopeOf'[p]
      <4>1. scopes'[s] = scopes[s] /\ scopes[s].block \in 1..k
        BY <2>1, <2>3
      <4>2. blocks'[scopes[s].block] = blocks[scopes[s].block]
        BY <1>1, <4>1
      <4>3. blocks[scopes[s].block].parent \in 0..k
        BY <1>7, <4>1
      <4>4. \A p : p = blocks[scopes[s].block].parent => scopes[s].parent = ScopeOf[p]
        BY <1>3 DEF ScopesInv, q
      <4>5. QED
        BY <2>8, <4>1, <4>2, <4>3, <4>4
    <3>2. scopes'[q + 1].parent = ScopeOf'[Innermost] /\ blocks'[scopes'[q + 1].block].parent = Innermost
      BY <1>1, <1>2, <1>4, <2>1, <2>8
    <3>3. QED
      BY <2>2, <3>1, <3>2
  <2>11. ScopesInv'
    BY <2>5, <2>10 DEF ScopesInv
  <2>12. QED
    BY <1>5, <2>5, <2>8, <2>9, <2>11 DEF k, q
<1>6. CASE ~Opens(b)'
  <2>1. scopes' = scopes
    BY <1>6 DEF ScopePushed
  <2>2. \A s \in 3..q : scopes[s].block \in 1..k /\ scopes[s].block \in 1..Len(blocks')
                        /\ scopes[s].block # b
    BY <1>1, <1>3 DEF ScopesShape, k, q
  <2>3. ScopesShape'
    <3>1. \A c \in 1..Len(blocks') : Opens(c)' <=> \E s \in 3..q : scopes[s].block = c
      <4>1. \A c \in 1..k : Opens(c) <=> \E s \in 3..q : scopes[s].block = c
        BY <1>3 DEF ScopesShape, k, q
      <4>2. QED
        BY <1>1, <1>6, <2>2, <4>1
    <3>2. QED
      BY <1>3, <2>1, <2>2, <3>1 DEF ScopesShape, q
  <2>4. \A c \in 0..k : ScopeOf'[c] = ScopeOf[c]
    <3>1. Shape /\ Shape' /\ Len(blocks) <= Len(blocks')
      BY <1>1 DEF BodyInv, BlocksInv, k
    <3>2. \A c : Made(c)' = Made(c)
      BY <2>1 DEF Made
    <3>3. \A c \in 1..Len(blocks) :
            /\ blocks'[c].parent = blocks[c].parent
            /\ IsTopBlock(c)' <=> IsTopBlock(c)
            /\ Varied(c)' <=> Varied(c)
            /\ Opens(c) => Made(c)' = Made(c)
      BY <1>1, <3>2 DEF k
    <3>4. QED
      BY <3>1, <3>3, ScopesKept DEF k
  <2>5. ScopeOf'[b] = CurrentScope
    <3>1. \A c \in 1..Len(blocks') :
            ScopeOf'[c] = IF IsTopBlock(c)' THEN Subprogram
                          ELSE IF Varied(c)' THEN Made(c)' ELSE ScopeOf'[blocks'[c].parent]
      <4>1. (Shape => ScopeOfBlocks)'
        BY ScopeValues, PTL
      <4>2. QED
        BY <1>1, <4>1 DEF BlocksInv, ScopeOfBlocks
    <3>2. b \in 1..Len(blocks')
      BY <1>1
    <3>3. CASE IsTopBlock(b)'
      <4>1. topblock /\ b = 1
        BY <3>3 DEF IsTopBlock, BlockBegun
      <4>2. CurrentScope = Subprogram
        BY <1>2, <4>1 DEF BlockBegun
      <4>3. QED
        BY <3>1, <3>2, <3>3, <4>2
    <3>4. CASE ~IsTopBlock(b)'
      <4>1. ~Varied(b)'
        BY <1>6, <3>4 DEF Opens
      <4>2. ScopeOf'[b] = ScopeOf'[Innermost]
        BY <1>1, <3>1, <3>2, <3>4, <4>1
      <4>3. QED
        BY <1>2, <2>4, <4>2
    <3>5. QED
      BY <3>3, <3>4
  <2>6. \A s \in 3..Len(scopes') : \A p :
          p = blocks'[scopes'[s].block].parent => scopes'[s].parent = ScopeOf'[p]
    <3>1. ASSUME NEW s \in 3..q
          PROVE  \A p : p = blocks'[scopes[s].block].parent => scopes[s].parent = ScopeOf'[p]
      <4>1. blocks'[scopes[s].block] = blocks[scopes[s].block]
        BY <1>1, <2>2
      <4>2. blocks[scopes[s].block].parent \in 0..k
        BY <1>7, <2>2
      <4>3. \A p : p = blocks[scopes[s].block].parent => scopes[s].parent = ScopeOf[p]
        BY <1>3 DEF ScopesInv, q
      <4>4. QED
        BY <2>4, <4>1, <4>2, <4>3
    <3>2. QED
      BY <2>1, <3>1 DEF q
  <2>7. ScopesInv'
    BY <2>3, <2>6 DEF ScopesInv
  <2>8. QED
    BY <1>6, <2>3, <2>4, <2>5, <2>7 DEF k, q
<1>8. QED
  BY <1>5, <1>6

\* With one block more, the stack of scopes is as deep as the open blocks need.
LEMMA BegunStack ==
  ASSUME BodyInv, Walking, objects \in Seq(ObjectType), NEW b, NEW vs, BlockBegun(b, vs),
         ScopePushed(b)
  PROVE  Walking' /\ StackInv'
<1> DEFINE k == Len(blocks)
           m == Len(open)
           d == Len(diScopeStack)
           e == IF Opens(b)' THEN d + 1 ELSE d
<1>1. /\ k \in Nat /\ b = k + 1 /\ m \in Nat /\ Len(open') = m + 1 /\ open'[m + 1] = b
      /\ \A i \in 1..m : open'[i] = open[i]
      /\ BlocksInv'
      /\ \A c \in 1..k : Opens(c)' <=> Opens(c)
  BY BegunBlocks
<1>2. d \in Nat /\ d >= 2 /\ CurrentScope \in Nat /\ diScopeStack[d] = CurrentScope
  BY CurrentIs DEF CurrentScope
<1>3. StackInv /\ BlocksInv /\ ScopesInv
  BY DEF BodyInv, ProgressInv
<1>4. PICK depth \in [0..m -> Nat] : Depths(depth)
  BY <1>3 DEF StackInv
<1>5. Len(scopes) \in Nat
  BY <1>3, LenProperties DEF ScopesInv, ScopesShape
<1>6. /\ \A c \in 0..k : ScopeOf'[c] = ScopeOf[c]
      /\ ScopeOf'[b] = IF Opens(b)' THEN Len(scopes) + 1 ELSE CurrentScope
  BY BegunScopes
<1>7. \A i \in 1..m : open[i] \in 1..k /\ open[i] \in 0..k
  BY <1>1, <1>3 DEF BlocksInv
<1>8. diScopeStack \in Seq(Nat) /\ diScopeStack[1] = Module
  BY <1>3 DEF StackInv
<1> HIDE DEF k, m, d
<1>9. /\ diScopeStack' \in Seq(Nat) /\ Len(diScopeStack') = e
      /\ \A i \in 1..d : diScopeStack'[i] = diScopeStack[i]
      /\ diScopeStack'[e] = ScopeOf'[b]
  <2>1. CASE Opens(b)'
    <3>1. diScopeStack' = Append(diScopeStack, Len(scopes) + 1) /\ Len(scopes) + 1 \in Nat
      BY <1>5, <2>1 DEF ScopePushed
    <3>2. /\ diScopeStack' \in Seq(Nat) /\ Len(diScopeStack') = d + 1
          /\ diScopeStack'[d + 1] = Len(scopes) + 1
          /\ \A i \in 1..d : diScopeStack'[i] = diScopeStack[i]
      BY <1>8, <3>1, AppendProperties DEF d
    <3>3. QED
      BY <1>6, <2>1, <3>2
  <2>2. CASE ~Opens(b)'
    <3>1. diScopeStack' = diScopeStack
      BY <2>2 DEF ScopePushed
    <3>2. QED
      BY <1>2, <1>6, <1>8, <2>2, <3>1 DEF d
  <2>3. QED
    BY <2>1, <2>2
<1>10. e \in Nat /\ d <= e
  BY <1>2
<1> DEFINE new == [i \in 0..(m + 1) |-> IF i = m + 1 THEN e ELSE depth[i]]
<1>11. new \in [0..(m + 1) -> Nat]
  <2>1. \A i \in 0..(m + 1) : i = m + 1 \/ i \in 0..m
    BY <1>1
  <2>2. QED
    BY <1>4, <1>10, <2>1
<1>20. PICK f \in [0..(m + 1) -> Nat] : f = new
  BY <1>11
<1>12. f[m + 1] = e /\ \A i \in 0..m : f[i] = depth[i] /\ i # m + 1 /\ i \in 0..(m + 1)
  BY <1>1, <1>20
<1>13. \A i \in 0..m : depth[i] \in Nat /\ depth[i] <= d
  <2>1. m \in 0..m
    BY <1>1
  <2>2. \A i \in 0..m : i <= m /\ depth[i] \in Nat
    BY <1>1, <1>4
  <2>3. QED
    BY <1>4, <2>1, <2>2 DEF Depths, d, m
<1>14. \A i \in 0..m : 2 <= depth[i]
  <2>1. 0 \in 0..m /\ \A i \in 0..m : 0 <= i
    BY <1>1
  <2>2. QED
    BY <1>4, <2>1 DEF Depths, m
<1> HIDE DEF new, e
<1>15. Depths(f)'
  <2>1. f[0] = 2 /\ f[Len(open')] = Len(diScopeStack')
    <3>1. 0 \in 0..m
      BY <1>1
    <3>2. QED
      BY <1>1, <1>4, <1>9, <1>12, <3>1 DEF Depths
  <2>2. \A i \in 1..Len(open') : i \in 1..m \/ i = m + 1
    BY <1>1
  <2>3. \A i \in 1..m : i \in 0..m /\ i - 1 \in 0..m
    BY <1>1
  <2>4. \A i \in 1..Len(open') : \A c :
          c = open'[i] => f[i] = IF Opens(c)' THEN f[i - 1] + 1 ELSE f[i - 1]
    <3>1. ASSUME NEW i \in 1..m, NEW c, c = open'[i]
          PROVE  f[i] = IF Opens(c)' THEN f[i - 1] + 1 ELSE f[i - 1]
      <4>1. c = open[i] /\ c \in 1..k
        BY <1>1, <1>7, <3>1
      <4>2. depth[i] = IF Opens(c) THEN depth[i - 1] + 1 ELSE depth[i - 1]
        BY <1>4, <4>1 DEF Depths, m
      <4>3. Opens(c)' <=> Opens(c)
        BY <1>1, <4>1
      <4>4. QED
        BY <1>12, <2>3, <4>2, <4>3
    <3>2. f[m + 1] = IF Opens(b)' THEN f[m] + 1 ELSE f[m]
      <4>1. m \in 0..m
        BY <1>1
      <4>2. f[m] = d
        BY <1>4, <1>12, <4>1 DEF Depths, m, d
      <4>3. QED
        BY <1>12, <4>2 DEF e
    <3>3. (m + 1) - 1 = m /\ open'[m + 1] = b
      BY <1>1
    <3> SUFFICES ASSUME NEW i \in 1..Len(open'), NEW c, c = open'[i]
                 PROVE  f[i] = IF Opens(c)' THEN f[i - 1] + 1 ELSE f[i - 1]
      OBVIOUS
    <3>4. CASE i \in 1..m
      BY <3>1, <3>4
    <3>5. CASE i = m + 1
      <4>1. c = b
        BY <3>3, <3>5
      <4>2. f[i - 1] = f[m] /\ f[i] = f[m + 1]
        BY <3>3, <3>5
      <4>3. QED
        BY <3>2, <4>1, <4>2
    <3>6. QED
      BY <2>2, <3>4, <3>5
  <2>5. \A i, j \in 0..Len(open') : i <= j => f[i] <= f[j]
    <3> SUFFICES ASSUME NEW i \in 0..(m + 1), NEW j \in 0..(m + 1), i <= j
                 PROVE  f[i] <= f[j]
      BY <1>1
    <3>1. CASE j = m + 1
      <4>1. CASE i = m + 1
        BY <1>10, <1>12, <3>1, <4>1
      <4>2. CASE i # m + 1
        <5>1. i \in 0..m
          BY <1>1, <4>2
        <5>2. depth[i] \in Nat /\ depth[i] <= d /\ f[i] = depth[i]
          BY <1>12, <1>13, <5>1
        <5>3. QED
          BY <1>2, <1>10, <1>12, <3>1, <5>2
      <4>3. QED
        BY <4>1, <4>2
    <3>2. CASE j # m + 1
      <4>1. i \in 0..m /\ j \in 0..m
        BY <1>1, <3>2
      <4>2. depth[i] <= depth[j]
        BY <1>4, <4>1 DEF Depths, m
      <4>3. QED
        BY <1>12, <4>1, <4>2
    <3>3. QED
      BY <3>1, <3>2
  <2>6. diScopeStack'[2] = Subprogram
    <3>1. 2 \in 1..d
      BY <1>2
    <3>2. QED
      BY <1>4, <1>9, <3>1 DEF Depths
  <2>7. \A i \in 1..Len(open') : diScopeStack'[f[i]] = ScopeOf'[open'[i]]
    <3>1. ASSUME NEW i \in 1..m PROVE diScopeStack'[f[i]] = ScopeOf'[open'[i]]
      <4>1. i \in 0..m /\ f[i] = depth[i]
        BY <1>12, <2>3
      <4>2. depth[i] \in 1..d
        BY <1>2, <1>13, <1>14, <4>1
      <4>3. diScopeStack[depth[i]] = ScopeOf[open[i]]
        BY <1>4 DEF Depths, m
      <4>4. QED
        BY <1>1, <1>6, <1>7, <1>9, <4>1, <4>2, <4>3
    <3>2. diScopeStack'[f[m + 1]] = ScopeOf'[open'[m + 1]]
      BY <1>1, <1>9, <1>12
    <3>3. QED
      BY <2>2, <3>1, <3>2
  <2>8. QED
    BY <2>1, <2>4, <2>5, <2>6, <2>7 DEF Depths
<1>16. Walking'
  <2>1. Len(diScopeStack') >= 2
    BY <1>2, <1>9, <1>10
  <2>2. Len(<<Module>>) = 1
    OBVIOUS
  <2>3. diScopeStack' # <<Module>>
    <3> SUFFICES ASSUME diScopeStack' = <<Module>> PROVE FALSE
      OBVIOUS
    <3>1. Len(diScopeStack') = 1
      BY <2>2
    <3>2. QED
      BY <2>1, <3>1
  <2>4. walking' # None
    BY DEF Walking, BlockBegun
  <2>5. QED
    BY <2>3, <2>4 DEF Walking
<1>17. diScopeStack'[1] = Module
  <2>1. 1 \in 1..d
    BY <1>2
  <2>2. QED
    BY <1>8, <1>9, <2>1
<1>18. f \in [0..Len(open') -> Nat]
  BY <1>1
<1>19. QED
  BY <1>9, <1>15, <1>16, <1>17, <1>18 DEF StackInv

LEMMA BegunKeeps ==
  ASSUME BodyInv, Walking, objects \in Seq(ObjectType), NEW b, NEW vs, BlockBegun(b, vs),
         ScopePushed(b)
  PROVE  BodyInv'
<1> DEFINE k == Len(blocks)
           m == Len(open)
<1>1. /\ k \in Nat /\ b = k + 1 /\ Len(blocks') = k + 1
      /\ \A c \in 1..k : blocks'[c] = blocks[c]
      /\ \A c \in 1..Len(blocks') : c \in 1..k \/ c = b
      /\ blocks'[b].vars = vs
      /\ m \in Nat /\ Len(open') = m + 1 /\ open'[m + 1] = b
      /\ \A i \in 1..m : open'[i] = open[i]
      /\ BlocksInv'
  BY BegunBlocks
<1>2. ScopesInv' /\ \A c \in 0..k : ScopeOf'[c] = ScopeOf[c]
  BY BegunScopes
<1>3. Walking' /\ StackInv'
  BY BegunStack
<1>4. PlacesInv /\ ProgressInv /\ walking \in 1..Len(objects)
  BY DEF BodyInv
<1>5. /\ walking' = walking /\ located' = located /\ placed' = placed
      /\ declarations' = declarations /\ objects' = objects /\ initialized' = initialized
  BY DEF BlockBegun
<1>6. \A i \in 1..Len(declarations) : \E c \in 1..k : declarations[i].var \in blocks[c].vars
  BY <1>4 DEF ProgressInv
<1>7. \A c \in 1..k : \A v \in vs : v \notin blocks[c].vars
  BY DEF BlockBegun
<1>8. \A c \in 1..k : c \in 0..k /\ c \in 1..Len(blocks') /\ c # b
  BY <1>1
<1> HIDE DEF k, m
<1>9. PlacesInv'
  <2>1. \A l \in located : l.block \in 0..Len(blocks') /\ l.scope = ScopeOf'[l.block]
    <3>1. \A c \in 0..k : c \in 0..Len(blocks')
      BY <1>1
    <3>2. \A l \in located : l.block \in 0..k /\ l.scope = ScopeOf[l.block]
      BY <1>4 DEF PlacesInv, k
    <3>3. QED
      BY <1>2, <3>1, <3>2
  <2>2. \A i \in 1..Len(declarations) : \A c \in 1..Len(blocks') :
          declarations[i].var \in blocks'[c].vars => declarations[i].scope = ScopeOf'[c]
    <3> SUFFICES ASSUME NEW i \in 1..Len(declarations), NEW c \in 1..Len(blocks'),
                        declarations[i].var \in blocks'[c].vars
                 PROVE  declarations[i].scope = ScopeOf'[c]
      OBVIOUS
    <3>1. c # b
      BY <1>1, <1>6, <1>7
    <3>2. c \in 1..k /\ blocks'[c] = blocks[c]
      BY <1>1, <3>1
    <3>3. declarations[i].scope = ScopeOf[c]
      BY <1>4, <3>2 DEF PlacesInv, k
    <3>4. QED
      BY <1>2, <1>8, <3>2, <3>3
  <2>3. \A i \in 1..Len(declarations) :
          (\A c \in 1..Len(blocks') : declarations[i].var \notin blocks'[c].vars) =>
            declarations[i].scope = Subprogram
    BY <1>1, <1>6, <1>8
  <2>4. \A c \in 1..Len(blocks') : (\A i \in 1..Len(open') : open'[i] # c) =>
          \A v \in blocks'[c].vars : IsTemporary(v)' \/ IsDeclared(v)'
    <3> SUFFICES ASSUME NEW c \in 1..Len(blocks'), \A i \in 1..Len(open') : open'[i] # c,
                        NEW v \in blocks'[c].vars
                 PROVE  IsTemporary(v)' \/ IsDeclared(v)'
      OBVIOUS
    <3>1. m + 1 \in 1..Len(open') /\ \A i \in 1..m : i \in 1..Len(open')
      BY <1>1
    <3>2. c \in 1..k /\ blocks'[c] = blocks[c] /\ \A i \in 1..m : open[i] # c
      BY <1>1, <3>1
    <3>3. IsTemporary(v) \/ IsDeclared(v)
      BY <1>4, <3>2 DEF PlacesInv, k, m
    <3>4. QED
      BY <1>5, <3>3 DEF IsTemporary, IsDeclared
  <2>5. QED
    BY <1>4, <1>5, <2>1, <2>2, <2>3, <2>4 DEF PlacesInv
<1>10. ProgressInv'
  <2>1. Locals' = Locals
    BY <1>5 DEF Locals
  <2>2. \A i \in 1..Len(declarations) :
          \E c \in 1..Len(blocks') : declarations[i].var \in blocks'[c].vars
    BY <1>1, <1>6, <1>8
  <2>3. \A v \in Locals : objects[v].kind # "empty" => v \in initialized
    BY <1>4 DEF ProgressInv
  <2>4. QED
    BY <1>3, <1>5, <2>1, <2>2, <2>3 DEF ProgressInv
<1>11. DeadInits \/ \A v \in DOMAIN placed' : placed'[v] = "block"
  BY <1>5 DEF BodyInv
<1>12. QED
  BY <1>1, <1>2, <1>4, <1>5, <1>9, <1>10, <1>11 DEF BodyInv

\* beginLexicalBlock
LEMMA BeginLexicalBlockKeeps ==
  ASSUME BodyInv, objects \in Seq(ObjectType), BeginLexicalBlock
  PROVE  BodyInv'
<1>0. PICK b : b = Len(blocks) + 1
  OBVIOUS
<1>1. Walking
  BY DEF BeginLexicalBlock, Walks
<1>2. PICK vs \in SUBSET (LocalVars(walking) \ Listed) :
        blocks' = Append(blocks, [vars |-> vs, parent |-> Innermost])
  BY DEF BeginLexicalBlock
<1>3. /\ open' = Append(open, b) /\ b = Len(blocks) + 1
      /\ UNCHANGED <<walking, topblock, located, placed, declarations, objects, initialized>>
      /\ topblock => (open # <<>> \/ blocks = <<>>)
  BY <1>0 DEF BeginLexicalBlock, symbolVars, moduleVars, buildVars
<1>4. Len(blocks) \in Nat /\ DOMAIN blocks = 1..Len(blocks) /\ Len(open) \in Nat
  BY LenProperties DEF BodyInv, BlocksInv, Shape
<1>5. BlockBegun(b, vs)
  <2>1. vs \subseteq Locals
    BY <1>2 DEF LocalVars, Locals
  <2>2. \A c \in 1..Len(blocks) : \A v \in vs : v \notin blocks[c].vars
    BY <1>2, <1>4 DEF Listed
  <2>3. b = 1 => Len(open) = 0
    <3> SUFFICES ASSUME b = 1, Len(open) # 0 PROVE FALSE
      OBVIOUS
    <3>1. 1 \in 1..Len(open) /\ Len(blocks) = 0
      BY <1>0, <1>4
    <3>2. open[1] \in 1..0
      BY <3>1 DEF BodyInv, BlocksInv
    <3>3. QED
      BY <3>2
  <2>4. QED
    BY <1>2, <1>3, <2>1, <2>2, <2>3 DEF BlockBegun
<1>6. ScopePushed(b)
  <2>1. Opens(b)' <=> InterestingBlock(b) /\ ~IsTopBlock(b)
    <3>1. topblock' = topblock /\ objects' = objects
      BY <1>3
    <3>2. IsTopBlock(b)' <=> IsTopBlock(b)
      BY <3>1 DEF IsTopBlock
    <3>3. Varied(b)' <=> InterestingBlock(b)
      BY <3>1 DEF Varied, InterestingBlock, IsTemporary
    <3>4. QED
      BY <3>2, <3>3 DEF Opens
  <2>2. IF InterestingBlock(b) /\ ~IsTopBlock(b)
        THEN /\ scopes' = Append(scopes, [parent |-> CurrentScope, block |-> b])
             /\ diScopeStack' = Append(diScopeStack, Len(scopes) + 1)
        ELSE UNCHANGED <<scopes, diScopeStack>>
    BY <1>0 DEF BeginLexicalBlock
  <2>3. QED
    BY <2>1, <2>2 DEF ScopePushed
<1>7. QED
  BY <1>1, <1>5, <1>6, BegunKeeps

\* Variables have an order.
Ascends(s, vs) ==
  /\ \A i, j \in DOMAIN s : i < j => s[i] < s[j]
  /\ \A v \in vs : \E i \in DOMAIN s : s[i] = v
Ordered(vs) == \E s \in [1..Cardinality(vs) -> vs] : Ascends(s, vs)

LEMMA OrderExists ==
  ASSUME NEW n \in Nat, NEW vs \in SUBSET (1..n)
  PROVE  Cardinality(vs) \in Nat /\ Ordered(vs)
<1> DEFINE D == {m \in 0..n : \A T \in SUBSET (1..m) : Ordered(T)}
<1>1. 0 \in D
  <2> SUFFICES ASSUME NEW T \in SUBSET (1..0) PROVE Ordered(T)
    OBVIOUS
  <2>1. T = {} /\ Cardinality(T) = 0
    <3>1. T = {}
      OBVIOUS
    <3>2. QED
      BY <3>1, FS_EmptySet
  <2> DEFINE s == [i \in 1..0 |-> 0]
  <2>2. s \in [1..0 -> {}] /\ Ascends(s, {})
    BY DEF Ascends
  <2>3. QED
    BY <2>1, <2>2 DEF Ordered
<1>2. ASSUME NEW m \in 1..n, m - 1 \in D PROVE m \in D
  <2> SUFFICES ASSUME NEW T \in SUBSET (1..m) PROVE Ordered(T)
    OBVIOUS
  <2>1. CASE m \notin T
    <3>1. T \in SUBSET (1..(m - 1))
      BY <2>1
    <3>2. QED
      BY <1>2, <3>1
  <2>2. CASE m \in T
    <3> DEFINE U == T \ {m}
               c == Cardinality(U)
    <3>1. U \in SUBSET (1..(m - 1)) /\ m \notin U /\ T = U \cup {m}
      BY <2>2
    <3>2. Ordered(U)
      BY <1>2, <3>1
    <3>3. IsFiniteSet(U)
      <4>1. IsFiniteSet(1..m) /\ U \in SUBSET (1..m)
        BY FS_Interval
      <4>2. QED
        BY <4>1, FS_Subset
    <3> HIDE DEF U
    <3>4. c \in Nat /\ Cardinality(T) = c + 1
      BY <3>1, <3>3, FS_AddElement, FS_CardinalityType
    <3>5. PICK f \in [1..c -> U] : Ascends(f, U)
      BY <3>2 DEF Ordered
    <3> HIDE DEF c
    <3> DEFINE s == [i \in 1..(c + 1) |-> IF i = c + 1 THEN m ELSE f[i]]
    <3>6. \A i \in 1..(c + 1) : i = c + 1 \/ i \in 1..c
      BY <3>4
    <3>7. s \in [1..(c + 1) -> T]
      BY <3>1, <3>6
    <3>8. s[c + 1] = m /\ \A i \in 1..c : s[i] = f[i] /\ i < c + 1 /\ i \in 1..(c + 1)
      BY <3>4
    <3>9. DOMAIN s = 1..(c + 1) /\ c + 1 \in 1..(c + 1)
      BY <3>4
    <3> HIDE DEF s
    <3>10. \A i, j \in 1..(c + 1) : i < j => s[i] < s[j]
      <4> SUFFICES ASSUME NEW i \in 1..(c + 1), NEW j \in 1..(c + 1), i < j PROVE s[i] < s[j]
        OBVIOUS
      <4>1. i \in 1..c /\ s[i] = f[i] /\ f[i] \in U
        BY <3>4, <3>8
      <4>2. CASE j = c + 1
        <5>1. s[j] = m /\ f[i] \in 1..(m - 1)
          BY <3>1, <3>8, <4>1, <4>2
        <5>2. \A k \in 1..(m - 1) : k < m
          OBVIOUS
        <5>3. QED
          BY <4>1, <5>1, <5>2
      <4>3. CASE j # c + 1
        <5>1. j \in 1..c
          BY <3>6, <4>3
        <5>2. f[i] < f[j]
          BY <3>5, <4>1, <5>1 DEF Ascends
        <5>3. QED
          BY <3>8, <4>1, <5>1, <5>2
      <4>4. QED
        BY <4>2, <4>3
    <3>11. \A v \in T : \E i \in 1..(c + 1) : s[i] = v
      <4> SUFFICES ASSUME NEW v \in T PROVE \E i \in 1..(c + 1) : s[i] = v
        OBVIOUS
      <4>1. CASE v = m
        BY <3>8, <3>9, <4>1
      <4>2. CASE v # m
        <5>1. v \in U
          BY <3>1, <4>2
        <5>2. PICK i \in 1..c : f[i] = v
          BY <3>5, <5>1 DEF Ascends
        <5>3. QED
          BY <3>8, <5>2
      <4>3. QED
        BY <4>1, <4>2
    <3>12. Ascends(s, T)
      BY <3>9, <3>10, <3>11 DEF Ascends
    <3>13. QED
      BY <3>4, <3>7, <3>12 DEF Ordered
  <2>3. QED
    BY <2>1, <2>2
<1> HIDE DEF D
<1>3. 0..n \subseteq D
  BY <1>1, <1>2, IntervalInduction
<1>4. n \in D
  BY <1>3
<1>5. Ordered(vs)
  BY <1>4 DEF D
<1>6. IsFiniteSet(vs)
  <2>1. IsFiniteSet(1..n) /\ vs \in SUBSET (1..n)
    BY FS_Interval
  <2>2. QED
    BY <2>1, FS_Subset
<1>7. QED
  BY <1>5, <1>6, FS_CardinalityType

LEMMA InOrderIs ==
  ASSUME NEW n \in Nat, NEW vs \in SUBSET (1..n)
  PROVE  /\ Cardinality(vs) \in Nat
         /\ InOrder(vs) \in [1..Cardinality(vs) -> vs]
         /\ \A i, j \in 1..Cardinality(vs) : InOrder(vs)[i] = InOrder(vs)[j] => i = j
         /\ \A v \in vs : \E i \in 1..Cardinality(vs) : InOrder(vs)[i] = v
<1> DEFINE c == Cardinality(vs)
           s == InOrder(vs)
<1>1. c \in Nat /\ \E f \in [1..c -> vs] : Ascends(f, vs)
  BY OrderExists DEF Ordered
<1>2. s = CHOOSE f \in [1..c -> vs] : Ascends(f, vs)
  BY DEF InOrder, Ascends
<1> HIDE DEF s, c
<1>3. s \in [1..c -> vs] /\ Ascends(s, vs)
  BY <1>1, <1>2
<1>4. \A i, j \in 1..c : s[i] = s[j] => i = j
  <2> SUFFICES ASSUME NEW i \in 1..c, NEW j \in 1..c, s[i] = s[j], i # j PROVE FALSE
    OBVIOUS
  <2>1. i < j \/ j < i
    OBVIOUS
  <2>2. s[i] \in Nat /\ s[j] \in Nat
    <3>1. s[i] \in vs /\ s[j] \in vs
      BY <1>3
    <3>2. \A v \in vs : v \in Nat
      OBVIOUS
    <3>3. QED
      BY <3>1, <3>2
  <2>3. s[i] < s[j] \/ s[j] < s[i]
    BY <1>3, <2>1 DEF Ascends
  <2>4. QED
    BY <2>2, <2>3
<1>5. \A v \in vs : \E i \in 1..c : s[i] = v
  BY <1>3 DEF Ascends
<1>6. QED
  BY <1>1, <1>3, <1>4, <1>5 DEF s, c

\* Declare adds a declaration for each variable to be declared, and no other.
LEMMA DeclareAdds ==
  ASSUME objects \in Seq(ObjectType), declarations \in Seq(DeclarationType),
         NEW vs, vs \subseteq 1..Len(objects), NEW scope \in Nat, Declare(vs, scope)
  PROVE  /\ declarations' \in Seq(DeclarationType)
         /\ \A i \in 1..Len(declarations) :
              i \in 1..Len(declarations') /\ declarations'[i] = declarations[i]
         /\ \A i \in 1..Len(declarations') :
              \/ i \in 1..Len(declarations)
              \/ declarations'[i].scope = scope /\ declarations'[i].var \in ToDeclare(vs)
         /\ \A i, j \in 1..Len(declarations') :
              declarations'[i].var = declarations'[j].var =>
                i = j \/ (i \in 1..Len(declarations) /\ j \in 1..Len(declarations))
         /\ \A v \in ToDeclare(vs) : IsDeclared(v)'
<1> DEFINE n == Len(objects)
           m == Len(declarations)
           todo == ToDeclare(vs)
           c == Cardinality(todo)
           order == InOrder(todo)
           more == [i \in 1..c |-> [var |-> order[i], scope |-> scope]]
<1>1. n \in Nat /\ m \in Nat
  BY LenProperties
<1>2. todo \in SUBSET (1..n)
  BY DEF ToDeclare
<1> HIDE DEF todo
<1>3. /\ c \in Nat /\ order \in [1..c -> todo]
      /\ \A i, j \in 1..c : order[i] = order[j] => i = j
      /\ \A v \in todo : \E i \in 1..c : order[i] = v
  BY <1>1, <1>2, InOrderIs
<1>4. declarations' = declarations \o more
  <2>1. declarations' = declarations
                        \o [i \in DOMAIN order |-> [var |-> order[i], scope |-> scope]]
    BY DEF Declare, todo
  <2>2. DOMAIN order = 1..c
    BY <1>3
  <2>3. QED
    BY <2>1, <2>2
<1> HIDE DEF c, order, n, m
<1>5. more \in Seq(DeclarationType) /\ Len(more) = c
  <2>1. \A i \in 1..c : [var |-> order[i], scope |-> scope] \in DeclarationType
    <3> SUFFICES ASSUME NEW i \in 1..c
                 PROVE  [var |-> order[i], scope |-> scope] \in DeclarationType
      OBVIOUS
    <3>1. order[i] \in todo
      BY <1>3
    <3>2. \A v \in todo : v \in Nat
      BY <1>1, <1>2
    <3>3. order[i] \in Nat
      BY <3>1, <3>2
    <3>4. QED
      BY <3>3 DEF DeclarationType
  <2>2. more \in [1..c -> DeclarationType]
    BY <2>1
  <2>3. QED
    BY <1>3, <2>2, LenProperties, SMTT(30)
<1>6. \A i \in 1..c : more[i].var = order[i] /\ more[i].scope = scope
  OBVIOUS
<1> HIDE DEF more
<1>7. /\ declarations' \in Seq(DeclarationType) /\ Len(declarations') = m + c
      /\ \A i \in 1..(m + c) : declarations'[i] = IF i <= m THEN declarations[i] ELSE more[i - m]
  BY <1>4, <1>5, ConcatProperties DEF m
<1>8. \A i \in 1..m : i \in 1..(m + c) /\ declarations'[i] = declarations[i]
  BY <1>1, <1>3, <1>7
<1>9. \A i \in 1..(m + c) : i \notin 1..m =>
        i - m \in 1..c /\ declarations'[i].var = order[i - m] /\ declarations'[i].scope = scope
              /\ declarations'[i].var \in todo
  <2> SUFFICES ASSUME NEW i \in 1..(m + c), i \notin 1..m
               PROVE  i - m \in 1..c /\ declarations'[i].var = order[i - m]
                      /\ declarations'[i].scope = scope /\ declarations'[i].var \in todo
    OBVIOUS
  <2>1. i - m \in 1..c /\ ~(i <= m)
    BY <1>1, <1>3
  <2>2. declarations'[i] = more[i - m]
    BY <1>7, <2>1
  <2>3. QED
    BY <1>3, <1>6, <2>1, <2>2
<1>10. \A i \in 1..m : declarations[i].var \notin todo
  <2>1. DOMAIN declarations = 1..m
    BY LenProperties DEF m
  <2>2. QED
    BY <2>1 DEF todo, ToDeclare, IsDeclared
<1>11. ASSUME NEW i \in 1..(m + c), NEW j \in 1..(m + c),
              declarations'[i].var = declarations'[j].var
       PROVE  i = j \/ (i \in 1..m /\ j \in 1..m)
  <2>1. CASE i \notin 1..m /\ j \notin 1..m
    <3>1. i - m = j - m
      BY <1>3, <1>9, <1>11, <2>1
    <3>2. QED
      BY <1>1, <1>3, <3>1
  <2>2. CASE i \in 1..m /\ j \notin 1..m
    BY <1>8, <1>9, <1>10, <1>11, <2>2
  <2>3. CASE i \notin 1..m /\ j \in 1..m
    BY <1>8, <1>9, <1>10, <1>11, <2>3
  <2>4. QED
    BY <2>1, <2>2, <2>3
<1>12. \A v \in todo : IsDeclared(v)'
  <2> SUFFICES ASSUME NEW v \in todo PROVE \E i \in DOMAIN declarations' : declarations'[i].var = v
    BY DEF IsDeclared
  <2>1. PICK j \in 1..c : order[j] = v
    BY <1>3
  <2>2. m + j \in 1..(m + c) /\ m + j \notin 1..m /\ (m + j) - m = j
    BY <1>1, <1>3
  <2>3. declarations'[m + j].var = v
    BY <1>9, <2>1, <2>2
  <2>4. DOMAIN declarations' = 1..(m + c)
    BY <1>7, LenProperties
  <2>5. QED
    BY <2>2, <2>3, <2>4
<1>13. QED
  BY <1>7, <1>8, <1>9, <1>11, <1>12 DEF m, todo

\* No assertion of insertVarDecl fails for variables that are initialized in a block.
LEMMA DeclareAsserts ==
  ASSUME NEW vs, NEW scope, Declare(vs, scope),
         \A v \in DOMAIN placed : placed[v] = "block",
         \A v \in ToDeclare(vs) : v \in DOMAIN placed \/ objects[v].kind = "empty"
  PROVE  assertFailed' = assertFailed
<1>1. ~\E v \in ToDeclare(vs) : v \in DOMAIN placed /\ placed[v] = "freed"
  OBVIOUS
<1>2. ~\E v \in ToDeclare(vs) : v \notin DOMAIN placed /\ objects[v].kind # "empty"
  OBVIOUS
<1>3. QED
  BY <1>1, <1>2 DEF Declare

LEMMA PoppedIs ==
  ASSUME NEW S, NEW s \in Seq(S), Len(s) # 0
  PROVE  LET t == SubSeq(s, 1, Len(s) - 1) IN
         /\ t \in Seq(S) /\ Len(t) = Len(s) - 1
         /\ \A i \in 1..(Len(s) - 1) : t[i] = s[i]
<1> DEFINE n == Len(s)
<1>1. n \in Nat /\ n >= 1
  BY LenProperties
<1>2. \A i \in 1..(n - 1) : s[i] \in S
  BY <1>1, ElementOfSeq
<1> HIDE DEF n
<1>3. /\ SubSeq(s, 1, n - 1) \in Seq(S)
      /\ Len(SubSeq(s, 1, n - 1)) = IF 1 <= n - 1 THEN (n - 1) - 1 + 1 ELSE 0
      /\ \A i \in 1..((n - 1) - 1 + 1) : SubSeq(s, 1, n - 1)[i] = s[1 + i - 1]
  BY <1>1, <1>2, SubSeqProperties
<1>4. Len(SubSeq(s, 1, n - 1)) = n - 1
  BY <1>1, <1>3
<1>5. \A i \in 1..(n - 1) : SubSeq(s, 1, n - 1)[i] = s[i]
  BY <1>1, <1>3
<1>6. QED
  BY <1>3, <1>4, <1>5 DEF n

\* The blocks and scopes are as they were, and so is the scope of each block.
LEMMA SameTree ==
  ASSUME Shape, UNCHANGED <<walking, topblock, blocks, scopes, objects>>
  PROVE  /\ Locals' = Locals
         /\ \A v : IsTemporary(v)' <=> IsTemporary(v)
         /\ \A b : /\ IsTopBlock(b)' <=> IsTopBlock(b)
                   /\ Varied(b)' <=> Varied(b)
                   /\ Opens(b)' <=> Opens(b)
         /\ \A b \in 0..Len(blocks) : ScopeOf'[b] = ScopeOf[b]
         /\ Shape'
         /\ ScopesShape => ScopesShape'
<1>1. Locals' = Locals /\ \A v : IsTemporary(v)' <=> IsTemporary(v)
  BY DEF Locals, IsTemporary
<1>2. \A b : /\ IsTopBlock(b)' <=> IsTopBlock(b)
             /\ Varied(b)' <=> Varied(b)
             /\ Opens(b)' <=> Opens(b)
  BY <1>1 DEF IsTopBlock, Varied, Opens
<1>3. \A b : Made(b)' = Made(b)
  BY DEF Made
<1>4. Shape'
  BY DEF Shape
<1>5. Len(blocks) <= Len(blocks')
  BY LenProperties DEF Shape
<1>6. \A b \in 0..Len(blocks) : ScopeOf'[b] = ScopeOf[b]
  BY <1>2, <1>3, <1>4, <1>5, ScopesKept
<1>7. ScopesShape => ScopesShape'
  BY <1>2 DEF ScopesShape
<1>8. QED
  BY <1>1, <1>2, <1>4, <1>6, <1>7

LEMMA SameScopes ==
  ASSUME Shape, ScopesInv, UNCHANGED <<walking, topblock, blocks, scopes, objects>>
  PROVE  ScopesInv'
<1>1. ScopesShape' /\ \A b \in 0..Len(blocks) : ScopeOf'[b] = ScopeOf[b]
  BY SameTree DEF ScopesInv
<1>2. \A b \in 1..Len(blocks) : blocks[b].parent \in 0..Len(blocks)
  <2>1. Len(blocks) \in Nat /\ \A b \in 1..Len(blocks) : blocks[b].parent \in 0..(b - 1)
    BY LenProperties DEF Shape
  <2>2. \A b \in 1..Len(blocks) : \A p \in 0..(b - 1) : p \in 0..Len(blocks)
    BY <2>1
  <2>3. QED
    BY <2>1, <2>2
<1>3. \A s \in 3..Len(scopes) : scopes[s].block \in 1..Len(blocks)
  BY DEF ScopesInv, ScopesShape
<1>4. \A s \in 3..Len(scopes) : \A p :
        p = blocks[scopes[s].block].parent => scopes[s].parent = ScopeOf'[p]
  BY <1>1, <1>2, <1>3 DEF ScopesInv
<1>5. QED
  BY <1>1, <1>4 DEF ScopesInv

\* endLexicalBlock takes the scope of the block off the stack.
LEMMA BlockEnds ==
  ASSUME BodyInv, EndLexicalBlock
  PROVE  /\ Walking /\ Len(open) \in Nat /\ Len(open) # 0
         /\ Innermost = open[Len(open)] /\ Innermost \in 1..Len(blocks)
         /\ UNCHANGED <<walking, topblock, blocks, scopes, objects, initialized, located, placed>>
         /\ open' \in Seq(Nat) /\ Len(open') = Len(open) - 1
         /\ \A i \in 1..(Len(open) - 1) : open'[i] = open[i]
         /\ diScopeStack' = IF Opens(Innermost)
                            THEN SubSeq(diScopeStack, 1, Len(diScopeStack) - 1) ELSE diScopeStack
         /\ IF Varied(Innermost)
            THEN Declare(LocalVars(walking) \cap blocks[Innermost].vars, CurrentScope)
            ELSE UNCHANGED <<declarations, assertFailed>>
<1>1. Walking /\ open # <<>> /\ open \in Seq(Nat) /\ Len(open) \in Nat
  BY LenProperties DEF EndLexicalBlock, Walks, BodyInv, BlocksInv
<1>2. Len(open) # 0 /\ Innermost = open[Len(open)]
  BY <1>1, EmptySeq DEF Innermost
<1>3. Innermost \in 1..Len(blocks)
  <2>1. Len(open) \in 1..Len(open)
    BY <1>1, <1>2
  <2>2. QED
    BY <1>2, <2>1 DEF BodyInv, BlocksInv
<1>4. UNCHANGED <<walking, topblock, blocks, scopes, objects, initialized, located, placed>>
  BY DEF EndLexicalBlock, onlyAssertFails, moduleVars
<1>5. open' \in Seq(Nat) /\ Len(open') = Len(open) - 1
      /\ \A i \in 1..(Len(open) - 1) : open'[i] = open[i]
  <2>1. open' = SubSeq(open, 1, Len(open) - 1)
    BY DEF EndLexicalBlock
  <2>2. QED
    BY <1>1, <1>2, <2>1, PoppedIs
<1>6. InterestingBlock(Innermost) <=> Varied(Innermost)
  BY <1>4 DEF InterestingBlock, Varied
<1>7. ScopeClosed(Innermost) <=> Opens(Innermost)
  BY <1>6 DEF ScopeClosed, Opens
<1>8. QED
  BY <1>1, <1>2, <1>3, <1>4, <1>5, <1>6, <1>7 DEF EndLexicalBlock

LEMMA EndedStack ==
  ASSUME BodyInv, EndLexicalBlock
  PROVE  Walking' /\ StackInv'
<1> DEFINE m == Len(open)
           b == Innermost
           d == Len(diScopeStack)
<1>1. /\ Walking /\ m \in Nat /\ m # 0 /\ b = open[m] /\ b \in 1..Len(blocks)
      /\ UNCHANGED <<walking, topblock, blocks, scopes, objects>>
      /\ Len(open') = m - 1
      /\ \A i \in 1..(m - 1) : open'[i] = open[i]
      /\ diScopeStack' = IF Opens(b) THEN SubSeq(diScopeStack, 1, d - 1) ELSE diScopeStack
  BY BlockEnds
<1>2. StackInv /\ BlocksInv /\ Shape
  BY <1>1 DEF BodyInv, ProgressInv, BlocksInv
<1>3. /\ \A c : Opens(c)' <=> Opens(c)
      /\ \A c \in 0..Len(blocks) : ScopeOf'[c] = ScopeOf[c]
  BY <1>1, <1>2, SameTree
<1>4. PICK depth \in [0..m -> Nat] : Depths(depth)
  BY <1>2 DEF StackInv
<1>5. diScopeStack \in Seq(Nat) /\ d \in Nat /\ diScopeStack[1] = Module
  BY <1>2, LenProperties DEF StackInv
<1>6. \A i \in 1..m : open[i] \in 1..Len(blocks) /\ open[i] \in 0..Len(blocks)
  <2>1. Len(blocks) \in Nat
    BY <1>2, LenProperties DEF Shape
  <2>2. QED
    BY <1>2, <2>1 DEF BlocksInv
<1> HIDE DEF m, b, d
<1>7. m - 1 \in 0..m /\ m \in 1..m /\ m \in 0..m /\ \A i \in 0..(m - 1) : i \in 0..m
  BY <1>1
<1>8. \A i \in 0..m : depth[i] \in Nat /\ 2 <= depth[i]
  <2>1. 0 \in 0..m /\ \A i \in 0..m : 0 <= i
    BY <1>1
  <2>2. QED
    BY <1>4, <2>1 DEF Depths, m
<1>9. depth[m] = d /\ d = IF Opens(b) THEN depth[m - 1] + 1 ELSE depth[m - 1]
  BY <1>1, <1>4, <1>7 DEF Depths, m, d
<1>10. /\ diScopeStack' \in Seq(Nat) /\ Len(diScopeStack') = depth[m - 1]
       /\ \A i \in 1..depth[m - 1] : diScopeStack'[i] = diScopeStack[i]
  <2>1. CASE Opens(b)
    <3>1. d # 0 /\ d - 1 = depth[m - 1]
      BY <1>7, <1>8, <1>9, <2>1
    <3>2. /\ diScopeStack' \in Seq(Nat) /\ Len(diScopeStack') = d - 1
          /\ \A i \in 1..(d - 1) : diScopeStack'[i] = diScopeStack[i]
      BY <1>1, <1>5, <2>1, <3>1, PoppedIs DEF d
    <3>3. QED
      BY <3>1, <3>2
  <2>2. CASE ~Opens(b)
    BY <1>1, <1>5, <1>9, <2>2 DEF d
  <2>3. QED
    BY <2>1, <2>2
<1>20. PICK f \in [0..(m - 1) -> Nat] : \A i \in 0..(m - 1) : f[i] = depth[i]
  <2> DEFINE g == [i \in 0..(m - 1) |-> depth[i]]
  <2>1. g \in [0..(m - 1) -> Nat] /\ \A i \in 0..(m - 1) : g[i] = depth[i]
    BY <1>4, <1>7
  <2>2. QED
    BY <2>1
<1>11. \A i \in 1..(m - 1) : i \in 1..m /\ i \in 0..(m - 1) /\ i - 1 \in 0..(m - 1) /\ i \in 0..m
  BY <1>1
<1>12. \A i, j \in 0..m : i <= j => depth[i] <= depth[j]
  BY <1>4 DEF Depths, m
<1>13. \A i \in 0..(m - 1) : depth[i] \in 1..depth[m - 1]
  <2>1. \A i \in 0..(m - 1) : i <= m - 1
    BY <1>1
  <2>2. \A i \in 0..(m - 1) : depth[i] <= depth[m - 1]
    BY <1>7, <1>12, <2>1
  <2>3. QED
    BY <1>7, <1>8, <2>2
<1>14. Depths(f)'
  <2>1. f[0] = 2 /\ f[Len(open')] = Len(diScopeStack')
    <3>1. 0 \in 0..(m - 1) /\ m - 1 \in 0..(m - 1)
      BY <1>1
    <3>2. QED
      BY <1>1, <1>4, <1>10, <1>20, <3>1 DEF Depths
  <2>2. \A i \in 1..Len(open') : \A c :
          c = open'[i] => f[i] = IF Opens(c)' THEN f[i - 1] + 1 ELSE f[i - 1]
    <3> SUFFICES ASSUME NEW i \in 1..(m - 1), NEW c, c = open'[i]
                 PROVE  f[i] = IF Opens(c)' THEN f[i - 1] + 1 ELSE f[i - 1]
      BY <1>1
    <3>1. c = open[i]
      BY <1>1
    <3>2. depth[i] = IF Opens(c) THEN depth[i - 1] + 1 ELSE depth[i - 1]
      BY <1>4, <1>11, <3>1 DEF Depths, m
    <3>3. QED
      BY <1>3, <1>11, <1>20, <3>2
  <2>3. \A i, j \in 0..Len(open') : i <= j => f[i] <= f[j]
    BY <1>1, <1>7, <1>12, <1>20
  <2>4. diScopeStack'[2] = Subprogram
    <3>1. 2 \in 1..depth[m - 1]
      BY <1>7, <1>8
    <3>2. QED
      BY <1>4, <1>10, <3>1 DEF Depths
  <2>5. \A i \in 1..Len(open') : diScopeStack'[f[i]] = ScopeOf'[open'[i]]
    <3> SUFFICES ASSUME NEW i \in 1..(m - 1) PROVE diScopeStack'[f[i]] = ScopeOf'[open'[i]]
      BY <1>1
    <3>1. diScopeStack[depth[i]] = ScopeOf[open[i]]
      BY <1>4, <1>11 DEF Depths, m
    <3>2. f[i] = depth[i] /\ depth[i] \in 1..depth[m - 1]
      BY <1>11, <1>13, <1>20
    <3>3. open'[i] = open[i] /\ open[i] \in 0..Len(blocks)
      BY <1>1, <1>6, <1>11
    <3>4. QED
      BY <1>3, <1>10, <3>1, <3>2, <3>3
  <2>6. QED
    BY <2>1, <2>2, <2>3, <2>4, <2>5 DEF Depths
<1>15. Len(diScopeStack') >= 2
  BY <1>7, <1>8, <1>10
<1>16. Walking'
  <2>1. diScopeStack' # <<Module>>
    <3> SUFFICES ASSUME diScopeStack' = <<Module>> PROVE FALSE
      OBVIOUS
    <3>1. Len(diScopeStack') = 1
      OBVIOUS
    <3>2. QED
      BY <1>15, <3>1
  <2>2. walking' # None
    BY <1>1 DEF Walking
  <2>3. QED
    BY <2>1, <2>2 DEF Walking
<1>17. diScopeStack'[1] = Module
  <2>1. 1 \in 1..depth[m - 1]
    BY <1>7, <1>8
  <2>2. QED
    BY <1>5, <1>10, <2>1
<1>18. f \in [0..Len(open') -> Nat]
  BY <1>1
<1>19. QED
  BY <1>10, <1>14, <1>16, <1>17, <1>18 DEF StackInv

LEMMA EndLexicalBlockKeeps ==
  ASSUME BodyInv, objects \in Seq(ObjectType), EndLexicalBlock
  PROVE  BodyInv'
<1> DEFINE m == Len(open)
           b == Innermost
           n == Len(declarations)
           vs == LocalVars(walking) \cap blocks[b].vars
<1>1. /\ Walking /\ m \in Nat /\ m # 0 /\ b = open[m] /\ b \in 1..Len(blocks)
      /\ UNCHANGED <<walking, topblock, blocks, scopes, objects, initialized, located, placed>>
      /\ open' \in Seq(Nat) /\ Len(open') = m - 1
      /\ \A i \in 1..(m - 1) : open'[i] = open[i]
      /\ IF Varied(b) THEN Declare(vs, CurrentScope) ELSE UNCHANGED <<declarations, assertFailed>>
  BY BlockEnds
<1>2. /\ StackInv /\ BlocksInv /\ Shape /\ ScopesInv /\ PlacesInv
      /\ walking \in 1..Len(objects)
      /\ DeadInits \/ \A v \in DOMAIN placed : placed[v] = "block"
  BY <1>1 DEF BodyInv, ProgressInv, BlocksInv
<1>3. /\ Locals' = Locals
      /\ \A v : IsTemporary(v)' <=> IsTemporary(v)
      /\ \A c \in 0..Len(blocks) : ScopeOf'[c] = ScopeOf[c]
      /\ Shape'
  BY <1>1, <1>2, SameTree
<1>4. CurrentScope = ScopeOf[b] /\ CurrentScope \in Nat
  BY <1>1, CurrentIs
<1>5. declarations \in Seq(DeclarationType) /\ n \in Nat
  BY <1>2, LenProperties DEF PlacesInv
<1>6. vs = blocks[b].vars
  <2>1. blocks[b].vars \subseteq Locals
    BY <1>1, <1>2 DEF BlocksInv
  <2>2. QED
    BY <2>1 DEF LocalVars, Locals
<1>7. vs \subseteq 1..Len(objects)
  BY LenProperties DEF LocalVars
<1> HIDE DEF m, b, n, vs
<1>8. /\ declarations' \in Seq(DeclarationType)
      /\ \A i \in 1..n : i \in 1..Len(declarations') /\ declarations'[i] = declarations[i]
      /\ \A i \in 1..Len(declarations') :
           i \in 1..n \/ (declarations'[i].scope = ScopeOf[b] /\ declarations'[i].var \in vs)
      /\ \A i, j \in 1..Len(declarations') :
           declarations'[i].var = declarations'[j].var => i = j
      /\ \A v \in vs : IsTemporary(v) \/ IsDeclared(v)'
  <2>1. \A i, j \in 1..n : declarations[i].var = declarations[j].var => i = j
    BY <1>2 DEF PlacesInv, n
  <2>2. CASE Varied(b)
    <3>1. Declare(vs, CurrentScope)
      BY <1>1, <2>2
    <3>2. /\ declarations' \in Seq(DeclarationType)
          /\ \A i \in 1..n : i \in 1..Len(declarations') /\ declarations'[i] = declarations[i]
          /\ \A i \in 1..Len(declarations') :
               \/ i \in 1..n
               \/ declarations'[i].scope = CurrentScope /\ declarations'[i].var \in ToDeclare(vs)
          /\ \A i, j \in 1..Len(declarations') :
               declarations'[i].var = declarations'[j].var => i = j \/ (i \in 1..n /\ j \in 1..n)
          /\ \A v \in ToDeclare(vs) : IsDeclared(v)'
      BY <1>4, <1>5, <1>7, <3>1, DeclareAdds DEF n
    <3>3. \A i, j \in 1..Len(declarations') :
            declarations'[i].var = declarations'[j].var => i = j
      <4> SUFFICES ASSUME NEW i \in 1..Len(declarations'), NEW j \in 1..Len(declarations'),
                          declarations'[i].var = declarations'[j].var, i # j
                   PROVE  FALSE
        OBVIOUS
      <4>1. i \in 1..n /\ j \in 1..n
        BY <3>2
      <4>2. declarations'[i] = declarations[i] /\ declarations'[j] = declarations[j]
        BY <3>2, <4>1
      <4>3. QED
        BY <2>1, <4>1, <4>2
    <3>4. \A v \in vs : IsTemporary(v) \/ IsDeclared(v)'
      <4> SUFFICES ASSUME NEW v \in vs, ~IsTemporary(v) PROVE IsDeclared(v)'
        OBVIOUS
      <4>1. CASE IsDeclared(v)
        <5>1. PICK i \in 1..n : declarations[i].var = v
          BY <1>5, <4>1, LenProperties DEF IsDeclared, n
        <5>2. i \in 1..Len(declarations') /\ declarations'[i].var = v
          BY <3>2, <5>1
        <5>3. DOMAIN declarations' = 1..Len(declarations')
          BY <3>2, LenProperties
        <5>4. QED
          BY <5>2, <5>3 DEF IsDeclared
      <4>2. CASE ~IsDeclared(v)
        <5>1. v \in ToDeclare(vs)
          BY <4>2 DEF ToDeclare
        <5>2. QED
          BY <3>2, <5>1
      <4>3. QED
        BY <4>1, <4>2
    <3>5. \A i \in 1..Len(declarations') :
            i \in 1..n \/ (declarations'[i].scope = ScopeOf[b] /\ declarations'[i].var \in vs)
      BY <1>4, <3>2 DEF ToDeclare
    <3>6. QED
      BY <3>2, <3>3, <3>4, <3>5
  <2>3. CASE ~Varied(b)
    <3>1. declarations' = declarations
      BY <1>1, <2>3
    <3>2. \A v \in vs : IsTemporary(v)
      BY <1>6, <2>3 DEF Varied
    <3>3. QED
      BY <1>5, <2>1, <3>1, <3>2 DEF n
  <2>4. QED
    BY <2>2, <2>3
<1>9. Len(blocks) \in Nat
  BY <1>2, LenProperties DEF Shape
<1>10. BlocksInv'
  <2>1. \A i \in 1..(m - 1) : i \in 1..m /\ open'[i] = open[i]
    BY <1>1
  <2>2. \A i \in 1..(m - 1) : i # 1 => open'[i - 1] = open[i - 1]
    BY <1>1
  <2>3. \A i \in 1..Len(open') : open'[i] \in 1..Len(blocks)
    BY <1>1, <1>2, <2>1 DEF BlocksInv, m
  <2>4. \A i \in 1..Len(open') :
          blocks[open'[i]].parent = IF i = 1 THEN None ELSE open'[i - 1]
    <3> SUFFICES ASSUME NEW i \in 1..(m - 1)
                 PROVE  blocks[open'[i]].parent = IF i = 1 THEN None ELSE open'[i - 1]
      BY <1>1
    <3>1. blocks[open[i]].parent = IF i = 1 THEN None ELSE open[i - 1]
      BY <1>2, <2>1 DEF BlocksInv, m
    <3>2. QED
      BY <2>1, <2>2, <3>1
  <2>5. QED
    BY <1>1, <1>2, <1>3, <2>3, <2>4 DEF BlocksInv
<1>11. ScopesInv'
  BY <1>1, <1>2, SameScopes
<1>12. \A c \in 1..Len(blocks) : \A v \in blocks[c].vars : v \in vs => c = b
  BY <1>1, <1>2, <1>6 DEF BlocksInv
<1>13. \A c \in 1..Len(blocks) : c \in 0..Len(blocks)
  BY <1>9
<1>14. PlacesInv'
  <2>1. \A l \in located : l.block \in 0..Len(blocks) /\ l.scope = ScopeOf'[l.block]
    BY <1>2, <1>3 DEF PlacesInv
  <2>2. \A i \in 1..Len(declarations') : \A c \in 1..Len(blocks) :
          declarations'[i].var \in blocks[c].vars => declarations'[i].scope = ScopeOf'[c]
    <3> SUFFICES ASSUME NEW i \in 1..Len(declarations'), NEW c \in 1..Len(blocks),
                        declarations'[i].var \in blocks[c].vars
                 PROVE  declarations'[i].scope = ScopeOf'[c]
      OBVIOUS
    <3>1. CASE i \in 1..n
      <4>1. declarations'[i] = declarations[i]
        BY <1>8, <3>1
      <4>2. declarations[i].scope = ScopeOf[c]
        BY <1>2, <3>1, <4>1 DEF PlacesInv, n
      <4>3. QED
        BY <1>3, <1>13, <4>1, <4>2
    <3>2. CASE i \notin 1..n
      <4>1. declarations'[i].scope = ScopeOf[b] /\ c = b
        BY <1>8, <1>12, <3>2
      <4>2. QED
        BY <1>3, <1>13, <4>1
    <3>3. QED
      BY <3>1, <3>2
  <2>3. \A i \in 1..Len(declarations') :
          (\A c \in 1..Len(blocks) : declarations'[i].var \notin blocks[c].vars) =>
            declarations'[i].scope = Subprogram
    <3> SUFFICES ASSUME NEW i \in 1..Len(declarations'),
                        \A c \in 1..Len(blocks) : declarations'[i].var \notin blocks[c].vars
                 PROVE  declarations'[i].scope = Subprogram
      OBVIOUS
    <3>1. i \in 1..n
      BY <1>1, <1>6, <1>8
    <3>2. QED
      BY <1>2, <1>8, <3>1 DEF PlacesInv, n
  <2>4. \A c \in 1..Len(blocks) : (\A i \in 1..Len(open') : open'[i] # c) =>
          \A v \in blocks[c].vars : IsTemporary(v)' \/ IsDeclared(v)'
    <3> SUFFICES ASSUME NEW c \in 1..Len(blocks), \A i \in 1..Len(open') : open'[i] # c,
                        NEW v \in blocks[c].vars
                 PROVE  IsTemporary(v) \/ IsDeclared(v)'
      BY <1>3
    <3>1. CASE c = b
      BY <1>6, <1>8, <3>1
    <3>2. CASE c # b
      <4>1. \A i \in 1..m : i \in 1..(m - 1) \/ i = m
        BY <1>1
      <4>2. \A i \in 1..m : open[i] # c
        BY <1>1, <3>2, <4>1
      <4>3. IsTemporary(v) \/ IsDeclared(v)
        BY <1>2, <4>2 DEF PlacesInv, m
      <4>4. CASE IsDeclared(v)
        <5>1. PICK i \in 1..n : declarations[i].var = v
          BY <1>5, <4>4, LenProperties DEF IsDeclared, n
        <5>2. i \in 1..Len(declarations') /\ declarations'[i].var = v
          BY <1>8, <5>1
        <5>3. DOMAIN declarations' = 1..Len(declarations')
          BY <1>8, LenProperties
        <5>4. QED
          BY <5>2, <5>3 DEF IsDeclared
      <4>5. QED
        BY <4>3, <4>4
    <3>3. QED
      BY <3>1, <3>2
  <2>5. QED
    BY <1>1, <1>8, <2>1, <2>2, <2>3, <2>4 DEF PlacesInv
<1>15. ProgressInv'
  <2>1. Walking' /\ StackInv'
    BY EndedStack
  <2>2. \A i \in 1..Len(declarations') :
          \E c \in 1..Len(blocks) : declarations'[i].var \in blocks[c].vars
    <3> SUFFICES ASSUME NEW i \in 1..Len(declarations')
                 PROVE  \E c \in 1..Len(blocks) : declarations'[i].var \in blocks[c].vars
      OBVIOUS
    <3>1. CASE i \in 1..n
      <4>1. \E c \in 1..Len(blocks) : declarations[i].var \in blocks[c].vars
        BY <1>1, <3>1 DEF BodyInv, ProgressInv, n
      <4>2. QED
        BY <1>8, <3>1, <4>1
    <3>2. CASE i \notin 1..n
      BY <1>1, <1>6, <1>8, <3>2
    <3>3. QED
      BY <3>1, <3>2
  <2>3. \A v \in Locals : objects[v].kind # "empty" => v \in initialized
    BY <1>1 DEF BodyInv, ProgressInv
  <2>4. QED
    BY <1>1, <1>3, <2>1, <2>2, <2>3 DEF ProgressInv
<1>16. DeadInits \/ \A v \in DOMAIN placed' : placed'[v] = "block"
  BY <1>1, <1>2
<1>17. walking' \in 1..Len(objects')
  BY <1>1, <1>2
<1>18. QED
  BY <1>10, <1>11, <1>14, <1>15, <1>16, <1>17 DEF BodyInv

\* endFunction: the rest is declared, in the scope of the function.
LEMMA EndFunctionKeeps ==
  ASSUME BodyInv, objects \in Seq(ObjectType), EndFunction
  PROVE  /\ BodyInv' /\ Declare(LocalVars(walking), Subprogram)
         /\ UNCHANGED <<walking, curFcn, building, errorCount>>
<1> DEFINE n == Len(declarations)
<1>1. /\ Walking
      /\ UNCHANGED <<walking, topblock, open, blocks, scopes, located, placed, objects, initialized,
                     curFcn, building, errorCount>>
  BY DEF EndFunction, Walks, onlyAssertFails, moduleVars
<1>2. /\ StackInv /\ BlocksInv /\ Shape /\ ScopesInv /\ PlacesInv
      /\ walking \in 1..Len(objects)
      /\ DeadInits \/ \A v \in DOMAIN placed : placed[v] = "block"
  BY <1>1 DEF BodyInv, ProgressInv, BlocksInv
<1>3. /\ Locals' = Locals
      /\ \A v : IsTemporary(v)' <=> IsTemporary(v)
      /\ \A c \in 0..Len(blocks) : ScopeOf'[c] = ScopeOf[c]
      /\ Shape'
  BY <1>1, <1>2, SameTree
<1>4. Len(open) = 0 /\ Len(blocks) \in Nat
  <2>1. open = <<>>
    BY DEF EndFunction
  <2>2. QED
    BY <1>2, <2>1, LenProperties DEF Shape
<1>5. Len(diScopeStack) = 2 /\ CurrentScope = Subprogram
  BY <1>1, <1>4, CurrentIs
<1>6. Declare(LocalVars(walking), Subprogram)
  BY <1>5 DEF EndFunction
<1>7. declarations \in Seq(DeclarationType) /\ n \in Nat
  BY <1>2, LenProperties DEF PlacesInv
<1>8. LocalVars(walking) = Locals /\ Locals \subseteq 1..Len(objects)
  BY LenProperties DEF LocalVars, Locals
<1>9. Subprogram \in Nat
  BY DEF Subprogram
<1> HIDE DEF n
<1>10. /\ declarations' \in Seq(DeclarationType)
       /\ \A i \in 1..n : i \in 1..Len(declarations') /\ declarations'[i] = declarations[i]
       /\ \A i \in 1..Len(declarations') :
            \/ i \in 1..n
            \/ declarations'[i].scope = Subprogram /\ declarations'[i].var \in ToDeclare(Locals)
       /\ \A i, j \in 1..Len(declarations') :
            declarations'[i].var = declarations'[j].var => i = j \/ (i \in 1..n /\ j \in 1..n)
       /\ \A v \in ToDeclare(Locals) : IsDeclared(v)'
  BY <1>6, <1>7, <1>8, <1>9, DeclareAdds DEF n
<1>11. \A v : IsDeclared(v) => IsDeclared(v)'
  <2> SUFFICES ASSUME NEW v, IsDeclared(v) PROVE IsDeclared(v)'
    OBVIOUS
  <2>1. PICK i \in 1..n : declarations[i].var = v
    BY <1>7, LenProperties DEF IsDeclared, n
  <2>2. i \in 1..Len(declarations') /\ declarations'[i].var = v
    BY <1>10, <2>1
  <2>3. DOMAIN declarations' = 1..Len(declarations')
    BY <1>10, LenProperties
  <2>4. QED
    BY <2>2, <2>3 DEF IsDeclared
<1>12. \A c \in 1..Len(blocks) : \A v \in blocks[c].vars : IsTemporary(v) \/ IsDeclared(v)
  BY <1>2, <1>4 DEF PlacesInv
<1>13. BlocksInv'
  BY <1>1, <1>2, <1>3 DEF BlocksInv
<1>14. ScopesInv'
  BY <1>1, <1>2, SameScopes
<1>15. PlacesInv'
  <2>1. \A l \in located : l.block \in 0..Len(blocks) /\ l.scope = ScopeOf'[l.block]
    BY <1>2, <1>3 DEF PlacesInv
  <2>2. \A i \in 1..Len(declarations') : \A c \in 1..Len(blocks) :
          declarations'[i].var \in blocks[c].vars => declarations'[i].scope = ScopeOf'[c]
    <3> SUFFICES ASSUME NEW i \in 1..Len(declarations'), NEW c \in 1..Len(blocks),
                        declarations'[i].var \in blocks[c].vars
                 PROVE  declarations'[i].scope = ScopeOf'[c]
      OBVIOUS
    <3>1. i \in 1..n
      BY <1>10, <1>12 DEF ToDeclare
    <3>2. declarations'[i] = declarations[i]
      BY <1>10, <3>1
    <3>3. declarations[i].scope = ScopeOf[c] /\ c \in 0..Len(blocks)
      BY <1>2, <1>4, <3>1, <3>2 DEF PlacesInv, n
    <3>4. QED
      BY <1>3, <3>2, <3>3
  <2>3. \A i \in 1..Len(declarations') :
          (\A c \in 1..Len(blocks) : declarations'[i].var \notin blocks[c].vars) =>
            declarations'[i].scope = Subprogram
    <3> SUFFICES ASSUME NEW i \in 1..Len(declarations'),
                        \A c \in 1..Len(blocks) : declarations'[i].var \notin blocks[c].vars
                 PROVE  declarations'[i].scope = Subprogram
      OBVIOUS
    <3>1. CASE i \in 1..n
      BY <1>2, <1>10, <3>1 DEF PlacesInv, n
    <3>2. CASE i \notin 1..n
      BY <1>10, <3>2
    <3>3. QED
      BY <3>1, <3>2
  <2>4. \A i, j \in 1..Len(declarations') :
          declarations'[i].var = declarations'[j].var => i = j
    <3> SUFFICES ASSUME NEW i \in 1..Len(declarations'), NEW j \in 1..Len(declarations'),
                        declarations'[i].var = declarations'[j].var, i # j
                 PROVE  FALSE
      OBVIOUS
    <3>1. i \in 1..n /\ j \in 1..n
      BY <1>10
    <3>2. declarations'[i] = declarations[i] /\ declarations'[j] = declarations[j]
      BY <1>10, <3>1
    <3>3. QED
      BY <1>2, <3>1, <3>2 DEF PlacesInv, n
  <2>5. \A c \in 1..Len(blocks) : \A v \in blocks[c].vars : IsTemporary(v)' \/ IsDeclared(v)'
    BY <1>3, <1>11, <1>12
  <2>6. QED
    BY <1>1, <1>10, <2>1, <2>2, <2>3, <2>4, <2>5 DEF PlacesInv
<1>16. ~Walking'
  <2>1. diScopeStack' = SubSeq(diScopeStack, 1, Len(diScopeStack) - 1)
    BY DEF EndFunction
  <2>2. /\ diScopeStack' \in Seq(Nat) /\ Len(diScopeStack') = Len(diScopeStack) - 1
        /\ \A i \in 1..(Len(diScopeStack) - 1) : diScopeStack'[i] = diScopeStack[i]
    <3>1. diScopeStack \in Seq(Nat) /\ Len(diScopeStack) # 0
      BY <1>2, <1>5 DEF StackInv
    <3>2. QED
      BY <2>1, <3>1, PoppedIs
  <2>3. Len(diScopeStack') = 1 /\ diScopeStack'[1] = Module
    BY <1>2, <1>5, <2>2 DEF StackInv
  <2>4. <<Module>> \in Seq(Nat) /\ Len(<<Module>>) = 1 /\ <<Module>>[1] = Module
    BY DEF Module
  <2>5. \A i \in 1..1 : i = 1
    OBVIOUS
  <2>6. diScopeStack' = <<Module>>
    <3>1. Len(diScopeStack') = Len(<<Module>>)
          /\ \A i \in 1..Len(diScopeStack') : diScopeStack'[i] = <<Module>>[i]
      BY <2>3, <2>4, <2>5
    <3>2. QED
      BY <2>2, <2>4, <3>1, SeqEqual
  <2>7. QED
    BY <2>6 DEF Walking
<1>17. ProgressInv'
  <2>1. \A v \in Locals : objects[v].kind # "temp" => IsDeclared(v)'
    <3> SUFFICES ASSUME NEW v \in Locals, objects[v].kind # "temp" PROVE IsDeclared(v)'
      OBVIOUS
    <3>1. IsDeclared(v) \/ v \in ToDeclare(Locals)
      BY DEF ToDeclare, IsTemporary
    <3>2. QED
      BY <1>10, <1>11, <3>1
  <2>2. QED
    BY <1>1, <1>3, <1>16, <2>1 DEF ProgressInv
<1>18. DeadInits \/ \A v \in DOMAIN placed' : placed'[v] = "block"
  BY <1>1, <1>2
<1>19. walking' \in 1..Len(objects')
  BY <1>1, <1>2
<1>20. QED
  BY <1>1, <1>6, <1>13, <1>14, <1>15, <1>17, <1>18, <1>19 DEF BodyInv


\* beginFunction: nothing but the scopes of the module and the function.
LEMMA BegunFunction ==
  ASSUME NewBody, walking' \in 1..Len(objects'),
         \A v \in Locals' : objects'[v].kind # "empty" => v \in initialized'
  PROVE  BodyInv'
<1>1. /\ open' = <<>> /\ blocks' = <<>> /\ diScopeStack' = <<Module, Subprogram>>
      /\ scopes' = <<[parent |-> None, block |-> None], [parent |-> Module, block |-> None]>>
      /\ placed' = <<>> /\ located' = {} /\ declarations' = <<>>
  BY DEF NewBody
<1>2. /\ open' \in Seq(Nat) /\ Len(open') = 0
      /\ blocks' \in Seq(BlockType) /\ Len(blocks') = 0
      /\ declarations' \in Seq(DeclarationType) /\ Len(declarations') = 0
  BY <1>1
<1>3. /\ diScopeStack' \in Seq(Nat) /\ Len(diScopeStack') = 2
      /\ diScopeStack'[1] = Module /\ diScopeStack'[2] = Subprogram
  BY <1>1 DEF Module, Subprogram
<1>4. /\ scopes' \in Seq(ScopeType) /\ Len(scopes') = 2
      /\ scopes'[1].block = None /\ scopes'[2].block = None
  <2>1. [parent |-> None, block |-> None] \in ScopeType
        /\ [parent |-> Module, block |-> None] \in ScopeType
    BY DEF None, Module, ScopeType
  <2>2. QED
    BY <1>1, <2>1
<1>5. 1..0 = {} /\ 3..2 = {}
  OBVIOUS
<1>6. Shape'
  BY <1>2, <1>5 DEF Shape
<1>7. BlocksInv'
  BY <1>2, <1>5, <1>6 DEF BlocksInv
<1>8. ScopesInv'
  BY <1>2, <1>4, <1>5 DEF ScopesInv, ScopesShape
<1>9. PlacesInv'
  BY <1>1, <1>2, <1>5 DEF PlacesInv
<1>10. PICK depth \in [0..0 -> Nat] : depth[0] = 2
  <2> DEFINE g == [i \in 0..0 |-> 2]
  <2>1. g \in [0..0 -> Nat] /\ g[0] = 2
    OBVIOUS
  <2>2. QED
    BY <2>1
<1>11. Depths(depth)'
  <2>1. \A i \in 0..0 : i = 0
    OBVIOUS
  <2>2. \A i, j \in 0..0 : i <= j => depth[i] <= depth[j]
    BY <1>10, <2>1
  <2>3. QED
    BY <1>2, <1>3, <1>5, <1>10, <2>2 DEF Depths
<1>12. StackInv'
  BY <1>2, <1>3, <1>11 DEF StackInv
<1>13. ProgressInv'
  <2>1. Walking'
    <3>1. diScopeStack' # <<Module>>
      <4> SUFFICES ASSUME diScopeStack' = <<Module>> PROVE FALSE
        OBVIOUS
      <4>1. Len(diScopeStack') = 1
        OBVIOUS
      <4>2. QED
        BY <1>3, <4>1
    <3>2. walking' # None
      BY DEF None
    <3>3. QED
      BY <3>1, <3>2 DEF Walking
  <2>2. \A i \in 1..Len(declarations') :
          \E b \in 1..Len(blocks') : declarations'[i].var \in blocks'[b].vars
    BY <1>2, <1>5
  <2>3. QED
    BY <1>12, <2>1, <2>2 DEF ProgressInv
<1>14. \A v \in DOMAIN placed' : placed'[v] = "block"
  BY <1>1
<1>15. QED
  BY <1>7, <1>8, <1>9, <1>13, <1>14 DEF BodyInv

LEMMA FramedDebug ==
  ASSUME DebugInv, objects \in Seq(ObjectType), objects' \in Seq(ObjectType),
         UNCHANGED <<debugVars, initialized>>, Longer(objects, objects'),
         \A o \in 1..Len(objects') : o \in 1..Len(objects) \/ objects'[o].fn = None
  PROVE  DebugInv'
<1>1. UNCHANGED <<walking, topblock, open, blocks, scopes, diScopeStack, declarations, initialized,
                  located, placed>>
  BY DEF debugVars, bodyVars
<1>2. CASE walking = None
  BY <1>1, <1>2 DEF DebugInv
<1>3. CASE walking # None
  <2>1. BodyInv /\ Framed
    BY <1>1, <1>3 DEF DebugInv, Framed
  <2>2. DeadInits \/ \A v \in DOMAIN placed' : placed'[v] = "block"
    BY <1>1, <2>1 DEF BodyInv
  <2>3. BodyInv'
    BY <1>1, <1>3, <2>1, <2>2, FramedKeeps
  <2>4. QED
    BY <1>1, <1>3, <2>3 DEF DebugInv
<1>4. QED
  BY <1>2, <1>3

\* function_set_body, up to the walk.
LEMMA BeginWalkKeeps ==
  ASSUME DebugInv, NEW f \in DOMAIN objects, objects \in Seq(ObjectType), BeginWalk(f)
  PROVE  DebugInv'
<1>1. /\ objects' = objects /\ initialized' = initialized /\ Uninitialized(f) = {}
      /\ Len(objects) \in Nat /\ DOMAIN objects = 1..Len(objects)
  BY LenProperties DEF BeginWalk, SetBody
<1>2. CASE f = ErrorFunction \/ errorCount
  <2>1. UNCHANGED debugVars
    BY <1>2 DEF BeginWalk
  <2>2. Longer(objects, objects')
        /\ \A o \in 1..Len(objects') : o \in 1..Len(objects) \/ objects'[o].fn = None
    BY <1>1 DEF Longer
  <2>3. UNCHANGED <<debugVars, initialized>>
    BY <1>1, <2>1
  <2>4. objects' \in Seq(ObjectType)
    BY <1>1
  <2>5. QED
    BY <2>2, <2>3, <2>4, FramedDebug
<1>3. CASE ~(f = ErrorFunction \/ errorCount)
  <2>1. walking' = f /\ NewBody
    BY <1>3 DEF BeginWalk
  <2>2. \A v \in Locals' : objects'[v].kind # "empty" => v \in initialized'
    <3> SUFFICES ASSUME NEW v \in Locals', objects'[v].kind # "empty" PROVE v \in initialized'
      OBVIOUS
    <3>1. v \in DOMAIN objects /\ objects[v].fn = f /\ objects[v].kind \in LocalKinds
      BY <1>1, <2>1 DEF Locals
    <3>2. objects[v].kind \in {"local", "temp"}
      BY <1>1, <3>1 DEF LocalKinds
    <3>3. QED
      BY <1>1, <3>1, <3>2 DEF Uninitialized
  <2>3. walking' \in 1..Len(objects')
    BY <1>1, <2>1
  <2>4. BodyInv'
    BY <2>1, <2>2, <2>3, BegunFunction
  <2>5. walking' # None
    BY <1>1, <2>1 DEF None
  <2>6. QED
    BY <2>4, <2>5 DEF DebugInv
<1>4. QED
  BY <1>2, <1>3

LEMMA NoWalkKeeps == NoWalk => DebugInv'
  BY DEF NoWalk, DebugInv

\* What is asked for is of the module and not of a function.
LEMMA RequestObjects ==
  ASSUME objects \in Seq(ObjectType), objects' \in Seq(ObjectType), SymbolRequest
  PROVE  /\ Longer(objects, objects') /\ initialized' = initialized
         /\ \A o \in 1..Len(objects') : o \in 1..Len(objects) \/ objects'[o].fn = None
<1>1. objects' = objects \/ \E kind, s : objects' = Append(objects, Object(kind, s, None))
  BY DEF SymbolRequest, DeclareFunction, DefineFunction, LookupBuiltin, ModuleVariable,
         ImmutableStructReference, PersonalityFunction, ConstantVariable, ErrorRequest,
         CreateFunction, MakeModuleVar
<1>2. initialized' = initialized
  BY DEF SymbolRequest, DeclareFunction, DefineFunction, LookupBuiltin, ModuleVariable,
         ImmutableStructReference, PersonalityFunction, ConstantVariable, ErrorRequest,
         buildVars
<1>3. Len(objects) \in Nat /\ Len(objects') \in Nat
  BY LenProperties
<1>4. CASE objects' = objects
  BY <1>2, <1>3, <1>4 DEF Longer
<1>5. ASSUME NEW kind, NEW s, objects' = Append(objects, Object(kind, s, None))
      PROVE  /\ Longer(objects, objects')
             /\ \A o \in 1..Len(objects') : o \in 1..Len(objects) \/ objects'[o].fn = None
  <2>1. /\ Len(objects') = Len(objects) + 1
        /\ objects'[Len(objects) + 1] = Object(kind, s, None)
        /\ \A i \in 1..Len(objects) : objects'[i] = objects[i]
    BY <1>5
  <2>2. Object(kind, s, None).fn = None
    BY DEF Object
  <2>3. \A o \in 1..Len(objects') : o \in 1..Len(objects) \/ o = Len(objects) + 1
    BY <1>3, <2>1
  <2>4. QED
    BY <1>3, <2>1, <2>2, <2>3 DEF Longer
<1>6. QED
  BY <1>1, <1>2, <1>4, <1>5

\* Instructions, jumps and labels, and the initializers of variables.
LEMMA NodeKeeps ==
  ASSUME BodyInv, objects \in Seq(ObjectType),
         Instruction \/ InitializerInst \/ Jump \/ LabelDefinition
  PROVE  BodyInv'
<1>1. Walking /\ walking # None
  BY DEF Instruction, InitializerInst, Jump, LabelDefinition, InBody, Walks, Walking
<1>2. UNCHANGED <<walking, topblock, open, blocks, scopes, diScopeStack, declarations, initialized,
                  objects>>
  BY DEF Instruction, InitializerInst, Jump, LabelDefinition, symbolVars, moduleVars, buildVars
<1>3. Framed /\ objects' \in Seq(ObjectType)
  BY <1>2, LenProperties DEF Framed, Longer
<1>4. \A l \in located' : l \in located
                          \/ (l.block \in 0..Len(blocks) /\ l.scope = ScopeOf[l.block])
  <2>1. Innermost \in 0..Len(blocks) /\ CurrentScope = ScopeOf[Innermost]
    BY <1>1, CurrentIs
  <2>2. located' = located \/ located' = located \cup {[scope |-> CurrentScope, block |-> Innermost]}
    BY DEF Instruction, InitializerInst, Jump, LabelDefinition
  <2>3. QED
    BY <2>1, <2>2
<1>5. DeadInits \/ \A v \in DOMAIN placed' : placed'[v] = "block"
  <2>1. CASE InitializerInst /\ ~DeadInits
    <3>1. PICK v \in initialized \ DOMAIN placed : placed' = With(placed, v, "block")
      BY <2>1 DEF InitializerInst
    <3>2. \A w \in DOMAIN placed : placed[w] = "block"
      BY <2>1 DEF BodyInv
    <3>3. QED
      BY <3>1, <3>2 DEF With
  <2>2. CASE placed' = placed
    BY <2>2 DEF BodyInv
  <2>3. QED
    BY <2>1, <2>2 DEF Instruction, Jump, LabelDefinition
<1>6. QED
  BY <1>1, <1>3, <1>4, <1>5, FramedKeeps

LEMMA WalkStepKeeps ==
  ASSUME DebugInv, objects \in Seq(ObjectType), WalkStep
  PROVE  DebugInv'
<1>1. walking # None
  BY DEF WalkStep, BeginLexicalBlock, Instruction, InitializerInst, Jump, LabelDefinition,
         EndLexicalBlock, EndFunction, InBody, Walks, Walking
<1>2. walking' = walking
  BY DEF WalkStep, BeginLexicalBlock, Instruction, InitializerInst, Jump, LabelDefinition,
         EndLexicalBlock, EndFunction
<1>3. BodyInv
  BY <1>1 DEF DebugInv
<1>4. BodyInv'
  BY <1>3, BeginLexicalBlockKeeps, EndLexicalBlockKeeps, EndFunctionKeeps, NodeKeeps DEF WalkStep
<1>5. QED
  BY <1>1, <1>2, <1>4 DEF DebugInv

LEMMA DebugStep ==
  ASSUME ModuleInv, ModuleInv', DebugInv, [Next]_vars
  PROVE  DebugInv'
<1>1. objects \in Seq(ObjectType) /\ objects' \in Seq(ObjectType)
  BY DEF ModuleInv, SymbolsInv
<1>2. Longer(objects, objects)
  BY <1>1, LenProperties DEF Longer
<1>3. CASE UNCHANGED backendVars
  <2>1. UNCHANGED <<debugVars, initialized>> /\ objects' = objects
    BY <1>3 DEF backendVars, symbolVars, moduleVars, buildVars
  <2>2. Longer(objects, objects')
        /\ \A o \in 1..Len(objects') : o \in 1..Len(objects) \/ objects'[o].fn = None
    BY <1>2, <2>1
  <2>3. QED
    BY <1>1, <2>1, <2>2, FramedDebug
<1>4. CASE SymbolsPart
  <2>1. SymbolRequest /\ UNCHANGED debugVars
    BY <1>4 DEF SymbolsPart
  <2>2. QED
    BY <1>1, <2>1, RequestObjects, FramedDebug
<1>5. CASE DefinePart
  BY <1>5, NoWalkKeeps DEF DefinePart
<1>6. CASE BuildPart
  BY <1>1, <1>6, NoWalkKeeps, BeginWalkKeeps DEF BuildPart
<1>7. CASE WalkPart
  BY <1>1, <1>7, WalkStepKeeps DEF WalkPart
<1>8. QED
  BY <1>3, <1>4, <1>5, <1>6, <1>7
     DEF Next, vars, BackendStep, DriverPart, WrapperPart, InstallPart

LEMMA DebugInvariant == Spec => []DebugInv
<1>1. Init => DebugInv
  BY DEF Init, DebugInit, DebugInv
<1>2. ModuleInv /\ ModuleInv' /\ DebugInv /\ [Next]_vars => DebugInv'
  BY DebugStep
<1>3. QED
  BY <1>1, <1>2, ModuleInvariant, PTL DEF Spec

\* The block of a variable is the one that lists it.
LEMMA BlockOfIs ==
  ASSUME BlocksInv, NEW v
  PROVE  /\ \A b \in 1..Len(blocks) : v \in blocks[b].vars => BlockOf(v) = b
         /\ (\A b \in 1..Len(blocks) : v \notin blocks[b].vars) => BlockOf(v) = 0
<1>1. DOMAIN blocks = 1..Len(blocks)
  BY LenProperties DEF BlocksInv, Shape
<1>2. \A b, c \in 1..Len(blocks) : v \in blocks[b].vars /\ v \in blocks[c].vars => b = c
  BY DEF BlocksInv
<1>3. ASSUME NEW b \in 1..Len(blocks), v \in blocks[b].vars PROVE BlockOf(v) = b
  BY <1>1, <1>2, <1>3 DEF BlockOf
<1>4. (\A b \in 1..Len(blocks) : v \notin blocks[b].vars) => BlockOf(v) = 0
  BY <1>1 DEF BlockOf, None
<1>5. QED
  BY <1>3, <1>4

\* Theorem: debug information follows the blocks of the program, however many of them need
\* no scope: instructions are located and variables declared in the scope of the innermost
\* block around them that has one, each variable once, and all variables of the program
\* when DIBuildHelper::endFunction is done.
THEOREM ScopesFollowBlocks == Spec => []DeclaredInScope
<1>1. ModuleInv /\ DebugInv => DeclaredInScope
  <2> SUFFICES ASSUME ModuleInv, DebugInv PROVE DeclaredInScope
    OBVIOUS
  <2>1. CASE walking = None
    <3>1. scopes = <<>> /\ Len(scopes) = 0 /\ located = {} /\ declarations = <<>>
      BY <2>1 DEF DebugInv
    <3>2. 3..0 = {} /\ DOMAIN declarations = {}
      BY <3>1
    <3>3. QED
      BY <2>1, <3>1, <3>2 DEF DeclaredInScope
  <2>2. CASE walking # None
    <3>1. BodyInv /\ BlocksInv /\ ScopesInv /\ PlacesInv
      BY <2>2 DEF DebugInv, BodyInv
    <3>2. DOMAIN declarations = 1..Len(declarations)
      BY <3>1, LenProperties DEF PlacesInv
    <3>3. \A l \in located : l.scope = ScopeOf[l.block]
      BY <3>1 DEF PlacesInv
    <3>4. \A s \in 3..Len(scopes) : scopes[s].parent = ScopeOf[blocks[scopes[s].block].parent]
      BY <3>1 DEF ScopesInv
    <3>5. \A i \in 1..Len(declarations) :
            declarations[i].scope = ScopeOf[BlockOf(declarations[i].var)]
      <4> SUFFICES ASSUME NEW i \in 1..Len(declarations)
                   PROVE  declarations[i].scope = ScopeOf[BlockOf(declarations[i].var)]
        OBVIOUS
      <4> DEFINE v == declarations[i].var
      <4>1. CASE \E b \in 1..Len(blocks) : v \in blocks[b].vars
        <5>1. PICK b \in 1..Len(blocks) : v \in blocks[b].vars
          BY <4>1
        <5>2. BlockOf(v) = b
          BY <3>1, <5>1, BlockOfIs
        <5>3. declarations[i].scope = ScopeOf[b]
          BY <3>1, <5>1 DEF PlacesInv
        <5>4. QED
          BY <5>2, <5>3
      <4>2. CASE ~\E b \in 1..Len(blocks) : v \in blocks[b].vars
        <5>1. BlockOf(v) = 0
          BY <3>1, <4>2, BlockOfIs
        <5>2. declarations[i].scope = Subprogram
          BY <3>1, <4>2 DEF PlacesInv
        <5>3. ScopeOf[0] = Subprogram
          BY <3>1, ScopeValues DEF BlocksInv, ScopeOfBlocks
        <5>4. QED
          BY <5>1, <5>2, <5>3
      <4>3. QED
        BY <4>1, <4>2
    <3>6. \A i, j \in 1..Len(declarations) :
            declarations[i].var = declarations[j].var => i = j
      BY <3>1 DEF PlacesInv
    <3>7. ASSUME ~Walking, NEW v \in DOMAIN objects, objects[v].fn = walking,
                 objects[v].kind \in {"local", "empty"}
          PROVE  IsDeclared(v)
      <4>1. v \in Locals /\ objects[v].kind # "temp"
        BY <3>7 DEF Locals, LocalKinds
      <4>2. QED
        BY <3>1, <3>7, <4>1 DEF BodyInv, ProgressInv
    <3>8. QED
      BY <3>2, <3>3, <3>4, <3>5, <3>6, <3>7 DEF DeclaredInScope
  <2>3. QED
    BY <2>1, <2>2
<1>2. QED
  BY <1>1, ModuleInvariant, DebugInvariant, PTL

-----------------------------------------------------------------------------
(* The assertions of the backend.                                           *)

\* curFcn_ is the function being built, and reset between two unless there was an error.
CurrentInv ==
  /\ ErrorFunction \notin DefinedFunctions
  /\ building # None => curFcn = building
  /\ building = None /\ ~errorCount => curFcn = None
  /\ ~assertFailed

LEMMA BlockEndAsserts ==
  ASSUME ~DeadInits, BodyInv, EndLexicalBlock
  PROVE  assertFailed' = assertFailed
<1> DEFINE b == Innermost
           vs == LocalVars(walking) \cap blocks[b].vars
<1>1. /\ Walking
      /\ IF Varied(b) THEN Declare(vs, CurrentScope) ELSE UNCHANGED <<declarations, assertFailed>>
  BY BlockEnds
<1>2. \A v \in ToDeclare(vs) : v \in DOMAIN placed \/ objects[v].kind = "empty"
  <2> SUFFICES ASSUME NEW v \in ToDeclare(vs), objects[v].kind # "empty" PROVE v \in DOMAIN placed
    OBVIOUS
  <2>1. v \in Locals /\ v \in blocks[b].vars
    BY DEF ToDeclare, LocalVars, Locals
  <2>2. v \in initialized
    BY <1>1, <2>1 DEF BodyInv, ProgressInv
  <2>3. Complete(blocks[b].vars)
    BY DEF EndLexicalBlock
  <2>4. QED
    BY <2>1, <2>2, <2>3 DEF Complete
<1>3. \A v \in DOMAIN placed : placed[v] = "block"
  BY DEF BodyInv
<1> HIDE DEF vs, b
<1>4. QED
  BY <1>1, <1>2, <1>3, DeclareAsserts

LEMMA FunctionEndAsserts ==
  ASSUME ~DeadInits, BodyInv, objects \in Seq(ObjectType), EndFunction
  PROVE  assertFailed' = assertFailed
<1> DEFINE vs == LocalVars(walking)
<1>1. Walking /\ Declare(vs, Subprogram)
  BY EndFunctionKeeps DEF EndFunction, Walks
<1>2. \A v \in ToDeclare(vs) : v \in DOMAIN placed \/ objects[v].kind = "empty"
  <2> SUFFICES ASSUME NEW v \in ToDeclare(vs), objects[v].kind # "empty" PROVE v \in DOMAIN placed
    OBVIOUS
  <2>1. v \in Locals /\ v \in DOMAIN objects /\ objects[v].fn = walking
    BY DEF ToDeclare, LocalVars, Locals
  <2>2. v \in initialized
    BY <1>1, <2>1 DEF BodyInv, ProgressInv
  <2>3. Complete({w \in DOMAIN objects : objects[w].fn = walking})
    BY DEF EndFunction
  <2>4. QED
    BY <2>1, <2>2, <2>3 DEF Complete
<1>3. \A v \in DOMAIN placed : placed[v] = "block"
  BY DEF BodyInv
<1> HIDE DEF vs
<1>4. QED
  BY <1>1, <1>2, <1>3, DeclareAsserts

\* A definition is an object of its own.
LEMMA RequestDefines ==
  ASSUME ModuleInv, ErrorFunction \notin DefinedFunctions, SymbolRequest
  PROVE  ErrorFunction \notin DefinedFunctions'
<1>1. \A n, o : Answer(n, o).name = n /\ Answer(n, o).object = o
  BY DEF Answer
<1>2. NewObject # ErrorFunction
  <2>1. Len(objects) \in Nat /\ 2 <= Len(objects)
    BY LenProperties DEF ModuleInv, SymbolsInv, FreedInv
  <2>2. QED
    BY <2>1 DEF NewObject, ErrorFunction
<1>3. \/ asked' = asked
      \/ \E n : asked' = asked \cup {Answer(n, NewObject)}
      \/ \E n, o : n \notin Defined /\ asked' = asked \cup {Answer(n, o)}
  <2>1. CASE \E n \in Declared : DeclareFunction(n)
    BY <2>1, Apart DEF DeclareFunction, CreateFunction
  <2>2. CASE \E n \in Defined : DefineFunction(n)
    BY <2>2 DEF DefineFunction, CreateFunction
  <2>3. CASE \E n \in Lookups : LookupBuiltin(n)
    <3>1. PICK n \in Lookups : LookupBuiltin(n)
      BY <2>3
    <3>2. PICK e \in Found(n) : \E o : asked' = asked \cup {Answer(n, o)}
      <4>1. PICK e \in Found(n) :
              IF bfunction[e.name] # None THEN asked' = asked \cup {Answer(n, bfunction[e.name])}
              ELSE asked' = asked \cup {Answer(n, NewObject)}
        BY <3>1 DEF LookupBuiltin, CreateFunction
      <4>2. QED
        BY <4>1
    <3>3. n \in BackendNames
      BY Apart DEF Found
    <3>4. n \notin Defined
      BY <3>3, Apart
    <3>5. QED
      BY <3>2, <3>4
  <2>4. CASE \E n \in Globals : ModuleVariable(n)
    BY <2>4 DEF ModuleVariable, MakeModuleVar
  <2>5. CASE \E n \in References : ImmutableStructReference(n)
    BY <2>5, Apart DEF ImmutableStructReference, MakeModuleVar
  <2>6. CASE ConstantVariable
    BY <2>6 DEF ConstantVariable, MakeModuleVar
  <2>7. CASE PersonalityFunction \/ ErrorRequest
    BY <2>7 DEF PersonalityFunction, ErrorRequest
  <2>8. QED
    BY <2>1, <2>2, <2>3, <2>4, <2>5, <2>6, <2>7 DEF SymbolRequest
<1>4. \A a \in asked : a.name \in Defined => a.object # ErrorFunction
  BY DEF DefinedFunctions
<1>5. \A a \in asked' : a.name \in Defined => a.object # ErrorFunction
  BY <1>1, <1>2, <1>3, <1>4
<1>6. QED
  BY <1>5 DEF DefinedFunctions

LEMMA WalkAsserts ==
  ASSUME ~DeadInits, DebugInv, objects \in Seq(ObjectType), CurrentInv, WalkStep
  PROVE  CurrentInv'
<1>1. UNCHANGED <<curFcn, building, errorCount, asked>>
  BY WalkKeepsModule DEF moduleVars
<1>2. walking # None
  BY DEF WalkStep, BeginLexicalBlock, Instruction, InitializerInst, Jump, LabelDefinition,
         EndLexicalBlock, EndFunction, InBody, Walks, Walking
<1>3. BodyInv
  BY <1>2 DEF DebugInv
<1>4. assertFailed' = assertFailed
  <2>1. CASE EndLexicalBlock
    BY <1>3, <2>1, BlockEndAsserts
  <2>2. CASE EndFunction
    BY <1>3, <2>2, FunctionEndAsserts
  <2>3. CASE BeginLexicalBlock \/ Instruction \/ InitializerInst \/ Jump \/ LabelDefinition
    BY <2>3 DEF BeginLexicalBlock, Instruction, InitializerInst, Jump, LabelDefinition,
                symbolVars, buildVars
  <2>4. QED
    BY <2>1, <2>2, <2>3 DEF WalkStep
<1>5. QED
  BY <1>1, <1>4 DEF CurrentInv, DefinedFunctions

\* Statements and variables set curFcn_ to the function they are for.
LEMMA BuildAsserts ==
  ASSUME CurrentInv, NEW f, f # None, Build(f)
  PROVE  CurrentInv'
<1>1. curFcn' = f /\ building' = f /\ assertFailed' = assertFailed /\ asked' = asked
  BY DEF Build, LocalVariable, ParameterVariable, TemporaryVariable, InitStatement, Statement,
         BranchStatement, sameModule
<1>2. QED
  BY <1>1 DEF CurrentInv, DefinedFunctions

\* function_set_body finds it so.
LEMMA BodyAsserts ==
  ASSUME ~EmptyAfterError, ModuleInv, CurrentInv, NEW f, f # None, BeginWalk(f)
  PROVE  CurrentInv'
<1>1. /\ Buildable(f) /\ building \in {None, f} /\ (building = f \/ ~errorCount)
      /\ assertFailed' = (assertFailed \/ (f # ErrorFunction /\ curFcn \notin {None, f}))
      /\ curFcn' = AfterBody(f) /\ building' = None /\ errorCount' = errorCount
      /\ asked' = asked
  BY DEF BeginWalk, SetBody, Buildable, sameModule
<1>2. curFcn \in {None, f}
  BY <1>1 DEF CurrentInv
<1>3. ~assertFailed'
  BY <1>1, <1>2 DEF CurrentInv
<1>4. ~errorCount => curFcn' = None
  <2>1. ~errorCount => f # ErrorFunction
    BY <1>1 DEF Buildable, CurrentInv
  <2>2. QED
    BY <1>1, <2>1 DEF AfterBody
<1>5. QED
  BY <1>1, <1>3, <1>4 DEF CurrentInv, DefinedFunctions

LEMMA CurrentStep ==
  ASSUME ~EmptyAfterError, ~DeadInits, ModuleInv, DebugInv, CurrentInv, [Next]_vars
  PROVE  CurrentInv'
<1>1. objects \in Seq(ObjectType) /\ DOMAIN objects = 1..Len(objects)
  BY LenProperties DEF ModuleInv, SymbolsInv
<1>2. CASE UNCHANGED backendVars
  BY <1>2 DEF backendVars, symbolVars, moduleVars, buildVars, CurrentInv, DefinedFunctions
<1>3. CASE SymbolRequest
  <2>1. UNCHANGED buildVars /\ (errorCount => errorCount')
    BY <1>3 DEF SymbolRequest, DeclareFunction, DefineFunction, LookupBuiltin, ModuleVariable,
                ImmutableStructReference, PersonalityFunction, ConstantVariable, ErrorRequest
  <2>2. ErrorFunction \notin DefinedFunctions'
    BY <1>3, RequestDefines DEF CurrentInv
  <2>3. QED
    BY <2>1, <2>2 DEF buildVars, CurrentInv
<1>4. CASE DefinePart
  BY <1>3, <1>4 DEF DefinePart, SymbolRequest
<1>5. CASE BuildPart
  <2>1. PICK f \in DOMAIN objects : Build(f) \/ BeginWalk(f)
    BY <1>5 DEF BuildPart
  <2>2. f # None
    BY <1>1, <2>1 DEF None
  <2>3. QED
    BY <2>1, <2>2, BuildAsserts, BodyAsserts
<1>6. CASE WalkPart
  BY <1>1, <1>6, WalkAsserts DEF WalkPart
<1>7. QED
  BY <1>2, <1>3, <1>4, <1>5, <1>6
     DEF Next, vars, BackendStep, SymbolsPart, DriverPart, WrapperPart, InstallPart

\* Theorem: with a frontend that sets no empty body behind an error object and initializes
\* no variable behind a return or goto, no assertion of the backend fails: the table of
\* builtin functions has no duplicates, function_set_body finds curFcn_ as it should be,
\* endFunction finds the scope of the function on top, and every declaration has a place.
THEOREM BackendNeverAborts ==
  ASSUME ~EmptyAfterError, ~DeadInits
  PROVE  Spec => []NeverAborts
<1>1. Init => CurrentInv
  <2> SUFFICES ASSUME Init PROVE CurrentInv
    OBVIOUS
  <2>1. building = None /\ curFcn = None /\ asked = {}
    BY DEF Init, SymbolsInit
  <2>2. ~assertFailed
    <3> SUFFICES ASSUME NEW e \in Builtins, Cardinality(Found(e.name)) > 1 PROVE FALSE
      BY DEF Init, SymbolsInit
    <3>1. Found(e.name) = {e}
      BY TableAssumption
    <3>2. Cardinality(Found(e.name)) = 1
      BY <3>1, FS_Singleton
    <3>3. QED
      BY <3>2
  <2>3. QED
    BY <2>1, <2>2 DEF CurrentInv, DefinedFunctions
<1>2. ModuleInv /\ DebugInv /\ CurrentInv /\ [Next]_vars => CurrentInv'
  BY CurrentStep
<1>3. CurrentInv => NeverAborts
  BY DEF CurrentInv, NeverAborts
<1>4. QED
  BY <1>1, <1>2, <1>3, ModuleInvariant, DebugInvariant, PTL DEF Spec
=============================================================================
