-------------------------------- MODULE Wrapper --------------------------------
(***************************************************************************)
(* gollvm-wrap.py: the installer, which puts a script in the place of       *)
(* gccgo, and what the script does instead of gccgo: compile Go files with  *)
(* llvm-goparse and the assembler, and leave everything else to the gccgo   *)
(* that was moved aside.                                                    *)
(***************************************************************************)
EXTENDS Driver

CONSTANTS
  MaxVersion,        \* bound on the versions of the Go files
  RetryAfterFailure  \* whether an installation that failed is tried again

NoObject == [there |-> FALSE, version |-> 0, section |-> NoSection]
ObjectOf(file) == [there |-> TRUE, version |-> file.version, section |-> Assembled(file.text)]

VARIABLES
  wrapper,    \* "idle", "goparse", "as", "returned", or "exec": gccgo.real was executed
  wrapperRc,  \* what the wrapper returned
  object,     \* the object file
  install,    \* the step of install_shim that is next, "idle", "installed" or "failed"
  gccgo,      \* bin/gccgo: "compiler" or "shim"
  gccgoReal,  \* bin/gccgo.real: "compiler", "shim" or "none"
  copied      \* what was copied to bin

wrapperVars == <<wrapper, wrapperRc, object>>
installVars == <<install, gccgo, gccgoReal, copied>>

WrapperInit ==
  /\ wrapper = "idle" /\ wrapperRc = Success
  /\ object = NoObject
  /\ install = "idle"
  /\ gccgo = "compiler" /\ gccgoReal = "none"
  /\ copied = {}

Scripts == {"gollvm-wrap.py", "script_utils.py"}

\* install_shim: the tests.
CheckInstalled ==
  /\ install \in {"idle", "installed"} \cup (IF RetryAfterFailure THEN {"failed"} ELSE {})
  /\ gccgo # "none"
  /\ install' = IF gccgoReal # "none" /\ "gollvm-wrap.py" \in copied THEN "failed" ELSE "move"
  /\ UNCHANGED <<gccgo, gccgoReal, copied>>

\* A command of install_shim fails: docmd ends the installer.
InstallFails ==
  /\ install \in {"move", "emit", "chmod", "copy", "copy_utils"}
  /\ install' = "failed"
  /\ UNCHANGED <<gccgo, gccgoReal, copied>>

\* mv bin/gccgo bin/gccgo.real
MoveAside ==
  /\ install = "move"
  /\ gccgoReal' = gccgo /\ gccgo' = "none"
  /\ install' = "emit"
  /\ UNCHANGED copied

\* The script that calls the wrapper, and its mode.
EmitShim ==
  /\ install = "emit"
  /\ gccgo' = "shim"
  /\ install' = "chmod"
  /\ UNCHANGED <<gccgoReal, copied>>

ChangeMode ==
  /\ install = "chmod"
  /\ install' = "copy"
  /\ UNCHANGED <<gccgo, gccgoReal, copied>>

\* The two scripts, one after the other.
CopyScripts ==
  /\ \/ install = "copy" /\ install' = "copy_utils" /\ copied' = copied \cup {"gollvm-wrap.py"}
     \/ install = "copy_utils" /\ install' = "installed" /\ copied' = copied \cup {"script_utils.py"}
  /\ UNCHANGED <<gccgo, gccgoReal>>

\* Mutant of InstallStep: the script is written before the compiler is moved.
InstallStepShimFirst ==
  \/ CheckInstalled \/ InstallFails
  \/ install = "move" /\ install' = "emit" /\ gccgo' = "shim" /\ UNCHANGED <<gccgoReal, copied>>
  \/ install = "emit" /\ install' = "chmod" /\ gccgoReal' = gccgo /\ UNCHANGED <<gccgo, copied>>
  \/ ChangeMode \/ CopyScripts

InstallStep ==
  \/ CheckInstalled \/ InstallFails \/ MoveAside \/ EmitShim \/ ChangeMode \/ CopyScripts

\* What can be called as gccgo: the script needs the wrapper and what it imports.
Callable == gccgo = "shim" /\ copied = Scripts

\* perform, without Go files: the real compiler is executed in its place.
ExecReal ==
  /\ Callable /\ wrapper \in {"idle", "returned"}
  /\ wrapper' = "exec"
  /\ UNCHANGED <<wrapperRc, object, driverVars, exportVars>>

\* perform, with Go files and -o: llvm-goparse, its output in a file beside the object.
PerformCompile ==
  /\ wrapper \in {"idle", "returned"}
  /\ wrapper' = "goparse"
  /\ StartDriver
  /\ UNCHANGED <<wrapperRc, object, options, version, out>>

\* perform without -o ends with an error.
PerformNoOutput ==
  /\ wrapper = "idle"
  /\ wrapper' = "returned" /\ wrapperRc' = Failure
  /\ UNCHANGED <<object, driverVars, exportVars>>

\* Mutant of GoesOn: the result of llvm-goparse is not looked at.
GoesOnAlways == TRUE

\* perform: only what llvm-goparse succeeded with is assembled.
GoesOn == exitCode = Success

AfterGoparse ==
  /\ wrapper = "goparse" /\ phase = "idle"
  /\ IF GoesOn THEN wrapper' = "as" /\ UNCHANGED wrapperRc
     ELSE wrapper' = "returned" /\ wrapperRc' = Failure
  /\ UNCHANGED <<object, driverVars, exportVars>>

\* as: it may fail, and leaves no object file then.
RunAssembler ==
  /\ wrapper = "as"
  /\ \E ok \in {out.there} \cup {FALSE} :
       /\ wrapperRc' = IF ok THEN Success ELSE Failure
       /\ object' = IF ok THEN ObjectOf(out) ELSE NoObject
  /\ wrapper' = "returned"
  /\ UNCHANGED <<driverVars, exportVars>>

\* The user changes the Go files.
Edit ==
  /\ wrapper = "returned" /\ version < MaxVersion
  /\ version' = version + 1
  /\ options' \in Options
  /\ wrapper' = "idle"
  /\ UNCHANGED <<wrapperRc, object, phase, errorsSeen, hasError, broken, out, exitCode, exportVars>>

WrapperStep ==
  \/ PerformCompile \/ PerformNoOutput \/ AfterGoparse \/ RunAssembler \/ ExecReal \/ Edit

-----------------------------------------------------------------------------
(* Properties.                                                              *)

\* A wrapper that reports success has made an object file of the present sources, after
\* a compilation without errors, whatever files earlier invocations have left.
ObjectIsCurrent ==
  wrapper = "returned" /\ wrapperRc = Success =>
    object.there /\ object.version = version /\ ~errorsSeen /\ ~hasError

\* A package that imports the one just compiled gets its export data, byte for byte and
\* chunk after chunk, from the object file and from any place in an archive it is put
\* in; and it gets nothing where nothing was written.
ExportReadsBack ==
  wrapper = "returned" /\ wrapperRc = Success =>
    LET expected == [there |-> written # <<>>, bytes |-> Concatenated(written)]
        other == [there |-> TRUE, bytes |-> <<"plain">>]
        library == Archive(<<other, object.section, other>>, <<100, 0, 8>>)
    IN /\ GoReadExportData(ObjectFile(object.section), 0) = expected
       /\ GoReadExportData(library, MemberOffset(library, 2)) = expected
       /\ GoReadExportData(library, 0) = NoSection
       /\ GoReadExportData(OtherFile, 0) = NoSection

\* The compiler that was there before the installation is not lost: it is in bin/gccgo
\* or, moved aside, in bin/gccgo.real; and what the wrapper executes for a link step is
\* this compiler and not the script that called it.
CompilerKept ==
  /\ "compiler" \in {gccgo, gccgoReal}
  /\ wrapper = "exec" => gccgoReal = "compiler"
=============================================================================
