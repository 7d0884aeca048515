--------------------------------- MODULE Driver ---------------------------------
(***************************************************************************)
(* llvm-goparse (goparse-llvm.cpp): the options, the output file, the       *)
(* frontend, the module verifier and the passes that write the output, and  *)
(* on which of its many ways out the output is kept.  Errors are counted in *)
(* two places: go-llvm-diagnostics.cpp for those of the frontend, hasError  *)
(* for those LLVM finds in its passes.                                      *)
(***************************************************************************)
EXTENDS ExportData

CONSTANTS
  Options,    \* the command lines: records of what matters of the options
  Chunks,     \* what a chunk of export data may be
  MaxChunks   \* bound on the chunks of a package

OptionRecords ==
  [target : BOOLEAN, level : BOOLEAN, output : BOOLEAN, canOpen : BOOLEAN,
   backend : BOOLEAN, verify : BOOLEAN, fileType : BOOLEAN]

ASSUME DriverAssumption ==
  Options \subseteq OptionRecords /\ Chunks \subseteq Seq(Bytes) /\ MaxChunks \in Nat

Success == 0
Failure == 1
Aborted == 134
Running == -1

\* The assembler file: what it was made from, and whether all of it was written.
NoFile == [there |-> FALSE, version |-> 0, text |-> <<>>, whole |-> FALSE]
AsmFile(version, text, whole) ==
  [there |-> TRUE, version |-> version, text |-> text, whole |-> whole]

VARIABLES
  phase,      \* how far main is: "idle", "options", "parse", "globals", "verify",
              \* "passes", "emitted"
  options,    \* the command line
  version,    \* the version of the Go files
  errorsSeen, \* error_count > 0
  hasError,   \* hasError
  broken,     \* the module is not well-formed
  out,        \* the file tool_output_file holds
  exitCode    \* Running until main returns or aborts

driverVars == <<phase, options, version, errorsSeen, hasError, broken, out, exitCode>>

DriverInit ==
  /\ phase = "idle"
  /\ options \in Options
  /\ version = 1
  /\ errorsSeen = FALSE /\ hasError = FALSE /\ broken = FALSE
  /\ out = NoFile
  /\ exitCode = Running

\* A process with a state of its own.
StartDriver ==
  /\ phase' = "options"
  /\ exitCode' = Running
  /\ errorsSeen' = FALSE /\ hasError' = FALSE /\ broken' = FALSE
  /\ exportStarted' = FALSE /\ exportFinalized' = FALSE /\ asmText' = <<>> /\ written' = <<>>

\* main returns or is killed.  tool_output_file removes the file unless it was told to
\* keep it; before it exists, what is there stays.
Exit(code) ==
  /\ phase' = "idle"
  /\ exitCode' = code
  /\ out' = IF phase = "options" \/ code = Success THEN out ELSE NoFile
  /\ UNCHANGED <<options, version, errorsSeen, hasError, broken, exportVars>>

Proceed(to) ==
  /\ phase' = to
  /\ UNCHANGED <<options, version, errorsSeen, hasError, broken, out, exitCode, exportVars>>

\* main, up to the output file: an unknown target, an invalid level, no output file or
\* one that cannot be opened end it.  Opening the file empties it.
ParseOptions ==
  /\ phase = "options"
  /\ IF options.target /\ options.level /\ options.output /\ options.canOpen
     THEN /\ out' = AsmFile(version, <<>>, FALSE)
          /\ phase' = "parse"
          /\ UNCHANGED <<options, version, errorsSeen, hasError, broken, exitCode, exportVars>>
     ELSE Exit(Failure)

\* go_be_error, go_be_sorry, go_be_error_at: counted, and the frontend goes on.
GoBeError ==
  /\ phase \in {"parse", "globals"} /\ ~errorsSeen
  /\ errorsSeen' = TRUE
  /\ UNCHANGED <<phase, options, version, hasError, broken, out, exitCode, exportVars>>

\* go_be_fatal_error aborts.  A signal also removes the output file.
GoBeFatalError == phase \in {"parse", "globals"} /\ Exit(Aborted)

\* go_parse_input_files ends with the export data of the package.
ExportChunk ==
  /\ phase = "parse" /\ Len(written) < MaxChunks
  /\ \E c \in Chunks : WriteExportData(c)
  /\ UNCHANGED driverVars

\* The frontend is done.  Without -nobackend the module is made.
EndParse == phase = "parse" /\ Proceed(IF options.backend THEN "globals" ELSE "verify")

\* go_write_globals, at its end write_global_definitions.
WriteGlobalDefinitions ==
  /\ phase = "globals"
  /\ FinalizeExportData
  /\ phase' = "verify"
  /\ UNCHANGED <<options, version, errorsSeen, hasError, broken, out, exitCode>>

\* The module the frontend has made may be broken.
BreakModule ==
  /\ phase = "globals" /\ ~broken
  /\ broken' = TRUE
  /\ UNCHANGED <<phase, options, version, errorsSeen, hasError, out, exitCode, exportVars>>

\* main: "Early exit at this point if we've seen errors".
EndsHere == errorsSeen

\* verifyModule asserts that the module is well-formed; it is only called without errors.
\* An error of the frontend ends the program.
VerifyModule ==
  /\ phase = "verify"
  /\ IF options.verify /\ ~errorsSeen /\ broken THEN Exit(Aborted)
     ELSE IF EndsHere THEN Exit(Failure)
     ELSE Proceed("passes")

\* addPassesToEmitFile, and the pass manager, which writes the output and may find
\* errors in the middle of it.
RunPasses ==
  /\ phase = "passes"
  /\ IF ~options.fileType THEN Exit(Failure)
     ELSE /\ \E found \in BOOLEAN :
               /\ hasError' = found
               /\ out' = AsmFile(version, asmText, ~found)
          /\ phase' = "emitted"
          /\ UNCHANGED <<options, version, errorsSeen, broken, exitCode, exportVars>>

\* Mutant of Verdict: what LLVM found is not looked at.
VerdictAlways == Success

\* main, the end: the output is kept if no pass found an error.
Verdict == IF hasError THEN Failure ELSE Success

EndMain == phase = "emitted" /\ Exit(Verdict)

DriverStep ==
  \/ ParseOptions \/ GoBeError \/ GoBeFatalError \/ ExportChunk \/ EndParse
  \/ WriteGlobalDefinitions \/ BreakModule \/ VerifyModule \/ RunPasses \/ EndMain

-----------------------------------------------------------------------------
(* Properties.                                                              *)

\* When the program is not running, there is an output file only if it reported success
\* and the file is whole, of the present sources, which had no errors, and of a module
\* that was verified unless the user did not want it to be: what any of the ways out
\* leaves behind can be assembled.  A program that ends before it opens the file leaves
\* that of an earlier run.
OutputOnlyWhenClean ==
  exitCode # Running /\ out.there =>
    /\ out.whole
    /\ out.version = version =>
         \/ exitCode = Success /\ ~errorsSeen /\ ~hasError /\ (options.verify => ~broken)
         \/ exitCode = Failure /\ ~exportStarted
=============================================================================
