-------------------------------- MODULE Compile --------------------------------
(***************************************************************************)
(* One compilation, from the wrapper to the object file: the wrapper runs   *)
(* the driver, the driver the frontend, and the frontend, while it writes   *)
(* its globals, the backend.  A user does one thing at a time: a plan says  *)
(* which part of the system the frontend and the environment make use of.   *)
(***************************************************************************)
EXTENDS DebugScopes, Wrapper

CONSTANTS
  Plans,        \* what may happen in a behavior: sets of parts
  MaxSymbols,   \* bound on the symbols of a module
  MaxObjects,   \* bound on functions and variables
  MaxFunctions  \* bound on the functions that are defined

Parts == {"symbols", "build", "export", "errors", "install"}

ASSUME PlanAssumption ==
  /\ Plans \subseteq SUBSET Parts
  /\ MaxSymbols \in Nat /\ MaxObjects \in Nat /\ MaxFunctions \in Nat

\* namegen makes names that are used for nothing else.
ASSUME TagAssumption ==
  \A k \in 0..MaxSymbols :
    /\ ConstName(k) \notin BackendNames \cup UNION {FrontendNames[i] : i \in 1..4}
    /\ \A l \in 0..MaxSymbols : ConstName(k) = ConstName(l) => k = l

VARIABLE plan

backendVars == <<symbolVars, debugVars>>
vars == <<plan, backendVars, driverVars, exportVars, wrapperVars, installVars>>

Init ==
  /\ plan \in Plans
  /\ SymbolsInit /\ DebugInit /\ ExportInit /\ DriverInit /\ WrapperInit
  /\ "errors" \notin plan => \A o \in DOMAIN options : options[o]

\* The backend is at work while the frontend writes its globals.  A failed assertion is
\* the end.
AtWork == phase = "globals" /\ ~assertFailed
Room == Len(symbols) < MaxSymbols /\ Len(objects) < MaxObjects

\* function_set_body returns to the frontend when the body has been walked.
SymbolsPart ==
  /\ AtWork /\ ~Walking
  /\ "symbols" \in plan
  /\ Room
  /\ SymbolRequest
  /\ UNCHANGED debugVars

DefinePart ==
  /\ AtWork /\ ~Walking
  /\ "build" \in plan /\ Cardinality(DefinedFunctions) < MaxFunctions
  /\ \/ \E n \in Defined : DefineFunction(n)
     \/ ErrorRequest
  /\ NoWalk

BuildPart ==
  /\ AtWork /\ ~Walking
  /\ "build" \in plan
  /\ \E f \in DOMAIN objects :
       \/ Len(objects) < MaxObjects /\ Build(f) /\ NoWalk
       \/ BeginWalk(f)

WalkPart == AtWork /\ WalkStep

BackendStep ==
  /\ SymbolsPart \/ DefinePart \/ BuildPart \/ WalkPart
  /\ UNCHANGED <<plan, driverVars, exportVars, wrapperVars, installVars>>

UsesBackend == plan \cap {"symbols", "build"} # {}

\* Without the part for them there are no errors and no export data.  A plan that uses
\* the backend is over when the frontend has written its globals: no function is being
\* built then.
DriverPart ==
  /\ DriverStep
  /\ UsesBackend => phase \in {"options", "parse", "globals"}
  /\ "errors" \notin plan => ~errorsSeen' /\ ~hasError' /\ ~broken' /\ exitCode' \notin {Failure, Aborted}
  /\ "export" \notin plan => written' = <<>>
  /\ phase = "globals" => ~Walking /\ building = None /\ ~assertFailed
  /\ UNCHANGED <<plan, backendVars, wrapperVars, installVars>>

\* The state of the backend is that of one compilation: a plan that uses it has no second.
WrapperPart ==
  /\ WrapperStep
  /\ UsesBackend => wrapper # "returned"
  /\ UNCHANGED <<plan, backendVars, installVars>>

InstallPart ==
  /\ "install" \in plan /\ wrapper # "exec"
  /\ InstallStep
  /\ UNCHANGED <<plan, backendVars, driverVars, exportVars, wrapperVars>>

Next == BackendStep \/ DriverPart \/ WrapperPart \/ InstallPart

Spec == Init /\ [][Next]_vars

-----------------------------------------------------------------------------
(* Properties.                                                              *)

\* No assertion of the backend fails: a frontend that builds one function at a time and
\* asks for an error object now and then finds curFcn_ as it should be, every declaration
\* has a place, and the scopes of the debug information end with the function.
NeverAborts == ~assertFailed
=============================================================================
