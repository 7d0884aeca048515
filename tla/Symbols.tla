-------------------------------- MODULE Symbols --------------------------------
(***************************************************************************)
(* What the backend keeps for the whole module: functions and declarations, *)
(* builtin functions (go-llvm-builtins.cpp), variables of the module and of *)
(* functions, the error objects, generated names, and curFcn_, by which the *)
(* backend checks that the frontend builds one function at a time.          *)
(* The symbols of the LLVM module are part of the state because LLVM        *)
(* renames what is created under a name that is taken.                      *)
(***************************************************************************)
EXTENDS Integers, Sequences, FiniteSets, TLC

CONSTANTS
  Declared,     \* functions the frontend declares, as often as it likes
  Defined,      \* functions it defines, each once
  Globals,      \* variables it defines in the module, each once
  References,   \* structs of other packages it refers to
  Lookups,      \* names it looks up builtin functions by
  EmptyAfterError \* whether it sets an empty body though it got an error object before

None == 0
ErrorFunction == 1  \* errorFunction_
ErrorVariable == 2  \* errorVariable_

\* A symbol that LLVM had to rename is the copy of another one.
Symbol(name, copy) == [name |-> name, copy |-> copy]

\* A Bfunction or Bvariable: its symbol if it has one in the module, and the function
\* it belongs to if it has one.
Object(kind, symbol, fn) == [kind |-> kind, symbol |-> symbol, fn |-> fn]
LocalKinds == {"local", "temp", "empty"}

\* An entry of the table of builtin functions.  An intrinsic is an LLVM function whose
\* name follows from its id and the types it is overloaded with.
Entry(flavor, name, libname, intrinsic) ==
  [flavor |-> flavor, name |-> name, libname |-> libname, intrinsic |-> intrinsic]
Libcall(name, libname) == Entry("libcall", name, libname, "")
Math(n) == Libcall("__builtin_" \o n, n)
Intrinsic(n, libname, intrinsic) == Entry("intrinsic", "__builtin_" \o n, libname, intrinsic)

\* defineAllBuiltins.  uint64Type is an integer of 32 bits (line 117), so that ctzll
\* and bswap64 are the same LLVM functions as ctz and bswap32.
Builtins ==
  {Libcall("__sync_fetch_and_add_" \o n, "") : n \in {"1", "2", "4", "8"}}
  \cup {Intrinsic("trap", "", "llvm.trap"),
        Intrinsic("return_address", "", "llvm.returnaddress"),
        Intrinsic("frame_address", "", "llvm.frameaddress"),
        Intrinsic("expect", "", "llvm.expect.i32"),
        Intrinsic("ctz", "ctz", "llvm.cttz.i32"), Intrinsic("ctzll", "ctzll", "llvm.cttz.i32"),
        Intrinsic("bswap32", "bswap32", "llvm.bswap.i32"),
        Intrinsic("bswap64", "bswap64", "llvm.bswap.i32")}
  \cup {Math(n) : n \in {"memcmp", "memcpy", "memmove",
          "acos", "asin", "atan", "atan2", "ceil", "cos", "exp", "expm1", "fabs", "floor",
          "fmod", "log", "log1p", "log10", "log2", "sin", "sqrt", "tan", "trunc", "ldexp"}}

\* BuiltinTable::lookup: by either name.
Found(name) == {e \in Builtins : name = e.name \/ (name = e.libname /\ e.libname # "")}

Personality == "__gccgo_personality_v0"

\* What the frontend gives names to, and the names the backend has.
FrontendNames == <<Declared, Defined, Globals, References>>
BackendNames == {Personality, ""} \cup UNION {{e.name, e.libname, e.intrinsic} : e \in Builtins}

\* The frontend mangles its names, so that one is used for one thing.
ASSUME NameAssumption ==
  \A i \in 1..4 : /\ FrontendNames[i] \cap BackendNames = {}
                  /\ \A j \in 1..4 : i # j => FrontendNames[i] \cap FrontendNames[j] = {}

\* The table of defineAllBuiltins: an entry is found by its name alone, and its symbol is
\* of no other kind.
ASSUME TableAssumption ==
  /\ \A e \in Builtins : /\ e.flavor \in {"libcall", "intrinsic"}
                         /\ Found(e.name) = {e}
  /\ \A e, d \in Builtins : e.flavor = "libcall" => e.name \notin {d.intrinsic, Personality, ""}
  /\ \A e \in Builtins : e.flavor = "intrinsic" => e.intrinsic \notin {Personality, ""}

VARIABLES
  symbols,      \* the symbols of the LLVM module, in the order they were created
  objects,      \* every Bfunction and Bvariable, in the order they were created
  fcnNameMap,   \* fcnNameMap_: name to Bfunction
  functions,    \* functions_
  valueVarMap,  \* valueVarMap_: symbol to Bvariable
  structRefs,   \* immutableStructRefs_: name to Bvariable
  bfunction,    \* BuiltinEntry::bfunction_: name of an entry to Bfunction
  personality,  \* personalityFunction_
  nametags,     \* nametags_: how often a tag was used
  curFcn,       \* curFcn_
  errorCount,   \* errorCount_ > 0
  initialized,  \* variables with an initializer
  asked,        \* what the frontend got for the names it asked for
  bodies,       \* functions whose body is set
  building,     \* the function the frontend is building
  assertFailed  \* an assertion failed

moduleVars == <<symbols, objects, fcnNameMap, functions, valueVarMap, structRefs, bfunction,
                personality, nametags, errorCount, asked>>
buildVars == <<curFcn, initialized, bodies, building, assertFailed>>
symbolVars == <<moduleVars, buildVars>>

\* LLVM gives the symbol another name if there is one of this name.
Created(name) ==
  Symbol(name, Cardinality({i \in DOMAIN symbols : symbols[i].name = name}))
NewSymbol == Len(symbols) + 1
NewObject == Len(objects) + 1

\* A map with an entry for the key.
With(map, key, value) == [k \in {key} \cup DOMAIN map |-> IF k = key THEN value ELSE map[k]]

Answer(name, object) == [name |-> name, object |-> object]
Asked(name) == \E a \in asked : a.name = name

\* The constructor: the unnamed error function, the error variable, and the table, whose
\* entries must have names of their own.
SymbolsInit ==
  /\ symbols = <<Symbol("", 0)>>
  /\ objects = <<Object("function", 1, None), Object("error", None, None)>>
  /\ fcnNameMap = <<>> /\ functions = <<>>
  /\ valueVarMap = <<>> /\ structRefs = <<>>
  /\ bfunction = [n \in {e.name : e \in Builtins} |-> None]
  /\ personality = None
  /\ nametags = [t \in {"const"} |-> 0]
  /\ curFcn = None
  /\ errorCount = FALSE
  /\ initialized = {} /\ asked = {} /\ bodies = {}
  /\ building = None
  /\ assertFailed = \E e \in Builtins : Cardinality(Found(e.name)) > 1

\* function(): a Bfunction with a symbol of its own.
CreateFunction(name, symbol) ==
  /\ symbols' = Append(symbols, Created(symbol))
  /\ objects' = Append(objects, Object("function", NewSymbol, None))
  /\ functions' = Append(functions, NewObject)
  /\ asked' = asked \cup {Answer(name, NewObject)}

\* function(), is_declaration: the one declared under the name before, if there is one.
DeclareFunction(n) ==
  /\ IF n \in DOMAIN fcnNameMap
     THEN /\ asked' = asked \cup {Answer(n, fcnNameMap[n])}
          /\ UNCHANGED <<symbols, objects, functions, fcnNameMap>>
     ELSE /\ CreateFunction(n, n)
          /\ fcnNameMap' = With(fcnNameMap, n, NewObject)
  /\ UNCHANGED <<valueVarMap, structRefs, bfunction, personality, nametags, errorCount,
                 buildVars>>

\* function(), a definition: a new function each time; only the list remembers it.
DefineFunction(n) ==
  /\ ~Asked(n)
  /\ CreateFunction(n, n)
  /\ UNCHANGED <<fcnNameMap, valueVarMap, structRefs, bfunction, personality, nametags,
                 errorCount, buildVars>>

\* Mutant of Remembered: only intrinsics are remembered.
RememberedIntrinsics(e, object) ==
  IF e.flavor = "intrinsic" THEN [bfunction EXCEPT ![e.name] = object] ELSE bfunction

\* setBfunction
Remembered(e, object) == [bfunction EXCEPT ![e.name] = object]

\* lookup_builtin: the Bfunction is made the first time.  An intrinsic is a function of
\* LLVM's that may be in the module, a library function is created under the name of
\* the entry.
LookupBuiltin(n) ==
  /\ \E e \in Found(n) :
       IF bfunction[e.name] # None
       THEN /\ asked' = asked \cup {Answer(n, bfunction[e.name])}
            /\ UNCHANGED <<symbols, objects, functions, bfunction>>
       ELSE /\ IF e.flavor = "libcall" THEN CreateFunction(n, e.name)
               ELSE LET there == {i \in DOMAIN symbols : symbols[i].name = e.intrinsic} IN
                    /\ symbols' = IF there = {} THEN Append(symbols, Created(e.intrinsic))
                                  ELSE symbols
                    /\ objects' = Append(objects, Object("function",
                                    IF there = {} THEN NewSymbol ELSE CHOOSE i \in there : TRUE,
                                    None))
                    /\ asked' = asked \cup {Answer(n, NewObject)}
                    /\ UNCHANGED functions
            /\ bfunction' = Remembered(e, NewObject)
  /\ UNCHANGED <<fcnNameMap, valueVarMap, structRefs, personality, nametags, errorCount,
                 buildVars>>

\* personalityFunction: created once.
PersonalityFunction ==
  /\ personality = None
  /\ symbols' = Append(symbols, Created(Personality))
  /\ personality' = NewSymbol
  /\ UNCHANGED <<objects, fcnNameMap, functions, valueVarMap, structRefs, bfunction, nametags,
                 errorCount, asked, buildVars>>

\* makeModuleVar: a variable of the module, found by its value from then on.
MakeModuleVar(name) ==
  /\ symbols' = Append(symbols, Created(name))
  /\ objects' = Append(objects, Object("global", NewSymbol, None))
  /\ valueVarMap' = With(valueVarMap, NewSymbol, NewObject)
  /\ asked' = asked \cup {Answer(name, NewObject)}

\* global_variable, implicit_variable, immutable_struct
ModuleVariable(n) ==
  /\ ~Asked(n)
  /\ MakeModuleVar(n)
  /\ UNCHANGED <<fcnNameMap, functions, structRefs, bfunction, personality, nametags,
                 errorCount, buildVars>>

\* namegen, the count of the tag.
Counted(tag) == [nametags EXCEPT ![tag] = @ + 1]

ConstName(k) == "const." \o ToString(k)

\* genVarForConstant looks for the constant among values of variables and never finds
\* it there: each time there is a new variable, under a generated name.
ConstantVariable ==
  /\ MakeModuleVar(ConstName(nametags["const"]))
  /\ nametags' = Counted("const")
  /\ UNCHANGED <<fcnNameMap, functions, structRefs, bfunction, personality, errorCount,
                 buildVars>>

\* immutable_struct_reference: the same variable for the same name.
ImmutableStructReference(n) ==
  /\ IF n \in DOMAIN structRefs
     THEN /\ asked' = asked \cup {Answer(n, structRefs[n])}
          /\ UNCHANGED <<symbols, objects, valueVarMap, structRefs>>
     ELSE /\ MakeModuleVar(n)
          /\ structRefs' = With(structRefs, n, NewObject)
  /\ UNCHANGED <<fcnNameMap, functions, bfunction, personality, nametags, errorCount, buildVars>>

\* error_function, error_variable
ErrorRequest ==
  /\ ~errorCount
  /\ errorCount' = TRUE
  /\ UNCHANGED <<symbols, objects, fcnNameMap, functions, valueVarMap, structRefs, bfunction,
                 personality, nametags, asked, buildVars>>

SymbolRequest ==
  /\ \/ \E n \in Declared : DeclareFunction(n)
     \/ \E n \in Defined : DefineFunction(n)
     \/ \E n \in Lookups : LookupBuiltin(n)
     \/ \E n \in Globals : ModuleVariable(n)
     \/ \E n \in References : ImmutableStructReference(n)
     \/ PersonalityFunction \/ ConstantVariable \/ ErrorRequest

-----------------------------------------------------------------------------
(* Building functions.  The frontend builds one after the other.            *)

DefinedFunctions == {a.object : a \in {a \in asked : a.name \in Defined}}

\* What the frontend may be building: a function it defined, or the error function it
\* got for one whose type is in error.
Buildable(f) ==
  /\ f \in (DefinedFunctions \ bodies) \cup (IF errorCount THEN {ErrorFunction} ELSE {})
  /\ building \in {None, f}

NewVariable(f, kind) == objects' = Append(objects, Object(kind, None, f))

sameModule == UNCHANGED <<symbols, fcnNameMap, functions, valueVarMap, structRefs, bfunction,
                          personality, nametags, errorCount, asked>>

\* local_variable: the error variable for the error function.
LocalVariable(f, kind) ==
  /\ Buildable(f) /\ f # ErrorFunction
  /\ NewVariable(f, kind)
  /\ curFcn' = f /\ building' = f
  /\ sameModule /\ UNCHANGED <<initialized, bodies, assertFailed>>

\* parameter_variable: curFcn_ is set before the test.
ParameterVariable(f) ==
  /\ Buildable(f)
  /\ IF f = ErrorFunction THEN UNCHANGED objects ELSE NewVariable(f, "param")
  /\ curFcn' = f /\ building' = f
  /\ sameModule /\ UNCHANGED <<initialized, bodies, assertFailed>>

\* temporary_variable, with its init_statement; also here curFcn_ is set first.
TemporaryVariable(f) ==
  /\ Buildable(f)
  /\ IF f = ErrorFunction THEN UNCHANGED <<objects, initialized>>
     ELSE /\ NewVariable(f, "temp")
          /\ initialized' = initialized \cup {NewObject}
  /\ curFcn' = f /\ building' = f
  /\ sameModule /\ UNCHANGED <<bodies, assertFailed>>

\* init_statement, once for each variable, as setInitializer asserts.  An object without
\* size may get none.
InitStatement(f, v) ==
  /\ Buildable(f) /\ v \in DOMAIN objects
  /\ objects[v].fn = f /\ objects[v].kind = "local" /\ v \notin initialized
  /\ initialized' = initialized \cup {v}
  /\ curFcn' = f /\ building' = f
  /\ sameModule /\ UNCHANGED <<objects, bodies, assertFailed>>

\* expression_statement, assignment_statement, return_statement, conditional_expression:
\* nothing for the error function.
Statement(f) ==
  /\ Buildable(f) /\ f # ErrorFunction
  /\ curFcn' = f /\ building' = f
  /\ sameModule /\ UNCHANGED <<objects, initialized, bodies, assertFailed>>

\* if_statement, switch_statement do not test for it.
BranchStatement(f) ==
  /\ Buildable(f)
  /\ curFcn' = f /\ building' = f
  /\ sameModule /\ UNCHANGED <<objects, initialized, bodies, assertFailed>>

\* Mutant of AfterBody: curFcn_ is left as it is.
AfterBodyKept(f) == curFcn

\* function_set_body resets curFcn_, but not for the error function.
AfterBody(f) == IF f = ErrorFunction THEN curFcn ELSE None

\* Local variables that must get an initializer: all but those without size.
Uninitialized(f) ==
  {v \in DOMAIN objects : objects[v].fn = f /\ objects[v].kind \in {"local", "temp"}}
  \ initialized

\* function_set_body, as far as the walk of the body, for a body that may be empty.
SetBody(f) ==
  /\ Buildable(f)
  /\ building = f \/ ~errorCount \/ EmptyAfterError
  /\ Uninitialized(f) = {}
  /\ assertFailed' = (assertFailed \/ (f # ErrorFunction /\ curFcn \notin {None, f}))
  /\ curFcn' = AfterBody(f)
  /\ bodies' = IF f = ErrorFunction THEN bodies ELSE bodies \cup {f}
  /\ building' = None
  /\ sameModule /\ UNCHANGED <<objects, initialized>>

Build(f) ==
  \/ \E kind \in {"local", "empty"} : LocalVariable(f, kind)
  \/ ParameterVariable(f) \/ TemporaryVariable(f)
  \/ \E v \in DOMAIN objects : InitStatement(f, v)
  \/ Statement(f) \/ BranchStatement(f)

-----------------------------------------------------------------------------
(* Properties.                                                              *)

Occurrences(o, seq) == Cardinality({i \in DOMAIN seq : seq[i] = o})

\* Mutant of FreedByTable: every Bfunction of the table.
FreedByTableAll(o) == Cardinality({e \in Builtins : bfunction[e.name] = o})

\* ~BuiltinEntry: intrinsics only, as library functions are in functions_.
FreedByTable(o) ==
  Cardinality({e \in Builtins : e.flavor = "intrinsic" /\ bfunction[e.name] = o})

\* How often ~Llvm_backend deletes an object: through functions_, valueVarMap_, the
\* table and the owners of the error objects.
FreedDirectly(o) ==
  Occurrences(o, functions)
  + Cardinality({s \in DOMAIN valueVarMap : valueVarMap[s] = o})
  + FreedByTable(o)
  + (IF o \in {ErrorFunction, ErrorVariable} THEN 1 ELSE 0)

\* ~Bfunction deletes the variables of the function.
Freed(o) == IF objects[o].fn = None THEN FreedDirectly(o) ELSE FreedDirectly(objects[o].fn)

\* Whatever the frontend asked for, and however it found it (a declaration, a builtin
\* function under one or the other name, a reference), the backend deletes every object
\* exactly once when it is destroyed, although several tables hold the same ones.
FreedOnce == \A o \in DOMAIN objects : Freed(o) = 1

SymbolOf(name) ==
  LET found == Found(name) IN
  IF found = {} THEN {name}
  ELSE {IF e.flavor = "libcall" THEN e.name ELSE e.intrinsic : e \in found}

\* Every name the frontend asked for is a symbol of the module, and what it got for the
\* name has this symbol and not a renamed copy: all uses of a declaration, of a builtin
\* function, of a struct of another package, from wherever they were asked for, are uses
\* of the one the linker resolves.
SymbolsKept ==
  /\ \A a \in asked : LET s == symbols[objects[a.object].symbol] IN
       s.name \in SymbolOf(a.name) /\ s.copy = 0
  /\ personality # None => symbols[personality] = Symbol(Personality, 0)
=============================================================================
