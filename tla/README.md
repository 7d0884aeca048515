# TLA+ models of dragongo

dragongo connects the Go frontend (gofrontend) to LLVM: the frontend calls the methods of a
`Backend` class, and `Llvm_backend` answers with types, expressions, statements and functions
that end up as LLVM IR. The frontend is a client; most of what follows is code of
`src/llvm-gofrontend`, with the driver `goparse-llvm.cpp` and the wrapper scripts of `src/tools`
around it. The program is sequential: there are no threads and no messages, and only files outlive
a run. What makes it hard is that it is an *incremental translator driven from outside*: the client
hands it a long sequence of calls, in an order the client chooses, and many answers depend on what
was cached, deferred or left unfinished by earlier calls.

## 1. Inventory

| Component | Source | State | Operations | Interacts with |
|---|---|---|---|---|
| Control flow construction (`GenBlocks`) | `go-llvm.cpp` 3006-3645 | current block, blocks of the function, label map, landing pad stack, pending finally block, cached return | one routine for each statement kind, `walkExpr`, `function_set_body` | visits the trees of the Bnode component; calls the debug info helper and the function component |
| Line map (`Llvm_linemap`) | `go-llvm-linemap.cpp/.h` | ULEB128 encoded line/column pairs, file table, segment table, the open segment, current file and line | `start_file`, `start_line`, `get_location`, `stop`, decoding of a `Location` | handles are stored in nodes and variables and decoded by debug info |
| ABI classification (`CABIOracle`) | `go-llvm-cabi-oracle.cpp/.h` | eightbyte regions of a type, registers left (`ABIState`), dispositions and offsets in the LLVM signature | `analyze`, classification of a parameter and of the result | used by the function component and by calls |
| Types and placeholders (`TypeManager`) | `go-llvm-typemanager.cpp/.h`, `go-llvm-btype.*` | anonymous type table, placeholder set, references to placeholders, duplicates, circular pointer loop tables | type constructors, `set_placeholder_*`, `circular_pointer_type`, postprocessing of resolved placeholders | everything that has a type |
| Trees (`Bnode`, `BnodeBuilder`, `IntegrityVisitor`) | `go-llvm-bnode.*`, `go-llvm-bexpression.*`, `go-llvm-bstatement.*`, `go-llvm-tree-integrity.*` | archive of nodes, parents, children | node construction, sharing detection and repair by cloning, destruction | built by the backend, checked before a function body is walked |
| Expression and statement builders (`Llvm_backend`) | `go-llvm.cpp`, `go-llvm.h` | var context (address level), delayed composite initialisers, constant and global caches, export data, current function | the `Backend` interface | all |
| Functions (`Bfunction`) | `go-llvm-bfunction.cpp/.h` | parameters, locals, labels, prolog allocas, return slot | parameter, local, temporary and label creation, prolog, return sequence | ABI classification, GenBlocks |
| Debug information (`DIBuildHelper`) | `go-llvm-dibuildhelper.cpp/.h` | stack of scopes, set of declared variables | begin/end of function and block, instruction locations, variable declarations | called by GenBlocks while it walks |
| Builtins (`BuiltinTable`) | `go-llvm-builtins.cpp/.h` | table of builtin functions, materialised or not | definition, lookup, materialisation on first use | builders |
| Names (`NameGen`) | `namegen.h` | counters of version numbers by tag | `namegen` | all |
| Export data | `go-llvm.cpp` 3664-3724, `go-backend.cpp` | assembler text of the module | `write_export_data`, `finalizeExportData`, `go_read_export_data` | the assembler; later compilations read it |
| Driver (`main`) | `goparse-llvm.cpp`, `go-llvm-diagnostics.cpp` | options, output file, error counts | the phases of a compilation, `go_be_error`, `go_be_fatal_error` | starts the frontend, runs LLVM's passes |
| Wrapper | `tools/gollvm-wrap.py`, `tools/script_utils.py` | files in `bin`, object file | `install_shim`, `perform` | stands in for gccgo, runs the driver and the assembler |
| Checksums | `go-sha1.cpp` | - | a library algorithm | frontend |

What makes each component correct:

* **GenBlocks** - every block ends in exactly one terminator and nothing follows it; calls under a
  landing pad unwind to it and to no other; a cached return is emitted exactly once; the control
  flow graph has the behaviour of the statement tree; the walk ends.
* **Line map** - a `Location` decodes for ever to the place it was asked for, whatever files and
  lines come later.
* **ABI classification, functions, calls** - oracle, callee prolog and call site agree on the slot
  of every parameter; the pieces of an object cover its contents; no more registers are used than
  there are.
* **Types** - once every placeholder is resolved no type reachable from a resolved one still
  contains a placeholder; the table of anonymous types always finds a type under its present
  content.
* **Trees** - a node has one parent when the walk starts; repair keeps the meaning of the tree;
  every node is freed once.
* **Builders** - the address level of a variable expression is resolved exactly once; a cached
  constant or global is the one asked for; no call is made for two functions at once.
* **Debug information** - scopes are popped in the order they were pushed; a variable is declared
  once and after its initialisation.
* **Builtins, names** - a builtin is materialised once; a versioned name is unique under its tag;
  every object is deleted once.
* **Export data** - what is read back is what was written, byte for byte.
* **Driver, wrapper** - no file is left that is cut off or made from sources with errors; an object
  file is never older than the success that is reported; the compiler that was there is not lost.

The hard behaviours are not concurrency but *protocol sequences* (calls in an order no test makes),
*stale state* (a block, type, file index, cached return or an old file kept across what changes it),
*numeric edges* (bit groups, eightbytes, offsets, escapes) and, around the backend, *partial failure*
(a phase of `main` or a command of the installer that fails). `PROJECT.json` lists them with their
lines.

## 2. Plan

The order is that of importance for the correctness of the generated code.

| | Modules | Abstract specification or reference | Theorems |
|---|---|---|---|
| 1 | `GenBlocks`, `StmtRules`, `GenBlocksTraces`, `StmtTrees` | event traces of a statement tree; rules statement trees obey | `TypeCorrect`, `ReturnsAreOwed`, `WalkNeverAborts`, `CfgStaysWellFormed` |
| 2 | `Linemap` over `LocationTable` | a table of locations | all three properties |
| 3 | `EightBytes`; `CABIOracle`, `Bfunction` on top of it, `Calls` composed with both | the bytes of an object; the AMD64 classes; LLVM's register allocation | `OffsetsMatchSignature`, `PiecesTogether`, `WalksOfCalleeAgree`, `PrologSpillsAll`, `AssertionsHold`, `CallsMatchSignatures`, `CallsArrive`, `AttributesMatch`, `ResultsArrive`, and that each composition implements what it is built on |
| 4 | `Types`; `DebugTypes` and `TypeSizes` on top of it | the LLVM type the parts of a type call for | `TableStaysFresh`, `ConcreteTypesAgree`, `TypesStayOK`, `NoTypeForgotten`, `WalksEndClean` |
| 5 | `Nodes`, `Builders`, `Emission` on top of each other | the Go term an expression stands for, and the effects a statement is to have | - |
| 6 | `Symbols`, `DebugScopes` on top of it; `ExportData`, `Driver`, `Wrapper` on top of each other; `Compile` composed of both | the scopes of the program's blocks; the symbols the linker resolves; the bytes that were written | `SymbolsAreKept`, `ObjectsFreedOnce`, `ScopesFollowBlocks`, `BackendNeverAborts`, `CompilerIsKept`, `OutputIsClean`, `ObjectStaysCurrent`, `ExportIsReadBack` |

All modules of the plan are written, and every property of the modules without recursion over trees
is proved but one: `EntriesDiffer`, a part of `HashFresh` (see the end of section 5).

Modules to be proved about declare no RECURSIVE operator; recursion over types, trees and terms is
in modules that only runs use (`GenBlocksTraces`, `StmtTrees`, `EightBytes`, `TypeSizes`, `Nodes`,
`Emission`).

## 3. The models and the code

### GenBlocks (`go-llvm.cpp` 3006-3645)

The C++ walk is recursive. `work` is its stack of activation records: a task `walk` visits a node,
every other task is the part of a routine behind a recursive call (`join` of `genIf`, `case` of
`genSwitch`, `excepCatch`, `excepFinally`, `excepReturn`, `excepEnd` of `genExcep`, ...), and `bb`
holds that routine's local blocks. One action is the code between two recursive calls.

| Model | Code |
|---|---|
| `cur` | `curblock`, passed and returned by `walk`; 0 is null, code that cannot be reached |
| `blocks` | the function's basic blocks; blocks that are never attached do not occur |
| `labelmap`, `padStack`, `finallyBlock`, `cachedReturn` | `labelmap_`, `padBlockStack_`, `finallyBlock_`, `cachedReturn_` |
| `status = "aborted"` | an assertion fails or an instruction is inserted through a null block |
| `EmitInst` | `walkExpr` and `rewriteToMayThrowCall`: under a landing pad a call that is no intrinsic becomes an invoke and opens a continuation block |
| `WalkIf`, `IfArms`, `JoinArm` | `genIf` |
| `WalkSwitch`, `SwitchBlocks`, `SwitchCase`, `SwitchEnd` | `genSwitch` |
| `ReturnToFinally`, `WalkReturn`, `ReturnEnd` | `genReturn`: with a finally block the first return is cached and all are jumps |
| `WalkDefer`, `DeferCatch`, `DeferEnd` | `genDefer` |
| `WalkExcep` ... `ExcepEnd` | `genExcep` |
| `WalkGoto`, `WalkLabel` | `genGoto`, `genLabelDef`, `getLLVMBlockForLabel` |
| `Finish` | the end of `function_set_body` and `fixupEpilogBlock` |

Instructions are reduced to what the walk tells apart: an ordinary one, a call, a call of an
intrinsic, a return. Debug metadata (`dibuildhelper()`) is left to its own component. The trees are
a constant: `StmtTrees` has their constructors and `WellShaped`, the shape the frontend gives them.
`StmtRules` states that shape as rules, which relate a node to its children only, for trees of any
size: a derivation says how each node is walked, a layout where the labels, returns and exception
statements of a body are. `MCGenBlocks` derives and lays out all its trees (`BodiesAreDerived`,
`BodiesAreLaid`, assumptions TLC evaluates).

`GenBlocksTraces` says what blocks and trees *mean*: both are executed to sets of event traces
(instructions, outcomes of branches, calls that throw, return), the blocks by their instructions,
the tree by a continuation semantics that has no blocks in it. `MeaningPreserved` compares the two
sets when the walk is done.

### Linemap over LocationTable (`go-llvm-linemap.cpp`)

`files`, `fmap`, `segments`, `encoded`, `currentFidx`, `currentLine`, `firstHandle`, `lastHandle`
and `inFile` are the members of `Llvm_linemap`; `StartFile`, `StartLine`, `GetLocation`, `Stop` its
methods, `DecodeLocation` and `LocationPlace` its decoder, with `std::lower_bound` as
`FirstSegment`. The bytes of ULEB128 are modelled one by one, because the handle arithmetic rests on
their number. `asked` is not in the code: it is what the holders of `Location`s remember, against
which decoding is checked. `get_location` asserts `in_file_`, so that is the guard of `GetLocation`.
A handle is a 32 bit offset in the code; `MaxBytes` bounds the array. Not modelled: `to_string`,
the lookup counter and statistics, `get_initial_file` (it answers `files_[2]`).

`LocationTable` is the abstract specification: a map from fresh handles to places, which a later
request never changes. The refinement mapping decodes every handle (`loc`).

### EightBytes (`EightByteInfo`, `go-llvm-cabi-oracle.cpp` 45-450)

The variables are the type, the leaves or elements still to be placed, `curOffset`, and the regions.
`ExplodeStruct` and `ExplodeArray` are one iteration of the loops of these names,
`DetermineABIType` one of `determineABITypes`; `Exploded` is the assertion that there are at most two
regions. The layout of types (`Align`, `FieldOffset`, `AllocSize`) is LLVM's `DataLayout` for x86-64
and marked external. `PieceOffset` is what `computeABIStructType` and the loads and stores of the
pieces make of the carriers.

### CABIOracle, Bfunction, Calls

Here a type is only its size, the registers of its eightbytes, its extension attribute, and whether
its LLVM type is an aggregate: constants with the assumptions `TypeAssumption`. `SignatureShapes`
has one type for each outcome `EightBytes` can have.

* `CABIOracle` is `analyze`, one parameter for each step: `AnalyzeReturn`, `AnalyzeChain`,
  `AnalyzeParam` fill `infov_`, count registers and slots; `BuildReturn`, `BuildParam`, `BuildType`
  are the second loop, which makes the LLVM function type; `AnalyzeRaw` is `analyzeRaw`, for builtin
  functions. The assertion of `analyzeABIParam` about auxiliary types is left out.
* `Bfunction` is the function under construction. `AbiSetup`, `AbiSetupParam` are the constructor's
  walk over the arguments; `ParameterVariable`, `StaticChainVariable`, `LocalVariable` and
  `CreateTemporary` are what the client may call before the body, in any order; `GenProlog` makes
  allocas and spills; `WalkBody` leaves in the entry block what a body may leave there;
  `FixupProlog` and `DeclareParameters` (`DIBuildHelper::insertVarDecl`) come behind the walk. Names
  and attributes of arguments are reduced to whose they are. Casts and field addresses in front of a
  store are left out. Labels are in `GenBlocks`.
* `Calls` adds the call site: `GenCallProlog`, `MarshallArg` and `MarshallEnd`, `CreateCall` (with
  `genCallAttributes`), `GenCallEpilog`. `ReturnSequence` is the callee's `genReturnSequence`. The
  client may build the caller before, after or between the steps of the callee. The sign extension
  in front of an argument does not change its type and is left out, as are conversions.

### Types, DebugTypes, TypeSizes (`go-llvm-typemanager.cpp`, `go-llvm-btype.*`)

A `Btype` is a place in `types`; it keeps its parts, its name, its flag `isPlaceholder`, and the LLVM
type it has at present. An LLVM type is a term, so that two are equal when LLVM makes them one; an
identified struct is named after the Btype it was made for, and gets its body later (`body`).

| Model | Code |
|---|---|
| `anonTypes` | `anonTypes_`; each entry with the hash it was entered under, so that a type that changes while it is in the table is seen to be in the wrong bucket |
| `placeholderRefs`, `placeholders`, `duplicates`, `revNames` | the members with these names |
| `loop`, `markers`, `loadMap`, `addrMap` | `circularPointerLoop_`, `circularPointerTypeMap_`, `circularConversionLoadMap_`, `circularConversionAddrMap_` |
| `work` | the recursion of `postProcessResolvedPlaceholder`: for each active call the types it has not visited, which it takes in any order because the code's order is that of addresses |
| `PointerType` ... `FunctionType` | the requests, with the candidate that is looked up and the type that is made (`Intern`) |
| `SetPlaceholder...Type`, `CircularPointerType` | completing a placeholder, opening and closing a cycle of pointers |
| `VisitStruct`, `VisitOther`, `Rehash` | `postProcessResolved...Placeholder` with `removeAnonType` and `reinstallAnonType` |
| `TypeSize`, `ProxySize` | `typeSize`, `placeholderProxyType` |
| `Begin`, `NextPart`, `ReturnType` | the recursive walks `buildDIType` (with its temporaries) and `typToStringRec` |

The scalar types are one type, which stands for all of them: no rule tells them apart. Only the
frontend decides what it asks for, in which order; `Frontend` is a set of frontends, each with a few
kinds of requests.

### Nodes, Builders, Emission (`go-llvm-bnode.cpp`, `go-llvm-tree-integrity.cpp`, `go-llvm.cpp`)

The operators take the state of the backend, a record, and return it changed, with the node they
made: that is how the C++ builders are written. Every node and every instruction carries a *term*,
what it stands for in the Go program (`Addr`, `Star`, `Field` of variables). The terms are not in
the code; they are the reference the values are checked against.

* `Nodes` has the arena (`Archive`, `FreeExpr`), the constructors of `BnodeBuilder`, the context of
  pending variables (`pending`, `lvalue`, `addrLevel` for `VarContext`), and `IntegrityVisitor`:
  `Visit`, `SetParent`, `SetInstParent` find what is shared, `Repair` clones it (`CloneSubtree`).
* `Builders` has `resolve`, `resolveVarContext`, `resolveCompositeInit`, `genStore` and the methods of
  the `Backend` interface for expressions and statements. `Ask...` are the requests of the frontend.
  `reuse` says which kinds of expressions a frontend uses more than once, as gofrontend does with
  variables and loads.
* `Emission` is the order `walkExpr` and `genIf` give the instructions of the finished tree.

The types are an int, one of another width, a struct, an array, a struct of structs, and pointers:
those are passed, loaded and stored in different ways. What an operator computes is left out.

### Symbols, DebugScopes (`go-llvm.cpp`, `go-llvm-builtins.cpp`, `go-llvm-dibuildhelper.cpp`)

`Symbols` is what the backend keeps for a module. `symbols` is the symbol table of the LLVM module,
in which LLVM renames what is created under a name that is taken; `objects` are the Bfunctions and
Bvariables, and the other variables the tables that hold them. `FreedOnce` adds up what
`~Llvm_backend`, `~BuiltinEntry` and `~Bfunction` delete. The builders that matter for functions set
`curFcn`: those that set it before they test for the error function are told apart from those that
test first. `building` is the function the frontend is building; it is not in the code.

`DebugScopes` is `DIBuildHelper` driven by the walk of a body. The body is not a tree that was built
before: each step is whatever the walk may meet next (a block, an instruction, a jump, a label), so
that all bodies within the bounds are covered. `blocks`, `placed` and `located` remember what the
stack of scopes is checked against.

### ExportData, Driver, Wrapper, Compile

`ExportData` is the text the backend writes for the assembler, character by character where an escape
depends on the next character; bytes are reduced to six classes. The assembler and archives are
external. `Driver` is `main` with all its ways out; `out` is what `tool_output_file` leaves on disk,
with the version of the sources it was made from. `Wrapper` is `perform`, which runs the driver and
the assembler, and `install_shim`, command by command. `Compile` composes them with the backend: a
plan says which part of the system a behavior uses. Parts that share no state are not interleaved:
the installation does not touch what a compilation uses before it is finished, and while the backend
is asked for symbols the driver stands still in its phase `globals`.

## 4. Runs

`CHECK_DEADLOCK FALSE` is set wherever the modelled code comes to an end (a body has been walked, a
type analysed, a call built, a frontend has asked for all it wants); the line map never ends and its
run checks for deadlock.

| Run | Instance | Shows |
|---|---|---|
| `gen` | bodies of functions without defer: up to three statements out of call, store, return, goto, label, block, if, switch, with one more level of nesting for if; bodies of functions with defer: one exception statement with or without finally clause, its protected code with branches, gotos and returns | blocks are well formed and mean what the tree means; cached returns are emitted once; the walk ends |
| `linemap` | two files, the lines 1 and 16384, the columns 127 and 300, up to four locations | every `Location` keeps its meaning; the implementation refines the table |
| `eightbytes` | nine scalars, all structs of one to three fields out of 15 kinds and of four out of 5, of at most 16 bytes; arrays within eight bytes or with one or two elements in the first eight | no assertion fails, the contents are passed, the classes are the ABI's |
| `calls` | some 1,600 signatures: every list of up to two parameters of ten kinds, with no result, one in registers or one in memory; six lists that use up registers followed by two parameters of any kind; other results; builtin functions; one local or temporary | oracle, callee and call site agree |
| `types` | nine frontends that each ask for up to five types, with struct, array, function and pointer placeholders completed in every order, alone and under names and behind functions; cycles of one and two pointer types; walks over every type | what was made of placeholders is complete, the table can be searched, sizes stay, walks end |
| `builders` | thirteen frontends that each ask for up to seven expressions and statements in every order, over variables of six types, with the kinds a frontend reuses shared | expressions stand for what was asked, trees are unshared, effects happen once, with operands computed before |
| `compile` | five plans: a module's symbols (up to five names, six objects, two functions being built); the walk of a body (three nodes, two blocks); export data (two chunks) without and with errors and all ways out of the driver, with two versions of the sources; an installation that may fail at every step | symbols, scopes, files and the installed compiler stay consistent |

**Properties made of parts.** `CfgWellFormed` is `ModuleWellFormed`, `NothingAfterTerminator` and
`InvokesUnwindToPads`; `ArgumentsArrive` includes the spills of the callee (`ParametersSpilled`) and
`AttributesAgree` the attributes and names of its arguments (`ArgumentsAgree`); `TypesOK` includes
`OwnedOnce` and `ConversionsInverse`; `HashFresh` is `EntriesDiffer /\ EntriesFresh`;
`TemporariesReplaced` includes `WalkEnds` of `DebugTypes`, that the walk over a cyclic type does not enter
what it is in the middle of, and meets any other type again only after it has entered something new,
of which there are finitely many.

**Why these bounds are enough.**

* *GenBlocks*: no routine looks deeper than its own children and the state it shares (current block,
  pad stack, finally block, cached return, labels); the trees have every pair of routines inside each
  other and behind each other, dead code, and branches into and out of protected code. Traces are
  compared up to `MaxEvents` events (9), which covers the arms of every branch and a second round of
  the loops a label makes; `MaxSteps` (60 moves) only cuts loops that make no event.
* *Linemap*: the third location already may lie behind two closed segments; the encoded numbers have
  between one and three bytes, and the theorems cover the rest.
* *EightBytes*: an object in registers has at most 16 bytes; four fields are enough for two in each
  region with padding between or in front.
* *Calls*: a parameter only sees its predecessors through `availInt`, `availSSE` and `argCount`; the
  prefixes leave, with and without a result in memory, none to two integer registers and none or one
  SSE register before two arbitrary parameters.
* *Types*: completing a placeholder looks one reference up at a time and then goes on from there. Five
  types give a chain of three references, two references from one type, two types with a common
  referrer, and a resolved type that becomes equal to one that was there before.
* *Builders*: a builder looks at its operands and at most at theirs (pending address levels,
  composites). Seven requests are enough for an expression that is used twice under different
  parents, the statement that uses it, and an assignment between.
* *Compile*: a name is requested at most once more than it can be answered differently (declared,
  defined, asked for again); two blocks nest or follow each other; two versions of the sources are
  what an old object file needs to be stale.

Other limits are switches that leave out inputs on which the code is known to do something else (see
below): `RetryAfterFailure`, `EmptyAfterError` and `DeadInits` are `FALSE` in `compile`, and no name
is in both `Declared` and `Defined`.

**Liveness and fairness.** The walk of `GenBlocks` has a liveness property (`WalkEnds`), under
`WF_vars(Next)`: it is one sequential computation in one thread, which goes on as long as it has
something to do. Everything else is driven by a client that may stop at any time, so no fairness is
assumed of it.

Each property of a passing run has a mutant of the code (an operator next to the one it replaces)
that violates it under the same configuration.

### What the code does not do

Five runs end in a violation: each states what a comment or an assertion says, and shows that the
code does something else. The instances above leave these inputs out.

| Run | Finding |
|---|---|
| `gen_fallthrough` | a switch case without a goto at its end that ends in another block than it started in leaves that block without a terminator (`genSwitch` looks only at the block the case began with) |
| `eightbytes_long_array` | for an array with three or more elements below byte 8, and one at 8 or behind, the second region is never opened: `explodeArray` compares the sum of the offsets with 8 |
| `types_redirect` | a placeholder redirected to a pointer type that is a placeholder itself becomes a pointer to that type when it is completed, one level too many |
| `builders_branches` | an expression used in both branches of an if statement: the clone in the second branch computes with the load that is done in the first |
| `compile_dead_init` | a variable whose initialising store is dead code: the store is deleted with its block, and the variable's declaration is put behind the deleted instruction |

More such inputs were met while reading and modelling. They have no run of their own; the instances
leave them out.

*Control flow and functions.* If the body of an exception statement both returns and completes, the
completed path runs into the cached return too (`go-llvm.cpp:3489`): there is one finally block and the
cached return follows it for everyone. Functions the frontend makes have nothing behind the
statement. An if or switch statement behind a goto or return is translated with a null block
(`go-llvm.cpp:3218`). Arrays whose elements are structs or arrays of floating point trip the
assertion of `go-llvm-cabi-oracle.cpp:333`. A function with by-address parameters only, without
locals and with an empty body trips the assertion of `fixupProlog` (`go-llvm-bfunction.cpp:394`), which
runs before the implicit return is added; if the body is a single return, the initializer of such a
parameter is that terminator, which `insertVarDecl` asserts it is not (`FailsOnlyWithoutAllocas`
admits these two cases and no others). `struct { a int32; _ [0]int64; b int32 }`, whose second field
is aligned by an empty member, is passed as `{i32, i32}`, in which the second piece is at offset 4.
`genCallMarshallArgs` extends with zeros where the attribute says sign extension (`go-llvm.cpp:1957`).

*Types.* A function type with two placeholders is completed with the first of them
(`go-llvm-typemanager.cpp:830`). Cycles of three pointer types get conversions that are not inverse to
each other. A cycle through array types is never completed. A function type completed too early may close
a cycle without a struct, which `buildDIType` enters no temporary for. A struct that leads back to itself and
was named after it was complete is entered for ever: `buildStructDIType` (`go-llvm-typemanager.cpp:1557-1573`)
is asked for the struct and caches the clone. The frontend names such a struct through a placeholder, and
clones only predeclared types; `NamedApart` leaves the others out. `buildDIType` lists a receiver twice
(`go-llvm-typemanager.cpp:1688`). Struct types are not interned.

*Builders.* The address of a field of a global spills a value of the wrong type; a variable expression
of an aggregate keeps the context a first use reset in place when it is used a second time; the same tracked expression twice in one composite trips
`go-llvm-tree-integrity.cpp:71`; clones keep the operands of the original (the run
`builders_branches` is one case); a dereferenced struct pointer that is not pending loads the whole
aggregate; `x = S{x.b, x.a}` stores `x.b` before `x.a` is read; returning a module-scope constant from
two functions appends the second return to the same node; a composite over the variable expression
of a global is taken for a constant address.

*Around the backend.* A frontend that got the error object and sets a body that does not mention it
(`EmptyAfterError`) trips the assertion of `function_set_body` about `curFcn_`. A name that is first
declared and then defined gets two symbols, as `MakeMultipleDeclarations` of the unit tests expects.
An installation that is tried again after it failed between its two moves (`gollvm-wrap.py:171-172`)
moves the wrapper over the compiler: with `RetryAfterFailure` the invariant `CompilerKept` is violated,
and `CompilerIsKept` is proved without it. `uint64Type` and `int64Type` have 32 bits
(`go-llvm-builtins.cpp:94-95`).

## 5. Theorems

All are checked by TLAPS for every value of the constants, from the assumptions named in the modules
and nothing else.

**GenBlocksProofs.** From `NodeAssumption` (the number of children of each kind of node, labels that
exist). `TypeOK` is inductive as it stands, because `TaskOK` says which blocks each activation record
remembers: without it nothing would be known of the blocks a routine resumes with. Blocks are never
removed, so a record stays well typed when routines above it add blocks (`Grown`). `ReturnsAreOwed`:
`CachedReturnIsOwed` relates `finallyBlock_` and `cachedReturn_` to the records on the stack, and is
inductive relative to `TypeOK`. Each action replaces the head of the stack by tasks in front of the
rest (`StackMoves`), so only actions of `genExcep` and `genReturn` can disturb it.

`WalkNeverAborts` is about trees that have a derivation by `StmtRules`; other trees do trip the
assertions of `genExcep`, `genReturn` and `genDefer`, or the null block of `genIf` and `genSwitch`. The
rules are like those of a type system: a node is *visited* in a mode (under a landing pad, with returns
going to a finally clause, with a return that may be kept) from a point where control is or is not, and
leads to another; straight-line code is *calm*. `FlowInv` extends that to the activation records: a
`Point` describes the state between two tasks, `Fits` says to which point each task leads, and the stack
leads along a path of points that starts where the state is (`Leads`). An action takes the head task
off and puts tasks before the rest that lead to the same point (`FlowPop`, `FlowPush`).

`CfgStaysWellFormed` adds that the body can be laid out: each label is defined once and gotos go to
defined labels, the expression of a return has the only ret instruction, at its end, and an exception
statement is the last thing its function does. It also needs that no case of a switch falls through to
the next (`SwitchesClose`): `genSwitch` would leave the last block of such a case without a terminator,
the finding of `gen_fallthrough`. `CfgWellFormed` is far from inductive, because in the middle of a walk many
blocks are open, and each must have somebody who will close it. `CodeInv` is about what the blocks hold:
invokes unwind to landing pads, pads on the stack are empty, no two labels share a block, and no task
branches to a pad or to the block of a label. `ClaimInv` is about who closes the open ones. A `Claim`
is what the rest of the stack has still to do: the blocks it will close, the landing pads it will take
off, the labels it will define, and whether the current block is open. `Claims` says that the state has
exactly that (each open block is held by the claim or belongs to a label yet to be defined, never
both), and `Settles` which claim each task leads to, so that at the end nothing is left open. `Leads`
is the same notion of a path along the stack as in `FlowInv`.

**LinemapProofs.** From `NumberAssumption` (lines and columns have 32 bits) and `BoundAssumption`.
The inductive invariant is `TypeOK /\ SegmentsCover /\ PairsStored`. `LocationsKeepMeaning` alone
is not inductive: it says nothing of the open segment, which will be closed later with the file that
is current then. `SegmentsCover` says that closed segments are sorted and disjoint, that the open one
lies behind them, and that each handle is in a segment of its file; this is what `lower_bound`
needs (`SegmentFound`, `SegmentOpen`). `PairsStored` with `UlebDecodes`, the round trip of ULEB128
for every number of 32 bits, gives the line and the column. `LinemapImplementsTable` maps each
action to one of the table.

**CABIOracleProofs.** From `TypeAssumption` and `SignatureAssumption`. The invariant `OracleInv`
adds to the types that the entries of `infov_` made so far *divide* the slots below `argCount_`:
each entry starts where those before it end (`Divided`), and when the second loop has emitted some
entries the signature has exactly their slots (`Filled`). `Cursor` describes a walk that adds up
slots entry by entry; `CursorAtOffset` says that such a walk is at an entry's offset when it comes to
it, which makes the two loops of `analyze` agree. `PiecesTogether` is about registers: `EntryShapes`
says what an entry of each kind has in it, and `RegistersCounted` that what `ABIState` has left is
what the slots below `argCount_` leave of LLVM's six and eight registers. The slots that take a
register are a set, so this is a sum of cardinalities over the entries.

**FunctionProofs.** The callee, from the same assumptions. `OracleUndisturbed` shows that `Spec` of
`Bfunction` implements `OracleSpec`, so that what is known of the oracle is known here. `abiSetup` is
one more walk of the kind of `Cursor` (`Constructed`). `PrologMade` says what each stage of the
prolog has put into the entry block: behind the allocas, the stores of the parameters that were
gone through, each from the argument that `SpilledIn` names. Which argument a piece comes from is
`SpillsUpTo`, a recursion over the parameters, so these proofs rest on induction over an interval.

**CallsProofs.** A call site is a third such walk: `WalksAgree` applies `Cursor` to the types of the
values pushed, and to the signature. `CallInv` is the invariant of the callee with the form of the
first two entries (result and chain) and what has been pushed after each argument (`Marshalling`).
The call may be built at any moment of the callee's construction, so `CallsArrive`, `AttributesMatch`
and `ResultsArrive` combine two invariants, one of each side, about the same entries;
`CalleeUndisturbed` is the implementation of the callee's `Spec` by `ProgramSpec`.

**Recursion.** Lemmas the others rest on. TLAPS cannot use induction theorems whose parameter is a
predicate; here a property is the set of numbers that have it (`NatSetInduction`,
`IntervalInduction`), and a function defined by recursion over an interval, or from each number to a
smaller one, is one that `Follows` or `Inherits` its equations (`IntervalRecursion`,
`TreeRecursion`, `NatRecursion`). `CollectsAll` and `CollectsWithin` are about a function that collects a
finite set level by level: after as many levels as there are elements it has all that can be reached.

**TypesProofs.** `TableStaysFresh` is about `TypeSpec`, the requests of any set of frontends of
any size; `DebugSpec` of the run only adds walks that leave the variables of `Types` unchanged. That the
entries of the table are hashed by what they contain now is not inductive: completing a placeholder
changes types that refer to it, and the table would be stale if one of them were in it and not taken
out. `TableInv` says which types these can be: placeholders have a name (they are never in the table),
entries and duplicates have none and are no placeholders, and entries and duplicates exclude each
other. A duplicate is complete, so that it is never visited again and `reinstallAnonType` cannot
enter it a second time. Each visit either leaves the contents of a type alone or takes it out and puts
it back, or makes it a duplicate, under the hash it has then.

`ConcreteTypesAgree` says that a type which is no placeholder has the LLVM type its parts call for.
Read as it stands this could be broken by any step that changes a part, so `HeapInv` adds why no part
changes: a complete type waits for none of its parts (`Complete`), and a type that is not waited for
keeps its LLVM type. It also says what makes a visit come at the right time. A struct that is a
placeholder has no body yet, and a function that is one is referenced by every type it waits for
(`Waiting`); the active calls of `postProcessResolvedPlaceholder` are for complete types and visit
types that refer to them (`CallsFit`). `Grows` is what every step keeps: types are only added, and at
most one is changed, which had no parts, or stops being a placeholder, or gets its LLVM type. The two
exceptions in `ConcreteAgree` are what the code does: a named placeholder that is redirected to a
pointer type takes that type's LLVM type (`Redirected`), and a function type that waits for several
placeholders is completed with the first of them, as are its clones (`CompletedEarly`).

`TypesStayOK` follows from `TableInv` and `HeapInv` but for the conversions of cyclic types, for which
`LoopInv` says what is on `circularPointerLoop_` until the cycle is closed and that a marker is used for
one cycle. It assumes that no cycle has more than two pointer types: `setPlaceholderPointerType`
enters a load conversion to the last type that was collected and an address conversion from the
second one, and in a longer cycle these are two different types. The frontends of the runs ask for
cycles of one and two.

`NoTypeForgotten` is about the end of `postProcessResolvedPlaceholder`: whatever is still incomplete
has a reason. `ForgetInv` says what the reason is while placeholders are being completed: a type that
waits is noted in `placeholderRefs` with every type it waits for (`RefsFull`), and it is either unset
itself, or noted with one that is unresolved, or still to be visited by an active call (`Pending`).
When no call is active only the first two are left, so that there is a way along the references that
does not end before it comes to an unset placeholder, or goes round. That a round leads through an
array needs the second part of `ForgetInv`: among any pointer and function types is one whose parts
are none of them, since such types are only made of types that are there already, and the frontend
closes a cycle of pointers with a marker (`circularPointerType`): it never sets a placeholder to a
pointer type that leads back to it through pointers and functions (the guard of `MaySetPointer`). The types that `AwaitedBy` collects are the smallest set that is closed under
waiting (`WithinIsClosed`, `CollectsAll` of `Recursion`); a smallest one of these sets, along the
references, is a cycle.

`WalksEndClean` is about `DebugSpec`, where `buildDIType` or `typToStringRec` goes through the types
once all are complete. The walks end because of what the types are, which `GraphInv` says. Among any
complete types that are no structs is one whose parts are none of them (`RoundInv`), so that a round
leads through a struct or a marker; it is inductive because a type is made, or a placeholder set, before
anything complete is made of it. A function type that is completed with the first of several placeholders
breaks this, and is excepted. A type that is no placeholder is older than what is made of it (`AgeInv`), a
clone has the parts of the type it was named after (`NameInv`), and the marker of a closed cycle has
a conversion (`LoadInv`). `WalkInv` says of the stack that each call is for a part of the type before it
(`WalkFits`), that what is entered is in the cache, and that every temporary belongs to a call that
is active. The cache does not help where `buildStructDIType` goes on with the clone of a struct: it is
asked for the struct, and filled under the clone. That the clone is not entered again below itself
follows from `AgeInv`, as the parts of a clone get older with each call (`CloneIsNotBelow`).

**CompileProofs.** The theorems are about the whole composition, so steps of each part are shown to
leave the others alone. From `NameAssumption` (the frontend mangles names, so that one is used for
one thing), `TableAssumption` (an entry of the table of builtins is found by its name alone) and
`TagAssumption` (the names of `namegen` are used for nothing else).

`CompilerIsKept` goes step by step through the installer: `InstallInv` says for
each step what is in `bin/gccgo` and `bin/gccgo.real`, and needs `~RetryAfterFailure`: a second try
after a failure between the two moves would start from a state the first step does not expect.
`OutputIsClean` and `ObjectStaysCurrent` have one invariant, `FilesInv`, over phases of `main` and of
`perform`. `OutputOnlyWhenClean` alone is not inductive: `DriverInv` adds what the output is while it
is being written and which error counts the later phases can have, and `WrapperInv` which version of
the sources the assembler file and the object in progress were made from.

`SymbolsAreKept` and `ObjectsFreedOnce` share `ModuleInv`. `SymbolsInv`: no two symbols have one name,
and a name nobody asked for is not taken, so that LLVM renames nothing the frontend named.
`TablesInv`: what a table holds under a name has the symbol of that name. `FreedInv` counts the places
that delete an object, table by table; each request adds an object to the lists of one of them
only, or finds one that is there.

`ScopesFollowBlocks` has the invariant `DebugInv`: blocks form a tree whose path to the
innermost one is `open` (`BlocksInv`); scopes are made for different blocks and the one of a block is
its own, or that of the block around it (`ScopesInv`, with `ScopeOf` as a recursion over the tree);
the stack of scopes is the list of those of the open blocks (`StackInv`), which makes a push and its
pop match. `PlacesInv` and `ProgressInv` are about variables: where their initialiser is, and which
are declared while `endFunction` goes through them. `BackendNeverAborts` adds who `curFcn_` is
(`CurrentInv`) and has two hypotheses, which are the two known ways to trip an assertion: a body that
the frontend sets for the error function (`EmptyAfterError`) and an initialiser that was deleted as
dead code (`DeadInits`, the finding of `compile_dead_init`). Both are false in `compile`.

`ExportIsReadBack` is the round trip of the export data through escapes, assembler text and object
file. `ExportInv` says that the text of the module is that of the directives of the chunks that were
written (`IsTextOf`), and that the output file and the object are made of this text.
An escape is three octal digits, so the assembler reads the same byte back whatever text
follows it; the rest is induction over the bytes of a chunk and over the chunks, along the recursive
functions that escape, assemble and read (`NatRecursion`). That the reader finds the section in a
member of an archive rests on the 60 bytes of a member's header, which the frontend counts and LLVM
does not.

**Model-checked only.** `WalkEnds` of `GenBlocks` is liveness. `MeaningPreserved` and everything about
`EightBytes`, `Nodes`, `Builders` and `Emission` rest on recursive operators over trees, types and
terms, and so does `SizesStay` of `TypeSizes`. Of `Types`, `EntriesDiffer` is checked only: that no two entries of
the table are equal, where equality goes through all parts down to the leaves, and completing one placeholder
changes many entries one after the other.

## 6. Not modelled

* The choice of LLVM instructions and what operators compute: `binary_expression`, conversions between
  numbers, constants of strings, floating point and complex numbers. The unit tests compare the
  resulting IR, and no state depends on it. (Signed integers are converted to and from floating point
  with the unsigned instructions.)
* Formatting: names of types, dumps of trees and blocks, `to_string` and the statistics of the line
  map, diagnostics' wording.
* Search paths, the details of options, the choice of passes in the driver, and the flags the wrapper
  translates: input and output in a fixed order, without state that is kept.
* `go-sha1.cpp` (a library algorithm), `go-llvm-genblocks.cpp` (no code in it), `namegen.h` beyond the
  counters that keep symbols apart, the destruction of trees beyond the archive, `TestUtils` and the
  other support code of the unit tests.
