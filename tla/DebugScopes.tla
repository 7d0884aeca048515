------------------------------ MODULE DebugScopes ------------------------------
(***************************************************************************)
(* DIBuildHelper of go-llvm-dibuildhelper.cpp, driven by GenBlocks::walk:   *)
(* while the body of a function is walked, a stack of scopes follows its    *)
(* blocks, instructions get locations in the scope on top, and local        *)
(* variables are declared behind their initializing instructions.  The body *)
(* is whatever the walk meets next.                                         *)
(***************************************************************************)
EXTENDS Symbols

CONSTANTS
  MaxNodes,   \* bound on the nodes of a body
  MaxBlocks,  \* bound on its blocks
  DeadInits   \* whether a variable may be initialized behind a return or goto

Module == 1  \* the scopes on the bottom of the stack
Subprogram == 2

VARIABLES
  walking,          \* the function whose body is or was walked last, or None
  topblock,         \* topblock_: whether the body is one block, which is then block 1
  open,             \* the blocks the walk is in, the innermost last
  blocks,           \* the blocks it has entered: their variables and enclosing block
  scopes,           \* the scopes that exist: their parent, and the block each was made for
  diScopeStack,     \* diScopeStack_
  reachable,        \* curblock is not null
  nodes,            \* how many nodes were walked
  placed,           \* where initializers of variables are: "block" or "freed"
  located,          \* locations of instructions: their scope, and the block they are of
  declarations,     \* dbg.declare: the variable and its scope, in the order of insertion
  knownLocations,   \* known_locations_ > 0
  described         \* the function got its subprogram

bodyVars == <<topblock, open, blocks, scopes, diScopeStack, reachable, nodes, placed, located,
              declarations, knownLocations, described>>
debugVars == <<walking, bodyVars>>

NewBody ==
  /\ open' = <<>> /\ blocks' = <<>>
  /\ scopes' = <<[parent |-> None, block |-> None], [parent |-> Module, block |-> None]>>
  /\ diScopeStack' = <<Module, Subprogram>>
  /\ reachable' = TRUE
  /\ nodes' = 0
  /\ placed' = <<>>
  /\ located' = {} /\ declarations' = <<>>
  /\ knownLocations' = FALSE
  /\ described' = FALSE

DebugInit ==
  /\ walking = None
  /\ topblock = FALSE
  /\ open = <<>> /\ blocks = <<>> /\ scopes = <<>> /\ diScopeStack = <<>>
  /\ reachable = TRUE /\ nodes = 0 /\ placed = <<>>
  /\ located = {} /\ declarations = <<>>
  /\ knownLocations = FALSE /\ described = FALSE

\* GenBlocks and its DIBuildHelper are gone.
NoWalk ==
  /\ walking' = None
  /\ topblock' = FALSE
  /\ open' = <<>> /\ blocks' = <<>> /\ scopes' = <<>> /\ diScopeStack' = <<>>
  /\ reachable' = TRUE /\ nodes' = 0 /\ placed' = <<>>
  /\ located' = {} /\ declarations' = <<>>
  /\ knownLocations' = FALSE /\ described' = FALSE

\* localVariables_ of a function.
LocalVars(f) == {o \in DOMAIN objects : objects[o].fn = f /\ objects[o].kind \in LocalKinds}
IsTemporary(v) == objects[v].kind = "temp"

Innermost == IF open = <<>> THEN None ELSE open[Len(open)]
CurrentScope == diScopeStack[Len(diScopeStack)]
Listed == UNION {blocks[b].vars : b \in DOMAIN blocks}

\* interestingBlock: the block has a variable that is no temporary.
InterestingBlock(b) == \E v \in blocks'[b].vars : ~IsTemporary(v)

IsTopBlock(b) == topblock /\ b = 1

Walking == walking # None /\ diScopeStack # <<Module>>

\* function_set_body, the walk: GenBlocks makes a DIBuildHelper unless there were errors.
\* beginFunction pushes the scope of the function on that of the module.
BeginWalk(f) ==
  /\ ~Walking
  /\ SetBody(f)
  /\ IF f = ErrorFunction \/ errorCount
     THEN UNCHANGED debugVars
     ELSE /\ walking' = f
          /\ topblock' \in BOOLEAN
          /\ NewBody

Walks == Walking /\ ~assertFailed
InBody == Walks /\ (topblock => open # <<>>)
Walked == nodes' = nodes + 1 /\ nodes < MaxNodes

\* beginLexicalBlock: a scope in the current one, unless the block needs none.
BeginLexicalBlock ==
  /\ Walks /\ Len(blocks) < MaxBlocks
  /\ topblock => (open # <<>> \/ blocks = <<>>)
  /\ \E vars \in SUBSET (LocalVars(walking) \ Listed) :
       /\ \A v \in vars : v \notin DOMAIN placed
       /\ blocks' = Append(blocks, [vars |-> vars, parent |-> Innermost])
  /\ LET b == Len(blocks) + 1 IN
     /\ open' = Append(open, b)
     /\ IF InterestingBlock(b) /\ ~IsTopBlock(b)
        THEN /\ scopes' = Append(scopes, [parent |-> CurrentScope, block |-> b])
             /\ diScopeStack' = Append(diScopeStack, Len(scopes) + 1)
        ELSE UNCHANGED <<scopes, diScopeStack>>
  /\ UNCHANGED <<walking, topblock, reachable, nodes, placed, located, declarations,
                 knownLocations, described, symbolVars>>

\* walkExpr and processExprInst: an instruction, with or without a known location.
\* Behind a return or goto it is deleted.
Instruction ==
  /\ InBody /\ Walked
  /\ \E known \in BOOLEAN :
       IF reachable /\ known
       THEN /\ located' = located \cup {[scope |-> CurrentScope, block |-> Innermost]}
            /\ knownLocations' = TRUE
       ELSE UNCHANGED <<located, knownLocations>>
  /\ UNCHANGED <<walking, topblock, open, blocks, scopes, diScopeStack, reachable, placed,
                 declarations, described, symbolVars>>

\* walkExpr, the store that initializes a variable, in the block that lists it.
InitializerInst ==
  /\ InBody /\ Walked
  /\ reachable \/ DeadInits
  /\ \E v \in initialized \ DOMAIN placed :
       /\ objects[v].fn = walking
       /\ v \in Listed => v \in UNION {blocks[open[i]].vars : i \in DOMAIN open}
       /\ placed' = With(placed, v, IF reachable THEN "block" ELSE "freed")
  /\ UNCHANGED <<walking, topblock, open, blocks, scopes, diScopeStack, reachable, located,
                 declarations, knownLocations, described, symbolVars>>

\* genReturn, a goto: no block any more.
Jump ==
  /\ InBody /\ Walked /\ reachable
  /\ reachable' = FALSE
  /\ UNCHANGED <<walking, topblock, open, blocks, scopes, diScopeStack, placed, located,
                 declarations, knownLocations, described, symbolVars>>

\* A label, or the end of an if or switch: a block again.
LabelDefinition ==
  /\ InBody /\ Walked /\ ~reachable
  /\ reachable' = TRUE
  /\ UNCHANGED <<walking, topblock, open, blocks, scopes, diScopeStack, placed, located,
                 declarations, knownLocations, described, symbolVars>>

IsDeclared(v) == \E i \in DOMAIN declarations : declarations[i].var = v

\* Mutant of ToDeclare: declared_ is not consulted.
ToDeclareAll(vars) == {v \in vars : ~IsTemporary(v)}

\* processVarsInBLock: no temporaries, and nothing that was declared before.
ToDeclare(vars) == {v \in vars : ~IsTemporary(v) /\ ~IsDeclared(v)}

\* Variables in the order they were created, which is that of localVariables_.
InOrder(vars) ==
  CHOOSE s \in [1..Cardinality(vars) -> vars] :
    /\ \A i, j \in DOMAIN s : i < j => s[i] < s[j]
    /\ \A v \in vars : \E i \in DOMAIN s : s[i] = v

\* insertVarDecl asserts that the initializing instruction is in a block, and that a
\* variable without one has no size.  An instruction that was deleted with dead code is
\* still read: what memory holds then decides.
Declare(vars, scope) ==
  LET todo == ToDeclare(vars)
      dangling == \E v \in todo : v \in DOMAIN placed /\ placed[v] = "freed"
      missing == \E v \in todo : v \notin DOMAIN placed /\ objects[v].kind # "empty"
      order == InOrder(todo)
  IN /\ declarations' = declarations
                        \o [i \in DOMAIN order |-> [var |-> order[i], scope |-> scope]]
     /\ assertFailed' \in IF missing THEN {TRUE}
                          ELSE IF dangling THEN BOOLEAN ELSE {assertFailed}

onlyAssertFails ==
  UNCHANGED <<moduleVars, curFcn, initialized, bodies, building>>

\* What the frontend sees to: the variables of a block are initialized in it.
Complete(vars) == \A v \in vars : v \in initialized => v \in DOMAIN placed

\* endLexicalBlock pops the scope beginLexicalBlock pushed.
ScopeClosed(b) == InterestingBlock(b) /\ ~IsTopBlock(b)

\* endLexicalBlock: the variables of the block are declared in its scope, those of the
\* top block in that of the function.
EndLexicalBlock ==
  /\ Walks /\ open # <<>>
  /\ LET b == Innermost IN
     /\ Complete(blocks[b].vars)
     /\ blocks' = blocks
     /\ open' = SubSeq(open, 1, Len(open) - 1)
     /\ diScopeStack' = IF ScopeClosed(b) THEN SubSeq(diScopeStack, 1, Len(diScopeStack) - 1)
                        ELSE diScopeStack
     /\ IF InterestingBlock(b)
        THEN Declare(LocalVars(walking) \cap blocks[b].vars, CurrentScope)
        ELSE UNCHANGED <<declarations, assertFailed>>
  /\ onlyAssertFails
  /\ UNCHANGED <<walking, topblock, scopes, reachable, nodes, placed, located, knownLocations,
                 described>>

\* endFunction: the scope on top must be the function's.  Variables no block has listed
\* are declared in it, and the function is described if it has a location.
EndFunction ==
  /\ Walks /\ open = <<>> /\ (topblock => blocks # <<>>)
  /\ Complete({v \in DOMAIN objects : objects[v].fn = walking})
  /\ IF CurrentScope # Subprogram
     THEN assertFailed' = TRUE /\ UNCHANGED declarations
     ELSE Declare(LocalVars(walking), Subprogram)
  /\ described' = knownLocations
  /\ diScopeStack' = SubSeq(diScopeStack, 1, Len(diScopeStack) - 1)
  /\ onlyAssertFails
  /\ UNCHANGED <<walking, topblock, open, blocks, scopes, reachable, nodes, placed, located,
                 knownLocations>>

WalkStep ==
  \/ BeginLexicalBlock \/ Instruction \/ InitializerInst \/ Jump \/ LabelDefinition
  \/ EndLexicalBlock \/ EndFunction

-----------------------------------------------------------------------------
(* Properties.                                                              *)

\* The innermost scope a block is in, by the blocks alone: its own if it lists a
\* variable of the program, else that of the enclosing block, and the function's for the
\* top block.
ScopeOf[b \in 0..Len(blocks)] ==
  IF b = None \/ IsTopBlock(b) THEN Subprogram
  ELSE IF \E v \in blocks[b].vars : ~IsTemporary(v)
       THEN CHOOSE s \in DOMAIN scopes : scopes[s].block = b
       ELSE ScopeOf[blocks[b].parent]

BlockOf(v) == IF \E b \in DOMAIN blocks : v \in blocks[b].vars
              THEN CHOOSE b \in DOMAIN blocks : v \in blocks[b].vars ELSE None

\* Debug information follows the blocks of the program, whatever blocks it has that need
\* no scope: locations, scopes and variables are in the scope of the innermost block
\* around them that has one; no variable is declared twice, though a block and the
\* function both list it; and when the function ends, every variable of the program is
\* declared.
DeclaredInScope ==
  /\ \A l \in located : l.scope = ScopeOf[l.block]
  /\ \A s \in 3..Len(scopes) : scopes[s].parent = ScopeOf[blocks[scopes[s].block].parent]
  /\ \A i \in DOMAIN declarations :
       declarations[i].scope = ScopeOf[BlockOf(declarations[i].var)]
  /\ \A i, j \in DOMAIN declarations : declarations[i].var = declarations[j].var => i = j
  /\ walking # None /\ ~Walking /\ ~assertFailed =>
       \A v \in DOMAIN objects :
         objects[v].fn = walking /\ objects[v].kind \in {"local", "empty"} => IsDeclared(v)

\* endFunction says it waits "so as to insure that the initializer instructions for the
\* variables have been assigned to a basic block": no declaration goes by an instruction
\* that was deleted.
InitializersInBlocks ==
  \A i \in DOMAIN declarations :
    LET v == declarations[i].var IN v \in DOMAIN placed => placed[v] = "block"
=============================================================================
