---------------------------- MODULE LocationTable ----------------------------
(***************************************************************************)
(* What the line map promises to the frontend, with no encoding, segments   *)
(* or handle arithmetic: a table from handles to places in the source.  A   *)
(* handle, once given out, keeps its meaning for ever, and every request    *)
(* gets a handle of its own.                                                *)
(***************************************************************************)
EXTENDS Integers

CONSTANTS File, Line, Column

Place(f, l, c) == [file |-> f, line |-> l, column |-> c]

UnknownFile == ""
BuiltinFile == "<built-in>"

VARIABLES
  reading,  \* whether a file is being read
  file,     \* the file started last
  line,     \* the current line
  loc       \* the places of the handles given out

tableVars == <<reading, file, line, loc>>

TableInit ==
  /\ reading = FALSE
  /\ file = UnknownFile
  /\ line = -1
  \* The unknown and the predeclared location exist from the start.
  /\ \E u, b \in DOMAIN loc :
       /\ u # b
       /\ loc = [h \in {u, b} |-> IF h = u THEN Place(UnknownFile, 0, 0)
                                  ELSE Place(BuiltinFile, 1, 1)]

BeginFile(f, l) ==
  /\ reading' = TRUE /\ file' = f /\ line' = l
  /\ UNCHANGED loc

BeginLine(l) ==
  /\ line' = l
  /\ UNCHANGED <<reading, file, loc>>

Locate(c) ==
  /\ reading
  /\ \E h \in DOMAIN loc' \ DOMAIN loc :
       loc' = [x \in DOMAIN loc \cup {h} |->
                 IF x = h THEN Place(file, line, c) ELSE loc[x]]
  /\ UNCHANGED <<reading, file, line>>

EndInput ==
  /\ reading' = FALSE
  /\ UNCHANGED <<file, line, loc>>

TableNext ==
  \/ \E f \in File, l \in Line : BeginFile(f, l)
  \/ \E l \in Line : BeginLine(l)
  \/ \E c \in Column : Locate(c)
  \/ EndInput

TableSpec == TableInit /\ [][TableNext]_tableVars
=============================================================================
