------------------------------- MODULE Linemap -------------------------------
(***************************************************************************)
(* Llvm_linemap: the places in the source the frontend asks locations for.  *)
(* A line and a column are ULEB128 encoded at the end of a byte array, and  *)
(* the offset of the pair is the handle in a Location.  The file is not     *)
(* stored with the pair: a table of segments has the file of each range of  *)
(* handles, and the last range is only entered when the next file starts.   *)
(***************************************************************************)
EXTENDS Integers, Sequences

CONSTANTS File,     \* names of source files
          Line, Column,
          MaxBytes  \* bound on encoded: a handle is a 32 bit offset

Weight == <<1, 128, 16384, 2097152, 268435456>>  \* 128^0 .. 128^4

\* Lines and columns are 32 bit unsigned: five groups of seven bits hold them.
ASSUME NumberAssumption ==
  \A v \in Line \cup Column : v \in Nat /\ v \div Weight[5] < 16
ASSUME BoundAssumption == MaxBytes \in Nat

NoHandle == -1  \* 0xffffffff
NoLine == -1    \* 0xffffffff

Flc(fidx, line, column) == [fidx |-> fidx, line |-> line, column |-> column]
Segment(lo, hi, fidx) == [lo |-> lo, hi |-> hi, fidx |-> fidx]
Place(f, l, c) == [file |-> f, line |-> l, column |-> c]

UnknownFile == ""
BuiltinFile == "<built-in>"

VARIABLES
  files,        \* files_, indexed from 1
  fmap,         \* fmap_: index of the files that have been started
  segments,     \* segments_
  encoded,      \* encoded_locations_
  currentFidx,  \* current_fidx_
  currentLine,  \* current_line_
  firstHandle,  \* firsthandle_
  lastHandle,   \* lasthandle_
  inFile,       \* in_file_
  asked         \* what the holders of Locations asked for, by handle

vars == <<files, fmap, segments, encoded, currentFidx, currentLine, firstHandle,
          lastHandle, inFile, asked>>

-----------------------------------------------------------------------------
(* ULEB128: groups of seven bits, lowest first, all but the last marked.    *)

UlebLen(v) ==
  CHOOSE n \in 1..5 : /\ v \div Weight[n] < 128
                      /\ \A m \in 1..(n - 1) : v \div Weight[m] >= 128

\* llvm::encodeULEB128
Uleb(v) ==
  [i \in 1..UlebLen(v) |->
     ((v \div Weight[i]) % 128) + (IF i < UlebLen(v) THEN 128 ELSE 0)]

\* Bytes of the number at offset p of a byte array.
UlebLenAt(bs, p) ==
  CHOOSE n \in 1..5 : /\ bs[p + n] < 128
                      /\ \A m \in 1..(n - 1) : bs[p + m] >= 128

\* llvm::decodeULEB128
UlebAt(bs, p) ==
  LET n == UlebLenAt(bs, p)
      Group(i) == IF i <= n THEN (bs[p + i] % 128) * Weight[i] ELSE 0
  IN  Group(1) + Group(2) + Group(3) + Group(4) + Group(5)

-----------------------------------------------------------------------------
Encode(line, column) == Uleb(line) \o Uleb(column)

\* Mutant of FirstSegment: upper_bound, the segment behind the last one that
\* starts no later than the handle is taken to be the one that ends after it.
FirstSegmentPast(h) ==
  CHOOSE i \in 1..(Len(segments) + 1) :
    /\ i <= Len(segments) => segments[i].hi > h
    /\ \A j \in 1..(i - 1) : segments[j].hi <= h

\* std::lower_bound by hi: the first segment that does not end before handle h;
\* past the end of the table if there is none.
FirstSegment(h) ==
  CHOOSE i \in 1..(Len(segments) + 1) :
    /\ i <= Len(segments) => segments[i].hi >= h
    /\ \A j \in 1..(i - 1) : segments[j].hi < h

FileOf(h) ==
  LET i == FirstSegment(h)
  IN  IF i > Len(segments) THEN currentFidx ELSE segments[i].fidx

\* decode_location, and location_file, location_line and location_column.
DecodeLocation(h) ==
  Flc(FileOf(h), UlebAt(encoded, h), UlebAt(encoded, h + UlebLenAt(encoded, h)))

LocationPlace(h) ==
  LET flc == DecodeLocation(h) IN Place(files[flc.fidx], flc.line, flc.column)

UnknownHandle == 0
BuiltinHandle == Len(Encode(0, 0))

Init ==
  /\ files = <<UnknownFile, BuiltinFile>>
  /\ fmap = [f \in {} |-> 0]
  /\ encoded = Encode(0, 0) \o Encode(1, 1)
  /\ segments = <<Segment(UnknownHandle, UnknownHandle, 1),
                  Segment(BuiltinHandle, BuiltinHandle, 2)>>
  /\ currentFidx = 1
  /\ currentLine = NoLine
  /\ firstHandle = NoHandle
  /\ lastHandle = NoHandle
  /\ inFile = FALSE
  /\ asked = [h \in {UnknownHandle, BuiltinHandle} |->
                IF h = UnknownHandle THEN Place(UnknownFile, 0, 0)
                                     ELSE Place(BuiltinFile, 1, 1)]

\* start_file: index of a file in the file table, old or new.
FileIndex(name) ==
  IF name \in DOMAIN fmap THEN fmap[name] ELSE Len(files) + 1

\* Mutant of ClosedSegments: the segment is entered with its first handle only.
ClosedSegmentsShort ==
  IF firstHandle = NoHandle THEN segments
  ELSE Append(segments, Segment(firstHandle, firstHandle, currentFidx))

\* start_file: close out the open segment, if it has a location.
ClosedSegments ==
  IF firstHandle = NoHandle THEN segments
  ELSE Append(segments, Segment(firstHandle, lastHandle, currentFidx))

StartFile(name, lineBegin) ==
  /\ segments' = ClosedSegments
  /\ firstHandle' = NoHandle
  /\ lastHandle' = NoHandle
  /\ \/ name \in DOMAIN fmap /\ UNCHANGED <<files, fmap>>
     \/ /\ name \notin DOMAIN fmap
        /\ files' = Append(files, name)
        /\ fmap' = [f \in DOMAIN fmap \cup {name} |->
                      IF f = name THEN FileIndex(name) ELSE fmap[f]]
  /\ currentFidx' = FileIndex(name)
  /\ currentLine' = lineBegin
  /\ inFile' = TRUE
  /\ UNCHANGED <<encoded, asked>>

StartLine(lineno) ==
  /\ currentLine' = lineno
  /\ UNCHANGED <<files, fmap, segments, encoded, currentFidx, firstHandle,
                 lastHandle, inFile, asked>>

\* Mutant of NewHandle: the handle is the last byte there is.
NewHandleEarly == Len(encoded) - 1

\* add_encoded_location: the offset of the pair that is about to be appended.
NewHandle == Len(encoded)

\* get_location asserts that a file is being read.
GetLocation(column) ==
  /\ inFile
  /\ Len(encoded) < MaxBytes
  /\ encoded' = encoded \o Encode(currentLine, column)
  /\ firstHandle' = IF firstHandle = NoHandle THEN NewHandle ELSE firstHandle
  /\ lastHandle' = NewHandle
  /\ asked' = [h \in DOMAIN asked \cup {NewHandle} |->
                 IF h = NewHandle
                 THEN Place(files[currentFidx], currentLine, column) ELSE asked[h]]
  /\ UNCHANGED <<files, fmap, segments, currentFidx, currentLine, inFile>>

Stop ==
  /\ inFile' = FALSE
  /\ UNCHANGED <<files, fmap, segments, encoded, currentFidx, currentLine,
                 firstHandle, lastHandle, asked>>

Next ==
  \/ \E f \in File, l \in Line : StartFile(f, l)
  \/ \E l \in Line : StartLine(l)
  \/ \E c \in Column : GetLocation(c)
  \/ Stop

Spec == Init /\ [][Next]_vars

-----------------------------------------------------------------------------
(* Properties.                                                              *)

Handles == 0..(Len(encoded) - 1)
FileIds == 1..Len(files)

\* The state is well typed: every stored file index is one of the file table, and
\* every handle is an offset into the byte array.
TypeOK ==
  /\ files \in Seq(File \cup {UnknownFile, BuiltinFile})
  /\ DOMAIN fmap \subseteq File
  /\ \A f \in DOMAIN fmap : fmap[f] \in FileIds /\ files[fmap[f]] = f
  /\ segments \in Seq([lo : Handles, hi : Handles, fidx : FileIds])
  /\ encoded \in Seq(0..255)
  /\ currentFidx \in FileIds
  /\ currentLine \in Line \cup {NoLine}
  /\ firstHandle \in Handles \cup {NoHandle}
  /\ lastHandle \in Handles \cup {NoHandle}
  /\ inFile \in BOOLEAN
  /\ inFile => currentLine \in Line
  /\ DOMAIN asked \subseteq Handles
  /\ \A h \in DOMAIN asked :
       asked[h] \in [file : File \cup {UnknownFile, BuiltinFile},
                    line : Line \cup {0, 1}, column : Column \cup {0, 1}]

\* What lower_bound needs, and what makes its answer right: the closed segments are
\* in increasing order and do not overlap, the open one lies behind them, and every
\* handle given out is inside a segment of its file.
SegmentsCover ==
  /\ \A i, j \in DOMAIN segments : i < j => segments[i].hi < segments[j].lo
  /\ \A i \in DOMAIN segments : segments[i].lo <= segments[i].hi
  /\ (firstHandle = NoHandle) <=> (lastHandle = NoHandle)
  /\ firstHandle # NoHandle =>
       /\ firstHandle <= lastHandle
       /\ \A i \in DOMAIN segments : segments[i].hi < firstHandle
  /\ \A h \in DOMAIN asked :
       \/ /\ firstHandle # NoHandle /\ firstHandle <= h /\ h <= lastHandle
          /\ files[currentFidx] = asked[h].file
       \/ \E i \in DOMAIN segments :
             /\ segments[i].lo <= h /\ h <= segments[i].hi
             /\ files[segments[i].fidx] = asked[h].file

\* The pair of a handle is stored in full at the handle, as it was encoded.
PairsStored ==
  \A h \in DOMAIN asked :
     LET pair == Encode(asked[h].line, asked[h].column) IN
     /\ h + Len(pair) <= Len(encoded)
     /\ \A i \in 1..Len(pair) : encoded[h + i] = pair[i]

\* Both halves of what decode_location relies on.
HandlesResolve == SegmentsCover /\ PairsStored

\* A Location means for ever what it meant when get_location returned it: whatever
\* files and lines are started afterwards, its handle decodes to the file, line and
\* column it was asked for.
LocationsKeepMeaning == \A h \in DOMAIN asked : LocationPlace(h) = asked[h]

\* The line map implements the table of locations: the place of a handle is what
\* decode_location answers for it.
Table == INSTANCE LocationTable WITH
  reading <- inFile,
  file <- files[currentFidx],
  line <- currentLine,
  loc <- [h \in DOMAIN asked |-> LocationPlace(h)]

ImplementsTable == Table!TableSpec
=============================================================================
