------------------------------- MODULE ExportData -------------------------------
(***************************************************************************)
(* Export data: the frontend writes it in chunks, the backend turns each    *)
(* into an assembler directive of the module (go-llvm.cpp), the assembler   *)
(* reads the directives, and a later compilation gets the contents of the   *)
(* section back, from an object file or a member of an archive              *)
(* (go-backend.cpp).  A byte is of one of the classes that are told apart.  *)
(***************************************************************************)
EXTENDS Integers, Sequences, FiniteSets, TLC

\* Bytes, and the characters of assembler text.  "digit" is one between 0 and 7.
Bytes == {"plain", "digit", "backslash", "nul", "newline", "quote"}

VARIABLES
  exportStarted,    \* exportDataStarted_
  exportFinalized,  \* exportDataFinalized_
  asmText,          \* the assembler text of the module: directives
  written           \* the chunks the frontend wrote

exportVars == <<exportStarted, exportFinalized, asmText, written>>

ExportInit ==
  /\ exportStarted = FALSE /\ exportFinalized = FALSE
  /\ asmText = <<>>
  /\ written = <<>>

Section(name) == [op |-> "section", text |-> name]
Ascii(text) == [op |-> "ascii", text |-> text]

\* Mutant of Rewritten: the shortest escape for a null byte.
RewrittenShort(byte) ==
  CASE byte = "backslash" -> <<"\\", "\\">>
    [] byte = "nul"       -> <<"\\", "0">>
    [] byte = "newline"   -> <<"\\", "n">>
    [] byte = "quote"     -> <<"\\", "q">>
    [] byte = "digit"     -> <<"7">>
    [] OTHER              -> <<"p">>

\* The characters a byte is written as.  "q" stands for a quote, "p" for all characters
\* without a meaning, "7" for all digits of octal numbers but 0.
Rewritten(byte) ==
  CASE byte = "backslash" -> <<"\\", "\\">>
    [] byte = "nul"       -> <<"\\", "0", "0", "0">>
    [] byte = "newline"   -> <<"\\", "n">>
    [] byte = "quote"     -> <<"\\", "q">>
    [] byte = "digit"     -> <<"7">>
    [] OTHER              -> <<"p">>

\* postProcessExportDataChunk
Processed(chunk) ==
  LET upTo[i \in 0..Len(chunk)] ==
        IF i = 0 THEN <<>> ELSE upTo[i - 1] \o Rewritten(chunk[i])
  IN upTo[Len(chunk)]

\* What write_export_data appends to the module: the section once, and the chunk.
Directives(chunk) ==
  (IF exportStarted THEN <<>> ELSE <<Section(".go_export")>>) \o <<Ascii(Processed(chunk))>>

\* write_export_data.  It asserts that the data was not finalized.
WriteExportData(chunk) ==
  /\ ~exportFinalized
  /\ exportStarted' = TRUE
  /\ asmText' = asmText \o Directives(chunk)
  /\ written' = Append(written, chunk)
  /\ UNCHANGED exportFinalized

\* finalizeExportData: what follows is code.
FinalizeExportData ==
  /\ ~exportFinalized
  /\ exportFinalized' = TRUE
  /\ asmText' = Append(asmText, Section(".text"))
  /\ UNCHANGED <<exportStarted, written>>

-----------------------------------------------------------------------------
(* The assembler and the reader.                                            *)

Octal == {"0", "7"}

\* The bytes a text denotes, from a character on.  An escape takes up to three octal
\* digits; an unescaped quote ends the directive, so that the rest is lost.
Read(text) ==
  LET at(i) == IF i <= Len(text) THEN text[i] ELSE ""
      digits(i) == IF at(i) \notin Octal THEN 0
                   ELSE IF at(i + 1) \notin Octal THEN 1
                   ELSE IF at(i + 2) \notin Octal THEN 2 ELSE 3
      number(i, n) == IF \A j \in i..(i + n - 1) : at(j) = "0" THEN "nul" ELSE "other"
      from[i \in 1..(Len(text) + 1)] ==
        CASE at(i) = "p" -> <<"plain">> \o from[i + 1]
          [] at(i) \in Octal -> <<"digit">> \o from[i + 1]
          [] at(i) = "\\" /\ digits(i + 1) > 0 ->
               <<number(i + 1, digits(i + 1))>> \o from[i + 1 + digits(i + 1)]
          [] at(i) = "\\" /\ at(i + 1) = "\\" -> <<"backslash">> \o from[i + 2]
          [] at(i) = "\\" /\ at(i + 1) = "n" -> <<"newline">> \o from[i + 2]
          [] at(i) = "\\" /\ at(i + 1) = "q" -> <<"quote">> \o from[i + 2]
          [] OTHER -> <<>>
  IN from[1]

Concatenated(chunks) ==
  LET upTo[i \in 0..Len(chunks)] == IF i = 0 THEN <<>> ELSE upTo[i - 1] \o chunks[i]
  IN upTo[Len(chunks)]

NoSection == [there |-> FALSE, bytes |-> <<>>]

\* The export section of the object file made of a text: the data of every directive
\* for which it is the current section.
Assembled(text) ==
  LET current[i \in 0..Len(text)] ==
        IF i = 0 THEN ".text"
        ELSE IF text[i].op = "section" THEN text[i].text ELSE current[i - 1]
      bytes[i \in 0..Len(text)] ==
        IF i = 0 THEN <<>>
        ELSE IF text[i].op = "ascii" /\ current[i] = ".go_export"
             THEN bytes[i - 1] \o Read(text[i].text) ELSE bytes[i - 1]
  IN [there |-> \E i \in DOMAIN text : text[i] = Section(".go_export"),
      bytes |-> bytes[Len(text)]]

HeaderSize == 60  \* ARCHIVE_MEMBER_HEADER_SIZE
Magic == 8        \* what an archive begins with

\* A file: an object, or an archive of objects of some sizes.
ObjectFile(section) == [kind |-> "object", members |-> <<section>>, sizes |-> <<0>>]
Archive(members, sizes) == [kind |-> "archive", members |-> members, sizes |-> sizes]
OtherFile == [kind |-> "other", members |-> <<>>, sizes |-> <<>>]

\* getChildOffset: where the header of a member starts.
ChildOffset(file) ==
  LET start[i \in DOMAIN file.members] ==
        IF i = 1 THEN Magic ELSE start[i - 1] + HeaderSize + file.sizes[i - 1]
  IN start

\* What the frontend knows of a member: where its contents start.
MemberOffset(file, i) == ChildOffset(file)[i] + HeaderSize

\* The member the offset stands for: its header is before it.
Selected(file, offset) ==
  {i \in DOMAIN file.members : ChildOffset(file)[i] = offset - HeaderSize}

\* go_read_export_data: the contents of the export section; nothing, and no error, if
\* the file has none or is of another kind.
GoReadExportData(file, offset) ==
  LET found == CASE file.kind = "object"  -> {1}
                 [] file.kind = "archive" -> Selected(file, offset)
                 [] OTHER                 -> {}
  IN IF found = {} THEN NoSection ELSE file.members[CHOOSE i \in found : TRUE]
=============================================================================
