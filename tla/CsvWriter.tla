----------------------------- MODULE CsvWriter -----------------------------
(***************************************************************************)
(* csv_writer.py: one line of text for every PDU.  The handler, start() and *)
(* stop() run one after the other in the thread of the block.               *)
(***************************************************************************)
EXTENDS Csv

CONSTANTS Modes,      \* parameters the block is built with, see mode and precise
          PDUs,       \* PDUs the block may receive
          MaxPDUs,    \* how many of them
          MaxStarts   \* runs of the flowgraph

ASSUME WriterAssumption ==
  /\ Modes \subseteq {"data", "format", "find"} \X BOOLEAN
  /\ MaxPDUs \in Nat /\ MaxStarts \in Nat
  /\ \A pdu \in PDUs : /\ pdu.data \in Seq(Numbers) \union {NIL, WRONG}
                       /\ IsFiniteSet(DOMAIN pdu.meta) /\ DOMAIN pdu.meta \subseteq STRING
                       /\ \A k \in DOMAIN pdu.meta : pdu.meta[k] \in STRING

VARIABLES
  mode,     \* parameters: "data" (no metadata), "format" or "find" (add_metadata with
            \* and without metadata_format)
  precise,  \* precision is given and the data type is a float
  fid,      \* "none", "open" or "closed"
  find,     \* find_metadata
  header,
  raised,   \* the handler raised, and the thread of the block ends with stop()
  file,     \* the lines of the file
  cut,      \* the last of them has no newline yet
  sent,     \* PDUs handled since the file was opened     (history)
  starts    \* calls of start()
writerVars == <<mode, precise, fid, find, header, raised, file, cut, sent, starts>>

WriterInit ==
  /\ \E m \in Modes : mode = m[1] /\ precise = m[2]
  /\ fid = "none" /\ raised = FALSE /\ file = <<>> /\ cut = FALSE /\ sent = <<>> /\ starts = 0
  /\ find = (mode = "find")
  /\ header = IF mode = "format" THEN FormatKeys ELSE <<>>

\* A line has a cell even where nothing is written, and a cell written after one
\* without a newline runs into it.  Mutant: a line of nothing has no cell.
BareLine(cells) == cells
Line(cells) == IF cells = <<>> THEN <<"">> ELSE cells
Glued(a, b) == IF a = "" THEN b ELSE IF b = "" THEN a ELSE "garbled"
Written(lines, joined, cells) ==
  IF ~ joined THEN Append(lines, Line(cells))
  ELSE LET last == lines[Len(lines)] IN
       [lines EXCEPT ![Len(lines)] =
          Front(last) \o <<Glued(Last(last), Line(cells)[1])>> \o Tail(Line(cells))]

\* The header start() writes: the format, which is empty when the header was taken
\* from a PDU of an earlier run.
HeaderLine == IF mode = "format" THEN FormatCells ELSE <<"">>

WStart ==
  /\ fid # "open" /\ starts < MaxStarts
  /\ fid' = "open" /\ starts' = starts + 1 /\ UNCHANGED raised
  /\ file' = IF mode # "data" /\ ~ find THEN <<HeaderLine>> ELSE <<>>
  /\ cut' = FALSE /\ sent' = <<>>
  /\ UNCHANGED <<mode, precise, find, header>>

\* The header of a PDU's keys, which all count as strings.
KeysOf(pdu)      == SetToSeq(DOMAIN pdu.meta)
HeaderFrom(pdu)  == [i \in DOMAIN KeysOf(pdu) |-> [key |-> KeysOf(pdu)[i], type |-> "string"]]

\* A PDU's cells: the metadata and a comma, then the vector if it is one.
\* Mutant: no cell for a key the PDU lacks.
Vector(pdu) == IF pdu.data \in {NIL, WRONG} THEN <<>> ELSE pdu.data
PresentCells(h, pdu) ==
  MetadataCells(SelectSeq(h, LAMBDA k : k.key \in DOMAIN pdu.meta), pdu.meta) \o Line(Vector(pdu))
CellsOf(h, pdu) == MetadataCells(h, pdu.meta) \o Line(Vector(pdu))

\* Is the line of a PDU ended?  Not after a vector printed with a precision.
Ended(pdu) == pdu.data = NIL \/ ~ precise

HandlePDU ==
  /\ fid = "open" /\ ~ raised /\ Len(sent) < MaxPDUs
  /\ \E pdu \in PDUs :
       LET h     == IF find THEN HeaderFrom(pdu) ELSE header
           lines == IF find THEN Written(file, FALSE, KeysOf(pdu)) ELSE file
       IN  /\ find' = FALSE /\ header' = h
           /\ file' = Written(lines, cut, CellsOf(h, pdu))
           /\ cut' = (pdu.data = WRONG \/ ~ Ended(pdu))
           /\ raised' = (pdu.data = WRONG)        \* the vector does not convert
           /\ sent' = Append(sent, pdu)
  /\ UNCHANGED <<mode, precise, fid, starts>>

\* A message that is neither a dictionary nor a pair leaves car and cdr undefined.
HandleOther ==
  /\ fid = "open" /\ ~ raised
  /\ raised' = TRUE
  /\ UNCHANGED <<mode, precise, fid, find, header, file, cut, sent, starts>>

WStop ==
  /\ fid = "open"
  /\ fid' = "closed" /\ raised' = FALSE
  /\ UNCHANGED <<mode, precise, find, header, file, cut, sent, starts>>

WriterNext == WStart \/ HandlePDU \/ HandleOther \/ WStop
=============================================================================
