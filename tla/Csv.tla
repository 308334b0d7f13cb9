-------------------------------- MODULE Csv --------------------------------
(***************************************************************************)
(* The lines of a CSV file, as csv_writer.py writes them and csv_reader.py  *)
(* reads them.  A line is a sequence of cells; a cell is a string without   *)
(* comma.  A PDU has metadata, a function from keys to printed values, and  *)
(* data, a vector of numbers or NIL.                                        *)
(*                                                                         *)
(* Two of the nine metadata types stand for all: string, whose printed form *)
(* is itself, and bool, which is printed True or False by its own function  *)
(* and #t or #f when it is taken for a string.                              *)
(***************************************************************************)
EXTENDS Integers, Sequences, FiniteSets, SequencesExt

Numbers == {"1", "2"}
NIL     == <<"NIL">>       \* cdr that is no uniform vector
WRONG   == <<"WRONG">>     \* uniform vector of another type than the block's

\* The header cells of the format "k1(string),k2(bool)" and of the keys alone.
FormatCells == <<"k1(string)", "k2(bool)">>
FormatKeys  == <<[key |-> "k1", type |-> "string"], [key |-> "k2", type |-> "bool"]>>
KeyOf(cell) == CASE cell = "k1(string)" -> FormatKeys[1]
                 [] cell = "k2(bool)"   -> FormatKeys[2]
                 [] OTHER               -> [key |-> cell, type |-> "string"]

\* str(mapping(value)), or pmt.write_string of a value that is no symbol
Printed(type, value) ==
  IF type = "string" /\ value = "True" THEN "#t"
  ELSE IF type = "string" /\ value = "False" THEN "#f" ELSE value

\* print_metadata: a cell for every key of the header, empty where the PDU has none
MetadataCells(header, meta) ==
  [i \in 1 .. Len(header) |->
     IF header[i].key \in DOMAIN meta THEN Printed(header[i].type, meta[header[i].key]) ELSE ""]

\* bool(x): every string but the empty one is true
Converted(type, cell) ==
  IF type = "bool" THEN (IF cell = "" THEN "False" ELSE "True") ELSE cell

\* line.rstrip().rstrip(',').split(','): empty cells at the end are gone
Stripped(line) ==
  LET kept == {i \in 1 .. Len(line) : \E j \in i .. Len(line) : line[j] # ""}
  IN  IF kept = {} THEN <<"">> ELSE SubSeq(line, 1, Cardinality(kept))

\* The line of a file that readline() returns, "" at its end.
LineAt(lines, n) == IF n <= Len(lines) THEN lines[n] ELSE <<"">>

\* load_header: one entry for every column; a column without a name is skipped, and
\* so is one that key_list, if given, does not ask for
LoadHeader(line, key_list) ==
  [i \in 1 .. Len(line) |->
     LET k == KeyOf(line[i])
     IN  IF key_list = {} \/ k.key \in key_list THEN k ELSE [k EXCEPT !.key = ""]]

\* parse_line: a named column whose cell is missing is logged and left out, and data
\* that does not convert is NIL
ParseLine(header, line) ==
  LET values == Stripped(line)
      named  == {i \in 1 .. Len(header) : header[i].key # "" /\ i <= Len(values)}
      rest   == SubSeq(values, Len(header) + 1, Len(values))
      at(k)  == CHOOSE i \in named : header[i].key = k /\ \A j \in named : header[j].key = k => j <= i
  IN  [meta |-> [k \in {header[i].key : i \in named} |->
                   Converted(header[at(k)].type, values[at(k)])],
       data |-> IF rest # <<>> /\ ToSet(rest) \subseteq Numbers THEN rest ELSE NIL]
=============================================================================
