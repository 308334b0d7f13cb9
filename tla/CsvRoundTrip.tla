---------------------------- MODULE CsvRoundTrip ----------------------------
(***************************************************************************)
(* A file that csv_writer wrote is played back by csv_reader, as the tests  *)
(* of the writer do (qa_csv_writer.py, check_file), while an application    *)
(* switches the reader to another file and back.                            *)
(***************************************************************************)
EXTENDS CsvWriter, CsvReader

CONSTANT OtherLines      \* the other file, with a header if the first has one

ASSUME OtherAssumption == OtherLines \in Seq(Seq(STRING) \ {<<>>})

vars == <<writerVars, readerVars>>

Init == WriterInit /\ ReaderInit

\* The reader is built once the writer has stopped.
Write == rfid.name = "none" /\ WriterNext /\ UNCHANGED readerVars
Build == fid = "closed" /\ Construct(file, OtherLines, mode # "data") /\ UNCHANGED writerVars
Play  == ReaderNext /\ UNCHANGED writerVars

Next == Write \/ Build \/ Play

\* Timers fire, threads run on, and so does a stop() once it is called.
Fairness == /\ WF_vars(Fire /\ UNCHANGED writerVars)
            /\ WF_vars(GetLine /\ UNCHANGED writerVars)
            /\ WF_vars((StopClose \/ SetFnameStep) /\ UNCHANGED writerVars)

Spec == Init /\ [][Next]_vars /\ Fairness

(***************************************************************************)
(* Properties.                                                              *)
(***************************************************************************)
TypeOK ==
  /\ mode \in {"data", "format", "find"} /\ precise \in BOOLEAN /\ find \in BOOLEAN
  /\ fid \in {"none", "open", "closed"} /\ raised \in BOOLEAN /\ cut \in BOOLEAN
  /\ \A i \in DOMAIN file : file[i] # <<>>
  /\ starts \in 0 .. MaxStarts /\ Len(sent) <= MaxPDUs
  /\ rfid.name \in FileName \union {"none"} /\ rfid.pos \in Nat \ {0}
  /\ timer \in {"none", "armed", "spent"} /\ strays \in Nat /\ waiting \in Nat
  /\ lock = (IF get_line.pc = "idle" THEN "free" ELSE "line")
  /\ running \in {"no", "yes", "stopping"} /\ setting.pc \in {"idle", "open", "clear", "read"}

Header == IF has_header THEN 1 ELSE 0

\* What a reader owes for a PDU that was written: the values of those of its keys
\* that are in the header and, if there is one, in key_list, as strings when the
\* header was taken from the first PDU, and its data.
OwedKeys(pdu) ==
  IF mode = "data" THEN {}
  ELSE {k \in DOMAIN pdu.meta : /\ \E i \in DOMAIN header : header[i].key = k
                                /\ key_list = {} \/ k \in key_list}
OwedValue(pdu, k) == IF mode = "find" THEN Printed("string", pdu.meta[k]) ELSE pdu.meta[k]
Given(pdu, sentPdu) ==
  /\ \A k \in OwedKeys(sentPdu) : k \in DOMAIN pdu.meta /\ pdu.meta[k] = OwedValue(sentPdu, k)
  /\ pdu.data = IF sentPdu.data = <<>> THEN NIL ELSE sentPdu.data

\* A bool that is false reads back as true.
NoFalse(pdu) == mode = "format" => \A k \in DOMAIN pdu.meta : pdu.meta[k] # "False"

\* A PDU that a line can hold: its vector converts, no value is empty, in a format
\* each value has the type of its key, and without one no key is empty or typed.
Fits(pdu) ==
  /\ pdu.data # WRONG
  /\ \A k \in DOMAIN pdu.meta : pdu.meta[k] # ""
  /\ mode = "format" => \A k \in DOMAIN pdu.meta \intersect {"k1", "k2"} :
                          pdu.meta[k] \in {"True", "False"} <=> k = "k2"
  /\ mode = "find" => DOMAIN pdu.meta \intersect {"", "k1(string)", "k2(bool)"} = {}

\* A file whose lines are those of the PDUs: no precision, PDUs that fit and, where
\* the header comes from the first PDU, keys in it and one run of the flowgraph.
Sound == /\ ~ precise /\ \A i \in DOMAIN sent : Fits(sent[i])
         /\ mode = "find" => starts = 1 /\ (sent # <<>> => DOMAIN sent[1].meta # {})

\* What was written is what is read: every published PDU has the values and the data
\* of the one that was written in its line, also where a PDU lacks keys, as long as
\* no change of the file fell into the reading of a line.
RoundTrip ==
  Sound /\ ~ mixed =>
    \A i \in DOMAIN published :
      LET p == published[i] IN
        p.name = "main" /\ NoFalse(sent[p.n - Header]) => Given(p.pdu, sent[p.n - Header])

\* The documented type "bool (True/False)" (csv_reader.py:40) reads back as it was
\* written, also when it is false.
\* It does not hold (README, 5.2).
BoolRoundTrip ==
  Sound /\ ~ mixed /\ mode = "format" =>
    \A i \in DOMAIN published :
      LET p == published[i]
          s == sent[p.n - Header]
      IN  p.name = "main" /\ "k2" \in DOMAIN s.meta => p.pdu.meta["k2"] = s.meta["k2"]

\* Lines come out in the order of the file, none left out or read twice; only the
\* end of the file leads back to the first, and only a change of the file elsewhere.
RowsInOrder ==
  ~ mixed => \A i \in DOMAIN published :
    LET p == published[i]
        q == published[i - 1]
    IN  \/ p.n = Header + 1 /\ (i > 1 /\ sets = 0 => q.n = Len(lines[q.name]))
        \/ i > 1 /\ p.name = q.name /\ p.n = q.n + 1

\* Once stop() has returned nothing more is published, although a get_line that was
\* under way has armed another timer, unless set_fname opens a file again.
QuietAfterStop == [][running = "no" /\ sets = 0 => published' = published]_vars

\* That timer fires on a closed file and is the last one.
TimersEnd ==
  (running = "no" /\ ~ rfid.open) ~>
     (\/ timer # "armed" /\ strays = 0 /\ waiting = 0
      \/ running # "no" \/ setting.pc # "idle" \/ rfid.open)

\* A reader that is not stopped or switched publishes every line.
EveryLineRead ==
  (running = "yes" /\ rfid.open) ~>
     (Len(published) >= Len(lines["main"]) - Header \/ running # "yes" \/ sets > 0 \/ runs > 1)

\* A chain of timers runs as long as it should and no longer: to the last line while the
\* reader runs, silent once stop() has returned, and ended on the closed file.
TimersServe == EveryLineRead /\ QuietAfterStop /\ TimersEnd

\* The lines are played in the order of the file, with the types kept.
PlaybackInv == TypeOK /\ RowsInOrder
=============================================================================
