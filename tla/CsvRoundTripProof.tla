------------------------- MODULE CsvRoundTripProof -------------------------
(***************************************************************************)
(* Theorems about CsvRoundTrip: for any PDUs, any other file, any number of *)
(* runs and any interleaving of the timers' threads with start(), stop()    *)
(* and set_fname, lines are published in the order of the file, each is the *)
(* PDU that was written there, and none is published after stop().          *)
(***************************************************************************)
EXTENDS CsvRoundTrip, FiniteSetTheorems, SequenceTheorems, WellFoundedInduction, TLAPS

(***************************************************************************)
(* The inductive invariants.                                                *)
(***************************************************************************)
\* Strings; that the literals are among them the provers have to be told.
Text == STRING \union {"", "#t", "#f", "True", "False", "garbled", "1", "2",
                       "k1", "k2", "k1(string)", "k2(bool)"}

Lines  == Seq(Seq(Text) \ {<<>>})
Column == [key : Text, type : {"string", "bool"}]

WriterTypes ==
  /\ mode \in {"data", "format", "find"} /\ precise \in BOOLEAN /\ find \in BOOLEAN
  /\ fid \in {"none", "open", "closed"} /\ raised \in BOOLEAN /\ cut \in BOOLEAN
  /\ starts \in 0 .. MaxStarts /\ sent \in Seq(PDUs) /\ Len(sent) <= MaxPDUs
  /\ header \in Seq(Column) /\ file \in Lines /\ (cut => file # <<>>)

Row == [name : FileName, n : Nat \ {0},
        pdu : {ParseLine(h, l) : h \in Seq(Column), l \in Seq(Text)}]

\* A call of get_line, without a line and with one.
Bare == [pc : {"idle", "release"}, n : {0}]
Call == [pc : {"parse", "end", "load", "arm", "release"}, n : Nat \ {0}, name : FileName]

Place == [name : FileName \union {"none"}, pos : Nat \ {0}, open : BOOLEAN]

ReaderTypes ==
  /\ lines \in [FileName -> Lines] /\ has_header \in BOOLEAN
  /\ rfid \in Place
  /\ rheader \in Seq(Column)
  /\ timer \in {"none", "armed", "spent"} /\ strays \in Nat /\ waiting \in Nat
  /\ get_line \in Bare \union Call
  /\ get_line.pc = "parse" => get_line.n <= Len(lines[get_line.name])
  /\ lock = (IF get_line.pc = "idle" THEN "free" ELSE "line")
  /\ setting \in [name : FileName \union {"none"}, pc : {"idle", "open", "clear", "read"}]
  /\ setting.pc # "idle" => setting.name \in FileName
  /\ running \in {"no", "yes", "stopping"} /\ sets \in Nat /\ mixed \in BOOLEAN
  /\ rfid.name = "none" => /\ get_line.pc = "idle" /\ setting.pc = "idle" /\ ~ rfid.open
                           /\ published = <<>> /\ timer # "armed" /\ strays = 0 /\ waiting = 0
  /\ published \in Seq(Row)

TypeInv == WriterTypes /\ ReaderTypes

\* The header a file has once its first line is loaded.
HeaderOf(name) == IF has_header THEN LoadHeader(LineAt(lines[name], 1), key_list) ELSE <<>>

LastRow == published[Len(published)]

\* The first line of a file comes after the last of the one before.
Wrapped == published # <<>> /\ sets = 0 => LastRow.n = Len(lines[LastRow.name])

\* Line n is the one to follow those published.
Resumes(name, n) == \/ n = Header + 1 /\ Wrapped
                    \/ published # <<>> /\ LastRow.name = name /\ n = LastRow.n + 1

\* Where the reader stands in its file, as long as no change of it fell into a call.
Standing ==
  ~ mixed =>
    /\ setting.pc # "idle" => get_line.pc = "idle" /\ sets > 0
    /\ setting.pc \in {"clear", "read"} => rfid.pos = 1
    /\ setting.pc = "idle" /\ rfid.name # "none" => rheader = HeaderOf(rfid.name)
    /\ setting.pc = "idle" /\ rfid.name # "none" /\ get_line.pc \in {"idle", "arm", "release", "end"} =>
         Resumes(rfid.name, rfid.pos)
    /\ get_line.pc = "end" => rfid.pos > Len(lines[rfid.name])
    /\ get_line.pc = "parse" =>
         /\ get_line.name = rfid.name /\ rfid.pos = get_line.n + 1
         /\ get_line.n <= Len(lines[rfid.name]) /\ Resumes(rfid.name, get_line.n)
    /\ get_line.pc = "load" => rfid.pos = 1 /\ Wrapped

\* What has been published is lines of the files, read with their headers.
RowsRead ==
  ~ mixed => \A i \in DOMAIN published :
    LET p == published[i] IN
      /\ p.n \in Header + 1 .. Len(lines[p.name])
      /\ p.pdu = ParseLine(HeaderOf(p.name), lines[p.name][p.n])

OrderInv == TypeInv /\ Standing /\ RowsRead /\ RowsInOrder

\* A reader that is stopped, or not started, and whose file was not changed, has no
\* line in hand, and no timer that could find the file open.
QuietInv ==
  /\ setting.pc # "idle" => sets > 0
  /\ running = "no" /\ sets = 0 =>
       /\ get_line.pc \in {"idle", "release"}
       /\ rfid.open => get_line.pc = "idle" /\ timer # "armed" /\ strays = 0 /\ waiting = 0

\* The cells of the first line, where there is a header.
HeaderCells == IF mode = "format" THEN FormatCells ELSE KeysOf(sent[1])

\* The file holds the header and a line for every PDU.
FileInv ==
  /\ starts = 0 => fid = "none" /\ find = (mode = "find")
  /\ fid = "none" => file = <<>> /\ sent = <<>>
  /\ mode # "find" => ~ find /\ header = IF mode = "format" THEN FormatKeys ELSE <<>>
  /\ Sound =>
       /\ ~ cut
       /\ mode = "find" => find = (sent = <<>>) /\ (sent # <<>> => header = HeaderFrom(sent[1]))
       /\ fid # "none" =>
            LET top == IF mode = "data" \/ find THEN 0 ELSE 1
            IN  /\ Len(file) = top + Len(sent)
                /\ top = 1 => file[1] = HeaderCells
                /\ \A i \in DOMAIN sent : file[top + i] = CellsOf(header, sent[i])

\* The reader reads that file.
BuiltInv ==
  rfid.name # "none" => /\ fid = "closed" /\ lines["main"] = file
                        /\ has_header = (mode # "data")
(* The largest element of a set of offsets is one of them.                 *)
LEMMA MaxInSet ==
  ASSUME NEW n \in Nat, NEW S \in SUBSET (0 .. n), S # {}
  PROVE  Max(S) \in S /\ \A x \in S : x <= Max(S)
<1> DEFINE D == {n - x : x \in S}
           R == OpToRel(<, Nat)
<1>1. D \in SUBSET Nat /\ D # {}
  <2>1. \A x \in S : n - x \in Nat
    OBVIOUS
  <2>2. QED
    BY <2>1
<1>2. PICK d \in D : \A e \in D : ~(<<e, d>> \in R)
  <2> HIDE DEF D, R
  <2>1. IsWellFoundedOn(R, Nat)
    BY NatLessThanWellFounded DEF R
  <2>2. QED
    BY <1>1, <2>1, WFMin
<1>3. \A e \in D : ~(e < d)
  BY <1>1, <1>2 DEF OpToRel
<1>4. PICK m \in S : d = n - m
  OBVIOUS
<1>5. \A x \in S : m >= x
  <2> SUFFICES ASSUME NEW x \in S
               PROVE  m >= x
    OBVIOUS
  <2>1. ~(n - x < n - m)
    BY <1>3, <1>4
  <2>2. QED
    BY <2>1
<1> HIDE DEF D
<1>6. QED
  BY <1>4, <1>5 DEF Max

(* A set of places that with a place holds all before it is those up to its *)
(* cardinality.                                                             *)
LEMMA InitialSegment ==
  ASSUME NEW n \in Nat, NEW S \in SUBSET (1 .. n),
         \A i \in S, j \in 1 .. n : j <= i => j \in S
  PROVE  S = 1 .. Cardinality(S) /\ Cardinality(S) \in 0 .. n
<1>1. CASE S = {}
  <2>1. Cardinality(S) = 0
    BY <1>1, FS_EmptySet
  <2>2. 1 .. 0 = {}
    OBVIOUS
  <2> QED
    BY <2>1, <2>2, <1>1
<1>2. CASE S # {}
  <2>1. S \in SUBSET (0 .. n)
    OBVIOUS
  <2>2. PICK m \in S : \A x \in S : x <= m
    BY <2>1, <1>2, MaxInSet
  <2>3. m \in 1 .. n
    OBVIOUS
  <2>4. \A x : x \in S <=> x \in 1 .. m
    <3>1. \A x \in S : x \in 1 .. m
      BY <2>2, <2>3
    <3>2. \A x \in 1 .. m : x \in 1 .. n /\ x <= m
      BY <2>3
    <3>3. \A x \in 1 .. m : x \in S
      BY <2>2, <3>2
    <3> QED
      BY <3>1, <3>3
  <2>5. S = 1 .. m
    BY <2>4
  <2>6. Cardinality(1 .. m) = m
    BY <2>3, FS_Interval
  <2> QED
    BY <2>3, <2>5, <2>6
<1> QED
  BY <1>1, <1>2

(***************************************************************************)
(* Types.                                                                   *)
(***************************************************************************)
\* A set in any order is a sequence of its elements, each of them once.
LEMMA SetInOrder ==
  ASSUME NEW S, IsFiniteSet(S)
  PROVE  /\ SetToSeq(S) \in Seq(S) /\ Len(SetToSeq(S)) = Cardinality(S) /\ Cardinality(S) \in Nat
         /\ \A i, j \in 1 .. Cardinality(S) : SetToSeq(S)[i] = SetToSeq(S)[j] => i = j
         /\ \A x \in S : \E i \in 1 .. Cardinality(S) : SetToSeq(S)[i] = x
<1> DEFINE n == Cardinality(S)
           f == SetToSeq(S)
<1>1. n \in Nat /\ ExistsBijection(1 .. n, S)
  BY FS_CardinalityType
<1>2. \E g \in [1 .. n -> S] : IsInjective(g)
  BY <1>1 DEF ExistsBijection, Bijection, Injection
<1>3. f \in [1 .. n -> S] /\ IsInjective(f)
  BY <1>2 DEF SetToSeq
<1>4. f \in Injection(1 .. n, S)
  BY <1>3 DEF Injection
<1>5. IsFiniteSet(1 .. n) /\ Cardinality(1 .. n) = n
  BY <1>1, FS_Interval
<1> HIDE DEF f
<1>6. f \in Surjection(1 .. n, S)
  BY <1>4, <1>5, FS_Injection
<1>7. \A x \in S : \E i \in 1 .. n : f[i] = x
  BY <1>6 DEF Surjection
<1>8. f \in Seq(S) /\ Len(f) = n
  BY <1>1, <1>3
<1>9. \A i, j \in 1 .. n : f[i] = f[j] => i = j
  BY <1>3 DEF IsInjective
<1> QED
  BY <1>1, <1>7, <1>8, <1>9 DEF f

LEMMA Literals ==
  /\ STRING \subseteq Text /\ Numbers \subseteq Text /\ ToSet(FormatCells) \subseteq Text
  /\ "" \in Text /\ "#t" \in Text /\ "#f" \in Text /\ "garbled" \in Text
  /\ "True" \in Text /\ "False" \in Text /\ "k1" \in Text /\ "k2" \in Text
<1>1. ToSet(FormatCells) = {"k1(string)", "k2(bool)"}
  BY DEF ToSet, FormatCells
<1> QED
  BY <1>1 DEF Text, Numbers

LEMMA Single ==
  ASSUME NEW S, NEW x \in S
  PROVE  <<x>> \in Seq(S) /\ Len(<<x>>) = 1 /\ <<x>>[1] = x /\ <<x>> # <<>>
OBVIOUS

\* A cell for nothing.
LEMMA LineTyped ==
  ASSUME NEW cells \in Seq(Text)
  PROVE  Line(cells) \in Seq(Text) \ {<<>>}
BY Literals, Single DEF Line

\* The cells of a PDU are strings, and there is one.
LEMMA CellsTyped ==
  ASSUME NEW h \in Seq(Column), NEW pdu \in PDUs
  PROVE  /\ MetadataCells(h, pdu.meta) \in Seq(Text) /\ Len(MetadataCells(h, pdu.meta)) = Len(h)
         /\ Line(Vector(pdu)) \in Seq(Text) /\ Line(Vector(pdu)) # <<>>
         /\ CellsOf(h, pdu) \in Seq(Text) \ {<<>>}
<1>1. pdu.data \in Seq(Numbers) \union {NIL, WRONG} /\ \A k \in DOMAIN pdu.meta : pdu.meta[k] \in Text
  BY WriterAssumption, Literals
<1>2. MetadataCells(h, pdu.meta) \in Seq(Text) /\ Len(MetadataCells(h, pdu.meta)) = Len(h)
  <2>1. \A i \in 1 .. Len(h) : Printed(h[i].type, pdu.meta[h[i].key]) \in
                                 {"#t", "#f", pdu.meta[h[i].key]}
    BY DEF Printed
  <2>2. \A i \in 1 .. Len(h) :
          (IF h[i].key \in DOMAIN pdu.meta THEN Printed(h[i].type, pdu.meta[h[i].key]) ELSE "") \in Text
    BY <1>1, <2>1, Literals
  <2>3. Len(h) \in Nat
    OBVIOUS
  <2> DEFINE c(i) == IF h[i].key \in DOMAIN pdu.meta THEN Printed(h[i].type, pdu.meta[h[i].key]) ELSE ""
             m == [i \in 1 .. Len(h) |-> c(i)]
  <2>4. \A i \in 1 .. Len(h) : c(i) \in Text
    BY <2>2
  <2> HIDE DEF c
  <2>5. m \in Seq(Text) /\ Len(m) = Len(h)
    BY <2>3, <2>4
  <2>6. MetadataCells(h, pdu.meta) = m
    BY DEF MetadataCells, c
  <2> QED
    BY <2>5, <2>6
<1>3. Vector(pdu) \in Seq(Text)
  <2>1. Numbers \subseteq Text
    BY Literals
  <2>2. CASE pdu.data \in {NIL, WRONG}
    BY <2>2 DEF Vector
  <2>3. CASE pdu.data \in Seq(Numbers) /\ pdu.data \notin {NIL, WRONG}
    BY <2>1, <2>3, SeqMonotonic DEF Vector
  <2> QED
    BY <1>1, <2>2, <2>3
<1>4. Line(Vector(pdu)) \in Seq(Text) /\ Line(Vector(pdu)) # <<>>
  BY <1>3, LineTyped
<1>5. CellsOf(h, pdu) \in Seq(Text) /\ CellsOf(h, pdu) # <<>>
  BY <1>2, <1>4, ConcatProperties, ConcatSimplifications DEF CellsOf
<1> QED
  BY <1>2, <1>4, <1>5

\* A line written after the others, or at the end of the last one.
LEMMA WrittenTyped ==
  ASSUME NEW ls \in Lines, NEW joined \in BOOLEAN, NEW cells \in Seq(Text), joined => ls # <<>>
  PROVE  /\ Written(ls, joined, cells) \in Lines /\ Written(ls, joined, cells) # <<>>
         /\ ~ joined => Written(ls, joined, cells) = Append(ls, Line(cells))
<1> USE DEF Lines
<1>1. Line(cells) \in Seq(Text) \ {<<>>}
  BY LineTyped
<1>2. CASE ~ joined
  <2> DEFINE c == Line(cells)
  <2> HIDE DEF c
  <2>1. Append(ls, c) \in Lines /\ Append(ls, c) # <<>>
    BY <1>1 DEF c
  <2> QED
    BY <1>2, <2>1 DEF Written, c
<1>3. CASE joined
  <2> DEFINE last == ls[Len(ls)]
             c == Line(cells)
             w == Front(last) \o <<Glued(Last(last), c[1])>> \o Tail(c)
  <2>1. Len(ls) \in 1 .. Len(ls) /\ last \in Seq(Text) \ {<<>>}
    BY <1>3
  <2>2. Last(last) \in Text /\ c[1] \in Text
    BY <1>1, <2>1 DEF Last
  <2>3. <<Glued(Last(last), c[1])>> \in Seq(Text)
    <3>1. Glued(Last(last), c[1]) \in Text
      BY <2>2, Literals DEF Glued
    <3> QED
      BY <3>1, Single
  <2>4. Front(last) \in Seq(Text) /\ Tail(c) \in Seq(Text)
    BY <1>1, <2>1 DEF Front
  <2> HIDE DEF last, c
  <2>5. w \in Seq(Text) /\ w # <<>>
    <3> DEFINE g == <<Glued(Last(last), c[1])>>
    <3>1. g # <<>>
      OBVIOUS
    <3> HIDE DEF g
    <3>2. Front(last) \o g \in Seq(Text) /\ Front(last) \o g # <<>>
      BY <2>3, <2>4, <3>1, ConcatProperties, ConcatSimplifications DEF g
    <3> QED
      BY <2>4, <3>2, ConcatProperties, ConcatSimplifications DEF g
  <2> HIDE DEF w
  <2>6. Written(ls, joined, cells) = [ls EXCEPT ![Len(ls)] = w]
    BY <1>3 DEF Written, w, c, last
  <2> DEFINE e == [ls EXCEPT ![Len(ls)] = w]
  <2>7. e \in Seq(Seq(Text) \ {<<>>}) /\ Len(e) = Len(ls)
    BY <2>1, <2>5, ExceptSeq
  <2> HIDE DEF e
  <2>8. e # <<>>
    BY <2>1, <2>7, EmptySeq
  <2> QED
    BY <1>3, <2>6, <2>7, <2>8 DEF e
<1> QED
  BY <1>2, <1>3
\* The header taken from a PDU.
LEMMA KeysTyped ==
  ASSUME NEW pdu \in PDUs
  PROVE  /\ KeysOf(pdu) \in Seq(Text) /\ DOMAIN KeysOf(pdu) = 1 .. Len(KeysOf(pdu))
         /\ HeaderFrom(pdu) \in Seq(Column) /\ Len(HeaderFrom(pdu)) = Len(KeysOf(pdu))
         /\ \A i \in 1 .. Len(KeysOf(pdu)) :
              HeaderFrom(pdu)[i] = [key |-> KeysOf(pdu)[i], type |-> "string"]
<1> DEFINE ks == KeysOf(pdu)
<1>1. IsFiniteSet(DOMAIN pdu.meta) /\ DOMAIN pdu.meta \subseteq Text
  BY WriterAssumption, Literals
<1>2. ks \in Seq(DOMAIN pdu.meta)
  BY <1>1, SetInOrder DEF KeysOf
<1>3. ks \in Seq(Text)
  BY <1>1, <1>2, SeqMonotonic
<1> HIDE DEF ks
<1>4. DOMAIN ks = 1 .. Len(ks) /\ Len(ks) \in Nat
  BY <1>3
<1> DEFINE h == [i \in 1 .. Len(ks) |-> [key |-> ks[i], type |-> "string"]]
<1>5. \A i \in 1 .. Len(ks) : [key |-> ks[i], type |-> "string"] \in Column
  BY <1>3 DEF Column
<1>6. HeaderFrom(pdu) = h
  BY <1>4 DEF HeaderFrom, ks
<1>7. h \in Seq(Column) /\ Len(h) = Len(ks)
  BY <1>4, <1>5
<1> QED
  BY <1>3, <1>4, <1>6, <1>7 DEF ks

LEMMA FormatTyped ==
  FormatKeys \in Seq(Column) /\ FormatCells \in Seq(Text) /\ FormatCells # <<>>
<1>1. FormatCells \in Seq({"k1(string)", "k2(bool)"}) /\ FormatCells # <<>>
  BY DEF FormatCells
<1>2. {"k1(string)", "k2(bool)"} \subseteq Text
  BY DEF Text
<1>3. FormatCells \in Seq(Text)
  BY <1>1, <1>2, SeqMonotonic
<1>4. FormatKeys \in Seq({[key |-> "k1", type |-> "string"], [key |-> "k2", type |-> "bool"]})
  BY DEF FormatKeys
<1>5. {[key |-> "k1", type |-> "string"], [key |-> "k2", type |-> "bool"]} \subseteq Column
  <2>1. /\ [key |-> "k1", type |-> "string"] \in Column
        /\ [key |-> "k2", type |-> "bool"] \in Column
    BY Literals DEF Column
  <2> QED
    BY <2>1
<1>6. FormatKeys \in Seq(Column)
  BY <1>4, <1>5, SeqMonotonic
<1> QED
  BY <1>1, <1>3, <1>6

\* A header that was read.
LEMMA LoadTyped ==
  ASSUME NEW l \in Seq(Text), NEW kl
  PROVE  /\ LoadHeader(l, kl) \in Seq(Column) /\ Len(LoadHeader(l, kl)) = Len(l)
         /\ \A i \in 1 .. Len(l) : LoadHeader(l, kl)[i] =
              IF kl = {} \/ KeyOf(l[i]).key \in kl THEN KeyOf(l[i]) ELSE [key |-> "", type |-> KeyOf(l[i]).type]
<1>1. \A c \in Text : KeyOf(c) \in Column
  BY Literals DEF KeyOf, FormatKeys, Column
<1> DEFINE e(i) == IF kl = {} \/ KeyOf(l[i]).key \in kl THEN KeyOf(l[i]) ELSE [KeyOf(l[i]) EXCEPT !.key = ""]
           h == [i \in 1 .. Len(l) |-> e(i)]
<1>2. \A i \in 1 .. Len(l) :
        /\ e(i) \in Column
        /\ e(i) = IF kl = {} \/ KeyOf(l[i]).key \in kl THEN KeyOf(l[i]) ELSE [key |-> "", type |-> KeyOf(l[i]).type]
  <2> TAKE i \in 1 .. Len(l)
  <2>1. KeyOf(l[i]) \in Column
    BY <1>1
  <2>2. \A k \in Column : /\ [key |-> "", type |-> k.type] \in Column
                         /\ [k EXCEPT !.key = ""] = [key |-> "", type |-> k.type]
    <3> TAKE k \in Column
    <3>1. k \in [key : Text, type : {"string", "bool"}]
      BY DEF Column
    <3>2. [k EXCEPT !.key = ""] = [key |-> "", type |-> k.type]
      <4> DEFINE bare == [k EXCEPT !.key = ""]
      <4>1. bare \in [key : Text, type : {"string", "bool"}] /\ bare.key = "" /\ bare.type = k.type
        BY <3>1, Literals
      <4> HIDE DEF bare
      <4>2. bare = [key |-> bare.key, type |-> bare.type]
        BY <4>1
      <4>3. bare = [key |-> "", type |-> k.type]
        BY <4>1, <4>2
      <4> QED
        BY <4>3 DEF bare
    <3>3. k.type \in {"string", "bool"} /\ "" \in Text
      BY <3>1, Literals
    <3>4. [key |-> "", type |-> k.type] \in Column
      BY <3>3 DEF Column
    <3> QED
      BY <3>2, <3>4
  <2> QED
    BY <2>1, <2>2
<1>3. LoadHeader(l, kl) = h
  BY DEF LoadHeader
<1> HIDE DEF e
<1>4. \A i \in 1 .. Len(l) : e(i) \in Column
  BY <1>2
<1>5. Len(l) \in Nat
  OBVIOUS
<1>6. h \in Seq(Column) /\ Len(h) = Len(l) /\ \A i \in 1 .. Len(l) : h[i] = e(i)
  BY <1>4, <1>5
<1> QED
  BY <1>2, <1>3, <1>6

\* The files that the reader can be given.
LEMMA LineAtTyped ==
  ASSUME NEW ls \in Lines, NEW n \in Nat \ {0}
  PROVE  LineAt(ls, n) \in Seq(Text)
<1>1. n <= Len(ls) => ls[n] \in Seq(Text)
  BY DEF Lines
<1>2. <<"">> \in Seq(Text)
  BY Literals, Single
<1> QED
  BY <1>1, <1>2 DEF LineAt

LEMMA OtherTyped == OtherLines \in Lines
<1>1. Seq(STRING) \ {<<>>} \subseteq Seq(Text) \ {<<>>}
  BY Literals, SeqMonotonic
<1> QED
  BY <1>1, OtherAssumption, SeqMonotonic DEF Lines

LEMMA WriterKeepsTypes ==
  ASSUME WriterTypes, WriterNext
  PROVE  WriterTypes'
<1> USE WriterAssumption
<1>1. CASE WStart
  <2>1. HeaderLine \in Seq(Text) \ {<<>>}
    <3>1. <<"">> \in Seq(Text) /\ <<"">> # <<>>
      BY Literals, Single
    <3> QED
      BY <3>1, FormatTyped DEF HeaderLine
  <2>2. <<HeaderLine>> \in Lines
    BY <2>1, Single DEF Lines
  <2>3. <<>> \in Lines
    BY DEF Lines
  <2>4. file' \in Lines
    BY <1>1, <2>2, <2>3 DEF WStart
  <2>5. starts' \in 0 .. MaxStarts
    BY <1>1 DEF WStart, WriterTypes
  <2>6. sent' \in Seq(PDUs) /\ Len(sent') <= MaxPDUs /\ cut' = FALSE /\ fid' = "open"
    BY <1>1 DEF WStart
  <2>7. mode' = mode /\ precise' = precise /\ find' = find /\ header' = header /\ raised' = raised
    BY <1>1 DEF WStart
  <2> QED
    BY <2>4, <2>5, <2>6, <2>7 DEF WriterTypes
<1>2. CASE HandlePDU
  <2>1. PICK pdu \in PDUs :
          LET h     == IF find THEN HeaderFrom(pdu) ELSE header
              lines1 == IF find THEN Written(file, FALSE, KeysOf(pdu)) ELSE file
          IN  /\ find' = FALSE /\ header' = h
              /\ file' = Written(lines1, cut, CellsOf(h, pdu))
              /\ cut' = (pdu.data = WRONG \/ ~ Ended(pdu))
              /\ raised' = (pdu.data = WRONG)
              /\ sent' = Append(sent, pdu)
    BY <1>2 DEF HandlePDU
  <2> DEFINE h      == IF find THEN HeaderFrom(pdu) ELSE header
             lines1 == IF find THEN Written(file, FALSE, KeysOf(pdu)) ELSE file
  <2>2. h \in Seq(Column)
    BY KeysTyped DEF WriterTypes
  <2>3. lines1 \in Lines /\ (cut => lines1 # <<>>)
    BY KeysTyped, WrittenTyped DEF WriterTypes
  <2>4. file' = Written(lines1, cut, CellsOf(h, pdu)) /\ header' = h
    BY <2>1
  <2>5. CellsOf(h, pdu) \in Seq(Text)
    BY <2>2, CellsTyped
  <2> HIDE DEF h, lines1
  <2>6. file' \in Lines /\ file' # <<>>
    BY <2>3, <2>4, <2>5, WrittenTyped DEF WriterTypes
  <2>7. sent' \in Seq(PDUs) /\ Len(sent') <= MaxPDUs
    BY <1>2, <2>1 DEF HandlePDU, WriterTypes
  <2>8. cut' \in BOOLEAN /\ raised' \in BOOLEAN /\ find' \in BOOLEAN
    BY <2>1
  <2>9. UNCHANGED <<mode, precise, fid, starts>>
    BY <1>2 DEF HandlePDU
  <2> QED
    BY <2>2, <2>4, <2>6, <2>7, <2>8, <2>9 DEF WriterTypes
<1>3. CASE HandleOther
  BY <1>3 DEF HandleOther, WriterTypes
<1>4. CASE WStop
  BY <1>4 DEF WStop, WriterTypes
<1> QED
  BY <1>1, <1>2, <1>3, <1>4 DEF WriterNext

\* A reader's place in its file.
LEMMA OpenedTyped ==
  ASSUME NEW name \in FileName
  PROVE  /\ Opened(name) \in Place /\ Opened(name).name = name
         /\ Opened(name).pos = 1 /\ Opened(name).open = TRUE
BY DEF Opened, Place

LEMMA Moved ==
  ASSUME NEW f \in Place, NEW p \in Nat \ {0}
  PROVE  LET g == [f EXCEPT !.pos = p] IN
         g \in Place /\ g.name = f.name /\ g.pos = p /\ g.open = f.open
BY DEF Place

LEMMA ClosedTyped ==
  ASSUME NEW f \in Place
  PROVE  LET g == Closed(f) IN
         g \in Place /\ g.name = f.name /\ g.pos = f.pos /\ g.open = FALSE
BY DEF Place, Closed

LEMMA BuildKeepsTypes ==
  ASSUME TypeInv, Build
  PROVE  TypeInv'
<1> USE DEF TypeInv
<1>1. /\ rfid.name = "none" /\ lines' = [f \in FileName |-> IF f = "main" THEN file ELSE OtherLines]
      /\ has_header' = (mode # "data")
      /\ rfid' = [Opened("main") EXCEPT !.pos = IF mode # "data" THEN 2 ELSE 1]
      /\ rheader' = IF mode # "data" THEN LoadHeader(LineAt(file, 1), key_list') ELSE <<>>
      /\ UNCHANGED <<timer, strays, waiting, lock, get_line, setting, running, published,
                     ticks, sets, runs, mixed>>
      /\ UNCHANGED writerVars
  BY DEF Build, Construct
<1>2. lines' \in [FileName -> Lines]
  BY <1>1, OtherTyped DEF WriterTypes
<1>3. rfid' \in Place /\ rfid'.name = "main"
  <2>1. Opened("main") \in Place /\ Opened("main").name = "main"
    BY OpenedTyped DEF FileName
  <2>2. (IF mode # "data" THEN 2 ELSE 1) \in Nat \ {0}
    OBVIOUS
  <2> QED
    BY <1>1, <2>1, <2>2, Moved
<1>4. rheader' \in Seq(Column)
  <2>1. LineAt(file, 1) \in Seq(Text)
    BY LineAtTyped DEF WriterTypes
  <2>2. LoadHeader(LineAt(file, 1), key_list') \in Seq(Column)
    BY <2>1, LoadTyped
  <2> QED
    BY <1>1, <2>2
<1>5. WriterTypes'
  BY <1>1 DEF writerVars, WriterTypes
<1>6. ReaderTypes'
  BY <1>1, <1>2, <1>3, <1>4 DEF ReaderTypes
<1> QED
  BY <1>5, <1>6

\* A call goes on.
LEMMA CallGoesOn ==
  ASSUME NEW g \in Call, NEW x \in {"parse", "end", "load", "arm", "release"}
  PROVE  LET c == [g EXCEPT !.pc = x] IN
         c \in Call /\ c.pc = x /\ c.n = g.n /\ c.name = g.name
BY DEF Call

LEMMA CallUnderWay ==
  ASSUME ReaderTypes, get_line.pc \in {"parse", "end", "load", "arm"}
  PROVE  get_line \in Call /\ rfid.name # "none" /\ lock = "line"
BY DEF ReaderTypes, Bare, Call

LEMMA HeaderTyped ==
  ASSUME ReaderTypes, rfid.name # "none"
  PROVE  /\ HeaderIn(rfid) \in Seq(Column)
         /\ AfterHeader(rfid) \in Place /\ AfterHeader(rfid).name = rfid.name
         /\ AfterHeader(rfid).pos = IF has_header THEN rfid.pos + 1 ELSE rfid.pos
         /\ AfterHeader(rfid).open = rfid.open
<1>1. rfid \in Place /\ rfid.name \in FileName /\ rfid.pos \in Nat \ {0}
  BY DEF ReaderTypes, Place
<1>2. LineAt(lines[rfid.name], rfid.pos) \in Seq(Text)
  BY <1>1, LineAtTyped DEF ReaderTypes
<1>3. HeaderIn(rfid) \in Seq(Column)
  <2> DEFINE l == LineAt(lines[rfid.name], rfid.pos)
  <2>1. LoadHeader(l, key_list) \in Seq(Column)
    BY <1>2, LoadTyped
  <2>2. <<>> \in Seq(Column)
    OBVIOUS
  <2> QED
    BY <2>1, <2>2 DEF HeaderIn
<1>4. rfid.pos + 1 \in Nat \ {0}
  BY <1>1
<1>5. AfterHeader(rfid) = IF has_header THEN [rfid EXCEPT !.pos = rfid.pos + 1] ELSE rfid
  BY DEF AfterHeader
<1>6. LET g == [rfid EXCEPT !.pos = rfid.pos + 1] IN
      g \in Place /\ g.name = rfid.name /\ g.pos = rfid.pos + 1 /\ g.open = rfid.open
  BY <1>1, <1>4, Moved
<1> QED
  BY <1>1, <1>3, <1>5, <1>6

LEMMA ReadLineKeepsTypes ==
  ASSUME ReaderTypes, ReadLine
  PROVE  ReaderTypes'
<1> USE DEF ReaderTypes
<1>1. /\ waiting > 0 /\ waiting' = waiting - 1 /\ lock' = "line" /\ mixed' = (mixed \/ setting.pc # "idle")
      /\ UNCHANGED <<lines, has_header, key_list, rheader, repeat, timer, strays, setting, running,
                     published, sets, runs>>
  BY DEF ReadLine
<1>2. rfid \in Place /\ rfid.name # "none"
  BY <1>1
<1>3. /\ rfid' \in Place /\ rfid'.name # "none"
      /\ get_line' \in Bare \union Call /\ get_line'.pc # "idle"
      /\ get_line'.pc = "parse" => get_line'.n <= Len(lines[get_line'.name])
  <2>1. CASE rfid.open
    <3> DEFINE x == IF rfid.pos <= Len(lines[rfid.name]) THEN "parse" ELSE "end"
               p == IF rfid.pos <= Len(lines[rfid.name]) THEN rfid.pos + 1 ELSE rfid.pos
    <3>1. rfid' = [rfid EXCEPT !.pos = p] /\ get_line' = [pc |-> x, n |-> rfid.pos, name |-> rfid.name]
      BY <2>1 DEF ReadLine
    <3>2. p \in Nat \ {0} /\ rfid.name \in FileName /\ rfid.pos \in Nat \ {0}
      BY <1>2 DEF Place
    <3>3. x \in {"parse", "end"} /\ (x = "parse" => rfid.pos <= Len(lines[rfid.name]))
      OBVIOUS
    <3> HIDE DEF x, p
    <3>4. rfid' \in Place /\ rfid'.name # "none"
      BY <1>2, <3>1, <3>2, Moved
    <3>5. /\ get_line' \in Call /\ get_line'.pc # "idle"
          /\ get_line'.pc = "parse" => get_line'.n <= Len(lines[get_line'.name])
      BY <3>1, <3>2, <3>3 DEF Call
    <3> QED
      BY <3>4, <3>5
  <2>2. CASE ~ rfid.open
    <3>1. get_line' = [NoLine EXCEPT !.pc = "release"] /\ rfid' = rfid
      BY <2>2 DEF ReadLine, Raise
    <3> QED
      BY <1>2, <3>1 DEF NoLine, Bare
  <2> QED
    BY <2>1, <2>2
<1> QED
  BY <1>1, <1>3

LEMMA GetLineKeepsTypes ==
  ASSUME ReaderTypes, GetLine
  PROVE  ReaderTypes'
<1> USE DEF ReaderTypes
<1>1. CASE ReadLine
  BY <1>1, ReadLineKeepsTypes
<1>2. CASE ParseAndPublish
  <2> DEFINE row == [name |-> get_line.name, n |-> get_line.n,
                     pdu |-> ParseLine(rheader, lines[get_line.name][get_line.n])]
  <2>1. get_line \in Call /\ rfid.name # "none" /\ lock = "line"
    BY <1>2, CallUnderWay DEF ParseAndPublish
  <2>2. get_line' \in Call /\ get_line'.pc = "arm"
    BY <1>2, <2>1, CallGoesOn DEF ParseAndPublish, Again
  <2>3. row \in Row
    <3>1. get_line.name \in FileName /\ get_line.n \in Nat \ {0}
      BY <2>1 DEF Call
    <3>2. lines[get_line.name] \in Lines /\ get_line.n \in 1 .. Len(lines[get_line.name])
      BY <1>2, <3>1 DEF ParseAndPublish, Lines
    <3>3. lines[get_line.name][get_line.n] \in Seq(Text)
      BY <3>2 DEF Lines
    <3> QED
      BY <3>1, <3>3 DEF Row
  <2>4. published' = Append(published, row)
    BY <1>2 DEF ParseAndPublish
  <2> HIDE DEF row
  <2>5. published' \in Seq(Row)
    BY <2>3, <2>4
  <2>6. UNCHANGED <<lines, has_header, key_list, rfid, rheader, repeat, timer, strays, waiting, lock,
                    setting, running, ticks, sets, runs, mixed>>
    BY <1>2 DEF ParseAndPublish
  <2> QED
    BY <2>1, <2>2, <2>5, <2>6
<1>3. CASE EndOfFile
  <2>1. get_line \in Call /\ rfid.name # "none" /\ lock = "line"
    BY <1>3, CallUnderWay DEF EndOfFile
  <2>2. get_line' \in Call /\ get_line'.pc \in {"load", "release"}
    <3>1. \/ get_line' = [get_line EXCEPT !.pc = "load"]
          \/ get_line' = [get_line EXCEPT !.pc = "release"]
      BY <1>3 DEF EndOfFile, LoadAgain
    <3>2. LET c == [get_line EXCEPT !.pc = "load"] IN c \in Call /\ c.pc = "load"
      BY <2>1, CallGoesOn
    <3>3. LET c == [get_line EXCEPT !.pc = "release"] IN c \in Call /\ c.pc = "release"
      BY <2>1, CallGoesOn
    <3> QED
      BY <3>1, <3>2, <3>3
  <2>3. rfid' \in Place /\ rfid'.name = rfid.name
    <3>1. rfid' = [rfid EXCEPT !.pos = 1] \/ rfid' = rfid
      BY <1>3 DEF EndOfFile
    <3>2. LET g == [rfid EXCEPT !.pos = 1] IN g \in Place /\ g.name = rfid.name
      <4>1. 1 \in Nat \ {0} /\ rfid \in Place
        OBVIOUS
      <4> QED
        BY <4>1, Moved
    <3> QED
      BY <3>1, <3>2
  <2>4. UNCHANGED <<lines, has_header, key_list, rheader, repeat, timer, strays, waiting, lock,
                    setting, running, published, ticks, sets, runs, mixed>>
    BY <1>3 DEF EndOfFile
  <2> QED
    BY <2>1, <2>2, <2>3, <2>4
<1>4. CASE ReloadHeader
  <2>1. get_line \in Call /\ rfid.name # "none" /\ lock = "line"
    BY <1>4, CallUnderWay DEF ReloadHeader
  <2>2. get_line' \in Call /\ get_line'.pc = "arm"
    BY <1>4, <2>1, CallGoesOn DEF ReloadHeader
  <2>3. rfid' \in Place /\ rfid'.name = rfid.name /\ rheader' \in Seq(Column)
    BY <1>4, <2>1, HeaderTyped DEF ReloadHeader
  <2>4. UNCHANGED <<lines, has_header, key_list, repeat, timer, strays, waiting, lock, setting,
                    running, published, ticks, sets, runs, mixed>>
    BY <1>4 DEF ReloadHeader
  <2> QED
    BY <2>1, <2>2, <2>3, <2>4
<1>5. CASE ArmAndRelease
  <2>1. get_line # NoLine /\ rfid.name # "none"
    BY <1>5 DEF ArmAndRelease, NoLine
  <2>2. timer' \in {"none", "armed", "spent"} /\ strays' \in Nat
    <3>1. \/ timer' = "armed" /\ strays' \in {strays, strays + 1}
          \/ timer' = timer /\ strays' = strays
      BY <1>5 DEF ArmAndRelease, Armed
    <3> QED
      BY <3>1
  <2>3. get_line' \in Bare /\ get_line'.pc = "idle" /\ lock' = "free"
    BY <1>5 DEF ArmAndRelease, NoLine, Bare
  <2>4. UNCHANGED <<lines, has_header, key_list, rfid, rheader, repeat, waiting, setting, running,
                    published, ticks, sets, runs, mixed>>
    BY <1>5 DEF ArmAndRelease
  <2> QED
    BY <2>1, <2>2, <2>3, <2>4
<1> QED
  BY <1>1, <1>2, <1>3, <1>4, <1>5 DEF GetLine
LEMMA ReaderKeepsTypes ==
  ASSUME ReaderTypes, ReaderNext
  PROVE  ReaderTypes'
<1> USE DEF ReaderTypes
<1>1. CASE Start
  <2>1. timer' = "armed" /\ strays' \in Nat
    BY <1>1 DEF Start, Armed
  <2>2. rfid.name # "none" /\ running' = "yes"
    BY <1>1 DEF Start
  <2>3. UNCHANGED <<lines, has_header, key_list, rfid, rheader, repeat, waiting, lock, get_line,
                    setting, published, ticks, sets, mixed>>
    BY <1>1 DEF Start
  <2> QED
    BY <2>1, <2>2, <2>3
<1>2. CASE StopCancel
  BY <1>2 DEF StopCancel
<1>3. CASE StopClose
  <2>1. LET g == Closed(rfid) IN g \in Place /\ g.name = rfid.name /\ g.pos = rfid.pos /\ g.open = FALSE
    <3>1. rfid \in Place
      OBVIOUS
    <3> QED
      BY <3>1, ClosedTyped
  <2>2. rfid' = Closed(rfid) /\ running' = "no"
    BY <1>3 DEF StopClose
  <2>3. UNCHANGED <<lines, has_header, key_list, rheader, repeat, timer, strays, waiting, lock,
                    get_line, setting, published, ticks, sets, runs, mixed>>
    BY <1>3 DEF StopClose
  <2>4. rfid' \in Place /\ rfid'.name = rfid.name /\ rfid'.open = FALSE
    BY <2>1, <2>2
  <2> QED
    BY <2>2, <2>3, <2>4
<1>4. CASE Fire
  <2>1. timer' \in {"none", "armed", "spent"} /\ strays' \in Nat
    <3>1. \/ timer' = "spent" /\ strays' = strays
          \/ strays > 0 /\ strays' = strays - 1 /\ timer' = timer
      BY <1>4 DEF Fire
    <3> QED
      BY <3>1
  <2>2. waiting' \in Nat /\ rfid.name # "none"
    BY <1>4 DEF Fire
  <2>3. UNCHANGED <<lines, has_header, key_list, rfid, rheader, repeat, lock, get_line, setting,
                    running, published, ticks, sets, runs, mixed>>
    BY <1>4 DEF Fire
  <2> QED
    BY <2>1, <2>2, <2>3
<1>5. CASE GetLine
  BY <1>5, GetLineKeepsTypes
<1>6. CASE SetFname
  <2>1. PICK f \in SwitchTo : setting' = [name |-> f, pc |-> "open"]
    BY <1>6 DEF SetFname
  <2>2. f \in FileName
    BY ReaderAssumption
  <2>3. /\ sets' = sets + 1 /\ mixed' = (mixed \/ lock = "line") /\ rfid.name # "none"
        /\ UNCHANGED <<lines, has_header, key_list, rfid, rheader, repeat, timer, strays, waiting,
                       lock, get_line, running, published, ticks, runs>>
    BY <1>6 DEF SetFname
  <2> QED
    BY <2>1, <2>2, <2>3
<1>7. CASE SetFnameStep
  <2>1. setting.pc # "idle" /\ setting.name \in FileName /\ rfid.name # "none"
    BY <1>7 DEF SetFnameStep
  <2>2. rfid' \in Place /\ rfid'.name # "none" /\ rheader' \in Seq(Column)
    <3>1. \/ rfid' = Opened(setting.name) /\ rheader' = rheader
          \/ rheader' = <<>> /\ rfid' = rfid
          \/ rheader' = HeaderIn(rfid) /\ rfid' = AfterHeader(rfid)
      BY <1>7 DEF SetFnameStep
    <3>2. Opened(setting.name) \in Place /\ Opened(setting.name).name \in FileName
      BY <2>1, OpenedTyped
    <3>3. <<>> \in Seq(Column) /\ "none" \notin FileName
      BY DEF FileName
    <3>4. /\ HeaderIn(rfid) \in Seq(Column)
          /\ AfterHeader(rfid) \in Place /\ AfterHeader(rfid).name = rfid.name
      BY <2>1, HeaderTyped
    <3> QED
      BY <2>1, <3>1, <3>2, <3>3, <3>4
  <2>3. /\ setting' \in [name : FileName \union {"none"}, pc : {"idle", "open", "clear", "read"}]
        /\ setting'.name = setting.name
    <3>1. \E x \in {"idle", "clear", "read"} : setting' = [setting EXCEPT !.pc = x]
      BY <1>7 DEF SetFnameStep
    <3> QED
      BY <3>1
  <2>4. UNCHANGED <<lines, has_header, key_list, repeat, timer, strays, waiting, lock, get_line,
                    running, published, ticks, sets, runs, mixed>>
    BY <1>7 DEF SetFnameStep
  <2> QED
    BY <2>1, <2>2, <2>3, <2>4
<1>8. CASE SetRepeat
  BY <1>8 DEF SetRepeat
<1> QED
  BY <1>1, <1>2, <1>3, <1>4, <1>5, <1>6, <1>7, <1>8 DEF ReaderNext

LEMMA TypeInvInit == Init => TypeInv
<1> SUFFICES ASSUME Init PROVE TypeInv
  OBVIOUS
<1>1. PICK m \in Modes : mode = m[1] /\ precise = m[2]
  BY DEF Init, WriterInit
<1>2. mode \in {"data", "format", "find"} /\ precise \in BOOLEAN
  BY <1>1, WriterAssumption
<1>3. header \in Seq(Column)
  BY FormatTyped DEF Init, WriterInit
<1>4. <<>> \in Lines /\ <<>> \in Seq(PDUs) /\ <<>> \in Seq(Column) /\ <<>> \in Seq(Row)
  BY DEF Lines
<1>5. WriterTypes
  <2>1. fid = "none" /\ raised = FALSE /\ file = <<>> /\ cut = FALSE /\ sent = <<>> /\ starts = 0
        /\ find = (mode = "find")
    BY DEF Init, WriterInit
  <2>2. 0 \in 0 .. MaxStarts /\ Len(<<>>) <= MaxPDUs
    BY WriterAssumption
  <2> QED
    BY <2>1, <2>2, <1>2, <1>3, <1>4 DEF WriterTypes
<1>6. ReaderTypes
  <2>1. /\ lines = [f \in FileName |-> <<>>] /\ has_header = FALSE
        /\ rfid = [name |-> "none", pos |-> 1, open |-> FALSE] /\ rheader = <<>>
        /\ timer = "none" /\ strays = 0 /\ waiting = 0 /\ lock = "free" /\ get_line = NoLine
        /\ setting = [name |-> "none", pc |-> "idle"] /\ running = "no" /\ published = <<>>
        /\ sets = 0 /\ mixed = FALSE
    BY DEF Init, ReaderInit
  <2>2. lines \in [FileName -> Lines]
    BY <2>1, <1>4
  <2>3. rfid \in Place /\ setting \in [name : FileName \union {"none"}, pc : {"idle", "open", "clear", "read"}]
        /\ setting.pc = "idle"
    BY <2>1 DEF Place
  <2>4. get_line \in Bare /\ get_line.pc = "idle"
    BY <2>1 DEF Bare, NoLine
  <2> QED
    BY <1>4, <2>1, <2>2, <2>3, <2>4 DEF ReaderTypes
<1> QED
  BY <1>5, <1>6 DEF TypeInv

LEMMA TypeInvNext == TypeInv /\ [Next]_vars => TypeInv'
<1> SUFFICES ASSUME TypeInv, [Next]_vars PROVE TypeInv'
  OBVIOUS
<1> USE DEF TypeInv
<1>1. CASE Write
  BY <1>1, WriterKeepsTypes DEF Write, readerVars, ReaderTypes
<1>2. CASE Build
  BY <1>2, BuildKeepsTypes
<1>3. CASE Play
  BY <1>3, ReaderKeepsTypes DEF Play, writerVars, WriterTypes
<1>4. CASE UNCHANGED vars
  BY <1>4 DEF vars, readerVars, writerVars, WriterTypes, ReaderTypes
<1> QED
  BY <1>1, <1>2, <1>3, <1>4 DEF Next

\* The types of the writer's and the reader's state; a line of the file has a cell, and
\* the lock is held by the call of get_line that is under way.
THEOREM TypeCorrect == Spec => []TypeOK
<1>1. TypeInv => TypeOK
  <2>1. TypeInv => \A i \in DOMAIN file : file[i] # <<>>
    BY DEF TypeInv, WriterTypes, Lines
  <2>2. TypeInv => rfid.name \in FileName \union {"none"} /\ rfid.pos \in Nat \ {0}
    BY DEF TypeInv, ReaderTypes, Place
  <2>3. TypeInv => setting.pc \in {"idle", "open", "clear", "read"}
    BY DEF TypeInv, ReaderTypes
  <2> QED
    BY <2>1, <2>2, <2>3 DEF TypeInv, WriterTypes, ReaderTypes, TypeOK
<1> QED
  BY <1>1, TypeInvInit, TypeInvNext, PTL DEF Spec

(***************************************************************************)
(* Nothing is published after stop().                                       *)
(***************************************************************************)
LEMMA QuietInvNext == TypeInv /\ QuietInv /\ [Next]_vars => QuietInv'
<1> SUFFICES ASSUME TypeInv, QuietInv, [Next]_vars PROVE QuietInv'
  OBVIOUS
<1>0. /\ setting.pc # "idle" => sets > 0
      /\ lock = (IF get_line.pc = "idle" THEN "free" ELSE "line")
      /\ strays \in Nat /\ waiting \in Nat /\ sets \in Nat
      /\ rfid \in Place /\ get_line \in Bare \union Call
  BY DEF TypeInv, ReaderTypes, QuietInv
<1>1. CASE Write
  BY <1>1 DEF Write, readerVars, QuietInv
<1>2. CASE Build
  <2>1. /\ get_line.pc = "idle" /\ timer # "armed" /\ strays = 0 /\ waiting = 0
        /\ UNCHANGED <<timer, strays, waiting, get_line, setting, running, sets>>
    BY <1>2 DEF Build, Construct, TypeInv, ReaderTypes
  <2> QED
    BY <1>0, <2>1 DEF QuietInv
<1>3. CASE Start
  BY <1>3 DEF Start, QuietInv
<1>4. CASE StopCancel
  BY <1>4 DEF StopCancel, QuietInv
<1>5. CASE StopClose
  <2>1. get_line.pc = "idle" /\ rfid'.open = FALSE /\ get_line' = get_line /\ setting' = setting /\ sets' = sets
    BY <1>0, <1>5, ClosedTyped DEF StopClose
  <2> QED
    BY <1>0, <2>1 DEF QuietInv
<1>6. CASE Fire
  BY <1>0, <1>6 DEF Fire, QuietInv
<1>7. CASE ReadLine
  <2>1. waiting > 0 /\ UNCHANGED <<timer, strays, setting, running, sets>>
    BY <1>7 DEF ReadLine
  <2>2. ~ rfid.open => rfid' = rfid /\ get_line' = [NoLine EXCEPT !.pc = "release"]
    BY <1>7 DEF ReadLine, Raise
  <2>3. ~ rfid.open => get_line'.pc = "release"
    BY <2>2 DEF NoLine
  <2> QED
    BY <1>0, <2>1, <2>2, <2>3 DEF QuietInv
<1>8. CASE ParseAndPublish
  <2>1. get_line.pc = "parse" /\ UNCHANGED <<setting, running, sets>>
    BY <1>8 DEF ParseAndPublish
  <2> QED
    BY <2>1 DEF QuietInv
<1>9. CASE EndOfFile
  <2>1. get_line.pc = "end" /\ UNCHANGED <<setting, running, sets>>
    BY <1>9 DEF EndOfFile
  <2> QED
    BY <2>1 DEF QuietInv
<1>10. CASE ReloadHeader
  <2>1. get_line.pc = "load" /\ UNCHANGED <<setting, running, sets>>
    BY <1>10 DEF ReloadHeader
  <2> QED
    BY <2>1 DEF QuietInv
<1>11. CASE ArmAndRelease
  <2>1. /\ get_line.pc \in {"arm", "release"} /\ get_line'.pc = "idle"
        /\ get_line.pc = "release" => timer' = timer /\ strays' = strays
        /\ UNCHANGED <<rfid, waiting, setting, running, sets>>
    BY <1>11 DEF ArmAndRelease, NoLine
  <2> QED
    BY <2>1 DEF QuietInv
<1>12. CASE SetFname
  BY <1>0, <1>12 DEF SetFname, QuietInv
<1>13. CASE SetFnameStep
  <2>1. setting.pc # "idle" /\ sets' = sets
    BY <1>13 DEF SetFnameStep
  <2> QED
    BY <1>0, <2>1 DEF QuietInv
<1>14. CASE SetRepeat
  BY <1>0, <1>14 DEF SetRepeat, QuietInv
<1>15. CASE UNCHANGED vars
  BY <1>15 DEF vars, readerVars, QuietInv
<1> QED
  BY <1>1, <1>2, <1>3, <1>4, <1>5, <1>6, <1>7, <1>8, <1>9, <1>10, <1>11, <1>12, <1>13, <1>14, <1>15
  DEF Next, Play, ReaderNext, GetLine

LEMMA QuietStep == TypeInv /\ QuietInv /\ [Next]_vars => (running = "no" /\ sets = 0 => published' = published)
<1> SUFFICES ASSUME TypeInv, QuietInv, [Next]_vars, running = "no", sets = 0 PROVE published' = published
  OBVIOUS
<1>1. get_line.pc # "parse"
  BY DEF QuietInv
<1>2. CASE Write
  BY <1>2 DEF Write, readerVars
<1>3. CASE Build
  BY <1>3 DEF Build, Construct
<1>4. CASE GetLine
  BY <1>1, <1>4 DEF GetLine, ReadLine, ParseAndPublish, EndOfFile, ReloadHeader, ArmAndRelease
<1>5. CASE Play /\ ~ GetLine
  BY <1>5 DEF Play, ReaderNext, Start, StopCancel, StopClose, Fire, SetFname, SetFnameStep, SetRepeat
<1>6. CASE UNCHANGED vars
  BY <1>6 DEF vars, readerVars
<1> QED
  BY <1>2, <1>3, <1>4, <1>5, <1>6 DEF Next

\* Once stop() has returned, or before start(), no line is published, whichever timers
\* are armed and whichever thread is in get_line: the lock makes stop() wait for the
\* line in hand, and the next timer finds the file closed.
THEOREM NothingAfterStop == Spec => QuietAfterStop
<1>1. Init => QuietInv
  BY DEF Init, ReaderInit, QuietInv, NoLine
<1>2. TypeInv /\ QuietInv /\ [Next]_vars => (TypeInv /\ QuietInv)'
  BY TypeInvNext, QuietInvNext
<1>3. TypeInv /\ QuietInv /\ [Next]_vars => [running = "no" /\ sets = 0 => published' = published]_vars
  BY QuietStep
<1> QED
  BY <1>1, <1>2, <1>3, TypeInvInit, PTL DEF Spec, QuietAfterStop

\* While nothing is published and the files stay, what was read stays read.
LEMMA SameRows ==
  ASSUME TypeInv, UNCHANGED <<lines, has_header, key_list, published>>, mixed => mixed',
         sets' \in {sets, sets + 1}
  PROVE  /\ \A a, b : Resumes(a, b) => Resumes(a, b)'
         /\ Wrapped => Wrapped'
         /\ RowsRead => RowsRead'
         /\ RowsInOrder => RowsInOrder'
         /\ \A a : HeaderOf(a)' = HeaderOf(a)
<1>1. sets \in Nat /\ (sets' = 0 => sets = 0)
  BY DEF TypeInv, ReaderTypes
<1>2. Header' = Header /\ LastRow' = LastRow /\ \A a : HeaderOf(a)' = HeaderOf(a)
  BY DEF Header, LastRow, HeaderOf
<1>3. Wrapped => Wrapped'
  BY <1>1, <1>2 DEF Wrapped
<1>4. \A a, b : Resumes(a, b) => Resumes(a, b)'
  BY <1>2, <1>3 DEF Resumes
<1>5. RowsRead => RowsRead'
  BY <1>2 DEF RowsRead
<1>6. RowsInOrder => RowsInOrder'
  BY <1>1, <1>2 DEF RowsInOrder
<1> QED
  BY <1>2, <1>3, <1>4, <1>5, <1>6

\* A step that leaves the reader's place, its header and the calls alone.
LEMMA NoReading ==
  ASSUME OrderInv, UNCHANGED <<lines, has_header, key_list, rheader, published, get_line, setting, mixed>>,
         rfid'.name = rfid.name, rfid'.pos = rfid.pos, sets' \in {sets, sets + 1}
  PROVE  Standing' /\ RowsRead' /\ RowsInOrder'
<1>1. /\ \A a, b : Resumes(a, b) => Resumes(a, b)'
      /\ Wrapped => Wrapped'
      /\ RowsRead' /\ RowsInOrder'
      /\ \A a : HeaderOf(a)' = HeaderOf(a)
  BY SameRows DEF OrderInv
<1>2. sets \in Nat /\ (sets > 0 => sets' > 0)
  BY DEF OrderInv, TypeInv, ReaderTypes
<1>3. Standing
  BY DEF OrderInv
<1>4. Standing'
  BY <1>1, <1>2, <1>3 DEF Standing
<1> QED
  BY <1>1, <1>4

\* The reader is built on the first line after the header.
LEMMA BuildKeepsOrder ==
  ASSUME OrderInv, Build
  PROVE  Standing' /\ RowsRead' /\ RowsInOrder'
<1>1. /\ rfid.name = "none" /\ lines' = [f \in FileName |-> IF f = "main" THEN file ELSE OtherLines]
      /\ has_header' = (mode # "data")
      /\ rfid' = [Opened("main") EXCEPT !.pos = IF mode # "data" THEN 2 ELSE 1]
      /\ rheader' = IF mode # "data" THEN LoadHeader(LineAt(file, 1), key_list') ELSE <<>>
      /\ UNCHANGED <<timer, strays, waiting, lock, get_line, setting, running, published,
                     ticks, sets, runs, mixed>>
  BY DEF Build, Construct
<1>2. published' = <<>> /\ get_line'.pc = "idle" /\ setting'.pc = "idle"
  BY <1>1 DEF OrderInv, TypeInv, ReaderTypes
<1>3. rfid'.name = "main" /\ rfid'.pos = Header' + 1
  <2>1. Opened("main") \in Place /\ Opened("main").name = "main"
    BY OpenedTyped DEF FileName
  <2>2. (IF mode # "data" THEN 2 ELSE 1) \in Nat \ {0}
    OBVIOUS
  <2>3. rfid'.name = "main" /\ rfid'.pos = IF mode # "data" THEN 2 ELSE 1
    BY <1>1, <2>1, <2>2, Moved
  <2>4. Header' = IF mode # "data" THEN 1 ELSE 0
    BY <1>1 DEF Header
  <2> QED
    BY <2>3, <2>4
<1>4. lines'["main"] = file
  BY <1>1 DEF FileName
<1>5. rheader' = HeaderOf(rfid.name)'
  BY <1>1, <1>3, <1>4 DEF HeaderOf
<1>6. Wrapped' /\ Resumes(rfid.name, rfid.pos)'
  BY <1>2, <1>3 DEF Wrapped, Resumes
<1>7. Standing'
  BY <1>2, <1>5, <1>6 DEF Standing
<1>8. DOMAIN published' = {}
  BY <1>2
<1> QED
  BY <1>7, <1>8 DEF RowsRead, RowsInOrder

\* What a call knows while no change of the file falls into it.
LEMMA InACall ==
  ASSUME OrderInv, ~ mixed, get_line.pc # "idle"
  PROVE  /\ setting.pc = "idle" /\ rfid.name # "none" /\ rfid.name \in FileName
         /\ rfid.pos \in Nat \ {0} /\ rheader = HeaderOf(rfid.name)
<1>1. rfid.name # "none" /\ rfid.name \in FileName /\ rfid.pos \in Nat \ {0}
  BY DEF OrderInv, TypeInv, ReaderTypes, Place
<1>2. setting.pc = "idle"
  BY DEF OrderInv, Standing
<1> QED
  BY <1>1, <1>2 DEF OrderInv, Standing

LEMMA ReadLineKeepsOrder ==
  ASSUME OrderInv, ReadLine
  PROVE  Standing' /\ RowsRead' /\ RowsInOrder'
<1>1. /\ lock = "free" /\ mixed' = (mixed \/ setting.pc # "idle")
      /\ UNCHANGED <<lines, has_header, key_list, rheader, repeat, timer, strays, setting, running,
                     published, sets, runs>>
  BY DEF ReadLine
<1>2. /\ \A a, b : Resumes(a, b) => Resumes(a, b)'
      /\ Wrapped => Wrapped'
      /\ RowsRead' /\ RowsInOrder'
      /\ \A a : HeaderOf(a)' = HeaderOf(a)
  BY <1>1, SameRows DEF OrderInv
<1>3. ASSUME ~ mixed' PROVE Standing'
  <2>1. ~ mixed /\ setting.pc = "idle" /\ setting'.pc = "idle"
    BY <1>1, <1>3
  <2>2. get_line.pc = "idle" /\ rfid.name # "none" /\ rfid \in Place
    BY <1>1 DEF ReadLine, OrderInv, TypeInv, ReaderTypes
  <2>3. Resumes(rfid.name, rfid.pos) /\ rheader = HeaderOf(rfid.name)
    BY <2>1, <2>2 DEF OrderInv, Standing
  <2>4. rfid.name \in FileName /\ rfid.pos \in Nat \ {0} /\ Len(lines[rfid.name]) \in Nat
    BY <2>2 DEF OrderInv, TypeInv, ReaderTypes, Place, Lines
  <2>5. CASE rfid.open /\ rfid.pos <= Len(lines[rfid.name])
    <3>1. rfid' = [rfid EXCEPT !.pos = rfid.pos + 1] /\ get_line' = [pc |-> "parse", n |-> rfid.pos, name |-> rfid.name]
      BY <2>5 DEF ReadLine
    <3>2. rfid.pos + 1 \in Nat \ {0}
      BY <2>4
    <3>3. rfid'.name = rfid.name /\ rfid'.pos = rfid.pos + 1
      BY <2>2, <3>1, <3>2, Moved
    <3>4. get_line'.pc = "parse" /\ get_line'.n = rfid.pos /\ get_line'.name = rfid.name
      BY <3>1
    <3>5. Resumes(rfid.name, get_line.n)'
      BY <1>2, <2>3, <3>3, <3>4 DEF Resumes
    <3> QED
      BY <1>1, <1>2, <2>1, <2>3, <2>5, <3>3, <3>4, <3>5 DEF Standing
  <2>6. CASE rfid.open /\ ~ (rfid.pos <= Len(lines[rfid.name]))
    <3>1. rfid' = [rfid EXCEPT !.pos = rfid.pos] /\ get_line' = [pc |-> "end", n |-> rfid.pos, name |-> rfid.name]
      BY <2>6 DEF ReadLine
    <3>2. rfid'.name = rfid.name /\ rfid'.pos = rfid.pos /\ get_line'.pc = "end"
      BY <2>2, <2>4, <3>1, Moved
    <3>3. Resumes(rfid.name, rfid.pos)'
      BY <1>2, <2>3, <3>2 DEF Resumes
    <3> QED
      BY <1>1, <1>2, <2>1, <2>3, <2>4, <2>6, <3>2, <3>3 DEF Standing
  <2>7. CASE ~ rfid.open
    <3>1. rfid' = rfid /\ get_line'.pc = "release"
      BY <2>7 DEF ReadLine, Raise, NoLine
    <3>2. Resumes(rfid.name, rfid.pos)'
      BY <1>2, <2>3, <3>1 DEF Resumes
    <3> QED
      BY <1>1, <1>2, <2>1, <2>3, <3>1, <3>2 DEF Standing
  <2> QED
    BY <2>5, <2>6, <2>7
<1>4. mixed' => Standing'
  BY DEF Standing
<1> QED
  BY <1>2, <1>3, <1>4

LEMMA ParseKeepsOrder ==
  ASSUME OrderInv, ParseAndPublish
  PROVE  Standing' /\ RowsRead' /\ RowsInOrder'
<1> DEFINE row == [name |-> get_line.name, n |-> get_line.n,
                   pdu |-> ParseLine(rheader, lines[get_line.name][get_line.n])]
<1>1. /\ get_line.pc = "parse" /\ published' = Append(published, row)
      /\ get_line' = [get_line EXCEPT !.pc = "arm"]
      /\ UNCHANGED <<lines, has_header, key_list, rfid, rheader, repeat, timer, strays, waiting, lock,
                     setting, running, ticks, sets, runs, mixed>>
  BY DEF ParseAndPublish, Again
<1>2. CASE mixed
  BY <1>1, <1>2 DEF Standing, RowsRead, RowsInOrder
<1>3. CASE ~ mixed
  <2>1. /\ setting.pc = "idle" /\ rfid.name # "none" /\ rfid.name \in FileName
        /\ rfid.pos \in Nat \ {0} /\ rheader = HeaderOf(rfid.name)
    BY <1>1, <1>3, InACall
  <2>2. /\ get_line.name = rfid.name /\ rfid.pos = get_line.n + 1
        /\ get_line.n <= Len(lines[rfid.name]) /\ Resumes(rfid.name, get_line.n)
    BY <1>1, <1>3 DEF OrderInv, Standing
  <2>3. get_line'.pc = "arm"
    BY <1>1, CallUnderWay, CallGoesOn DEF OrderInv, TypeInv
  <2>4. /\ row.name = rfid.name /\ row.n = get_line.n /\ get_line.n \in Nat \ {0}
        /\ row.pdu = ParseLine(HeaderOf(rfid.name), lines[rfid.name][get_line.n])
    BY <1>1, <2>1, <2>2, CallUnderWay DEF OrderInv, TypeInv, Call
  <2> HIDE DEF row
  <2>5. published \in Seq(Row) /\ Len(published) \in Nat
    BY DEF OrderInv, TypeInv, ReaderTypes
  <2>6. /\ Len(published') = Len(published) + 1 /\ DOMAIN published' = 1 .. Len(published) + 1
        /\ DOMAIN published = 1 .. Len(published)
        /\ \A i \in 1 .. Len(published) : published'[i] = published[i]
        /\ published'[Len(published) + 1] = row
        /\ published' # <<>>
    BY <1>1, <2>5
  <2>7. LastRow' = row /\ Header' = Header /\ \A a : HeaderOf(a)' = HeaderOf(a)
    BY <1>1, <2>6 DEF LastRow, Header, HeaderOf
  <2>8. Header \in {0, 1}
    BY DEF Header
  <2>9. published # <<>> => LastRow = published[Len(published)] /\ Len(published) >= 1
    BY <2>5 DEF LastRow
  <2>10. get_line.n \in Header + 1 .. Len(lines[rfid.name])
    <3>1. CASE get_line.n = Header + 1
      BY <2>2, <2>4, <2>8, <3>1
    <3>2. CASE published # <<>> /\ LastRow.name = rfid.name /\ get_line.n = LastRow.n + 1
      <4>1. Len(published) \in DOMAIN published
        BY <2>6, <2>9, <3>2, <2>5
      <4>2. LastRow.n \in Header + 1 .. Len(lines[LastRow.name])
        BY <1>3, <2>9, <3>2, <4>1 DEF OrderInv, RowsRead
      <4>3. LastRow.n >= Header + 1 /\ LastRow.n \in Int
        BY <2>8, <4>2
      <4> QED
        BY <2>2, <2>4, <2>8, <3>2, <4>3
    <3> QED
      BY <2>2, <3>1, <3>2 DEF Resumes
  <2>11. Standing'
    <3>1. Resumes(rfid.name, rfid.pos)'
      BY <1>1, <2>2, <2>4, <2>6, <2>7 DEF Resumes
    <3> QED
      BY <1>1, <2>1, <2>3, <2>7, <3>1 DEF Standing
  <2>12. RowsRead'
    <3> SUFFICES ASSUME NEW i \in DOMAIN published'
                 PROVE  LET p == published'[i] IN
                        /\ p.n \in Header + 1 .. Len(lines[p.name])
                        /\ p.pdu = ParseLine(HeaderOf(p.name), lines[p.name][p.n])
      BY <1>1, <2>7 DEF RowsRead
    <3>1. CASE i \in 1 .. Len(published)
      BY <1>3, <2>6, <3>1 DEF OrderInv, RowsRead
    <3>2. CASE i = Len(published) + 1
      BY <2>4, <2>6, <2>10, <3>2
    <3> QED
      BY <2>5, <2>6, <3>1, <3>2
  <2>13. RowsInOrder'
    <3> SUFFICES ASSUME NEW i \in DOMAIN published'
                 PROVE  LET p == published'[i]
                            q == published'[i - 1]
                        IN  \/ p.n = Header + 1 /\ (i > 1 /\ sets = 0 => q.n = Len(lines[q.name]))
                            \/ i > 1 /\ p.name = q.name /\ p.n = q.n + 1
      BY <1>1, <2>7 DEF RowsInOrder
    <3>1. CASE i \in 1 .. Len(published)
      <4>1. published'[i] = published[i] /\ (i > 1 => published'[i - 1] = published[i - 1])
        BY <2>5, <2>6, <3>1
      <4>2. LET p == published[i]
                q == published[i - 1]
            IN  \/ p.n = Header + 1 /\ (i > 1 /\ sets = 0 => q.n = Len(lines[q.name]))
                \/ i > 1 /\ p.name = q.name /\ p.n = q.n + 1
        BY <1>3, <2>6, <3>1 DEF OrderInv, RowsInOrder
      <4> QED
        BY <4>1, <4>2
    <3>2. CASE i = Len(published) + 1
      <4>1. published'[i] = row /\ (i > 1 => published # <<>> /\ published'[i - 1] = LastRow)
        BY <2>5, <2>6, <2>9, <3>2
      <4>2. published # <<>> => i > 1
        BY <2>5, <2>9, <3>2
      <4>3. CASE get_line.n = Header + 1 /\ Wrapped
        BY <2>4, <4>1, <4>3 DEF Wrapped
      <4>4. CASE published # <<>> /\ LastRow.name = rfid.name /\ get_line.n = LastRow.n + 1
        BY <2>4, <4>1, <4>2, <4>4
      <4> QED
        BY <2>2, <4>3, <4>4 DEF Resumes
    <3> QED
      BY <2>5, <2>6, <3>1, <3>2
  <2> QED
    BY <2>11, <2>12, <2>13
<1> QED
  BY <1>2, <1>3

LEMMA EndOfFileKeepsOrder ==
  ASSUME OrderInv, EndOfFile
  PROVE  Standing' /\ RowsRead' /\ RowsInOrder'
<1>1. /\ get_line.pc = "end"
      /\ UNCHANGED <<lines, has_header, key_list, rheader, repeat, timer, strays, waiting, lock,
                     setting, running, published, ticks, sets, runs, mixed>>
      /\ \/ rfid' = [rfid EXCEPT !.pos = 1] /\ get_line' = [get_line EXCEPT !.pc = "load"]
         \/ get_line' = [get_line EXCEPT !.pc = "release"] /\ rfid' = rfid
  BY DEF EndOfFile, LoadAgain
<1>2. /\ \A a, b : Resumes(a, b) => Resumes(a, b)'
      /\ Wrapped => Wrapped'
      /\ RowsRead' /\ RowsInOrder'
      /\ \A a : HeaderOf(a)' = HeaderOf(a)
  BY <1>1, SameRows DEF OrderInv
<1>3. ASSUME ~ mixed PROVE Standing'
  <2>1. /\ setting.pc = "idle" /\ rfid.name # "none" /\ rfid.name \in FileName
        /\ rfid.pos \in Nat \ {0} /\ rheader = HeaderOf(rfid.name)
    BY <1>1, <1>3, InACall
  <2>2. Resumes(rfid.name, rfid.pos) /\ rfid.pos > Len(lines[rfid.name])
    BY <1>1, <1>3, <2>1 DEF OrderInv, Standing
  <2>3. get_line \in Call /\ rfid \in Place
    BY <1>1, CallUnderWay DEF OrderInv, TypeInv, ReaderTypes
  <2>4. CASE rfid' = [rfid EXCEPT !.pos = 1] /\ get_line' = [get_line EXCEPT !.pc = "load"]
    <3>1. get_line'.pc = "load"
      BY <2>3, <2>4, CallGoesOn
    <3>2. rfid'.name = rfid.name /\ rfid'.pos = 1
      <4>1. 1 \in Nat \ {0}
        OBVIOUS
      <4> QED
        BY <2>3, <2>4, <4>1, Moved
    <3>3. Wrapped
      <4>1. CASE published # <<>> /\ LastRow.name = rfid.name /\ rfid.pos = LastRow.n + 1
        <5>1. Len(published) \in DOMAIN published /\ published \in Seq(Row)
          BY <4>1 DEF OrderInv, TypeInv, ReaderTypes
        <5>2. LastRow.n \in Header + 1 .. Len(lines[LastRow.name])
          BY <1>3, <4>1, <5>1 DEF OrderInv, RowsRead, LastRow
        <5>3. Len(lines[rfid.name]) \in Nat /\ Header \in {0, 1}
          BY <2>1 DEF OrderInv, TypeInv, ReaderTypes, Lines, Header
        <5> QED
          BY <2>2, <4>1, <5>2, <5>3 DEF Wrapped
      <4> QED
        BY <2>2, <4>1 DEF Resumes
    <3> QED
      BY <1>1, <1>2, <2>1, <3>1, <3>2, <3>3 DEF Standing
  <2>5. CASE get_line' = [get_line EXCEPT !.pc = "release"] /\ rfid' = rfid
    <3>1. get_line'.pc = "release"
      BY <2>3, <2>5, CallGoesOn
    <3>2. Resumes(rfid.name, rfid.pos)'
      BY <1>2, <2>2, <2>5 DEF Resumes
    <3> QED
      BY <1>1, <1>2, <2>1, <2>5, <3>1, <3>2 DEF Standing
  <2> QED
    BY <1>1, <2>4, <2>5
<1>4. mixed => Standing'
  BY <1>1 DEF Standing
<1> QED
  BY <1>2, <1>3, <1>4

LEMMA ReloadKeepsOrder ==
  ASSUME OrderInv, ReloadHeader
  PROVE  Standing' /\ RowsRead' /\ RowsInOrder'
<1>1. /\ get_line.pc = "load" /\ rheader' = HeaderIn(rfid) /\ rfid' = AfterHeader(rfid)
      /\ get_line' = [get_line EXCEPT !.pc = "arm"]
      /\ UNCHANGED <<lines, has_header, key_list, repeat, timer, strays, waiting, lock, setting,
                     running, published, ticks, sets, runs, mixed>>
  BY DEF ReloadHeader
<1>2. /\ Wrapped => Wrapped'
      /\ RowsRead' /\ RowsInOrder'
      /\ \A a : HeaderOf(a)' = HeaderOf(a)
  BY <1>1, SameRows DEF OrderInv
<1>3. ASSUME ~ mixed PROVE Standing'
  <2>1. setting.pc = "idle" /\ rfid.name # "none"
    BY <1>1, <1>3, InACall
  <2>2. rfid.pos = 1 /\ Wrapped
    BY <1>1, <1>3 DEF OrderInv, Standing
  <2>3. get_line'.pc = "arm"
    BY <1>1, CallUnderWay, CallGoesOn DEF OrderInv, TypeInv
  <2>4. rfid'.name = rfid.name /\ rfid'.pos = Header + 1
    BY <1>1, <2>1, <2>2, HeaderTyped DEF OrderInv, TypeInv, Header
  <2>5. rheader' = HeaderOf(rfid.name)
    BY <1>1, <2>2 DEF HeaderIn, HeaderOf
  <2>6. Resumes(rfid.name, rfid.pos)'
    BY <1>1, <1>2, <2>2, <2>4 DEF Resumes, Header
  <2> QED
    BY <1>1, <1>2, <2>1, <2>3, <2>4, <2>5, <2>6 DEF Standing
<1>4. mixed => Standing'
  BY <1>1 DEF Standing
<1> QED
  BY <1>2, <1>3, <1>4

LEMMA ArmKeepsOrder ==
  ASSUME OrderInv, ArmAndRelease
  PROVE  Standing' /\ RowsRead' /\ RowsInOrder'
<1>1. /\ get_line.pc \in {"arm", "release"} /\ get_line'.pc = "idle"
      /\ UNCHANGED <<lines, has_header, key_list, rfid, rheader, repeat, waiting, setting, running,
                     published, ticks, sets, runs, mixed>>
  BY DEF ArmAndRelease, NoLine
<1>2. /\ \A a, b : Resumes(a, b) => Resumes(a, b)'
      /\ RowsRead' /\ RowsInOrder'
      /\ \A a : HeaderOf(a)' = HeaderOf(a)
  BY <1>1, SameRows DEF OrderInv
<1>3. ASSUME ~ mixed PROVE Standing'
  <2>1. setting.pc = "idle" /\ rfid.name # "none" /\ rheader = HeaderOf(rfid.name)
    BY <1>1, <1>3, InACall
  <2>2. Resumes(rfid.name, rfid.pos)
    BY <1>1, <1>3, <2>1 DEF OrderInv, Standing
  <2>3. Resumes(rfid.name, rfid.pos)'
    BY <1>1, <1>2, <2>2 DEF Resumes
  <2> QED
    BY <1>1, <1>2, <2>1, <2>3 DEF Standing
<1>4. mixed => Standing'
  BY <1>1 DEF Standing
<1> QED
  BY <1>2, <1>3, <1>4

LEMMA SetFnameKeepsOrder ==
  ASSUME OrderInv, SetFname
  PROVE  Standing' /\ RowsRead' /\ RowsInOrder'
<1>1. /\ setting.pc = "idle" /\ sets' = sets + 1 /\ mixed' = (mixed \/ lock = "line")
      /\ setting'.pc = "open"
      /\ UNCHANGED <<lines, has_header, key_list, rfid, rheader, repeat, timer, strays, waiting, lock,
                     get_line, running, published, ticks, runs>>
  BY DEF SetFname
<1>2. RowsRead' /\ RowsInOrder'
  BY <1>1, SameRows DEF OrderInv
<1>3. sets' > 0 /\ (lock # "line" => get_line.pc = "idle")
  BY <1>1 DEF OrderInv, TypeInv, ReaderTypes
<1>4. Standing'
  BY <1>1, <1>3 DEF Standing
<1> QED
  BY <1>2, <1>4

LEMMA SetFnameStepKeepsOrder ==
  ASSUME OrderInv, SetFnameStep
  PROVE  Standing' /\ RowsRead' /\ RowsInOrder'
<1>1. UNCHANGED <<lines, has_header, key_list, repeat, timer, strays, waiting, lock, get_line,
                  running, published, ticks, sets, runs, mixed>>
  BY DEF SetFnameStep
<1>2. /\ RowsRead' /\ RowsInOrder'
      /\ \A a : HeaderOf(a)' = HeaderOf(a)
  BY <1>1, SameRows DEF OrderInv
<1>3. ASSUME ~ mixed PROVE Standing'
  <2>1. setting.pc # "idle" /\ setting.name \in FileName /\ rfid.name # "none"
    BY DEF SetFnameStep, OrderInv, TypeInv, ReaderTypes
  <2>2. get_line.pc = "idle" /\ sets > 0
    BY <1>3, <2>1 DEF OrderInv, Standing
  <2>3. CASE setting.pc = "open" /\ rfid' = Opened(setting.name) /\ setting'.pc = "clear"
    <3>1. rfid'.pos = 1
      BY <2>1, <2>3, OpenedTyped
    <3> QED
      BY <1>1, <2>2, <2>3, <3>1 DEF Standing
  <2>4. CASE setting.pc = "clear" /\ setting'.pc = "read" /\ rfid' = rfid
    <3>1. rfid.pos = 1
      BY <1>3, <2>4 DEF OrderInv, Standing
    <3> QED
      BY <1>1, <2>2, <2>4, <3>1 DEF Standing
  <2>5. CASE setting.pc = "read" /\ setting'.pc = "idle" /\ rheader' = HeaderIn(rfid) /\ rfid' = AfterHeader(rfid)
    <3>1. rfid.pos = 1
      BY <1>3, <2>5 DEF OrderInv, Standing
    <3>2. rfid'.name = rfid.name /\ rfid'.pos = Header + 1
      BY <2>1, <2>5, <3>1, HeaderTyped DEF OrderInv, TypeInv, Header
    <3>3. rheader' = HeaderOf(rfid.name)
      BY <2>5, <3>1 DEF HeaderIn, HeaderOf
    <3>4. Resumes(rfid.name, rfid.pos)'
      BY <1>1, <2>2, <3>2 DEF Resumes, Wrapped, Header
    <3> QED
      BY <1>1, <1>2, <2>2, <2>5, <3>2, <3>3, <3>4 DEF Standing
  <2>6. setting \in [name : FileName \union {"none"}, pc : {"idle", "open", "clear", "read"}]
    BY DEF OrderInv, TypeInv, ReaderTypes
  <2> QED
    BY <2>3, <2>4, <2>5, <2>6 DEF SetFnameStep
<1>4. mixed => Standing'
  BY <1>1 DEF Standing
<1> QED
  BY <1>2, <1>3, <1>4

LEMMA OrderInvNext == OrderInv /\ [Next]_vars => OrderInv'
<1> SUFFICES ASSUME OrderInv, [Next]_vars PROVE OrderInv'
  OBVIOUS
<1>1. TypeInv' /\ rfid \in Place
  BY TypeInvNext DEF OrderInv, TypeInv, ReaderTypes
<1> SUFFICES Standing' /\ RowsRead' /\ RowsInOrder'
  BY <1>1 DEF OrderInv
<1>2. CASE Build
  BY <1>2, BuildKeepsOrder
<1>3. CASE StopClose
  <2>1. rfid'.name = rfid.name /\ rfid'.pos = rfid.pos
    BY <1>1, <1>3, ClosedTyped DEF StopClose
  <2>2. UNCHANGED <<lines, has_header, key_list, rheader, published, get_line, setting, mixed, sets>>
    BY <1>3 DEF StopClose
  <2> QED
    BY <2>1, <2>2, NoReading
<1>4. CASE Write \/ Start \/ StopCancel \/ Fire \/ UNCHANGED vars
  <2>1. UNCHANGED <<lines, has_header, key_list, rheader, published, get_line, setting, mixed, sets, rfid>>
    BY <1>4 DEF Write, Start, StopCancel, Fire, vars, readerVars
  <2> QED
    BY <2>1, NoReading
<1>5. CASE SetRepeat
  <2>1. /\ UNCHANGED <<lines, has_header, key_list, rheader, published, get_line, setting, mixed, rfid>>
        /\ sets' = sets + 1
    BY <1>5 DEF SetRepeat
  <2> QED
    BY <2>1, NoReading
<1>6. CASE GetLine
  BY <1>6, ReadLineKeepsOrder, ParseKeepsOrder, EndOfFileKeepsOrder, ReloadKeepsOrder, ArmKeepsOrder
  DEF GetLine
<1>7. CASE SetFname \/ SetFnameStep
  BY <1>7, SetFnameKeepsOrder, SetFnameStepKeepsOrder
<1> QED
  BY <1>2, <1>3, <1>4, <1>5, <1>6, <1>7 DEF Next, Play, ReaderNext

LEMMA OrderInvInit == Init => OrderInv
<1> SUFFICES ASSUME Init PROVE OrderInv
  OBVIOUS
<1>1. TypeInv
  BY TypeInvInit
<1>2. published = <<>> /\ rfid.name = "none" /\ get_line.pc = "idle" /\ setting.pc = "idle"
  BY DEF Init, ReaderInit, NoLine
<1> QED
  BY <1>1, <1>2 DEF OrderInv, Standing, RowsRead, RowsInOrder

\* The lines come out in the order of the file, none left out and none twice, from its
\* end back to its first line after the header, through any number of stops, starts and
\* changes of the file, as long as no change falls into the reading of a line.
THEOREM PlayedBackInOrder == Spec => []PlaybackInv
<1>1. OrderInv => RowsInOrder
  BY DEF OrderInv
<1>2. Spec => []RowsInOrder
  BY <1>1, OrderInvInit, OrderInvNext, PTL DEF Spec
<1> QED
  BY <1>2, TypeCorrect, PTL DEF PlaybackInv

(***************************************************************************)
(* A PDU written and read again.                                            *)
(***************************************************************************)
\* What rstrip leaves of a line: all up to its last cell that is not empty.
LEMMA StrippedLine ==
  ASSUME NEW l \in Seq(Text)
  PROVE  LET v == Stripped(l) IN
         /\ v \in Seq(Text) /\ Len(v) \in Nat
         /\ \/ v = <<"">> /\ \A i \in 1 .. Len(l) : l[i] = ""
            \/ /\ Len(v) \in 1 .. Len(l) /\ l[Len(v)] # ""
               /\ \A i \in 1 .. Len(v) : v[i] = l[i]
               /\ \A i \in 1 .. Len(l) : l[i] # "" => i <= Len(v)
<1> DEFINE N == Len(l)
           kept == {i \in 1 .. N : \E j \in i .. N : l[j] # ""}
           c == Cardinality(kept)
<1>1. N \in Nat
  OBVIOUS
<1>8. \A i \in 1 .. N : l[i] \in Text
  OBVIOUS
<1>0. Stripped(l) = IF kept = {} THEN <<"">> ELSE SubSeq(l, 1, c)
  BY DEF Stripped
<1> HIDE DEF N
<1>9. \A a, b \in 1 .. N : \A y \in a .. N : b <= a => y \in b .. N
  BY <1>1
<1>2. \A i \in kept, j \in 1 .. N : j <= i => j \in kept
  <2> SUFFICES ASSUME NEW i \in kept, NEW j \in 1 .. N, j <= i PROVE j \in kept
    OBVIOUS
  <2>1. PICK x \in i .. N : l[x] # ""
    OBVIOUS
  <2>3. x \in j .. N
    BY <2>1, <1>9
  <2> QED
    BY <2>1, <2>3
<1>4. \A i \in 1 .. N : l[i] # "" => i \in kept
  <2>1. \A i \in 1 .. N : i \in i .. N
    BY <1>1
  <2> QED
    BY <2>1
<1>7. \A i \in kept : i \in 1 .. N /\ \E j \in i .. N : l[j] # ""
  OBVIOUS
<1>3. kept = 1 .. c /\ c \in 0 .. N
  <2>1. kept \in SUBSET (1 .. N)
    OBVIOUS
  <2> HIDE DEF kept
  <2> QED
    BY <1>1, <1>2, <2>1, InitialSegment
<1> HIDE DEF kept, c
<1>5. CASE kept = {}
  <2>1. Stripped(l) = <<"">>
    BY <1>0, <1>5
  <2>2. \A i \in 1 .. N : l[i] = ""
    BY <1>4, <1>5
  <2>3. <<"">> \in Seq(Text) /\ Len(<<"">>) = 1
    BY Literals, Single
  <2> QED
    BY <2>1, <2>2, <2>3 DEF N
<1>6. CASE kept # {}
  <2> DEFINE v == SubSeq(l, 1, c)
  <2>1. Stripped(l) = v
    BY <1>0, <1>6
  <2>2. c \in 1 .. N /\ c \in kept
    BY <1>1, <1>3, <1>6
  <2>3. l[c] # ""
    <3>1. PICK x \in c .. N : l[x] # ""
      BY <1>7, <2>2
    <3>2. \A a \in 1 .. N : \A y \in a .. N : y \in 1 .. N
      BY <1>1
    <3>3. x \in kept
      BY <1>4, <2>2, <3>1, <3>2
    <3>4. \A a \in 1 .. N : \A y \in a .. N : y \in 1 .. a => y = a
      BY <1>1
    <3>5. x = c
      BY <1>3, <2>2, <3>3, <3>4
    <3> QED
      BY <3>1, <3>5
  <2>4. \A i \in 1 .. N : l[i] # "" => i <= c
    <3>1. \A i \in kept : i <= c
      BY <1>1, <1>3
    <3> QED
      BY <1>4, <3>1
  <2>5. \A i \in 1 .. c : l[i] \in Text
    <3>1. \A a \in 1 .. N : \A i \in 1 .. a : i \in 1 .. N
      BY <1>1
    <3> QED
      BY <1>8, <2>2, <3>1
  <2>6. v \in Seq(Text) /\ Len(v) = c /\ \A i \in 1 .. c : v[i] = l[i]
    <3>1. c \in Int /\ c >= 1
      BY <1>1, <2>2
    <3>2. v \in Seq(Text) /\ Len(v) = (IF 1 <= c THEN c - 1 + 1 ELSE 0)
          /\ \A i \in 1 .. c - 1 + 1 : v[i] = l[1 + i - 1]
      BY <2>5, <3>1, SubSeqProperties
    <3> QED
      BY <3>1, <3>2
  <2> HIDE DEF v
  <2>7. Len(v) \in 1 .. N /\ l[Len(v)] # "" /\ Len(v) \in Nat
    <3>1. c \in Nat
      BY <1>1, <2>2
    <3> QED
      BY <2>2, <2>3, <2>6, <3>1
  <2> QED
    BY <2>1, <2>4, <2>6, <2>7 DEF N
<1> QED
  BY <1>5, <1>6

\* The vector at the end of the line.
LEMMA DataBack ==
  ASSUME NEW h \in Seq(Column), NEW r \in Seq(Column), Len(r) = Len(h),
         NEW pdu \in PDUs, pdu.data # WRONG
  PROVE  ParseLine(r, CellsOf(h, pdu)).data = IF pdu.data = <<>> THEN NIL ELSE pdu.data
<1> DEFINE m == MetadataCells(h, pdu.meta)
           d == Line(Vector(pdu))
           l == m \o d
           v == Stripped(l)
           n == Len(h)
           e == Len(d)
           c == Len(v)
           rest == SubSeq(v, n + 1, c)
<1>1. m \in Seq(Text) /\ Len(m) = n /\ d \in Seq(Text)
  BY CellsTyped
<1>2. n \in Nat /\ e \in Nat
  BY <1>1
<1>3. CellsOf(h, pdu) = l
  BY DEF CellsOf
<1>4. ParseLine(r, l).data = IF rest # <<>> /\ ToSet(rest) \subseteq Numbers THEN rest ELSE NIL
  BY DEF ParseLine
<1>5. Vector(pdu) = IF pdu.data = NIL THEN <<>> ELSE pdu.data
  BY DEF Vector
<1>6. pdu.data \in Seq(Numbers) \union {NIL} /\ "" \notin Numbers
  BY WriterAssumption DEF Numbers
<1> HIDE DEF m, d
<1>7. l \in Seq(Text) /\ Len(l) = n + e /\ \A i \in 1 .. n + e : l[i] = IF i <= n THEN m[i] ELSE d[i - n]
  <2>1. /\ m \o d \in Seq(Text) /\ Len(m \o d) = Len(m) + Len(d)
        /\ \A i \in 1 .. Len(m) + Len(d) : (m \o d)[i] = IF i <= Len(m) THEN m[i] ELSE d[i - Len(m)]
    BY <1>1, ConcatProperties
  <2>2. Len(m) = n /\ Len(d) = e
    BY <1>1
  <2> HIDE DEF n, e
  <2> QED
    BY <2>1, <2>2
<1>8. \A i \in 1 .. e : n + i \in 1 .. n + e /\ ~(n + i <= n) /\ n + i - n = i
  BY <1>2
<1>9. \A i \in 1 .. e : l[n + i] = d[i]
  BY <1>7, <1>8
<1> HIDE DEF l
<1>10. /\ v \in Seq(Text) /\ c \in Nat
       /\ \/ v = <<"">> /\ \A i \in 1 .. n + e : l[i] = ""
          \/ /\ c \in 1 .. n + e /\ l[c] # ""
             /\ \A i \in 1 .. c : v[i] = l[i]
             /\ \A i \in 1 .. n + e : l[i] # "" => i <= c
  BY <1>7, StrippedLine
<1> HIDE DEF n, e, v
<1>11. v \in Seq(Text)
  BY <1>10
<1>12. c \in Nat
  BY <1>10
<1>13. CASE pdu.data \in Seq(Numbers) /\ pdu.data # <<>>
  <2>1. d = pdu.data
    <3>1. pdu.data # NIL
      BY <1>13 DEF NIL, Numbers
    <3> QED
      BY <1>5, <1>13, <3>1 DEF Line, d
  <2>2. d \in Seq(Numbers) /\ d # <<>>
    BY <1>13, <2>1
  <2>3. e \in Nat \ {0}
    BY <2>2, EmptySeq DEF e
  <2>4. \A i \in 1 .. e : d[i] \in Numbers
    BY <2>2 DEF e
  <2>5. e \in 1 .. e /\ n + e \in 1 .. n + e
    BY <1>2, <2>3
  <2>6. l[n + e] # ""
    BY <1>6, <1>9, <2>4, <2>5
  <2>7. c \in 1 .. n + e /\ (\A i \in 1 .. c : v[i] = l[i]) /\ n + e <= c
    BY <1>10, <2>5, <2>6
  <2>8. c = n + e
    BY <1>2, <2>7
  <2> HIDE DEF c
  <2>9. rest \in Seq(Text) /\ Len(rest) = e /\ \A i \in 1 .. e : rest[i] = d[i]
    <3>1. \A i \in n + 1 .. c : i \in 1 .. Len(v)
      BY <1>2, <1>12 DEF c
    <3>2. \A i \in n + 1 .. c : v[i] \in Text
      BY <1>11, <3>1, ElementOfSeq
    <3>3. n + 1 \in Int /\ c \in Int
      BY <1>2, <1>12
    <3>4. /\ rest \in Seq(Text) /\ Len(rest) = (IF n + 1 <= c THEN c - (n + 1) + 1 ELSE 0)
          /\ \A i \in 1 .. c - (n + 1) + 1 : rest[i] = v[n + 1 + i - 1]
      BY <3>2, <3>3, SubSeqProperties
    <3>5. (IF n + 1 <= c THEN c - (n + 1) + 1 ELSE 0) = e /\ c - (n + 1) + 1 = e
      BY <1>2, <2>3, <2>8
    <3>6. \A i \in 1 .. e : n + 1 + i - 1 = n + i /\ n + i \in 1 .. c
      BY <1>2, <2>8
    <3> HIDE DEF rest
    <3>7. \A i \in 1 .. e : rest[i] = v[n + i]
      BY <3>4, <3>5, <3>6
    <3>8. \A i \in 1 .. e : v[n + i] = d[i]
      BY <1>9, <2>7, <3>6
    <3> QED
      BY <3>4, <3>5, <3>7, <3>8
  <2>10. rest = d
    <3> HIDE DEF rest
    <3> QED
      BY <1>1, <2>9, SeqEqual DEF e
  <2>11. ToSet(rest) \subseteq Numbers
    <3>1. DOMAIN d = 1 .. e
      BY <2>2 DEF e
    <3> HIDE DEF rest
    <3> QED
      BY <2>4, <2>10, <3>1 DEF ToSet
  <2> HIDE DEF rest
  <2> QED
    BY <1>3, <1>4, <1>13, <2>1, <2>2, <2>10, <2>11
<1>14. CASE pdu.data = NIL \/ pdu.data = <<>>
  <2>1. d = <<"">>
    BY <1>5, <1>14 DEF Line, d
  <2>2. e = 1 /\ d[1] = "" /\ 1 \in 1 .. 1
    <3>1. Len(d) = 1 /\ d[1] = ""
      BY <2>1
    <3>2. e = 1
      BY <3>1 DEF e
    <3>3. 1 \in 1 .. 1
      OBVIOUS
    <3> QED
      BY <3>1, <3>2, <3>3
  <2>3. l[n + 1] = ""
    BY <1>9, <2>2
  <2>4. rest = <<>> \/ rest = <<"">>
    <3>1. CASE v = <<"">> /\ n = 0
      <4>0. c = 1
        BY <3>1
      <4>1. c = 1 /\ n + 1 = 1
        <5>1. n = 0
          BY <3>1
        <5> HIDE DEF c
        <5> QED
          BY <4>0, <5>1
      <4>2. SubSeq(<<"">>, 1, 1) = <<"">>
        <5>1. <<"">> \in Seq(Text) /\ Len(<<"">>) = 1
          BY Literals, Single
        <5> QED
          BY <5>1, SubSeqFull
      <4> HIDE DEF c
      <4> QED
        BY <3>1, <4>1, <4>2
    <3>2. CASE v = <<"">> /\ n # 0
      <4>1. c = 1
        BY <3>2
      <4> HIDE DEF c
      <4>2. n + 1 \in Int /\ c \in Int /\ c < n + 1
        <5>1. n # 0
          BY <3>2
        <5> QED
          BY <1>2, <4>1, <5>1
      <4> QED
        BY <4>2, SubSeqEmpty
    <3>3. CASE c \in 1 .. n + e /\ l[c] # ""
      <4> HIDE DEF c
      <4>1. c # n + 1
        BY <2>3, <3>3
      <4>2. n + 1 \in Int /\ c \in Int /\ c < n + 1
        <5>1. c \in 1 .. n + 1
          BY <2>2, <3>3
        <5> QED
          BY <1>2, <4>1, <5>1
      <4> QED
        BY <4>2, SubSeqEmpty
    <3> QED
      BY <1>10, <3>1, <3>2, <3>3
  <2>5. rest # <<>> => "" \in ToSet(rest)
    <3>1. <<"">>[1] = "" /\ 1 \in DOMAIN <<"">>
      OBVIOUS
    <3>2. "" \in ToSet(<<"">>)
      BY <3>1 DEF ToSet
    <3> HIDE DEF rest
    <3> QED
      BY <2>4, <3>2
  <2> HIDE DEF rest
  <2>6. ParseLine(r, l).data = NIL
    BY <1>4, <1>6, <2>5
  <2>7. (IF pdu.data = <<>> THEN NIL ELSE pdu.data) = NIL
    BY <1>14
  <2> QED
    BY <1>3, <2>6, <2>7
<1> QED
  BY <1>6, <1>13, <1>14
\* Column i is read as it was written, it has a key, and no other column has that key.
SameColumn(h, r, i) ==
  /\ r[i] = h[i] /\ h[i].key # ""
  /\ \A j \in 1 .. Len(h) : r[j].key = h[i].key => j = i

\* A PDU has a value for the key of column i that leaves its cell filled.
HasValue(pdu, h, i) == h[i].key \in DOMAIN pdu.meta /\ pdu.meta[h[i].key] # ""

\* The value of a key, in its column.
LEMMA ValueBack ==
  ASSUME NEW h \in Seq(Column), NEW r \in Seq(Column), Len(r) = Len(h),
         NEW pdu \in PDUs, NEW i \in 1 .. Len(h), SameColumn(h, r, i), HasValue(pdu, h, i)
  PROVE  LET q == ParseLine(r, CellsOf(h, pdu)) IN
         /\ h[i].key \in DOMAIN q.meta
         /\ q.meta[h[i].key] = Converted(h[i].type, Printed(h[i].type, pdu.meta[h[i].key]))
<1> DEFINE m == MetadataCells(h, pdu.meta)
           d == Line(Vector(pdu))
           l == m \o d
           v == Stripped(l)
           k == h[i].key
           named == {j \in 1 .. Len(r) : r[j].key # "" /\ j <= Len(v)}
           at(x) == CHOOSE j \in named : r[j].key = x /\ \A z \in named : r[z].key = x => z <= j
           q == ParseLine(r, l)
<1>1. m \in Seq(Text) /\ Len(m) = Len(h) /\ d \in Seq(Text)
  BY CellsTyped
<1>2. m[i] = Printed(h[i].type, pdu.meta[k]) /\ m[i] # ""
  BY DEF MetadataCells, Printed, HasValue
<1>3. CellsOf(h, pdu) = l
  BY DEF CellsOf
<1>4. q.meta = [x \in {r[j].key : j \in named} |-> Converted(r[at(x)].type, v[at(x)])]
  BY DEF ParseLine
<1> HIDE DEF m, d
<1>5. l \in Seq(Text) /\ i \in 1 .. Len(l) /\ l[i] = m[i]
  <2>1. /\ l \in Seq(Text) /\ Len(l) = Len(m) + Len(d)
        /\ \A j \in 1 .. Len(m) + Len(d) : l[j] = IF j <= Len(m) THEN m[j] ELSE d[j - Len(m)]
    BY <1>1, ConcatProperties
  <2>2. Len(m) \in Nat /\ Len(d) \in Nat
    BY <1>1
  <2>3. i \in 1 .. Len(m)
    BY <1>1
  <2> HIDE DEF l
  <2>4. i \in 1 .. Len(m) + Len(d) /\ i <= Len(m)
    BY <2>2, <2>3
  <2> QED
    BY <2>1, <2>4
<1> HIDE DEF l
<1>6. i <= Len(v) /\ v[i] = l[i] /\ i \in Nat
  <2>1. \/ v = <<"">> /\ \A j \in 1 .. Len(l) : l[j] = ""
        \/ /\ Len(v) \in 1 .. Len(l)
           /\ \A j \in 1 .. Len(v) : v[j] = l[j]
           /\ \A j \in 1 .. Len(l) : l[j] # "" => j <= Len(v)
    BY <1>5, StrippedLine
  <2>2. Len(v) \in Nat
    BY <1>5, StrippedLine
  <2> HIDE DEF v
  <2>3. l[i] # ""
    BY <1>2, <1>5
  <2>4. i <= Len(v) /\ \A j \in 1 .. Len(v) : v[j] = l[j]
    BY <1>5, <2>1, <2>3
  <2>5. i \in 1 .. Len(v)
    BY <2>2, <2>4
  <2> QED
    BY <2>4, <2>5
<1> HIDE DEF v
<1>7. i \in named /\ r[i].key = k
  BY <1>6 DEF SameColumn
<1>8. \A j \in named : r[j].key = k => j = i
  BY DEF SameColumn
<1>9. i <= i
  BY <1>6
<1>10. at(k) = i
  <2>1. \E j \in named : r[j].key = k /\ \A z \in named : r[z].key = k => z <= j
    BY <1>7, <1>8, <1>9
  <2> HIDE DEF named
  <2>2. at(k) \in named /\ r[at(k)].key = k
    BY <2>1
  <2> QED
    BY <1>8, <2>2
<1>11. k \in {r[j].key : j \in named}
  BY <1>7
<1> HIDE DEF named, at, q
<1>12. k \in DOMAIN q.meta /\ q.meta[k] = Converted(r[at(k)].type, v[at(k)])
  BY <1>4, <1>11
<1> QED
  BY <1>2, <1>3, <1>5, <1>6, <1>10, <1>12 DEF q, SameColumn

\* The file holds its header and a line for every PDU.
LEMMA StartKeepsFile ==
  ASSUME TypeInv, FileInv, WStart
  PROVE  FileInv'
<1>1. /\ fid' = "open" /\ starts' = starts + 1
      /\ file' = IF mode # "data" /\ ~ find THEN <<HeaderLine>> ELSE <<>>
      /\ cut' = FALSE /\ sent' = <<>>
      /\ mode' = mode /\ precise' = precise /\ find' = find /\ header' = header
  BY DEF WStart
<1>2. starts \in Nat /\ mode \in {"data", "format", "find"}
  BY WriterAssumption DEF TypeInv, WriterTypes
<1>3. mode # "find" => ~ find /\ header = IF mode = "format" THEN FormatKeys ELSE <<>>
  BY DEF FileInv
<1>4. ASSUME Sound'
      PROVE  mode = "find" => find
  <2>1. mode = "find" => starts' = 1
    BY <1>1, <1>4 DEF Sound
  <2>2. starts' = 1 => starts = 0
    BY <1>1, <1>2
  <2> QED
    BY <2>1, <2>2 DEF FileInv
<1>5. Len(sent') = 0 /\ DOMAIN sent' = {}
  BY <1>1
<1>6. ASSUME Sound'
      PROVE  LET top == IF mode = "data" \/ find THEN 0 ELSE 1
             IN  /\ Len(file') = top + Len(sent')
                 /\ top = 1 => file'[1] = HeaderCells'
  <2>1. CASE mode = "data" \/ find
    BY <1>1, <1>5, <2>1
  <2>2. CASE mode = "format" /\ ~ find
    <3>1. file' = <<FormatCells>>
      BY <1>1, <2>2 DEF HeaderLine
    <3>2. Len(file') = 1 /\ file'[1] = FormatCells
      BY <3>1
    <3>3. HeaderCells' = FormatCells
      BY <1>1, <2>2 DEF HeaderCells
    <3> QED
      BY <1>5, <2>2, <3>2, <3>3
  <2> QED
    BY <1>2, <1>4, <1>6, <2>1, <2>2
<1>7. starts' # 0
  BY <1>1, <1>2
<1>8. Sound' => (mode' = "find" => find' = (sent' = <<>>) /\ (sent' # <<>> => header' = HeaderFrom(sent'[1])))
  <2>1. find \in BOOLEAN
    BY DEF TypeInv, WriterTypes
  <2> QED
    BY <1>1, <1>4, <2>1
<1>9. Sound' => LET top == IF mode' = "data" \/ find' THEN 0 ELSE 1
                IN  /\ Len(file') = top + Len(sent')
                    /\ top = 1 => file'[1] = HeaderCells'
                    /\ \A i \in DOMAIN sent' : file'[top + i] = CellsOf(header', sent'[i])
  BY <1>1, <1>5, <1>6
<1>10. mode' # "find" => ~ find' /\ header' = IF mode' = "format" THEN FormatKeys ELSE <<>>
  BY <1>1, <1>3
<1>11. fid' # "none" /\ ~ cut'
  BY <1>1
<1> QED
  BY <1>7, <1>8, <1>9, <1>10, <1>11 DEF FileInv

\* A PDU that is sound keeps the file sound, and was preceded by such.
LEMMA SoundBefore ==
  ASSUME TypeInv, NEW pdu \in PDUs, sent' = Append(sent, pdu), Sound',
         mode' = mode, precise' = precise, starts' = starts
  PROVE  /\ Sound /\ Fits(pdu) /\ ~ precise
         /\ mode = "find" /\ sent = <<>> => DOMAIN pdu.meta # {}
<1>1. sent \in Seq(PDUs) /\ Len(sent) \in Nat
  BY DEF TypeInv, WriterTypes
<1>2. /\ DOMAIN sent' = 1 .. Len(sent) + 1 /\ DOMAIN sent = 1 .. Len(sent)
      /\ \A i \in 1 .. Len(sent) : sent'[i] = sent[i]
      /\ sent'[Len(sent) + 1] = pdu /\ sent' # <<>>
      /\ Len(sent) + 1 \in 1 .. Len(sent) + 1
  BY <1>1
<1>3. \A x : Fits(x)' = Fits(x)
  BY DEF Fits
<1>4. /\ ~ precise /\ \A i \in DOMAIN sent' : Fits(sent'[i])
      /\ mode = "find" => starts = 1 /\ DOMAIN sent'[1].meta # {}
  BY <1>2, <1>3 DEF Sound
<1>5. Fits(pdu)
  BY <1>2, <1>4
<1>6. \A i \in DOMAIN sent : Fits(sent[i])
  <2>1. \A i \in 1 .. Len(sent) : i \in 1 .. Len(sent) + 1
    BY <1>1
  <2> QED
    BY <1>2, <1>4, <2>1
<1>7. sent # <<>> => sent'[1] = sent[1]
  <2>1. sent # <<>> => 1 \in 1 .. Len(sent)
    BY <1>1
  <2> QED
    BY <1>2, <2>1
<1>8. sent = <<>> => sent'[1] = pdu
  <2>1. sent = <<>> => Len(sent) + 1 = 1
    OBVIOUS
  <2> QED
    BY <1>2, <2>1
<1> QED
  BY <1>4, <1>5, <1>6, <1>7, <1>8 DEF Sound

LEMMA HandleKeepsFile ==
  ASSUME TypeInv, FileInv, HandlePDU
  PROVE  FileInv'
<1>1. PICK pdu \in PDUs :
        LET h      == IF find THEN HeaderFrom(pdu) ELSE header
            lines1 == IF find THEN Written(file, FALSE, KeysOf(pdu)) ELSE file
        IN  /\ find' = FALSE /\ header' = h
            /\ file' = Written(lines1, cut, CellsOf(h, pdu))
            /\ cut' = (pdu.data = WRONG \/ ~ Ended(pdu))
            /\ sent' = Append(sent, pdu)
  BY DEF HandlePDU
<1>2. fid = "open" /\ mode' = mode /\ precise' = precise /\ fid' = fid /\ starts' = starts
  BY DEF HandlePDU
<1>3. starts # 0
  BY <1>2 DEF FileInv
<1>4. mode # "find" => ~ find /\ header = IF mode = "format" THEN FormatKeys ELSE <<>>
  BY DEF FileInv
<1>5. /\ find \in BOOLEAN /\ file \in Lines /\ header \in Seq(Column) /\ cut \in BOOLEAN
      /\ sent \in Seq(PDUs) /\ mode \in {"data", "format", "find"}
  BY DEF TypeInv, WriterTypes
<1>6. /\ Len(sent) \in Nat /\ Len(sent') = Len(sent) + 1 /\ sent' # <<>>
      /\ DOMAIN sent' = 1 .. Len(sent) + 1 /\ DOMAIN sent = 1 .. Len(sent)
      /\ \A i \in 1 .. Len(sent) : sent'[i] = sent[i]
      /\ sent'[Len(sent) + 1] = pdu
  BY <1>1, <1>5
<1>7. sent # <<>> => sent'[1] = sent[1]
  <2>1. sent # <<>> => 1 \in 1 .. Len(sent)
    BY <1>5
  <2> QED
    BY <1>6, <2>1
<1> DEFINE Held(f, s, hd, top) ==
             /\ Len(f) = top + Len(s)
             /\ \A i \in DOMAIN s : f[top + i] = CellsOf(hd, s[i])
<1>8. ASSUME Sound'
      PROVE  /\ ~ cut'
             /\ mode = "find" => header' = HeaderFrom(sent'[1])
             /\ LET top == IF mode = "data" THEN 0 ELSE 1
                IN  Held(file', sent', header', top) /\ (top = 1 => file'[1] = HeaderCells')
  <2>1. Sound /\ Fits(pdu) /\ ~ precise /\ (mode = "find" /\ sent = <<>> => DOMAIN pdu.meta # {})
    BY <1>1, <1>2, <1>8, SoundBefore
  <2>2. ~ cut /\ ~ cut'
    BY <1>1, <2>1 DEF FileInv, Fits, Ended
  <2>3. mode = "find" => find = (sent = <<>>) /\ (sent # <<>> => header = HeaderFrom(sent[1]))
    BY <2>1 DEF FileInv
  <2>4. LET top == IF mode = "data" \/ find THEN 0 ELSE 1
        IN  Held(file, sent, header, top) /\ (top = 1 => file[1] = HeaderCells)
    BY <1>2, <2>1 DEF FileInv
  <2>5. \A f \in Lines, hd \in Seq(Column) :
          Written(f, FALSE, CellsOf(hd, pdu)) = Append(f, CellsOf(hd, pdu))
    <3> TAKE f \in Lines, hd \in Seq(Column)
    <3>1. CellsOf(hd, pdu) \in Seq(Text) /\ CellsOf(hd, pdu) # <<>>
      BY CellsTyped
    <3>2. Line(CellsOf(hd, pdu)) = CellsOf(hd, pdu)
      BY <3>1 DEF Line
    <3> QED
      BY <3>1, <3>2, WrittenTyped
  <2>6. CASE find
    <3>1. mode = "find" /\ sent = <<>> /\ Len(sent) = 0
      <4>1. mode = "find"
        BY <1>4, <2>6
      <4>2. sent = <<>>
        BY <2>3, <2>6, <4>1
      <4> QED
        BY <4>1, <4>2
    <3>2. file = <<>>
      BY <1>5, <2>4, <2>6, <3>1, EmptySeq DEF Lines
    <3>3. KeysOf(pdu) \in Seq(Text) /\ KeysOf(pdu) # <<>>
      <4>1. IsFiniteSet(DOMAIN pdu.meta) /\ DOMAIN pdu.meta # {}
        BY <2>1, <3>1, WriterAssumption
      <4>2. Cardinality(DOMAIN pdu.meta) # 0
        BY <4>1, FS_EmptySet
      <4>3. Len(KeysOf(pdu)) # 0
        BY <4>1, <4>2, SetInOrder DEF KeysOf
      <4> QED
        BY <4>3, KeysTyped
    <3>4. Written(file, FALSE, KeysOf(pdu)) = <<KeysOf(pdu)>>
      BY <3>2, <3>3 DEF Written, Line
    <3>5. HeaderFrom(pdu) \in Seq(Column)
      BY KeysTyped
    <3> DEFINE c == CellsOf(HeaderFrom(pdu), pdu)
               k == KeysOf(pdu)
    <3>6. <<k>> \in Lines
      BY <3>3, Single DEF Lines
    <3>7. file' = Append(<<k>>, c) /\ header' = HeaderFrom(pdu)
      <4>1. cut = FALSE
        BY <1>5, <2>2
      <4>2. Written(<<k>>, FALSE, c) = Append(<<k>>, c)
        BY <2>5, <3>5, <3>6
      <4>3. file' = Written(Written(file, FALSE, k), cut, c) /\ header' = HeaderFrom(pdu)
        BY <1>1, <2>6
      <4> HIDE DEF c, k
      <4> QED
        BY <3>4, <4>1, <4>2, <4>3 DEF k
    <3> HIDE DEF c, k
    <3>8. Len(file') = 2 /\ file'[1] = k /\ file'[2] = c
      BY <3>7
    <3>9. Len(sent') = 1 /\ DOMAIN sent' = 1 .. 1 /\ sent'[1] = pdu
      BY <1>6, <3>1
    <3>10. Held(file', sent', header', 1)
      BY <3>7, <3>8, <3>9 DEF c
    <3>11. HeaderCells' = k
      BY <1>2, <3>1, <3>9 DEF HeaderCells, k
    <3> QED
      BY <2>2, <3>1, <3>7, <3>8, <3>9, <3>10, <3>11
  <2>7. CASE ~ find
    <3> DEFINE top == IF mode = "data" THEN 0 ELSE 1
               c == CellsOf(header, pdu)
    <3>1. Held(file, sent, header, top) /\ (top = 1 => file[1] = HeaderCells)
      BY <2>4, <2>7
    <3>2. file' = Append(file, c) /\ header' = header
      BY <1>1, <1>5, <2>2, <2>5, <2>7
    <3>3. top \in Nat /\ top \in {0, 1}
      OBVIOUS
    <3> HIDE DEF top, c
    <3>4. Len(file') = top + Len(sent')
      BY <1>5, <1>6, <3>1, <3>2, <3>3 DEF Lines
    <3>5. \A i \in 1 .. Len(file) : file'[i] = file[i]
      BY <1>5, <3>2 DEF Lines
    <3>6. file'[top + (Len(sent) + 1)] = c
      <4>1. file'[Len(file) + 1] = c
        BY <1>5, <3>2 DEF Lines
      <4>2. Len(file) + 1 = top + (Len(sent) + 1)
        BY <1>6, <3>1, <3>3
      <4> QED
        BY <4>1, <4>2
    <3>7. Held(file', sent', header', top)
      <4>1. ASSUME NEW i \in 1 .. Len(sent) + 1 PROVE file'[top + i] = CellsOf(header, sent'[i])
        <5>1. CASE i \in 1 .. Len(sent)
          <6>1. top + i \in 1 .. Len(file)
            BY <1>6, <3>1, <3>3, <5>1
          <6> QED
            BY <1>6, <3>1, <3>5, <5>1, <6>1
        <5>2. CASE i = Len(sent) + 1
          BY <1>6, <3>6, <5>2 DEF c
        <5> QED
          BY <1>6, <5>1, <5>2
      <4> QED
        BY <1>6, <3>2, <3>4, <4>1
    <3>8. mode = "find" => sent # <<>> /\ header' = HeaderFrom(sent'[1])
      BY <1>7, <2>3, <2>7, <3>2
    <3>9. top = 1 => file'[1] = HeaderCells'
      <4>1. top = 1 => 1 \in 1 .. Len(file)
        BY <1>6, <3>1
      <4>2. HeaderCells' = IF mode = "format" THEN FormatCells ELSE KeysOf(sent'[1])
        BY <1>2 DEF HeaderCells
      <4>3. top = 1 => mode \in {"format", "find"}
        BY <1>5 DEF top
      <4> QED
        BY <1>7, <3>1, <3>5, <3>8, <4>1, <4>2, <4>3 DEF HeaderCells
    <3> QED
      BY <2>2, <3>7, <3>8, <3>9 DEF top
  <2> QED
    BY <1>5, <2>6, <2>7
<1>9. mode # "find" => header' = IF mode = "format" THEN FormatKeys ELSE <<>>
  BY <1>1, <1>4
<1>10. ~ find' /\ fid' # "none"
  BY <1>1, <1>2
<1>11. Sound' =>
         /\ ~ cut'
         /\ mode' = "find" => find' = (sent' = <<>>) /\ (sent' # <<>> => header' = HeaderFrom(sent'[1]))
         /\ fid' # "none" =>
              LET top == IF mode' = "data" \/ find' THEN 0 ELSE 1
              IN  /\ Len(file') = top + Len(sent')
                  /\ top = 1 => file'[1] = HeaderCells'
                  /\ \A i \in DOMAIN sent' : file'[top + i] = CellsOf(header', sent'[i])
  <2>1. find' = FALSE
    BY <1>1
  <2> QED
    BY <1>2, <1>6, <1>8, <2>1
<1> QED
  BY <1>2, <1>3, <1>9, <1>10, <1>11 DEF FileInv

LEMMA FileInvNext == TypeInv /\ FileInv /\ [Next]_vars => FileInv'
<1> SUFFICES ASSUME TypeInv, FileInv, [Next]_vars PROVE FileInv'
  OBVIOUS
<1>1. ASSUME UNCHANGED <<mode, precise, find, header, file, cut, sent, starts>>,
             (fid = "none") = (fid' = "none")
      PROVE  FileInv'
  <2>1. Sound' = Sound /\ HeaderCells' = HeaderCells
    BY <1>1 DEF Sound, Fits, HeaderCells
  <2> QED
    BY <1>1, <2>1 DEF FileInv
<1>2. CASE Write
  <2>1. CASE WStart
    BY <2>1, StartKeepsFile
  <2>2. CASE HandlePDU
    BY <2>2, HandleKeepsFile
  <2>3. CASE HandleOther \/ WStop
    BY <1>1, <2>3 DEF HandleOther, WStop
  <2> QED
    BY <1>2, <2>1, <2>2, <2>3 DEF Write, WriterNext
<1>3. CASE ~ Write
  <2>1. UNCHANGED writerVars
    BY <1>3 DEF Next, Build, Play, vars
  <2> QED
    BY <1>1, <2>1 DEF writerVars
<1> QED
  BY <1>2, <1>3

LEMMA BuiltInvNext == TypeInv /\ BuiltInv /\ [Next]_vars => BuiltInv'
<1> SUFFICES ASSUME TypeInv, BuiltInv, [Next]_vars PROVE BuiltInv'
  OBVIOUS
<1>1. CASE Write
  BY <1>1 DEF Write, readerVars, BuiltInv
<1>2. CASE Build
  BY <1>2 DEF Build, Construct, writerVars, BuiltInv, FileName
<1>3. CASE Play
  <2>1. UNCHANGED <<lines, has_header, fid, file, mode>>
    BY <1>3 DEF Play, writerVars, ReaderNext, Start, StopCancel, StopClose, Fire, GetLine, ReadLine,
                ParseAndPublish, EndOfFile, ReloadHeader, ArmAndRelease, SetFname, SetFnameStep, SetRepeat
  <2>2. ASSUME rfid.name = "none" PROVE rfid'.name = "none"
    <3>1. /\ get_line.pc = "idle" /\ setting.pc = "idle" /\ timer # "armed" /\ strays = 0 /\ waiting = 0
          /\ rfid \in Place
      BY <2>2 DEF TypeInv, ReaderTypes
    <3>2. CASE StopClose
      BY <2>2, <3>1, <3>2, ClosedTyped DEF StopClose
    <3>3. CASE Start \/ StopCancel \/ Fire \/ SetFname \/ SetRepeat
      BY <2>2, <3>3 DEF Start, StopCancel, Fire, SetFname, SetRepeat
    <3>4. ~ GetLine
      BY <3>1 DEF GetLine, ReadLine, ParseAndPublish, EndOfFile, ReloadHeader, ArmAndRelease
    <3>5. ~ SetFnameStep
      BY <3>1 DEF SetFnameStep
    <3> QED
      BY <1>3, <3>2, <3>3, <3>4, <3>5 DEF Play, ReaderNext
  <2> QED
    BY <2>1, <2>2 DEF BuiltInv
<1>4. CASE UNCHANGED vars
  BY <1>4 DEF vars, writerVars, readerVars, BuiltInv
<1> QED
  BY <1>1, <1>2, <1>3, <1>4 DEF Next

\* The header that the reader finds in the first line is the writer's.
LEMMA HeaderBack ==
  ASSUME TypeInv, FileInv, Sound, mode # "data", sent # <<>>
  PROVE  /\ HeaderCells \in Seq(Text) /\ Len(HeaderCells) = Len(header)
         /\ \A c \in 1 .. Len(header) : KeyOf(HeaderCells[c]) = header[c] /\ header[c].key # ""
         /\ \A c, e \in 1 .. Len(header) : header[c].key = header[e].key => c = e
         /\ mode = "find" => \A c \in 1 .. Len(header) : header[c].type = "string"
<1>1. CASE mode = "format"
  <2>1. header = FormatKeys /\ HeaderCells = FormatCells
    BY <1>1 DEF FileInv, HeaderCells
  <2>2. Len(FormatKeys) = 2 /\ Len(FormatCells) = 2
    BY DEF FormatKeys, FormatCells
  <2>3. /\ FormatKeys[1] = [key |-> "k1", type |-> "string"] /\ FormatKeys[2] = [key |-> "k2", type |-> "bool"]
        /\ FormatCells[1] = "k1(string)" /\ FormatCells[2] = "k2(bool)"
    BY DEF FormatKeys, FormatCells
  <2>4. KeyOf("k1(string)") = FormatKeys[1] /\ KeyOf("k2(bool)") = FormatKeys[2]
    BY DEF KeyOf
  <2>5. \A c \in 1 .. 2 : c = 1 \/ c = 2
    OBVIOUS
  <2>6. \A c \in 1 .. 2 : KeyOf(FormatCells[c]) = FormatKeys[c] /\ FormatKeys[c].key # ""
    <3>1. FormatKeys[1].key = "k1" /\ FormatKeys[2].key = "k2"
      BY <2>3
    <3>2. KeyOf(FormatCells[1]) = FormatKeys[1] /\ KeyOf(FormatCells[2]) = FormatKeys[2]
      BY <2>3, <2>4
    <3> QED
      BY <2>5, <3>1, <3>2
  <2>7. \A c, e \in 1 .. 2 : FormatKeys[c].key = FormatKeys[e].key => c = e
    BY <2>3, <2>5
  <2> QED
    BY <1>1, <2>1, <2>2, <2>6, <2>7, FormatTyped
<1>2. CASE mode = "find"
  <2> DEFINE p == sent[1]
             k == KeysOf(p)
  <2>1. p \in PDUs /\ 1 \in DOMAIN sent
    BY DEF TypeInv, WriterTypes
  <2>2. header = HeaderFrom(p) /\ HeaderCells = k
    BY <1>2 DEF FileInv, HeaderCells
  <2>3. Fits(p)
    BY <2>1 DEF Sound
  <2> HIDE DEF p
  <2>4. /\ k \in Seq(DOMAIN p.meta) /\ Len(k) = Cardinality(DOMAIN p.meta)
        /\ \A i, j \in 1 .. Len(k) : k[i] = k[j] => i = j
    BY <2>1, SetInOrder, WriterAssumption DEF KeysOf
  <2>5. /\ k \in Seq(Text) /\ Len(header) = Len(k)
        /\ \A i \in 1 .. Len(k) : header[i] = [key |-> k[i], type |-> "string"]
    BY <2>1, <2>2, KeysTyped
  <2>6. \A i \in 1 .. Len(k) : k[i] \in DOMAIN p.meta
    BY <2>4, ElementOfSeq
  <2> HIDE DEF k
  <2>7. \A i \in 1 .. Len(k) : k[i] # "" /\ KeyOf(k[i]) = [key |-> k[i], type |-> "string"]
    <3>1. \A i \in 1 .. Len(k) : k[i] \notin {"", "k1(string)", "k2(bool)"}
      BY <1>2, <2>3, <2>6 DEF Fits
    <3> QED
      BY <3>1 DEF KeyOf
  <2>8. \A c \in 1 .. Len(header) : /\ KeyOf(HeaderCells[c]) = header[c] /\ header[c].key # ""
                                   /\ header[c].key = k[c] /\ header[c].type = "string"
    <3> TAKE c \in 1 .. Len(header)
    <3>1. c \in 1 .. Len(k)
      BY <2>5
    <3>2. header[c] = [key |-> k[c], type |-> "string"]
      BY <2>5, <3>1
    <3>3. header[c].key = k[c] /\ header[c].type = "string"
      BY <3>2
    <3> QED
      BY <2>2, <2>7, <3>1, <3>2, <3>3
  <2>9. \A c, e \in 1 .. Len(header) : header[c].key = header[e].key => c = e
    <3> TAKE c, e \in 1 .. Len(header)
    <3>1. c \in 1 .. Len(k) /\ e \in 1 .. Len(k)
      BY <2>5
    <3>2. header[c].key = k[c] /\ header[e].key = k[e]
      BY <2>8
    <3> QED
      BY <2>4, <3>1, <3>2
  <2>10. HeaderCells \in Seq(Text) /\ Len(HeaderCells) = Len(header)
    BY <2>2, <2>5
  <2> QED
    BY <2>8, <2>9, <2>10
<1>3. mode \in {"data", "format", "find"}
  BY DEF TypeInv, WriterTypes
<1> QED
  BY <1>1, <1>2, <1>3

\* What is read of a line is what was written into it.
LEMMA LineBack ==
  ASSUME TypeInv, FileInv, BuiltInv, Sound, rfid.name # "none", NEW j \in DOMAIN sent,
         NoFalse(sent[j])
  PROVE  Given(ParseLine(HeaderOf("main"), CellsOf(header, sent[j])), sent[j])
<1> DEFINE s == sent[j]
           r == HeaderOf("main")
           q == ParseLine(r, CellsOf(header, s))
<1>1. /\ s \in PDUs /\ Fits(s) /\ sent # <<>> /\ header \in Seq(Column)
      /\ mode \in {"data", "format", "find"} /\ find \in BOOLEAN
  BY DEF TypeInv, WriterTypes, Sound
<1>2. lines["main"] = file /\ has_header = (mode # "data") /\ fid # "none"
  BY DEF BuiltInv
<1>3. mode = "data" => header = <<>> /\ r = <<>>
  BY <1>2 DEF FileInv, HeaderOf
<1>4. mode # "data" =>
        /\ r \in Seq(Column) /\ Len(r) = Len(header)
        /\ \A c \in 1 .. Len(header) :
             r[c] = IF key_list = {} \/ header[c].key \in key_list THEN header[c]
                    ELSE [key |-> "", type |-> header[c].type]
  <2> SUFFICES ASSUME mode # "data"
               PROVE  /\ r \in Seq(Column) /\ Len(r) = Len(header)
                      /\ \A c \in 1 .. Len(header) :
                           r[c] = IF key_list = {} \/ header[c].key \in key_list THEN header[c]
                                  ELSE [key |-> "", type |-> header[c].type]
    OBVIOUS
  <2>1. ~ find
    BY <1>1 DEF FileInv
  <2>2. file[1] = HeaderCells /\ Len(file) = 1 + Len(sent)
    BY <1>2, <2>1 DEF FileInv
  <2>3. 1 <= Len(file)
    BY <2>2 DEF TypeInv, WriterTypes
  <2>4. r = LoadHeader(HeaderCells, key_list)
    BY <1>2, <2>2, <2>3 DEF HeaderOf, LineAt
  <2>5. /\ HeaderCells \in Seq(Text) /\ Len(HeaderCells) = Len(header)
        /\ \A c \in 1 .. Len(header) : KeyOf(HeaderCells[c]) = header[c]
    BY <1>1, HeaderBack
  <2>6. /\ r \in Seq(Column) /\ Len(r) = Len(HeaderCells)
        /\ \A i \in 1 .. Len(HeaderCells) : r[i] =
             IF key_list = {} \/ KeyOf(HeaderCells[i]).key \in key_list THEN KeyOf(HeaderCells[i])
             ELSE [key |-> "", type |-> KeyOf(HeaderCells[i]).type]
    <3>1. HeaderCells \in Seq(Text)
      BY <2>5
    <3>2. LET x == LoadHeader(HeaderCells, key_list) IN
          /\ x \in Seq(Column) /\ Len(x) = Len(HeaderCells)
          /\ \A i \in 1 .. Len(HeaderCells) : x[i] =
               IF key_list = {} \/ KeyOf(HeaderCells[i]).key \in key_list THEN KeyOf(HeaderCells[i])
               ELSE [key |-> "", type |-> KeyOf(HeaderCells[i]).type]
      BY <3>1, LoadTyped
    <3> HIDE DEF r
    <3> QED
      BY <2>4, <3>2
  <2> QED
    BY <2>5, <2>6
<1>5. r \in Seq(Column) /\ Len(r) = Len(header)
  <2>1. <<>> \in Seq(Column)
    OBVIOUS
  <2> HIDE DEF r
  <2> QED
    BY <1>3, <1>4, <2>1
<1> HIDE DEF r, s
<1>6. q.data = IF s.data = <<>> THEN NIL ELSE s.data
  BY <1>1, <1>5, DataBack DEF Fits
<1>7. ASSUME NEW k \in OwedKeys(s)
      PROVE  k \in DOMAIN q.meta /\ q.meta[k] = OwedValue(s, k)
  <2>1. mode # "data" /\ k \in DOMAIN s.meta /\ (key_list = {} \/ k \in key_list)
    BY <1>7 DEF OwedKeys
  <2>2. PICK c \in 1 .. Len(header) : header[c].key = k
    BY <1>1, <2>1 DEF OwedKeys
  <2>3. /\ \A e \in 1 .. Len(header) : header[e].key # ""
        /\ \A e \in 1 .. Len(header) : header[e].key = header[c].key => c = e
        /\ mode = "find" => header[c].type = "string"
    BY <1>1, <2>1, HeaderBack
  <2>4. SameColumn(header, r, c)
    <3>1. r[c] = header[c]
      BY <1>4, <2>1, <2>2
    <3>2. \A e \in 1 .. Len(header) : r[e].key = header[e].key \/ r[e].key = ""
      <4> TAKE e \in 1 .. Len(header)
      <4>1. r[e] = header[e] \/ r[e] = [key |-> "", type |-> header[e].type]
        BY <1>4, <2>1
      <4>2. \A t : [key |-> "", type |-> t].key = ""
        OBVIOUS
      <4> QED
        BY <4>1, <4>2
    <3> QED
      BY <2>3, <3>1, <3>2 DEF SameColumn
  <2>5. HasValue(s, header, c)
    BY <1>1, <2>1, <2>2 DEF HasValue, Fits
  <2>6. k \in DOMAIN q.meta /\ q.meta[k] = Converted(header[c].type, Printed(header[c].type, s.meta[k]))
    BY <1>1, <1>5, <2>2, <2>4, <2>5, ValueBack
  <2>7. Converted(header[c].type, Printed(header[c].type, s.meta[k])) = OwedValue(s, k)
    <3>1. CASE mode = "find"
      BY <2>3, <3>1 DEF Converted, OwedValue
    <3>2. CASE mode = "format"
      <4>1. header = FormatKeys
        BY <3>2 DEF FileInv
      <4>2. \/ k = "k1" /\ header[c].type = "string"
            \/ k = "k2" /\ header[c].type = "bool"
        <5>1. Len(FormatKeys) = 2 /\ FormatKeys[1] = [key |-> "k1", type |-> "string"]
              /\ FormatKeys[2] = [key |-> "k2", type |-> "bool"]
          BY DEF FormatKeys
        <5>2. c = 1 \/ c = 2
          BY <4>1, <5>1
        <5> QED
          BY <2>2, <4>1, <5>1, <5>2
      <4>3. /\ k \in {"k1", "k2"} => (s.meta[k] \in {"True", "False"} <=> k = "k2")
            /\ s.meta[k] # "False"
        BY <1>1, <2>1, <3>2 DEF Fits, NoFalse, s
      <4>4. OwedValue(s, k) = s.meta[k]
        BY <3>2 DEF OwedValue
      <4> QED
        BY <4>2, <4>3, <4>4 DEF Converted, Printed
    <3> QED
      BY <1>1, <2>1, <3>1, <3>2
  <2> QED
    BY <2>6, <2>7
<1> QED
  BY <1>6, <1>7 DEF Given, s, r

LEMMA RoundTripHolds == OrderInv /\ FileInv /\ BuiltInv => RoundTrip
<1> SUFFICES ASSUME OrderInv, FileInv, BuiltInv, Sound, ~ mixed, NEW i \in DOMAIN published,
                    published[i].name = "main", NoFalse(sent[published[i].n - Header])
             PROVE  Given(published[i].pdu, sent[published[i].n - Header])
  BY DEF RoundTrip
<1> DEFINE p == published[i]
           j == p.n - Header
<1>1. rfid.name # "none"
  BY DEF OrderInv, TypeInv, ReaderTypes
<1>2. lines["main"] = file /\ has_header = (mode # "data") /\ fid # "none"
  BY <1>1 DEF BuiltInv
<1>3. p.n \in Header + 1 .. Len(file) /\ p.pdu = ParseLine(HeaderOf("main"), file[p.n])
  BY <1>2 DEF OrderInv, RowsRead
<1>4. Header = IF mode = "data" THEN 0 ELSE 1
  BY <1>2 DEF Header
<1>5. /\ LET top == IF mode = "data" \/ find THEN 0 ELSE 1
         IN  /\ Len(file) = top + Len(sent)
             /\ \A m \in DOMAIN sent : file[top + m] = CellsOf(header, sent[m])
      /\ mode = "find" => find = (sent = <<>>)
      /\ mode # "find" => ~ find
  BY <1>2 DEF FileInv
<1>6. sent \in Seq(PDUs) /\ Len(sent) \in Nat /\ DOMAIN sent = 1 .. Len(sent)
  BY DEF OrderInv, TypeInv, WriterTypes
<1>7. ~ find
  <2> SUFFICES ASSUME find PROVE FALSE
    OBVIOUS
  <2>1. mode = "find" /\ sent = <<>>
    BY <1>5
  <2>2. Len(file) = 0
    BY <1>5, <2>1
  <2>3. Header = 1
    BY <1>4, <2>1
  <2> QED
    BY <1>3, <2>2, <2>3
<1>8. Len(file) = Header + Len(sent) /\ \A m \in DOMAIN sent : file[Header + m] = CellsOf(header, sent[m])
  BY <1>4, <1>5, <1>7
<1>9. Header \in Nat
  BY <1>4
<1> HIDE DEF p
<1>10. j \in DOMAIN sent /\ Header + j = p.n
  BY <1>3, <1>6, <1>8, <1>9
<1>11. file[p.n] = CellsOf(header, sent[j])
  BY <1>8, <1>10
<1> QED
  BY <1>1, <1>3, <1>10, <1>11, LineBack DEF p, OrderInv

\* A PDU that was written and is read has the values and the data it had, whatever
\* keys it lacks, whatever the keys asked for and in whichever way the writer got its
\* header; false values of a format apart, for which TLC shows that it does not.
THEOREM WrittenIsRead == Spec => []RoundTrip
<1>1. Init => FileInv
  <2> SUFFICES ASSUME Init PROVE FileInv
    OBVIOUS
  <2>1. /\ fid = "none" /\ file = <<>> /\ cut = FALSE /\ sent = <<>> /\ starts = 0
        /\ find = (mode = "find") /\ header = IF mode = "format" THEN FormatKeys ELSE <<>>
    BY DEF Init, WriterInit
  <2> QED
    BY <2>1 DEF FileInv, Sound
<1>2. Init => BuiltInv
  BY DEF Init, ReaderInit, BuiltInv
<1>3. OrderInv => TypeInv
  BY DEF OrderInv
<1>4. OrderInv /\ FileInv /\ BuiltInv /\ [Next]_vars => (OrderInv /\ FileInv /\ BuiltInv)'
  BY <1>3, OrderInvNext, FileInvNext, BuiltInvNext
<1> QED
  BY <1>1, <1>2, <1>4, OrderInvInit, RoundTripHolds, PTL DEF Spec


=============================================================================
