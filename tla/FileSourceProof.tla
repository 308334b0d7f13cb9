-------------------------- MODULE FileSourceProof --------------------------
(***************************************************************************)
(* Theorems about FileSource: the order in which files are played, and the *)
(* tags on them, for any number of files of any lengths, any depth of the  *)
(* queue and any use of the block.                                         *)
(***************************************************************************)
EXTENDS FileSource, SequenceTheorems, TLAPS

Entries == [file : Requested, tags : BOOLEAN]

(* The file in play has had its first item produced.                       *)
InStream == out.file = file

(* The files before f are over with: the one in the stream, o, to its last *)
(* item, those after it cleared from the queue, or empty.                  *)
Over(o, l, gone, f) ==
  /\ o.file # NoFile => o.next = l[o.file]
  /\ \A h \in o.file + 1 .. f - 1 : h \in gone \/ l[h] = 0

(* A queue q waits behind file f, oldest file first, and with the tags     *)
(* they were asked for.                                                    *)
Waits(q, f, asked) ==
  /\ \A i \in 1 .. Len(q) : q[i].file > f /\ (q[i].file \in asked => q[i].tags)
  /\ \A i, j \in 1 .. Len(q) : i < j => q[i].file < q[j].file

(* Every file after f, of n, waits in q or was cleared from it.            *)
Accounted(q, f, n, gone) ==
  \A h \in f + 1 .. n : h \in gone \/ \E i \in 1 .. Len(q) : q[i].file = h

QueueInv ==
  /\ Waits(queue, file, tagAsked)
  /\ forceNew => queue = << >>
  /\ ~forceNew => Accounted(queue, file, Len(lens), dropped)

OutInv ==
  /\ out \in [file : Requested \cup {NoFile}, first : Nat, next : Nat, tags : SUBSET Requested]
  /\ out.file <= file

(* A call of work() begins with an open file.                              *)
FileKnown == pc \in {"loop", "check", "zero"} => file # NoFile

(* Where a call of work() is.                                              *)
CallInv ==
  /\ pc \in {"loop", "check", "zero"} => isOpen
  /\ pc \in {"loop", "zero"} => size > 0
  /\ pc = "zero" => pos = Length(file)
  /\ pc = "check" /\ got = 0 => size = 0 \/ pos = Length(file)

(* The reader is where the output is, or where it was taken back to.       *)
PlayInv ==
  /\ isOpen /\ InStream =>
       /\ Length(file) > 0
       /\ \/ pos = out.next
          \/ pc = "loop" /\ pos = 0 /\ out.next = Length(file) /\ repeat
  /\ isOpen /\ ~InStream => pos = 0 /\ (~forceNew => Over(out, lens, dropped, file))
  /\ ~isOpen /\ ~forceNew => Over(out, lens, dropped, file + 1)

(* Tags that are due, or ride on an item that is not there yet.            *)
TagInv ==
  /\ tagNow /\ isOpen => pos = 0
  /\ isOpen /\ ~InStream /\ file \in tagAsked => tagNow \/ Length(file) = 0
  /\ pc \in {"loop", "check", "zero"} /\ Length(file) = 0 => size = noutput
  /\ carry # {} =>
       /\ pc \in {"loop", "check", "zero"} => carry = {file} /\ Length(file) = 0
       /\ pc # "idle"
       /\ pc = "end" => size = noutput
  /\ TagsOnFirstItem

PlainInv == TypeOK /\ QueueInv /\ OutInv
CalmInv == CallInv /\ PlayInv /\ TagInv

IInv == PlainInv /\ FileKnown /\ (~disturbed => CalmInv)

-----------------------------------------------------------------------------
(* What is opened is the oldest file of the queue: those between it and    *)
(* the file before were cleared.                                           *)
LEMMA HeadWaits ==
  ASSUME NEW n \in Nat, NEW q \in Seq([file : 1 .. n, tags : BOOLEAN]), q # << >>,
         NEW f \in Nat, NEW asked, Waits(q, f, asked)
  PROVE  LET e == NextEntry(q) IN
         /\ e.file \in 1 .. n /\ e.tags \in BOOLEAN
         /\ e.file > f
         /\ e.file \in asked => e.tags
         /\ Tail(q) \in Seq([file : 1 .. n, tags : BOOLEAN])
         /\ Waits(Tail(q), e.file, asked)
         /\ \A gone : Accounted(q, f, n, gone) =>
              /\ Accounted(Tail(q), e.file, n, gone)
              /\ \A h \in f + 1 .. e.file - 1 : h \in gone
<1> DEFINE E == [file : 1 .. n, tags : BOOLEAN]
           t == Tail(q)
<1>1. /\ NextEntry(q) = q[1] /\ q[1] \in E
      /\ t \in Seq(E) /\ Len(q) \in Nat \ {0} /\ Len(t) = Len(q) - 1
      /\ \A i \in 1 .. Len(t) : t[i] = q[i + 1]
  <2>1. q \in Seq(E) /\ Len(q) \in Nat \ {0}
    BY EmptySeq
  <2>2. /\ t \in Seq(E) /\ Len(t) = Len(q) - 1
        /\ \A i \in 1 .. Len(t) : t[i] = q[i + 1]
    BY <2>1, HeadTailProperties
  <2>3. NextEntry(q) = q[1]
    BY <2>1 DEF NextEntry
  <2>4. q[1] \in E
    BY <2>1, <2>3, HeadTailProperties DEF NextEntry
  <2>5. QED
    BY <2>1, <2>2, <2>3, <2>4
<1>2. \A i \in 1 .. Len(q) : q[i] \in E /\ q[i].file \in Nat
  <2>1. \A i \in 1 .. Len(q) : q[i] \in E
    BY ElementOfSeq
  <2>2. QED
    BY <2>1
<1> HIDE DEF t
<1>3. q[1].file \in 1 .. n /\ q[1].tags \in BOOLEAN
  BY <1>1
<1>4. q[1].file > f /\ (q[1].file \in asked => q[1].tags)
  BY <1>1 DEF Waits
<1>5. Waits(t, q[1].file, asked)
  <2>1. \A i \in 1 .. Len(t) : /\ i + 1 \in 1 .. Len(q) /\ 1 < i + 1
                               /\ t[i] = q[i + 1]
    BY <1>1
  <2>2. ASSUME NEW i \in 1 .. Len(t)
        PROVE  t[i].file > q[1].file /\ (t[i].file \in asked => t[i].tags)
    <3>1. q[1].file < q[i + 1].file /\ 1 \in 1 .. Len(q)
      BY <1>1, <2>1 DEF Waits
    <3>2. q[i + 1].file \in asked => q[i + 1].tags
      BY <2>1 DEF Waits
    <3>3. QED
      BY <1>2, <2>1, <3>1, <3>2
  <2>3. ASSUME NEW i \in 1 .. Len(t), NEW j \in 1 .. Len(t), i < j
        PROVE  t[i].file < t[j].file
    <3>1. i + 1 < j + 1
      BY <2>3
    <3>2. QED
      BY <2>1, <3>1 DEF Waits
  <2>4. QED
    BY <2>2, <2>3 DEF Waits
<1>6. ASSUME NEW gone, Accounted(q, f, n, gone)
      PROVE  /\ Accounted(t, q[1].file, n, gone)
             /\ \A h \in f + 1 .. q[1].file - 1 : h \in gone
  <2>1. ASSUME NEW h \in q[1].file + 1 .. n, h \notin gone
        PROVE  \E i \in 1 .. Len(t) : t[i].file = h
    <3>1. h \in f + 1 .. n
      BY <1>3, <1>4
    <3>2. PICK i \in 1 .. Len(q) : q[i].file = h
      BY <1>6, <2>1, <3>1 DEF Accounted
    <3>3. i # 1
      BY <3>2, <1>3
    <3>4. i - 1 \in 1 .. Len(t) /\ (i - 1) + 1 = i
      BY <1>1, <3>3
    <3>5. t[i - 1].file = h
      BY <1>1, <3>2, <3>4
    <3>6. QED
      BY <3>4, <3>5
  <2>2. ASSUME NEW h \in f + 1 .. q[1].file - 1, h \notin gone
        PROVE  FALSE
    <3>1. h \in f + 1 .. n /\ h < q[1].file
      BY <1>3
    <3>2. PICK i \in 1 .. Len(q) : q[i].file = h
      BY <1>6, <2>2, <3>1 DEF Accounted
    <3>3. i # 1
      BY <3>1, <3>2, <1>3
    <3>4. 1 < i /\ 1 \in 1 .. Len(q)
      BY <1>1, <3>3
    <3>5. q[1].file < q[i].file
      BY <3>4 DEF Waits
    <3>6. QED
      BY <1>3, <3>1, <3>2, <3>5
  <2>3. QED
    BY <2>1, <2>2 DEF Accounted
<1>7. QED
  BY <1>1, <1>3, <1>4, <1>5, <1>6 DEF t

(* What open() makes of the queue: the new file is at its end, and what it *)
(* replaces is counted as cleared.                                         *)
LEMMA QueuedWaits ==
  ASSUME PlainInv, NEW length \in LengthChoices, NEW again \in BOOLEAN,
         Enqueue(length, again)
  PROVE  /\ Queued # << >>
         /\ Queued \in Seq([file : 1 .. NewFile, tags : BOOLEAN])
         /\ Waits(Queued, file, tagAsked')
         /\ Accounted(Queued, file, NewFile, dropped')
<1> DEFINE n == Len(lens)
           E == [file : 1 .. n, tags : BOOLEAN]
           F == [file : 1 .. NewFile, tags : BOOLEAN]
           e == [file |-> NewFile, tags |-> EntryTags]
           a == Append(queue, e)
           o == << [file |-> NewFile, tags |-> TRUE] >>
<1>1. /\ n \in Nat /\ NewFile = n + 1 /\ NewFile \in 1 .. NewFile
      /\ queue \in Seq(E) /\ Len(queue) \in Nat
      /\ file \in 0 .. n /\ tagAsked \subseteq 1 .. n
      /\ Waits(queue, file, tagAsked) /\ Accounted(queue, file, n, dropped)
  BY LenProperties DEF PlainInv, TypeOK, QueueInv, Requested, NewFile, NoFile, Enqueue
<1>2. EntryTags \in BOOLEAN /\ (tagOnOpen => EntryTags)
  BY DEF PlainInv, TypeOK, EntryTags
<1>3. tagAsked' = IF tagOnOpen THEN tagAsked \cup {NewFile} ELSE tagAsked
  BY DEF Enqueue
<1>4. \A i \in 1 .. Len(queue) : queue[i] \in E
  BY <1>1, ElementOfSeq
<1>5. CASE Full
  <2>1. Queued = o /\ Len(o) = 1 /\ o[1] = [file |-> NewFile, tags |-> TRUE]
    BY <1>5 DEF Queued
  <2>2. o # << >> /\ o \in Seq(F)
    BY <1>1
  <2>3. dropped' = dropped \cup {queue[i].file : i \in 1 .. Len(queue)}
    BY <1>5 DEF Enqueue
  <2> HIDE DEF o
  <2>4. Waits(o, file, tagAsked')
    BY <1>1, <2>1 DEF Waits
  <2>5. Accounted(o, file, NewFile, dropped')
    <3> SUFFICES ASSUME NEW h \in file + 1 .. NewFile, h \notin dropped'
                 PROVE  \E i \in 1 .. Len(o) : o[i].file = h
      BY DEF Accounted
    <3>1. h \notin file + 1 .. n
      BY <1>1, <2>3 DEF Accounted
    <3>2. h = NewFile
      BY <1>1, <3>1
    <3>3. QED
      BY <2>1, <3>2
  <2>6. QED
    BY <2>1, <2>2, <2>4, <2>5
<1>6. CASE ~Full
  <2>1. Queued = a
    BY <1>6 DEF Queued
  <2>2. queue \in Seq(F) /\ e \in F
    <3>1. E \subseteq F
      BY <1>1
    <3>2. e \in F
      BY <1>1, <1>2
    <3> HIDE DEF E, F
    <3>3. queue \in Seq(F)
      BY <1>1, <3>1, SeqMonotonic
    <3>4. QED
      BY <3>2, <3>3
  <2>3. /\ a # << >> /\ a \in Seq(F) /\ Len(a) = Len(queue) + 1
        /\ \A i \in 1 .. Len(queue) : a[i] = queue[i]
        /\ a[Len(queue) + 1] = e
    BY <2>2, AppendProperties
  <2>4. dropped' = dropped
    BY <1>6 DEF Enqueue
  <2>5. e.file = NewFile /\ (NewFile \in tagAsked' => e.tags)
    BY <1>1, <1>2, <1>3
  <2> HIDE DEF a, e
  <2>6. Waits(a, file, tagAsked')
    <3>1. ASSUME NEW i \in 1 .. Len(a)
          PROVE  a[i].file > file /\ (a[i].file \in tagAsked' => a[i].tags)
      <4>1. CASE i = Len(queue) + 1
        BY <1>1, <2>3, <2>5, <4>1
      <4>2. CASE i \in 1 .. Len(queue)
        <5>1. queue[i].file \in 1 .. n /\ queue[i].file # NewFile
          BY <1>1, <1>4, <4>2
        <5>2. queue[i].file \in tagAsked' => queue[i].file \in tagAsked
          BY <1>3, <5>1
        <5>3. QED
          BY <1>1, <2>3, <4>2, <5>2 DEF Waits
      <4>3. QED
        BY <1>1, <2>3, <4>1, <4>2
    <3>2. ASSUME NEW i \in 1 .. Len(a), NEW j \in 1 .. Len(a), i < j
          PROVE  a[i].file < a[j].file
      <4>1. i \in 1 .. Len(queue)
        BY <1>1, <2>3, <3>2
      <4>2. CASE j = Len(queue) + 1
        <5>1. queue[i].file \in 1 .. n
          BY <1>4, <4>1
        <5>2. a[i] = queue[i] /\ a[j] = e
          BY <2>3, <4>1, <4>2
        <5>3. QED
          BY <1>1, <2>5, <5>1, <5>2
      <4>3. CASE j \in 1 .. Len(queue)
        BY <1>1, <2>3, <3>2, <4>1, <4>3 DEF Waits
      <4>4. QED
        BY <1>1, <2>3, <4>2, <4>3
    <3>3. QED
      BY <3>1, <3>2 DEF Waits
  <2>7. Accounted(a, file, NewFile, dropped')
    <3> SUFFICES ASSUME NEW h \in file + 1 .. NewFile, h \notin dropped
                 PROVE  \E i \in 1 .. Len(a) : a[i].file = h
      BY <2>4 DEF Accounted
    <3>1. CASE h = NewFile
      <4>1. Len(queue) + 1 \in 1 .. Len(a)
        BY <1>1, <2>3
      <4>2. QED
        BY <2>3, <2>5, <3>1, <4>1
    <3>2. CASE h # NewFile
      <4>1. h \in file + 1 .. n
        BY <1>1, <3>2
      <4>2. PICK i \in 1 .. Len(queue) : queue[i].file = h
        BY <1>1, <4>1 DEF Accounted
      <4>3. i \in 1 .. Len(a) /\ a[i] = queue[i]
        BY <1>1, <2>3
      <4>4. QED
        BY <4>2, <4>3
    <3>3. QED
      BY <3>1, <3>2
  <2>8. QED
    BY <2>1, <2>3, <2>6, <2>7
<1>7. QED
  BY <1>5, <1>6

-----------------------------------------------------------------------------
(* The sets and numbers of the invariant.                                  *)
LEMMA Counts ==
  ASSUME PlainInv
  PROVE  /\ Len(lens) \in Nat /\ Requested = 1 .. Len(lens)
         /\ \A f \in Requested : Length(f) \in Nat
         /\ queue \in Seq([file : 1 .. Len(lens), tags : BOOLEAN])
         /\ file \in 0 .. Len(lens)
         /\ isOpen => file \in Requested /\ pos \in 0 .. Length(file)
         /\ out.file \in 0 .. Len(lens)
<1>1. /\ lens \in Seq(LengthChoices) /\ LengthChoices \subseteq Nat
      /\ file \in Requested \cup {NoFile} /\ out.file \in Requested \cup {NoFile}
      /\ queue \in Seq([file : Requested, tags : BOOLEAN])
      /\ isOpen => file # NoFile /\ pos \in 0 .. Length(file)
  BY SourceAssumption DEF PlainInv, TypeOK, OutInv
<1>2. Len(lens) \in Nat /\ Requested = 1 .. Len(lens)
  BY <1>1, LenProperties DEF Requested
<1>3. \A f \in Requested : Length(f) \in Nat
  BY <1>1, <1>2, ElementOfSeq DEF Length
<1>4. QED
  BY <1>1, <1>2, <1>3 DEF NoFile

(* A file that is asked for changes no other.                              *)
LEMMA AskGrows ==
  ASSUME PlainInv, NEW length \in LengthChoices, NEW again, Ask(length, again)
  PROVE  /\ lens' \in Seq(LengthChoices)
         /\ NewFile = Len(lens) + 1 /\ Len(lens') = NewFile
         /\ Requested' = 1 .. NewFile /\ Requested \subseteq Requested'
         /\ \A f \in Requested : lens'[f] = lens[f]
         /\ lens'[NewFile] = length /\ length \in Nat
<1>1. lens \in Seq(LengthChoices) /\ Len(lens) \in Nat /\ Requested = 1 .. Len(lens)
  BY Counts DEF PlainInv, TypeOK
<1>2. lens' = Append(lens, length) /\ length \in Nat
  BY SourceAssumption DEF Ask
<1>3. /\ lens' \in Seq(LengthChoices)
      /\ Len(lens') = Len(lens) + 1
      /\ \A i \in 1 .. Len(lens) : lens'[i] = lens[i]
      /\ lens'[Len(lens) + 1] = length
  BY <1>1, <1>2, AppendProperties
<1>4. Requested' = 1 .. NewFile /\ NewFile = Len(lens) + 1
  BY <1>3 DEF Requested, NewFile
<1>5. QED
  BY <1>1, <1>2, <1>3, <1>4

(* Files, queue and output that are left alone stay as they were.          *)
LEMMA SameQueue ==
  ASSUME QueueInv, UNCHANGED << lens, dropped, tagAsked, forceNew, queue, file >>
  PROVE  QueueInv'
<1>1. Waits(queue', file', tagAsked')
  BY DEF QueueInv
<1>2. forceNew' => queue' = << >>
  BY DEF QueueInv
<1>3. ~forceNew' => Accounted(queue', file', Len(lens'), dropped')
  BY DEF QueueInv
<1>4. QED
  BY <1>1, <1>2, <1>3 DEF QueueInv

LEMMA SameOut ==
  ASSUME OutInv, UNCHANGED << lens, out, file >>
  PROVE  OutInv'
BY DEF OutInv, Requested

(* The oldest file of queue q is opened: it was asked for after the file   *)
(* before.                                                                 *)
LEMMA OpenFirstPlain ==
  ASSUME PlainInv, NEW q \in Seq([file : Requested', tags : BOOLEAN]),
         Waits(q, file, tagAsked'), OpenFirst(q),
         Len(lens') \in Nat, Requested' = 1 .. Len(lens')
  PROVE  /\ file' \in Requested' /\ file' > file /\ pos' = 0
         /\ isOpen' = TRUE /\ tagNow' \in BOOLEAN
         /\ file' \in tagAsked' => tagNow'
         /\ queue' \in Seq([file : Requested', tags : BOOLEAN])
         /\ Waits(queue', file', tagAsked')
         /\ Accounted(q, file, Len(lens'), dropped') =>
              /\ Accounted(queue', file', Len(lens'), dropped')
              /\ \A h \in file + 1 .. file' - 1 : h \in dropped'
<1> DEFINE n == Len(lens')
           e == NextEntry(q)
<1>1. n \in Nat /\ q \in Seq([file : 1 .. n, tags : BOOLEAN]) /\ q # << >>
  BY DEF OpenFirst
<1>2. file \in Nat
  BY Counts
<1>3. /\ e.file \in 1 .. n /\ e.tags \in BOOLEAN /\ e.file > file
      /\ e.file \in tagAsked' => e.tags
      /\ Tail(q) \in Seq([file : 1 .. n, tags : BOOLEAN])
      /\ Waits(Tail(q), e.file, tagAsked')
      /\ Accounted(q, file, n, dropped') =>
           /\ Accounted(Tail(q), e.file, n, dropped')
           /\ \A h \in file + 1 .. e.file - 1 : h \in dropped'
  <2> HIDE DEF n
  <2>1. QED
    BY <1>1, <1>2, HeadWaits
<1>4. isOpen' = TRUE /\ file' = e.file /\ pos' = 0 /\ tagNow' = e.tags /\ queue' = Tail(q)
  BY DEF OpenFirst
<1> HIDE DEF e
<1>5. QED
  BY <1>3, <1>4

LEMMA AskPlain ==
  ASSUME PlainInv, NEW length \in LengthChoices, NEW again \in BOOLEAN, Ask(length, again),
         file' \in Requested' \cup {NoFile}, file' >= file, isOpen' \in BOOLEAN,
         isOpen' => file' # NoFile /\ pos' \in 0 .. lens'[file'],
         queue' \in Seq([file : Requested', tags : BOOLEAN]),
         dropped' \subseteq Requested', tagAsked' \subseteq Requested',
         firstPass' \in BOOLEAN, tagNow' \in BOOLEAN, pc' \in {"idle", "raised"}
  PROVE  TypeOK' /\ OutInv'
<1>1. /\ lens' \in Seq(LengthChoices) /\ Requested \subseteq Requested'
      /\ Requested = 1 .. Len(lens) /\ Requested' = 1 .. NewFile
      /\ Len(lens) \in Nat /\ NewFile = Len(lens) + 1
  BY AskGrows, Counts
<1>2. UNCHANGED << disturbed, forceNew, tagOnOpen, depth, noutput, size, got, carry, out >>
  BY DEF Ask, outputVars
<1>3. repeat' = again
  BY DEF Ask
<1>4. TypeOK'
  BY <1>1, <1>2, <1>3 DEF PlainInv, TypeOK, Length
<1>5. OutInv'
  <2>1. out \in [file : Requested \cup {NoFile}, first : Nat, next : Nat, tags : SUBSET Requested]
    BY DEF PlainInv, OutInv
  <2>2. out' \in [file : Requested' \cup {NoFile}, first : Nat, next : Nat,
                  tags : SUBSET Requested']
    BY <1>1, <1>2, <2>1
  <2>3. out.file <= file /\ out.file \in Int /\ file \in Int /\ file' \in Int
    BY <1>1, Counts DEF PlainInv, OutInv, NoFile
  <2>4. QED
    BY <1>2, <2>2, <2>3 DEF OutInv
<1>6. QED
  BY <1>4, <1>5

(* Files are opened, queued and cleared in the order they were asked for.  *)
LEMMA RequestPlain ==
  ASSUME PlainInv, Request
  PROVE  PlainInv'
<1>1. PICK length \in LengthChoices, again \in BOOLEAN :
        \/ OpenForced(length, again)
        \/ Open(length, again)
        \/ \E by \in {"message", "script"} :
             OpenForcedFails(length, again, by) \/ OpenFails(length, again, by)
  BY DEF Request
<1>2. Ask(length, again) /\ pc = "idle"
  BY <1>1 DEF OpenForced, OpenForcedFails, Open, OpenFails, Enqueue, Ask
<1>3. /\ lens' \in Seq(LengthChoices)
      /\ NewFile = Len(lens) + 1 /\ Len(lens') = NewFile
      /\ Requested' = 1 .. NewFile /\ Requested \subseteq Requested'
      /\ \A f \in Requested : lens'[f] = lens[f]
      /\ lens'[NewFile] = length /\ length \in Nat
  BY <1>2, AskGrows
<1>4. /\ Len(lens) \in Nat /\ Requested = 1 .. Len(lens)
      /\ file \in 0 .. Len(lens)
      /\ isOpen => file \in Requested /\ pos \in 0 .. lens[file]
  BY Counts DEF Length
<1>5. forceNew' = forceNew
  BY <1>2 DEF Ask
<1>6. /\ dropped \subseteq Requested /\ tagAsked \subseteq Requested
      /\ {firstPass, tagNow, isOpen, forceNew} \subseteq BOOLEAN
      /\ queue \in Seq([file : Requested, tags : BOOLEAN])
  BY DEF PlainInv, TypeOK
<1>7. NewFile \in Requested' /\ NewFile \notin Requested /\ NewFile > file /\ NewFile # NoFile
  BY <1>3, <1>4 DEF NoFile
<1>8. \A by : Raised(by) => pc' \in {"idle", "raised"}
  BY <1>2 DEF Raised
<1>9. ASSUME forceNew
      PROVE  queue = << >> /\ queue \in Seq([file : Requested', tags : BOOLEAN])
             /\ \A f, asked : Waits(queue, f, asked)
  <2>1. queue = << >>
    BY <1>9 DEF PlainInv, QueueInv
  <2>2. QED
    BY <2>1, EmptySeq DEF Waits
<1>10. CASE OpenForced(length, again)
  <2>1. /\ isOpen' = TRUE /\ file' = NewFile /\ pos' = 0 /\ tagNow' = TRUE /\ forceNew
        /\ tagAsked' = tagAsked \cup {NewFile}
    BY <1>10 DEF OpenForced
  <2>2. UNCHANGED << dropped, firstPass, queue, pc >>
    BY <1>10 DEF OpenForced
  <2>3. TypeOK' /\ OutInv'
    <3>1. pos' \in 0 .. lens'[file']
      BY <1>3, <2>1
    <3>2. dropped' \subseteq Requested' /\ tagAsked' \subseteq Requested'
      BY <1>3, <1>6, <1>7, <2>1, <2>2
    <3>3. file' \in Requested' /\ file' >= file /\ file' # NoFile
      BY <1>3, <1>4, <1>7, <2>1
    <3>4. queue' \in Seq([file : Requested', tags : BOOLEAN])
      BY <1>9, <2>1, <2>2
    <3>5. QED
      BY <1>2, <1>6, <2>1, <2>2, <3>1, <3>2, <3>3, <3>4, AskPlain
  <2>4. QueueInv'
    <3>1. queue' = << >> /\ Waits(queue', file', tagAsked') /\ forceNew'
      BY <1>5, <1>9, <2>1, <2>2
    <3>2. QED
      BY <3>1 DEF QueueInv
  <2>5. QED
    BY <2>3, <2>4 DEF PlainInv
<1>11. ASSUME NEW by \in {"message", "script"}, OpenForcedFails(length, again, by)
       PROVE  PlainInv'
  <2>1. isOpen' = FALSE /\ Raised(by) /\ forceNew
    BY <1>11 DEF OpenForcedFails
  <2>2. UNCHANGED << dropped, tagAsked, firstPass, queue, tagNow, file, pos >>
    BY <1>11 DEF OpenForcedFails
  <2>3. TypeOK' /\ OutInv'
    <3>1. dropped' \subseteq Requested' /\ tagAsked' \subseteq Requested'
      BY <1>3, <1>6, <2>2
    <3>2. file' \in Requested' \cup {NoFile} /\ file' >= file
      BY <1>3, <1>4, <2>2 DEF NoFile
    <3>3. queue' \in Seq([file : Requested', tags : BOOLEAN])
      BY <1>9, <2>1, <2>2
    <3>4. pc' \in {"idle", "raised"}
      BY <1>8, <2>1
    <3>5. QED
      BY <1>2, <1>6, <2>1, <2>2, <3>1, <3>2, <3>3, <3>4, AskPlain
  <2>4. QueueInv'
    <3>1. queue' = << >> /\ Waits(queue', file', tagAsked') /\ forceNew'
      BY <1>5, <1>9, <2>1, <2>2
    <3>2. QED
      BY <3>1 DEF QueueInv
  <2>5. QED
    BY <2>3, <2>4 DEF PlainInv
<1>12. ASSUME Enqueue(length, again)
       PROVE  /\ ~forceNew
              /\ firstPass' \in BOOLEAN
              /\ dropped' \subseteq Requested' /\ tagAsked' \subseteq Requested'
              /\ Queued # << >> /\ Queued \in Seq([file : Requested', tags : BOOLEAN])
              /\ Waits(Queued, file, tagAsked')
              /\ Accounted(Queued, file, Len(lens'), dropped')
  <2>1. /\ Queued # << >>
        /\ Queued \in Seq([file : 1 .. NewFile, tags : BOOLEAN])
        /\ Waits(Queued, file, tagAsked')
        /\ Accounted(Queued, file, NewFile, dropped')
    BY <1>12, QueuedWaits
  <2>2. ~forceNew /\ firstPass' \in BOOLEAN
    BY <1>6, <1>12 DEF Enqueue, Full
  <2>3. tagAsked' \subseteq Requested'
    BY <1>3, <1>6, <1>7, <1>12 DEF Enqueue
  <2>4. {queue[i].file : i \in 1 .. Len(queue)} \subseteq Requested
    <3>1. \A i \in 1 .. Len(queue) : queue[i] \in [file : Requested, tags : BOOLEAN]
      BY <1>6, ElementOfSeq
    <3>2. QED
      BY <3>1
  <2>5. dropped' \subseteq Requested'
    BY <1>3, <1>6, <1>12, <2>4 DEF Enqueue
  <2>6. QED
    BY <1>3, <2>1, <2>2, <2>3, <2>5
<1>13. ASSUME Enqueue(length, again), pc' \in {"idle", "raised"},
              queue' = Queued, file' = file, isOpen' \in BOOLEAN, isOpen' => isOpen,
              UNCHANGED << pos, tagNow >>
       PROVE  PlainInv'
  <2>1. TypeOK' /\ OutInv'
    <3>1. file' \in Requested' \cup {NoFile} /\ file' >= file
      BY <1>3, <1>4, <1>13 DEF NoFile
    <3>2. isOpen' => file' # NoFile /\ pos' \in 0 .. lens'[file']
      BY <1>3, <1>4, <1>13 DEF NoFile
    <3>3. QED
      BY <1>2, <1>6, <1>12, <1>13, <3>1, <3>2, AskPlain
  <2>2. QueueInv'
    BY <1>5, <1>12, <1>13 DEF QueueInv
  <2>3. QED
    BY <2>1, <2>2 DEF PlainInv
<1>14. CASE Open(length, again)
  <2>1. Enqueue(length, again) /\ pc' = pc
    BY <1>14 DEF Open
  <2>2. CASE KeepReader(Queued)
    <3>1. queue' = Queued /\ UNCHANGED << isOpen, file, pos, tagNow >>
      BY <2>2 DEF KeepReader, readerVars
    <3>2. QED
      BY <1>2, <1>6, <1>13, <2>1, <3>1
  <2>3. CASE ~isOpen /\ OpenFirst(Queued)
    <3>1. /\ file' \in Requested' /\ file' > file /\ pos' = 0
          /\ isOpen' = TRUE /\ tagNow' \in BOOLEAN
          /\ queue' \in Seq([file : Requested', tags : BOOLEAN])
          /\ Waits(queue', file', tagAsked')
          /\ Accounted(queue', file', Len(lens'), dropped')
      <4>1. Len(lens') \in Nat /\ Requested' = 1 .. Len(lens')
        BY <1>3, <1>4
      <4>2. QED
        BY <1>12, <2>1, <2>3, <4>1, OpenFirstPlain
    <3>2. TypeOK' /\ OutInv'
      <4>1. lens'[file'] \in Nat
        BY <1>3, <3>1, ElementOfSeq, SourceAssumption
      <4>2. file' # NoFile /\ pos' \in 0 .. lens'[file'] /\ file' >= file
        BY <1>3, <1>4, <3>1, <4>1 DEF NoFile
      <4>3. QED
        BY <1>2, <1>6, <1>12, <2>1, <3>1, <4>2, AskPlain
    <3>3. QueueInv'
      BY <1>5, <1>12, <2>1, <3>1 DEF QueueInv
    <3>4. QED
      BY <3>2, <3>3 DEF PlainInv
  <2>4. QED
    BY <1>14, <2>2, <2>3 DEF Open
<1>15. ASSUME NEW by \in {"message", "script"}, OpenFails(length, again, by)
       PROVE  PlainInv'
  <2>1. Enqueue(length, again) /\ OpenFirstFails(Queued) /\ Raised(by)
    BY <1>15 DEF OpenFails
  <2>2. queue' = Queued /\ isOpen' = FALSE /\ UNCHANGED << file, pos, tagNow >>
    BY <2>1 DEF OpenFirstFails
  <2>3. QED
    BY <1>8, <1>13, <2>1, <2>2
<1>16. QED
  BY <1>1, <1>10, <1>11, <1>14, <1>15

(* The other methods touch neither queue nor output.                       *)
LEMMA ControlPlain ==
  ASSUME PlainInv, ControlCall
  PROVE  PlainInv'
<1> USE DEF historyVars, settingVars, callVars, outputVars, readerVars
<1>1. UNCHANGED << lens, dropped, tagAsked, forceNew, queue, file, out >>
  BY DEF ControlCall, Close, Seek, AddFileTags, SetFileQueueDepth
<1>2. QueueInv' /\ OutInv'
  BY <1>1, SameQueue, SameOut DEF PlainInv
<1>3. TypeOK'
  <2>1. TypeOK
    BY DEF PlainInv
  <2>2. CASE Close
    BY <2>1, <2>2 DEF Close, TypeOK, Requested, Length
  <2>3. ASSUME NEW length \in LengthChoices, NEW p \in 0 .. length, Seek(p)
        PROVE  TypeOK'
    <3>1. p \in 0 .. Length(file)
      <4>1. length \in Nat /\ p <= Length(file) /\ Length(file) \in Nat
        BY <2>3, Counts, SourceAssumption DEF Seek
      <4>2. QED
        BY <4>1
    <3>2. QED
      BY <2>1, <2>3, <3>1 DEF Seek, TypeOK, Requested, Length
  <2>4. ASSUME NEW b \in BOOLEAN, AddFileTags(b)
        PROVE  TypeOK'
    BY <2>1, <2>4 DEF AddFileTags, TypeOK, Requested, Length
  <2>5. ASSUME NEW d \in DepthChoices, SetFileQueueDepth(d)
        PROVE  TypeOK'
    BY <2>1, <2>5 DEF SetFileQueueDepth, TypeOK, Requested, Length
  <2>6. QED
    BY <2>2, <2>3, <2>4, <2>5 DEF ControlCall
<1>4. QED
  BY <1>2, <1>3 DEF PlainInv

LEMMA BeginPlain ==
  ASSUME PlainInv, NEW n \in 1 .. MaxItems, WorkBegin(n)
  PROVE  PlainInv'
<1> USE DEF historyVars, settingVars, callVars, outputVars, readerVars
<1>1. UNCHANGED << lens, dropped, tagAsked, forceNew, queue, file, out >>
  BY DEF WorkBegin
<1>2. QueueInv' /\ OutInv'
  BY <1>1, SameQueue, SameOut DEF PlainInv
<1>3. TypeOK'
  <2>1. TypeOK /\ n \in 0 .. MaxItems /\ n \in 0 .. n /\ 0 \in 0 .. n
    BY SourceAssumption DEF PlainInv
  <2>2. QED
    BY <2>1 DEF WorkBegin, TypeOK, Requested, Length
<1>4. QED
  BY <1>2, <1>3 DEF PlainInv

(* What a turn of the loop reads is within the call and within the file.   *)
LEMMA AvailableFits ==
  ASSUME PlainInv
  PROVE  /\ size \in Nat /\ noutput \in Nat /\ size <= noutput
         /\ Available \in 0 .. size
         /\ isOpen => pos + Available \in 0 .. Length(file) /\ Length(file) \in Nat
         /\ ~isOpen => Available = 0
         /\ isOpen /\ size > 0 /\ Available = 0 => pos = Length(file)
<1>1. noutput \in Nat /\ size \in Nat /\ size <= noutput
  BY SourceAssumption DEF PlainInv, TypeOK
<1>2. isOpen => pos \in 0 .. Length(file) /\ Length(file) \in Nat
  BY Counts
<1>3. isOpen \in BOOLEAN
  BY DEF PlainInv, TypeOK
<1> DEFINE l == Length(file)
<1>4. isOpen => pos \in 0 .. l /\ l \in Nat
  BY <1>2
<1>5. Available = IF ~isOpen THEN 0 ELSE IF size < l - pos THEN size ELSE l - pos
  BY DEF Available
<1> HIDE DEF l
<1>6. /\ Available \in 0 .. size
      /\ isOpen => pos + Available \in 0 .. l
      /\ ~isOpen => Available = 0
      /\ isOpen /\ size > 0 /\ Available = 0 => pos = l
  BY <1>1, <1>4, <1>5
<1>7. QED
  BY <1>1, <1>2, <1>6 DEF l

(* work() produces items of the open file, and takes files off the queue   *)
(* in order.                                                               *)
LEMMA WorkPlain ==
  ASSUME PlainInv, FileKnown, WorkStep
  PROVE  PlainInv'
<1> USE DEF historyVars, settingVars, callVars, outputVars, readerVars
<1>1. TypeOK /\ QueueInv /\ OutInv
  BY DEF PlainInv
<1>2. CASE Read
  <2> DEFINE k == Available
             due == IF tagNow THEN carry \cup {file} ELSE carry
  <2>1. /\ size \in Nat /\ noutput \in Nat /\ size <= noutput
        /\ k \in 0 .. size
        /\ isOpen => pos + k \in 0 .. Length(file) /\ Length(file) \in Nat
        /\ ~isOpen => k = 0
    BY AvailableFits
  <2>2. /\ UNCHANGED << lens, dropped, tagAsked, disturbed, forceNew, repeat, firstPass,
                        tagOnOpen, depth, queue, isOpen, file, noutput >>
        /\ tagNow' = FALSE /\ got' = k /\ size' = size - k /\ pos' = pos + k
        /\ pc' = "check"
    BY <1>2 DEF Read, TagNowReset
  <2>3. IF k = 0 THEN carry' = due /\ out' = out
        ELSE /\ out' = [file |-> file, first |-> pos, next |-> pos + k, tags |-> due]
             /\ carry' = {}
    BY <1>2 DEF Read
  <2>4. file \in Requested \cup {NoFile} /\ (isOpen => file \in Requested)
    BY <1>1 DEF TypeOK
  <2>5. carry \subseteq Requested /\ (isOpen => due \subseteq Requested)
    BY <1>1, <2>4 DEF TypeOK
  <2> HIDE DEF k, due
  <2>6. QueueInv'
    BY <1>1, <2>2, SameQueue
  <2>7. ~isOpen \/ k = 0 \/ isOpen
    BY <1>1 DEF TypeOK
  <2>8. CASE isOpen
    <3>1. OutInv'
      <4>1. CASE k = 0
        BY <1>1, <2>2, <2>3, <4>1, SameOut
      <4>2. CASE k # 0
        <5>1. pos \in Nat /\ pos + k \in Nat /\ file \in Int
          BY <2>1, <2>8, Counts
        <5>2. out'.file = file /\ out' \in [file : Requested \cup {NoFile}, first : Nat,
                                            next : Nat, tags : SUBSET Requested]
          BY <2>3, <2>4, <2>5, <2>8, <4>2, <5>1
        <5>3. Requested' = Requested /\ file' = file
          BY <2>2 DEF Requested
        <5>4. QED
          BY <5>1, <5>2, <5>3 DEF OutInv
      <4>3. QED
        BY <4>1, <4>2
    <3>2. TypeOK'
      <4>1. carry' \subseteq Requested
        BY <2>3, <2>5, <2>8
      <4>2. size - k \in 0 .. noutput /\ k \in 0 .. noutput /\ pos + k \in 0 .. Length(file)
        BY <2>1, <2>8
      <4>3. Requested' = Requested /\ \A f : Length(f)' = Length(f)
        BY <2>2 DEF Requested, Length
      <4>4. QED
        BY <1>1, <2>2, <4>1, <4>2, <4>3 DEF TypeOK
    <3>3. QED
      BY <2>6, <3>1, <3>2 DEF PlainInv
  <2>9. CASE ~isOpen
    <3>1. k = 0
      BY <2>1, <2>9
    <3>2. OutInv'
      BY <1>1, <2>2, <2>3, <3>1, SameOut
    <3>3. TypeOK'
      <4>1. file # NoFile
        BY <1>2 DEF FileKnown, Read
      <4>2. due \subseteq Requested
        BY <2>4, <2>5, <4>1 DEF due
      <4>3. carry' \subseteq Requested
        BY <2>3, <3>1, <4>2
      <4>4. size' \in 0 .. noutput /\ got' \in 0 .. noutput
        BY <2>1, <2>2, <3>1
      <4>5. Requested' = Requested
        BY <2>2 DEF Requested
      <4>6. QED
        BY <1>1, <2>2, <2>9, <4>3, <4>4, <4>5 DEF TypeOK
    <3>4. QED
      BY <2>6, <3>2, <3>3 DEF PlainInv
  <2>10. QED
    BY <2>8, <2>9, <1>1 DEF TypeOK
<1>3. ASSUME UNCHANGED << lens, dropped, tagAsked, disturbed, forceNew, repeat, firstPass,
                          tagOnOpen, depth, queue, file, out, tagNow, carry >>,
             isOpen' \in {isOpen, FALSE}, pos' \in {pos, 0},
             pc' \in {"idle", "loop", "check", "zero", "end", "done", "raised", "crashed"},
             noutput' \in {noutput, 0}, size' \in {size, 0}, got' \in {got, 0},
             noutput' = 0 => size' = 0 /\ got' = 0
      PROVE  PlainInv'
  <2>1. QueueInv' /\ OutInv'
    BY <1>1, <1>3, SameQueue, SameOut
  <2>2. TypeOK'
    <3>1. Requested' = Requested /\ \A f : Length(f)' = Length(f)
      BY <1>3 DEF Requested, Length
    <3>2. isOpen' => file' # NoFile /\ pos' \in 0 .. Length(file)
      <4>1. isOpen => file # NoFile /\ pos \in 0 .. Length(file) /\ Length(file) \in Nat
        BY <1>1, Counts DEF TypeOK
      <4>2. isOpen' => isOpen
        BY <1>3
      <4>3. QED
        BY <1>3, <4>1, <4>2
    <3>3. Length(file) = lens'[file']
      BY <1>3 DEF Length
    <3>4. isOpen' => file' # NoFile /\ pos' \in 0 .. lens'[file']
      BY <3>2, <3>3
    <3>5. /\ noutput' \in 0 .. MaxItems /\ size' \in 0 .. noutput' /\ got' \in 0 .. noutput'
      BY <1>1, <1>3, SourceAssumption DEF TypeOK
    <3>6. isOpen' \in BOOLEAN
      BY <1>1, <1>3 DEF TypeOK
    <3>7. QED
      BY <1>1, <1>3, <3>1, <3>4, <3>5, <3>6 DEF TypeOK, Length
  <2>3. QED
    BY <2>1, <2>2 DEF PlainInv
<1>4. CASE Check
  <2>1. UNCHANGED << lens, dropped, tagAsked, disturbed, forceNew, repeat, firstPass, tagOnOpen,
                     depth, queue, file, out, tagNow, carry, isOpen, pos, noutput, size >>
    BY <1>4 DEF Check
  <2>2. pc' \in {"end", "loop", "zero"} /\ got' = 0
    BY <1>4 DEF Check
  <2>3. noutput' = 0 => size' = 0
    BY <1>1, <2>1 DEF TypeOK
  <2>4. QED
    BY <1>3, <2>1, <2>2, <2>3
<1>5. ASSUME UNCHANGED << lens, dropped, tagAsked, disturbed, forceNew, repeat, firstPass,
                          tagOnOpen, depth, queue, file, out, tagNow, carry, noutput, size, got >>,
             isOpen' \in {isOpen, FALSE}, pos' \in {pos, 0},
             pc' \in {"loop", "end", "raised", "crashed"}
      PROVE  PlainInv'
  <2>1. noutput' = 0 => size' = 0 /\ got' = 0
    BY <1>1, <1>5 DEF TypeOK
  <2>2. QED
    BY <1>3, <1>5, <2>1
<1>6. CASE Rewind \/ LastFile \/ NextFileFails \/ Short \/ EofCrash
  <2>1. UNCHANGED << lens, dropped, tagAsked, disturbed, forceNew, repeat, firstPass, tagOnOpen,
                     depth, queue, file, out, tagNow, carry, noutput, size, got >>
    BY <1>6 DEF Rewind, LastFile, NextFileFails, Short, EofCrash, OpenFirstFails
  <2>2. isOpen' \in {isOpen, FALSE} /\ pos' \in {pos, 0}
    BY <1>6 DEF Rewind, LastFile, NextFileFails, Short, EofCrash, OpenFirstFails, Rewound
  <2>3. pc' \in {"loop", "end", "raised", "crashed"}
    BY <1>6 DEF Rewind, LastFile, NextFileFails, Short, EofCrash
  <2>4. QED
    BY <1>5, <2>1, <2>2, <2>3
<1>7. CASE NextFile
  <2>1. /\ UNCHANGED << lens, dropped, tagAsked, disturbed, forceNew, repeat, firstPass,
                        tagOnOpen, depth, noutput, size, got, carry, out >>
        /\ OpenFirst(queue) /\ pc' = "end"
    BY <1>7 DEF NextFile
  <2>2. /\ Requested' = Requested /\ Len(lens') \in Nat /\ Requested' = 1 .. Len(lens')
        /\ \A f : Length(f)' = Length(f)
    BY <2>1, Counts DEF Requested, Length
  <2>3. queue \in Seq([file : Requested', tags : BOOLEAN]) /\ Waits(queue, file, tagAsked')
    BY <1>1, <2>1, <2>2 DEF TypeOK, QueueInv
  <2>4. /\ file' \in Requested' /\ file' > file /\ pos' = 0
        /\ isOpen' = TRUE /\ tagNow' \in BOOLEAN
        /\ queue' \in Seq([file : Requested', tags : BOOLEAN])
        /\ Waits(queue', file', tagAsked')
        /\ Accounted(queue, file, Len(lens'), dropped') =>
             Accounted(queue', file', Len(lens'), dropped')
    BY <2>1, <2>2, <2>3, OpenFirstPlain
  <2>5. ~forceNew
    BY <1>1, <2>1 DEF OpenFirst, QueueInv
  <2>6. QueueInv'
    BY <1>1, <2>1, <2>4, <2>5 DEF QueueInv
  <2>7. OutInv'
    <3>1. out.file <= file /\ out.file \in Int /\ file \in Int /\ file' \in Int
      BY <1>1, <2>2, <2>4, Counts DEF OutInv
    <3>2. QED
      BY <1>1, <2>1, <2>2, <2>4, <3>1 DEF OutInv
  <2>8. TypeOK'
    <3>1. file' # NoFile /\ Length(file') \in Nat
      BY <2>2, <2>4, Counts DEF NoFile, Length
    <3>2. isOpen' => file' # NoFile /\ pos' \in 0 .. Length(file')
      BY <2>4, <3>1
    <3>3. Length(file') = lens'[file']
      BY <2>1 DEF Length
    <3>4. isOpen' => file' # NoFile /\ pos' \in 0 .. lens'[file']
      BY <3>2, <3>3
    <3>5. QED
      BY <1>1, <2>1, <2>2, <2>4, <3>4 DEF TypeOK, Length
  <2>9. QED
    BY <2>6, <2>7, <2>8 DEF PlainInv
<1>8. CASE WorkEnd
  <2>1. UNCHANGED << lens, dropped, tagAsked, disturbed, forceNew, repeat, firstPass, tagOnOpen,
                     depth, queue, file, out, tagNow, carry, isOpen, pos >>
    BY <1>8 DEF WorkEnd
  <2>2. pc' \in {"done", "idle"} /\ noutput' = 0 /\ size' = 0 /\ got' = 0
    BY <1>8 DEF WorkEnd
  <2>3. QED
    BY <1>3, <2>1, <2>2
<1>9. QED
  BY <1>2, <1>4, <1>6, <1>7, <1>8 DEF WorkStep
-----------------------------------------------------------------------------
(* The files that are over with stay so, whatever is asked for and cleared *)
(* after them.                                                             *)
LEMMA OverGrows ==
  ASSUME NEW o, NEW n \in Nat, o.file \in 0 .. n, NEW l, NEW m, NEW gone, NEW more,
         NEW f \in 0 .. n + 1, NEW g \in Int, Over(o, l, gone, f),
         \A h \in 1 .. n : m[h] = l[h], gone \subseteq more,
         \A h \in f .. g - 1 : h \in more
  PROVE  Over(o, m, more, g)
<1>1. o.file # NoFile => o.next = m[o.file]
  BY DEF Over, NoFile
<1>2. ASSUME NEW h \in o.file + 1 .. g - 1
      PROVE  h \in more \/ m[h] = 0
  <2>1. CASE h \in f .. g - 1
    BY <2>1
  <2>2. CASE h < f
    <3>1. h \in o.file + 1 .. f - 1 /\ h \in 1 .. n
      BY <2>2
    <3>2. QED
      BY <3>1 DEF Over
  <2>3. QED
    BY <2>1, <2>2
<1>3. QED
  BY <1>1, <1>2 DEF Over

(* A file that was played to its end, or is empty, is over with too.       *)
LEMMA EndReached ==
  ASSUME PlainInv, CallInv, PlayInv, pc = "zero", ~forceNew
  PROVE  Over(out, lens, dropped, file + 1)
<1>1. isOpen /\ pos = Length(file)
  BY DEF CallInv
<1>2. file \in Nat /\ out.file \in Nat /\ out.file <= file
  BY Counts DEF PlainInv, OutInv
<1>3. CASE InStream
  BY <1>1, <1>2, <1>3 DEF PlayInv, Over, InStream, Length
<1>4. CASE ~InStream
  <2>1. Over(out, lens, dropped, file) /\ lens[file] = 0
    BY <1>1, <1>4 DEF PlayInv, Length
  <2>2. ASSUME NEW h \in out.file + 1 .. (file + 1) - 1
        PROVE  h \in dropped \/ lens[h] = 0
    <3>1. h = file \/ h \in out.file + 1 .. file - 1
      BY <1>2
    <3>2. QED
      BY <2>1, <3>1 DEF Over
  <2>3. QED
    BY <2>1, <2>2 DEF Over
<1>5. QED
  BY <1>3, <1>4

LEMMA AskCalm ==
  ASSUME PlainInv, CalmInv, ~disturbed, NEW length \in LengthChoices, NEW again,
         Ask(length, again), pc' \in {"idle", "raised"},
         isOpen' /\ out.file = file' => isOpen /\ UNCHANGED << file, pos >>,
         isOpen' /\ out.file # file' =>
           pos' = 0 /\ (~forceNew => Over(out, lens', dropped', file')),
         ~isOpen' /\ ~forceNew => Over(out, lens', dropped', file' + 1),
         tagNow' /\ isOpen' => pos' = 0,
         isOpen' /\ out.file # file' /\ file' \in tagAsked' => tagNow' \/ lens'[file'] = 0
  PROVE  CalmInv'
<1>1. UNCHANGED << disturbed, forceNew, noutput, size, got, carry, out >> /\ pc = "idle"
  BY DEF Ask, outputVars
<1>2. CallInv'
  BY DEF CallInv
<1>3. PlayInv'
  <2>1. ASSUME isOpen', InStream'
        PROVE  lens'[file'] > 0 /\ pos' = out.next
    <3>1. isOpen /\ UNCHANGED << file, pos >> /\ InStream
      BY <1>1, <2>1 DEF InStream
    <3>2. lens'[file] = lens[file]
      BY <3>1, AskGrows, Counts
    <3>3. QED
      BY <1>1, <3>1, <3>2 DEF CalmInv, PlayInv, Length
  <2>2. ASSUME isOpen', ~InStream'
        PROVE  pos' = 0 /\ (~forceNew => Over(out, lens', dropped', file'))
    BY <1>1, <2>2 DEF InStream
  <2>3. QED
    BY <1>1, <2>1, <2>2 DEF PlayInv, Length
<1>4. TagInv'
  <2>1. carry' = {}
    BY <1>1 DEF CalmInv, TagInv
  <2>2. TagsOnFirstItem'
    BY <1>1 DEF CalmInv, TagInv, TagsOnFirstItem
  <2>3. InStream' <=> out.file = file'
    BY <1>1 DEF InStream
  <2>4. QED
    BY <2>1, <2>2, <2>3 DEF TagInv, Length
<1>5. QED
  BY <1>2, <1>3, <1>4 DEF CalmInv

LEMMA RequestCalm ==
  ASSUME PlainInv, CalmInv, ~disturbed, Request
  PROVE  CalmInv'
<1>1. PICK length \in LengthChoices, again \in BOOLEAN :
        \/ OpenForced(length, again)
        \/ Open(length, again)
        \/ \E by \in {"message", "script"} :
             OpenForcedFails(length, again, by) \/ OpenFails(length, again, by)
  BY DEF Request
<1>2. Ask(length, again) /\ pc = "idle"
  BY <1>1 DEF OpenForced, OpenForcedFails, Open, OpenFails, Enqueue, Ask
<1>3. /\ NewFile = Len(lens) + 1 /\ Len(lens') = NewFile
      /\ Requested' = 1 .. NewFile
      /\ \A f \in 1 .. Len(lens) : lens'[f] = lens[f]
      /\ Len(lens) \in Nat /\ Requested = 1 .. Len(lens)
  BY <1>2, AskGrows, Counts
<1>4. /\ file \in 0 .. Len(lens) /\ out.file \in 0 .. Len(lens) /\ out.file <= file
      /\ isOpen \in BOOLEAN /\ (isOpen => file \in 1 .. Len(lens))
  BY <1>3, Counts DEF PlainInv, OutInv, TypeOK
<1>5. \A by : Raised(by) => pc' \in {"idle", "raised"}
  BY <1>2 DEF Raised
<1>6. PlayInv /\ TagInv
  BY DEF CalmInv
<1>7. CASE OpenForced(length, again)
  <2>1. isOpen' = TRUE /\ file' = NewFile /\ pos' = 0 /\ tagNow' = TRUE /\ forceNew /\ pc' = pc
    BY <1>7 DEF OpenForced
  <2>2. out.file # file'
    BY <1>3, <1>4, <2>1
  <2>3. QED
    BY <1>2, <2>1, <2>2, AskCalm
<1>8. ASSUME NEW by \in {"message", "script"}, OpenForcedFails(length, again, by)
      PROVE  CalmInv'
  <2>1. isOpen' = FALSE /\ Raised(by) /\ forceNew
    BY <1>8 DEF OpenForcedFails
  <2>2. pc' \in {"idle", "raised"}
    BY <1>5, <2>1
  <2>3. QED
    BY <1>2, <2>1, <2>2, AskCalm
<1>9. ASSUME Enqueue(length, again)
      PROVE  /\ ~forceNew /\ dropped \subseteq dropped'
             /\ Queued # << >> /\ Queued \in Seq([file : Requested', tags : BOOLEAN])
             /\ Waits(Queued, file, tagAsked')
             /\ Accounted(Queued, file, Len(lens'), dropped')
             /\ \A f \in Requested : f \in tagAsked' => f \in tagAsked
  <2>1. /\ Queued # << >>
        /\ Queued \in Seq([file : Requested', tags : BOOLEAN])
        /\ Waits(Queued, file, tagAsked')
        /\ Accounted(Queued, file, Len(lens'), dropped')
    BY <1>3, <1>9, QueuedWaits
  <2>2. ~forceNew /\ dropped \subseteq dropped'
    BY <1>9 DEF Enqueue
  <2>3. NewFile \notin Requested
    BY <1>3
  <2>4. \A f \in Requested : f \in tagAsked' => f \in tagAsked
    BY <1>9, <2>3 DEF Enqueue
  <2>5. QED
    BY <2>1, <2>2, <2>4
<1>10. CASE Open(length, again)
  <2>1. Enqueue(length, again) /\ pc' = pc
    BY <1>10 DEF Open
  <2>2. CASE KeepReader(Queued)
    <3>1. isOpen /\ UNCHANGED << isOpen, file, pos, tagNow >>
      BY <1>9, <2>1, <2>2 DEF KeepReader, readerVars
    <3>2. ASSUME out.file # file
          PROVE  pos = 0 /\ Over(out, lens', dropped', file)
      <4>1. pos = 0 /\ Over(out, lens, dropped, file)
        BY <1>6, <1>9, <2>1, <3>1, <3>2 DEF PlayInv, InStream
      <4>2. file \in 0 .. Len(lens) + 1 /\ file \in Int /\ \A h \in file .. file - 1 : h \in dropped'
        BY <1>3, <1>4
      <4>3. QED
        BY <1>3, <1>4, <1>9, <2>1, <4>1, <4>2, OverGrows
    <3>3. tagNow' /\ isOpen' => pos' = 0
      BY <1>6, <3>1 DEF TagInv
    <3>4. out.file # file /\ file \in tagAsked' => tagNow \/ lens'[file] = 0
      BY <1>3, <1>4, <1>6, <1>9, <2>1, <3>1 DEF TagInv, InStream, Length
    <3>5. QED
      BY <1>2, <2>1, <3>1, <3>2, <3>3, <3>4, AskCalm
  <2>3. CASE ~isOpen /\ OpenFirst(Queued)
    <3>1. /\ file' \in 1 .. NewFile /\ file' > file /\ pos' = 0
          /\ isOpen' = TRUE
          /\ file' \in tagAsked' => tagNow'
          /\ \A h \in file + 1 .. file' - 1 : h \in dropped'
      <4>1. Len(lens') \in Nat /\ Requested' = 1 .. Len(lens')
        BY <1>3
      <4>2. QED
        BY <1>3, <1>9, <2>1, <2>3, <4>1, OpenFirstPlain
    <3>2. Over(out, lens, dropped, file + 1)
      BY <1>6, <1>9, <2>1, <2>3 DEF PlayInv
    <3>3. Over(out, lens', dropped', file')
      <4>1. file + 1 \in 0 .. Len(lens) + 1 /\ file' \in Int
        BY <1>3, <1>4, <3>1
      <4>2. QED
        BY <1>3, <1>4, <1>9, <2>1, <3>1, <3>2, <4>1, OverGrows
    <3>4. out.file # file'
      BY <1>3, <1>4, <3>1
    <3>5. QED
      BY <1>2, <2>1, <3>1, <3>3, <3>4, AskCalm
  <2>4. QED
    BY <1>10, <2>2, <2>3 DEF Open
<1>11. ASSUME NEW by \in {"message", "script"}, OpenFails(length, again, by)
       PROVE  CalmInv'
  <2>1. Enqueue(length, again) /\ OpenFirstFails(Queued) /\ Raised(by) /\ ~isOpen
    BY <1>11 DEF OpenFails
  <2>2. isOpen' = FALSE /\ UNCHANGED << file, pos, tagNow >>
    BY <2>1 DEF OpenFirstFails
  <2>3. Over(out, lens, dropped, file + 1)
    BY <1>6, <1>9, <2>1 DEF PlayInv
  <2>4. Over(out, lens', dropped', file' + 1)
    <3>1. file + 1 \in 0 .. Len(lens) + 1 /\ file + 1 \in Int
          /\ \A h \in file + 1 .. (file + 1) - 1 : h \in dropped'
      BY <1>3, <1>4
    <3>2. Over(out, lens', dropped', file + 1)
      BY <1>3, <1>4, <1>9, <2>1, <2>3, <3>1, OverGrows
    <3>3. QED
      BY <2>2, <3>2
  <2>5. pc' \in {"idle", "raised"}
    BY <1>5, <2>1
  <2>6. QED
    BY <1>2, <2>2, <2>4, <2>5, AskCalm
<1>12. QED
  BY <1>1, <1>7, <1>8, <1>10, <1>11

LEMMA ControlCalm ==
  ASSUME CalmInv, ~disturbed, ControlCall, ~disturbed'
  PROVE  CalmInv'
<1> USE DEF historyVars, settingVars, callVars, outputVars, readerVars
<1>1. UNCHANGED << lens, dropped, tagAsked, forceNew, repeat, tagNow, isOpen, file, pos, pc,
                   noutput, size, got, carry, out >>
  BY DEF ControlCall, Close, Seek, AddFileTags, SetFileQueueDepth
<1>2. CallInv'
  BY <1>1 DEF CalmInv, CallInv, Length
<1>3. PlayInv'
  BY <1>1 DEF CalmInv, PlayInv, InStream, Length
<1>4. TagInv'
  BY <1>1 DEF CalmInv, TagInv, TagsOnFirstItem, InStream, Length
<1>5. QED
  BY <1>2, <1>3, <1>4 DEF CalmInv

LEMMA BeginCalm ==
  ASSUME CalmInv, ~disturbed, NEW n \in 1 .. MaxItems, WorkBegin(n)
  PROVE  CalmInv'
<1> USE DEF historyVars, settingVars, callVars, outputVars, readerVars
<1>1. /\ UNCHANGED << lens, dropped, tagAsked, disturbed, forceNew, repeat, tagNow, isOpen,
                      file, pos, carry, out >>
      /\ pc = "idle" /\ pc' = "loop" /\ isOpen /\ noutput' = n /\ size' = n
  BY DEF WorkBegin
<1>2. n > 0
  OBVIOUS
<1>3. CallInv'
  BY <1>1, <1>2 DEF CallInv
<1>4. PlayInv'
  BY <1>1 DEF CalmInv, PlayInv, InStream, Length
<1>5. TagInv'
  BY <1>1 DEF CalmInv, TagInv, TagsOnFirstItem, InStream, Length
<1>6. QED
  BY <1>3, <1>4, <1>5 DEF CalmInv

(* Items are read on from where the output is, or from the start of a file *)
(* that comes after all that are over with; its tags are due then.         *)
LEMMA ReadCalm ==
  ASSUME PlainInv, CalmInv, ~disturbed, Read
  PROVE  CalmInv'
<1> USE DEF historyVars, settingVars
<1> DEFINE k == Available
           due == IF tagNow THEN carry \cup {file} ELSE carry
<1>1. /\ isOpen /\ size > 0 /\ pc = "loop"
      /\ size \in Nat /\ k \in 0 .. size
      /\ pos + k \in 0 .. Length(file) /\ Length(file) \in Nat /\ pos \in 0 .. Length(file)
      /\ k = 0 => pos = Length(file)
  BY AvailableFits, Counts DEF CalmInv, CallInv, Read
<1>2. /\ UNCHANGED << lens, dropped, tagAsked, disturbed, forceNew, repeat, isOpen, file, noutput >>
      /\ tagNow' = FALSE /\ got' = k /\ size' = size - k /\ pos' = pos + k /\ pc' = "check"
  BY DEF Read, TagNowReset
<1>3. IF k = 0 THEN carry' = due /\ out' = out
      ELSE /\ out' = [file |-> file, first |-> pos, next |-> pos + k, tags |-> due]
           /\ carry' = {}
  BY DEF Read
<1>4. /\ tagNow => pos = 0
      /\ ~InStream /\ file \in tagAsked => tagNow \/ Length(file) = 0
      /\ Length(file) = 0 => size = noutput
      /\ carry # {} => carry = {file} /\ Length(file) = 0
      /\ TagsOnFirstItem
  BY <1>1 DEF CalmInv, TagInv
<1>5. /\ InStream =>
           /\ Length(file) > 0
           /\ pos = out.next \/ (pos = 0 /\ out.next = Length(file) /\ repeat)
      /\ ~InStream => pos = 0 /\ (~forceNew => Over(out, lens, dropped, file))
  BY <1>1 DEF CalmInv, PlayInv
<1>6. Length(file)' = Length(file)
  BY <1>2 DEF Length
<1>7. tagNow \in BOOLEAN
  BY DEF PlainInv, TypeOK
<1> HIDE DEF k
<1>8. CASE k = 0
  <2>1. out' = out /\ carry' = due /\ pos' = pos /\ size' = size /\ pos = Length(file)
    BY <1>1, <1>2, <1>3, <1>8
  <2>2. CallInv'
    BY <1>1, <1>2, <1>6, <2>1 DEF CallInv
  <2>3. InStream' <=> InStream
    BY <1>2, <2>1 DEF InStream
  <2>4. PlayInv'
    BY <1>1, <1>2, <1>5, <1>6, <2>1, <2>3 DEF PlayInv
  <2>5. due # {} => due = {file} /\ Length(file) = 0
    BY <1>4, <2>1
  <2>6. TagsOnFirstItem'
    BY <1>2, <1>4, <2>1 DEF TagsOnFirstItem
  <2>7. ~InStream /\ file \in tagAsked => Length(file) = 0
    BY <1>4, <1>5, <2>1
  <2> HIDE DEF due
  <2>8. TagInv'
    BY <1>1, <1>2, <1>4, <1>6, <2>1, <2>3, <2>5, <2>6, <2>7 DEF TagInv
  <2>9. QED
    BY <2>2, <2>4, <2>8 DEF CalmInv
<1>9. CASE k # 0
  <2>1. /\ out'.file = file /\ out'.first = pos /\ out'.next = pos + k /\ out'.tags = due
        /\ carry' = {} /\ pos' = pos + k
    BY <1>2, <1>3, <1>9
  <2>2. Length(file) > 0 /\ Length(file) # 0
    BY <1>1, <1>9
  <2>3. CallInv'
    BY <1>1, <1>2, <1>9 DEF CallInv
  <2>4. InStream'
    BY <1>2, <2>1 DEF InStream
  <2>5. PlayInv'
    BY <1>1, <1>2, <1>6, <2>1, <2>2, <2>4 DEF PlayInv
  <2>6. TagsOnFirstItem'
    <3>1. carry = {}
      BY <1>4, <2>2
    <3>2. due # {} => due = {file} /\ pos = 0
      BY <1>4, <3>1
    <3>3. QED
      BY <2>1, <3>2 DEF TagsOnFirstItem
  <2>7. TagInv'
    BY <1>2, <1>6, <2>1, <2>2, <2>4, <2>6 DEF TagInv
  <2>8. QED
    BY <2>3, <2>5, <2>7 DEF CalmInv
<1>10. QED
  BY <1>8, <1>9

LEMMA WorkCalm ==
  ASSUME PlainInv, CalmInv, ~disturbed, WorkStep
  PROVE  CalmInv'
<1> USE DEF historyVars, settingVars, callVars, outputVars, readerVars
<1>1. CallInv /\ PlayInv /\ TagInv
  BY DEF CalmInv
<1>2. /\ file \in 0 .. Len(lens) /\ out.file \in 0 .. Len(lens) /\ out.file <= file
      /\ Len(lens) \in Nat /\ Requested = 1 .. Len(lens)
      /\ isOpen => Length(file) \in Nat
      /\ size \in Nat /\ got \in Nat
      /\ {isOpen, forceNew} \subseteq BOOLEAN
  BY Counts, SourceAssumption DEF PlainInv, TypeOK, OutInv
<1>3. CASE Read
  BY <1>3, ReadCalm
<1>4. CASE Check
  <2>1. /\ UNCHANGED << lens, dropped, tagAsked, disturbed, forceNew, repeat, tagNow, isOpen,
                        file, pos, noutput, size, carry, out >>
        /\ pc = "check" /\ got' = 0
        /\ pc' = IF size = 0 THEN "end" ELSE IF got > 0 /\ isOpen THEN "loop" ELSE "zero"
    BY <1>4 DEF Check
  <2>2. InStream' = InStream /\ Length(file)' = Length(file)
    BY <2>1 DEF InStream, Length
  <2>3. CallInv'
    BY <1>1, <1>2, <2>1, <2>2 DEF CallInv
  <2>4. PlayInv'
    BY <1>1, <2>1, <2>2 DEF PlayInv
  <2>5. TagInv'
    <3>1. TagsOnFirstItem'
      BY <1>1, <2>1 DEF TagInv, TagsOnFirstItem
    <3>2. QED
      BY <1>1, <2>1, <2>2, <3>1 DEF TagInv
  <2>6. QED
    BY <2>3, <2>4, <2>5 DEF CalmInv
<1>5. CASE Rewind
  <2>1. /\ UNCHANGED << lens, dropped, tagAsked, disturbed, forceNew, repeat, tagNow, isOpen,
                        file, noutput, size, carry, out >>
        /\ pc = "zero" /\ pc' = "loop" /\ repeat /\ isOpen /\ pos' = 0 /\ size > 0
        /\ pos = Length(file)
    BY <1>1, <1>5 DEF Rewind, Rewound, CallInv
  <2>2. InStream' = InStream /\ Length(file)' = Length(file)
    BY <2>1 DEF InStream, Length
  <2>3. CallInv'
    BY <2>1 DEF CallInv
  <2>4. PlayInv'
    BY <1>1, <2>1, <2>2 DEF PlayInv
  <2>5. TagInv'
    <3>1. TagsOnFirstItem'
      BY <1>1, <2>1 DEF TagInv, TagsOnFirstItem
    <3>2. QED
      BY <1>1, <2>1, <2>2, <3>1 DEF TagInv
  <2>6. QED
    BY <2>3, <2>4, <2>5 DEF CalmInv
<1>6. ASSUME AtEnd, isOpen' = FALSE, pc' \in {"end", "raised"},
             UNCHANGED << lens, dropped, tagAsked, disturbed, forceNew, file, noutput, size, carry,
                          out >>
      PROVE  CalmInv'
  <2>1. pc = "zero"
    BY <1>6 DEF AtEnd
  <2>2. CallInv'
    BY <1>6 DEF CallInv
  <2>3. PlayInv'
    BY <1>1, <1>6, <2>1, EndReached DEF PlayInv
  <2>4. TagInv'
    <3>1. TagsOnFirstItem'
      BY <1>1, <1>6 DEF TagInv, TagsOnFirstItem
    <3>2. QED
      BY <1>1, <1>6, <2>1, <3>1 DEF TagInv
  <2>5. QED
    BY <2>2, <2>3, <2>4 DEF CalmInv
<1>7. CASE LastFile
  BY <1>6, <1>7 DEF LastFile
<1>8. CASE NextFileFails
  BY <1>6, <1>8 DEF NextFileFails, OpenFirstFails
<1>9. CASE NextFile
  <2>1. /\ UNCHANGED << lens, dropped, tagAsked, disturbed, forceNew, repeat, noutput, size,
                        carry, out >>
        /\ pc = "zero" /\ OpenFirst(queue) /\ pc' = "end"
    BY <1>9 DEF NextFile, AtEnd
  <2>2. ~forceNew
    BY <2>1 DEF OpenFirst, PlainInv, QueueInv
  <2>3. /\ file' \in 1 .. Len(lens) /\ file' > file /\ pos' = 0 /\ isOpen' = TRUE
        /\ file' \in tagAsked => tagNow'
        /\ \A h \in file + 1 .. file' - 1 : h \in dropped
    <3>1. /\ queue \in Seq([file : Requested', tags : BOOLEAN]) /\ Waits(queue, file, tagAsked')
          /\ Accounted(queue, file, Len(lens'), dropped')
          /\ Len(lens') \in Nat /\ Requested' = 1 .. Len(lens')
      BY <1>2, <2>1, <2>2 DEF PlainInv, TypeOK, QueueInv, Requested
    <3>2. QED
      BY <1>2, <2>1, <3>1, OpenFirstPlain
  <2>4. Over(out, lens, dropped, file')
    <3>1. Over(out, lens, dropped, file + 1)
      BY <1>1, <2>1, <2>2, EndReached
    <3>2. file + 1 \in 0 .. Len(lens) + 1 /\ file' \in Int
      BY <1>2, <2>3
    <3>3. QED
      BY <1>2, <2>3, <3>1, <3>2, OverGrows
  <2>5. out.file # file' /\ ~InStream'
    BY <1>2, <2>1, <2>3 DEF InStream
  <2>6. CallInv'
    BY <2>1 DEF CallInv
  <2>7. PlayInv'
    BY <2>1, <2>3, <2>4, <2>5 DEF PlayInv
  <2>8. TagInv'
    <3>1. TagsOnFirstItem'
      BY <1>1, <2>1 DEF TagInv, TagsOnFirstItem
    <3>2. carry # {} => size = noutput
      BY <1>1, <2>1 DEF TagInv
    <3>3. QED
      BY <2>1, <2>3, <3>1, <3>2 DEF TagInv
  <2>9. QED
    BY <2>6, <2>7, <2>8 DEF CalmInv
<1>10. CASE Short \/ WorkEnd
  <2>1. UNCHANGED << lens, dropped, tagAsked, disturbed, forceNew, repeat, tagNow, isOpen,
                     file, pos, carry, out >>
    BY <1>10 DEF Short, WorkEnd
  <2>2. InStream' = InStream /\ Length(file)' = Length(file)
    BY <2>1 DEF InStream, Length
  <2>3. \/ pc = "zero" /\ pc' = "end" /\ size' = size /\ noutput' = noutput
        \/ pc = "end" /\ pc' = IF size = noutput THEN "done" ELSE "idle"
    BY <1>10 DEF Short, WorkEnd
  <2>4. CallInv'
    BY <2>3 DEF CallInv
  <2>5. PlayInv'
    BY <1>1, <2>1, <2>2, <2>3 DEF PlayInv
  <2>6. TagInv'
    <3>1. TagsOnFirstItem'
      BY <1>1, <2>1 DEF TagInv, TagsOnFirstItem
    <3>2. QED
      BY <1>1, <2>1, <2>2, <2>3, <3>1 DEF TagInv
  <2>7. QED
    BY <2>4, <2>5, <2>6 DEF CalmInv
<1>11. CASE EofCrash
  BY <1>1, <1>11 DEF EofCrash, CallInv
<1>12. QED
  BY <1>3, <1>4, <1>5, <1>7, <1>8, <1>9, <1>10, <1>11 DEF WorkStep

-----------------------------------------------------------------------------
LEMMA InitInv == Init => IInv
<1> SUFFICES ASSUME Init PROVE IInv
  OBVIOUS
<1>1. lens = << >> /\ lens \in Seq(LengthChoices) /\ Len(lens) = 0
  BY EmptySeq DEF Init
<1>2. queue = << >> /\ queue \in Seq([file : Requested, tags : BOOLEAN]) /\ Len(queue) = 0
  BY EmptySeq DEF Init
<1>3. TypeOK
  <2>1. MaxItems \in Nat
    BY SourceAssumption
  <2>2. /\ dropped = {} /\ tagAsked = {} /\ carry = {} /\ file = NoFile /\ pc = "idle"
        /\ noutput = 0 /\ size = 0 /\ got = 0 /\ depth \in DepthChoices
    BY DEF Init
  <2>3. isOpen = FALSE /\ {disturbed, forceNew, repeat, firstPass, tagOnOpen, tagNow, isOpen}
                           \subseteq BOOLEAN
    BY DEF Init
  <2>4. QED
    BY <1>1, <1>2, <2>1, <2>2, <2>3 DEF TypeOK
<1>4. QueueInv
  BY <1>1, <1>2 DEF Init, QueueInv, Waits, Accounted, NoFile
<1>5. OutInv
  BY DEF Init, OutInv, NoFile
<1>6. CallInv /\ PlayInv /\ FileKnown
  BY DEF Init, CallInv, PlayInv, FileKnown, Over, NoFile
<1>7. TagInv
  BY DEF Init, TagInv, TagsOnFirstItem
<1>8. QED
  BY <1>3, <1>4, <1>5, <1>6, <1>7 DEF IInv, PlainInv, CalmInv

LEMMA StepInv == IInv /\ [Next]_vars => IInv'
<1> SUFFICES ASSUME IInv, [Next]_vars PROVE IInv'
  OBVIOUS
<1>1. PlainInv /\ FileKnown /\ (~disturbed => CalmInv)
  BY DEF IInv
<1>2. CASE Next
  <2>1. PlainInv'
    BY <1>1, <1>2, RequestPlain, ControlPlain, BeginPlain, WorkPlain DEF Next
  <2>2. FileKnown'
    <3>1. CASE Request
      <4>1. pc' \in {"idle", "raised"}
        BY <3>1 DEF Request, OpenForced, OpenForcedFails, Open, OpenFails, Enqueue, Ask, Raised
      <4>2. QED
        BY <4>1 DEF FileKnown
    <3>2. CASE ControlCall
      <4>1. UNCHANGED << pc, file >>
        BY <3>2 DEF ControlCall, Close, Seek, AddFileTags, SetFileQueueDepth, callVars, readerVars
      <4>2. QED
        BY <1>1, <4>1 DEF FileKnown
    <3>3. ASSUME NEW n \in 1 .. MaxItems, WorkBegin(n)
          PROVE  FileKnown'
      BY <1>1, <3>3 DEF WorkBegin, readerVars, FileKnown, PlainInv, TypeOK
    <3>4. CASE Read \/ Check \/ Rewind
      BY <1>1, <3>4 DEF Read, Check, Rewind, readerVars, FileKnown
    <3>5. CASE LastFile \/ NextFile \/ NextFileFails \/ Short \/ EofCrash \/ WorkEnd
      <4>1. pc' \in {"end", "raised", "crashed", "done", "idle"}
        BY <3>5 DEF LastFile, NextFile, NextFileFails, Short, EofCrash, WorkEnd
      <4>2. QED
        BY <4>1 DEF FileKnown
    <3>6. QED
      BY <1>2, <3>1, <3>2, <3>3, <3>4, <3>5 DEF Next, WorkStep
  <2>3. ASSUME ~disturbed'
        PROVE  CalmInv'
    <3>1. ~disturbed
      <4>1. CASE Request
        BY <2>3, <4>1 DEF Request, OpenForced, OpenForcedFails, Open, OpenFails, Enqueue, Ask
      <4>2. CASE ControlCall
        BY <2>3, <4>2 DEF ControlCall, Close, Seek, AddFileTags, SetFileQueueDepth, historyVars
      <4>3. ASSUME NEW n \in 1 .. MaxItems, WorkBegin(n)
            PROVE  ~disturbed
        BY <2>3, <4>3 DEF WorkBegin, historyVars
      <4>4. CASE WorkStep
        BY <2>3, <4>4 DEF WorkStep, Read, Check, Rewind, LastFile, NextFile, NextFileFails, Short,
                          EofCrash, WorkEnd, historyVars
      <4>5. QED
        BY <1>2, <4>1, <4>2, <4>3, <4>4 DEF Next
    <3>2. CalmInv
      BY <1>1, <3>1
    <3>3. QED
      BY <1>1, <1>2, <2>3, <3>1, <3>2, RequestCalm, ControlCalm, BeginCalm, WorkCalm DEF Next
  <2>4. QED
    BY <2>1, <2>2, <2>3 DEF IInv
<1>3. CASE UNCHANGED vars
  <2> USE DEF vars, historyVars, settingVars, readerVars, callVars, outputVars
  <2>1. TypeOK'
    BY <1>1, <1>3 DEF PlainInv, TypeOK, Requested, Length
  <2>2. QueueInv' /\ OutInv'
    <3>1. QueueInv /\ OutInv
      BY <1>1 DEF PlainInv
    <3>2. UNCHANGED << lens, dropped, tagAsked, forceNew, queue, file, out >>
      BY <1>3
    <3>3. QED
      BY <3>1, <3>2, SameQueue, SameOut
  <2>3. FileKnown'
    BY <1>1, <1>3 DEF FileKnown
  <2>4. ASSUME ~disturbed'
        PROVE  CalmInv'
    <3>1. CalmInv
      BY <1>1, <1>3, <2>4
    <3>2. CallInv'
      BY <1>3, <3>1 DEF CalmInv, CallInv, Length
    <3>3. PlayInv'
      BY <1>3, <3>1 DEF CalmInv, PlayInv, InStream, Length
    <3>4. TagInv'
      BY <1>3, <3>1 DEF CalmInv, TagInv, TagsOnFirstItem, InStream, Length
    <3>5. QED
      BY <3>2, <3>3, <3>4 DEF CalmInv
  <2>5. QED
    BY <2>1, <2>2, <2>3, <2>4 DEF IInv, PlainInv
<1>4. QED
  BY <1>2, <1>3

(* Only a turn of the loop that reads something produces items.            *)
LEMMA ReadProduces ==
  ASSUME IInv, [Next]_vars, out' # out, ~disturbed
  PROVE  /\ isOpen /\ out'.file = file /\ out'.first = pos
         /\ out'.tags = IF tagNow THEN carry \cup {file} ELSE carry
         /\ carry = {} /\ Length(file) > 0
         /\ PlayInv /\ TagInv /\ out.file <= file /\ out.file \in Nat /\ file \in Nat
<1> USE DEF historyVars, settingVars, callVars, outputVars, readerVars
<1>1. Read
  <2>1. ~ Request /\ ~ ControlCall
    <3>1. Request => out' = out
      BY DEF Request, OpenForced, OpenForcedFails, Open, OpenFails, Enqueue, Ask
    <3>2. ControlCall => out' = out
      BY DEF ControlCall, Close, Seek, AddFileTags, SetFileQueueDepth
    <3>3. QED
      BY <3>1, <3>2
  <2>2. \A n \in 1 .. MaxItems : ~ WorkBegin(n)
    BY DEF WorkBegin
  <2>3. WorkStep
    BY <2>1, <2>2 DEF Next, vars
  <2>4. ~ (Check \/ Rewind \/ LastFile \/ NextFile \/ NextFileFails \/ Short \/ EofCrash \/ WorkEnd)
    BY DEF Check, Rewind, LastFile, NextFile, NextFileFails, Short, EofCrash, WorkEnd
  <2>5. QED
    BY <2>3, <2>4 DEF WorkStep
<1>2. PlainInv /\ CallInv /\ PlayInv /\ TagInv
  BY DEF IInv, CalmInv
<1>3. isOpen /\ pc = "loop"
  BY <1>1, <1>2 DEF Read, CallInv
<1> DEFINE k == Available
           due == IF tagNow THEN carry \cup {file} ELSE carry
<1>4. k # 0 /\ out' = [file |-> file, first |-> pos, next |-> pos + k, tags |-> due]
  BY <1>1 DEF Read
<1>5. k \in Nat /\ pos \in Nat /\ Length(file) \in Nat /\ pos + k <= Length(file)
  BY <1>2, <1>3, AvailableFits, Counts
<1> HIDE DEF k
<1>6. Length(file) > 0 /\ Length(file) # 0
  BY <1>4, <1>5
<1>7. carry = {}
  BY <1>2, <1>3, <1>6 DEF TagInv
<1>8. out.file <= file /\ out.file \in Nat /\ file \in Nat
  BY <1>2, Counts DEF PlainInv, OutInv
<1>9. QED
  BY <1>2, <1>3, <1>4, <1>6, <1>7, <1>8

(***************************************************************************)
(* The theorems.                                                           *)
(***************************************************************************)
(* The output is the files in the order they were asked for, each without  *)
(* a gap, none left out but those cleared from a full queue and empty ones,*)
(* as long as no file is forced, closed or sought in.                      *)
THEOREM OrderCorrect == Spec => PlayedInOrder
<1>1. ASSUME IInv, [Next]_vars, out' # out, ~disturbed
      PROVE  \/ out'.file = out.file /\ out'.first = out.next
             \/ out'.file = out.file /\ out'.first = 0 /\ out.next = Length(out.file) /\ repeat
             \/ /\ out'.file > out.file
                /\ out'.first = 0
                /\ \/ forceNew
                   \/ /\ out.file # NoFile => out.next = Length(out.file)
                      /\ \A f \in out.file + 1 .. out'.file - 1 :
                           f \in dropped \/ Length(f) = 0
  <2>1. /\ isOpen /\ out'.file = file /\ out'.first = pos
        /\ PlayInv /\ out.file <= file /\ out.file \in Nat /\ file \in Nat
    BY <1>1, ReadProduces
  <2>2. CASE InStream
    BY <2>1, <2>2 DEF PlayInv, InStream
  <2>3. CASE ~InStream
    <3>1. out'.file > out.file /\ out'.first = 0
      BY <2>1, <2>3 DEF PlayInv, InStream
    <3>2. ~forceNew => Over(out, lens, dropped, out'.file)
      BY <2>1, <2>3 DEF PlayInv
    <3>3. QED
      BY <3>1, <3>2 DEF Over, Length
  <2>4. QED
    BY <2>2, <2>3
<1>2. IInv /\ [Next]_vars =>
        [out' # out /\ ~disturbed =>
           \/ out'.file = out.file /\ out'.first = out.next
           \/ out'.file = out.file /\ out'.first = 0 /\ out.next = Length(out.file) /\ repeat
           \/ /\ out'.file > out.file
              /\ out'.first = 0
              /\ \/ forceNew
                 \/ /\ out.file # NoFile => out.next = Length(out.file)
                    /\ \A f \in out.file + 1 .. out'.file - 1 :
                         f \in dropped \/ Length(f) = 0]_vars
  BY <1>1
<1>3. QED
  BY <1>2, InitInv, StepInv, PTL DEF Spec, PlayedInOrder

(* Tags ride on the first item of their file, and of every file they were  *)
(* asked for.                                                              *)
THEOREM TagsCorrect == Spec => TagsInPlace
<1>1. IInv => TypeOK /\ TagsOnFirstItem
  <2> SUFFICES ASSUME IInv PROVE TypeOK /\ TagsOnFirstItem
    OBVIOUS
  <2>1. TypeOK /\ (~disturbed => TagsOnFirstItem)
    BY DEF IInv, PlainInv, CalmInv, TagInv
  <2>2. QED
    BY <2>1 DEF TagsOnFirstItem
<1>2. ASSUME IInv, [Next]_vars, out' # out, ~disturbed, out'.file # out.file, out'.file \in tagAsked
      PROVE  out'.tags = {out'.file}
  <2>1. /\ isOpen /\ out'.file = file
        /\ out'.tags = IF tagNow THEN carry \cup {file} ELSE carry
        /\ carry = {} /\ Length(file) > 0 /\ TagInv
    BY <1>2, ReadProduces
  <2>2. ~InStream
    BY <1>2, <2>1 DEF InStream
  <2>3. tagNow
    BY <1>2, <2>1, <2>2 DEF TagInv
  <2>4. QED
    BY <2>1, <2>3
<1>3. IInv /\ [Next]_vars =>
        [out' # out /\ ~disturbed /\ out'.file # out.file /\ out'.file \in tagAsked
           => out'.tags = {out'.file}]_vars
  BY <1>2
<1>4. QED
  BY <1>1, <1>3, InitInv, StepInv, PTL DEF Spec, TagsInPlace, TagsOnEveryFile

=============================================================================
