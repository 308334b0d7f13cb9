---------------------------- MODULE FileArchiver ----------------------------
(***************************************************************************)
(* The file_archiver block (python/sandia_utils/file_archiver.py): it       *)
(* copies each file it is told of to a directory of its own, under a name   *)
(* made from a format and the recording's frequency, rate and time.         *)
(*                                                                         *)
(* A file is its number, a name is what the format makes of it, a copy is   *)
(* the name, the extension that makes it unique, if any, and the file in it.*)
(***************************************************************************)
EXTENDS Integers, FiniteSets

CONSTANT NameOf      \* a file's name in the archive

VARIABLES
  archive,     \* whether files are copied
  handled,     \* files the handler is done with
  copies,      \* what is in the output directory
  missed,      \* files that were gone when they were to be copied    (history)
  cleaned      \* names of which a copy was taken away                (history)
archiverVars == <<archive, handled, copies, missed, cleaned>>

NoExtension == -1

ArchiverInit ==
  /\ archive \in BOOLEAN /\ handled = 0
  /\ copies = {} /\ missed = {} /\ cleaned = {}

set_archive ==
  /\ archive' = ~archive
  /\ UNCHANGED <<handled, copies, missed, cleaned>>

Named(n) == {c \in copies : c.name = n}
Extended(n) == {c \in Named(n) : c.ext # NoExtension}

\* The extension if the plain name is taken is the number of those there are; mutant:
\* the first.
FirstExtension(n) == IF Named(n) \ Extended(n) = {} THEN NoExtension ELSE 0
Extension(n) ==
  IF Named(n) \ Extended(n) = {} THEN NoExtension ELSE Cardinality(Extended(n))

\* shutil.copyfile() writes over what has the name; mutant: a name that is taken is
\* taken to be this file.
copy_if_new(f) ==
  copies' = IF Named(NameOf[f]) # {} THEN copies
            ELSE {[name |-> NameOf[f], ext |-> NoExtension, file |-> f]}
copy_file(f) ==
  LET n == NameOf[f]
      e == Extension(n)
  IN  copies' = {c \in copies : c.name # n \/ c.ext # e}
                  \union {[name |-> n, ext |-> e, file |-> f]}

\* The next file, which is or is not where it was written; an error is logged.
Archive(present) ==
  LET f == handled + 1 IN
  /\ handled' = f
  /\ IF ~archive THEN UNCHANGED <<copies, missed>>
     ELSE IF present THEN copy_file(f) /\ UNCHANGED missed
     ELSE missed' = missed \union {f} /\ UNCHANGED copies
  /\ UNCHANGED <<archive, cleaned>>

\* Whoever the archive is for takes a copy away.  Bound: one of each name.
TakeAway ==
  /\ \E c \in copies : c.name \notin cleaned /\ copies' = copies \ {c} /\ cleaned' = cleaned \union {c.name}
  /\ UNCHANGED <<archive, handled, missed>>
=============================================================================
