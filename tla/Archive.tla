------------------------------- MODULE Archive -------------------------------
(***************************************************************************)
(* The archiver of Assignment 1 (myTar.c): -c writes the files of a        *)
(* directory one after the other behind headers of text, "name\nsize\n";   *)
(* -d, -e and -l find them again by walking from header to header.         *)
(*                                                                         *)
(* A byte below Base is a digit, Base is the newline; names have none, and *)
(* no byte stands for a negative digit.  No file that is written is cut    *)
(* off when it is opened (O_WRONLY | O_CREAT): the archive may hold an     *)
(* older one, and the directory of a dump older files.  The listing of an  *)
(* older -l, whose end is kept just so, is left out (a line of it is not a *)
(* sequence of bytes here), and so are names over the 19 bytes the readers *)
(* have for one, directories to make, permissions and errors of the file   *)
(* system.                                                                 *)
(***************************************************************************)
EXTENDS Integers, SequencesExt

CONSTANTS Names, Contents,  \* of the files of the directory
          Archived,         \* the name of the archive
          OlderArchives,    \* what may be in its file already
          OlderDumps,       \* the files that may be where -d or -e writes
          Base,             \* 10
          chunk_size,       \* 2048
          IntMax            \* 2^31 - 1, of the int that holds the archive's size

ASSUME ArchiveAssumption ==
  /\ Base \in Nat /\ Base > 1 /\ {chunk_size, IntMax} \subseteq Nat \ {0}
  /\ \A n \in Names \cup {Archived} : n \in Seq(Nat) /\ n # <<>> /\ Base \notin Range(n)
  /\ Archived \notin Names /\ \A c \in Contents : c \in Seq(Nat) /\ Len(c) <= IntMax
  /\ \A f \in OlderArchives : f \in Seq(Nat)
  /\ \A d \in OlderDumps : \A n \in DOMAIN d : d[n] \in Seq(Nat)

VARIABLES dir,   \* the files of the directory: a function from names to bytes
          todo,  \* what readdir has not returned yet
          fd,    \* the bytes of the archive
          op,    \* what is done with it
          pc, pos,   \* pos: the position in the archive
          name, sz,  \* the header read last; what is left of its size
          out, off,  \* the files of the dump, and the position in the one written
          older,     \* the files of the dump before
          cnt, text  \* of -l: files seen, lines written

vars == <<dir, todo, fd, op, pc, pos, name, sz, out, off, older, cnt, text>>

NewLine == <<Base>>
NUL == <<-1>>
Minus == <<-2>>

\* Digits of n, as many as the loops that divide it by the base count.
Decimal(n) ==
  LET length == CHOOSE l \in 1..n + 1 : n < Base^l /\ (l > 1 => n >= Base^(l - 1))
  IN [k \in 1..length |-> (n \div Base^(length - k)) % Base]

Header(n, size) == n \o NewLine \o Decimal(size) \o NewLine

Ops == {[kind |-> k, file |-> <<>>] : k \in {"d", "l"}} \cup [kind : {"e"}, file : Names]

Init ==
  /\ dir \in UNION {[ns -> Contents] : ns \in SUBSET Names}
  /\ todo = DOMAIN dir \cup {Archived}
  /\ fd \in OlderArchives /\ pos = 0 /\ name = <<>> /\ sz = 0
  /\ op \in Ops /\ pc = "create"
  /\ older \in OlderDumps /\ out = older /\ off = 0
  /\ cnt = 0 /\ text = <<>>

\* A write at position p takes the place of what was there.
Overwrite(f, p, bytes) ==
  SubSeq(f, 1, p) \o bytes \o SubSeq(f, p + Len(bytes) + 1, Len(f))

-----------------------------------------------------------------------------
(* -c: the files in the order of readdir.                                  *)

\* The comparison with the archive itself ends at the length of its name.
IsArchive(n) == IsPrefix(Archived, n)

Record(n) == Header(n, Len(dir[n])) \o dir[n]
Add(n) == fd' = Overwrite(fd, pos, Record(n)) /\ pos' = pos + Len(Record(n))

Create ==
  /\ pc = "create"
  /\ \E n \in todo :
       /\ todo' = todo \ {n}
       /\ IF IsArchive(n) THEN UNCHANGED <<fd, pos>> ELSE Add(n)
  /\ UNCHANGED <<dir, op, pc, name, sz, out, off, older, cnt, text>>

-----------------------------------------------------------------------------
(* -d, -e and -l.                                                          *)

\* The size of the archive, narrowed to an int.
tot == ((Len(fd) + IntMax + 1) % (2 * (IntMax + 1))) - (IntMax + 1)

\* A number of the listing, written with its NUL; a sign takes the place of
\* the last digit.
Number(n) ==
  (IF n >= 0 THEN Decimal(n) ELSE SubSeq(Minus \o Decimal(-n), 1, Len(Decimal(-n))))
    \o NUL \o NewLine

Open ==
  /\ pc = "create" /\ todo = {}
  /\ pc' = "header" /\ pos' = 0
  /\ text' = IF op.kind = "l" THEN <<Number(tot)>> ELSE text
  /\ UNCHANGED <<dir, todo, fd, op, name, sz, out, off, older, cnt>>

\* The first newline at or after the position p, past the end if none.
LineEnd(p) ==
  LET ends == {k \in p + 1..Len(fd) : fd[k] = Base}
  IN IF ends = {} THEN Len(fd) + 1 ELSE CHOOSE k \in ends : \A l \in ends : k <= l
ParsedOneDigit(s) ==    \* mutant: the digits do not add up
  IF s = <<>> THEN 0 ELSE s[Len(s)]
Parsed(s) == FoldLeft(LAMBDA n, d : n * Base + d, 0, s)

\* What is done with a record once its header is read: copied, listed, or
\* only counted.
Wanted(n) == op.kind = "d" \/ (op.kind = "e" /\ n = op.file)
Line(n, s) == [name |-> n, size |-> s]

\* At the end of the archive read returns 0 and leaves the byte of the buffer
\* as it is.  Behind a line without its newline that is the line's last byte,
\* and the loop goes on for ever; where a size would begin it is the newline of
\* the name, and the size is 0; where a name would begin it is what the stack
\* holds, a newline or not.
EmptyLine(p) == p >= Len(fd)
Endless ==
  /\ pc' = "endless"
  /\ UNCHANGED <<pos, name, sz, out, off, cnt, text>>

\* A header of name n and size s has been read up to position p.  A file
\* without a name cannot be opened.
Take(n, s, p) ==
  /\ pos' = p /\ name' = n /\ sz' = Parsed(s)
  /\ IF Wanted(n)
     THEN /\ pc' = (IF n = <<>> THEN "failed" ELSE "copy")
          /\ out' = IF n \in DOMAIN out \cup {<<>>} THEN out
                    ELSE [m \in DOMAIN out \cup {n} |-> IF m = n THEN <<>> ELSE out[m]]
          /\ off' = 0
     ELSE pc' = (IF pc = "lines" THEN "skip lines" ELSE "skip") /\ UNCHANGED <<out, off>>
  /\ cnt' = IF op.kind = "l" /\ pc = "header" THEN cnt + 1 ELSE cnt
  /\ text' = IF pc = "lines" THEN Append(text, Line(n, s)) ELSE text

\* The header at the position.  Behind an end that -e and -l have missed they
\* read empty headers for ever.
ReadHeader ==
  LET e1 == LineEnd(pos)
      e2 == LineEnd(e1)
  IN /\ pc \in {"header", "lines"}
     /\ \/ e2 <= Len(fd) /\ Take(SubSeq(fd, pos + 1, e1 - 1), SubSeq(fd, e1 + 1, e2 - 1), e2)
        \/ e1 <= Len(fd) /\ EmptyLine(e1) /\ Take(SubSeq(fd, pos + 1, e1 - 1), <<>>, e1)
        \/ EmptyLine(pos) /\ (pos = tot \/ op.kind = "d") /\ Take(<<>>, <<>>, pos)
        \/ e2 > Len(fd) /\ ~(e1 <= Len(fd) /\ EmptyLine(e1)) /\ Endless
     /\ UNCHANGED <<dir, todo, fd, op, older>>

\* A chunk is copied, until nothing is left of the size.
Taken(n) == IF n < chunk_size THEN n ELSE chunk_size
CopyChunk ==
  LET upto == Min({pos + Taken(sz), Len(fd)}) IN
  /\ pc = "copy" /\ sz > 0
  /\ out' = [out EXCEPT ![name] = Overwrite(@, off, SubSeq(fd, pos + 1, upto))]
  /\ off' = off + upto - pos
  /\ pos' = upto
  /\ sz' = sz - Taken(sz)
  /\ UNCHANGED <<dir, todo, fd, op, pc, name, older, cnt, text>>

\* The walk ends where the archive does; of -e with the file it looks for.
\* The first walk of -l ends with the number of files.
AtEnd(p) ==
  IF op.kind = "l" /\ pc = "skip"
  THEN text' = Append(text, Number(cnt)) /\ pos' = 0 /\ pc' = "lines"
  ELSE /\ pc' = "done" /\ pos' = p
       /\ text' = IF op.kind = "e" THEN <<"No such file is present in tar file.">> ELSE text
WalksOnAlways == TRUE    \* mutant: -e walks on behind its file
WalksOn == ~(pc = "copy" /\ op.kind = "e")
RecordDone ==
  LET next == IF pc = "copy" THEN pos ELSE pos + sz IN
  /\ (pc = "copy" /\ sz = 0) \/ pc \in {"skip", "skip lines"}
  /\ \/ ~WalksOn /\ pc' = "done" /\ UNCHANGED <<pos, text>>
     \/ WalksOn /\ next = tot /\ AtEnd(next)
     \/ /\ WalksOn /\ next # tot
        /\ pc' = (IF pc = "skip lines" THEN "lines" ELSE "header")
        /\ pos' = next /\ UNCHANGED text
  /\ UNCHANGED <<dir, todo, fd, op, name, sz, out, off, older, cnt>>

Next == Create \/ Open \/ ReadHeader \/ CopyChunk \/ RecordDone
Spec == Init /\ [][Next]_vars /\ WF_vars(Next)

-----------------------------------------------------------------------------
(* Properties.                                                             *)

\* The files that -c stores; the name of one that is left out begins with the
\* archive's.
Stored == {n \in DOMAIN dir : ~IsArchive(n)}

\* The archive is theirs, byte for byte in number: no end of an older one
\* sticks out (Assignment 1, 2.1.1: the output file does not exist yet), there
\* is one to read (the same: the directory has a file), and an int holds its
\* size.
Sound ==
  /\ Stored # {} /\ Len(fd) <= IntMax
  /\ Len(fd) = MapThenSumSet(LAMBDA n : Len(Record(n)), Stored)

\* File n of the dump is the one stored, and behind it what an older, longer
\* file leaves.
Restored(n) ==
  n \in DOMAIN out /\ out[n] = Overwrite(IF n \in DOMAIN older THEN older[n] ELSE <<>>, 0, dir[n])
RestoredOnly(ns) ==
  /\ \A n \in ns : Restored(n)
  /\ DOMAIN out = DOMAIN older \cup ns
  /\ \A n \in DOMAIN older \ ns : out[n] = older[n]

\* What is read back is what was stored, though the bytes of a file may look
\* like headers: -d restores every file of the directory as it was ("its
\* contents should also be restored to be same as the original contents") but
\* for an older file's end, -e its one file or the message that there is none,
\* and -l has a line for each file with its name and its size.  A file that is
\* stored is found by -e even before the end of an older archive.
RestoresAll == Sound => RestoredOnly(Stored)
RestoresOne ==
  IF op.file \in Stored
  THEN RestoredOnly({op.file}) /\ text = <<>>
  ELSE Sound => RestoredOnly({}) /\ text # <<>>
ListsAll ==
  Sound => /\ Len(text) = 2 + cnt /\ cnt = Cardinality(Stored)
           /\ {text[k] : k \in 3..Len(text)} = {Line(n, Decimal(Len(dir[n]))) : n \in Stored}
ReadsBack ==
  pc = "done" => CASE op.kind = "d" -> RestoresAll
                   [] op.kind = "e" -> RestoresOne
                   [] op.kind = "l" -> ListsAll

\* Every walk over a sound archive comes to its end and stops there, and -e
\* comes to a file that is stored whatever lies behind it.  Over an empty
\* archive, one with the end of an older one or one of more than IntMax bytes
\* it may run for ever.
Comes == Sound \/ op.file \in Stored
Ends == <>(pc = "done" \/ (pc # "create" /\ ~Comes))
=============================================================================
