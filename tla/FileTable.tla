------------------------------ MODULE FileTable ------------------------------
(***************************************************************************)
(* Descriptors and regular files (file.c, and the system calls of entry.c  *)
(* that reach it).  Descriptors of one process or of several share a file  *)
(* object by dup, dup2 and fork; the object has the position and a count   *)
(* of its references.  What fs.o does to an inode is external.             *)
(*                                                                         *)
(* A file is its size, the bytes are left out.  A call that fails and      *)
(* changes nothing is no step.  Descriptors are in the table, as nothing   *)
(* checks that they are, and the pool of pages for objects does not run    *)
(* out.                                                                    *)
(***************************************************************************)
EXTENDS Integers, FiniteSetsExt

CONSTANTS Procs,           \* processes, MAX_PROCESSES of them
          First,           \* the first of them
          Std,             \* 0..2, stdin and the standard outputs
          MAX_OPEN_FILES,  \* 16
          Objects,         \* a pool of file objects, as many as needed
          Inodes,
          Flags, Perms,    \* how files are opened, and what they permit
          FILE_SIZE        \* 0x1000

ASSUME FileTableAssumption ==
  /\ IsFiniteSet(Procs) /\ First \in Procs
  /\ Std \subseteq Nat /\ 0 \in Std /\ MAX_OPEN_FILES \in Nat
  /\ \A t \in Std : t < MAX_OPEN_FILES
  /\ Objects \subseteq Nat
  /\ FILE_SIZE \in Nat
  /\ Flags \cup Perms \subseteq SUBSET {"r", "w"}

Fds == 0..MAX_OPEN_FILES - 1
Regular == Fds \ Std
NULL == -1
Missing == -1
Access == {"r", "w"}

VARIABLES files,   \* descriptor table of a process
          alive,
          file,    \* the objects
          size,    \* of a file, Missing until it is created
          mode     \* of a file

vars == <<files, alive, file, size, mode>>

Free == [mode |-> {}, offp |-> 0, ref_count |-> 0, inode |-> NULL]
StdFile(t) == [mode |-> IF t = 0 THEN {"r"} ELSE {"w"}, offp |-> 0, ref_count |-> 1, inode |-> NULL]

Used(o) == file[o].ref_count > 0
Spare == {o \in Objects : ~Used(o)}
IsRegular(o) == file[o].inode # NULL

Init ==
  /\ files = [p \in Procs |-> [fd \in Fds |-> IF p = First /\ fd \in Std /\ fd \in Objects
                                              THEN fd ELSE NULL]]
  /\ alive = {First}
  /\ file = [o \in Objects |-> IF o \in Std THEN StdFile(o) ELSE Free]
  /\ size = [i \in Inodes |-> Missing]
  /\ mode = [i \in Inodes |-> {}]

\* The lowest descriptor past the standard ones.
LowestFree(p) == Min({fd \in Regular : files[p][fd] = NULL})
HasRoom(p) == \E fd \in Regular : files[p][fd] = NULL

Install(p, fd, o) == files' = [files EXCEPT ![p][fd] = o]

\* One reference less; the last one deletes the object.
std_close(f, o) ==
  LET x == f[o] IN
  [f EXCEPT ![o] = IF x.ref_count = 1 THEN Free ELSE [x EXCEPT !.ref_count = @ - 1]]
ref_count_inc(f, o) == [f EXCEPT ![o].ref_count = @ + 1]

-----------------------------------------------------------------------------

\* An existing stream is shared, a missing one created at its own number.
open_standard_IO(p, t) ==
  /\ p \in alive
  /\ \/ /\ files[p][t] = NULL
        /\ \E o \in Spare :
             /\ \A q \in Spare : o <= q
             /\ Install(p, t, o)
             /\ file' = [file EXCEPT ![o] = StdFile(t)]
     \/ /\ files[p][t] # NULL /\ HasRoom(p)
        /\ Install(p, LowestFree(p), files[p][t])
        /\ file' = ref_count_inc(file, files[p][t])
  /\ UNCHANGED <<alive, size, mode>>

\* The file i is created with the permissions m if it is missing.
create_inode(i, m) ==
  IF size[i] = Missing
  THEN /\ size' = [size EXCEPT ![i] = 0]
       /\ mode' = [mode EXCEPT ![i] = m]
  ELSE UNCHANGED <<size, mode>>

\* The new file stays even if its permissions refuse the open.
do_regular_file_open(p, i, flags, creat, m) ==
  /\ p \in alive
  /\ IF creat THEN create_inode(i, m) ELSE size[i] # Missing /\ UNCHANGED <<size, mode>>
  /\ IF flags \subseteq mode'[i] /\ HasRoom(p)
     THEN \E o \in Spare :
            /\ \A q \in Spare : o <= q
            /\ Install(p, LowestFree(p), o)
            /\ file' = [file EXCEPT ![o] =
                 [mode |-> flags, offp |-> 0, ref_count |-> 1, inode |-> i]]
     ELSE UNCHANGED <<files, file>>
  /\ UNCHANGED alive

\* What flat_read returns, and whether flat_write has room for all of it.
ReadSize(f, o, n) == Min({n, size[f[o].inode] - f[o].offp})
Fits(f, o, n) == f[o].offp + n <= FILE_SIZE

\* The position moves by what was read or written.
do_read_regular(f, o, n) == [f EXCEPT ![o].offp = @ + ReadSize(f, o, n)]
do_write_regular(f, o, n) ==
  IF Fits(f, o, n)
  THEN LET end == f[o].offp + n IN
       /\ file' = [f EXCEPT ![o].offp = end]
       /\ size' = [size EXCEPT ![f[o].inode] = Max({@, end})]
  ELSE file' = f /\ UNCHANGED size

do_file_read(p, fd, n) ==
  LET o == files[p][fd] IN
  /\ p \in alive /\ o # NULL /\ IsRegular(o) /\ "r" \in file[o].mode
  /\ file' = do_read_regular(file, o, n)
  /\ UNCHANGED <<files, alive, size, mode>>

CanWriteAny(f, o) == TRUE    \* mutant: the mode is not checked
CanWrite(f, o) == "w" \in f[o].mode

do_file_write(p, fd, n) ==
  LET o == files[p][fd] IN
  /\ p \in alive /\ o # NULL /\ IsRegular(o) /\ CanWrite(file, o)
  /\ do_write_regular(file, o, n)
  /\ UNCHANGED <<files, alive, mode>>

\* SEEK_END counts from the position, as SEEK_CUR does.
InFileBeyond(o, rpos) == rpos \in 0..FILE_SIZE    \* mutant: up to the room of the file
InFile(o, rpos) == rpos >= 0 /\ rpos <= size[file[o].inode]
do_lseek_regular(p, fd, offset, whence) ==
  LET o == files[p][fd]
      rpos == IF whence = "SEEK_SET" THEN offset ELSE offset + file[o].offp
  IN /\ p \in alive /\ o # NULL /\ IsRegular(o) /\ InFile(o, rpos)
     /\ file' = [file EXCEPT ![o].offp = rpos]
     /\ UNCHANGED <<files, alive, size, mode>>

fd_dup(p, oldfd) ==
  LET o == files[p][oldfd] IN
  /\ p \in alive /\ o # NULL /\ HasRoom(p)
  /\ Install(p, LowestFree(p), o)
  /\ file' = ref_count_inc(file, o)
  /\ UNCHANGED <<alive, size, mode>>

\* What newfd named is closed first, even if it is the same object.
fd_dup2(p, oldfd, newfd) ==
  LET o == files[p][oldfd]
      old == files[p][newfd]
  IN /\ p \in alive /\ o # NULL /\ oldfd # newfd
     /\ Install(p, newfd, o)
     /\ file' = ref_count_inc(IF old = NULL THEN file ELSE std_close(file, old), o)
     /\ UNCHANGED <<alive, size, mode>>

do_close(p, fd) ==
  /\ p \in alive /\ files[p][fd] # NULL
  /\ Install(p, fd, NULL)
  /\ file' = std_close(file, files[p][fd])
  /\ UNCHANGED <<alive, size, mode>>

\* Between regular files.  An explicit offset leaves the input's position as
\* it was; the read stays done when the output turns out not to be writable;
\* and as many bytes are written as were asked for, however few were read.
do_sendfile(p, outfd, infd, offset, n) ==
  LET in == files[p][infd]
      out == files[p][outfd]
      read == IF offset = NULL THEN do_read_regular(file, in, n) ELSE file
  IN /\ p \in alive /\ in # NULL /\ IsRegular(in) /\ "r" \in file[in].mode
     /\ offset # NULL => InFile(in, offset)
     /\ IF out # NULL /\ IsRegular(out) /\ CanWrite(read, out)
        THEN do_write_regular(read, out, n)
        ELSE file' = read /\ UNCHANGED size
     /\ UNCHANGED <<files, alive, mode>>

\* The references of the process p to the object o.
References(p, o) == Cardinality({fd \in Fds : files[p][fd] = o})

\* The child has its parent's table, and a reference for each descriptor.
do_file_forkOnce(p, child) ==   \* mutant: a reference for each object
  /\ files' = [files EXCEPT ![child] = files[p]]
  /\ file' = [o \in Objects |-> IF References(p, o) > 0
                                THEN [file[o] EXCEPT !.ref_count = @ + 1] ELSE file[o]]
do_file_fork(p, child) ==
  /\ files' = [files EXCEPT ![child] = files[p]]
  /\ file' = [o \in Objects |-> IF References(p, o) > 0
                                THEN [file[o] EXCEPT !.ref_count = @ + References(p, o)]
                                ELSE file[o]]
\* The fork of the second assignment's kernel, the one that calls the handler.
do_fork(p, child) ==
  /\ p \in alive /\ child \notin alive
  /\ do_file_fork(p, child)
  /\ alive' = alive \cup {child}
  /\ UNCHANGED <<size, mode>>

do_file_exit(p) ==
  /\ p \in alive
  /\ files' = [files EXCEPT ![p] = [fd \in Fds |-> NULL]]
  /\ file' = [o \in Objects |->
       IF References(p, o) = 0 THEN file[o]
       ELSE IF file[o].ref_count = References(p, o) THEN Free
       ELSE [file[o] EXCEPT !.ref_count = @ - References(p, o)]]
  /\ alive' = alive \ {p}
  /\ UNCHANGED <<size, mode>>

-----------------------------------------------------------------------------

Counts == 1..FILE_SIZE
Offsets == -FILE_SIZE..FILE_SIZE

Step(p) ==
  \/ \E t \in Std : open_standard_IO(p, t)
  \/ \E i \in Inodes, flags \in Flags, m \in Perms, creat \in BOOLEAN :
       do_regular_file_open(p, i, flags, creat, m)
  \/ \E fd \in Fds :
       \/ \E n \in Counts : do_file_read(p, fd, n) \/ do_file_write(p, fd, n)
       \/ \E offset \in Offsets, whence \in {"SEEK_SET", "SEEK_CUR"} :
            do_lseek_regular(p, fd, offset, whence)
       \/ fd_dup(p, fd) \/ do_close(p, fd)
       \/ \E fd2 \in Fds :
            \/ fd_dup2(p, fd, fd2)
            \/ \E offset \in 0..FILE_SIZE \cup {NULL}, n \in Counts :
                 do_sendfile(p, fd, fd2, offset, n)
  \/ \E child \in Procs : do_fork(p, child)
  \/ do_file_exit(p)

Next == \E p \in Procs : Step(p)
Spec == Init /\ [][Next]_vars

-----------------------------------------------------------------------------
(* Properties.                                                             *)

\* An object has one reference for each descriptor of each process that
\* names it, and is deleted with the last: whatever is shared, replaced by
\* dup2 onto itself, forked or exited (file.c).
ReferencesCounted ==
  /\ \A o \in Objects :
       file[o].ref_count = Cardinality({pf \in Procs \X Fds : files[pf[1]][pf[2]] = o})
  /\ \A o \in Spare : file[o] = Free

\* No position is past the end of its file, whoever else reads, writes or
\* seeks in it (do_lseek_regular, do_sendfile); flat_write leaves no gaps.
PositionsInside ==
  \A o \in Objects : Used(o) /\ IsRegular(o) => file[o].offp <= size[file[o].inode]

\* A file only grows, and only while a descriptor is open for writing that
\* its permissions allow (do_file_write, do_sendfile).
GrowsByWriters ==
  [][\A i \in Inodes : size[i] \in Nat /\ size'[i] # size[i] =>
       /\ size'[i] > size[i] /\ "w" \in mode[i]
       /\ \E o \in Objects : Used(o) /\ file[o].inode = i /\ "w" \in file[o].mode]_vars
=============================================================================
