--------------------------------- MODULE Pipe ---------------------------------
(***************************************************************************)
(* One gemOS pipe: the ring buffer and the per-process slots of pipe.c,    *)
(* the two file objects with their reference counts, and the descriptor    *)
(* tables through which processes reach them (file.c).  A system call runs *)
(* with interrupts disabled on the only processor, so each is one action.  *)
(* One pipe exists at a time; every other open file is a standard one.     *)
(* What a handler does with a freed page is outside the model: the guards  *)
(* "... => live" stop there, and NothingDangling says when that can matter.*)
(***************************************************************************)
EXTENDS Integers, Sequences, FiniteSets

CONSTANTS
  Pids,            (* the process identifiers get_new_ctx hands out        *)
  Data,            (* byte values                                          *)
  MAX_PIPE_SIZE,   (* bytes in the ring                                    *)
  MAX_PIPE_PROC,   (* slots in the pipe                                    *)
  MAX_OPEN_FILES,  (* size of a descriptor table                           *)
  STD_FDS,         (* how many descriptors start as standard files: 3      *)
  MaxCount,        (* bound: bytes asked for or offered by one call        *)
  MaxRefs          (* bound: a reference count that leaks grows no further *)

ASSUME PidsAssumption  == Pids \subseteq Nat /\ IsFiniteSet(Pids)
ASSUME SizesAssumption == /\ MAX_PIPE_SIZE \in Nat \ {0}
                          /\ MAX_PIPE_PROC \in Nat \ {0}
                          /\ MAX_OPEN_FILES \in Nat
                          /\ STD_FDS \in Nat
                          /\ MaxCount \in Nat
                          /\ MaxRefs \in Nat

Refused == -1   (* any of -EINVAL, -EACCES and -EOTHERS: nothing here tells   *)
                (* the error codes apart, nor which pid or fd a call returns *)
End   == {"r", "w"}                  (* the two file objects, by mode       *)
Std   == "std"                       (* a standard file object              *)
None  == "none"                      (* an empty descriptor                 *)
Fds   == 0..(MAX_OPEN_FILES - 1)
Slot  == 0..(MAX_PIPE_PROC - 1)
Index == 0..(MAX_PIPE_SIZE - 1)
NoPid == -1

Messages == UNION {[1..n -> Data] : n \in 0..MaxCount}

VARIABLES
  alive,        (* contexts in use                                         *)
  files,        (* files[p][fd]: an end of the pipe, Std or None           *)
  ref_count,    (* reference count of each file object, 0 once deleted     *)
  live,         (* the pipe's pages are allocated                          *)
  pipe_per_proc,
  pipe_buff, read_pos, write_pos, buff_offset,
  rc,           (* return value of the last system call                    *)
  out,          (* bytes the last call stored in its caller's buffer       *)
  quirks        (* history of this pipe: "dup" once a descriptor of it was *)
                (* duplicated, "fork" once its fork handler failed         *)

ring  == <<pipe_buff, read_pos, write_pos, buff_offset>>
vars  == <<alive, files, ref_count, live, pipe_per_proc, ring, rc, out, quirks>>

-------------------------------------------------------------------------------
(* Scans of the slot table: some loops stop at the first match, some keep   *)
(* the last one.                                                            *)
IsFirstSlot(i, p) == /\ pipe_per_proc[i].pid = p
                     /\ \A j \in Slot : j < i => pipe_per_proc[j].pid # p
IsLastSlot(i, p)  == /\ pipe_per_proc[i].pid = p
                     /\ \A j \in Slot : j > i => pipe_per_proc[j].pid # p

IsLowestFree(p, fd, from) ==
  /\ fd >= from /\ files[p][fd] = None
  /\ \A g \in Fds : from <= g /\ g < fd => files[p][g] # None

Held(p)      == {files[p][fd] : fd \in Fds} \cap End
Count(p, e)  == Cardinality({fd \in Fds : files[p][fd] = e})
SomeEndOpen(slots) == \E i \in Slot : slots[i].pid # NoPid /\ slots[i].open # {}

WithinBound   == \A e \in End : ref_count'[e] <= MaxRefs
Return(value) == rc' = value /\ out' = <<>>

-------------------------------------------------------------------------------
Init ==
  /\ alive = {p \in Pids : \A q \in Pids : p <= q}
  /\ files = [p \in Pids |-> [fd \in Fds |->
                IF p \in alive /\ fd < STD_FDS THEN Std ELSE None]]
  /\ ref_count = [e \in End |-> 0]
  /\ live = FALSE
  /\ pipe_per_proc = [i \in Slot |-> [pid |-> NoPid, open |-> {}]]
  /\ pipe_buff \in [Index -> Data]        (* a page is not cleared          *)
  /\ read_pos = 0 /\ write_pos = 0 /\ buff_offset = 0
  /\ rc = 0 /\ out = <<>> /\ quirks = {}

(* pipe(): the two lowest descriptors, two fresh file objects, an empty     *)
(* ring.  The model waits until no descriptor of the last pipe is left.     *)
create_pipe(p) ==
  /\ ~live /\ \A q \in Pids : Held(q) = {}
  /\ IF \E f0, f1 \in Fds : f0 < f1 /\ files[p][f0] = None /\ files[p][f1] = None
     THEN \E f0, f1 \in Fds :
            /\ IsLowestFree(p, f0, 0) /\ IsLowestFree(p, f1, f0 + 1)
            /\ files' = [files EXCEPT ![p][f0] = "r", ![p][f1] = "w"]
            /\ ref_count' = [e \in End |-> 1]
            /\ live' = TRUE
            /\ pipe_per_proc' = [i \in Slot |->
                 IF i = 0 THEN [pid |-> p, open |-> End]
                          ELSE [pid |-> NoPid, open |-> {}]]
            /\ read_pos' = 0 /\ write_pos' = 0 /\ buff_offset' = 0
            /\ quirks' = {}
            /\ Return(0)
            /\ UNCHANGED <<alive, pipe_buff>>
     ELSE /\ Return(Refused)
          /\ UNCHANGED <<alive, files, ref_count, live, pipe_per_proc, ring, quirks>>

(* do_pipe_fork, for a child c of p: the parent's flags are copied to the   *)
(* first free slot.  It runs once per inherited descriptor; the runs after  *)
(* the first find the child recorded, or fail the same way.                 *)
Recorded(c)     == \E i \in Slot : pipe_per_proc[i].pid = c
CanRecord(p)    == Recorded(p) /\ Recorded(NoPid)
do_pipe_forkFresh(p, c) ==              (* mutant of do_pipe_fork *)
  pipe_per_proc' =
    IF Recorded(c) \/ ~CanRecord(p) THEN pipe_per_proc
    ELSE [i \in Slot |-> IF IsFirstSlot(i, NoPid) THEN [pid |-> c, open |-> End]
                                                  ELSE pipe_per_proc[i]]
do_pipe_fork(p, c) ==
  pipe_per_proc' =
    IF Recorded(c) \/ ~CanRecord(p) THEN pipe_per_proc
    ELSE [i \in Slot |->
            IF IsFirstSlot(i, NoPid)
            THEN [pid  |-> c,
                  open |-> pipe_per_proc[CHOOSE j \in Slot : IsLastSlot(j, p)].open]
            ELSE pipe_per_proc[i]]

(* fork(): the child shares the parent's file objects.  A failing handler   *)
(* makes fork return the error to the parent, but the child is already      *)
(* READY and keeps the descriptors and the raised reference counts.         *)
do_fork(p, c) ==
  /\ c \notin alive /\ \A q \in Pids : q < c => q \in alive
  /\ Held(p) # {} => live
  /\ alive' = alive \cup {c}
  /\ files' = [files EXCEPT ![c] = files[p]]
  /\ ref_count' = [e \in End |-> ref_count[e] + Count(p, e)] /\ WithinBound
  /\ IF Held(p) = {} THEN Return(0) /\ UNCHANGED <<pipe_per_proc, quirks>>
     ELSE /\ do_pipe_fork(p, c)
          /\ IF Recorded(c) \/ CanRecord(p)
             THEN Return(0) /\ UNCHANGED quirks
             ELSE Return(Refused) /\ quirks' = quirks \cup {"fork"}
  /\ UNCHANGED <<live, ring>>

-------------------------------------------------------------------------------
(* pipe_close, called by p on the files of the ends E, each at least once.  *)
(* Only ends still flagged open in p's slot close; for the others it        *)
(* returns an error before file_close, and the reference stays.             *)
Closable(p, E) == {e \in E : \E i \in Slot :
                     IsLastSlot(i, p) /\ e \in pipe_per_proc[i].open}
SlotsAfterCloseKeepingPid(p, E) ==           (* mutant of SlotsAfterClose *)
  [i \in Slot |->
     IF IsLastSlot(i, p) /\ Closable(p, E) # {}
     THEN [pipe_per_proc[i] EXCEPT !.open = @ \ E]
     ELSE pipe_per_proc[i]]
SlotsAfterClose(p, E) ==
  [i \in Slot |->
     IF IsLastSlot(i, p) /\ Closable(p, E) # {}
     THEN LET left == pipe_per_proc[i].open \ E
          IN  [pid |-> IF left = {} THEN NoPid ELSE p, open |-> left]
     ELSE pipe_per_proc[i]]
RefsAfterClose(p, E) ==
  [e \in End |-> IF e \in Closable(p, E) THEN ref_count[e] - 1 ELSE ref_count[e]]

pipe_closeWithoutReader(p, E) ==             (* mutant of pipe_close *)
  /\ pipe_per_proc' = SlotsAfterClose(p, E)
  /\ live' = (live /\ (\/ Closable(p, E) = {}
                       \/ \E i \in Slot : "r" \in pipe_per_proc'[i].open))
pipe_close(p, E) ==
  /\ pipe_per_proc' = SlotsAfterClose(p, E)
  /\ live' = (live /\ (Closable(p, E) = {} \/ SomeEndOpen(pipe_per_proc')))

(* close(fd): the descriptor is emptied whatever the handler answers.  Its  *)
(* source is in the third assignment only and lacks a return statement; the *)
(* do_close of this one's kernel (gemOS.kernel) returns the answer.         *)
do_close(p, fd) ==
  /\ files' = [files EXCEPT ![p][fd] = None]
  /\ IF files[p][fd] \notin End
     THEN /\ Return(IF files[p][fd] = Std THEN 0 ELSE Refused)
          /\ UNCHANGED <<pipe_per_proc, live, ref_count>>
     ELSE /\ live
          /\ pipe_close(p, {files[p][fd]})
          /\ ref_count' = RefsAfterClose(p, {files[p][fd]})
          /\ Return(IF Closable(p, {files[p][fd]}) = {} THEN Refused ELSE 0)
  /\ UNCHANGED <<alive, ring, quirks>>

do_exitSilently(p) ==                        (* mutant of do_exit: no handler runs *)
  /\ alive' = alive \ {p}
  /\ files' = [files EXCEPT ![p] = [fd \in Fds |-> None]]
  /\ Return(0)
  /\ UNCHANGED <<ref_count, live, pipe_per_proc, ring, quirks>>

(* exit(): do_file_exit closes every descriptor in turn.  A duplicate that  *)
(* comes after the close that freed the pages still finds no slot of p.     *)
do_exit(p) ==
  /\ Held(p) # {} => live
  /\ alive' = alive \ {p}
  /\ files' = [files EXCEPT ![p] = [fd \in Fds |-> None]]
  /\ pipe_close(p, Held(p))
  /\ ref_count' = RefsAfterClose(p, Held(p))
  /\ Return(0)
  /\ UNCHANGED <<ring, quirks>>

(* One more reference to the file of oldfd of p. *)
AddRefForgotten(refs, p, oldfd) == refs      (* mutant of AddRef *)
AddRef(refs, p, oldfd) ==
  [e \in End |-> IF files[p][oldfd] = e THEN refs[e] + 1 ELSE refs[e]]
NoteDup(p, oldfd) ==
  quirks' = IF files[p][oldfd] \in End THEN quirks \cup {"dup"} ELSE quirks

(* dup(oldfd): the lowest free descriptor above the standard ones; no       *)
(* handler of the pipe is told.                                             *)
fd_dup(p, oldfd) ==
  /\ IF files[p][oldfd] # None /\ \E fd \in Fds : IsLowestFree(p, fd, STD_FDS)
     THEN \E fd \in Fds :
            /\ IsLowestFree(p, fd, STD_FDS)
            /\ files' = [files EXCEPT ![p][fd] = files[p][oldfd]]
            /\ ref_count' = AddRef(ref_count, p, oldfd) /\ WithinBound
            /\ NoteDup(p, oldfd)
            /\ Return(0)
     ELSE Return(Refused) /\ UNCHANGED <<files, ref_count, quirks>>
  /\ UNCHANGED <<alive, live, pipe_per_proc, ring>>

(* dup2(oldfd, newfd): newfd is closed first, its handler's answer ignored. *)
fd_dup2(p, oldfd, newfd) ==
  /\ IF files[p][oldfd] # None /\ oldfd # newfd
     THEN LET closed == {files[p][newfd]} \cap End
          IN  /\ closed # {} => live
              /\ pipe_close(p, closed)
              /\ ref_count' = AddRef(RefsAfterClose(p, closed), p, oldfd) /\ WithinBound
              /\ files' = [files EXCEPT ![p][newfd] = files[p][oldfd]]
              /\ NoteDup(p, oldfd)
              /\ Return(0)
     ELSE /\ Return(IF files[p][oldfd] = None THEN Refused ELSE 0)
          /\ UNCHANGED <<files, ref_count, live, pipe_per_proc, quirks>>
  /\ UNCHANGED <<alive, ring>>

-------------------------------------------------------------------------------
Lesser(a, b)  == IF a <= b THEN a ELSE b
AheadWithoutWrap(pos, n) == pos + n          (* mutant of Ahead *)
Ahead(pos, n) == (pos + n) % MAX_PIPE_SIZE
Gap(from, k)  == IF k >= from THEN k - from ELSE k - from + MAX_PIPE_SIZE

(* read(fd, ptr, count): refused unless the descriptor is the read end, the *)
(* buffer is writable and the end is open in the slot of p; then as many    *)
(* bytes as there are, oldest first.                                        *)
pipe_read(p, fd, valid, count) ==
  /\ files[p][fd] # Std /\ (files[p][fd] = "r" => live)
  /\ IF /\ files[p][fd] = "r" /\ valid
        /\ \E i \in Slot : IsLastSlot(i, p) /\ "r" \in pipe_per_proc[i].open
     THEN LET n == Lesser(count, buff_offset)
          IN  /\ out' = [i \in 1..n |-> pipe_buff[Ahead(read_pos, i - 1)]]
              /\ rc' = n
              /\ read_pos' = Ahead(read_pos, n)
              /\ buff_offset' = buff_offset - n
              /\ UNCHANGED <<pipe_buff, write_pos>>
     ELSE Return(Refused) /\ UNCHANGED ring
  /\ UNCHANGED <<alive, files, ref_count, live, pipe_per_proc, quirks>>

(* write(fd, ptr, s): likewise; as many bytes of s as fit, after the newest. *)
pipe_write(p, fd, valid, s) ==
  /\ files[p][fd] # Std /\ (files[p][fd] = "w" => live)
  /\ IF /\ files[p][fd] = "w" /\ valid
        /\ \E i \in Slot : IsFirstSlot(i, p) /\ "w" \in pipe_per_proc[i].open
     THEN LET n == Lesser(Len(s), MAX_PIPE_SIZE - buff_offset)
          IN  /\ pipe_buff' = [k \in Index |-> IF Gap(write_pos, k) < n
                                               THEN s[Gap(write_pos, k) + 1]
                                               ELSE pipe_buff[k]]
              /\ write_pos' = Ahead(write_pos, n)
              /\ buff_offset' = buff_offset + n
              /\ Return(n)
              /\ UNCHANGED read_pos
     ELSE Return(Refused) /\ UNCHANGED ring
  /\ UNCHANGED <<alive, files, ref_count, live, pipe_per_proc, quirks>>

Next ==
  \E p \in alive :
    \/ create_pipe(p)
    \/ \E c \in Pids : do_fork(p, c)
    \/ \E fd \in Fds : do_close(p, fd)
    \/ do_exit(p)
    \/ \E fd \in Fds : fd_dup(p, fd)
    \/ \E oldfd, newfd \in Fds : fd_dup2(p, oldfd, newfd)
    \/ \E fd \in Fds :
         \/ \E count \in 0..MaxCount, valid \in BOOLEAN : pipe_read(p, fd, valid, count)
         \/ \E s \in Messages, valid \in BOOLEAN : pipe_write(p, fd, valid, s)

Spec == Init /\ [][Next]_vars

-------------------------------------------------------------------------------
TypeOK ==
  /\ alive \in SUBSET Pids
  /\ files \in [Pids -> [Fds -> End \cup {Std, None}]]
  /\ ref_count \in [End -> Int]
  /\ live \in BOOLEAN
  /\ pipe_per_proc \in [Slot -> [pid : Pids \cup {NoPid}, open : SUBSET End]]
  /\ pipe_buff \in [Index -> Data]
  /\ read_pos \in Index /\ write_pos \in Index
  /\ buff_offset \in 0..MAX_PIPE_SIZE
  /\ rc \in Int /\ out \in Messages
  /\ quirks \in SUBSET {"dup", "fork"}

(* A process owns at most one slot, and a slot is taken exactly while one   *)
(* of its flags is set: so it does not matter that pipe_write stops at the  *)
(* first match and the other scans keep the last.                           *)
OneSlotPerProcess ==
  /\ \A i, j \in Slot : /\ pipe_per_proc[i].pid = pipe_per_proc[j].pid
                        /\ pipe_per_proc[i].pid # NoPid
                        => i = j
  /\ \A i \in Slot : pipe_per_proc[i].pid = NoPid <=> pipe_per_proc[i].open = {}

(* An end flagged open belongs to a running process with a descriptor for   *)
(* it, so pipe_close can still be reached for every flag, and the pipe is   *)
(* freed at the latest when the last process exits, duplicates or not.      *)
OpenEndsHaveDescriptors ==
  \A i \in Slot : pipe_per_proc[i].open # {} =>
    /\ pipe_per_proc[i].pid \in alive
    /\ pipe_per_proc[i].open \subseteq Held(pipe_per_proc[i].pid)

(* The pages are released by the close of the last open end, not before and *)
(* not never (free_pipe in pipe_close).                                     *)
FreedWithLastEnd == live <=> SomeEndOpen(pipe_per_proc)

(* Until a descriptor of the pipe is duplicated or a fork handler fails,    *)
(* every descriptor is backed by an open flag of its process, so no         *)
(* descriptor points to freed pages and every close succeeds.               *)
NothingDangling ==
  quirks = {} =>
    \A p \in Pids, e \in End : e \in Held(p) =>
      /\ live
      /\ \E i \in Slot : pipe_per_proc[i].pid = p /\ e \in pipe_per_proc[i].open

(* Under the same condition the reference count of a file object is the     *)
(* number of descriptors of all processes that refer to it, so file_close   *)
(* deletes the object with its last descriptor; in any history it is never  *)
(* smaller, so no object is deleted under a descriptor.                     *)
References(e) == Cardinality({d \in Pids \X Fds : files[d[1]][d[2]] = e})
ReferencesCounted ==
  \A e \in End : /\ ref_count[e] >= References(e)
                 /\ quirks = {} => ref_count[e] = References(e)

(* The pipe implements the abstract byte queue: bytes come out once, in     *)
(* the order they went in, whoever writes and reads and however the ring    *)
(* wraps; a call without the right changes nothing.                         *)
Contents == [i \in 1..buff_offset |-> pipe_buff[Ahead(read_pos, i - 1)]]
Queue == IF live THEN Contents ELSE <<>>
Users == {u \in Pids \X End : \E i \in Slot :
            pipe_per_proc[i].pid = u[1] /\ u[2] \in pipe_per_proc[i].open}
Abstract == INSTANCE BytePipe WITH
  users <- Users, queue <- Queue,
  Capacity <- MAX_PIPE_SIZE, Counts <- 0..MaxCount
KeepsPipePromise == Abstract!Spec
===============================================================================
