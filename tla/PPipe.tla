--------------------------------- MODULE PPipe --------------------------------
(***************************************************************************)
(* One gemOS persistent pipe (ppipe.c): a ring that keeps what was written *)
(* until every reader has read it and a flush reclaims it.  Each process   *)
(* has its own read position and its own count of unread bytes.            *)
(* Handlers run with interrupts disabled, so each is one action.  Module   *)
(* Pipe models descriptor tables, duplication and reference counts; here a *)
(* process has at most one descriptor for each end.                        *)
(***************************************************************************)
EXTENDS Integers, Sequences, FiniteSets

CONSTANTS
  Pids, Data,
  MAX_PPIPE_SIZE,  (* bytes in the ring                                 *)
  MAX_PPIPE_PROC,  (* slots in the pipe                                 *)
  IntRange,        (* values of an int: 2^32                            *)
  MaxCount         (* bound: bytes asked for or offered by one call     *)

ASSUME PPipePids  == Pids \subseteq Nat /\ IsFiniteSet(Pids)
ASSUME PPipeSizes == /\ MAX_PPIPE_SIZE \in Nat \ {0}
                     /\ MAX_PPIPE_PROC \in Nat \ {0}
                     /\ IntRange \in Nat /\ IntRange > MAX_PPIPE_SIZE
                     /\ MaxCount \in Nat

Refused  == -1                       (* any of the error codes              *)
End      == {"r", "w"}
Slot     == 0..(MAX_PPIPE_PROC - 1)
Index    == 0..(MAX_PPIPE_SIZE - 1)
NoPid    == -1
FreeSlot == [pid |-> NoPid, open |-> {}, read_pos |-> 0, loc_offset |-> 0]
Messages == UNION {[1..n -> Data] : n \in 0..MaxCount}

VARIABLES
  alive,          (* contexts in use                                        *)
  holds,          (* holds[p]: the ends p has a descriptor for              *)
  live,           (* the pipe's pages are allocated                         *)
  ppipe_per_proc,
  ppipe_buff, write_pos,
  buff_offset,    (* bytes kept                                             *)
  rc, out,        (* result of the last call, bytes stored for its caller   *)
  fork_failed     (* history: the fork handler of this pipe has failed      *)

procs == <<alive, holds, live, fork_failed>>
vars  == <<procs, ppipe_per_proc, ppipe_buff, write_pos, buff_offset, rc, out>>

-------------------------------------------------------------------------------
IsFirstSlot(i, p) == /\ ppipe_per_proc[i].pid = p
                     /\ \A j \in Slot : j < i => ppipe_per_proc[j].pid # p
IsLastSlot(i, p)  == /\ ppipe_per_proc[i].pid = p
                     /\ \A j \in Slot : j > i => ppipe_per_proc[j].pid # p
Recorded(p)       == \E i \in Slot : ppipe_per_proc[i].pid = p
Reading(i)        == ppipe_per_proc[i].pid # NoPid /\ "r" \in ppipe_per_proc[i].open
SomeEndOpen(slots) == \E i \in Slot : slots[i].pid # NoPid /\ slots[i].open # {}

Lesser(a, b)  == IF a <= b THEN a ELSE b
Ahead(pos, n) == (pos + n) % MAX_PPIPE_SIZE
Gap(from, k)  == IF k >= from THEN k - from ELSE k - from + MAX_PPIPE_SIZE

Return(value) == rc' = value /\ out' = <<>>

-------------------------------------------------------------------------------
Init ==
  /\ alive = {p \in Pids : \A q \in Pids : p <= q}
  /\ holds = [p \in Pids |-> {}]
  /\ live = FALSE
  /\ ppipe_per_proc = [i \in Slot |-> FreeSlot]
  /\ ppipe_buff \in [Index -> Data]
  /\ write_pos = 0 /\ buff_offset = 0
  /\ rc = 0 /\ out = <<>> /\ fork_failed = FALSE

(* One pipe at a time.  The call fails for want of descriptors or memory. *)
create_persistent_pipe(p) ==
  /\ ~live /\ \A q \in Pids : holds[q] = {}
  /\ \/ /\ holds' = [holds EXCEPT ![p] = End]
        /\ live' = TRUE
        /\ ppipe_per_proc' = [i \in Slot |->
             IF i = 0 THEN [FreeSlot EXCEPT !.pid = p, !.open = End] ELSE FreeSlot]
        /\ write_pos' = 0 /\ buff_offset' = 0
        /\ fork_failed' = FALSE
        /\ Return(0)
        /\ UNCHANGED <<alive, ppipe_buff>>
     \/ /\ Return(Refused)
        /\ UNCHANGED <<procs, ppipe_per_proc, ppipe_buff, write_pos, buff_offset>>

(* do_ppipe_fork: the child c starts as a copy of its parent's slot.  It    *)
(* runs once per inherited descriptor; the second run changes nothing.      *)
CanRecord(p) == Recorded(p) /\ Recorded(NoPid)
do_ppipe_forkAtStart(p, c) ==                (* mutant: flags copied, cursor not *)
  ppipe_per_proc' =
    IF Recorded(c) \/ ~CanRecord(p) THEN ppipe_per_proc
    ELSE [i \in Slot |->
            IF IsFirstSlot(i, NoPid)
            THEN [FreeSlot EXCEPT !.pid = c,
                    !.open = ppipe_per_proc[CHOOSE j \in Slot : IsLastSlot(j, p)].open]
            ELSE ppipe_per_proc[i]]
do_ppipe_fork(p, c) ==
  ppipe_per_proc' =
    IF Recorded(c) \/ ~CanRecord(p) THEN ppipe_per_proc
    ELSE [i \in Slot |->
            IF IsFirstSlot(i, NoPid)
            THEN [ppipe_per_proc[CHOOSE j \in Slot : IsLastSlot(j, p)] EXCEPT !.pid = c]
            ELSE ppipe_per_proc[i]]

(* fork(): when the handler fails the child runs all the same, with         *)
(* descriptors and without a slot.                                          *)
do_fork(p, c) ==
  /\ c \notin alive /\ \A q \in Pids : q < c => q \in alive
  /\ holds[p] # {} => live
  /\ alive' = alive \cup {c}
  /\ holds' = [holds EXCEPT ![c] = holds[p]]
  /\ IF holds[p] = {} THEN Return(0) /\ UNCHANGED <<ppipe_per_proc, fork_failed>>
     ELSE /\ do_ppipe_fork(p, c)
          /\ fork_failed' = (fork_failed \/ ~(Recorded(c) \/ CanRecord(p)))
          /\ Return(IF Recorded(c) \/ CanRecord(p) THEN 0 ELSE Refused)
  /\ UNCHANGED <<live, ppipe_buff, write_pos, buff_offset>>

-------------------------------------------------------------------------------
(* ppipe_close, called by p for each of the ends E that it holds. *)
Closable(p, E) == {e \in E : \E i \in Slot :
                     IsLastSlot(i, p) /\ e \in ppipe_per_proc[i].open}
ppipe_closeKeepingPid(p, E) ==               (* mutant of ppipe_close *)
  /\ ppipe_per_proc' = [i \in Slot |->
       IF IsLastSlot(i, p) /\ Closable(p, E) # {}
       THEN [ppipe_per_proc[i] EXCEPT !.open = @ \ E]
       ELSE ppipe_per_proc[i]]
  /\ live' = (live /\ (Closable(p, E) = {} \/ SomeEndOpen(ppipe_per_proc')))
ppipe_close(p, E) ==
  /\ ppipe_per_proc' = [i \in Slot |->
       IF IsLastSlot(i, p) /\ Closable(p, E) # {}
       THEN IF ppipe_per_proc[i].open \subseteq E THEN FreeSlot
            ELSE [ppipe_per_proc[i] EXCEPT !.open = @ \ E]
       ELSE ppipe_per_proc[i]]
  /\ live' = (live /\ (Closable(p, E) = {} \/ SomeEndOpen(ppipe_per_proc')))

(* close(fd): the descriptor goes whatever the handler answers; as in Pipe, *)
(* the kernel's do_close returns that answer.                               *)
do_close(p, e) ==
  /\ e \in holds[p] /\ live
  /\ holds' = [holds EXCEPT ![p] = @ \ {e}]
  /\ ppipe_close(p, {e})
  /\ Return(IF Closable(p, {e}) = {} THEN Refused ELSE 0)
  /\ UNCHANGED <<alive, ppipe_buff, write_pos, buff_offset, fork_failed>>

do_exit(p) ==
  /\ holds[p] # {} => live
  /\ alive' = alive \ {p}
  /\ holds' = [holds EXCEPT ![p] = {}]
  /\ ppipe_close(p, holds[p])
  /\ Return(0)
  /\ UNCHANGED <<ppipe_buff, write_pos, buff_offset, fork_failed>>

-------------------------------------------------------------------------------
(* read through the descriptor of end e: refused unless e is the read end   *)
(* and open in the slot of p; then the oldest bytes p has not read.         *)
ppipe_read(p, e, valid, count) ==
  /\ e \in holds[p] /\ live
  /\ \/ \E i \in Slot :
          /\ e = "r" /\ valid
          /\ IsFirstSlot(i, p) /\ "r" \in ppipe_per_proc[i].open
          /\ LET mine == ppipe_per_proc[i]
                 n    == Lesser(count, mine.loc_offset)
             IN  /\ out' = [k \in 1..n |-> ppipe_buff[Ahead(mine.read_pos, k - 1)]]
                 /\ rc' = n
                 /\ ppipe_per_proc' = [ppipe_per_proc EXCEPT
                      ![i].read_pos = Ahead(@, n), ![i].loc_offset = @ - n]
     \/ /\ \/ e # "r" \/ ~valid
           \/ \A i \in Slot : IsFirstSlot(i, p) => "r" \notin ppipe_per_proc[i].open
        /\ Return(Refused) /\ UNCHANGED ppipe_per_proc
  /\ UNCHANGED <<procs, ppipe_buff, write_pos, buff_offset>>

(* write: as many bytes as there is room for, and every slot in use counts  *)
(* them as unread, in an int that wraps for a process that never reads.     *)
Room == MAX_PPIPE_SIZE - buff_offset
ppipe_write(p, e, valid, s) ==
  /\ e \in holds[p] /\ live
  /\ \/ /\ e = "w" /\ valid
        /\ \E i \in Slot : IsFirstSlot(i, p) /\ "w" \in ppipe_per_proc[i].open
        /\ LET n == Lesser(Len(s), Room)
           IN  /\ ppipe_buff' = [k \in Index |-> IF Gap(write_pos, k) < n
                                                 THEN s[Gap(write_pos, k) + 1]
                                                 ELSE ppipe_buff[k]]
               /\ write_pos' = Ahead(write_pos, n)
               /\ buff_offset' = buff_offset + n
               /\ ppipe_per_proc' = [i \in Slot |->
                    IF ppipe_per_proc[i].pid = NoPid THEN ppipe_per_proc[i]
                    ELSE [ppipe_per_proc[i] EXCEPT !.loc_offset = (@ + n) % IntRange]]
               /\ Return(n)
     \/ /\ \/ e # "w" \/ ~valid
           \/ \A i \in Slot : IsFirstSlot(i, p) => "w" \notin ppipe_per_proc[i].open
        /\ Return(Refused)
        /\ UNCHANGED <<ppipe_per_proc, ppipe_buff, write_pos, buff_offset>>
  /\ UNCHANGED procs

do_flush_ppipeShortest(p) ==                 (* mutant: the smallest backlog *)
  /\ holds[p] # {} /\ live
  /\ \/ \E i \in Slot :
          /\ Reading(i)
          /\ \A j \in Slot : Reading(j) =>
               ppipe_per_proc[j].loc_offset >= ppipe_per_proc[i].loc_offset
          /\ buff_offset' = ppipe_per_proc[i].loc_offset
          /\ Return(buff_offset - ppipe_per_proc[i].loc_offset)
     \/ /\ \A i \in Slot : ~Reading(i)
        /\ Return(0) /\ UNCHANGED buff_offset
  /\ UNCHANGED <<procs, ppipe_per_proc, ppipe_buff, write_pos>>
(* flush through any descriptor of the pipe: what is kept shrinks to the    *)
(* longest backlog of a reader; without a reader nothing happens.           *)
do_flush_ppipe(p) ==
  /\ holds[p] # {} /\ live
  /\ \/ \E i \in Slot :
          /\ Reading(i)
          /\ \A j \in Slot : Reading(j) =>
               ppipe_per_proc[j].loc_offset <= ppipe_per_proc[i].loc_offset
          /\ buff_offset' = ppipe_per_proc[i].loc_offset
          /\ Return(buff_offset - ppipe_per_proc[i].loc_offset)
     \/ /\ \A i \in Slot : ~Reading(i)
        /\ Return(0) /\ UNCHANGED buff_offset
  /\ UNCHANGED <<procs, ppipe_per_proc, ppipe_buff, write_pos>>

Next ==
  \E p \in alive :
    \/ create_persistent_pipe(p)
    \/ \E c \in Pids : do_fork(p, c)
    \/ \E e \in End : do_close(p, e)
    \/ do_exit(p)
    \/ \E e \in End, valid \in BOOLEAN :
         \/ \E count \in 0..MaxCount : ppipe_read(p, e, valid, count)
         \/ \E s \in Messages : ppipe_write(p, e, valid, s)
    \/ do_flush_ppipe(p)

Spec == Init /\ [][Next]_vars

-------------------------------------------------------------------------------
(* The three counters of the pipe agree for every reader, however it came   *)
(* by its slot: its unread bytes are the last ones written (so it meets     *)
(* write_pos exactly when its count is 0) and they are all kept, so that a  *)
(* write never lands on them, and a flush never reports a negative number.  *)
ReadersInStep ==
  \A i \in Slot : Reading(i) =>
    /\ Ahead(ppipe_per_proc[i].read_pos, ppipe_per_proc[i].loc_offset) = write_pos
    /\ ppipe_per_proc[i].loc_offset <= buff_offset

(* An end flagged open belongs to one running process with a descriptor for *)
(* it, the pages are held exactly as long as one is open, and unless the    *)
(* fork handler has failed every descriptor is backed by such a flag.       *)
SlotsMatchDescriptors ==
  /\ \A i, j \in Slot : /\ ppipe_per_proc[i].pid = ppipe_per_proc[j].pid
                        /\ ppipe_per_proc[i].pid # NoPid
                        => i = j
  /\ \A i \in Slot : ppipe_per_proc[i].pid # NoPid =>
       /\ ppipe_per_proc[i].pid \in alive /\ ppipe_per_proc[i].open # {}
       /\ ppipe_per_proc[i].open \subseteq holds[ppipe_per_proc[i].pid]
  /\ live <=> SomeEndOpen(ppipe_per_proc)
  /\ ~fork_failed => \A p \in Pids : \A e \in holds[p] : \E i \in Slot :
       ppipe_per_proc[i].pid = p /\ e \in ppipe_per_proc[i].open

(* The persistent pipe implements the abstract stream: every reader sees    *)
(* all bytes written since it (or the ancestor it was forked from) was      *)
(* there, once and in order, whatever the others read and whenever somebody *)
(* flushes; a flush reclaims exactly the bytes all readers have read.       *)
(* For a reader i the window begins at the oldest byte kept.                *)
Behind(n) == (write_pos + MAX_PPIPE_SIZE - n) % MAX_PPIPE_SIZE
Users == {u \in Pids \X End : \E i \in Slot :
            ppipe_per_proc[i].pid = u[1] /\ u[2] \in ppipe_per_proc[i].open}
Window == IF live THEN [k \in 1..buff_offset |->
                          ppipe_buff[Ahead(Behind(buff_offset), k - 1)]]
          ELSE <<>>
Cursor == [p \in {q \in Pids : <<q, "r">> \in Users} |->
             LET i == CHOOSE j \in Slot : ppipe_per_proc[j].pid = p
             IN  buff_offset - ppipe_per_proc[i].loc_offset]
Abstract == INSTANCE PersistentStream WITH
  users <- Users, window <- Window, cursor <- Cursor,
  Capacity <- MAX_PPIPE_SIZE, Counts <- 0..MaxCount
KeepsStreamPromise == Abstract!Spec
===============================================================================
