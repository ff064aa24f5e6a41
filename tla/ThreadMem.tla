----------------------------- MODULE ThreadMem -----------------------------
(***************************************************************************)
(* Memory of one thread that its siblings may or may not touch: gmalloc    *)
(* and gfree of the library (gthread.c), the private mappings the kernel   *)
(* records (clone_threads_helper.c), and the two handlers that enforce     *)
(* them by editing the one page table all threads share (clone_threads.c): *)
(* at a page fault, and whenever another context gets the processor.       *)
(*                                                                         *)
(* A thread is its index in both tables.  An area has a part of whole      *)
(* pages and, if its size is no multiple of the page, a last page of its   *)
(* own.  mmap and munmap are external.                                     *)
(***************************************************************************)
EXTENDS Naturals, FiniteSets

CONSTANTS Threads, Process,
          Areas,     \* addresses mmap may return
          MaxAreas,  \* MAX_PRIVATE_AREAS and MAX_GALLOC_AREAS
          Flags,     \* of "own", "rdonly", "rdwr": what the program asks for
          Sizes      \* of "aligned", "unaligned"

ASSUME MemAssumption ==
  /\ Process \notin Threads
  /\ MaxAreas \in Nat
  /\ Flags \subseteq {"own", "rdonly", "rdwr"}
  /\ Sizes \subseteq {"aligned", "unaligned"}

Contexts == Threads \cup {Process}
Parts == {"whole", "last"}
Pages == Areas \X Parts

VARIABLES cur,    \* the context that runs, or ran before the swapper
          life,   \* of a thread: none, alive, over, or killed; the last
                  \* two until it is joined
          map,    \* private_mappings: owner, flags and size of a mapped area
          pte,    \* what the page table allows on a page
          areas,  \* priv_areas of the library
          left    \* a thread was joined that had not freed its areas

vars == <<cur, life, map, pte, areas, left>>

NoMap == [owner |-> Process, flags |-> "own", size |-> "aligned"]
Mapped(a) == map[a] # NoMap
Owned(t) == {a \in Areas : Mapped(a) /\ map[a].owner = t}
HasPage(a, part) == Mapped(a) /\ (part = "last" => map[a].size = "unaligned")

Init ==
  /\ cur = Process
  /\ life = [t \in Threads |-> "none"]
  /\ map = [a \in Areas |-> NoMap]
  /\ pte = [p \in Pages |-> "none"]
  /\ areas = [t \in Threads |-> {}]
  /\ left = FALSE

-----------------------------------------------------------------------------
(* The kernel.                                                             *)

\* The level-1 entry after pt_walk: from a switch an absent page stays
\* absent, a fault allocates it.
pt_walk(entry, remove, from_switch, comp_off) ==
  IF entry = "none" /\ from_switch THEN "none"
  ELSE IF comp_off /\ entry # "none" THEN "off"
  ELSE IF remove THEN "ro" ELSE "rw"

\* The rights of the next context c on the page p of an area recorded in m;
\* only length / PAGE_SIZE pages of it are visited.
SwitchedLeavingAccess(c, m, p, entry) ==   \* mutant: no branch for NOACCESS
  LET r == m[p[1]] IN
  IF r = NoMap \/ p[2] = "last" THEN entry
  ELSE pt_walk(entry, c \notin {Process, r.owner} /\ r.flags = "rdonly", TRUE, FALSE)
Switched(c, m, p, entry) ==
  LET r == m[p[1]] IN
  IF r = NoMap \/ p[2] = "last" THEN entry
  ELSE IF c \in {Process, r.owner} \/ r.flags = "rdwr" THEN pt_walk(entry, FALSE, TRUE, FALSE)
  ELSE IF r.flags = "rdonly" THEN pt_walk(entry, TRUE, TRUE, FALSE)
  ELSE pt_walk(entry, FALSE, TRUE, TRUE)

Runnable(c) == c \in {Process} \cup {t \in Threads : life[t] = "alive"}

handle_private_ctxswitch(c) ==
  /\ c # cur /\ Runnable(c)
  /\ cur' = c
  /\ pte' = [p \in Pages |-> Switched(c, map, p, pte[p])]
  /\ UNCHANGED <<life, map, areas, left>>

\* handle_thread_exit unmaps what the thread owns; the process is made ready
\* and some context is scheduled.  how is over for exit, killed for a fault.
Unmap(as) == [a \in Areas |-> IF a \in as THEN NoMap ELSE map[a]]
Cleared(as) == [p \in Pages |-> IF p[1] \in as THEN "none" ELSE pte[p]]

ends(t, how, m, table) ==
  /\ life' = [life EXCEPT ![t] = how]
  /\ \E c \in Contexts \ {t} :
       /\ Runnable(c)
       /\ cur' = c
       /\ pte' = [p \in Pages |-> Switched(c, m, p, table[p])]
  /\ map' = m
handle_thread_exitRecorded(t, how) ==   \* mutant: the records stay
  ends(t, how, map, Cleared(Owned(t)))
handle_thread_exitMapped(t, how) ==   \* mutant: the page table stays
  ends(t, how, Unmap(Owned(t)), pte)
handle_thread_exit(t, how) == ends(t, how, Unmap(Owned(t)), Cleared(Owned(t)))

CanRecord == Cardinality(Owned(cur)) < MaxAreas
handle_thread_private_mmap(a, flags, size) ==
  /\ CanRecord
  /\ map' = [map EXCEPT ![a] = [owner |-> cur, flags |-> flags, size |-> size]]
  /\ UNCHANGED <<cur, life, pte>>

segfault_exit == cur # Process /\ handle_thread_exit(cur, "killed")

-----------------------------------------------------------------------------
(* Accesses.  write and the entry make the error code: 4 and 6 for an      *)
(* absent page, 5 for a read the entry forbids, 7 for such a write.        *)

Allowed(entry, write) == entry = "rw" \/ (entry = "ro" /\ ~write)

\* handle_thread_private_fault fixes the fault: error code 7 is a kill for
\* everybody, and the process faults in the pages of any area.
\* error_code & 0x2 == 0 is error_code & (0x2 == 0), which is never true.
FixedForOwner(a, part, write) == cur \in {Process, map[a].owner}   \* mutant: no flags
Fixed(a, part, write) ==
  /\ ~(pte[<<a, part>>] # "none" /\ write)
  /\ \/ cur \in {Process, map[a].owner}
     \/ map[a].flags = "rdwr"
     \/ map[a].flags = "rdonly" /\ FALSE

Succeeds(a, part, write) == Allowed(pte[<<a, part>>], write) \/ Fixed(a, part, write)

Access(a, part, write) ==
  /\ HasPage(a, part)
  /\ \/ Allowed(pte[<<a, part>>], write) /\ UNCHANGED vars
     \/ /\ ~Allowed(pte[<<a, part>>], write) /\ Fixed(a, part, write)
        /\ pte' = [pte EXCEPT ![<<a, part>>] = pt_walk(@, FALSE, FALSE, FALSE)]
        /\ UNCHANGED <<cur, life, map, areas, left>>
     \/ /\ ~Succeeds(a, part, write)
        /\ segfault_exit
        /\ UNCHANGED <<areas, left>>

-----------------------------------------------------------------------------
(* The library.                                                            *)

gthread_create(t) ==
  /\ cur = Process /\ life[t] = "none"
  /\ life' = [life EXCEPT ![t] = "alive"]
  /\ UNCHANGED <<cur, map, pte, areas, left>>

gthread_exit ==
  /\ cur # Process
  /\ handle_thread_exit(cur, "over")
  /\ UNCHANGED <<areas, left>>

\* gfree is called by the process, which is in no entry of the table: it
\* changes nothing, and the records stay for the next thread of this index.
gthread_join(t) ==
  /\ cur = Process /\ life[t] \in {"over", "killed"}
  /\ life' = [life EXCEPT ![t] = "none"]
  /\ left' = (left \/ areas[t] # {})
  /\ UNCHANGED <<cur, map, pte, areas>>

\* mmap takes any free area; if the kernel has no record left for it, mmap
\* takes the area back, and the handler of munmap finds no record of it.
\* A library without a free record gives the area up without unmapping it.
Recorded(a) == [areas EXCEPT ![cur] = IF Cardinality(@) < MaxAreas THEN @ \cup {a} ELSE @]
gmalloc(a, flags, size) ==
  /\ cur # Process /\ ~Mapped(a)
  /\ \/ ~CanRecord /\ segfault_exit /\ UNCHANGED areas
     \/ handle_thread_private_mmap(a, flags, size) /\ areas' = Recorded(a)
  /\ UNCHANGED left

\* munmap of an address without an area succeeds, of a sibling's area kills.
handle_thread_private_unmmap(a) ==
  /\ Mapped(a) => map[a].owner = cur
  /\ map' = Unmap({a}) /\ pte' = Cleared({a})
  /\ UNCHANGED <<cur, life>>

gfreeKept(a) ==   \* mutant: the owner is not cleared
  /\ cur # Process /\ a \in areas[cur]
  /\ \/ Mapped(a) /\ map[a].owner # cur /\ segfault_exit
     \/ handle_thread_private_unmmap(a)
  /\ UNCHANGED <<areas, left>>
gfree(a) ==
  /\ cur # Process /\ a \in areas[cur]
  /\ \/ Mapped(a) /\ map[a].owner # cur /\ segfault_exit /\ UNCHANGED areas
     \/ handle_thread_private_unmmap(a) /\ areas' = [areas EXCEPT ![cur] = @ \ {a}]
  /\ UNCHANGED left

-----------------------------------------------------------------------------
Next ==
  \/ \E c \in Contexts : handle_private_ctxswitch(c)
  \/ \E a \in Areas, part \in Parts, write \in BOOLEAN : Access(a, part, write)
  \/ \E t \in Threads : gthread_create(t) \/ gthread_join(t)
  \/ gthread_exit
  \/ \E a \in Areas, flags \in Flags, size \in Sizes : gmalloc(a, flags, size)
  \/ \E a \in Areas : gfree(a)

Spec == Init /\ [][Next]_vars

-----------------------------------------------------------------------------
(* Properties.                                                             *)

\* The types of the variables; only threads that live own areas, none more
\* than the kernel or the library can record (handle_thread_private_mmap).
TypeOK ==
  /\ cur \in Contexts /\ Runnable(cur)
  /\ life \in [Threads -> {"none", "alive", "over", "killed"}]
  /\ map \in [Areas -> [owner : Contexts, flags : {"own", "rdonly", "rdwr"},
                        size : {"aligned", "unaligned"}]]
  /\ \A a \in Areas : Mapped(a) => map[a].owner \in Threads /\ life[map[a].owner] = "alive"
  /\ pte \in [Pages -> {"none", "off", "ro", "rw"}]
  /\ areas \in [Threads -> SUBSET Areas]
  /\ \A t \in Threads : Cardinality(Owned(t)) <= MaxAreas

\* What the flag of an area lets the context c do.
Permitted(c, a, write) ==
  \/ c \in {Process, map[a].owner}
  \/ map[a].flags = "rdwr"
  \/ map[a].flags = "rdonly" /\ ~write

\* Whatever was touched, mapped and freed before and by whom, the running
\* context has no access to a whole page that its owner's flag denies it
\* (handle_private_ctxswitch, handle_thread_private_fault).
NothingForbidden ==
  \A a \in Areas, write \in BOOLEAN :
    HasPage(a, "whole") /\ Succeeds(a, "whole", write) => Permitted(cur, a, write)

\* And it has every access that the flag grants, unless it would be the
\* first to read a page that siblings may only read.
PermittedSucceeds ==
  \A a \in Areas, part \in Parts, write \in BOOLEAN :
    /\ HasPage(a, part) /\ Permitted(cur, a, write)
    /\ pte[<<a, part>>] = "none" => map[a].flags # "rdonly" \/ cur \in {Process, map[a].owner}
    => Succeeds(a, part, write)

\* No right outlives its area: where nothing is mapped the page table is
\* empty, so the next owner of an address starts from nothing
\* (handle_thread_exit, gfree).
NoStaleRights ==
  \A a \in Areas, part \in Parts : ~HasPage(a, part) => pte[<<a, part>>] = "none"

\* Until a thread is joined that has not freed its areas, the library
\* records for each live thread exactly the areas the kernel knows.
LibraryMatchesKernel ==
  ~left => \A t \in Threads : life[t] = "alive" => areas[t] = Owned(t)

\* A sibling may read what is shared for reading (assignment text, 5.1).
SiblingsMayRead ==
  \A a \in Areas : HasPage(a, "whole") /\ map[a].flags = "rdonly" => Succeeds(a, "whole", FALSE)
=============================================================================
