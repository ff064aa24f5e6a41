--------------------------- MODULE ThreadMemProofs ---------------------------
(***************************************************************************)
(* Proofs about ThreadMem for any threads, addresses and table sizes.      *)
(***************************************************************************)
EXTENDS ThreadMem, FiniteSetTheorems, TLAPS

Entries == {"none", "off", "ro", "rw"}
Records == [owner : Contexts, flags : {"own", "rdonly", "rdwr"}, size : {"aligned", "unaligned"}]

\* The entries of a whole page of an area recorded in r while c runs.
Given(c, r) ==
  IF c \in {Process, r.owner} \/ r.flags = "rdwr" THEN {"none", "rw"}
  ELSE IF r.flags = "rdonly" THEN {"none", "ro"} ELSE {"none", "off"}

\* The page table follows the flags on whole pages, and a last page is open
\* once it was touched: no switch visits it.
RightsInv ==
  \A a \in Areas : Mapped(a) =>
    /\ pte[<<a, "whole">>] \in Given(cur, map[a])
    /\ pte[<<a, "last">>] \in {"none", "rw"}

\* The library's entries of threads that are no more are empty.
UnusedEmpty == ~left => \A t \in Threads : life[t] = "none" => areas[t] = {}

OwnedFinite == \A t \in Threads : IsFiniteSet(Owned(t))

IInv ==
  /\ TypeOK
  /\ OwnedFinite
  /\ NoStaleRights
  /\ RightsInv
  /\ LibraryMatchesKernel
  /\ UnusedEmpty

-----------------------------------------------------------------------------
LEMMA PageFacts ==
  ASSUME NEW a \in Areas, NEW part \in Parts
  PROVE  <<a, part>> \in Pages /\ <<a, part>>[1] = a /\ <<a, part>>[2] = part
  BY DEF Pages

LEMMA PagesOnly == \A p \in Pages : \E a \in Areas, part \in Parts : p = <<a, part>>
  BY DEF Pages

\* What a switch to c leaves in one entry.
LEMMA SwitchedEntry ==
  ASSUME NEW c \in Contexts, NEW m \in [Areas -> Records], NEW a \in Areas,
         NEW part \in Parts, NEW entry \in Entries
  PROVE  LET new == Switched(c, m, <<a, part>>, entry) IN
         /\ new \in Entries
         /\ entry = "none" => new = "none"
         /\ part = "last" => new = entry
         /\ m[a] = NoMap => new = entry
         /\ part = "whole" /\ m[a] # NoMap => new \in Given(c, m[a])
<1>1. <<a, part>>[1] = a /\ <<a, part>>[2] = part
  OBVIOUS
<1>2. m[a] \in Records
  OBVIOUS
<1>3. CASE m[a] = NoMap \/ part = "last"
  BY <1>1, <1>3 DEF Switched, Parts
<1>4. CASE m[a] # NoMap /\ part = "whole"
  <2>1. Switched(c, m, <<a, part>>, entry) =
          IF c \in {Process, m[a].owner} \/ m[a].flags = "rdwr"
          THEN pt_walk(entry, FALSE, TRUE, FALSE)
          ELSE IF m[a].flags = "rdonly" THEN pt_walk(entry, TRUE, TRUE, FALSE)
          ELSE pt_walk(entry, FALSE, TRUE, TRUE)
    BY <1>1, <1>4 DEF Switched
  <2>2. /\ pt_walk(entry, FALSE, TRUE, FALSE) = IF entry = "none" THEN "none" ELSE "rw"
        /\ pt_walk(entry, TRUE, TRUE, FALSE) = IF entry = "none" THEN "none" ELSE "ro"
        /\ pt_walk(entry, FALSE, TRUE, TRUE) = IF entry = "none" THEN "none" ELSE "off"
    BY DEF pt_walk
  <2> QED
    BY <1>4, <2>1, <2>2 DEF Given, Entries
<1> QED
  BY <1>3, <1>4 DEF Parts

\* The page table after a switch, from the table as it was before.
LEMMA SwitchedTable ==
  ASSUME NEW c \in Contexts, NEW m \in [Areas -> Records], NEW table \in [Pages -> Entries],
         NEW new, new = [p \in Pages |-> Switched(c, m, p, table[p])],
         \A a \in Areas, part \in Parts :
           ~(m[a] # NoMap /\ (part = "last" => m[a].size = "unaligned"))
             => table[<<a, part>>] = "none",
         \A a \in Areas : m[a] # NoMap => table[<<a, "last">>] \in {"none", "rw"}
  PROVE  /\ new \in [Pages -> Entries]
         /\ \A a \in Areas, part \in Parts :
              ~(m[a] # NoMap /\ (part = "last" => m[a].size = "unaligned"))
                => new[<<a, part>>] = "none"
         /\ \A a \in Areas : m[a] # NoMap =>
              /\ new[<<a, "whole">>] \in Given(c, m[a])
              /\ new[<<a, "last">>] \in {"none", "rw"}
<1>1. ASSUME NEW a \in Areas, NEW part \in Parts
      PROVE  /\ <<a, part>> \in Pages /\ table[<<a, part>>] \in Entries
             /\ new[<<a, part>>] = Switched(c, m, <<a, part>>, table[<<a, part>>])
  BY PageFacts
<1>2. new \in [Pages -> Entries]
  <2> SUFFICES ASSUME NEW p \in Pages PROVE Switched(c, m, p, table[p]) \in Entries
    OBVIOUS
  <2>1. PICK a \in Areas, part \in Parts : p = <<a, part>>
    BY PagesOnly
  <2>2. Switched(c, m, <<a, part>>, table[<<a, part>>]) \in Entries
    BY <1>1, SwitchedEntry
  <2> QED
    BY <2>1, <2>2
<1>3. ASSUME NEW a \in Areas, NEW part \in Parts,
             ~(m[a] # NoMap /\ (part = "last" => m[a].size = "unaligned"))
      PROVE  new[<<a, part>>] = "none"
  BY <1>1, <1>3, SwitchedEntry
<1>4. ASSUME NEW a \in Areas, m[a] # NoMap
      PROVE  new[<<a, "whole">>] \in Given(c, m[a])
  <2>1. "whole" \in Parts
    BY DEF Parts
  <2> QED
    BY <1>1, <1>4, <2>1, SwitchedEntry
<1>5. ASSUME NEW a \in Areas, m[a] # NoMap
      PROVE  new[<<a, "last">>] \in {"none", "rw"}
  <2>1. "last" \in Parts
    BY DEF Parts
  <2> QED
    BY <1>1, <1>5, <2>1, SwitchedEntry
<1> QED
  BY <1>2, <1>3, <1>4, <1>5

-----------------------------------------------------------------------------
(* One lemma for each kind of step.                                        *)

\* Facts about the areas of a state that satisfies the invariant.
LEMMA AreaFacts ==
  ASSUME TypeOK
  PROVE  /\ NoMap \in Records /\ NoMap.owner \notin Threads
         /\ map \in [Areas -> Records] /\ pte \in [Pages -> Entries]
         /\ \A a \in Areas : Mapped(a) => map[a].owner \in Threads
         /\ \A t \in Threads : Owned(t) \subseteq Areas
  BY MemAssumption DEF TypeOK, NoMap, Records, Entries, Contexts, Owned

\* A switch to another context.
LEMMA SwitchStep ==
  ASSUME IInv, NEW c \in Contexts, handle_private_ctxswitch(c)
  PROVE  IInv'
<1> USE DEF handle_private_ctxswitch
<1>1. TypeOK /\ NoStaleRights /\ RightsInv
  BY DEF IInv
<1>2. /\ pte' \in [Pages -> Entries]
      /\ \A a \in Areas, part \in Parts :
           ~(map[a] # NoMap /\ (part = "last" => map[a].size = "unaligned"))
             => pte'[<<a, part>>] = "none"
      /\ \A a \in Areas : map[a] # NoMap =>
           /\ pte'[<<a, "whole">>] \in Given(c, map[a])
           /\ pte'[<<a, "last">>] \in {"none", "rw"}
  <2>1. \A a \in Areas, part \in Parts :
           ~(map[a] # NoMap /\ (part = "last" => map[a].size = "unaligned"))
             => pte[<<a, part>>] = "none"
    BY <1>1 DEF NoStaleRights, HasPage, Mapped
  <2>2. \A a \in Areas : map[a] # NoMap => pte[<<a, "last">>] \in {"none", "rw"}
    BY <1>1 DEF RightsInv, Mapped
  <2>3. map \in [Areas -> Records] /\ pte \in [Pages -> Entries]
    BY <1>1, AreaFacts
  <2> QED
    BY <2>1, <2>2, <2>3, SwitchedTable
<1>3. NoStaleRights' /\ RightsInv'
  BY <1>2 DEF NoStaleRights, RightsInv, HasPage, Mapped
<1>4. TypeOK'
  BY <1>1, <1>2 DEF TypeOK, Runnable, Mapped, Owned, Entries
<1>5. OwnedFinite' /\ LibraryMatchesKernel' /\ UnusedEmpty'
  BY DEF IInv, OwnedFinite, LibraryMatchesKernel, UnusedEmpty, Owned, Mapped
<1> QED
  BY <1>3, <1>4, <1>5 DEF IInv

\* A fault that a handler repairs.
LEMMA FaultStep ==
  ASSUME IInv, NEW a \in Areas, NEW part \in Parts, NEW write \in BOOLEAN,
         HasPage(a, part), Fixed(a, part, write),
         pte' = [pte EXCEPT ![<<a, part>>] = pt_walk(@, FALSE, FALSE, FALSE)],
         UNCHANGED <<cur, life, map, areas, left>>
  PROVE  IInv'
<1>1. TypeOK /\ NoStaleRights /\ RightsInv
  BY DEF IInv
<1>2. <<a, part>> \in Pages /\ pte \in [Pages -> Entries]
  BY <1>1, AreaFacts, PageFacts
<1>3. pte' = [pte EXCEPT ![<<a, part>>] = "rw"]
  BY DEF pt_walk
<1>4. pte' \in [Pages -> Entries]
  BY <1>2, <1>3 DEF Entries
<1>5. cur = Process \/ cur = map[a].owner \/ map[a].flags = "rdwr"
  BY DEF Fixed
<1>6. \A b \in Areas, q \in Parts :
        pte'[<<b, q>>] = IF b = a /\ q = part THEN "rw" ELSE pte[<<b, q>>]
  <2> SUFFICES ASSUME NEW b \in Areas, NEW q \in Parts
               PROVE  pte'[<<b, q>>] = IF b = a /\ q = part THEN "rw" ELSE pte[<<b, q>>]
    OBVIOUS
  <2>1. <<b, q>> \in Pages /\ (<<b, q>> = <<a, part>> <=> b = a /\ q = part)
    BY PageFacts
  <2> QED
    BY <1>2, <1>3, <2>1
<1>7. NoStaleRights'
  <2> SUFFICES ASSUME NEW b \in Areas, NEW q \in Parts,
                      ~(map[b] # NoMap /\ (q = "last" => map[b].size = "unaligned"))
               PROVE  pte'[<<b, q>>] = "none"
    BY DEF NoStaleRights, HasPage, Mapped
  <2>1. pte[<<b, q>>] = "none" /\ ~(b = a /\ q = part)
    BY <1>1 DEF NoStaleRights, HasPage, Mapped
  <2> QED
    BY <1>6, <2>1
<1>8. RightsInv'
  <2> SUFFICES ASSUME NEW b \in Areas, Mapped(b)
               PROVE  /\ pte'[<<b, "whole">>] \in Given(cur, map[b])
                      /\ pte'[<<b, "last">>] \in {"none", "rw"}
    BY DEF RightsInv, Mapped
  <2>1. "whole" \in Parts /\ "last" \in Parts
    BY DEF Parts
  <2>2. pte[<<b, "whole">>] \in Given(cur, map[b]) /\ pte[<<b, "last">>] \in {"none", "rw"}
    BY <1>1 DEF RightsInv
  <2>3. "rw" \in Given(cur, map[a])
    BY <1>5 DEF Given
  <2>4. pte'[<<b, "whole">>] = IF b = a /\ "whole" = part THEN "rw" ELSE pte[<<b, "whole">>]
    BY <1>6, <2>1
  <2>5. pte'[<<b, "last">>] = IF b = a /\ "last" = part THEN "rw" ELSE pte[<<b, "last">>]
    BY <1>6, <2>1
  <2>6. pte'[<<b, "whole">>] \in Given(cur, map[b])
    <3>1. CASE b = a
      BY <3>1, <2>2, <2>3, <2>4
    <3>2. CASE b # a
      BY <3>2, <2>2, <2>4
    <3> QED
      BY <3>1, <3>2
  <2>7. pte'[<<b, "last">>] \in {"none", "rw"}
    BY <2>2, <2>5
  <2> QED
    BY <2>6, <2>7
<1>9. TypeOK'
  <2>1. pte' \in [Pages -> {"none", "off", "ro", "rw"}]
    BY <1>4 DEF Entries
  <2>2. \A b \in Areas : Mapped(b)' => map'[b].owner \in Threads /\ life'[map'[b].owner] = "alive"
    BY <1>1 DEF TypeOK, Mapped
  <2>3. \A t \in Threads : Owned(t)' = Owned(t)
    BY DEF Owned, Mapped
  <2>4. \A t \in Threads : Cardinality(Owned(t)') <= MaxAreas
    BY <1>1, <2>3 DEF TypeOK
  <2>5. cur' \in Contexts /\ Runnable(cur)'
    BY <1>1 DEF TypeOK, Runnable
  <2> QED
    BY <1>1, <2>1, <2>2, <2>4, <2>5 DEF TypeOK
<1>10. OwnedFinite' /\ LibraryMatchesKernel' /\ UnusedEmpty'
  BY DEF IInv, OwnedFinite, LibraryMatchesKernel, UnusedEmpty, Owned, Mapped
<1> QED
  BY <1>7, <1>8, <1>9, <1>10 DEF IInv

\* The running thread ends, and with it its areas.
LEMMA ExitStep ==
  ASSUME IInv, NEW how \in {"over", "killed"}, cur # Process,
         handle_thread_exit(cur, how), UNCHANGED <<areas, left>>
  PROVE  IInv'
<1> DEFINE gone == Owned(cur)
           table == Cleared(gone)
<1>1. TypeOK /\ NoStaleRights /\ RightsInv /\ cur \in Threads
  BY DEF IInv, TypeOK, Contexts
<1>2. PICK c \in Contexts \ {cur} :
        /\ Runnable(c) /\ cur' = c
        /\ pte' = [p \in Pages |-> Switched(c, Unmap(gone), p, table[p])]
        /\ map' = Unmap(gone)
        /\ life' = [life EXCEPT ![cur] = how]
  BY DEF handle_thread_exit, ends
<1> HIDE DEF gone, table
<1>3. \A a \in Areas : map'[a] = IF a \in gone THEN NoMap ELSE map[a]
  BY <1>2 DEF Unmap
<1>4. map' \in [Areas -> Records]
  BY <1>1, <1>2, AreaFacts DEF Unmap
<1>5. \A a \in Areas, part \in Parts :
        table[<<a, part>>] = IF a \in gone THEN "none" ELSE pte[<<a, part>>]
  BY PageFacts DEF table, Cleared
<1>6. table \in [Pages -> Entries]
  BY <1>1, AreaFacts DEF table, Cleared, Entries
<1>7. /\ pte' \in [Pages -> Entries]
      /\ \A a \in Areas, part \in Parts :
           ~(map'[a] # NoMap /\ (part = "last" => map'[a].size = "unaligned"))
             => pte'[<<a, part>>] = "none"
      /\ \A a \in Areas : map'[a] # NoMap =>
           /\ pte'[<<a, "whole">>] \in Given(c, map'[a])
           /\ pte'[<<a, "last">>] \in {"none", "rw"}
  <2>1. \A a \in Areas, part \in Parts :
           ~(map'[a] # NoMap /\ (part = "last" => map'[a].size = "unaligned"))
             => table[<<a, part>>] = "none"
    BY <1>1, <1>3, <1>5 DEF NoStaleRights, HasPage, Mapped
  <2>2. \A a \in Areas : map'[a] # NoMap => table[<<a, "last">>] \in {"none", "rw"}
    <3>1. "last" \in Parts
      BY DEF Parts
    <3> QED
      BY <1>1, <1>3, <1>5, <3>1 DEF RightsInv, Mapped
  <2>3. c \in Contexts /\ pte' = [p \in Pages |-> Switched(c, map', p, table[p])]
    BY <1>2
  <2> QED
    BY <1>4, <1>6, <2>1, <2>2, <2>3, SwitchedTable
<1>8. NoStaleRights' /\ RightsInv'
  BY <1>2, <1>7 DEF NoStaleRights, RightsInv, HasPage, Mapped
<1>9. \A t \in Threads : Owned(t)' = IF t = cur THEN {} ELSE Owned(t)
  BY <1>1, <1>3, AreaFacts DEF Owned, Mapped, gone
<1>10. OwnedFinite' /\ LibraryMatchesKernel' /\ UnusedEmpty'
  <2>1. \A t \in Threads : life'[t] = IF t = cur THEN how ELSE life[t]
    BY <1>1, <1>2 DEF TypeOK
  <2>2. OwnedFinite'
    BY <1>9, FS_EmptySet DEF IInv, OwnedFinite
  <2>3. LibraryMatchesKernel'
    BY <1>9, <2>1 DEF IInv, LibraryMatchesKernel
  <2>4. UnusedEmpty'
    BY <2>1 DEF IInv, UnusedEmpty
  <2> QED
    BY <2>2, <2>3, <2>4
<1>11. TypeOK'
  <2>1. life' \in [Threads -> {"none", "alive", "over", "killed"}]
    BY <1>1, <1>2 DEF TypeOK
  <2>2. cur' \in Contexts /\ Runnable(cur)'
    BY <1>1, <1>2, MemAssumption DEF Runnable, TypeOK, Contexts
  <2>3. \A a \in Areas : Mapped(a)' => map'[a].owner \in Threads /\ life'[map'[a].owner] = "alive"
    BY <1>1, <1>2, <1>3 DEF TypeOK, Mapped, Owned, gone
  <2>4. \A t \in Threads : Cardinality(Owned(t)') <= MaxAreas
    <3> SUFFICES ASSUME NEW t \in Threads PROVE Cardinality(Owned(t)') <= MaxAreas
      OBVIOUS
    <3>1. Cardinality({}) = 0 /\ 0 <= MaxAreas /\ Cardinality(Owned(t)) <= MaxAreas
      BY <1>1, MemAssumption, FS_EmptySet DEF TypeOK
    <3>2. Owned(t)' = {} \/ Owned(t)' = Owned(t)
      BY <1>9
    <3> QED
      BY <3>1, <3>2
  <2>5. areas' \in [Threads -> SUBSET Areas]
    BY <1>1 DEF TypeOK
  <2> QED
    BY <1>4, <1>7, <2>1, <2>2, <2>3, <2>4, <2>5 DEF TypeOK, Records, Entries
<1> QED
  BY <1>8, <1>10, <1>11 DEF IInv
\* The process creates a thread.
LEMMA CreateStep ==
  ASSUME IInv, NEW t \in Threads, gthread_create(t)
  PROVE  IInv'
<1> USE DEF gthread_create
<1>1. TypeOK /\ NoStaleRights /\ RightsInv
  BY DEF IInv
<1>2. \A u \in Threads : life'[u] = IF u = t THEN "alive" ELSE life[u]
  BY <1>1 DEF TypeOK
<1>3. NoStaleRights' /\ RightsInv' /\ OwnedFinite'
  BY DEF IInv, NoStaleRights, RightsInv, OwnedFinite, Owned, HasPage, Mapped
<1>4. \A u \in Threads : Owned(u)' = Owned(u)
  BY DEF Owned, Mapped
<1>5. Owned(t) = {}
  BY <1>1 DEF TypeOK, Owned
<1>6. LibraryMatchesKernel'
  <2> SUFFICES ASSUME ~left, NEW u \in Threads, life'[u] = "alive"
               PROVE  areas[u] = Owned(u)
    BY <1>4 DEF LibraryMatchesKernel
  <2>1. CASE u = t
    BY <1>5, <2>1 DEF IInv, UnusedEmpty
  <2>2. CASE u # t
    BY <1>2, <2>2 DEF IInv, LibraryMatchesKernel
  <2> QED
    BY <2>1, <2>2
<1>7. UnusedEmpty'
  BY <1>2 DEF IInv, UnusedEmpty
<1>8. TypeOK'
  <2>1. life' \in [Threads -> {"none", "alive", "over", "killed"}]
    BY <1>1 DEF TypeOK
  <2>2. Runnable(cur)'
    BY DEF Runnable
  <2>3. \A a \in Areas : Mapped(a)' => map'[a].owner \in Threads /\ life'[map'[a].owner] = "alive"
    BY <1>1, <1>2 DEF TypeOK, Mapped
  <2> QED
    BY <1>1, <1>4, <2>1, <2>2, <2>3 DEF TypeOK
<1> QED
  BY <1>3, <1>6, <1>7, <1>8 DEF IInv

\* The process joins a thread that has ended.
LEMMA JoinStep ==
  ASSUME IInv, NEW t \in Threads, gthread_join(t)
  PROVE  IInv'
<1> USE DEF gthread_join
<1>1. TypeOK
  BY DEF IInv
<1>2. \A u \in Threads : life'[u] = IF u = t THEN "none" ELSE life[u]
  BY <1>1 DEF TypeOK
<1>3. NoStaleRights' /\ RightsInv' /\ OwnedFinite'
  BY DEF IInv, NoStaleRights, RightsInv, OwnedFinite, Owned, HasPage, Mapped
<1>4. \A u \in Threads : Owned(u)' = Owned(u)
  BY DEF Owned, Mapped
<1>5. LibraryMatchesKernel'
  <2> SUFFICES ASSUME ~left', NEW u \in Threads, life'[u] = "alive"
               PROVE  areas[u] = Owned(u)
    BY <1>4 DEF LibraryMatchesKernel
  <2>1. ~left
    OBVIOUS
  <2>2. life[u] = "alive"
    BY <1>2
  <2> QED
    BY <2>1, <2>2 DEF IInv, LibraryMatchesKernel
<1>6. UnusedEmpty'
  <2> SUFFICES ASSUME ~left', NEW u \in Threads, life'[u] = "none"
               PROVE  areas[u] = {}
    BY DEF UnusedEmpty
  <2>1. ~left /\ areas[t] = {}
    OBVIOUS
  <2> QED
    BY <1>2, <2>1 DEF IInv, UnusedEmpty
<1>7. TypeOK'
  <2>1. life' \in [Threads -> {"none", "alive", "over", "killed"}]
    BY <1>1 DEF TypeOK
  <2>2. Runnable(cur)'
    BY DEF Runnable
  <2>3. \A a \in Areas : Mapped(a)' => map'[a].owner \in Threads /\ life'[map'[a].owner] = "alive"
    BY <1>1, <1>2 DEF TypeOK, Mapped
  <2> QED
    BY <1>1, <1>4, <2>1, <2>2, <2>3 DEF TypeOK
<1> QED
  BY <1>3, <1>5, <1>6, <1>7 DEF IInv

\* A thread gets one more area.
LEMMA MallocStep ==
  ASSUME IInv, NEW a \in Areas, NEW flags \in Flags, NEW size \in Sizes,
         cur # Process, ~Mapped(a),
         handle_thread_private_mmap(a, flags, size), areas' = Recorded(a), left' = left
  PROVE  IInv'
<1> DEFINE r == [owner |-> cur, flags |-> flags, size |-> size]
<1> USE DEF handle_thread_private_mmap
<1>1. TypeOK /\ NoStaleRights /\ RightsInv /\ cur \in Threads /\ life[cur] = "alive"
  BY DEF IInv, TypeOK, Contexts, Runnable
<1>2. r \in Records /\ r # NoMap /\ r.owner = cur
  BY <1>1, MemAssumption DEF Records, Contexts, NoMap
<1> HIDE DEF r
<1>3. map' = [map EXCEPT ![a] = r]
  BY DEF r
<1>4. /\ map' \in [Areas -> Records]
      /\ \A b \in Areas : map'[b] = IF b = a THEN r ELSE map[b]
  BY <1>1, <1>2, <1>3, AreaFacts
<1>5. NoStaleRights'
  <2> SUFFICES ASSUME NEW b \in Areas, NEW q \in Parts,
                      ~(map'[b] # NoMap /\ (q = "last" => map'[b].size = "unaligned"))
               PROVE  pte[<<b, q>>] = "none"
    BY DEF NoStaleRights, HasPage, Mapped
  <2> QED
    BY <1>1, <1>4 DEF NoStaleRights, HasPage, Mapped
<1>6. RightsInv'
  <2> SUFFICES ASSUME NEW b \in Areas, map'[b] # NoMap
               PROVE  /\ pte[<<b, "whole">>] \in Given(cur, map'[b])
                      /\ pte[<<b, "last">>] \in {"none", "rw"}
    BY DEF RightsInv, Mapped
  <2>1. CASE b = a
    <3>1. pte[<<a, "whole">>] = "none" /\ pte[<<a, "last">>] = "none"
      BY <1>1 DEF NoStaleRights, HasPage, Parts
    <3>2. "none" \in Given(cur, map'[b])
      BY DEF Given
    <3> QED
      BY <2>1, <3>1, <3>2
  <2>2. CASE b # a
    BY <1>1, <1>4, <2>2 DEF RightsInv, Mapped
  <2> QED
    BY <2>1, <2>2
<1>7. /\ \A t \in Threads : Owned(t)' = IF t = cur THEN Owned(t) \cup {a} ELSE Owned(t)
      /\ \A t \in Threads : a \notin Owned(t)
  BY <1>2, <1>4 DEF Owned, Mapped
<1>8. /\ OwnedFinite'
      /\ \A t \in Threads : Cardinality(Owned(t)') <= MaxAreas
  <2> SUFFICES ASSUME NEW t \in Threads
               PROVE  IsFiniteSet(Owned(t)') /\ Cardinality(Owned(t)') <= MaxAreas
    BY DEF OwnedFinite
  <2>1. IsFiniteSet(Owned(t)) /\ Cardinality(Owned(t)) <= MaxAreas
    BY <1>1 DEF IInv, OwnedFinite, TypeOK
  <2>2. CASE t = cur
    <3>1. Cardinality(Owned(t)) < MaxAreas
      BY <2>2 DEF CanRecord
    <3>2. /\ IsFiniteSet(Owned(t) \cup {a})
          /\ Cardinality(Owned(t) \cup {a}) = Cardinality(Owned(t)) + 1
          /\ Cardinality(Owned(t)) \in Nat
      BY <1>7, <2>1, FS_AddElement, FS_CardinalityType
    <3>3. Owned(t)' = Owned(t) \cup {a}
      BY <1>7, <2>2
    <3>4. \A n \in Nat : n < MaxAreas => n + 1 <= MaxAreas
      BY MemAssumption
    <3> QED
      BY <3>1, <3>2, <3>3, <3>4
  <2>3. CASE t # cur
    BY <1>7, <2>1, <2>3
  <2> QED
    BY <2>2, <2>3
<1>9. /\ \A t \in Threads : t # cur => areas'[t] = areas[t]
      /\ Cardinality(areas[cur]) < MaxAreas => areas'[cur] = areas[cur] \cup {a}
      /\ areas' \in [Threads -> SUBSET Areas]
  BY <1>1 DEF TypeOK, Recorded
<1>10. LibraryMatchesKernel'
  <2> SUFFICES ASSUME ~left, NEW t \in Threads, life[t] = "alive"
               PROVE  areas'[t] = Owned(t)'
    BY DEF LibraryMatchesKernel
  <2>1. areas[t] = Owned(t)
    BY DEF IInv, LibraryMatchesKernel
  <2>2. t = cur => Cardinality(areas[t]) < MaxAreas
    BY <2>1 DEF CanRecord
  <2> QED
    BY <1>7, <1>9, <2>1, <2>2
<1>11. UnusedEmpty'
  BY <1>1, <1>9 DEF IInv, UnusedEmpty
<1>12. TypeOK'
  <2>1. Runnable(cur)'
    BY <1>1 DEF TypeOK, Runnable
  <2>2. \A b \in Areas : Mapped(b)' => map'[b].owner \in Threads /\ life[map'[b].owner] = "alive"
    BY <1>1, <1>2, <1>4 DEF TypeOK, Mapped
  <2> QED
    BY <1>1, <1>4, <1>8, <1>9, <2>1, <2>2 DEF TypeOK, Records
<1> QED
  BY <1>5, <1>6, <1>8, <1>10, <1>11, <1>12 DEF IInv

\* A thread gives back an area of its own, or one that is no area any more.
LEMMA FreeStep ==
  ASSUME IInv, NEW a \in Areas, cur # Process, handle_thread_private_unmmap(a),
         areas' = [areas EXCEPT ![cur] = @ \ {a}], left' = left
  PROVE  IInv'
<1> USE DEF handle_thread_private_unmmap
<1>1. TypeOK /\ NoStaleRights /\ RightsInv /\ cur \in Threads
  BY DEF IInv, TypeOK, Contexts
<1>2. /\ map' \in [Areas -> Records]
      /\ \A b \in Areas : map'[b] = IF b = a THEN NoMap ELSE map[b]
  BY <1>1, AreaFacts DEF Unmap
<1>3. \A b \in Areas, q \in Parts :
        pte'[<<b, q>>] = IF b = a THEN "none" ELSE pte[<<b, q>>]
  BY PageFacts DEF Cleared
<1>4. pte' \in [Pages -> Entries]
  BY <1>1, AreaFacts DEF Cleared, Entries
<1>5. NoStaleRights'
  <2> SUFFICES ASSUME NEW b \in Areas, NEW q \in Parts,
                      ~(map'[b] # NoMap /\ (q = "last" => map'[b].size = "unaligned"))
               PROVE  pte'[<<b, q>>] = "none"
    BY DEF NoStaleRights, HasPage, Mapped
  <2> QED
    BY <1>1, <1>2, <1>3 DEF NoStaleRights, HasPage, Mapped
<1>6. RightsInv'
  <2> SUFFICES ASSUME NEW b \in Areas, map'[b] # NoMap
               PROVE  /\ pte'[<<b, "whole">>] \in Given(cur, map'[b])
                      /\ pte'[<<b, "last">>] \in {"none", "rw"}
    BY DEF RightsInv, Mapped
  <2>1. b # a /\ map'[b] = map[b]
    BY <1>2
  <2>2. pte'[<<b, "whole">>] = pte[<<b, "whole">>] /\ pte'[<<b, "last">>] = pte[<<b, "last">>]
    BY <1>3, <2>1 DEF Parts
  <2> QED
    BY <1>1, <2>1, <2>2 DEF RightsInv, Mapped
<1>7. \A t \in Threads : Owned(t)' = IF t = cur THEN Owned(t) \ {a} ELSE Owned(t)
  BY <1>1, <1>2 DEF Owned, Mapped
<1>8. /\ OwnedFinite'
      /\ \A t \in Threads : Cardinality(Owned(t)') <= MaxAreas
  <2> SUFFICES ASSUME NEW t \in Threads
               PROVE  IsFiniteSet(Owned(t)') /\ Cardinality(Owned(t)') <= MaxAreas
    BY DEF OwnedFinite
  <2>1. IsFiniteSet(Owned(t)) /\ Cardinality(Owned(t)) <= MaxAreas
    BY <1>1 DEF IInv, OwnedFinite, TypeOK
  <2>2. Owned(t)' \subseteq Owned(t)
    BY <1>7
  <2>3. /\ IsFiniteSet(Owned(t)') /\ Cardinality(Owned(t)') <= Cardinality(Owned(t))
        /\ Cardinality(Owned(t)') \in Nat /\ Cardinality(Owned(t)) \in Nat
    BY <2>1, <2>2, FS_Subset, FS_CardinalityType
  <2> QED
    BY <2>1, <2>3, MemAssumption
<1>9. /\ \A t \in Threads : areas'[t] = IF t = cur THEN areas[t] \ {a} ELSE areas[t]
      /\ areas' \in [Threads -> SUBSET Areas]
  BY <1>1 DEF TypeOK
<1>10. LibraryMatchesKernel' /\ UnusedEmpty'
  BY <1>7, <1>9 DEF IInv, LibraryMatchesKernel, UnusedEmpty
<1>11. TypeOK'
  <2>1. Runnable(cur)'
    BY <1>1 DEF TypeOK, Runnable
  <2>2. \A b \in Areas : Mapped(b)' => map'[b].owner \in Threads /\ life[map'[b].owner] = "alive"
    BY <1>1, <1>2 DEF TypeOK, Mapped
  <2> QED
    BY <1>1, <1>2, <1>4, <1>8, <1>9, <2>1, <2>2 DEF TypeOK, Records, Entries
<1> QED
  BY <1>5, <1>6, <1>8, <1>10, <1>11 DEF IInv

\* Nothing happens.
LEMMA Stutter == IInv /\ UNCHANGED vars => IInv'
<1> SUFFICES ASSUME IInv, UNCHANGED vars PROVE IInv'
  OBVIOUS
<1> USE DEF vars
<1>1. NoStaleRights' /\ RightsInv'
  BY DEF IInv, NoStaleRights, RightsInv, HasPage, Mapped
<1>2. \A t \in Threads : Owned(t)' = Owned(t)
  BY DEF Owned, Mapped
<1>3. OwnedFinite' /\ LibraryMatchesKernel' /\ UnusedEmpty'
  BY <1>2 DEF IInv, OwnedFinite, LibraryMatchesKernel, UnusedEmpty
<1>4. TypeOK'
  BY <1>2 DEF IInv, TypeOK, Runnable, Mapped
<1> QED
  BY <1>1, <1>3, <1>4 DEF IInv

-----------------------------------------------------------------------------
LEMMA InitInv == Init => IInv
<1> SUFFICES ASSUME Init PROVE IInv
  OBVIOUS
<1> USE DEF Init
<1>1. NoMap \in Records
  BY DEF NoMap, Records, Contexts
<1>2. \A a \in Areas : ~Mapped(a)
  BY DEF Mapped
<1>3. \A t \in Threads : Owned(t) = {}
  BY <1>2 DEF Owned
<1>4. Cardinality({}) = 0 /\ IsFiniteSet({}) /\ 0 <= MaxAreas
  BY FS_EmptySet, MemAssumption
<1>5. OwnedFinite /\ LibraryMatchesKernel /\ UnusedEmpty
  BY <1>3, <1>4 DEF OwnedFinite, LibraryMatchesKernel, UnusedEmpty
<1>6. NoStaleRights /\ RightsInv
  BY <1>2, PageFacts DEF NoStaleRights, RightsInv
<1>7. TypeOK
  BY <1>1, <1>2, <1>3, <1>4 DEF TypeOK, Records, Contexts, Runnable
<1> QED
  BY <1>5, <1>6, <1>7 DEF IInv

LEMMA NextInv == IInv /\ [Next]_vars => IInv'
<1> SUFFICES ASSUME IInv, [Next]_vars PROVE IInv'
  OBVIOUS
<1>1. ASSUME NEW c \in Contexts, handle_private_ctxswitch(c) PROVE IInv'
  BY <1>1, SwitchStep
<1>2. ASSUME NEW a \in Areas, NEW part \in Parts, NEW write \in BOOLEAN, Access(a, part, write)
      PROVE  IInv'
  <2>1. CASE UNCHANGED vars
    BY <2>1, Stutter
  <2>2. CASE Fixed(a, part, write) /\ ~Allowed(pte[<<a, part>>], write) /\ ~UNCHANGED vars
    BY <1>2, <2>2, FaultStep DEF Access, Succeeds
  <2>3. CASE ~Succeeds(a, part, write) /\ ~UNCHANGED vars
    BY <1>2, <2>3, ExitStep DEF Access, segfault_exit, Succeeds
  <2> QED
    BY <1>2, <2>1, <2>2, <2>3 DEF Access, Succeeds
<1>3. ASSUME NEW t \in Threads, gthread_create(t) \/ gthread_join(t) PROVE IInv'
  BY <1>3, CreateStep, JoinStep
<1>4. CASE gthread_exit
  BY <1>4, ExitStep DEF gthread_exit
<1>5. ASSUME NEW a \in Areas, NEW flags \in Flags, NEW size \in Sizes, gmalloc(a, flags, size)
      PROVE  IInv'
  <2>1. CASE segfault_exit /\ UNCHANGED areas
    BY <1>5, <2>1, ExitStep DEF gmalloc, segfault_exit
  <2>2. CASE handle_thread_private_mmap(a, flags, size) /\ areas' = Recorded(a)
    BY <1>5, <2>2, MallocStep DEF gmalloc
  <2> QED
    BY <1>5, <2>1, <2>2 DEF gmalloc
<1>6. ASSUME NEW a \in Areas, gfree(a) PROVE IInv'
  <2>1. CASE segfault_exit /\ UNCHANGED areas
    BY <1>6, <2>1, ExitStep DEF gfree, segfault_exit
  <2>2. CASE handle_thread_private_unmmap(a) /\ areas' = [areas EXCEPT ![cur] = @ \ {a}]
    BY <1>6, <2>2, FreeStep DEF gfree
  <2> QED
    BY <1>6, <2>1, <2>2 DEF gfree
<1>7. CASE UNCHANGED vars
  BY <1>7, Stutter
<1> QED
  BY <1>1, <1>2, <1>3, <1>4, <1>5, <1>6, <1>7 DEF Next

THEOREM Invariance == Spec => []IInv
  BY InitInv, NextInv, PTL DEF Spec

-----------------------------------------------------------------------------
\* The types of the variables hold, only live threads own areas, and none
\* more than the tables have room for (clone_threads_helper.c:102-112).
THEOREM TypeCorrect == Spec => []TypeOK
  BY Invariance, PTL DEF IInv

\* No right outlives its area, whatever was mapped, touched and freed
\* before (clone_threads_helper.c:68-72 and 209).
THEOREM RightsEndWithArea == Spec => []NoStaleRights
  BY Invariance, PTL DEF IInv

\* The library's records are the kernel's until areas are left at a join
\* (gthread.c:138-190).
THEOREM RecordsAgree == Spec => []LibraryMatchesKernel
  BY Invariance, PTL DEF IInv

\* No context gets at a whole page that the owner's flag denies it, for any
\* number of threads and areas (clone_threads.c:132-249).
THEOREM DeniedIsDenied == Spec => []NothingForbidden
<1>1. IInv => NothingForbidden
  <2> SUFFICES ASSUME IInv, NEW a \in Areas, NEW write \in BOOLEAN,
                      Mapped(a), Succeeds(a, "whole", write), ~Permitted(cur, a, write)
               PROVE  FALSE
    BY DEF NothingForbidden, HasPage
  <2>1. pte[<<a, "whole">>] \in Given(cur, map[a])
    BY DEF IInv, RightsInv
  <2>2. /\ cur \notin {Process, map[a].owner} /\ map[a].flags # "rdwr"
        /\ map[a].flags = "rdonly" => write
    BY DEF Permitted
  <2>3. ~Fixed(a, "whole", write)
    BY <2>2 DEF Fixed
  <2>4. ~Allowed(pte[<<a, "whole">>], write)
    <3>1. CASE map[a].flags = "rdonly"
      BY <2>1, <2>2, <3>1 DEF Given, Allowed
    <3>2. CASE map[a].flags # "rdonly"
      BY <2>1, <2>2, <3>2 DEF Given, Allowed
    <3> QED
      BY <3>1, <3>2
  <2> QED
    BY <2>3, <2>4 DEF Succeeds
<1> QED
  BY <1>1, Invariance, PTL

\* And what the flag grants succeeds, but for the first read of a page that
\* siblings may only read (clone_threads.c:172).
THEOREM GrantedSucceeds == Spec => []PermittedSucceeds
<1>1. IInv => PermittedSucceeds
  <2> SUFFICES ASSUME IInv, NEW a \in Areas, NEW part \in Parts, NEW write \in BOOLEAN,
                      HasPage(a, part), Permitted(cur, a, write),
                      pte[<<a, part>>] = "none" =>
                        map[a].flags # "rdonly" \/ cur \in {Process, map[a].owner}
               PROVE  Succeeds(a, part, write)
    BY DEF PermittedSucceeds
  <2>1. Mapped(a)
    BY DEF HasPage
  <2>2. CASE pte[<<a, part>>] = "none"
    BY <2>2 DEF Permitted, Succeeds, Fixed
  <2>3. CASE pte[<<a, part>>] = "rw"
    BY <2>3 DEF Succeeds, Allowed
  <2>4. CASE pte[<<a, part>>] \notin {"none", "rw"}
    <3>1. part = "whole" /\ pte[<<a, part>>] \in Given(cur, map[a])
      BY <2>1, <2>4 DEF IInv, RightsInv, Parts
    <3>2. cur \notin {Process, map[a].owner} /\ map[a].flags # "rdwr"
      BY <2>4, <3>1 DEF Given
    <3>3. map[a].flags = "rdonly" /\ ~write
      BY <3>2 DEF Permitted
    <3>4. pte[<<a, part>>] = "ro"
      BY <2>4, <3>1, <3>2, <3>3 DEF Given
    <3> QED
      BY <3>3, <3>4 DEF Succeeds, Allowed
  <2> QED
    BY <2>2, <2>3, <2>4
<1> QED
  BY <1>1, Invariance, PTL
=============================================================================
