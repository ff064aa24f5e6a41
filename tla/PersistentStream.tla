--------------------------- MODULE PersistentStream ---------------------------
(***************************************************************************)
(* What a gemOS persistent pipe promises: a bounded window on a stream of  *)
(* bytes, in which every reader has a cursor of its own.  Reading moves    *)
(* the reader's cursor and removes nothing; a flush moves the window up to *)
(* the slowest reader, and only then is there room for more bytes.         *)
(***************************************************************************)
EXTENDS Integers, Sequences

CONSTANTS
  Pids,      (* process identifiers                               *)
  Messages,  (* the byte sequences a write may offer              *)
  Counts,    (* the byte counts a read may ask for                *)
  Capacity   (* bytes the window can hold                         *)

End == {"r", "w"}

VARIABLES
  users,     (* the open ends: pairs <<process, end>>             *)
  window,    (* the bytes not reclaimed                           *)
  cursor,    (* cursor[p]: bytes of the window reader p has read  *)
  rc, out    (* result of the last call and the bytes it returned *)

vars == <<users, window, cursor, rc, out>>

Readers(us) == {p \in Pids : <<p, "r">> \in us}

Init == users = {} /\ window = <<>> /\ cursor = [p \in {} |-> 0] /\ rc = 0 /\ out = <<>>

(* The creator reads from the first byte on. *)
Create(p) ==
  /\ users = {} /\ users' = {p} \X End
  /\ window' = <<>> /\ cursor' = [q \in {p} |-> 0]
  /\ rc' = 0 /\ out' = <<>>

(* A child holds its parent's ends and reads on from the same place. *)
Inherit(p, c) ==
  /\ \A e \in End : <<c, e>> \notin users
  /\ users' = users \cup ({c} \X {e \in End : <<p, e>> \in users})
  /\ cursor' = [q \in Readers(users') |-> cursor[IF q = c THEN p ELSE q]]
  /\ UNCHANGED window
  /\ rc' = 0 /\ out' = <<>>

Drop(p, E) ==
  /\ users' = users \ ({p} \X E)
  /\ window' = IF users' = {} THEN <<>> ELSE window
  /\ cursor' = [q \in Readers(users') |-> cursor[q]]
  /\ rc' = 0 /\ out' = <<>>

(* The longest prefix of s that fits enters the window, for every reader. *)
Put(p, s) ==
  /\ <<p, "w">> \in users
  /\ \E n \in 0..Len(s) :
       /\ n = Len(s) \/ Len(window) + n = Capacity
       /\ Len(window) + n <= Capacity
       /\ window' = window \o SubSeq(s, 1, n)
       /\ rc' = n
  /\ out' = <<>>
  /\ UNCHANGED <<users, cursor>>

(* A reader gets the bytes after its cursor; nobody else notices. *)
Get(p, count) ==
  /\ <<p, "r">> \in users
  /\ \E n \in 0..count :
       /\ n = count \/ cursor[p] + n = Len(window)
       /\ cursor[p] + n <= Len(window)
       /\ out' = SubSeq(window, cursor[p] + 1, cursor[p] + n)
       /\ cursor' = [cursor EXCEPT ![p] = @ + n]
       /\ rc' = n
  /\ UNCHANGED <<users, window>>

(* Exactly the bytes all readers have read are reclaimed. *)
Flush ==
  /\ \E n \in 0..Len(window) :
       /\ \A p \in Readers(users) : n <= cursor[p]
       /\ \E p \in Readers(users) : n = cursor[p]
       /\ window' = SubSeq(window, n + 1, Len(window))
       /\ cursor' = [p \in Readers(users) |-> cursor[p] - n]
       /\ rc' = n
  /\ out' = <<>>
  /\ UNCHANGED users

(* An error, a flush that nobody reads for, a call without consequence. *)
Other == rc' \in Int /\ rc' <= 0 /\ out' = <<>> /\ UNCHANGED <<users, window, cursor>>

Next ==
  \/ \E p \in Pids :
       \/ Create(p)
       \/ \E c \in Pids : Inherit(p, c)
       \/ \E E \in SUBSET End : Drop(p, E)
       \/ \E s \in Messages : Put(p, s)
       \/ \E count \in Counts : Get(p, count)
  \/ Flush
  \/ Other

Spec == Init /\ [][Next]_vars
===============================================================================
