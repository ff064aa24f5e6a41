------------------------------- MODULE BytePipe -------------------------------
(***************************************************************************)
(* What a gemOS pipe promises, without slots, positions or descriptors: a  *)
(* bounded first-in first-out queue of bytes and the set of open ends.  A  *)
(* call succeeds only for a process that holds the end it needs, a refused *)
(* call changes nothing, and the bytes are gone only when nobody is left.  *)
(***************************************************************************)
EXTENDS Integers, Sequences

CONSTANTS
  Pids,      (* process identifiers                               *)
  Messages,  (* the byte sequences a write may offer              *)
  Counts,    (* the byte counts a read may ask for                *)
  Capacity   (* bytes the pipe can hold                           *)

End == {"r", "w"}

VARIABLES
  users,     (* the open ends: pairs <<process, end>>             *)
  queue,     (* bytes written and not yet read                    *)
  rc,        (* return value of the last call                     *)
  out        (* bytes the last call handed to its caller          *)

vars == <<users, queue, rc, out>>

Init == users = {} /\ queue = <<>> /\ rc = 0 /\ out = <<>>

(* A new pipe is empty and its creator holds both ends. *)
Create(p) ==
  /\ users = {} /\ users' = {p} \X End
  /\ queue' = <<>>
  /\ rc' >= 0 /\ out' = <<>>

(* A child is given exactly the ends its parent holds. *)
Inherit(p, c) ==
  /\ \A e \in End : <<c, e>> \notin users
  /\ users' = users \cup ({c} \X {e \in End : <<p, e>> \in users})
  /\ UNCHANGED queue
  /\ rc' >= 0 /\ out' = <<>>

(* A process gives up some of its ends, and the last one takes the bytes    *)
(* with it.                                                                 *)
Drop(p, E) ==
  /\ users' = users \ ({p} \X E)
  /\ queue' = IF users' = {} THEN <<>> ELSE queue
  /\ rc' >= 0 /\ out' = <<>>

(* The longest prefix of s that fits is appended. *)
Put(p, s) ==
  /\ <<p, "w">> \in users
  /\ \E n \in 0..Len(s) :
       /\ n = Len(s) \/ Len(queue) + n = Capacity
       /\ Len(queue) + n <= Capacity
       /\ queue' = queue \o SubSeq(s, 1, n)
       /\ rc' = n
  /\ out' = <<>>
  /\ UNCHANGED users

(* The oldest bytes, at most count of them, are handed to the caller. *)
Get(p, count) ==
  /\ <<p, "r">> \in users
  /\ \E n \in 0..count :
       /\ n = count \/ n = Len(queue)
       /\ n <= Len(queue)
       /\ out' = SubSeq(queue, 1, n)
       /\ queue' = SubSeq(queue, n + 1, Len(queue))
       /\ rc' = n
  /\ UNCHANGED users

(* An error, or a call that only concerns descriptors. *)
Other == rc' \in Int /\ out' = <<>> /\ UNCHANGED <<users, queue>>

Next ==
  \/ \E p \in Pids :
       \/ Create(p)
       \/ \E c \in Pids : Inherit(p, c)
       \/ \E E \in SUBSET End : Drop(p, E)
       \/ \E s \in Messages : Put(p, s)
       \/ \E count \in Counts : Get(p, count)
  \/ Other

Spec == Init /\ [][Next]_vars
===============================================================================
