------------------------------ MODULE Debugger ------------------------------
(***************************************************************************)
(* The debugger calls of gemOS (debug.c, with the fork and exit of entry.c *)
(* that call into it).  A breakpoint is an INT3 in place of the push %rbp  *)
(* that starts a function; a breakpoint at the end replaces the return     *)
(* address on the child's stack by the end handler, whose first            *)
(* instruction is an INT3 too, and keeps the real one in a shadow stack.   *)
(*                                                                         *)
(* The child's program and the processor are external: code compiled       *)
(* without optimisation, where a function is call; push %rbp; mov %rsp,    *)
(* %rbp; body; leave; ret.  mem is the child's stack, a sequence of words  *)
(* that grows at its end, so that rsp is Len(mem).                         *)
(***************************************************************************)
EXTENDS Integers, Sequences, FiniteSets, SequencesExt

CONSTANTS Fns, Main, EndHandler,
          MaxBreakpoints,  \* MAX_BREAKPOINTS
          MAX_BACKTRACE,   \* entries of stack, return_addr and trace, never checked
          MaxNum,          \* bound: breakpoints ever set
          MaxDepth,        \* bound: nested calls of the child, main included
          MaxCalls         \* bound: calls the child makes

ASSUME DebuggerAssumption ==
  /\ Main \notin Fns /\ EndHandler \notin Fns /\ Main # EndHandler
  /\ {MaxBreakpoints, MAX_BACKTRACE, MaxNum, MaxDepth, MaxCalls} \subseteq Nat
  /\ MaxDepth \in 1..MAX_BACKTRACE  \* the assignment's limit on the debuggee

VARIABLES state,  \* of the two contexts
          rax,    \* what the debugger's last system call returns
          dbg,    \* struct debug_info of the debugger
          code,   \* the first byte of every function, shared by both processes
          child,  \* fn, at: where the child is; rbp
          mem,    \* the stack of the child
          calls   \* the calls the child has made

childVars == <<child, mem, calls>>
vars == <<state, rax, dbg, code, childVars>>

Functions == Fns \cup {EndHandler}
Entry(f) == [kind |-> "entry", of |-> f]   \* address of f
Site(f) == [kind |-> "site", of |-> f]     \* a return address in f
Saved(i) == [kind |-> "rbp", of |-> i]     \* a saved %rbp: position of another one
EndAddr == [kind |-> "end", of |-> Main]   \* END_ADDR, where main returns to
Failed == [kind |-> "error"]
Done == [kind |-> "done"]
ChildExit == Done                          \* CHILD_EXIT is 0 as well

NoDebug == [on |-> FALSE, list |-> <<>>, num |-> 0, count |-> 0, stack |-> <<>>,
            return_addr |-> <<>>, trace |-> <<>>, regs |-> [rip |-> Done, rsp |-> -1]]

Init ==
  /\ state = [debugger |-> "RUNNING", child |-> "UNUSED"]
  /\ rax = Done /\ dbg = NoDebug
  /\ code = [f \in Functions |-> "PUSHRBP"]
  /\ child = [fn |-> Main, at |-> "none", rbp |-> 0] /\ mem = <<>> /\ calls = 0

-----------------------------------------------------------------------------
(* System calls of the debugger.                                           *)

Running(p) == state[p] = "RUNNING"

Says(r) == rax' = r /\ UNCHANGED <<state, childVars>>
Refuses == Says(Failed) /\ UNCHANGED <<dbg, code>>

\* A second call forgets the list and the shadow stack, but not the INT3 and
\* the return addresses they stand for: a debugger makes it, if at all, when both
\* are empty.
do_become_debugger ==
  /\ Running("debugger") /\ dbg.list = <<>> /\ dbg.stack = <<>>
  /\ dbg' = [NoDebug EXCEPT !.on = TRUE]
  /\ code' = [code EXCEPT ![EndHandler] = "INT3"]
  /\ Says(Done)

\* debugger_on_fork leaves the child waiting for the first wait_and_continue.
do_fork ==
  /\ Running("debugger") /\ dbg.on /\ child.at = "none"
  /\ state' = [state EXCEPT !["child"] = "WAITING"]
  /\ child' = [fn |-> Main, at |-> "body", rbp |-> 2]
  /\ mem' = <<EndAddr, Saved(0)>>
  /\ rax' = Done
  /\ UNCHANGED <<dbg, code, calls>>

IsSet(f) == \E i \in 1..Len(dbg.list) : dbg.list[i].addr = f
Place(f) == CHOOSE i \in 1..Len(dbg.list) : dbg.list[i].addr = f
Flag(f) == dbg.list[Place(f)].end
OnStack(f) == f \in Range(dbg.stack)

do_set_breakpoint(f, flag) ==
  /\ Running("debugger")
  /\ \/ /\ \/ ~dbg.on
           \/ IsSet(f) /\ OnStack(f) /\ Flag(f) /\ ~flag
           \/ ~IsSet(f) /\ dbg.count >= MaxBreakpoints
        /\ Refuses
     \/ /\ IsSet(f) /\ ~(OnStack(f) /\ Flag(f) /\ ~flag)
        /\ dbg' = [dbg EXCEPT !.list[Place(f)].end = flag]
        /\ Says(Done) /\ UNCHANGED code
     \/ /\ dbg.on /\ ~IsSet(f) /\ dbg.count < MaxBreakpoints /\ dbg.num < MaxNum
        /\ dbg' = [dbg EXCEPT !.num = @ + 1, !.count = @ + 1,
                     !.list = Append(@, [num |-> dbg.num + 1, addr |-> f, end |-> flag])]
        /\ code' = [code EXCEPT ![f] = "INT3"]
        /\ Says(Done)

Unlinked(f) == [dbg EXCEPT !.count = @ - 1, !.list = RemoveAt(@, Place(f))]

RestoredAtHead(f) ==        \* mutant: the byte of the first node's function
  [code EXCEPT ![Head(dbg.list).addr] = "PUSHRBP"]
Restored(f) == [code EXCEPT ![f] = "PUSHRBP"]

do_remove_breakpoint(f) ==
  /\ Running("debugger")
  /\ \/ /\ \/ ~dbg.on \/ ~IsSet(f)
           \/ IsSet(f) /\ OnStack(f) /\ Flag(f)
        /\ Refuses
     \/ /\ IsSet(f) /\ ~(OnStack(f) /\ Flag(f))
        /\ code' = Restored(f) /\ dbg' = Unlinked(f)
        /\ Says(Done)

\* The system call enters with 0 in the register of the result, and the
\* handlers on the child's side overwrite it.  The search goes by the parent, not by
\* the state: a debugger that waits again after its child's exit runs the dead
\* context on, behind its exit call, on a kernel stack that was freed (and is taken
\* not to be in use again).
do_wait_and_continue ==
  /\ Running("debugger")
  /\ \/ ~dbg.on /\ Refuses
     \/ /\ dbg.on /\ child.at = "none"
        /\ Says(ChildExit) /\ UNCHANGED <<dbg, code>>
     \/ /\ dbg.on /\ child.at # "none"
        /\ state' = [debugger |-> "WAITING", child |-> "RUNNING"]
        /\ child' = [child EXCEPT !.at = IF @ = "exit" THEN "body" ELSE @]
        /\ rax' = Done
        /\ UNCHANGED <<dbg, code, mem, calls>>

\* The list goes, the INT3 stay in the code: the debugger outlives its child.
debugger_exit ==
  /\ Running("debugger") /\ child.at \in {"none", "exit"}
  /\ state' = [state EXCEPT !["debugger"] = "UNUSED"]
  /\ dbg' = NoDebug
  /\ UNCHANGED <<rax, code, childVars>>

do_info_breakpoints == dbg.list
do_info_registers == dbg.regs
do_backtrace == dbg.trace

-----------------------------------------------------------------------------
(* The child: its own instructions, and the handlers that run on its side. *)

Keep == UNCHANGED <<state, rax, dbg, code>>
Push(w) == Append(mem, w)

Call(f) ==
  /\ Running("child") /\ child.at = "body"
  /\ child.rbp < 2 * MaxDepth /\ calls < MaxCalls
  /\ mem' = Push(Site(child.fn))
  /\ child' = [child EXCEPT !.fn = f, !.at = "entry"]
  /\ calls' = calls + 1
  /\ Keep

PushRbp ==
  /\ Running("child") /\ child.at = "entry" /\ code[child.fn] = "PUSHRBP"
  /\ mem' = Push(Saved(child.rbp))
  /\ child' = [child EXCEPT !.at = "pushed"]
  /\ Keep /\ UNCHANGED calls

SetRbp ==
  /\ Running("child") /\ child.at = "pushed"
  /\ child' = [child EXCEPT !.at = "body", !.rbp = Len(mem)]
  /\ Keep /\ UNCHANGED <<mem, calls>>

\* leave; ret
Return ==
  /\ Running("child") /\ child.at = "body"
  /\ LET word == mem[child.rbp - 1] IN
       /\ word # EndAddr
       /\ child' = [fn |-> word.of, rbp |-> mem[child.rbp].of,
                    at |-> IF word.kind = "entry" THEN "entry" ELSE "body"]
  /\ mem' = SubSeq(mem, 1, child.rbp - 2)
  /\ Keep /\ UNCHANGED calls

\* The walk over the saved base pointers from rsp to END_ADDR; the k-th end
\* handler met stands for the k-th return address from the top of the shadow.
Trail(m, shadowed) ==
  LET base[k \in 0..Len(m)] == IF k = 0 THEN child.rbp
                               ELSE IF base[k - 1] = 0 THEN 0 ELSE m[base[k - 1]].of
      it(k) == IF k = 0 THEN Len(m) ELSE base[k - 1] - 1
      end == CHOOSE k \in 0..Len(m) : /\ m[it(k)] = EndAddr
                                      /\ \A j \in 0..k - 1 : m[it(j)] # EndAddr
      Hidden(k) == m[it(k)] = Entry(EndHandler)
      above(k) == Cardinality({j \in 0..k - 1 : Hidden(j)})
  IN [k \in 1..end |-> IF Hidden(k - 1) THEN shadowed[above(k - 1) + 1] ELSE m[it(k - 1)]]

CopyStackFromBottom(m, ra) == Trail(m, ra)   \* mutant
CopyStack(m, ra) == Trail(m, Reverse(ra))

CopyRegs(rsp) == [rip |-> Entry(child.fn), rsp |-> rsp]

\* The debugger gets the address of the stop, and the processor.
HandOver ==
  /\ state' = [debugger |-> "RUNNING", child |-> "WAITING"]
  /\ rax' = Entry(child.fn)
  /\ child' = [child EXCEPT !.at = "pushed"]
  /\ UNCHANGED <<code, calls>>

SeenAtFunction == [dbg EXCEPT !.regs = CopyRegs(Len(mem)),
                    !.trace = <<Entry(child.fn)>> \o CopyStack(mem, dbg.return_addr)]
EndWanted == \E i \in 1..Len(dbg.list) : dbg.list[i].addr = child.fn /\ dbg.list[i].end

StopAtFunction ==
  \/ /\ ~EndWanted
     /\ dbg' = SeenAtFunction
     /\ mem' = Push(Saved(child.rbp))
  \/ /\ EndWanted
     /\ dbg' = [SeenAtFunction EXCEPT !.stack = Append(@, child.fn),
                                      !.return_addr = Append(@, Last(mem))]
     /\ mem' = Front(mem) \o <<Entry(EndHandler), Saved(child.rbp)>>

\* The end handler was entered by a ret: it gets the return address it lacks.
StopAtEndPopping(word, left) ==
  LET restored == Push(word) IN
  /\ dbg' = [dbg EXCEPT !.regs = CopyRegs(Len(mem) + 1),
                        !.stack = Front(@), !.return_addr = left,
                        !.trace = CopyStack(restored, left)]
  /\ mem' = Append(restored, Saved(child.rbp))
StopAtEndOldest ==   \* mutant: first in, first out
  StopAtEndPopping(Head(dbg.return_addr), Tail(dbg.return_addr))
StopAtEnd == StopAtEndPopping(Last(dbg.return_addr), Front(dbg.return_addr))

int3_handler ==
  /\ Running("child") /\ child.at = "entry" /\ code[child.fn] = "INT3"
  /\ IF child.fn = EndHandler THEN StopAtEnd ELSE StopAtFunction
  /\ HandOver

child_exitUnnoticed ==   \* mutant: the debugger is not woken
  /\ Running("child") /\ child.at = "body"
  /\ state' = [state EXCEPT !["child"] = "UNUSED"]
  /\ child' = [child EXCEPT !.at = "exit"]
  /\ UNCHANGED <<rax, dbg, code, mem, calls>>

\* debugger_on_exit wakes the debugger; exit may be called anywhere.
child_exit ==
  /\ Running("child") /\ child.at = "body"
  /\ state' = [debugger |-> "RUNNING", child |-> "UNUSED"]
  /\ child' = [child EXCEPT !.at = "exit"]
  /\ UNCHANGED <<rax, dbg, code, mem, calls>>

-----------------------------------------------------------------------------
DebuggerStep ==
  \/ do_become_debugger \/ do_fork \/ do_wait_and_continue \/ debugger_exit
  \/ \E f \in Fns : do_remove_breakpoint(f) \/ \E flag \in BOOLEAN : do_set_breakpoint(f, flag)

ChildStep ==
  \/ \E f \in Fns : Call(f)
  \/ PushRbp \/ SetRbp \/ Return \/ int3_handler \/ child_exit

Next == DebuggerStep \/ ChildStep

\* The processor and the round robin of the scheduler let a running child
\* run on; nothing obliges the debugger to make another call.
Fairness == WF_vars(ChildStep)
Spec == Init /\ [][Next]_vars /\ Fairness

-----------------------------------------------------------------------------
(* Properties.                                                             *)

\* The code is patched exactly where the list says, and at the end handler,
\* whatever fails or is set twice; the list has one node per address, in the
\* order of their numbers, none of which is given twice, and the count is its
\* length (do_set_breakpoint, do_remove_breakpoint, do_info_breakpoints).
CodeMatchesList ==
  dbg.on =>
    LET list == do_info_breakpoints IN
    /\ \A f \in Functions : code[f] = "INT3" <=> f = EndHandler \/ IsSet(f)
    /\ dbg.count = Len(list) /\ dbg.count <= MaxBreakpoints
    /\ \A i, j \in 1..Len(list) :
         i < j => list[i].num < list[j].num /\ list[i].addr # list[j].addr
    /\ \A i \in 1..Len(list) : list[i].num <= dbg.num

\* The call whose end is about to be reported has left the stack already.
AtEnd == child.at = "entry" /\ child.fn = EndHandler
Depth == IF child.at = "none" THEN 0
         ELSE (Len(mem) + (IF AtEnd THEN 2 ELSE 1)) \div 2
IsHidden(i) == 2 * i <= Len(mem) + 1 /\ mem[2 * i - 1] = Entry(EndHandler)
Rank(i) == Cardinality({j \in 1..i : IsHidden(j)})
ReturnAddr(i) == IF IsHidden(i) THEN dbg.return_addr[Rank(i)]
                 ELSE IF i = Depth /\ AtEnd THEN Last(dbg.return_addr) ELSE mem[2 * i - 1]
FrameFn(i) == IF i = Depth THEN child.fn ELSE ReturnAddr(i + 1).of

ShadowIsHidden ==
  dbg.on /\ child.at # "none" =>
    LET hidden == {i \in 1..Depth : IsHidden(i)} IN
    /\ Len(dbg.stack) = Cardinality(hidden) + (IF AtEnd THEN 1 ELSE 0)
    /\ Len(dbg.return_addr) = Len(dbg.stack)
    /\ \A i \in hidden : dbg.stack[Rank(i)] = FrameFn(i)
ArraysSuffice ==
  /\ Len(dbg.stack) <= MAX_BACKTRACE /\ Len(dbg.return_addr) <= MAX_BACKTRACE
  /\ Len(do_backtrace) <= MAX_BACKTRACE

\* The two shadow arrays hold exactly the calls on the child's stack whose
\* return address is replaced, innermost last, each under the name of the
\* function it belongs to, also when the child has exited in the middle of them
\* and is run again; they are popped in the order in which the calls return
\* (int3_handler).  At no depth the assignment allows do they, or the trace, outgrow
\* arrays whose bound is never checked.
ShadowMatchesFrames == ShadowIsHidden /\ ArraysSuffice

\* Control is in one place: never do both run, and a debugger that waits
\* has a child that runs for it, its exited one again if it waits once more; no
\* wake-up is missing or given twice (int3_handler, debugger_on_exit,
\* do_wait_and_continue).
HandedOver ==
  /\ ~(Running("debugger") /\ Running("child"))
  /\ state["debugger"] = "WAITING" => Running("child") /\ child.at # "exit"

\* Every wait ends, at a breakpoint or with the child, the wait that runs an
\* exited child again included (the debuggee's program is finite, MaxCalls, and what
\* follows its exit call ends in another exit).
WaitReturns == state["debugger"] = "WAITING" ~> Running("debugger")

\* What the user of the debugger sees of all this.
Phase == IF state["debugger"] = "UNUSED" THEN "gone"
         ELSE IF ~dbg.on THEN "plain"
         ELSE IF child.at = "none" THEN "alone"
         ELSE IF child.at = "exit" THEN "exited"
         ELSE IF Running("child") THEN "running" ELSE "stopped"
Points == [f \in {g \in Fns : IsSet(g)} |-> Flag(f)]
Frames == IF child.at = "exit" THEN <<>>
          ELSE [i \in 1..Depth |-> [fn |-> FrameFn(i), ends |-> IsHidden(i)]]
Progress == IF AtEnd THEN "over" ELSE IF child.at = "exit" THEN "none" ELSE child.at
Report == [rip |-> do_info_registers.rip, depth |-> (do_info_registers.rsp + 1) \div 2,
           trace |-> do_backtrace]

Promise == INSTANCE DebugPromise WITH
  phase <- Phase, points <- Points, frames <- Frames, at <- Progress,
  report <- Report, answer <- rax

\* The one call that does not do as promised: a wait without a living child
\* succeeds where the promise has it fail, and after an exit it runs the dead context.
WaitsForNobody == do_wait_and_continue /\ child.at \in {"none", "exit"}

\* Hidden return addresses, patched instructions and the walk over saved
\* base pointers are invisible: whatever the debugger does except wait for nobody, it
\* sees the calls of the child as if there were only a program that stops, and
\* after such a wait too, for as long as the dead context runs.
KeepsDebugPromise ==
  Promise!Init /\ [][Promise!Next \/ WaitsForNobody]_(Promise!vars)
=============================================================================
