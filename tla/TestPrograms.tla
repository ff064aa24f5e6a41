---------------------------- MODULE TestPrograms ----------------------------
(***************************************************************************)
(* The test programs of assignment 2, run on the models of pipe.c and      *)
(* ppipe.c with the kernel's own sizes: each is the list of the system     *)
(* calls its processes make and of the results the repository records for  *)
(* them, in the .out files or in comments.  A process runs until it sleeps *)
(* and its calls take no time: the programs order their processes by       *)
(* sleeps, and processes awake at once run in any order.                   *)
(* Pipe and PPipe share the variables that both kinds of pipe have; a      *)
(* program uses one pipe of one kind.                                      *)
(***************************************************************************)
EXTENDS Integers, SequencesExt, FiniteSetsExt, TLC

CONSTANTS Pids, MAX_PIPE_PROC, MAX_OPEN_FILES, STD_FDS, IntRange, MAX_PPIPE_SIZE

VARIABLES
  program,          \* the name of the program that runs
  part, pc,         \* which of its lists of calls a process runs, and where
  now, wake,        \* the time, and when a sleeper wakes
  wanted,           \* what the program prints of the last call, by the record
  alive, live, write_pos, buff_offset, rc, out,
  files, ref_count, pipe_per_proc, pipe_buff, read_pos, quirks,
  holds, ppipe_per_proc, ppipe_buff, fork_failed

pipeVars  == <<files, ref_count, pipe_per_proc, pipe_buff, read_pos, quirks>>
ppipeVars == <<holds, ppipe_per_proc, ppipe_buff, fork_failed>>
sharedVars == <<alive, live, write_pos, buff_offset, rc, out>>
vars == <<program, part, pc, now, wake, wanted, sharedVars, pipeVars, ppipeVars>>

zero == "0"
P(MAX_PIPE_SIZE) == INSTANCE Pipe WITH Data <- {zero}, MaxCount <- 0, MaxRefs <- IntRange
PP == INSTANCE PPipe WITH Data <- {zero}, MAX_PPIPE_PROC <- MAX_PIPE_PROC, MaxCount <- 0

-----------------------------------------------------------------------------
(* Calls: the descriptor by its end, the argument, and what is printed.    *)

Unprinted == -2
Refused == -1   \* any error: the models do not tell the codes apart
NoText == <<>>

Call(name, end, arg, text, gives) ==
  [call |-> name, end |-> end, arg |-> arg, text |-> text, gives |-> gives]

Pipe == Call("pipe", "r", 0, NoText, 0)
Fork(child) == Call("fork", "r", child, NoText, 0)
Sleep(n) == Call("sleep", "r", n, NoText, Unprinted)
Close(end, gives) == Call("close", end, 0, NoText, gives)
Flush(gives) == Call("flush", "r", 0, NoText, gives)
Exit == Call("exit", "r", 0, NoText, Unprinted)
Write(end, n, gives) == Call("write", end, n, NoText, gives)
WriteText(s, gives) == Call("write", "w", Len(s), s, gives)
Read(end, n, gives) == Call("read", end, n, NoText, gives)
ReadText(n, s) == Call("read", "r", n, s, Len(s))

hello == <<"h", "e", "l", "l", "o">>
world == <<"w", "o", "r", "l", "d">>
greeting == [i \in 1..17 |-> ToString(i)]   \* 17 distinct bytes

Sizes == {5, 4096}
OnPipe(parts)  == [kind |-> "pipe", size |-> 4096, parts |-> parts]
OnPPipe(parts) == [kind |-> "ppipe", size |-> 4096, parts |-> parts]

-----------------------------------------------------------------------------
(* The programs: first the calls of the first process, then those of its   *)
(* children.                                                               *)

pipe_test1 == OnPipe(<<
  <<Pipe, Write("w", 3000, 3000), Read("r", 4096, 3000), Read("r", 4096, 0),
    Write("w", 2000, 2000), Read("r", 4096, 2000), Write("w", 4096, 4096),
    Read("r", 4096, 4096), Write("r", 100, Refused), Read("w", 100, Refused)>> >>)

pipe_test2 == OnPipe(<<
  <<Pipe, Fork(2), Write("w", 4096, 4096), Read("r", 4096, 4096)>>,
  <<Sleep(5), Read("r", 4096, 0)>> >>)

pipe_test3 == OnPipe(<<
  <<Pipe, Fork(2), Sleep(5), Close("w", Unprinted), ReadText(20, greeting), Sleep(50),
    Read("r", 4095, 4095), Write("w", 10, Refused), Close("r", Unprinted)>>,
  <<Close("r", Unprinted), WriteText(greeting, 17), Sleep(10),
    Write("w", 4095, 4095), Read("r", 5, Refused)>> >>)

pipe_test4 == OnPipe(<<
  <<Pipe, Close("w", Unprinted), Fork(2), Write("w", 4, Refused), Read("r", 4, 0)>>,
  <<Sleep(5), Write("w", 4, Refused)>> >>)

pipe_test5 == OnPipe(<<
  <<Pipe, Write("w", 10, 10), ReadText(10, [i \in 1..10 |-> zero]),
    Write("w", 4096, 4096), Read("r", 4096, 4096)>> >>)

pipe_test6 == OnPipe(<<
  <<Pipe, Write("w", 100, 100), Read("r", 100, 100), Write("w", 4096, 4096),
    Write("w", 50, 0)>> >>)

pipe_test7 == OnPipe(<<
  <<Pipe, Fork(2), Write("w", 4096, 4096), Read("r", 4096, 4096), Sleep(10),
    Read("r", 1000, 0)>>,
  <<Sleep(5), Read("r", 500, 0)>> >>)

pipe_test8 == OnPipe(<<
  <<Pipe, Write("w", 20, 20), Close("r", Unprinted), Fork(2), Read("r", 5, Refused)>>,
  <<Sleep(5), Read("r", 5, Refused)>> >>)

pipe_test9 == OnPipe(<<
  <<Pipe, Write("w", 20, 20), Fork(2), Close("r", Unprinted), Read("r", 5, Refused)>>,
  <<Sleep(5), Read("r", 5, 5), Close("r", Unprinted), Read("r", 5, Refused)>> >>)

pipe_test10 == OnPipe(<< <<Pipe, Write("r", 20, Refused), Read("w", 20, Refused)>> >>)

pipe_test11 == OnPipe(<<
  <<Pipe, Write("w", 20, 20), Read("r", 5, 5), Close("r", 0), Read("r", 5, Refused),
    Close("r", Refused), Read("r", 5, Refused)>> >>)

single_proc_rw ==
  <<Pipe, WriteText(hello, 5), ReadText(5, hello), Close("r", 0), Read("r", 5, Refused),
    Close("w", 0), Write("w", 5, Refused)>>

many_proc_rw(second) ==   \* second: what the parent reads after the child
  << <<Pipe, Fork(2), WriteText(hello, 5), Sleep(30), WriteText(world, 5),
       ReadText(5, second), Close("r", 0), Close("w", 0)>>,
     <<Sleep(5), ReadText(5, hello), Close("r", 0), Close("w", 0)>> >>

pipe_single_proc_rw == OnPipe(<<single_proc_rw>>)
pipe_many_proc_rw   == OnPipe(many_proc_rw(world))

ppipe_test1 == OnPPipe(<<
  <<Pipe, Fork(2), Write("w", 3000, 3000), Read("r", 2000, 2000), Sleep(10),
    Write("w", 2000, 1096), Flush(1500), Write("w", 2000, 1500), Read("r", 4096, 3596)>>,
  <<Sleep(5), Read("r", 1500, 1500), Sleep(10), Flush(0), Read("r", 4096, 4096),
    Flush(4096)>> >>)

ppipe_test2 == OnPPipe(<<
  <<Pipe, Fork(2), Fork(3), Write("w", 1000, 1000), Sleep(10), Read("r", 200, 200),
    Write("w", 1000, 1000), Flush(0), Sleep(50), Read("r", 3000, 1800), Sleep(100),
    Read("r", 2196, 2196)>>,
  <<Sleep(20), Close("r", 0), Flush(200)>>,
  <<Sleep(5), Read("r", 500, 500), Sleep(70), Write("w", 2196, 2196), Sleep(120),
    Write("w", 200, 100)>> >>)

ppipe_test3 == OnPPipe(<<
  <<Pipe, Write("w", 4, 4), Read("r", 4, 4), Close("r", Unprinted), Flush(0)>> >>)

ppipe_test4 == OnPPipe(<<
  <<Pipe, Fork(2), Write("w", 4096, 4096), Read("r", 4096, 4096), Sleep(10),
    Read("r", 1000, 0)>>,
  <<Sleep(5), Read("r", 500, 500)>> >>)

ppipe_test5 == OnPPipe(<<
  <<Pipe, Fork(2), Write("w", 1000, 1000), Read("r", 500, 500), Close("r", 0),
    Sleep(10), Flush(0)>>,
  <<Sleep(5), Read("r", 100, 100), Close("r", 0)>> >>)

ppipe_test6 == OnPPipe(<<
  <<Pipe, Write("w", 4096, 4096), Read("r", 2000, 2000), Flush(2000),
    Write("w", 1000, 1000), Read("r", 2096, 2096), Fork(2), Read("r", 200, 200),
    Sleep(5), Flush(2196), Sleep(10), Write("w", 500, 500), Sleep(50), Close("w", 0),
    Write("r", 500, Refused), Sleep(2), Write("w", 500, Refused), Sleep(8), Flush(100),
    Sleep(10), Fork(3), Write("w", 500, Refused), Sleep(10), Read("r", 300, 300),
    Sleep(10), Flush(300), Close("r", 0), Sleep(10), Flush(Refused),
    Close("r", Refused), Read("r", 10, Refused), Write("w", 10, Refused)>>,
  <<Sleep(2), Read("r", 100, 100), Sleep(8), Read("r", 3000, 900), Sleep(10),
    Write("w", 3000, 2696), Sleep(50), Close("r", 0), Read("w", 100, Refused), Sleep(2),
    Read("r", 100, Refused), Close("w", 0)>>,
  <<Sleep(5), Write("w", 500, Refused), Sleep(10), Read("r", 250, 250)>> >>)

flush_with_rw ==
  <<Pipe, WriteText(hello, 5), Flush(0), ReadText(5, hello), Flush(5), Close("r", 0),
    Close("w", 0)>>

ppipe_flush_with_rw  == OnPPipe(<<flush_with_rw>>)
ppipe_single_proc_rw == OnPPipe(<<single_proc_rw>>)
ppipe_many_proc_rw   == OnPPipe(many_proc_rw(hello))

all_1 == OnPipe(many_proc_rw(world))
all_2 == OnPipe(<<single_proc_rw>>)
all_3 == OnPPipe(<<flush_with_rw>>)
all_4 == OnPPipe(many_proc_rw(hello))
all_5 == OnPPipe(<<single_proc_rw>>)

all_6 == OnPPipe(<<
  <<Pipe, Fork(2), Fork(3), Write("w", 1000, 1000), Sleep(100), Flush(0),
    Close("r", 0), Flush(200), Sleep(10000)>>,
  <<Sleep(10), Read("r", 500, 500), Sleep(200), Sleep(1000), Write("w", 2196, 2196),
    Sleep(2000), Write("w", 200, 100)>>,
  <<Sleep(10), Read("r", 200, 200), Write("w", 1000, 1000), Sleep(200), Flush(0),
    Read("r", 3000, 1800), Sleep(1500), Read("r", 2196, 2196), Sleep(1000)>> >>)

\* all_7, on a pipe of 5 bytes, and all_8: up to their second pipe.
short_writes(second, fourth, fifth, last) ==
  << <<Pipe, WriteText(hello, 5), ReadText(5, hello), WriteText(Front(hello), 4),
       WriteText(Front(hello), second), ReadText(3, SubSeq(hello, 1, 3)),
       WriteText(Append(hello, zero), Unprinted), ReadText(5, fourth),
       WriteText(<<"h", "e">>, Unprinted), WriteText(<<"h", "e">>, Unprinted),
       WriteText(<<"h", "e">>, Unprinted), ReadText(5, fifth), Read("r", 5, last),
       Close("r", Unprinted), Read("r", 5, Refused)>> >>
all_7 == [OnPipe(short_writes(1, <<"l", "h", "h", "e", "l">>,
                                 <<"h", "e", "h", "e", "h">>, 0)) EXCEPT !.size = 5]
all_8 == OnPPipe(short_writes(4, <<"l", "h", "e", "l", "l">>, hello, 5))

all_9 == OnPPipe(<<
  <<Pipe, Write("w", 1000, 1000), Read("r", 1000, 1000), Flush(1000), Fork(2), Fork(3),
    Write("w", 4096, 4096), Read("r", 4096, 4096), Sleep(100), Flush(1000)>>,
  <<Sleep(10), Read("r", 3196, 3196), Sleep(150)>>,
  <<Sleep(50), Read("r", 1000, 1000), Sleep(150)>> >>)

all_10 == pipe_test3

all_11 == OnPipe(<<
  <<Pipe, Write("w", 2000, 2000), Sleep(5), Write("w", 2000, 2000),
    Read("r", 3096, 3096), Write("w", 1000, 1000), Close("r", Unprinted)>> >>)

all_12 == OnPPipe(<<
  <<Pipe, Write("w", 4096, 4096), Read("r", 4096, 4096), Read("r", 2000, 0)>> >>)

Programs ==
  {pipe_test1, pipe_test2, pipe_test3, pipe_test4, pipe_test5, pipe_test6, pipe_test7,
   pipe_test8, pipe_test9, pipe_test10, pipe_test11, pipe_single_proc_rw,
   pipe_many_proc_rw, ppipe_test1, ppipe_test2, ppipe_test3, ppipe_test4, ppipe_test5,
   ppipe_test6, ppipe_flush_with_rw, ppipe_single_proc_rw, ppipe_many_proc_rw,
   all_1, all_2, all_3, all_4, all_5, all_6, all_7, all_8, all_9, all_10, all_11, all_12}

-----------------------------------------------------------------------------
(* Running a program.                                                      *)

Init ==
  /\ program \in Programs
  /\ part = [p \in Pids |-> 1] /\ pc = [p \in Pids |-> 1]
  /\ now = 0 /\ wake = [p \in Pids |-> 0]
  /\ wanted = Exit
  /\ ppipe_buff = [k \in 0..MAX_PPIPE_SIZE - 1 |-> zero]
  /\ PP!Init
  /\ \E n \in Sizes :
       /\ n = program.size
       /\ pipe_buff = [k \in 0..n - 1 |-> zero]
       /\ P(n)!Init

\* The next call of p; a program that returns from main exits.
Next_call(p) ==
  LET calls == program.parts[part[p]]
  IN IF pc[p] <= Len(calls) THEN calls[pc[p]] ELSE Exit

Awake(p) == p \in alive /\ wake[p] <= now
Fd(end) == IF end = "r" THEN STD_FDS ELSE STD_FDS + 1   \* fd[0] and fd[1]
Bytes(c) == IF c.text # NoText THEN c.text ELSE [i \in 1..c.arg |-> zero]

\* The child q of p runs its own calls from now on.
StartsChild(p, q, c) ==
  /\ part' = [part EXCEPT ![q] = c.arg]
  /\ pc' = [pc EXCEPT ![p] = @ + 1, ![q] = 1]
  /\ wake' = [wake EXCEPT ![q] = now]
Proceeds(p) ==
  /\ pc' = [pc EXCEPT ![p] = @ + 1]
  /\ UNCHANGED <<part, wake>>

\* The call c of p on a pipe of n bytes: pipe.c and file.c.
PipeCall(n, p, c) ==
  \/ c.call = "pipe"  /\ P(n)!create_pipe(p) /\ Proceeds(p)
  \/ c.call = "fork"  /\ \E q \in Pids : P(n)!do_fork(p, q) /\ StartsChild(p, q, c)
  \/ c.call = "read"  /\ P(n)!pipe_read(p, Fd(c.end), TRUE, c.arg) /\ Proceeds(p)
  \/ c.call = "write" /\ P(n)!pipe_write(p, Fd(c.end), TRUE, Bytes(c)) /\ Proceeds(p)
  \/ c.call = "close" /\ P(n)!do_close(p, Fd(c.end)) /\ Proceeds(p)
  \/ c.call = "exit"  /\ P(n)!do_exit(p) /\ Proceeds(p)

\* The same on a persistent pipe: ppipe.c.  A call without a descriptor is
\* refused before it reaches the pipe.  There is memory for the pipe.
HasNoDescriptor(p, c) ==
  \/ c.call \in {"read", "write", "close"} /\ c.end \notin holds[p]
  \/ c.call = "flush" /\ holds[p] = {}
PPipeCall(p, c) ==
  \/ c.call = "pipe"  /\ PP!create_persistent_pipe(p) /\ live' /\ Proceeds(p)
  \/ c.call = "fork"  /\ \E q \in Pids : PP!do_fork(p, q) /\ StartsChild(p, q, c)
  \/ c.call = "read"  /\ PP!ppipe_read(p, c.end, TRUE, c.arg) /\ Proceeds(p)
  \/ c.call = "write" /\ PP!ppipe_write(p, c.end, TRUE, Bytes(c)) /\ Proceeds(p)
  \/ c.call = "close" /\ PP!do_close(p, c.end) /\ Proceeds(p)
  \/ c.call = "flush" /\ PP!do_flush_ppipe(p) /\ Proceeds(p)
  \/ c.call = "exit"  /\ PP!do_exit(p) /\ Proceeds(p)
  \/ /\ HasNoDescriptor(p, c) /\ Proceeds(p)
     /\ rc' = Refused /\ out' = <<>>
     /\ UNCHANGED <<alive, live, write_pos, buff_offset, ppipeVars>>

\* A process that is awake makes its next call.
Steps(p) ==
  LET c == Next_call(p) IN
  /\ Awake(p)
  /\ wanted' = c
  /\ \/ /\ c.call = "sleep"
        /\ wake' = [wake EXCEPT ![p] = now + c.arg]
        /\ pc' = [pc EXCEPT ![p] = @ + 1]
        /\ UNCHANGED <<part, sharedVars, pipeVars, ppipeVars>>
     \/ /\ program.kind = "pipe" /\ UNCHANGED ppipeVars
        /\ \E n \in Sizes : n = program.size /\ PipeCall(n, p, c)
     \/ /\ program.kind = "ppipe" /\ UNCHANGED pipeVars
        /\ PPipeCall(p, c)
  /\ UNCHANGED <<program, now>>

\* Time passes when everybody sleeps.
Tick ==
  /\ alive # {} /\ \A p \in alive : ~Awake(p)
  /\ now' = Min({wake[p] : p \in alive})
  /\ UNCHANGED <<program, part, pc, wake, wanted, sharedVars, pipeVars, ppipeVars>>

\* All processes have exited; without this step TLC would call the end of a
\* program a deadlock, which it reports for a program that cannot go on.
Ended == alive = {} /\ UNCHANGED vars

Next == (\E p \in Pids : Steps(p)) \/ Tick \/ Ended

Spec == Init /\ [][Next]_vars

-----------------------------------------------------------------------------
(* Properties.                                                             *)

\* Each call gives the result, and each read the bytes, that the repository
\* records for the program, in whatever order the processes run between two
\* sleeps (pipe_tests/*.out, ppipe_tests/*.out, comments of all_tests/*.c).
PrintsRecorded ==
  /\ wanted.gives # Unprinted => rc = wanted.gives
  /\ wanted.call = "read" /\ wanted.text # NoText => out = wanted.text

\* When the last process has exited, the pages of the pipe are free and no
\* file object is left, whatever ends its processes closed themselves.
NothingLeft ==
  alive = {} => ~live /\ \A e \in {"r", "w"} : ref_count[e] = 0
=============================================================================
