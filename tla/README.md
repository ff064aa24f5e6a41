# Verification of gemOS (Building-GemOS)

The repository holds a teaching operating system, *gemOS*, and the C code
written around it in four assignments: user-level programs (Assignment1), pipes
and persistent pipes (Assignment2), a debugger (Assignment3) and threads
(Assignment4). This directory holds TLA+ models of that code, configurations
that check them with TLC, and proofs checked by TLAPS.

Paths below are relative to the repository. `A2` stands for
`src/Assignment2/gemOS/src`, `A3` for `src/Assignment3/Assignment-3/src`, `A4`
for `src/Assignment4/template`, `A1` for `src/Assignment1/190902`.

## 1. The system

gemOS runs on one processor. System calls, faults and the timer handler run
with interrupts disabled, so a handler is atomic with respect to everything but
its own calls; processes and threads are preempted between any two
instructions of user code. Kernel memory is handed out in pages. Large parts of
the kernel exist only as object files (`memory.o`, `cfork.o`, `mmap.o`, `fs.o`
...); their behaviour is taken from how the available code calls them and is
mentioned where a model depends on it.

| component | state | operations | talks to |
|---|---|---|---|
| pipes, `A2/pipe.c` | one page with a slot per process (pid, two flags) and ring positions, one page of bytes | `create_pipe`, `do_pipe_fork`, `pipe_close`, `pipe_read`, `pipe_write`, `is_valid_mem_range` | called by the descriptor layer; uses its `file_close` |
| persistent pipes, `A2/ppipe.c` | as above, but a read position and a backlog in every slot | the same and `do_flush_ppipe` | the same |
| descriptors and files, `A2/file.c` | `files[16]` of each context, reference-counted file objects with a table of handlers | `do_file_fork`, `do_file_exit`, `fd_dup`, `fd_dup2`, open, read, write, lseek, close, `do_sendfile` | pipes, persistent pipes, file system, keyboard and console |
| debugger, `A3/debug.c` | `dbg` of the debugger's context: list of breakpoints, call stack, return addresses, saved registers; bytes of the child's code; states of both contexts | `do_become_debugger`, `do_set_breakpoint`, `do_remove_breakpoint`, `do_info_*`, `do_backtrace`, `do_wait_and_continue`, `int3_handler`, `debugger_on_fork`, `debugger_on_exit` | scheduler, the debugged child |
| system calls and scheduler, `A3/entry.c`, `A3/schedule.c` | state, sleep and alarm counters of each context | `do_syscall`, `schedule`, `handle_timer_tick`, sleep and alarm accounting | everything |
| kernel threads, `A4/clone_threads.c`, `clone_threads_helper.c` | `ctx_threads` of a process: a slot per thread, private mappings, page tables | `do_clone`, `do_make_thread_ready`, `do_wait_for_thread`, `handle_thread_exit`, `cleanup_all_threads`, private map, unmap, fault, context switch | scheduler, memory; `gthread.c` above it |
| user threads, `A4/user/gthread.c` | `tinfo` in memory shared by the threads | `gthread_create`, `gthread_exit`, `gthread_join`, `gmalloc`, `gfree` | kernel threads, by system calls; preempted anywhere |
| archiver, `A1/Part2/myTar.c` | position in the archive, `sz`, `cnt` | `-c`, `-d`, `-e`, `-l` | POSIX files |
| tournament, `A1/Part3` | a process per team, per group and the host; two pipes per team; the match each plays | `conductGroupMatches`, `match`, `spawnTeams`, `endTeams`, `teamPlay` | POSIX pipes and files |
| argument chain, `A1/Part1` | the argument list | `root`, `square`, `double` | exec |
| test programs of assignment 2, `src/Assignment2/gemOS/src/user/all_tests`, `user/Assignment_2/pipe_tests` and `ppipe_tests` | none of their own | 34 programs | pipes, persistent pipes, fork, sleep |

What is hard in it, and what makes each part correct:

* **Pipes.** Several processes share a ring; slots and descriptors come and go
  by fork, close, dup, dup2 and exit in any order. Bytes must come out once and
  in order; an open flag must belong to someone who can clear it; the pages
  must go with the last open end.
* **Persistent pipes.** Every reader must see every byte, a flush must reclaim
  exactly what all have read, and a forked reader must go on where its parent was.
* **Descriptors.** Reference counts must equal the number of descriptors;
  errors of handlers must not lose objects.
* **Debugger.** Debugger and child hand control to each other by changing
  each other's state; the shadow stack of return addresses must match the
  functions the child is in, while breakpoints are added and removed.
* **Threads.** Two tables describe the threads, one in the kernel and one in
  user memory, and they are updated at different times by preemptible code;
  joins, exits and creations race. A private mapping must be accessible to
  others only as its flags say.
* **Scheduler.** A sleeping or waiting process must run again, and an exited
  one must not.
* **Archiver.** Headers are text in the same stream as the files; a file may
  contain what looks like a header. Files are written over what was there.
* **Tournament.** Two groups play at once over pipes whose ends every process
  has inherited; nobody may wait for an answer that never comes.

## 2. Modules

    BytePipe  <- Pipe                 pipe.c with file.c's tables
                   PipeProofs         theorems about Pipe
    PersistentStream <- PPipe         ppipe.c
                   PPipeProofs        theorems about PPipe
    TestPrograms                      the programs of assignment 2 on Pipe and PPipe
    ThreadLibrary <- Threads          gthread.c over clone_threads*.c
                   MCThreads          symmetry for TLC
                   ThreadsProofs      theorems about Threads
    ThreadMem                         private mappings
                   MCThreadMem        symmetry for TLC
                   ThreadMemProofs    theorems about ThreadMem
    DebugPromise <- Debugger          debug.c
                   DebuggerProofs     theorems about Debugger
    Scheduler                         schedule.c, exit and fork of entry.c
                   SchedulerProofs    theorems about Scheduler
    FileTable                         file.c: regular files and sharing
                   FileTableProofs    theorems about FileTable
    Tournament                        utils.c, wc.c
                   TournamentProofs   theorems about Tournament
    Archive                           myTar.c
                   MCArchive          directories for TLC

`A <- B` says that `B` is shown to implement the abstract specification `A`; an
indented module extends the one above it. `TestPrograms` composes: it
instantiates `Pipe` and `PPipe` over shared variables.

### Pipe

One pipe, all processes, all their descriptors. `files`, `ref_count`,
`pipe_per_proc`, `pipe_buff`, `read_pos`, `write_pos` and `buff_offset` are the
fields of the same name; the two flags of a slot are a set `open`, the two file
objects are named by their mode (`"r"`, `"w"`), and `live` says that the pages
are allocated. There is one action per system call: `create_pipe`, `do_fork`
(with `do_file_fork` and `do_pipe_fork`), `do_close` and `do_exit` (with
`pipe_close` and `file_close`), `fd_dup`, `fd_dup2`, `pipe_read`,
`pipe_write`. Each takes effect in one step because handlers run with interrupts
disabled. The byte-by-byte loops of read and write are written by what they do
to the whole ring. Some scans of the slot table stop at the first match and
others keep the last; the model keeps the difference (`IsFirstSlot`,
`IsLastSlot`), and `OneSlotPerProcess` shows that it does not matter.

Descriptors can be duplicated, and then the code can reach a freed page:
`pipe_close` frees the pages when the last *flag* is cleared, but a duplicate
keeps a descriptor after its process's flag is gone. No handler is modelled on
a freed page: the guards `... => live` stop there. `NothingDangling` says when
this may happen: after `dup`/`dup2` of a pipe descriptor or after a failed fork
handler, never otherwise. `quirks` records these two events.

The answer of `is_valid_mem_range` (pipe.c:222-248) is an input: the caller's
buffer is acceptable or not. Its own arithmetic (the last address is
`buff+count-1`, and the copies of the file differ in one comparison) is not
modelled. Failed page allocations in `create_pipe` are left out; they leave the
file objects allocated before them behind.

The abstract specification `BytePipe` knows a queue and a set of open ends. The
refinement mapping reads the queue off the ring (`Contents`) and the ends off
the slots (`Users`).

### PPipe

The same for `ppipe.c`; every slot has its own `read_pos` and `loc_offset`.
Descriptors are reduced to one per end and process, since `Pipe` covers
duplication. `loc_offset` is an int: a process that gave up its read end counts
every later write until the int wraps, so the model counts modulo `IntRange`.
`PersistentStream` has one window of bytes and a cursor for each reader; the
mapping places the window `buff_offset` bytes before `write_pos`.

### TestPrograms

The 34 programs of `pipe_tests`, `ppipe_tests` and `all_tests`, each as the
list of its processes' calls, with the results the repository records for them
(`.out` files and comments) where there is one. Every call is a step of `Pipe`
or `PPipe` at the kernel's sizes: 16 slots, 16 descriptors of which 3 are
standard, a ring of 4096 bytes. Programs order their processes by `sleep`, so a
call takes no time compared with a sleep, and processes that are awake at the
same time run in any order. Error codes are not told apart (`-1` stands for any);
`7.c` and `8.c` of `all_tests` are followed up to their second pipe; `IntRange` is
65536, since no program writes that many bytes. `test_cases_part1` and
`test_cases_part2` hold copies of three of the programs.

### FileTable

What `Pipe` leaves out of file.c: several file objects, regular files with
permissions, positions shared through `dup`, `dup2` and fork, `lseek`,
`sendfile`, and the standard streams. A file is its size; the bytes do not
matter to the properties. Descriptors are in the table, as nothing in the code
checks, and `open_standard_IO` is called with room in the table (its search has
no bound). What the code does and one might not expect is in the model:
`SEEK_END` counts from the position, `sendfile` writes as many bytes as were
asked for however few it read, a file created with too few permissions stays
although its open fails. The page `sendfile` reads into (leaked on some
returns), the reference count of an inode and `lseek` on a standard stream, which
has no handler, are left out.

### Threads

The user library and the system calls under it, in one module because what is
hard is between them. `threads` is the kernel's table (`ctx_threads`), `tinfo`
the library's; `state` and `ticks_to_sleep` belong to the contexts; `mapped` is
the set of stacks. `parent` and `thread` say where the process and each thread
are, with the locals they still need.

A system call is one action, as everywhere. The library runs in user mode, so
`gthread_create`, `gthread_exit` and `gthread_join` are cut between any two
accesses to what another context can see: in `gthread_create` the pid is written
in one step (`note_pid`), the status in the next; in `gthread_exit` the value
(`store_value`), the status (`store_status`) and the exit (`thread_exit`) are
three. Whichever context is ready may take the next step; `"READY"` stands for
running too. `"RUNNING"` appears only where `do_clone` has copied the caller's
state and then failed.

The parts without source are taken as their callers use them: `get_new_ctx`
returns any unused context, `mmap` any free area, `do_exit` calls
`handle_thread_exit` for a thread (normal for the system call, not normal for a
fault) and `cleanup_all_threads` for the process. `do_sleep` sets the ticks and
waits. A thread's function is anything that sleeps, crashes, or ends with a
value. The program follows the assignment's rules: only the process creates and
joins, and it joins a name only while it is in use.

Two branches of the code are in the model although no run of these sizes takes
them: `note_pid` finds no free entry (the limit was checked before), and
`handle_thread_exit` finds no slot ("BUG!!!" in the code), which
`KernelKnowsThreads` excludes. With no context left `do_clone` is not modelled, nor
are the page tables, file objects and registers of a clone.

The abstract `ThreadLibrary` has threads that run, end with a value or crash,
and joins that return it. The mapping reads a thread's phase from its entry, and
from its context where the entry still says it runs.

### ThreadMem

`gmalloc` and `gfree`, the kernel's records of private mappings, and the two
handlers that enforce them by editing the one page table that all threads share:
at a fault, and when another context gets the processor. An area has one of the
three flags, and a part of whole pages (`"whole"`) and, if its size is no
multiple of a page, a page of its own at the end (`"last"`); the switch handler
divides the length by the page size and so never edits that last page
(clone_threads.c:213), hence the two parts. An access is one step: it succeeds on
the page table as it is, or faults and is fixed, or kills the thread. `left` is a
history variable: a thread has been joined that had not freed its areas, from
which point library and kernel disagree by design (gthread.c:100: `gthread_join`
frees them as the process, for which `gfree` finds no entry and fails). A clone
that would exceed the kernel's table kills its caller
(clone_threads_helper.c:206); the exit of the whole process ends the model.

### Debugger

One debugger and its child, as the assignment limits it: the child does not
fork, and the debugger outlives it. Every call of debug.c is an action, with the
fork, exit and INT3 paths that lead into it. A breakpoint is an `INT3` in place
of a function's first instruction, `push %rbp`; the handler does the push itself.
A breakpoint with its end flag also replaces the return address on the child's
stack by `end_handler`, which starts with an `INT3` of its own, and keeps the
real one in a shadow stack. The child's stack is modelled word by word (`mem`),
because backtrace and registers are read off it. The child's program is anything
that calls functions, up to `MaxCalls` calls, `MaxDepth` deep.

The arrays of `debug_info` have `MAX_BACKTRACE` entries and no bound is ever
checked (debug.h:65-68, debug.c:183-186); the assignment limits a debuggee to as
many return addresses (6.1), which is the assumption `MaxDepth <= MAX_BACKTRACE`.
`ArraysSuffice` says that then nothing overflows, whatever breakpoints are set,
flagged and removed; a deeper program overwrites the fields behind the arrays.

`DebugPromise` is what the user should see: a program that calls and returns,
stops at breakpoints and at flagged ends, and a backtrace that names the callers;
no patched code, no replaced return address. A wait without a child to wait for
is refused. `Debugger` implements it but for that wait (`WaitsForNobody`): the
mapping rebuilds the calls from the stack and the shadow stack.

That wait is where the code does not do as promised, and
`KeepsDebugPromise` names it as its one exception:

* before the fork `wait_and_continue` finds nobody and returns 0
  (debug.c:443), where the recorded output of `tests/1.03.wnc.err` and the
  assignment (5.4) have -1;
* after the child's exit it finds the dead context, whose `ppid` still matches,
  makes the debugger wait and runs it (debug.c:436-448). The child goes on behind its exit
  call and exits again, which answers the debugger with 0; in between it may call
  functions and stop at breakpoints like a living one. `HandedOver`, `WaitReturns` and
  `ShadowMatchesFrames` include all this.

A breakpoint removed after its function was entered still stops at the end
(debug.c:348), and the promise says so. Excluded are a breakpoint on `end_handler`
itself, failed allocations, and a second `become_debugger` while breakpoints or
ends are outstanding: it would empty the list and the shadow stack and leave the
`INT3`s and replaced return addresses behind (debug.c:234-256). With nothing
outstanding a second call is in the model.

### Scheduler

`state`, `ticks`, `ppid` of every context and the current one; the timer tick
(accounting of sleeps, then round robin), `sleep`, exit, fork, the debugger's
hand-over to its child and back, and the shutdown with the last process.
`sleep` and the copying part of fork exist as object code only: a sleep of at least one
tick is assumed (with zero the account never wakes the sleeper), and fork is
called while a context is free. Processes may exit before their children, except that
a debugger does not exit before its own (assignment, 5.6). Alarms change no state of a context and
are left out.

An exited context is not always gone. The exit of a process that is no
debugger makes the context of its parent READY without a look at it
(debug.c:212), so that an orphan brings back a parent that has exited, on its
freed memory; and a debugger's wait takes the first context with its pid as
`ppid`, in use or not (`Kin`, debug.c:436-446). `gone` is a history variable,
the contexts whose process has called exit. `ExitedStayGone` says
that these two, and the reuse by a fork, are the only ways back, and that the shutdown
comes exactly when no context is in use.

### Tournament

A process per team, two group processes, the host; per team a pipe of requests
and one of answers. The steps of a process between two reads are one action.
Innings end by overs or wickets; the input of a team is any sequence of digits.
Reading past the end of an input file leaves the digit uninitialised in the code
and is left out.

`MatchIsDecided` follows the score by itself: `balls` is a history variable that counts
what was bowled, `last` the result of the step, and the property says who must win
by runs, wickets and balls left. A level score is told from a won chase by the loop
counters the second innings leaves (utils.c:218-233): it is a tie, and goes to the team
of the lower index, unless the second side was bowled out level with more than an over to
go, which the code counts as its win. Assignment_1.pdf, 3.2.4, gives every tie to
the lower index; the property says what the code does.

### Archive

`-c`, `-d`, `-e` and `-l` on the bytes of the archive: headers `name\nsize\n`
read byte by byte, files copied chunk by chunk. `-c` writes, then one of the others
reads. No file is opened with `O_TRUNC` (myTar.c:39, :175, :262), so `fd` starts as an older
archive or as none and `out` as the files of an older dump or as none, and a
write replaces what is at its position (`Overwrite`). What sticks out of a
longer, older archive is read as further headers; what sticks out of a restored file
stays in it. The size of the archive goes through an int (`tot`, narrowed at `IntMax`), a
file is left out when its name begins with the archive's (`IsArchive`,
myTar.c:62), and a NUL byte is written into the listing (:335).

At the end of the archive `read` returns 0 and the buffer keeps its byte, so that a walk that
misses the end does not stop (`Endless`), reads an empty size (`EmptyLine`) or
an empty name, which `-d` fails to open. The archive of an empty directory ends so at once; which of
these happens depends on what is on the stack.

`Sound` names the archives that the assignment has in mind (2.1.1: the directory has a file, and the
output does not exist yet) and that fit an int. Over them `ReadsBack` and `Ends` say that all
is restored and every walk stops; without it they claim only that `-e` finds
a file that is stored, since it comes before anything older. What is
left out: the end of an older listing (`-l` opens its file in the same way, :321), names longer than
the 19 bytes the readers have room for, and in the sizes read from an older archive's end bytes below
`'0'`, which stand for negative digits.

## 3. Runs

Run `tlc -config <run>.cfg <module>` in this directory. All but the two marked
ones pass.

| run (module) | instance | shows |
|---|---|---|
| `pipe_bytes` (Pipe) | 2 processes, 2 byte values, ring of 2, calls of up to 2 bytes, 2 descriptors, references up to 2 | slots, descriptors, counts and pages agree; `Pipe` implements `BytePipe` |
| `ppipe_stream` (PPipe) | 2 processes, 2 byte values, ring of 2, int of 4 values | `ReadersInStep`, `SlotsMatchDescriptors`; `PPipe` implements `PersistentStream` |
| `test_programs` (TestPrograms) | the kernel's sizes, up to 3 processes | recorded results come out, no program gets stuck (deadlock is checked), nothing is left allocated |
| `files_shared` (FileTable) | 2 processes, 3 descriptors of which 1 standard, 2 objects, 1 file of up to 2 bytes, two modes, two permissions | `ReferencesCounted`, `PositionsInside`, `GrowsByWriters` |
| `threads_library` (MCThreads) | 3 contexts, 2 threads, 2 stacks, 2 values, one thread sleeps, fairness | both tables are right, no context is lost except as described below, `Threads` implements `ThreadLibrary`, every join returns |
| `threads_nap` (MCThreads) | 4 contexts, 2 threads, the process sleeps | **violated**: `NoValueLost` |
| `mem_rights` (MCThreadMem) | process and 2 threads, 3 addresses, up to 2 areas each, every flag and size | rights at every access and switch, records agree |
| `mem_first_read` (MCThreadMem) | 1 area shared for reading | **violated**: `SiblingsMayRead` |
| `debug_nested` (Debugger) | 2 functions besides `main`, 2 breakpoints, numbers up to 3, 4 calls up to 4 deep, arrays of 4 entries | code and list agree, control is in one place, the shadow stack matches and fits, waits end; `Debugger` implements `DebugPromise` but for waits for nobody |
| `sched_robin` (Scheduler) | the swapper and 3 contexts, one of them for a debugger, sleeps of 1 or 2 ticks, orphans, waits after an exit | one context runs, exited contexts come back in three ways only, nobody starves |
| `tour_match` (Tournament) | 2 groups of 2 teams, 3 overs of 1 ball, 1 wicket, digits 0 and 1 | one answer per request, right winner and leader, the tournament ends |
| `tar_round` (MCArchive) | all directories of up to 4 files, one of a name that is skipped, 4 contents, base 2, chunks of 2, an int up to 23; no archive, an older one or a longer one; no dump or an older one | what is stored is read back; every walk over a sound archive ends |

The two violations are disagreements between code and documentation:

* `threads_nap`. Any thread's end makes the process ready, even if it sleeps.
  It then runs with ticks left, `do_clone` copies them (clone_threads.c:96), and
  the timer starts the new thread before `gthread_create` has written its entry.
  If the thread ends before that, `gthread_exit` finds no entry and its value is
  dropped; the join returns NULL. Where the process does not sleep while threads
  exist (`threads_library`) the value arrives.
* `mem_first_read`. `error_code & 0x2 == 0` (clone_threads.c:172) is
  `error_code & 0`, so a sibling that reads a page shared for reading before
  anyone else has touched it is killed. clone_threads.h:14 says that siblings can
  read. `PermittedSucceeds` shows that this is the only denied permission.

Other disagreements need no run of their own, since a passing property names them:

* `gthread_exit` writes status 2
  (gthread.c:76) before it calls `exit`, and a join that comes between (gthread.c:87)
  returns at once and unmaps the stack of a thread that still runs. The thread then
  faults and its context stays `EXITING` for ever, or the next `clone` finds the
  kernel's slots still used, fails, and loses a context and a stack.
  `ContextsSuffice` says, and `threads_library` checks, that contexts are lost in
  no other way.
* A wait for a child that is not there yet returns 0 instead of -1, and one for a
  child that has exited runs it again (`KeepsDebugPromise`, section 2, Debugger).
* The exit of an orphan brings back a parent that has exited (`ExitedStayGone`,
  debug.c:212).
* A side that is bowled out level with more than an over to go wins
  (`MatchIsDecided`, utils.c:218-233).
* Archiving over a longer archive leaves its end to be read as files, and the
  walks over the archive of an empty directory may never stop (`ReadsBack`, `Ends`,
  myTar.c:39).

In `do_close` of A3/entry.c:171-180 the handler's answer is stored and not returned.
`Pipe` and `PPipe` return it: they model the kernel of the second assignment, whose
`do_close` (in `gemOS.kernel`; its source is not there) does.

**Bounds.** A ring of two bytes wraps, fills and empties within a few calls, and
a call of two bytes crosses its end; two byte values tell any two orders apart.
Two processes show every interaction of two, and with two slots a full table
needs no third; `test_programs` runs three at the real sizes, and the proofs cover
every number. `MaxRefs` cuts off counts that a leak raises for ever (close of a
duplicate, failed fork). Two objects and three descriptors make dup2 replace an
object by another, by itself and across a fork; a two-byte file has positions
inside, at the end and short reads. Two threads over two contexts leave none to
spare, so a lost context shows at once; `threads_nap` needs a spare one. Three
areas over two threads let an address be freed by one and mapped by the other
while a third stays. Four calls allow recursion, a return under a flag that was
changed meanwhile and a removed breakpoint with its end outstanding; two
breakpoints fill the list. In `tour_match` groups have two teams, so two teams of a
group never tie at one win each: the order among tied leaders (`LeaderHasMostWins`)
needs larger groups, beyond TLC, and is proved for all of them; so is a second
match of a group. Three overs of one ball
and one wicket let a side be bowled out level with one over to go and with more, which are the
two sides of the code's rule for a tie. Three contexts and the swapper are a debugger, its
child and a third process, or a process, its orphan and the one that reuses a context. Base 2 makes most sizes two
digits long, and contents include what looks like a header at the start of a file
and in its middle; an int up to 23 is passed by directories of three files.

**Deadlock** checking is off where the system stops: the last process exits, the
tournament is over, the archive is read. It is on in `test_programs`, whose last
state repeats, and in the memory runs.

**Fairness.** None is assumed for pipes, persistent pipes, files and private
memory, and no liveness is claimed: no call there blocks. `threads_library`
assumes that a context which stays ready is run (round robin and the timer),
that the timer ticks while someone sleeps, and that the function of a thread ends
(strong, as it may sleep on the way). `debug_nested` assumes only that a running
child goes on; the debugger is not obliged to call anything. `sched_robin` assumes
the timer, nothing of the processes; `NoStarvation` leaves out a debugger and a
child that hand the processor to each other for ever, which never passes through the
round robin. In `tour_match` and `tar_round` weak fairness of the whole next-state
relation suffices: each step uses something up. `tour_match` states it with
`Runnable`, which says when some process can go on, in the place of `ENABLED Next`.
In `debug_nested` a wait after the child's exit ends too, because what follows the
exit call is as finite as the program.

## 4. Proofs

TLAPS checks the following for all values of the constants that the named
assumptions of each module allow (finitely many processes with natural ids; at least one
byte, slot and thread; an int wider than the ring). A theorem that assumes more
says so itself, and the last column here.

| theorem | states | where |
|---|---|---|
| `PipeProofs!TypeCorrect` | `TypeOK` | |
| `PipeProofs!SlotsAreUnique` | `OneSlotPerProcess` | |
| `PipeProofs!NoOrphanedEnd` | `OpenEndsHaveDescriptors` | |
| `PipeProofs!PagesFollowOpenEnds` | `FreedWithLastEnd` | |
| `PipeProofs!Refinement` | `Pipe` implements `BytePipe` | |
| `PipeProofs!ReferencesAreCounted` | `ReferencesCounted` | |
| `PipeProofs!NoDescriptorDangles` | `NothingDangling` | |
| `PPipeProofs!SlotsAreOwned` | `SlotsMatchDescriptors` | |
| `PPipeProofs!CountersAgree` | `ReadersInStep` | |
| `PPipeProofs!Refinement` | `PPipe` implements `PersistentStream` | |
| `FileTableProofs!ReferencesAreCounted` | `ReferencesCounted` | |
| `FileTableProofs!PositionsStayInside` | `PositionsInside` | |
| `FileTableProofs!OnlyWritersGrow` | `GrowsByWriters` | |
| `ThreadsProofs!TypeCorrect` | `TypeOK` | |
| `ThreadsProofs!KernelTableCorrect` | `KernelKnowsThreads` | |
| `ThreadsProofs!LibraryTableCorrect` | `CountInv`, `StoringInv` (stated in the module) | |
| `ThreadsProofs!LibraryKnows` | `LibraryKnowsThreads` | the process does not sleep |
| `ThreadsProofs!CloneFindsContext` | `ContextsSuffice` | the same, and a context for every thread the limit allows (4 threads, 7 contexts: `A4/user/gthread.h`:5, `A4/include/context.h`:10) |
| `ThreadsProofs!ImplementsLibrary` | `Threads` implements `ThreadLibrary` | the process does not sleep |
| `ThreadMemProofs!TypeCorrect` | `TypeOK` | |
| `ThreadMemProofs!RightsEndWithArea` | `NoStaleRights` | |
| `ThreadMemProofs!RecordsAgree` | `LibraryMatchesKernel` | |
| `ThreadMemProofs!DeniedIsDenied` | `NothingForbidden` | |
| `ThreadMemProofs!GrantedSucceeds` | `PermittedSucceeds` | |
| `DebuggerProofs!PatchesAreTheList` | `CodeMatchesList` | |
| `DebuggerProofs!ControlIsHandedOver` | `HandedOver` | |
| `DebuggerProofs!ShadowHoldsWhatIsHidden` | `ShadowMatchesFrames` | |
| `DebuggerProofs!ImplementsPromise` | `Debugger` implements `DebugPromise` but for waits for nobody | |
| `SchedulerProofs!OneContextRuns` | `OneRuns` | |
| `SchedulerProofs!ReturnOfTheExited` | `ExitedStayGone` | |
| `TournamentProofs!Answers` | `RequestsAnswered` | |
| `TournamentProofs!Decision` | `MatchIsDecided` | |
| `TournamentProofs!Leaders` | `LeaderHasMostWins` | |

**Pipe.** The invariant is `IInv == TypeOK /\ RingConsistent /\ SlotsInv`.
`RingConsistent` (`write_pos` is `buff_offset` ahead of `read_pos`) is what makes
a write append to what a read will return. The three slot properties need each
other: closing keeps `FreedWithLastEnd` only when a process has one slot, and a
fork keeps `OneSlotPerProcess` only because a slot's owner is alive and the
child is not. One lemma per action shows that the invariant is kept, and one
per action shows that the step is a step of `BytePipe` or leaves it unchanged.
`CloseSlots` (what closing a set of ends does to the table) serves close, exit
and dup2 in both halves. `WriteAppends` holds the arithmetic of the ring.

The references need a second invariant, `HeldInv`, on top of the first. A count is
the number of places in a table of tables, so each action says which places it
takes and gives up, and counting lemmas turn that into arithmetic (`ReplaceRow` for
fork and exit, `WritePlace` for the calls on one descriptor). The counts alone
do not carry `NothingDangling`: while nothing was duplicated and no fork handler
failed, a process has *one* descriptor for an end (`Single`) and its slot has the
flag (`Backed`), so the close that clears the flag drops the only reference.

**PPipe.** `SlotsMatchDescriptors /\ ReadersInStep` with the types is inductive.
A write adds to every backlog modulo the width of an int; that a *reader's*
backlog does not wrap is a consequence of `ReadersInStep` (it is at most
`buff_offset`, hence at most the ring), while a mere writer's may. For the
refinement the oldest byte a reader has not read is found by going back from
`write_pos` (`OldestFacts`): its position is determined by its backlog, so all
readers, the window and a flush are slices of one sequence (`LastBytes`).

**FileTable.** Counts as for the pipe, for any number of objects. dup2 releases one object
and references another, in one table row, and both may be the same. A position is
inside its file only because no call makes a file shorter, and an object's mode
lies within the permissions of its file (`Sound`), which is what makes a
growing file one that somebody was allowed to write.

**Threads.** None of the properties is inductive alone. The invariant adds what
each party relies on while the other moves. `ParentInv`: between the check of
`num_threads` and the increment the count stays below the limit, since only the
process changes it; a join that has given up looks at a thread that is dead and
stays dead. `EntriesInv`: an entry with status 0 names nobody unless it is being
filled. `StoringInv`: a thread between finding its entry and writing status 2
still owns it, because a join takes an entry only after status 2 or after the
thread's death. `CountInv` leaves the entry being filled out of the count: a
thread that the timer started too early (`threads_nap`) may already have set its
status. With `CountInv`, `note_pid` always finds a free entry. Process sleep is
included, so the lost value of `threads_nap` is not a corruption of either table.

`LibraryInv` says what binds an entry to its thread. It holds only if the
process does not sleep while it has threads, since `do_clone` copies
`ticks_to_sleep` and the timer then starts a thread whose entry is half written
(`threads_nap` shows that this happens). Every thread in the kernel's table, apart from the
one being created, has an entry, and only one (`EnteredInv`, `NamedOnceInv`); an
entry with status 1 names such a thread, unless the join that will clear it has
just reaped it (`NamedInv`); the thread being created waits, without ticks
(`FillingInv`); no stack is in two entries (`StacksInv`). A join that waits needs that no
second entry has its pid (`WaitInv`): a context is used again under the
same pid. That clone finds a context is then counted: an injection
takes the contexts in use, apart from those joined too early, to entries.
For the refinement `ValueInv` adds that an entry's value is the thread's from
`store_value` on and NULL before, and every step is shown to change at most
the outcome of one entry.

**ThreadMem.** `RightsInv` says of every mapped area that the entry of its whole
pages is one that the flag allows for the *current* context, which both handlers
restore: the fault handler for the page it touches, the switch handler for all
pages at once. The handler of the switch leaves last pages alone, so for them only
`none` and `rw` are possible. That areas of a dead thread are gone, in both tables and in
the page table, is needed for the next owner of the address.

**Debugger.** The bytes, the list, the child's stack and the shadow stack hold together.
`Control` places child and debugger: one of them runs, and a debugger that waits has
nothing left to answer. `Pointers` and `Returns` describe the child's stack as
frames of two words, in every phase of a call, each saved base pointer naming
the frame below, each return address a call site or the end handler.
`ShadowMatchesFrames` compares the shadow stack with the frames
that return to the end handler, in order: a call adds to both ends, a return takes from
both, and removing a breakpoint, or setting or clearing its flag, changes neither.
For the refinement the abstract frames are read off both stacks: the
frame at depth `i` takes its return address from the shadow stack at the *rank*
of `i` among the replaced ones (`RankIn`). The walk of `do_backtrace` over saved
base pointers is a recursive function; its values have a closed form
(`BaseFound`), it ends at the first frame, and what it collects is the trail of
the abstract frames.

**Scheduler.** The loop of `pick_next_context` is also a recursive function. `Distance` is the
number of turns the loop has left at a context: the current one comes last
before it gives up (`Distances`, `FoundTurns`). So the loop finds the ready
context with the greatest distance, or the swapper (`PickIsFound`), and `OneRuns`
follows with the types. `ExitedStayGone` is proved action by action: a tick wakes
sleepers only, which are in use; a fork takes a context out of `gone`; the others
change the states of two contexts, which the property names. That nothing else is in
use at the shutdown, and that a context is in use until then, is its first part.

**Tournament.** Nothing in the code keeps the host or the other group away from a
team's pipes, whose ends every process has. That nobody takes another's
message is a fact about the *order* of play: the host starts when both groups have
ended, a group plays only its own members, and a team that was told to stop is in no
later match. The invariant says so (`GroupOK`, `HostOK`, `DismissedOK`) and gives the
three states a team's pipes may be in: silent, asked, answered (`PipesOK`). `AskedKeeps`
carries it through a step that reads one answer and writes to up to two teams. The
leader is chosen by a loop over the members, and the wins of a group are a sum, both
folds; they are reasoned about through sets instead: the sum is the size of the set
`Points`, the loop returns the first member with the most wins (`LeaderIsBest`), each
by induction over subsets of the group (`SubsetsInductive`). At a match between
members `a < b` twice the wins are `Earlier(a, b)`, so the nested loops over pairings count
every match once, for any group size. `MatchIsDecided` needs that batting and bowling side are
always the two sides of the match (`SidesOK`), through the toss and the change of innings, and
that while an innings lasts the balls counted are those its loop counters stand for
(`CountsOK`); what they are once it is over depends on which loop ended it.

Induction here is a lemma about a set of numbers (`Inductive`, from the
library's well-founded sets), which the provers can use where a theorem about an
operator is out of reach; a function's recursive definition is met
by exhibiting the function.

Model-checked only:

* liveness (`JoinReturns`, `WaitReturns`, `NoStarvation`, `Finishes`, `Ends`) and the
  fairness under which it holds: out of the prover's reach;
* `Archive`: that what is stored is read back is a fact about whole archives
  built and walked record by record, that is, induction over data;
* `TestPrograms`: the programs are finite lists of calls, and running them *is*
  the proof.

## 5. Not modelled

* `root`, `square` and `double` of `A1/Part1`: three sequential programs of one
  arithmetic step and one exec each. `root` rounds a double to an integer twice
  (root.c:19), which a unit test reaches.
* The bounds check of user buffers, page allocations that fail, formats of printing,
  console, keyboard and serial drivers, the shell, boot and headers.
* Alarms, `do_expand` and the dispatch of system calls in entry.c; the page
  tables, files and registers a clone copies (it copies the table of open files without raising
  the reference counts, clone_threads.c:96).
* Fork by a process that is not a debugger lives in `cfork.o`; only its effect on
  tables is modelled, in `Pipe`, `PPipe`, `FileTable` and `Scheduler`.
* What exists only as object files.
