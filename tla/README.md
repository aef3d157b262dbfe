# A verification of the eltex_module_3 exercises

The repository holds eighteen small C programs about processes, signals, pipes,
message queues, semaphores, shared memory and sockets.  It has no document and no
test of its own, so the code is the only reference: what each program promises is
read from its structure, its prompts and what it prints.  This directory models the
programs whose correctness depends on how several processes interleave, checks the
models with TLC on small instances and proves the most important invariants with
TLAPS for every value of the constants.

1. [Inventory](#1-inventory)
2. [Modules](#2-modules)
3. [Runs](#3-runs)
4. [Proofs](#4-proofs)
5. [What is not modelled](#5-what-is-not-modelled)
6. [Plan](#6-plan)

## 1. Inventory

Every task is a program, or two, of its own; nothing is shared between tasks but the
macro `errExit` of `common.h` (print and exit), so the interactions are those between
the processes of one task.

| task | what it does | state | who interacts, and how | what is hard |
|---|---|---|---|---|
| 01 | squares the numbers of its arguments in two processes | the arguments | parent and child, nothing shared | `parse_number` weights the digits from the left |
| 02 | runs commands of a line by `execve`; `sum` adds its arguments | none | parent waits for child | as task01 |
| 03 | contact book: sorted list, read from and written to a file | a doubly linked list, a file | one process; the file links its runs | stale tail of the file, an uninitialised `next` |
| 04 | child reads numbers the parent writes into a pipe | a pipe | parent, child | end of file |
| 05 | parent writes a file, child reads it; SIGUSR1/2 pass the turn | a file, a pipe, a flag set by a handler | parent, child, by signals | signals merged, in either order, or handled before `pause()` |
| 06 | two programs converse by a System V message queue | the queue, named by a key | `proc1`, `proc2` | a removed queue, both receive everything, messages left by a run that was killed |
| 07 | the same by a POSIX message queue | the queue and its name | `proc1`, `proc2` | the queue outlives its name; priorities |
| 08 | parent writes a file, child reads it, under a mutex; a pipe paces the parent | one System V semaphore per run, a file all runs share, pipe | parent and child of every run | mutex and pipe in turns, death inside, a file another run empties |
| 09 | writers and readers of a file, a pipe between a pair of them | a set of four System V semaphores, file, pipe | `main` and its children | readers-writer lock in single `semop` vectors, start barrier, inherited pipe ends |
| 10 | as task08, by a named POSIX semaphore | the semaphore (it outlives the program), file, pipe | parent and child of every run | runs that overlap, a permit lost for good |
| 11 | as task09, by three POSIX semaphores and a counter in shared memory | those, file, pipe | `main` and its children | the interleaving of the lock's own steps |
| 12 | parent fills a series, child computes its extrema, parent prints them | shared buffer with its semaphore and a flag | parent, child, SIGINT | flag set before the work, `sem_destroy` by whoever is first |
| 13 | the same, by named shared memory | the same | the same | names shared by runs |
| 14 | two programs converse by UDP | two sockets | `proc1`, `proc2` | loss, no timeout |
| 15 | calculator server, a process per client | one socket per client | server child, client | who waits for what; a client that is killed or a server that is gone |
| 16 | calculator and file server, a process per client | one socket per client | server child, client | a file's end is a mark in the stream, which reads cut anywhere; `break` out of the switch only |
| 17 | writes raw UDP packets to a file | a raw socket | none | none |
| 18 | calculator server, one process, epoll | the connections and their state machines | server, clients, kernel | edge-triggered events, freed connections, resets |

What makes each of them correct, in a sentence:

* **Locks (09, 11).** Readers and a writer are never inside together, whoever dies; no
  permit is lost or made; the counter and the semaphores agree with who is inside;
  nobody who was promised entry waits for ever.
* **Programs over the locks (09, 11).** The children start together; what a reader
  opened it reads unchanged; the pipe hangs nobody, also when one of its users was
  never forked; when a process exits at the file, with the lock, nobody gets at the
  file whom it would have kept out.
* **Series (12, 13).** What is printed are the extrema of the series last filled; each
  series is computed; Ctrl-C ends both; nobody is blocked on a destroyed semaphore.
* **File and pipe (08, 10).** One permit per semaphore, over all the runs that use it;
  pipe and semaphore do not block one another; a run goes on whatever came before,
  unless a process was killed inside; a child does not find empty what its parent wrote.
* **File and pipe by signals (05).** One turn passes between the two, however late the
  signals come; the parent is not kept waiting.
* **Contact book (03).**  The list is in order; what was saved is read again, what was
  removed is not.
* **Servers that fork (15, 16).** Question and answer stay in step; a file arrives whole
  and ends where it ends; a client that waits gets on; the process of a client that is
  gone ends.
* **Queues (06, 07).** One turn per queue, unless a program is killed without its turn
  and started again; nobody waits for a peer that has said `exit`.
* **Epoll server (18).** No event outlives its connection; results belong to what
  was typed; no event is lost; a client does not take the server down.

PROJECT.json lists the hazards behind these, each at the line where it bites.

## 2. Modules

Each component is one module; `MC<module>` extends it for TLC with the constants of
`<module>.cfg`.  A definition named `...` with the comment *Bug:* is not used by any
specification: it is a plausible mistake in the definition that follows it, kept to
show that the properties can tell the difference.  Names follow the source: the
variables are its variables, an action is its function or the statement it models.

**SharedFile** is what the programs of tasks 09 and 11 promise of `numbers.bin`, with no
lock in it: a file that readers open and close and writers write, where nobody writes
what a reader has open, and a process that fails at the file keeps it for good.  Both
programs are shown to implement it.

**PosixRwLock** (`task11/rwlock.c`).  Variables are the three semaphores and the
counter, and for each process its program counter and what it has loaded.  Each
`sem_wait`, `sem_post`, load and store is an action, so the model interleaves
wherever the code can.  `read_sem` is a gate, `write_sem` the ownership, `rdcount_sem`
guards the counter.  `Die` kills a process of `Mortal` anywhere, as
`kill_processes.sh` does.

**SysVRwLock** (`task09/rwlock.c`).  Each operation is one `semop` on a vector, which
the kernel performs all together or not at all, hence one action each (and one for
the call, so that a process may be blocked in it).

**Task11Program, Task09Program** (`main.c` of the two) extend **RwLockProgram**, which holds
what the two have in common (the processes, the file, the pipe, who is outside the lock), and
compose with the lock by `Lock == INSTANCE ...`, sharing its variables: `at` says where a
process is in `main.c` and `pc` where it is in the lock.  `main` takes the write lock, forks (a fork
may fail for the children in `MayFail`: the code does not notice), unlocks and returns;
in task11 it has closed the pipe before, in task09 only its exit does.
A child of `Faulty` may find that it cannot open, read or write the file and exits (`Fail`),
which in the code is between the lock and the unlock (`task11/main.c:87`,
`task09/main.c:108`), so it takes its part of the lock with it; `Failed` are those that did.
`FileShared` is SharedFile with the readers that have the file open and `Failed` put in.
The children inherit both ends of the pipe; `WriteEnds` and `ReadEnds` are the
processes that hold an end, which decide whether `read` returns 0 and `write` kills.

**SeriesExtrema** (`task12/main.c`, and `task13/main.c` which is the same but for the
name of its memory).  The struct is modelled field by field and number by number, so
that filling, scanning and printing are loops of steps between which a signal or the
other process may come.

**FileSemaphore** (`task08`, `task10`).  `api` says which of the two programs it is:
their loops are the same step by step, and what differs is the semaphore.  A run of
task08 makes one of its own (`mutex_init`); a run of task10 creates or finds the one
named by all runs (`sem_open`), which nothing unlinks; `sem[s] = -1` before it is
made.  Runs start at any time, share `numbers.bin` and may be killed anywhere.

**SignalFile** (`task05`).  `pending` is the set of signals the kernel has for the child
(a signal sent twice is one), `Handle` runs the handler for all of them, in either order,
wherever the child is.  `vain` remembers that a SIGUSR2 was undone by a SIGUSR1
handled after it, or came before the child had called `pause()`.

**ForkServer** (`task15`, `task16`).  One conversation, since conversations share
nothing: `srv` is what the server's process does and for which request, `cli` what the
client does, `down` and `up` the two directions.  A request or an answer is one token;
a file is a sequence of bytes that differ only in whether they belong to the mark
`"\r\n"`, sent in pieces of `BufSize` and read in pieces of any size.  What the client does
when it takes bytes of a file for a request, or reads 0 bytes, is `astray`: it reads on
anywhere and answers anything, until it leaves or finds the server gone.

**MsgQueue** (`task06`, `task07`).  `api` says which of the two.  `queues` are all the
queues ever made and `name` the one that the key or name stands for, so that both ways
of removing a queue can be told apart.  Neither program handles a signal, so `Kill` ends
one at any point (Ctrl-C while it waits in `msgrcv`, say); the queue stays with its messages
and its name, and both programs may be started again at any time.  `behind` is a history
variable, which no action reads but `Kill` for its bound: how often each was killed on
each queue with something left behind (`LeavesBehind`), which the two properties need to
say what such a kill leads to.

**Contacts** (`task03`).  `list` holds the contacts that are properly linked and `tail`
the link of the last of them: `contacts_add` does not set it, so it is what `malloc`
returned, NULL in fresh memory and anything in memory that was freed (`freed` counts
it).  An option that walks past a wild link ends the run (`WalkOff`), and so `contacts.c:113`
is modelled but no property claims that it never happens: it does.  `contacts_read` and
`Insert` are functions, so that a property can say what the *next* run will read.

**EpollServer** (`task18`).  `up` and `down` are the two directions of a connection,
`link` what the server's kernel knows of it, `ready` the ready list of epoll, `batch`
what `epoll_wait` returned and is not handled yet.  `handle_conn_inner` with its macro
`MSG` becomes one action per write, read and transition, over a table (`Message`,
`Dest`, `Out`) of its four uses.  What `read` leaves in an uninitialised reply is a
nondeterministic choice (`Garbage`).

Kernel behaviour that the programs rely on (edge-triggered epoll, TCP links, a killed
client) is marked external in PROJECT.json.

## 3. Runs

| run | instance | what it shows |
|---|---|---|
| posix_lock | 3 readers, 2 writers, 3 of them mortal | `Exclusion`, `CounterExact`, `PermitsConserved`, `GateStopsNewcomers`, `GateHolderEnters` |
| sysv_lock | 3 readers, 2 writers, all mortal, barrier 2 | `Exclusion`, `SemaphoresAgree`, `ReaderEnters` |
| task11_program | main, 2 writers, 2 readers, all children faulty, pipe of 2 | `StartTogether`, `FileShared`, `PipeReadReturns`, `PipeWriteReturns` |
| task09_program | main, 2 writers, 3 readers, a writer and 2 readers faulty, barrier 2, pipe of 1 | `FileShared`, `PipeReadReturns` |
| series_extrema | series of 1 to 3 numbers out of 2 | `PrintedExtrema`, `NoneBlockedAtDestroy`, `EverySeriesComputed`, `Terminates` |
| file_semaphore | either task, 2 runs, pipe of 1, all mortal | `OnePermit`, `FileFilled`, `RunGoesOn`, `ChildServed` |
| signal_file | both mortal | `OneAtATime`, `ParentGoesOn` |
| fork_server | either task, files of up to 3 bytes, buffer of 2, socket of 3 | `InStep`, `WholeFile`, `ClientGoesOn`, `ChildEnds` |
| msg_queue | either task, 2 queues of 2 messages, 2 counted kills of each on each | `OneTurn`, `PeerEnds` |
| epoll_server | 2 clients | `NoUseAfterFree`, `OneUnderWay`, `ResultOfTyped`, `NoHangup`, `ServerSurvives`, `Served` |
| contacts | 3 names, 2 values of the other fields | `Sorted`, `NothingLost` |
| contacts_removed | 3 names | that `RemovedStaysRemoved` does **not** hold |

Type invariants are proved (`TypeOK` in the modules with proofs) and not run.  Each
property that holds has a mutant in PROJECT.json, a change to one definition that
breaks it.

*Bounds.*  The first reader, the last reader and one in between are three; the writer
inside and one that waits are two.  A barrier of two with three readers is full and
is waited for.  A pipe of one or two numbers is empty, partly filled and full; the
kernel's 64 KiB only make it longer to fill.  Series of one, two and three numbers
of two values contain every order of ties, rising and falling pairs; the array has one
cell more than the longest series, as in the code.  Two runs of task08 or
task10 exhaust what overlaps (a third would share the same semaphore and file), and
the proof of `OnePermit` is for any number.  A file of three bytes with a buffer
of two is sent in two pieces, which the socket of three may join with the mark; so the
mark comes whole, cut in two, behind a piece or alone, and a file ends in its first
byte, in both or in none.  A queue of task06/07 is replaced
when it is removed, so with two of them a program may still use the first when the other
makes the second, whose name the first user then takes away.  With two kills of `proc2`
without its turn a queue has up to three turns: both messages that fit are in it, the
third is written by one that must wait for room, and both programs prompt at once.  Kills
that leave nothing behind, and starts, have no bound.  The proof of `OneTurn` has none at
all.  Three contacts have a first, a middle and a last.  Two clients
are enough for an event of one to be handled between two of the other;
`MAX_EVENTS` above the number of connections is the code's case (ten).

*Fairness.*  Weak fairness of every process that can take a step: the kernel runs it.
Nothing makes a user type, a client leave, a signal come or a process die.  Strong
fairness is assumed of a wait only where the code gives its reason: `semop` performs
the operation of a blocked process on its behalf as soon as it can, and the
processes of tasks 08 to 12 sleep for seconds between their turns, so a waiter is not
beaten for ever.  In task05 a signal that is pending is handled.  The servers' processes and
the clients run; the user of either may never answer.  No strong fairness is assumed of `PosixRwLock`'s waits by
themselves: `GateHolderEnters` holds without it.  In task12 the child does *not* sleep, and
the parent gets the semaphore only by luck; `EverySeriesComputed` assumes that luck
(`BusySpec`) and says so.  A writer of task09 may starve behind readers that overlap,
since the turnstile is taken and put back in one `semop`; no property claims otherwise.

*Deadlock* is checked for the two programs over the locks, which never may stop unless a
process has exited inside the lock; then all may come to wait for it, which `Stuck` allows.
Elsewhere the system may: when processes were killed inside, when everything has
ended, or when the bound is reached.

*What the runs say of the code.*  `RemovedStaysRemoved` fails: `contacts_write` opens the file
without `O_TRUNC` (`task03/contacts.c:19`), so a contact of which the user was told "contact
removed" is back at the next start, or is found twice and the program never starts
again.  Every other property holds.  Some are conditional on purpose, and what they
leave out is a limit of the code:

* `ServerSurvives`: a client killed between the arrival of a question and its read ends
  the server of task18, for every client: a failed `read` in `conn.c:42` is not told from
  a reply and the next `write` raises SIGPIPE.
* `PipeReadReturns`, `PipeWriteReturns`: a process of task09 or task11 that exits at the file
  takes the lock along (there is no SEM_UNDO), and others then wait for ever.
* `NoneBlockedAtDestroy`: nobody is blocked on the semaphore that the first to end destroys
  (`task12/main.c:63`); that the other may hold it, or be about to wait, is not excluded.
* `FileFilled` starts with the parent's write: before it a child may find the file empty, and
  a run of task08 or task10 that starts empties the file of another without the semaphore.
* `OneTurn`: Ctrl-C of `proc2` while it waits in `msgqueue_recv` (`task06/msgqueue.c:30`,
  `task07/msgqueue.c:33`), and a new start, bring a second turn: both programs then prompt on
  one queue, or a message of the earlier run is answered.  `OneTurn` counts such kills
  and says that nothing else makes a turn.
* `PeerEnds`: nobody tells the peer of a program that ends at the end of its input, or is
  killed; and after a kill that left a turn or an "exit" behind nothing is claimed for that
  queue.
* `ParentGoesOn`: when a SIGUSR2 is handled in vain (`task05/main.c:111`), both processes
  wait for ever.
* `ClientGoesOn`: the client of task16 looks for the mark in what one `read` returned.  When
  a read ends between the two bytes of the mark, as with a file one byte short of a
  multiple of the buffer, the client waits for ever; and when the file does not exist the
  server is gone and the client writes empty pieces for ever.
* `InStep` and `WholeFile`: a file that has the mark inside may end there for the client,
  which then takes the rest of it for requests.
* `ChildEnds` says that the server's process ends and not how: after a file `break`
  (`task16/server.c:124`) only leaves the `switch`, so a client that quits is asked once
  more, and the process ends by the failure of that.

## 4. Proofs

Proved with TLAPS for all values of the constants under the assumptions named in the
modules (finite sets of readers, readers and writers disjoint, positive sizes):

* **PosixRwLockProofs.**  `TypeCorrect`, `AlwaysExclusive`, `CounterAlwaysExact`,
  `PermitsAlwaysConserved`, and the action property `NewcomersAlwaysStopped`.  None of these is
  inductive alone.  `IInv` adds: `read_sem` and `rdcount_sem` are mutexes of their
  holders (`Mutex`: the value is 1 with no holder, or 0 with exactly one);
  `write_sem` is 0 exactly when a writer or the readers as a group own it and never
  both (`WriteInv`); the reader about to give `write_sem` back, or about to take it, is
  the only one counted (`LastInv`); and what a process has loaded is the counter as
  it is now, since it holds `rdcount_sem` (`LoadedInv`).  Exclusion follows because a
  reader inside is counted and so the group owns `write_sem`, which the writer would
  need to own as well; newcomers are stopped because the gate has one permit, which the
  waiting writer holds.
* **SysVRwLockProofs.**  `TypeCorrect`, `SemaphoresAlwaysAgree`, `AlwaysExclusive`.
  `IInv` is `TypeOK`, `SemaphoresAgree` and `Exclusion`: the agreement of
  the semaphores with the numbers inside turns each guard of a `semop` into a
  statement about who is inside.
* **RwLockProgramProofs.**  Task11Program, for any number of children, whichever forks
  fail and whichever children fail at the file: `AlwaysStartTogether`, `UsesLock`,
  `AlwaysExclusive`, `FileAlwaysShared`; and Task09Program, as `Task09!...`, for `rmax > 0`:
  `Task09UsesLock`, `Task09AlwaysExclusive`, `Task09FileAlwaysShared`.  `UsesLock` is the
  composition: every step of the program is a step of the lock or leaves its variables
  alone, so the program inherits what PosixRwLockProofs and SysVRwLockProofs show of the
  lock with `Mortal` those that SIGPIPE or a failure at the file ends (in task09 also
  `main`, which returns), and with it exclusion among the writers and readers of the whole
  program, the dead included.  `FileAlwaysShared` shows that every step is one of SharedFile
  or a stutter.  `AtTheFile` says where in the lock those are that have the file open, and
  that whoever died did so outside the lock or at the file; `FileStep` is what the steps
  of either program do to file, place and life, so that one lemma (`FileStepShared`)
  serves both: with exclusion, one who writes is alone with the file and with those that
  died there.  For
  the start, `Forking` says what keeps the children back while one of them is still to be
  forked: either main has forked none and the gate is open, or main has shut the gate
  (`GateShut`) and every child is before it.
* **FileSemaphoreProofs.**  `PermitAlwaysOne`, `FileAlwaysFilled`, for any number of runs.
  Besides the permit, `IInv` says that a run that has not made its semaphore has nobody
  inside (`NotMadeYet`, `NotForkedYet`); `FilledInv` says the file is filled from the
  parent's write on.
* **SeriesExtremaProofs.**  `TypeCorrect`, `PrintsExtrema`, `DestroysUnblocked`, for
  series of any size and any range of numbers.  `MutexInv` says who has the semaphore,
  `ScannedInv(n)` what `min` and `max` are after n numbers (a loop invariant, with the
  lemma `ExtremaStep`), `SeriesInv`, `ChildInv` and `ComputedInv` what the flag means
  at each point of the two processes.
* **TurnProofs.**  The programs of which two take turns.
  - SignalFile: `AlwaysOneAtATime`.  The invariant is the one turn (`TurnPassed`): it is
    pending in a SIGUSR2, or with the child (which has tested the flag, or will find it
    0), or in the pipe, and in only one of them.
  - MsgQueue: `OneTurnAlways`, for any capacity and any number of queues, starts and kills.
    `OneTurn` is nearly inductive; `FreshFor2` adds that `proc2`, the one who speaks first,
    when it is not on the named queue finds no more turns there than it has left there by
    being killed, which is why starting it again makes no other.
  - ForkServer: `AlwaysInStep`, `AlwaysWholeFile`, for files, buffers and sockets of any size
    and every way of cutting the stream.  The invariant lists the situations: the server
    has the turn; it has asked and the request, the user or the answer is under way; a
    file is announced; it is on its way; it has arrived.  While it is on its way, `Flow`
    is an equation between sequences: what the client has taken, what is in the socket,
    and what the server has still to send with the mark behind it, are together the file
    and its mark.  A read, a piece and the mark move bytes from one of these to the
    next.  If the client stops at a mark, either nothing is left, so the file is whole,
    or the mark was inside the file (`HasMark`), which is the exception both properties
    make; `TooEarly` is what is left to say then until the client leaves the protocol.
    The lemmas are about concatenation, prefixes and where a mark may be.
* **EpollServerProofs.**  `AlwaysAllocated`, `AlwaysOneUnderWay`, `AlwaysResultOfTyped`,
  `NeverHangsUp`, `AlwaysSurvives`, for any number of clients.  `Conversation(c)` lists the
  few situations a client, its connection and the server's state for it can be in together
  (to ask, asked, answering, answered, quitting, finished), and what the two
  directions hold in each; `Events` says that ready, returned and handled events belong
  to connections that exist, that none is handled while it is still in the batch, and
  that a hang-up is reported only of a connection that was reset.
  All five properties can be read off it.
* **ContactsProofs.**  `AlwaysSorted` and the action property `NothingEverLost`, for any names
  and data and any number of runs.  `Place` says that the walk of `contacts_add` stops
  where the contact belongs, `InsertKeeps` that inserting there keeps the order and every
  contact; `RoundsExist` and `ReadKeeps` that `contacts_read`, a recursive function over the
  records, is defined for every file and, when it does not fail, returns a list in order
  with every record in it.  `NothingLost` then takes `OverwrittenType`: a shorter list
  written over a longer file leaves whole records behind it.

Proofs have one step per action and cite the facts they use; steps that leave a set
of processes alone, and how such a set changes when one process moves, are lemmas
(`AtStep` and those after it).

The library's induction rules take an operator as a parameter, which the provers cannot
instantiate.  Where a proof needs induction over data it is made by the least
counterexample: `LeastNat` (from `WFMin` and the order of the naturals) says that a set of
numbers that is not empty has a least one, and the set is that of the lengths for which
the statement fails.  `RoundsExist` and `ReadKeeps` are proved so, and `Place` uses the least
place at which the walk may stop.

TurnProofs extends three components, which is why their specifications have names of
their own (`SignalSpec`, `QueueSpec`, `ForkSpec`); RwLockProgramProofs extends
Task11Program and takes Task09Program by `INSTANCE`, over the same processes.

Every safety property and every action property of the runs is proved.  Only
model-checked is liveness (`GateHolderEnters`, `ReaderEnters`, `PipeReadReturns`,
`PipeWriteReturns`, `EverySeriesComputed`, `Terminates`, `RunGoesOn`, `ChildServed`,
`ParentGoesOn`, `ClientGoesOn`, `ChildEnds`, `PeerEnds`, `Served`): the prover has no rules for
fairness and ENABLED.  The other way round, exclusion in the programs
(`AlwaysExclusive`, `Task09AlwaysExclusive`) is only proved: it follows from what the runs
check of the locks.

## 5. What is not modelled

* `common.h`, `addr.c` and the setting up of shared memory are sequential and happen
  once, before anything is concurrent.  A failing call ends the process; where this
  matters later in the program it is a death.  In Task09Program and Task11Program processes
  die at the file, of the pipe or by returning; deaths anywhere else in the lock are those
  of the lock modules.
* Task04 is one writer and one reader of a pipe; task17 copies a socket to a file.
* Task14 is two loops of `recvfrom` and `sendto` in turn, without a timeout, a retry or a
  number in a datagram: after one that is lost both wait for ever, and before that
  the model would be that of one token.  It has no promise left to check.
* Tasks 01 and 02 are sequential but for a wait; `parse_number` weights the digits from the
  left (`task02/sum.c:36`), so only numbers that read the same both ways are summed
  right, and a model of it would only repeat that loop.
* Two runs of tasks 11 or 13 started together may open, truncate and unlink one shared
  memory by its name (`shared_mem.c`).  Nothing in the code is meant to prevent it, so
  there is no property to state; the models are those of one run.
* Text, numbers typed and printed, and what a message says are single values unless a
  property is about them.  In tasks 15,
  16 and 18 a question or an answer arrives in one piece; a file does not.
* `rwlock_destroy` (11), `mutex_destroy` (08) and what follows the endless loops of the
  processes are never reached.
* The kernel's limits (number of semaphore sets, queues, descriptors), and integer
  overflow of counters that are bounded by the number of processes.

## 6. Plan

Done: the locks, their programs and proofs; series; files under a semaphore or paced by
signals; the servers that fork; queues; epoll; contacts; proofs of every safety property
of all of these.  What is left:

1. **SharedMemory** (tasks 11, 13): runs that open, truncate and unlink one name, to say
   which of them may meet in one memory.
2. **EpollServer** with replies that arrive in pieces, which the code takes for two.
3. **ParseNumber** (tasks 01, 02): the digits' weights against the decimal value.
