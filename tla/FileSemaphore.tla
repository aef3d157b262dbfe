---------------------------- MODULE FileSemaphore ----------------------------
(***************************************************************************)
(* task08/main.c and task10/main.c: a parent that writes numbers into      *)
(* numbers.bin and a child that reads them, excluded from each other by a  *)
(* semaphore.  A pipe goes the other way: the child writes a number into   *)
(* it before each turn, the parent reads one after each turn, both without *)
(* the semaphore, so that the child paces the parent.                      *)
(*                                                                         *)
(* The programs are the same but for the semaphore.  That of task08 is a   *)
(* System V one of the run's own.  That of task10 is named: sem_open       *)
(* creates it with the value 1 or finds it as an earlier run left it, and  *)
(* nothing ever unlinks it.  Runs that are up together share the file, and *)
(* in task10 the semaphore.                                                *)
(***************************************************************************)
EXTENDS Integers, FiniteSets

CONSTANTS Run,         \* the runs of the program
          PipeCap      \* how many numbers a pipe holds

ASSUME RunAssumption == IsFiniteSet(Run) /\ PipeCap \in Nat \ {0}

Parents  == Run \X {"parent"}
Children == Run \X {"child"}
Proc     == Parents \cup Children

VARIABLES api,     \* which of the two programs this is
          sem,     \* the value of every semaphore, -1 while it does not exist
          file,    \* the run that emptied or wrote numbers.bin last, and which
          pipe,    \* of each run, how many numbers are in its pipe
          pc,      \* where each process is
          alive    \* the processes that are running

vars == <<api, sem, file, pipe, pc, alive>>

Named == "/task10"
SemOf(r) == IF api = "SysV" THEN r ELSE Named

(* The parent goes off, first, second, fork, and round wait, write, post,  *)
(* pipe; the child off, and round pipe, wait, open, read, post.            *)

Init ==
  /\ api \in {"SysV", "POSIX"}
  /\ sem = [s \in Run \cup {Named} |-> -1]
  /\ file = <<"nobody", "empty">>
  /\ pipe = [r \in Run |-> 0]
  /\ pc = [p \in Proc |-> "off"]
  /\ alive = {}

Goto(p, from, to) ==
  /\ p \in alive
  /\ pc[p] = from
  /\ pc' = [pc EXCEPT ![p] = to]

-----------------------------------------------------------------------------
(* main(), started in a shell. *)
Start(r) ==
  /\ pc[<<r, "parent">>] = "off"
  /\ pc' = [pc EXCEPT ![<<r, "parent">>] = "first"]
  /\ alive' = alive \cup {<<r, "parent">>}
  /\ UNCHANGED <<api, sem, file, pipe>>

(* task08 makes its semaphore and then empties the file, task10 empties it *)
(* first; neither does so with the semaphore.                              *)
Setup(r, at) == Goto(<<r, "parent">>, at, IF at = "first" THEN "second" ELSE "fork")

open_file(r) ==
  /\ Setup(r, IF api = "SysV" THEN "second" ELSE "first")
  /\ file' = <<r, "empty">>
  /\ UNCHANGED <<api, sem, pipe, alive>>

(* IPC_PRIVATE and SETVAL: a semaphore nobody else has. *)
mutex_init(r) ==
  /\ api = "SysV" /\ Setup(r, "first")
  /\ sem' = [sem EXCEPT ![r] = 1]
  /\ UNCHANGED <<api, file, pipe, alive>>

(* Bug: every run sets the semaphore to 1. *)
sem_open_resets(r) ==
  /\ api = "POSIX" /\ Setup(r, "second")
  /\ sem' = [sem EXCEPT ![Named] = 1]
  /\ UNCHANGED <<api, file, pipe, alive>>

(* O_CREAT without O_EXCL: the initial value only counts if it is created. *)
sem_open(r) ==
  /\ api = "POSIX" /\ Setup(r, "second")
  /\ sem' = [sem EXCEPT ![Named] = IF @ = -1 THEN 1 ELSE @]
  /\ UNCHANGED <<api, file, pipe, alive>>

(* A fork that fails ends task08; task10 takes it for the parent's side of *)
(* one that did not.                                                       *)
Fork(r) ==
  LET p == <<r, "parent">>
      c == <<r, "child">>
  IN  /\ p \in alive /\ pc[p] = "fork"
      /\ \/ /\ pc' = [pc EXCEPT ![p] = "wait", ![c] = "pipe"]
            /\ alive' = alive \cup {c}
         \/ /\ api = "SysV"
            /\ alive' = alive \ {p}
            /\ UNCHANGED pc
         \/ /\ api = "POSIX"
            /\ pc' = [pc EXCEPT ![p] = "wait"]
            /\ UNCHANGED alive
      /\ UNCHANGED <<api, sem, file, pipe>>

-----------------------------------------------------------------------------
(* parent() and child(). *)

(* mutex_lock() is one semop by -1, mutex_unlock() one by +1. *)
Wait(p) ==
  LET s == SemOf(p[1])
  IN  /\ Goto(p, "wait", IF p \in Parents THEN "write" ELSE "open")
      /\ sem[s] > 0 /\ sem' = [sem EXCEPT ![s] = @ - 1]
      /\ UNCHANGED <<api, file, pipe, alive>>

(* Bug: the child does not post. *)
PostMissing(p) ==
  /\ Goto(p, "post", "pipe")
  /\ sem' = [sem EXCEPT ![SemOf(p[1])] = IF p \in Children THEN @ ELSE @ + 1]
  /\ UNCHANGED <<api, file, pipe, alive>>

Post(p) ==
  /\ Goto(p, "post", "pipe")
  /\ sem' = [sem EXCEPT ![SemOf(p[1])] = @ + 1]
  /\ UNCHANGED <<api, file, pipe, alive>>

WriteFile(p) ==
  /\ p \in Parents
  /\ Goto(p, "write", "post")
  /\ file' = <<p[1], "number">>
  /\ UNCHANGED <<api, sem, pipe, alive>>

(* Bug: the child opens the file with O_TRUNC. *)
OpenFileTruncated(p) ==
  /\ p \in Children
  /\ Goto(p, "open", "read")
  /\ file' = <<p[1], "empty">>
  /\ UNCHANGED <<api, sem, pipe, alive>>

OpenFile(p) ==
  /\ p \in Children
  /\ Goto(p, "open", "read")
  /\ UNCHANGED <<api, sem, file, pipe, alive>>

(* task08 sleeps a second before it unlocks. *)
ReadFile(p) ==
  /\ p \in Children
  /\ Goto(p, "read", "post")
  /\ UNCHANGED <<api, sem, file, pipe, alive>>

(* Bug: the parent keeps a write end, so the pipe never ends. *)
ReadPipeEndless(r) ==
  /\ Goto(<<r, "parent">>, "pipe", "wait")
  /\ pipe[r] > 0 /\ pipe' = [pipe EXCEPT ![r] = @ - 1]
  /\ UNCHANGED <<api, sem, file, alive>>

(* read() returns 0 once the child, the only writer, is gone or never was. *)
ReadPipe(r) ==
  /\ Goto(<<r, "parent">>, "pipe", "wait")
  /\ \/ pipe[r] > 0 /\ pipe' = [pipe EXCEPT ![r] = @ - 1]
     \/ pipe[r] = 0 /\ <<r, "child">> \notin alive /\ UNCHANGED pipe
  /\ UNCHANGED <<api, sem, file, alive>>

(* write() waits for room in the pipe. *)
WritePipe(r) ==
  /\ <<r, "parent">> \in alive
  /\ Goto(<<r, "child">>, "pipe", "wait")
  /\ pipe[r] < PipeCap /\ pipe' = [pipe EXCEPT ![r] = @ + 1]
  /\ UNCHANGED <<api, sem, file, alive>>

(* Without a reader of the pipe SIGPIPE kills the child. *)
BrokenPipe(r) ==
  /\ <<r, "child">> \in alive /\ <<r, "parent">> \notin alive
  /\ pc[<<r, "child">>] = "pipe"
  /\ alive' = alive \ {<<r, "child">>}
  /\ UNCHANGED <<api, sem, file, pipe, pc>>

(* Killed, or ended by an error: nothing gives the permit back. *)
Die(p) ==
  /\ p \in alive
  /\ alive' = alive \ {p}
  /\ UNCHANGED <<api, sem, file, pipe, pc>>

Parent(r) == LET p == <<r, "parent">>
             IN  open_file(r) \/ mutex_init(r) \/ sem_open(r) \/ Fork(r)
                 \/ Wait(p) \/ WriteFile(p) \/ Post(p) \/ ReadPipe(r)

Child(r) == LET p == <<r, "child">>
            IN  WritePipe(r) \/ BrokenPipe(r) \/ Wait(p) \/ OpenFile(p)
                \/ ReadFile(p) \/ Post(p)

Next == \/ \E r \in Run : Start(r) \/ Parent(r) \/ Child(r)
        \/ \E p \in Proc : Die(p)

Spec == Init /\ [][Next]_vars

(***************************************************************************)
(* The kernel runs what has been started.  The waits are given strong      *)
(* fairness: semop performs the operation of a blocked process on its      *)
(* behalf as soon as the semaphore allows it, and in task10 both processes *)
(* sleep in every turn, so a waiter finds the semaphore free.              *)
(***************************************************************************)
Fairness == /\ \A r \in Run : WF_vars(Parent(r)) /\ WF_vars(Child(r))
            /\ \A p \in Proc : SF_vars(Wait(p))

FairSpec == Spec /\ Fairness

-----------------------------------------------------------------------------
(* Between the return of a wait and the post. *)
Inside == {"write", "open", "read", "post"}

Holders(s) == {p \in Proc : SemOf(p[1]) = s /\ pc[p] \in Inside}

PermitLost(r) == ~(Holders(SemOf(r)) \subseteq alive)

(***************************************************************************)
(* From its creation on, over all the runs that use it, a semaphore has    *)
(* one permit: in it, or with one process of one run, dead or alive.       *)
(***************************************************************************)
OnePermit == \A s \in DOMAIN sem :
  IF sem[s] = -1 THEN Holders(s) = {} ELSE sem[s] + Cardinality(Holders(s)) = 1

(***************************************************************************)
(* Unless a process is killed with the semaphore, every run goes on        *)
(* writing, whatever runs came and went before: its parent's wait ends,    *)
(* and so does its read of the pipe, although the child that is to write   *)
(* into it may be waiting for the semaphore, or be gone, or never have     *)
(* been forked.                                                            *)
(***************************************************************************)
RunGoesOn ==
  \A r \in Run :
    LET p == <<r, "parent">>
    IN  pc[p] \in {"fork", "pipe"} ~> (pc[p] = "write" \/ p \notin alive \/ PermitLost(r))

(***************************************************************************)
(* The child always comes to read the file again, behind a full pipe or a  *)
(* taken semaphore, unless it or its parent has died, or the permit with   *)
(* a process of another run.                                               *)
(***************************************************************************)
ChildServed ==
  \A r \in Run :
    pc[<<r, "child">>] = "pipe"
      ~> (pc[<<r, "child">>] = "read" \/ ~({r} \X {"parent", "child"} \subseteq alive) \/ PermitLost(r))

(***************************************************************************)
(* A child whose parent has had its turn and waits for the pipe does not   *)
(* find the file empty, unless another run emptied it when it started,     *)
(* which every run does without the semaphore.                             *)
(***************************************************************************)
FileFilled ==
  \A r \in Run : /\ pc[<<r, "child">>] = "read" /\ pc[<<r, "parent">>] = "pipe"
                 => file[2] = "number" \/ file[1] # r
=============================================================================
