---------------------------- MODULE Task11Program ----------------------------
(***************************************************************************)
(* task11/main.c: writers and readers of numbers.bin, each a process, over *)
(* the lock of task11/rwlock.c.  main() holds the write lock while it      *)
(* forks them.  After each of its turns the first reader writes a number   *)
(* into a pipe that the first writer reads after each of its own; both do  *)
(* so outside the lock.  Every process inherits both ends of the pipe and  *)
(* closes those it does not use, so that the survivor of the pair is told  *)
(* when the other is gone.  A process that cannot open, read or write the  *)
(* file exits inside the lock.                                             *)
(***************************************************************************)
EXTENDS RwLockProgram

VARIABLES read_sem, write_sem, rdcount_sem,  \* the lock
          rdcount, loaded

Lock == INSTANCE PosixRwLock WITH Mortal <- {R0} \cup Faulty

lockVars == <<read_sem, write_sem, rdcount_sem, rdcount, loaded, pc, alive>>
vars     == <<lockVars, at, file, pipe>>

(* A process is "unborn" or "absent" (its fork failed), or in "boot" (it has *)
(* both ends of the pipe open), "top" of its loop, "work" (from the call of  *)
(* the lock to the access of the file), "opened", "unlock" or "leave" (from  *)
(* the call of the unlock on).                                               *)
Init ==
  /\ Lock!Init
  /\ at = [p \in Proc |-> IF p = Main THEN "top" ELSE "unborn"]
  /\ file = "empty"
  /\ pipe = 0

(* A step of a process in the code of the lock, called from main.c. *)
InLock(step) == step /\ UNCHANGED <<at, file, pipe>>

-----------------------------------------------------------------------------
(* main(): fork the writers, then the readers, close the pipe, unlock. *)

MainLock ==
  /\ Move(Main, "top", "work")
  /\ Lock!CallWriteLock(Main)
  /\ UNCHANGED <<file, pipe>>

(* The parent goes on alike whether fork returned a child or -1. *)
Fork(c) ==
  /\ pc[Main] = "writing" /\ at[Main] = "work"
  /\ c \in Reader => Unborn(Writer) = {}
  /\ \/ Move(c, "unborn", "boot")
     \/ c \in MayFail /\ Move(c, "unborn", "absent")
  /\ UNCHANGED <<lockVars, file, pipe>>

(* Bug: main() goes on before the readers are forked. *)
MainClosePipeEarly ==
  /\ pc[Main] = "writing"
  /\ Unborn(Writer) = {}
  /\ Move(Main, "work", "unlock")
  /\ UNCHANGED <<lockVars, file, pipe>>

MainClosePipe ==
  /\ pc[Main] = "writing"
  /\ Unborn(Children) = {}
  /\ Move(Main, "work", "unlock")
  /\ UNCHANGED <<lockVars, file, pipe>>

-----------------------------------------------------------------------------
(* writer() and reader(). *)

CloseEnds(c) ==
  /\ Move(c, "boot", "top")
  /\ UNCHANGED <<lockVars, file, pipe>>

LockFile(p) ==
  /\ p # Main
  /\ Move(p, "top", "work")
  /\ IF p \in Writer THEN Lock!CallWriteLock(p) ELSE Lock!CallReadLock(p)
  /\ UNCHANGED <<file, pipe>>

WriteFile(p) ==
  /\ p # Main /\ pc[p] = "writing"
  /\ Move(p, "work", "unlock")
  /\ file' = p
  /\ UNCHANGED <<lockVars, pipe>>

(* Bug: the file is opened before the lock. *)
OpenFileEarly(p) ==
  /\ Move(p, "work", "opened")
  /\ UNCHANGED <<lockVars, file, pipe>>

OpenFile(p) ==
  /\ pc[p] = "reading"
  /\ Move(p, "work", "opened")
  /\ UNCHANGED <<lockVars, file, pipe>>

ReadFile(p) ==
  /\ Move(p, "opened", "unlock")
  /\ UNCHANGED <<lockVars, file, pipe>>

UnlockFile(p) ==
  /\ Move(p, "unlock", "leave")
  /\ IF p \in Writer THEN Lock!CallWriteUnlock(p) ELSE Lock!CallReadUnlock(p)
  /\ UNCHANGED <<file, pipe>>

(* errExit between the lock and the unlock: the lock is not given back. *)
Fail(p) ==
  /\ p # Main /\ AtFile(p)
  /\ Lock!Die(p)
  /\ UNCHANGED <<at, file, pipe>>

(* The processes that have an end of the pipe open. *)
HasBothEnds(p) == \/ p = Main /\ at[p] \in {"top", "work"}
                  \/ at[p] = "boot"

(* Bug: the first writer and the first reader keep both ends open. *)
WriteEndsKept == {p \in alive : HasBothEnds(p) \/ (p \in {W0, R0} /\ at[p] # "absent")}
ReadEndsKept  == {p \in alive : HasBothEnds(p) \/ (p \in {W0, R0} /\ at[p] # "absent")}

WriteEnds == {p \in alive : HasBothEnds(p) \/ (p = R0 /\ at[p] # "absent")}
ReadEnds  == {p \in alive : HasBothEnds(p) \/ (p = W0 /\ at[p] # "absent")}

(* read() waits for a number, or for the last write end to be closed. *)
ReadPipe ==
  /\ OutsideLock(W0)
  /\ Move(W0, "leave", "top")
  /\ \/ pipe > 0 /\ pipe' = pipe - 1
     \/ pipe = 0 /\ WriteEnds = {} /\ UNCHANGED pipe
  /\ UNCHANGED <<lockVars, file>>

(* write() waits for room; with no read end left SIGPIPE kills the writer. *)
WritePipe ==
  /\ OutsideLock(R0)
  /\ ReadEnds # {} /\ pipe < PipeCap
  /\ Move(R0, "leave", "top")
  /\ pipe' = pipe + 1
  /\ UNCHANGED <<lockVars, file>>

BrokenPipe ==
  /\ OutsideLock(R0)
  /\ at[R0] = "leave" /\ ReadEnds = {}
  /\ Lock!Die(R0)
  /\ UNCHANGED <<at, file, pipe>>

Sleep(p) ==
  /\ p \notin {Main, W0, R0}
  /\ OutsideLock(p)
  /\ Move(p, "leave", "top")
  /\ UNCHANGED <<lockVars, file, pipe>>

-----------------------------------------------------------------------------
(* A step of the lock's own code; its calls are made by the actions above. *)
LockStep(p) ==
  InLock(IF p \in Writer
         THEN \/ Lock!CloseGate(p) \/ Lock!EnterWrite(p)
              \/ Lock!OpenGate(p) \/ Lock!LeaveWrite(p)
         ELSE \/ Lock!WaitGate(p) \/ Lock!PostGate(p) \/ Lock!LockCount(p)
              \/ Lock!LoadCount(p) \/ Lock!CountIn(p) \/ Lock!FirstReader(p)
              \/ Lock!EnterRead(p) \/ Lock!RelockCount(p) \/ Lock!ReloadCount(p)
              \/ Lock!CountOut(p)
              \/ Lock!LastReader(p) \/ Lock!LeaveRead(p))

Turn(p) == \/ CloseEnds(p) \/ LockFile(p) \/ LockStep(p)
           \/ p \in Writer /\ WriteFile(p)
           \/ p \in Reader /\ (OpenFile(p) \/ ReadFile(p))
           \/ UnlockFile(p) \/ Sleep(p)

(* After a failure all may come to wait for the lock: no deadlock to report. *)
Stuck == Failed # {} /\ UNCHANGED vars

Next == \/ MainLock \/ (\E c \in Children : Fork(c)) \/ MainClosePipe
        \/ \E p \in Proc : Turn(p)
        \/ ReadPipe \/ WritePipe \/ BrokenPipe
        \/ (\E p \in Faulty : Fail(p)) \/ Stuck

Spec == Init /\ [][Next]_vars

(***************************************************************************)
(* Every process that can go on does.  The waits of the lock are given     *)
(* strong fairness: between two turns every process sleeps for seconds,    *)
(* so a waiter is not beaten to each semaphore for ever.                   *)
(***************************************************************************)
Fairness ==
  /\ WF_vars(MainLock \/ (\E c \in Children : Fork(c)) \/ MainClosePipe)
  /\ \A p \in Proc : WF_vars(Turn(p)) /\ SF_vars(LockStep(p))
  /\ WF_vars(ReadPipe) /\ WF_vars(WritePipe \/ BrokenPipe)

FairSpec == Spec /\ Fairness

-----------------------------------------------------------------------------
(***************************************************************************)
(* Nothing is written before every child has been forked: the write lock   *)
(* main() holds makes them start together, though each runs as soon as it  *)
(* is born.                                                                *)
(***************************************************************************)
StartTogether == file # "empty" => Unborn(Children) = {}

(***************************************************************************)
(* The first writer never waits for ever for a number: either the first    *)
(* reader gets its turn and sends one, or, when it was never forked, every *)
(* other copy of the write end is closed and read() returns 0.  Only a     *)
(* process that exits inside the lock may keep it waiting.                 *)
(***************************************************************************)
PipeReadReturns == at[W0] = "leave" ~> (at[W0] = "top" \/ Failed # {})

(***************************************************************************)
(* The first reader, faster than the first writer, is not stuck behind a   *)
(* full pipe: the writer gets the lock and then reads, or is gone and the  *)
(* reader is killed; unless a process has exited inside the lock.          *)
(***************************************************************************)
PipeWriteReturns ==
  at[R0] = "leave" ~> (at[R0] = "top" \/ R0 \notin alive \/ Failed # {})
=============================================================================
