---------------------------- MODULE Task09Program ----------------------------
(***************************************************************************)
(* task09/main.c: writers and readers of numbers.bin, each a process, over *)
(* the System V lock of task09/rwlock.c.  main() holds the write lock      *)
(* while it forks them and never closes the pipe: only its exit does.      *)
(* Each process sleeps before a turn; the first writer then reads a number *)
(* from the pipe, the first reader writes one, both outside the lock.  A   *)
(* process that cannot open, read or write the file exits inside the lock. *)
(***************************************************************************)
EXTENDS RwLockProgram

CONSTANT rmax   \* how many readers the lock lets in

ASSUME LockAssumption == rmax \in Nat \ {0}

VARIABLE sem    \* the lock

Lock == INSTANCE SysVRwLock WITH Mortal <- {Main, R0} \cup Faulty

lockVars == <<sem, pc, alive>>
vars     == <<lockVars, at, file, pipe>>

(* A process is "unborn" or "absent" (its fork failed), or in "boot" (it has *)
(* both ends of the pipe open), "sleep" (before its turn), "work" (from the  *)
(* call of the lock to the access of the file), "opened", "unlock" or        *)
(* "leave" (from the call of the unlock on).                                 *)
Init ==
  /\ Lock!Init
  /\ at = [p \in Proc |-> IF p = Main THEN "sleep" ELSE "unborn"]
  /\ file = "empty"
  /\ pipe = 0

-----------------------------------------------------------------------------
(* main(): fork the writers, then the readers, unlock, return. *)

MainLock ==
  /\ Move(Main, "sleep", "work")
  /\ Lock!CallWriteLock(Main)
  /\ UNCHANGED <<file, pipe>>

(* The parent goes on alike whether fork returned a child or -1. *)
Fork(c) ==
  /\ pc[Main] = "writing"
  /\ c \in Reader => Unborn(Writer) = {}
  /\ \/ Move(c, "unborn", "boot")
     \/ c \in MayFail /\ Move(c, "unborn", "absent")
  /\ UNCHANGED <<lockVars, file, pipe>>

MainUnlock ==
  /\ pc[Main] = "writing"
  /\ Unborn(Children) = {}
  /\ Move(Main, "work", "leave")
  /\ Lock!CallWriteUnlock(Main)
  /\ UNCHANGED <<file, pipe>>

MainReturn ==
  /\ at[Main] = "leave" /\ OutsideLock(Main)
  /\ Lock!Die(Main)
  /\ UNCHANGED <<at, file, pipe>>

-----------------------------------------------------------------------------
(* writer() and reader(). *)

CloseEnds(c) ==
  /\ Move(c, "boot", "sleep")
  /\ UNCHANGED <<lockVars, file, pipe>>

LockFile(p) ==
  /\ p # Main
  /\ Move(p, "sleep", "work")
  /\ IF p \in Writer THEN Lock!CallWriteLock(p) ELSE Lock!CallReadLock(p)
  /\ UNCHANGED <<file, pipe>>

(* Bug: the file is written while the lock is still waited for. *)
WriteFileEarly(p) ==
  /\ p # Main
  /\ Move(p, "work", "unlock")
  /\ file' = p
  /\ UNCHANGED <<lockVars, pipe>>

WriteFile(p) ==
  /\ p # Main /\ pc[p] = "writing"
  /\ Move(p, "work", "unlock")
  /\ file' = p
  /\ UNCHANGED <<lockVars, pipe>>

OpenFile(p) ==
  /\ pc[p] = "reading"
  /\ Move(p, "work", "opened")
  /\ UNCHANGED <<lockVars, file, pipe>>

ReadFile(p) ==
  /\ Move(p, "opened", "unlock")
  /\ UNCHANGED <<lockVars, file, pipe>>

UnlockFile(p) ==
  /\ Move(p, "unlock", "leave")
  /\ IF p \in Writer THEN Lock!CallWriteUnlock(p) ELSE Lock!CallReadUnlock(p)
  /\ UNCHANGED <<file, pipe>>

(* exit between the lock and the unlock: there is no SEM_UNDO. *)
Fail(p) ==
  /\ p # Main /\ AtFile(p)
  /\ Lock!Die(p)
  /\ UNCHANGED <<at, file, pipe>>

(* Bug: the first writer keeps both ends open. *)
WriteEndsKept == {p \in alive : \/ p = Main \/ at[p] = "boot"
                                \/ (p \in {W0, R0} /\ at[p] # "absent")}

(* The processes that have an end of the pipe open. *)
WriteEnds == {p \in alive : \/ p = Main \/ at[p] = "boot"
                            \/ (p = R0 /\ at[p] # "absent")}
ReadEnds  == {p \in alive : \/ p = Main \/ at[p] = "boot"
                            \/ (p = W0 /\ at[p] # "absent")}

(* read() waits for a number, or for the last write end to be closed. *)
read_from_pipe ==
  /\ OutsideLock(W0)
  /\ Move(W0, "leave", "sleep")
  /\ \/ pipe > 0 /\ pipe' = pipe - 1
     \/ pipe = 0 /\ WriteEnds = {} /\ UNCHANGED pipe
  /\ UNCHANGED <<lockVars, file>>

(* write() waits for room; with no read end left SIGPIPE kills the writer. *)
write_to_pipe ==
  /\ OutsideLock(R0)
  /\ ReadEnds # {} /\ pipe < PipeCap
  /\ Move(R0, "leave", "sleep")
  /\ pipe' = pipe + 1
  /\ UNCHANGED <<lockVars, file>>

BrokenPipe ==
  /\ OutsideLock(R0)
  /\ at[R0] = "leave" /\ ReadEnds = {}
  /\ Lock!Die(R0)
  /\ UNCHANGED <<at, file, pipe>>

NextTurn(p) ==
  /\ p \notin {Main, W0, R0}
  /\ OutsideLock(p)
  /\ Move(p, "leave", "sleep")
  /\ UNCHANGED <<lockVars, file, pipe>>

-----------------------------------------------------------------------------
(* The semop calls inside the lock; the actions above make the calls to it. *)
LockStep(p) ==
  /\ IF p \in Writer THEN Lock!WriteLock(p) \/ Lock!WriteUnlock(p)
                     ELSE Lock!ReadLock(p) \/ Lock!ReadUnlock(p)
  /\ UNCHANGED <<at, file, pipe>>

Turn(p) == \/ CloseEnds(p) \/ LockFile(p) \/ LockStep(p)
           \/ p \in Writer /\ WriteFile(p)
           \/ p \in Reader /\ (OpenFile(p) \/ ReadFile(p))
           \/ UnlockFile(p) \/ NextTurn(p)

(* After a failure all may come to wait for the lock: no deadlock to report. *)
Stuck == Failed # {} /\ UNCHANGED vars

Next == \/ MainLock \/ (\E c \in Children : Fork(c)) \/ MainUnlock \/ MainReturn
        \/ \E p \in Proc : Turn(p)
        \/ read_from_pipe \/ write_to_pipe \/ BrokenPipe
        \/ (\E p \in Faulty : Fail(p)) \/ Stuck

Spec == Init /\ [][Next]_vars

(* The fairness of SysVRwLock, and every process that can go on does. *)
Fairness ==
  /\ WF_vars(MainLock \/ (\E c \in Children : Fork(c)) \/ MainUnlock \/ MainReturn)
  /\ \A p \in Proc : WF_vars(Turn(p)) /\ SF_vars(LockStep(p))
  /\ WF_vars(read_from_pipe) /\ WF_vars(write_to_pipe \/ BrokenPipe)

FairSpec == Spec /\ Fairness

-----------------------------------------------------------------------------
(***************************************************************************)
(* The first writer never waits for ever for a number: the first reader    *)
(* gets its turn and sends one, or, when it was never forked, every other  *)
(* copy of the write end goes and read() returns 0.  Only a process that   *)
(* exits inside the lock may keep it waiting.                              *)
(***************************************************************************)
PipeReadReturns ==
  at[W0] = "leave" ~> (at[W0] = "sleep" \/ Failed # {})
=============================================================================
