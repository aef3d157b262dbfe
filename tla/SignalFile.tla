------------------------------ MODULE SignalFile ------------------------------
(***************************************************************************)
(* task05/main.c: a parent that appends numbers to numbers.bin and a child *)
(* that reads the file when it may.  SIGUSR1 blocks the file for the child *)
(* and SIGUSR2 unblocks it; both only set a flag, and the child, woken     *)
(* from pause(), looks at the flag.  By a pipe the child gives the turn    *)
(* back.                                                                   *)
(***************************************************************************)
EXTENDS Integers

VARIABLES is_file_blocked,   \* the child's flag
          pending,           \* the signals sent to the child, not handled yet
          vain,              \* has a SIGUSR2 ever been handled in vain?
          filled,            \* is there a number in the file?
          pipe,              \* how many there are in the pipe
          parent, child      \* where each process is

signalVars == <<is_file_blocked, pending, vain, filled, pipe, parent, child>>

(* The parent goes round block, write, unblock, pipe; the child round      *)
(* loop, pause, test, open, read, pipe.  "dead" is the end of either.      *)

SignalInit ==
  /\ is_file_blocked = 0
  /\ pending = {}
  /\ vain = FALSE
  /\ filled = FALSE
  /\ pipe = 0
  /\ parent = "block"
  /\ child = "loop"

-----------------------------------------------------------------------------
(* parent_proc().  kill() succeeds on a child that is dead, since nobody   *)
(* waits for it.  Between its steps the parent sleeps a second.            *)

send(sig) == pending' = IF child = "dead" THEN pending ELSE pending \cup {sig}

send_block_sig ==
  /\ parent = "block" /\ parent' = "write"
  /\ send("SIGUSR1")
  /\ UNCHANGED <<is_file_blocked, vain, filled, pipe, child>>

WriteFile ==
  /\ parent = "write" /\ parent' = "unblock"
  /\ filled' = TRUE
  /\ UNCHANGED <<is_file_blocked, pending, vain, pipe, child>>

send_unblock_sig ==
  /\ parent = "unblock" /\ parent' = "pipe"
  /\ send("SIGUSR2")
  /\ UNCHANGED <<is_file_blocked, vain, filled, pipe, child>>

(* read() returns 0 once the child, the only writer, is gone. *)
ReadPipe ==
  /\ parent = "pipe" /\ parent' = "block"
  /\ \/ pipe > 0 /\ pipe' = pipe - 1
     \/ pipe = 0 /\ child = "dead" /\ UNCHANGED pipe
  /\ UNCHANGED <<is_file_blocked, pending, vain, filled, child>>

-----------------------------------------------------------------------------
(* child_proc(). *)

ChildTo(from, to) == child = from /\ child' = to

pause ==
  /\ ChildTo("loop", "pause")
  /\ UNCHANGED <<is_file_blocked, pending, vain, filled, pipe, parent>>

(* Bug: the flag is not set back. *)
sighandlerKeeps(sig) == 1

sighandler(sig) == IF sig = "SIGUSR1" THEN 1 ELSE 0

(* A signal is handled wherever the child is, and ends a pause().  Of two  *)
(* that are pending, either may be handled last.  A SIGUSR2 that is        *)
(* undone by a SIGUSR1, or handled before pause() is called, is in vain.   *)
Handle ==
  /\ child # "dead" /\ pending # {} /\ pending' = {}
  /\ \E last \in pending :
       /\ is_file_blocked' = sighandler(last)
       /\ vain' = \/ vain
                  \/ "SIGUSR2" \in pending /\ (last = "SIGUSR1" \/ child = "loop")
  /\ child' = IF child = "pause" THEN "test" ELSE child
  /\ UNCHANGED <<filled, pipe, parent>>

(* Bug: the child takes every signal for its turn. *)
TestSkipped ==
  /\ ChildTo("test", "open")
  /\ UNCHANGED <<is_file_blocked, pending, vain, filled, pipe, parent>>

Test ==
  /\ ChildTo("test", IF is_file_blocked = 1 THEN "loop" ELSE "open")
  /\ UNCHANGED <<is_file_blocked, pending, vain, filled, pipe, parent>>

OpenToRead ==
  /\ ChildTo("open", "read")
  /\ UNCHANGED <<is_file_blocked, pending, vain, filled, pipe, parent>>

(* The first number of the file, every time; an empty file ends the child. *)
ReadFile ==
  /\ ChildTo("read", IF filled THEN "pipe" ELSE "dead")
  /\ UNCHANGED <<is_file_blocked, pending, vain, filled, pipe, parent>>

(* Without a reader of the pipe SIGPIPE kills the child. *)
WritePipe ==
  /\ \/ parent # "dead" /\ ChildTo("pipe", "loop") /\ pipe' = pipe + 1
     \/ parent = "dead" /\ ChildTo("pipe", "dead") /\ UNCHANGED pipe
  /\ UNCHANGED <<is_file_blocked, pending, vain, filled, parent>>

-----------------------------------------------------------------------------
(* Killed, or ended by an error. *)
Die ==
  /\ \/ parent # "dead" /\ parent' = "dead" /\ UNCHANGED child
     \/ child # "dead" /\ child' = "dead" /\ UNCHANGED parent
  /\ UNCHANGED <<is_file_blocked, pending, vain, filled, pipe>>

Parent == send_block_sig \/ WriteFile \/ send_unblock_sig \/ ReadPipe
Child  == pause \/ Test \/ OpenToRead \/ ReadFile \/ WritePipe

SignalNext == Parent \/ Child \/ Handle \/ Die

SignalSpec == SignalInit /\ [][SignalNext]_signalVars

(* The kernel runs both and delivers the signals. *)
SignalFairSpec ==
  SignalSpec /\ WF_signalVars(Parent) /\ WF_signalVars(Child) /\ WF_signalVars(Handle)

-----------------------------------------------------------------------------
(***************************************************************************)
(* While the child opens and reads the file, the parent waits for its      *)
(* number or is dead, and the file is not empty, so that the child never   *)
(* ends by itself: the flag and the pipe pass one turn to and fro, however *)
(* late the signals come.                                                  *)
(***************************************************************************)
OneAtATime ==
  child \in {"open", "read"} => parent \in {"pipe", "dead"} /\ filled

(***************************************************************************)
(* The parent is not kept waiting for a number, unless a SIGUSR2 found the *)
(* child outside pause() or was undone by a SIGUSR1 handled after it: then *)
(* both processes wait for ever.                                           *)
(***************************************************************************)
ParentGoesOn == parent = "pipe" ~> (parent # "pipe" \/ vain)
=============================================================================
