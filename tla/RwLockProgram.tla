---------------------------- MODULE RwLockProgram ----------------------------
(***************************************************************************)
(* What task09/main.c and task11/main.c have in common: the processes, of  *)
(* which main() is one, where each is in main.c, the pipe between two of   *)
(* them, the file, and what becomes of the file and of who fails at it.    *)
(***************************************************************************)
EXTENDS Integers, FiniteSets

CONSTANTS Reader, Writer,  \* the processes; main() is one of the writers
          Main, W0, R0,    \* main(), the writer and the reader that use the pipe
          MayFail,         \* the children whose fork may fail
          Faulty,          \* the children whose access to the file may fail
          PipeCap          \* how many numbers the pipe holds

ASSUME ProgramAssumption ==
  /\ IsFiniteSet(Reader) /\ Reader \cap Writer = {}
  /\ Main \in Writer /\ W0 \in Writer \ {Main} /\ R0 \in Reader
  /\ MayFail \cup Faulty \subseteq (Reader \cup Writer) \ {Main}
  /\ PipeCap \in Nat \ {0}

VARIABLES pc, alive,       \* where each process is in the lock, and who lives
          at,              \* where each process is in main.c
          file,            \* the last writer of numbers.bin, "empty" before the first
          pipe             \* how many numbers are in the pipe

Proc     == Reader \cup Writer
Children == Proc \ {Main}

Unborn(S) == {p \in S : at[p] = "unborn"}

Move(p, from, to) == p \in alive /\ at[p] = from /\ at' = [at EXCEPT ![p] = to]

OutsideLock(p) == p \in alive /\ pc[p] = "idle"

(* Where a process may find that the file cannot be opened, read or written. *)
AtFile(p) == pc[p] \in {"reading", "writing"} /\ at[p] \in {"work", "opened"}

(* Those that ended there, or anywhere else inside the lock.               *)
Failed == {p \in Proc \ alive : pc[p] # "idle"}

(***************************************************************************)
(* What the program promises of its file: each reader reads what it has    *)
(* opened, though writers and readers come and go; and when a process      *)
(* exits at the file, taking the lock with it, those that still run stay   *)
(* clear of the file rather than meet there.                               *)
(***************************************************************************)
Numbers == INSTANCE SharedFile WITH open   <- {r \in Reader : at[r] = "opened"},
                                    failed <- Failed

FileShared == Numbers!Spec
=============================================================================
