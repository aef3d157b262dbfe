---------------------------- MODULE PosixRwLock ----------------------------
(***************************************************************************)
(* task11/rwlock.c: a readers-writer lock made of three POSIX semaphores   *)
(* and a reader counter in shared memory.  Every sem_wait and sem_post is  *)
(* a step of its own, and so are the load and the store of the counter, so *)
(* that the processes interleave wherever the scheduler may switch.        *)
(*                                                                         *)
(* read_sem is a gate every arriving process passes: a reader only touches *)
(* it, a writer keeps it until it unlocks.  write_sem is owned by the      *)
(* writer inside, or by the readers inside as a group: the first takes it  *)
(* and the last, perhaps another process, gives it back.                   *)
(***************************************************************************)
EXTENDS Integers, FiniteSets

CONSTANTS Reader, Writer,  \* the processes that lock for reading, for writing
          Mortal           \* those that may be killed at any point

ASSUME ProcAssumption ==
  /\ IsFiniteSet(Reader)
  /\ Reader \cap Writer = {}
  /\ Mortal \subseteq Reader \cup Writer

Proc == Reader \cup Writer

VARIABLES read_sem, write_sem, rdcount_sem,  \* the values of the semaphores
          rdcount,                           \* the counter of readers
          loaded,                            \* the counter as each has loaded it
          pc,                                \* where each process is
          alive                              \* the processes still running

vars == <<read_sem, write_sem, rdcount_sem, rdcount, loaded, pc, alive>>

ReaderLocs == {"idle", "rl_gate", "rl_pass", "rl_count", "rl_load", "rl_inc",
               "rl_first", "rl_done", "reading", "ru_count", "ru_load", "ru_dec",
               "ru_last", "ru_done"}

WriterLocs == {"idle", "wl_gate", "wl_write", "writing", "wu_gate", "wu_write"}

Init ==
  /\ read_sem = 1 /\ write_sem = 1 /\ rdcount_sem = 1
  /\ rdcount = 0
  /\ loaded = [p \in Proc |-> 0]
  /\ pc = [p \in Proc |-> "idle"]
  /\ alive = Proc

(***************************************************************************)
(* wait_sem blocks while the semaphore is zero; post_sem never blocks.     *)
(***************************************************************************)
wait_sem(sem) == sem > 0 /\ sem' = sem - 1

post_sem(sem) == sem' = sem + 1

Goto(p, from, to) ==
  /\ p \in alive
  /\ pc[p] = from
  /\ pc' = [pc EXCEPT ![p] = to]
  /\ UNCHANGED alive

-----------------------------------------------------------------------------
(* rwlock_read_lock: pass the gate, then count oneself in. *)

CallReadLock(p) ==
  /\ Goto(p, "idle", "rl_gate")
  /\ UNCHANGED <<read_sem, write_sem, rdcount_sem, rdcount, loaded>>

(* Bug: a reader does not pass the gate. *)
WaitGateSkipped(p) ==
  /\ Goto(p, "rl_gate", "rl_count")
  /\ UNCHANGED <<read_sem, write_sem, rdcount_sem, rdcount, loaded>>

WaitGate(p) ==
  /\ Goto(p, "rl_gate", "rl_pass")
  /\ wait_sem(read_sem)
  /\ UNCHANGED <<write_sem, rdcount_sem, rdcount, loaded>>

PostGate(p) ==
  /\ Goto(p, "rl_pass", "rl_count")
  /\ post_sem(read_sem)
  /\ UNCHANGED <<write_sem, rdcount_sem, rdcount, loaded>>

LockCount(p) ==
  /\ Goto(p, "rl_count", "rl_load")
  /\ wait_sem(rdcount_sem)
  /\ UNCHANGED <<read_sem, write_sem, rdcount, loaded>>

LoadCount(p) ==
  /\ Goto(p, "rl_load", "rl_inc")
  /\ loaded' = [loaded EXCEPT ![p] = rdcount]
  /\ UNCHANGED <<read_sem, write_sem, rdcount_sem, rdcount>>

(* Bug: the counter is tested before it is incremented. *)
CountInTestedLate(p) ==
  /\ Goto(p, "rl_inc", IF loaded[p] = 1 THEN "rl_first" ELSE "rl_done")
  /\ rdcount' = loaded[p] + 1
  /\ loaded' = [loaded EXCEPT ![p] = 0]
  /\ UNCHANGED <<read_sem, write_sem, rdcount_sem>>

CountIn(p) ==
  /\ Goto(p, "rl_inc", IF loaded[p] + 1 = 1 THEN "rl_first" ELSE "rl_done")
  /\ rdcount' = loaded[p] + 1
  /\ loaded' = [loaded EXCEPT ![p] = 0]
  /\ UNCHANGED <<read_sem, write_sem, rdcount_sem>>

FirstReader(p) ==
  /\ Goto(p, "rl_first", "rl_done")
  /\ wait_sem(write_sem)
  /\ UNCHANGED <<read_sem, rdcount_sem, rdcount, loaded>>

EnterRead(p) ==
  /\ Goto(p, "rl_done", "reading")
  /\ post_sem(rdcount_sem)
  /\ UNCHANGED <<read_sem, write_sem, rdcount, loaded>>

(* rwlock_read_unlock: count oneself out; the last one frees write_sem. *)

CallReadUnlock(p) ==
  /\ Goto(p, "reading", "ru_count")
  /\ UNCHANGED <<read_sem, write_sem, rdcount_sem, rdcount, loaded>>

(* Bug: the counter is decremented without rdcount_sem. *)
RelockCountSkipped(p) ==
  /\ Goto(p, "ru_count", "ru_load")
  /\ UNCHANGED <<read_sem, write_sem, rdcount_sem, rdcount, loaded>>

RelockCount(p) ==
  /\ Goto(p, "ru_count", "ru_load")
  /\ wait_sem(rdcount_sem)
  /\ UNCHANGED <<read_sem, write_sem, rdcount, loaded>>

ReloadCount(p) ==
  /\ Goto(p, "ru_load", "ru_dec")
  /\ loaded' = [loaded EXCEPT ![p] = rdcount]
  /\ UNCHANGED <<read_sem, write_sem, rdcount_sem, rdcount>>

CountOut(p) ==
  /\ Goto(p, "ru_dec", IF loaded[p] - 1 = 0 THEN "ru_last" ELSE "ru_done")
  /\ rdcount' = loaded[p] - 1
  /\ loaded' = [loaded EXCEPT ![p] = 0]
  /\ UNCHANGED <<read_sem, write_sem, rdcount_sem>>

(* Bug: the last reader keeps write_sem. *)
LastReaderKeeps(p) ==
  /\ Goto(p, "ru_last", "ru_done")
  /\ UNCHANGED <<read_sem, write_sem, rdcount_sem, rdcount, loaded>>

LastReader(p) ==
  /\ Goto(p, "ru_last", "ru_done")
  /\ post_sem(write_sem)
  /\ UNCHANGED <<read_sem, rdcount_sem, rdcount, loaded>>

LeaveRead(p) ==
  /\ Goto(p, "ru_done", "idle")
  /\ post_sem(rdcount_sem)
  /\ UNCHANGED <<read_sem, write_sem, rdcount, loaded>>

-----------------------------------------------------------------------------
(* rwlock_write_lock and rwlock_write_unlock. *)

CallWriteLock(p) ==
  /\ Goto(p, "idle", "wl_gate")
  /\ UNCHANGED <<read_sem, write_sem, rdcount_sem, rdcount, loaded>>

CloseGate(p) ==
  /\ Goto(p, "wl_gate", "wl_write")
  /\ wait_sem(read_sem)
  /\ UNCHANGED <<write_sem, rdcount_sem, rdcount, loaded>>

EnterWrite(p) ==
  /\ Goto(p, "wl_write", "writing")
  /\ wait_sem(write_sem)
  /\ UNCHANGED <<read_sem, rdcount_sem, rdcount, loaded>>

CallWriteUnlock(p) ==
  /\ Goto(p, "writing", "wu_gate")
  /\ UNCHANGED <<read_sem, write_sem, rdcount_sem, rdcount, loaded>>

OpenGate(p) ==
  /\ Goto(p, "wu_gate", "wu_write")
  /\ post_sem(read_sem)
  /\ UNCHANGED <<write_sem, rdcount_sem, rdcount, loaded>>

LeaveWrite(p) ==
  /\ Goto(p, "wu_write", "idle")
  /\ post_sem(write_sem)
  /\ UNCHANGED <<read_sem, rdcount_sem, rdcount, loaded>>

(***************************************************************************)
(* A process ends wherever it is: kill_processes.sh, or errExit when a     *)
(* call inside the critical section fails.  Nothing gives back what it     *)
(* held; pc[p] keeps saying where it died.                                 *)
(***************************************************************************)
Die(p) ==
  /\ p \in alive \cap Mortal
  /\ alive' = alive \ {p}
  /\ UNCHANGED <<read_sem, write_sem, rdcount_sem, rdcount, loaded, pc>>

-----------------------------------------------------------------------------
(* The steps of a process that is inside the code of the lock, or that     *)
(* leaves its critical section: those the scheduler must run.              *)
ReaderStep(p) == \/ WaitGate(p) \/ PostGate(p) \/ LockCount(p) \/ LoadCount(p)
                 \/ CountIn(p) \/ FirstReader(p) \/ EnterRead(p)
                 \/ CallReadUnlock(p) \/ RelockCount(p) \/ ReloadCount(p)
                 \/ CountOut(p) \/ LastReader(p) \/ LeaveRead(p)

WriterStep(p) == \/ CloseGate(p) \/ EnterWrite(p) \/ CallWriteUnlock(p)
                 \/ OpenGate(p) \/ LeaveWrite(p)

Next == \/ \E p \in Reader : CallReadLock(p) \/ ReaderStep(p)
        \/ \E p \in Writer : CallWriteLock(p) \/ WriterStep(p)
        \/ \E p \in Proc : Die(p)

Spec == Init /\ [][Next]_vars

(***************************************************************************)
(* Weak fairness of every process inside the lock: the kernel runs it, and *)
(* no critical section lasts for ever.  Nothing is assumed of how sem_wait *)
(* chooses among the processes that wait.                                  *)
(***************************************************************************)
Fairness == /\ \A p \in Reader : WF_vars(ReaderStep(p))
            /\ \A p \in Writer : WF_vars(WriterStep(p))

FairSpec == Spec /\ Fairness

-----------------------------------------------------------------------------
At(locs) == {p \in Proc : pc[p] \in locs}

GateHolders  == At({"rl_pass", "wl_write", "writing", "wu_gate"})
CountHolders == At({"rl_load", "rl_inc", "rl_first", "rl_done",
                    "ru_load", "ru_dec", "ru_last", "ru_done"})
Counted      == At({"rl_first", "rl_done", "reading", "ru_count", "ru_load", "ru_dec"})
ReadOwners   == At({"rl_done", "reading", "ru_count", "ru_load", "ru_dec", "ru_last"})
WriteOwners  == At({"writing", "wu_gate", "wu_write"})

TypeOK ==
  /\ read_sem \in {0, 1} /\ write_sem \in {0, 1} /\ rdcount_sem \in {0, 1}
  /\ rdcount \in Nat
  /\ loaded \in [Proc -> Nat]
  /\ pc \in [Proc -> ReaderLocs \cup WriterLocs]
  /\ \A p \in Reader : pc[p] \in ReaderLocs
  /\ \A p \in Writer : pc[p] \in WriterLocs
  /\ alive \subseteq Proc

(***************************************************************************)
(* Readers and a writer are never inside together, nor two writers, from   *)
(* the return of the lock call to the call of the unlock: also when        *)
(* processes die holding semaphores, and when the reader that takes        *)
(* write_sem is not the one that gives it back.                            *)
(***************************************************************************)
Exclusion ==
  /\ \A r \in Reader, w \in Writer : ~(pc[r] = "reading" /\ pc[w] = "writing")
  /\ \A v, w \in Writer : pc[v] = "writing" /\ pc[w] = "writing" => v = w

(***************************************************************************)
(* The counter is exactly the number of readers between ++rdcount and      *)
(* --rdcount: no update is lost and the size_t never wraps below zero.     *)
(***************************************************************************)
CounterExact == rdcount = Cardinality(Counted)

(***************************************************************************)
(* No permit is lost or made: each semaphore is one less the number of its *)
(* holders, the readers inside holding write_sem as one.                   *)
(***************************************************************************)
PermitsConserved ==
  /\ read_sem + Cardinality(GateHolders) = 1
  /\ rdcount_sem + Cardinality(CountHolders) = 1
  /\ write_sem + Cardinality(WriteOwners) + (IF ReadOwners = {} THEN 0 ELSE 1) = 1

(***************************************************************************)
(* A writer that has closed the gate is overtaken only by readers that     *)
(* were past the gate already: while it waits no process joins them.       *)
(***************************************************************************)
PastGate == At((ReaderLocs \ {"idle", "rl_gate"}) \cup {"writing"})

GateStopsNewcomers ==
  [][\A w \in Writer : pc[w] = "wl_write" /\ pc'[w] = "wl_write"
                       => PastGate' \subseteq PastGate]_vars

(***************************************************************************)
(* A writer that has closed the gate gets the lock, unless some process is *)
(* killed: the readers it finds inside drain, although they share the      *)
(* counter with one another and wait for write_sem while they hold it.     *)
(***************************************************************************)
GateHolderEnters ==
  \A w \in Writer : pc[w] = "wl_write" ~> (pc[w] = "writing" \/ alive # Proc)
=============================================================================
