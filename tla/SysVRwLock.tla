----------------------------- MODULE SysVRwLock -----------------------------
(***************************************************************************)
(* task09/rwlock.c: a readers-writer lock made of one System V semaphore   *)
(* set of four.  Each operation is one semop call on a vector of           *)
(* operations, which the kernel performs all together or, while one of     *)
(* them would block, not at all.  An operation -k waits for the semaphore  *)
(* to be at least k, an operation 0 waits for it to be zero.               *)
(***************************************************************************)
EXTENDS Integers, FiniteSets

CONSTANTS Reader, Writer,  \* the processes that lock for reading, for writing
          Mortal,          \* those that may be killed at any point
          rmax             \* how many readers the barrier lets in

ASSUME ProcAssumption ==
  /\ IsFiniteSet(Reader)
  /\ Reader \cap Writer = {}
  /\ Mortal \subseteq Reader \cup Writer
  /\ rmax \in Nat \ {0}

Proc == Reader \cup Writer

Sem == {"READ_SEM", "WRITE_SEM", "TURNSTILE_SEM", "BARRIER_SEM"}

VARIABLES sem,    \* the values of the set
          pc,     \* where each process is
          alive   \* the processes still running

vars == <<sem, pc, alive>>

(* "rl", "wl": blocked in the semop of the lock; "ru", "wu": of the unlock. *)
ReaderLocs == {"idle", "rl", "reading", "ru"}
WriterLocs == {"idle", "wl", "writing", "wu"}

Init ==
  /\ sem = [s \in Sem |-> CASE s = "TURNSTILE_SEM" -> 1
                            [] s = "BARRIER_SEM"   -> rmax
                            [] OTHER               -> 0]
  /\ pc = [p \in Proc |-> "idle"]
  /\ alive = Proc

Goto(p, from, to) ==
  /\ p \in alive
  /\ pc[p] = from
  /\ pc' = [pc EXCEPT ![p] = to]
  /\ UNCHANGED alive

Call(p, from, to) == Goto(p, from, to) /\ UNCHANGED sem

CallReadLock(p)    == Call(p, "idle", "rl")
CallReadUnlock(p)  == Call(p, "reading", "ru")
CallWriteLock(p)   == Call(p, "idle", "wl")
CallWriteUnlock(p) == Call(p, "writing", "wu")

(* {BARRIER, -1}, {TURNSTILE, -1}, {TURNSTILE, +1}, {WRITE, 0}, {READ, +1} *)
ReadLock(p) ==
  /\ Goto(p, "rl", "reading")
  /\ sem["BARRIER_SEM"] >= 1
  /\ sem["TURNSTILE_SEM"] >= 1
  /\ sem["WRITE_SEM"] = 0
  /\ sem' = [sem EXCEPT !["BARRIER_SEM"] = @ - 1, !["READ_SEM"] = @ + 1]

(* Bug: the reader does not give its place at the barrier back. *)
ReadUnlockNoBarrier(p) ==
  /\ Goto(p, "ru", "idle")
  /\ sem["READ_SEM"] >= 1
  /\ sem' = [sem EXCEPT !["READ_SEM"] = @ - 1]

(* {BARRIER, +1}, {READ, -1} *)
ReadUnlock(p) ==
  /\ Goto(p, "ru", "idle")
  /\ sem["READ_SEM"] >= 1
  /\ sem' = [sem EXCEPT !["BARRIER_SEM"] = @ + 1, !["READ_SEM"] = @ - 1]

(* Bug: without {READ, 0}. *)
WriteLockAmongReaders(p) ==
  /\ Goto(p, "wl", "writing")
  /\ sem["TURNSTILE_SEM"] >= 1
  /\ sem["WRITE_SEM"] = 0
  /\ sem' = [sem EXCEPT !["TURNSTILE_SEM"] = @ - 1, !["WRITE_SEM"] = @ + 1]

(* {TURNSTILE, -1}, {READ, 0}, {WRITE, 0}, {WRITE, +1} *)
WriteLock(p) ==
  /\ Goto(p, "wl", "writing")
  /\ sem["TURNSTILE_SEM"] >= 1
  /\ sem["READ_SEM"] = 0
  /\ sem["WRITE_SEM"] = 0
  /\ sem' = [sem EXCEPT !["TURNSTILE_SEM"] = @ - 1, !["WRITE_SEM"] = @ + 1]

(* {TURNSTILE, +1}, {WRITE, -1} *)
WriteUnlock(p) ==
  /\ Goto(p, "wu", "idle")
  /\ sem["WRITE_SEM"] >= 1
  /\ sem' = [sem EXCEPT !["TURNSTILE_SEM"] = @ + 1, !["WRITE_SEM"] = @ - 1]

(***************************************************************************)
(* A process ends wherever it is; the operations were not given SEM_UNDO,  *)
(* so the semaphores keep the values it left them with.                    *)
(***************************************************************************)
Die(p) ==
  /\ p \in alive \cap Mortal
  /\ alive' = alive \ {p}
  /\ UNCHANGED <<sem, pc>>

Next == \/ \E p \in Reader : \/ CallReadLock(p) \/ ReadLock(p)
                             \/ CallReadUnlock(p) \/ ReadUnlock(p)
        \/ \E p \in Writer : \/ CallWriteLock(p) \/ WriteLock(p)
                             \/ CallWriteUnlock(p) \/ WriteUnlock(p)
        \/ \E p \in Proc : Die(p)

Spec == Init /\ [][Next]_vars

(***************************************************************************)
(* No critical section lasts for ever and an unlock that can be performed  *)
(* is.  A blocked lock is only promised its turn if it can be performed    *)
(* again and again (strong fairness): the kernel tries the pending         *)
(* operations whenever a semop changes the set, and a caller that finds it *)
(* possible at once is not made to queue.                                  *)
(***************************************************************************)
Fairness ==
  /\ \A p \in Reader : /\ WF_vars(CallReadUnlock(p)) /\ WF_vars(ReadUnlock(p))
                       /\ SF_vars(ReadLock(p))
  /\ \A p \in Writer : /\ WF_vars(CallWriteUnlock(p)) /\ WF_vars(WriteUnlock(p))
                       /\ SF_vars(WriteLock(p))

FairSpec == Spec /\ Fairness

-----------------------------------------------------------------------------
At(locs) == {p \in Proc : pc[p] \in locs}

ReadHolders  == At({"reading", "ru"})
WriteHolders == At({"writing", "wu"})

TypeOK ==
  /\ sem \in [Sem -> Nat]
  /\ pc \in [Proc -> ReaderLocs \cup WriterLocs]
  /\ \A p \in Reader : pc[p] \in ReaderLocs
  /\ \A p \in Writer : pc[p] \in WriterLocs
  /\ alive \subseteq Proc

(***************************************************************************)
(* Readers and a writer are never inside together, nor two writers, from   *)
(* the return of the lock call to the end of the unlock call, even though  *)
(* dead processes never give back what they held.                          *)
(***************************************************************************)
Exclusion ==
  /\ ReadHolders = {} \/ WriteHolders = {}
  /\ \A v, w \in WriteHolders : v = w

(***************************************************************************)
(* The four semaphores always agree with one another and with who is       *)
(* inside.  In particular at most rmax readers are, and no unlock blocks.  *)
(***************************************************************************)
SemaphoresAgree ==
  /\ sem["READ_SEM"] = Cardinality(ReadHolders)
  /\ sem["BARRIER_SEM"] + Cardinality(ReadHolders) = rmax
  /\ sem["WRITE_SEM"] = Cardinality(WriteHolders)
  /\ sem["TURNSTILE_SEM"] + Cardinality(WriteHolders) = 1

(***************************************************************************)
(* A reader that waits gets in, past the writers that come and go and past *)
(* a full barrier, unless some process is killed.  (No such promise holds  *)
(* for a writer: readers that overlap keep READ_SEM above zero for ever,   *)
(* as the turnstile is taken and put back inside one semop and is never    *)
(* kept by a waiting writer.)                                              *)
(***************************************************************************)
ReaderEnters ==
  \A r \in Reader : pc[r] = "rl" ~> (pc[r] = "reading" \/ alive # Proc)
=============================================================================
