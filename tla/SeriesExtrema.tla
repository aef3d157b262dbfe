---------------------------- MODULE SeriesExtrema ----------------------------
(***************************************************************************)
(* task12/main.c, and task13/main.c, which differs only in the name of its *)
(* shared memory.  The parent fills a series of random numbers, the child  *)
(* computes its extrema, the parent prints them and fills the next series. *)
(* One semaphore guards the memory they share and the flag `calculated'    *)
(* hands the series over; both set the flag before they do the work it     *)
(* announces.  SIGINT stops each of them at its next test of `stop'.       *)
(***************************************************************************)
EXTENDS Integers

CONSTANTS SERIES_SIZE,       \* the size of the array of numbers
          RAND_MAX,          \* the largest number that rand() returns
          INT_MIN, INT_MAX   \* the initial extrema

ASSUME IntAssumption ==
  /\ SERIES_SIZE \in Nat \ {0, 1}
  /\ RAND_MAX \in Nat
  /\ INT_MIN \in Int /\ INT_MIN < 0
  /\ INT_MAX \in Int /\ INT_MAX >= RAND_MAX

VARIABLES sem, calculated, size, numbers, min, max,  \* struct shmbuf
          first_iter,   \* the parent has not filled a series yet
          j,            \* where each process is in its loop over the series
          pc, stop,     \* of each process
          sigint        \* the processes a SIGINT has been sent to

shmbuf == <<sem, calculated, size, numbers, min, max>>
vars   == <<shmbuf, first_iter, j, pc, stop, sigint>>

Proc   == {"parent", "child"}
Index  == 0 .. SERIES_SIZE - 1
Number == 0 .. RAND_MAX

(* "top" is the test of `stop'; "exit" is after the semaphore is destroyed. *)
ParentLocs == {"top", "wait", "generate", "print", "clear", "size", "fill",
               "post", "sleep", "destroy", "exit"}
ChildLocs  == {"top", "wait", "calc", "min", "max", "flag", "scan",
               "post", "destroy", "exit"}

Init ==
  /\ sem = 1 /\ calculated = 1 /\ size = 0
  /\ numbers = [k \in Index |-> 0] /\ min = 0 /\ max = 0
  /\ first_iter = 1
  /\ j = [p \in Proc |-> 0]
  /\ pc = [p \in Proc |-> "top"]
  /\ stop = [p \in Proc |-> 0]
  /\ sigint = {}

Goto(p, from, to) ==
  /\ pc[p] = from
  /\ pc' = [pc EXCEPT ![p] = to]
  /\ UNCHANGED <<stop, sigint>>

-----------------------------------------------------------------------------
(* What both loops do. *)

TestStop(p) ==
  /\ Goto(p, "top", IF stop[p] = 0 THEN "wait" ELSE "destroy")
  /\ UNCHANGED <<shmbuf, first_iter, j>>

Wait(p) ==
  /\ Goto(p, "wait", IF p = "parent" THEN "generate" ELSE "calc")
  /\ sem > 0 /\ sem' = sem - 1
  /\ UNCHANGED <<calculated, size, numbers, min, max, first_iter, j>>

(* Bug: a process that has been told to stop leaves its loop at once. *)
PostUnlessStopped(p) ==
  /\ Goto(p, "post", IF stop[p] = 1 THEN "destroy"
                       ELSE IF p = "parent" THEN "sleep" ELSE "top")
  /\ sem' = IF stop[p] = 1 THEN sem ELSE sem + 1
  /\ UNCHANGED <<calculated, size, numbers, min, max, first_iter, j>>

Post(p) ==
  /\ Goto(p, "post", IF p = "parent" THEN "sleep" ELSE "top")
  /\ sem' = sem + 1
  /\ UNCHANGED <<calculated, size, numbers, min, max, first_iter, j>>

Destroy(p) ==
  /\ Goto(p, "destroy", "exit")
  /\ UNCHANGED <<shmbuf, first_iter, j>>

-----------------------------------------------------------------------------
(* Bug: the parent returns with the semaphore when there is nothing to do. *)
GenerateKeeps ==
  /\ Goto("parent", "generate",
          IF calculated = 0 THEN "sleep" ELSE IF first_iter = 1 THEN "clear" ELSE "print")
  /\ first_iter' = IF calculated = 0 THEN first_iter ELSE 0
  /\ UNCHANGED <<shmbuf, j>>

(* parent() and generate_series(). *)

Generate ==
  /\ Goto("parent", "generate",
          IF calculated = 0 THEN "post" ELSE IF first_iter = 1 THEN "clear" ELSE "print")
  /\ first_iter' = IF calculated = 0 THEN first_iter ELSE 0
  /\ UNCHANGED <<shmbuf, j>>

PrintExtrema ==
  /\ Goto("parent", "print", "clear")
  /\ UNCHANGED <<shmbuf, first_iter, j>>

ClearCalculated ==
  /\ Goto("parent", "clear", "size")
  /\ calculated' = 0
  /\ UNCHANGED <<sem, size, numbers, min, max, first_iter, j>>

(* 1 + rand() % (SERIES_SIZE - 1) *)
SetSize ==
  /\ Goto("parent", "size", "fill")
  /\ size' \in 1 .. SERIES_SIZE - 1
  /\ j' = [j EXCEPT !["parent"] = 0]
  /\ UNCHANGED <<sem, calculated, numbers, min, max, first_iter>>

Fill ==
  /\ IF j["parent"] < size
     THEN /\ Goto("parent", "fill", "fill")
          /\ \E r \in Number : numbers' = [numbers EXCEPT ![j["parent"]] = r]
          /\ j' = [j EXCEPT !["parent"] = @ + 1]
     ELSE /\ Goto("parent", "fill", "post")
          /\ UNCHANGED <<numbers, j>>
  /\ UNCHANGED <<sem, calculated, size, min, max, first_iter>>

Sleep ==
  /\ Goto("parent", "sleep", "top")
  /\ UNCHANGED <<shmbuf, first_iter, j>>

-----------------------------------------------------------------------------
(* Bug: the child takes every series for one it has computed. *)
CalcNever ==
  /\ Goto("child", "calc", "post")
  /\ UNCHANGED <<shmbuf, first_iter, j>>

(* child() and calc_extrema(). *)

Calc ==
  /\ Goto("child", "calc", IF calculated = 1 THEN "post" ELSE "min")
  /\ UNCHANGED <<shmbuf, first_iter, j>>

InitMin ==
  /\ Goto("child", "min", "max")
  /\ min' = INT_MAX
  /\ UNCHANGED <<sem, calculated, size, numbers, max, first_iter, j>>

(* Bug: the maximum of the last series is kept. *)
InitMaxMissing ==
  /\ Goto("child", "max", "flag")
  /\ UNCHANGED <<shmbuf, first_iter, j>>

InitMax ==
  /\ Goto("child", "max", "flag")
  /\ max' = INT_MIN
  /\ UNCHANGED <<sem, calculated, size, numbers, min, first_iter, j>>

SetCalculated ==
  /\ Goto("child", "flag", "scan")
  /\ calculated' = 1
  /\ j' = [j EXCEPT !["child"] = 0]
  /\ UNCHANGED <<sem, size, numbers, min, max, first_iter>>

Scan ==
  LET n == numbers[j["child"]]
  IN /\ IF j["child"] < size
        THEN /\ Goto("child", "scan", "scan")
             /\ max' = IF n > max THEN n ELSE max
             /\ min' = IF n < min THEN n ELSE min
             /\ j' = [j EXCEPT !["child"] = @ + 1]
        ELSE /\ Goto("child", "scan", "post")
             /\ UNCHANGED <<max, min, j>>
     /\ UNCHANGED <<sem, calculated, size, numbers, first_iter>>

-----------------------------------------------------------------------------
(* Ctrl-C sends SIGINT to both; kill -INT sends it to one. *)
Interrupt(S) ==
  /\ sigint' = sigint \cup S
  /\ UNCHANGED <<shmbuf, first_iter, j, pc, stop>>

(* signal() restarts the system call it interrupts, sem_wait among them. *)
sighandler(p) ==
  /\ p \in sigint /\ pc[p] # "exit"
  /\ sigint' = sigint \ {p}
  /\ stop' = [stop EXCEPT ![p] = 1]
  /\ UNCHANGED <<shmbuf, first_iter, j, pc>>

Common(p) == TestStop(p) \/ Wait(p) \/ Post(p) \/ Destroy(p)

Parent == \/ Common("parent") \/ Generate \/ PrintExtrema \/ ClearCalculated
          \/ SetSize \/ Fill \/ Sleep

Child == \/ Common("child") \/ Calc \/ InitMin \/ InitMax \/ SetCalculated \/ Scan

Next == \/ Parent \/ Child
        \/ \E p \in Proc : sighandler(p)
        \/ \E S \in SUBSET Proc \ {{}} : Interrupt(S)

Spec == Init /\ [][Next]_vars

(* The kernel runs both processes and delivers the signals. *)
Fairness == /\ WF_vars(Parent) /\ WF_vars(Child)
            /\ \A p \in Proc : WF_vars(sighandler(p))

FairSpec == Spec /\ Fairness

(***************************************************************************)
(* The parent sleeps for a second between two turns, so the child finds    *)
(* the semaphore free; and the child, who does not sleep, takes and gives  *)
(* it all the time, of which the parent must be lucky once.                *)
(***************************************************************************)
BusySpec == FairSpec /\ \A p \in Proc : SF_vars(Wait(p))

-----------------------------------------------------------------------------
TypeOK ==
  /\ sem \in {0, 1} /\ calculated \in {0, 1} /\ first_iter \in {0, 1}
  /\ size \in 0 .. SERIES_SIZE - 1
  /\ numbers \in [Index -> Number]
  /\ min \in Int /\ max \in Int
  /\ j \in [Proc -> 0 .. SERIES_SIZE - 1]
  /\ pc \in [Proc -> ParentLocs \cup ChildLocs]
  /\ pc["parent"] \in ParentLocs /\ pc["child"] \in ChildLocs
  /\ stop \in [Proc -> {0, 1}]
  /\ sigint \subseteq Proc

(* lo and hi are the least and the greatest of the first n numbers. *)
AreExtrema(lo, hi, n) ==
  /\ \E k \in 0 .. n - 1 : numbers[k] = lo
  /\ \E k \in 0 .. n - 1 : numbers[k] = hi
  /\ \A k \in 0 .. n - 1 : lo <= numbers[k] /\ numbers[k] <= hi

(***************************************************************************)
(* What the parent prints are the extrema of the series it filled last,    *)
(* complete, whole and computed, although `calculated' is set before the   *)
(* computation and cleared before the series is there.                     *)
(***************************************************************************)
PrintedExtrema ==
  pc["parent"] = "print" => j["parent"] = size /\ AreExtrema(min, max, size)

(***************************************************************************)
(* The process that destroys the semaphore does not destroy it under the   *)
(* other while that one is blocked on it (it may still hold it).           *)
(***************************************************************************)
NoneBlockedAtDestroy ==
  \A p, q \in Proc : pc[p] = "destroy" /\ pc[q] = "wait" => sem > 0

(***************************************************************************)
(* Every series gets its extrema, unless the child has been told to stop:  *)
(* `calculated' being set in advance, by the time the child lets go.       *)
(***************************************************************************)
EverySeriesComputed ==
  calculated = 0 ~> \/ pc["child"] = "post" /\ AreExtrema(min, max, size)
                    \/ stop["child"] = 1

(* After Ctrl-C both end, none waiting for a semaphore nobody will post. *)
Terminates ==
  sigint = Proc ~> \A p \in Proc : pc[p] = "exit"
=============================================================================
