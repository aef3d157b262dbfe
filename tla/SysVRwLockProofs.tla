-------------------------- MODULE SysVRwLockProofs --------------------------
(***************************************************************************)
(* Theorems about SysVRwLock, for any finite set of readers, any writers   *)
(* and any rmax: the semaphores of the set agree with the processes, and   *)
(* the lock excludes.                                                      *)
(***************************************************************************)
EXTENDS SysVRwLock, FiniteSetTheorems, TLAPS

(***************************************************************************)
(* Exclusion is not inductive: it holds because the semaphores say who is  *)
(* inside; and they go on saying so because a process that is inside was   *)
(* let in when the others were out.                                        *)
(***************************************************************************)
IInv == TypeOK /\ SemaphoresAgree /\ Exclusion

(* A step of p in the code moves p, and p alone, between the sets At(...). *)
LEMMA AtStep ==
  ASSUME TypeOK, NEW p \in Proc, NEW from, NEW to, Goto(p, from, to), NEW locs
  PROVE  /\ p \in At(locs) <=> from \in locs
         /\ At(locs)' = IF to \in locs THEN At(locs) \cup {p} ELSE At(locs) \ {p}
  BY DEF TypeOK, Goto, At

(* The readers inside are readers, so they can be counted. *)
LEMMA ReadHoldersFinite ==
  ASSUME TypeOK
  PROVE  IsFiniteSet(ReadHolders)
<1>1. ReadHolders \subseteq Reader
  BY DEF TypeOK, ReadHolders, At, Proc, WriterLocs
<1> QED  BY <1>1, FS_Subset, ProcAssumption

(* At most one writer is inside, so they can be counted too. *)
LEMMA WriteHoldersFinite ==
  ASSUME Exclusion
  PROVE  IsFiniteSet(WriteHolders)
<1>1. CASE WriteHolders = {}
  BY <1>1, FS_EmptySet
<1>2. CASE WriteHolders # {}
  <2>1. PICK w \in WriteHolders : TRUE
    BY <1>2
  <2>2. WriteHolders = {} \cup {w}
    BY <2>1 DEF Exclusion
  <2> QED  BY <2>2, FS_EmptySet, FS_AddElement
<1> QED  BY <1>1, <1>2

(* What adding and removing an element does to the size of a set. *)
LEMMA CardinalityStep ==
  ASSUME NEW S, IsFiniteSet(S), NEW p
  PROVE  /\ Cardinality(S) \in Nat
         /\ p \notin S => Cardinality(S \cup {p}) = Cardinality(S) + 1
         /\ p \in S => Cardinality(S \ {p}) = Cardinality(S) - 1
         /\ Cardinality(S) = 0 <=> S = {}
BY FS_CardinalityType, FS_AddElement, FS_RemoveElement, FS_EmptySet

LEMMA InitEstablishes == Init => IInv
<1> SUFFICES ASSUME Init PROVE IInv
  OBVIOUS
<1>1. ReadHolders = {} /\ WriteHolders = {}
  BY DEF Init, ReadHolders, WriteHolders, At
<1>2. TypeOK
  BY ProcAssumption DEF Init, TypeOK, Proc, Sem, ReaderLocs, WriterLocs
<1>3. SemaphoresAgree
  BY <1>1, FS_EmptySet, ProcAssumption DEF Init, SemaphoresAgree, Sem
<1> QED  BY <1>1, <1>2, <1>3 DEF IInv, Exclusion

(* A step that moves p within the same sets, and no semaphore, is harmless. *)
LEMMA CallPreserves ==
  ASSUME IInv, NEW p \in Proc,
         \/ p \in Reader /\ (CallReadLock(p) \/ CallReadUnlock(p))
         \/ p \in Writer /\ (CallWriteLock(p) \/ CallWriteUnlock(p))
  PROVE  IInv'
<1> USE DEF IInv, Call, CallReadLock, CallReadUnlock, CallWriteLock, CallWriteUnlock
<1>1. TypeOK'
  <2>1. CASE p \in Reader
    BY <2>1, ProcAssumption DEF TypeOK, Goto, Proc, ReaderLocs, WriterLocs
  <2>2. CASE p \in Writer
    BY <2>2, ProcAssumption DEF TypeOK, Goto, Proc, ReaderLocs, WriterLocs
  <2> QED  BY <2>1, <2>2
<1>2. ReadHolders' = ReadHolders /\ WriteHolders' = WriteHolders
  BY DEF TypeOK, Goto, ReadHolders, WriteHolders, At
<1>3. UNCHANGED sem
  OBVIOUS
<1> QED  BY <1>1, <1>2, <1>3 DEF SemaphoresAgree, Exclusion

LEMMA ReadLockPreserves ==
  ASSUME IInv, NEW p \in Reader, ReadLock(p)
  PROVE  IInv'
<1> USE DEF IInv
<1>1. p \in Proc /\ Goto(p, "rl", "reading")
  BY DEF ReadLock, Proc
<1>2. ReadHolders' = ReadHolders \cup {p} /\ p \notin ReadHolders
  BY <1>1, AtStep DEF ReadHolders
<1>3. WriteHolders' = WriteHolders
  BY <1>1, AtStep DEF WriteHolders
<1>4. TypeOK'
  BY DEF TypeOK, ReadLock, Goto, Proc, Sem, ReaderLocs, WriterLocs
<1>5. Cardinality(ReadHolders') = Cardinality(ReadHolders) + 1
      /\ Cardinality(ReadHolders) \in Nat
  BY <1>2, ReadHoldersFinite, CardinalityStep
<1>6. /\ sem'["READ_SEM"] = sem["READ_SEM"] + 1
      /\ sem'["BARRIER_SEM"] = sem["BARRIER_SEM"] - 1
      /\ sem'["WRITE_SEM"] = sem["WRITE_SEM"]
      /\ sem'["TURNSTILE_SEM"] = sem["TURNSTILE_SEM"]
  BY DEF ReadLock, TypeOK, Sem
<1>7. SemaphoresAgree'
  BY <1>3, <1>5, <1>6, ProcAssumption DEF SemaphoresAgree, TypeOK, Sem
<1>8. WriteHolders = {}
  BY WriteHoldersFinite, CardinalityStep DEF ReadLock, SemaphoresAgree
<1> QED  BY <1>3, <1>4, <1>7, <1>8 DEF Exclusion

LEMMA ReadUnlockPreserves ==
  ASSUME IInv, NEW p \in Reader, ReadUnlock(p)
  PROVE  IInv'
<1> USE DEF IInv
<1>1. p \in Proc /\ Goto(p, "ru", "idle")
  BY DEF ReadUnlock, Proc
<1>2. ReadHolders' = ReadHolders \ {p} /\ p \in ReadHolders
  BY <1>1, AtStep DEF ReadHolders
<1>3. WriteHolders' = WriteHolders
  BY <1>1, AtStep DEF WriteHolders
<1>4. TypeOK'
  BY DEF TypeOK, ReadUnlock, Goto, Proc, Sem, ReaderLocs, WriterLocs
<1>5. Cardinality(ReadHolders') = Cardinality(ReadHolders) - 1
      /\ Cardinality(ReadHolders) \in Nat
  BY <1>2, ReadHoldersFinite, CardinalityStep
<1>6. /\ sem'["READ_SEM"] = sem["READ_SEM"] - 1
      /\ sem'["BARRIER_SEM"] = sem["BARRIER_SEM"] + 1
      /\ sem'["WRITE_SEM"] = sem["WRITE_SEM"]
      /\ sem'["TURNSTILE_SEM"] = sem["TURNSTILE_SEM"]
  BY DEF ReadUnlock, TypeOK, Sem
<1>7. SemaphoresAgree'
  BY <1>3, <1>5, <1>6, ProcAssumption DEF SemaphoresAgree, TypeOK, Sem
<1> QED  BY <1>2, <1>3, <1>4, <1>7 DEF Exclusion

LEMMA WriteLockPreserves ==
  ASSUME IInv, NEW p \in Writer, WriteLock(p)
  PROVE  IInv'
<1> USE DEF IInv
<1>1. p \in Proc /\ Goto(p, "wl", "writing")
  BY DEF WriteLock, Proc
<1>2. WriteHolders' = WriteHolders \cup {p} /\ p \notin WriteHolders
  BY <1>1, AtStep DEF WriteHolders
<1>3. ReadHolders' = ReadHolders
  BY <1>1, AtStep DEF ReadHolders
<1>4. TypeOK'
  BY DEF TypeOK, WriteLock, Goto, Proc, Sem, ReaderLocs, WriterLocs
<1>5. Cardinality(WriteHolders') = Cardinality(WriteHolders) + 1
      /\ Cardinality(WriteHolders) \in Nat
  BY <1>2, WriteHoldersFinite, CardinalityStep
<1>6. /\ sem'["READ_SEM"] = sem["READ_SEM"]
      /\ sem'["BARRIER_SEM"] = sem["BARRIER_SEM"]
      /\ sem'["WRITE_SEM"] = sem["WRITE_SEM"] + 1
      /\ sem'["TURNSTILE_SEM"] = sem["TURNSTILE_SEM"] - 1
  BY DEF WriteLock, TypeOK, Sem
<1>7. SemaphoresAgree'
  BY <1>3, <1>5, <1>6 DEF SemaphoresAgree, TypeOK, Sem
<1>8. WriteHolders = {} /\ ReadHolders = {}
  BY WriteHoldersFinite, ReadHoldersFinite, CardinalityStep
     DEF WriteLock, SemaphoresAgree
<1> QED  BY <1>2, <1>3, <1>4, <1>7, <1>8 DEF Exclusion

LEMMA WriteUnlockPreserves ==
  ASSUME IInv, NEW p \in Writer, WriteUnlock(p)
  PROVE  IInv'
<1> USE DEF IInv
<1>1. p \in Proc /\ Goto(p, "wu", "idle")
  BY DEF WriteUnlock, Proc
<1>2. WriteHolders' = WriteHolders \ {p} /\ p \in WriteHolders
  BY <1>1, AtStep DEF WriteHolders
<1>3. ReadHolders' = ReadHolders
  BY <1>1, AtStep DEF ReadHolders
<1>4. TypeOK'
  BY DEF TypeOK, WriteUnlock, Goto, Proc, Sem, ReaderLocs, WriterLocs
<1>5. Cardinality(WriteHolders') = Cardinality(WriteHolders) - 1
      /\ Cardinality(WriteHolders) \in Nat
  BY <1>2, WriteHoldersFinite, CardinalityStep
<1>6. /\ sem'["READ_SEM"] = sem["READ_SEM"]
      /\ sem'["BARRIER_SEM"] = sem["BARRIER_SEM"]
      /\ sem'["WRITE_SEM"] = sem["WRITE_SEM"] - 1
      /\ sem'["TURNSTILE_SEM"] = sem["TURNSTILE_SEM"] + 1
  BY DEF WriteUnlock, TypeOK, Sem
<1>7. SemaphoresAgree'
  BY <1>3, <1>5, <1>6 DEF SemaphoresAgree, TypeOK, Sem
<1> QED  BY <1>2, <1>3, <1>4, <1>7 DEF Exclusion

(* A death changes no semaphore and moves nobody. *)
LEMMA DiePreserves ==
  ASSUME IInv, NEW p \in Proc, Die(p)
  PROVE  IInv'
BY DEF IInv, Die, TypeOK, SemaphoresAgree, Exclusion, ReadHolders, WriteHolders, At

LEMMA NextPreserves == IInv /\ [Next]_vars => IInv'
<1> SUFFICES ASSUME IInv, [Next]_vars PROVE IInv'
  OBVIOUS
<1>1. ASSUME NEW p \in Reader, CallReadLock(p) \/ CallReadUnlock(p) PROVE IInv'
  BY <1>1, CallPreserves DEF Proc
<1>2. ASSUME NEW p \in Writer, CallWriteLock(p) \/ CallWriteUnlock(p) PROVE IInv'
  BY <1>2, CallPreserves DEF Proc
<1>3. CASE UNCHANGED vars
  BY <1>3 DEF vars, IInv, TypeOK, SemaphoresAgree, Exclusion, ReadHolders,
              WriteHolders, At
<1> QED  BY <1>1, <1>2, <1>3, ReadLockPreserves, ReadUnlockPreserves,
            WriteLockPreserves, WriteUnlockPreserves, DiePreserves DEF Next

(* All three parts of the invariant always hold. *)
THEOREM Invariance == Spec => []IInv
BY InitEstablishes, NextPreserves, PTL DEF Spec

(* task09/rwlock.c: every variable keeps its type, no semaphore goes below zero. *)
THEOREM TypeCorrect == Spec => []TypeOK
<1>1. IInv => TypeOK
  BY DEF IInv
<1> QED  BY <1>1, Invariance, PTL

(* task09/rwlock.c: the four semaphores agree with each other and with who is inside. *)
THEOREM SemaphoresAlwaysAgree == Spec => []SemaphoresAgree
<1>1. IInv => SemaphoresAgree
  BY DEF IInv
<1> QED  BY <1>1, Invariance, PTL

(* task09/rwlock.c: readers and a writer, or two writers, are never inside together. *)
THEOREM AlwaysExclusive == Spec => []Exclusion
<1>1. IInv => Exclusion
  BY DEF IInv
<1> QED  BY <1>1, Invariance, PTL
=============================================================================
