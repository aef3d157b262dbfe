------------------------- MODULE PosixRwLockProofs -------------------------
(***************************************************************************)
(* Theorems about PosixRwLock, for any finite set of readers and any       *)
(* writers, any of which may die anywhere: the counter counts, no permit   *)
(* is lost, the lock excludes, and newcomers wait at the gate.             *)
(***************************************************************************)
EXTENDS PosixRwLock, FiniteSetTheorems, TLAPS

(* A semaphore of one permit and the processes that took it: one or none. *)
Mutex(sem, holders) ==
  /\ sem \in {0, 1}
  /\ sem = 1 <=> holders = {}
  /\ \A p, q \in holders : p = q

(* write_sem is taken by one writer, or by all readers inside together. *)
WriteInv ==
  /\ write_sem \in {0, 1}
  /\ write_sem = 1 <=> WriteOwners = {} /\ ReadOwners = {}
  /\ WriteOwners = {} \/ ReadOwners = {}
  /\ \A p, q \in WriteOwners : p = q

(* The last reader gives write_sem back when no counted reader is left. *)
LastInv == \A p \in Proc : pc[p] = "ru_last" => rdcount = 0

(* What a process has loaded of the counter is still its value at the store. *)
LoadedInv == \A p \in Proc : pc[p] \in {"rl_inc", "ru_dec"} => loaded[p] = rdcount

(***************************************************************************)
(* Exclusion rests on WriteInv.  A reader that is not the first joins the  *)
(* owners of write_sem without touching it, which is right only because    *)
(* the counter is exact and because rdcount_sem keeps it out while the     *)
(* first one still waits; so those are parts of the invariant.             *)
(***************************************************************************)
IInv ==
  /\ TypeOK
  /\ CounterExact
  /\ Mutex(read_sem, GateHolders)
  /\ Mutex(rdcount_sem, CountHolders)
  /\ WriteInv
  /\ LastInv
  /\ LoadedInv

(* A step of p in the code moves p, and p alone, between the sets At(...). *)
LEMMA AtStep ==
  ASSUME TypeOK, NEW p \in Proc, NEW from, NEW to, Goto(p, from, to), NEW locs
  PROVE  /\ p \in At(locs) <=> from \in locs
         /\ At(locs)' = IF to \in locs THEN At(locs) \cup {p} ELSE At(locs) \ {p}
  BY DEF TypeOK, Goto, At

(* A set with neither end of the move, or with both, does not change. *)
LEMMA AtUnchanged ==
  ASSUME TypeOK, NEW p \in Proc, NEW from, NEW to, Goto(p, from, to), NEW locs,
         from \in locs <=> to \in locs
  PROVE  At(locs)' = At(locs)
<1>1. CASE to \in locs
  <2>1. p \in At(locs) /\ At(locs)' = At(locs) \cup {p}
    BY <1>1, AtStep
  <2> QED  BY <2>1
<1>2. CASE to \notin locs
  <2>1. p \notin At(locs) /\ At(locs)' = At(locs) \ {p}
    BY <1>2, AtStep
  <2> QED  BY <2>1
<1> QED  BY <1>1, <1>2

LEMMA MutexWait ==
  ASSUME NEW sem, NEW H, Mutex(sem, H), sem > 0, NEW p
  PROVE  Mutex(sem - 1, H \cup {p})
BY DEF Mutex

LEMMA MutexPost ==
  ASSUME NEW sem, NEW H, Mutex(sem, H), NEW p \in H
  PROVE  Mutex(sem + 1, H \ {p})
BY DEF Mutex

(* The counted processes are readers, so they can be counted. *)
LEMMA CountedFinite ==
  ASSUME TypeOK
  PROVE  IsFiniteSet(Counted)
<1>1. Counted \subseteq Reader
  BY DEF TypeOK, Counted, At, Proc, WriterLocs
<1> QED  BY <1>1, FS_Subset, ProcAssumption

(* Every process is at a place of its own kind. *)
PlacesOK ==
  /\ pc \in [Proc -> ReaderLocs \cup WriterLocs]
  /\ \A p \in Reader : pc[p] \in ReaderLocs
  /\ \A p \in Writer : pc[p] \in WriterLocs
  /\ alive \subseteq Proc

LEMMA TypeStep ==
  ASSUME TypeOK, NEW p \in Proc, NEW from, NEW to, Goto(p, from, to),
         p \in Reader => to \in ReaderLocs,
         p \in Writer => to \in WriterLocs
  PROVE  PlacesOK'
BY DEF TypeOK, PlacesOK, Goto, Proc

-----------------------------------------------------------------------------
LEMMA InitEstablishes == Init => IInv
<1> SUFFICES ASSUME Init PROVE IInv
  OBVIOUS
<1>1. /\ GateHolders = {} /\ CountHolders = {} /\ Counted = {}
      /\ ReadOwners = {} /\ WriteOwners = {}
  BY DEF Init, GateHolders, CountHolders, Counted, ReadOwners, WriteOwners, At
<1>2. TypeOK
  BY DEF Init, TypeOK, Proc, ReaderLocs, WriterLocs
<1>3. CounterExact
  BY <1>1, FS_EmptySet DEF Init, CounterExact
<1> QED  BY <1>1, <1>2, <1>3 DEF Init, IInv, Mutex, WriteInv, LastInv, LoadedInv

(* The gate: a reader takes and returns it at once, a writer keeps it. *)
LEMMA GatePreserved ==
  ASSUME IInv, [Next]_vars
  PROVE  Mutex(read_sem, GateHolders)'
<1> USE DEF IInv
<1>1. ASSUME NEW p \in Proc, WaitGate(p) \/ CloseGate(p)
      PROVE  Mutex(read_sem', GateHolders')
  <2>1. PICK from \in {"rl_gate", "wl_gate"}, to \in {"rl_pass", "wl_write"} :
          Goto(p, from, to)
    BY <1>1 DEF WaitGate, CloseGate
  <2>2. GateHolders' = GateHolders \cup {p}
    BY <2>1, AtStep DEF GateHolders
  <2>3. read_sem > 0 /\ read_sem' = read_sem - 1
    BY <1>1 DEF WaitGate, CloseGate, wait_sem
  <2> QED  BY <2>2, <2>3, MutexWait
<1>2. ASSUME NEW p \in Proc, PostGate(p) \/ OpenGate(p)
      PROVE  Mutex(read_sem', GateHolders')
  <2>1. PICK from \in {"rl_pass", "wu_gate"}, to \in {"rl_count", "wu_write"} :
          Goto(p, from, to)
    BY <1>2 DEF PostGate, OpenGate
  <2>2. GateHolders' = GateHolders \ {p} /\ p \in GateHolders
    BY <2>1, AtStep DEF GateHolders
  <2>3. read_sem' = read_sem + 1
    BY <1>2 DEF PostGate, OpenGate, post_sem
  <2> QED  BY <2>2, <2>3, MutexPost
<1>3. ASSUME NEW p \in Proc,
             \/ CallReadLock(p) \/ LockCount(p) \/ LoadCount(p) \/ CountIn(p)
             \/ FirstReader(p) \/ EnterRead(p) \/ CallReadUnlock(p) \/ RelockCount(p)
             \/ ReloadCount(p) \/ CountOut(p) \/ LastReader(p) \/ LeaveRead(p)
      PROVE  Mutex(read_sem', GateHolders')
  <2>1. PICK from \in ReaderLocs \ {"rl_pass"}, to \in ReaderLocs \ {"rl_pass"} :
          Goto(p, from, to)
    BY <1>3 DEF ReaderLocs, CallReadLock, LockCount, LoadCount, CountIn, FirstReader,
                EnterRead, CallReadUnlock, RelockCount, ReloadCount, CountOut,
                LastReader, LeaveRead
  <2>2. GateHolders' = GateHolders
    BY <2>1, AtUnchanged DEF GateHolders, ReaderLocs
  <2>3. read_sem' = read_sem
    BY <1>3 DEF CallReadLock, LockCount, LoadCount, CountIn, FirstReader,
                EnterRead, CallReadUnlock, RelockCount, ReloadCount, CountOut,
                LastReader, LeaveRead
  <2> QED  BY <2>2, <2>3
<1>4. ASSUME NEW p \in Proc,
             CallWriteLock(p) \/ EnterWrite(p) \/ CallWriteUnlock(p) \/ LeaveWrite(p)
      PROVE  Mutex(read_sem', GateHolders')
  <2>1. GateHolders' = GateHolders
    BY <1>4, AtUnchanged
       DEF GateHolders, CallWriteLock, EnterWrite, CallWriteUnlock, LeaveWrite
  <2>2. read_sem' = read_sem
    BY <1>4 DEF CallWriteLock, EnterWrite, CallWriteUnlock, LeaveWrite
  <2> QED  BY <2>1, <2>2
<1>5. CASE (\E p \in Proc : Die(p)) \/ UNCHANGED vars
  BY <1>5 DEF Die, vars, GateHolders, At
<1> QED  BY <1>1, <1>2, <1>3, <1>4, <1>5 DEF Next, ReaderStep, WriterStep, Proc

(* rdcount_sem: taken to enter and to leave, given back each time. *)
LEMMA CountSemPreserved ==
  ASSUME IInv, [Next]_vars
  PROVE  Mutex(rdcount_sem, CountHolders)'
<1> USE DEF IInv
<1>1. ASSUME NEW p \in Proc, LockCount(p) \/ RelockCount(p)
      PROVE  Mutex(rdcount_sem', CountHolders')
  <2>1. PICK from \in {"rl_count", "ru_count"}, to \in {"rl_load", "ru_load"} :
          Goto(p, from, to)
    BY <1>1 DEF LockCount, RelockCount
  <2>2. CountHolders' = CountHolders \cup {p}
    BY <2>1, AtStep DEF CountHolders
  <2>3. rdcount_sem > 0 /\ rdcount_sem' = rdcount_sem - 1
    BY <1>1 DEF LockCount, RelockCount, wait_sem
  <2> QED  BY <2>2, <2>3, MutexWait
<1>2. ASSUME NEW p \in Proc, EnterRead(p) \/ LeaveRead(p)
      PROVE  Mutex(rdcount_sem', CountHolders')
  <2>1. PICK from \in {"rl_done", "ru_done"}, to \in {"reading", "idle"} :
          Goto(p, from, to)
    BY <1>2 DEF EnterRead, LeaveRead
  <2>2. CountHolders' = CountHolders \ {p} /\ p \in CountHolders
    BY <2>1, AtStep DEF CountHolders
  <2>3. rdcount_sem' = rdcount_sem + 1
    BY <1>2 DEF EnterRead, LeaveRead, post_sem
  <2> QED  BY <2>2, <2>3, MutexPost
<1>3. ASSUME NEW p \in Proc,
             \/ LoadCount(p) \/ CountIn(p) \/ FirstReader(p)
             \/ ReloadCount(p) \/ CountOut(p) \/ LastReader(p)
      PROVE  Mutex(rdcount_sem', CountHolders')
  <2> DEFINE L == {"rl_load", "rl_inc", "rl_first", "rl_done",
                   "ru_load", "ru_dec", "ru_last", "ru_done"}
  <2>1. PICK from \in L, to \in L : Goto(p, from, to)
    BY <1>3 DEF LoadCount, CountIn, FirstReader, ReloadCount, CountOut, LastReader
  <2>2. CountHolders' = CountHolders
    BY <2>1, AtUnchanged DEF CountHolders
  <2>3. rdcount_sem' = rdcount_sem
    BY <1>3 DEF LoadCount, CountIn, FirstReader, ReloadCount, CountOut, LastReader
  <2> QED  BY <2>2, <2>3
<1>4. ASSUME NEW p \in Proc,
             \/ CallReadLock(p) \/ WaitGate(p) \/ PostGate(p) \/ CallReadUnlock(p)
             \/ CallWriteLock(p) \/ CloseGate(p) \/ EnterWrite(p)
             \/ CallWriteUnlock(p) \/ OpenGate(p) \/ LeaveWrite(p)
      PROVE  Mutex(rdcount_sem', CountHolders')
  <2> DEFINE L == {"idle", "rl_gate", "rl_pass", "rl_count", "reading", "ru_count"}
                  \cup WriterLocs
  <2>1. PICK from \in L, to \in L : Goto(p, from, to)
    BY <1>4 DEF WriterLocs, CallReadLock, WaitGate, PostGate, CallReadUnlock,
       CallWriteLock, CloseGate, EnterWrite, CallWriteUnlock, OpenGate, LeaveWrite
  <2>2. CountHolders' = CountHolders
    BY <2>1, AtUnchanged DEF CountHolders, WriterLocs
  <2>3. rdcount_sem' = rdcount_sem
    BY <1>4 DEF CallReadLock, WaitGate, PostGate, CallReadUnlock, CallWriteLock,
                CloseGate, EnterWrite, CallWriteUnlock, OpenGate, LeaveWrite
  <2> QED  BY <2>2, <2>3
<1>5. CASE (\E p \in Proc : Die(p)) \/ UNCHANGED vars
  BY <1>5 DEF Die, vars, CountHolders, At
<1> QED  BY <1>1, <1>2, <1>3, <1>4, <1>5 DEF Next, ReaderStep, WriterStep, Proc

(* The counter and the readers it counts move together. *)
LEMMA CounterPreserved ==
  ASSUME IInv, [Next]_vars
  PROVE  rdcount' \in Nat /\ CounterExact'
<1> USE DEF IInv
<1>1. Cardinality(Counted) \in Nat /\ IsFiniteSet(Counted)
  BY CountedFinite, FS_CardinalityType
<1>2. ASSUME NEW p \in Proc, CountIn(p)
      PROVE  rdcount' \in Nat /\ CounterExact'
  <2>1. PICK to \in {"rl_first", "rl_done"} : Goto(p, "rl_inc", to)
    BY <1>2 DEF CountIn
  <2>2. Counted' = Counted \cup {p} /\ p \notin Counted
    BY <2>1, AtStep DEF Counted
  <2>3. Cardinality(Counted') = Cardinality(Counted) + 1
    BY <1>1, <2>2, FS_AddElement
  <2>4. rdcount' = rdcount + 1
    BY <1>2, <2>1 DEF CountIn, LoadedInv, Goto
  <2> QED  BY <1>1, <2>3, <2>4 DEF CounterExact
<1>3. ASSUME NEW p \in Proc, CountOut(p)
      PROVE  rdcount' \in Nat /\ CounterExact'
  <2>1. PICK to \in {"ru_last", "ru_done"} : Goto(p, "ru_dec", to)
    BY <1>3 DEF CountOut
  <2>2. Counted' = Counted \ {p} /\ p \in Counted
    BY <2>1, AtStep DEF Counted
  <2>3. Cardinality(Counted') = Cardinality(Counted) - 1 /\ Cardinality(Counted') \in Nat
    BY <1>1, <2>2, FS_RemoveElement, FS_CardinalityType
  <2>4. rdcount' = rdcount - 1
    BY <1>3, <2>1 DEF CountOut, LoadedInv, Goto
  <2> QED  BY <1>1, <2>3, <2>4 DEF CounterExact
<1>4. ASSUME NEW p \in Proc,
             \/ CallReadLock(p) \/ WaitGate(p) \/ PostGate(p) \/ LockCount(p)
             \/ LoadCount(p) \/ LastReader(p) \/ LeaveRead(p)
             \/ CallWriteLock(p) \/ CloseGate(p) \/ EnterWrite(p)
             \/ CallWriteUnlock(p) \/ OpenGate(p) \/ LeaveWrite(p)
      PROVE  rdcount' \in Nat /\ CounterExact'
  <2> DEFINE L == {"idle", "rl_gate", "rl_pass", "rl_count", "rl_load", "rl_inc",
                   "ru_last", "ru_done"} \cup WriterLocs
  <2>1. PICK from \in L, to \in L : Goto(p, from, to)
    BY <1>4 DEF WriterLocs, CallReadLock, WaitGate, PostGate, LockCount, LoadCount,
       LastReader, LeaveRead, CallWriteLock, CloseGate, EnterWrite, CallWriteUnlock, OpenGate,
       LeaveWrite
  <2>2. Counted' = Counted
    BY <2>1, AtUnchanged DEF Counted, WriterLocs
  <2>3. rdcount' = rdcount
    BY <1>4 DEF CallReadLock, WaitGate, PostGate, LockCount, LoadCount, LastReader,
       LeaveRead, CallWriteLock, CloseGate, EnterWrite, CallWriteUnlock, OpenGate, LeaveWrite
  <2> QED  BY <2>2, <2>3 DEF TypeOK, CounterExact
<1>5. ASSUME NEW p \in Proc,
             \/ FirstReader(p) \/ EnterRead(p) \/ CallReadUnlock(p)
             \/ RelockCount(p) \/ ReloadCount(p)
      PROVE  rdcount' \in Nat /\ CounterExact'
  <2> DEFINE L == {"rl_first", "rl_done", "reading", "ru_count", "ru_load", "ru_dec"}
  <2>1. PICK from \in L, to \in L : Goto(p, from, to)
    BY <1>5 DEF FirstReader, EnterRead, CallReadUnlock, RelockCount, ReloadCount
  <2>2. Counted' = Counted
    BY <2>1, AtUnchanged DEF Counted
  <2>3. rdcount' = rdcount
    BY <1>5 DEF FirstReader, EnterRead, CallReadUnlock, RelockCount, ReloadCount
  <2> QED  BY <2>2, <2>3 DEF TypeOK, CounterExact
<1>6. CASE (\E p \in Proc : Die(p)) \/ UNCHANGED vars
  BY <1>6 DEF Die, vars, Counted, At, TypeOK, CounterExact
<1> QED  BY <1>2, <1>3, <1>4, <1>5, <1>6 DEF Next, ReaderStep, WriterStep, Proc

(* Only the holder of rdcount_sem changes the counter. *)
LEMMA LastPreserved ==
  ASSUME IInv, [Next]_vars
  PROVE  LastInv'
<1> USE DEF IInv
<1>1. ASSUME NEW p \in Proc, CountIn(p) \/ CountOut(p) PROVE LastInv'
  <2>1. \A q \in Proc : pc[q] # "ru_last"
    BY <1>1 DEF CountIn, CountOut, Goto, Mutex, CountHolders, At
  <2>2. \A q \in Proc : pc'[q] = "ru_last" => q = p
    BY <1>1, <2>1 DEF CountIn, CountOut, Goto, TypeOK
  <2>3. pc'[p] = "ru_last" => rdcount' = 0
    BY <1>1 DEF CountIn, CountOut, Goto, TypeOK
  <2> QED  BY <2>2, <2>3 DEF LastInv
<1>2. ASSUME NEW p \in Proc,
             \/ CallReadLock(p) \/ WaitGate(p) \/ PostGate(p) \/ LockCount(p)
             \/ LoadCount(p) \/ FirstReader(p) \/ EnterRead(p) \/ CallReadUnlock(p)
             \/ RelockCount(p) \/ ReloadCount(p) \/ LastReader(p) \/ LeaveRead(p)
             \/ CallWriteLock(p) \/ CloseGate(p) \/ EnterWrite(p)
             \/ CallWriteUnlock(p) \/ OpenGate(p) \/ LeaveWrite(p)
      PROVE  LastInv'
  <2>1. PICK from, to : to # "ru_last" /\ Goto(p, from, to)
    BY <1>2 DEF CallReadLock, WaitGate, PostGate, LockCount, LoadCount, FirstReader,
       EnterRead, CallReadUnlock, RelockCount, ReloadCount, LastReader, LeaveRead, CallWriteLock, CloseGate,
       EnterWrite, CallWriteUnlock, OpenGate, LeaveWrite
  <2>2. rdcount' = rdcount
    BY <1>2 DEF CallReadLock, WaitGate, PostGate, LockCount, LoadCount, FirstReader,
       EnterRead, CallReadUnlock, RelockCount, ReloadCount, LastReader, LeaveRead, CallWriteLock, CloseGate,
       EnterWrite, CallWriteUnlock, OpenGate, LeaveWrite
  <2>3. \A q \in Proc : pc'[q] = "ru_last" => pc[q] = "ru_last"
    BY <2>1 DEF Goto, TypeOK
  <2> QED  BY <2>2, <2>3 DEF LastInv
<1>3. CASE (\E p \in Proc : Die(p)) \/ UNCHANGED vars
  BY <1>3 DEF Die, vars, LastInv
<1> QED  BY <1>1, <1>2, <1>3 DEF Next, ReaderStep, WriterStep, Proc

(* So what the holder has loaded stays true until it stores it. *)
LEMMA LoadedPreserved ==
  ASSUME IInv, [Next]_vars
  PROVE  LoadedInv'
<1> USE DEF IInv
<1>1. ASSUME NEW p \in Proc, CountIn(p) \/ CountOut(p) PROVE LoadedInv'
  <2>1. pc[p] \in {"rl_inc", "ru_dec"} /\ pc'[p] \notin {"rl_inc", "ru_dec"}
    BY <1>1 DEF CountIn, CountOut, Goto, TypeOK
  <2>2. \A q \in Proc : pc[q] \in {"rl_inc", "ru_dec"} => q = p
    BY <2>1 DEF Mutex, CountHolders, At
  <2>3. \A q \in Proc : q # p => pc'[q] = pc[q]
    BY <1>1 DEF CountIn, CountOut, Goto, TypeOK
  <2> QED  BY <2>1, <2>2, <2>3 DEF LoadedInv
<1>2. ASSUME NEW p \in Proc, LoadCount(p) \/ ReloadCount(p) PROVE LoadedInv'
  <2>1. \A q \in Proc : q # p => pc'[q] = pc[q] /\ loaded'[q] = loaded[q]
    BY <1>2 DEF LoadCount, ReloadCount, Goto, TypeOK
  <2>2. loaded'[p] = rdcount /\ rdcount' = rdcount
    BY <1>2 DEF LoadCount, ReloadCount, TypeOK
  <2> QED  BY <2>1, <2>2 DEF LoadedInv
<1>3. ASSUME NEW p \in Proc,
             \/ CallReadLock(p) \/ WaitGate(p) \/ PostGate(p) \/ LockCount(p)
             \/ FirstReader(p) \/ EnterRead(p) \/ CallReadUnlock(p) \/ RelockCount(p)
             \/ LastReader(p) \/ LeaveRead(p)
             \/ CallWriteLock(p) \/ CloseGate(p) \/ EnterWrite(p)
             \/ CallWriteUnlock(p) \/ OpenGate(p) \/ LeaveWrite(p)
      PROVE  LoadedInv'
  <2>1. PICK from, to : to \notin {"rl_inc", "ru_dec"} /\ Goto(p, from, to)
    BY <1>3 DEF CallReadLock, WaitGate, PostGate, LockCount, FirstReader, EnterRead,
       CallReadUnlock, RelockCount, LastReader, LeaveRead, CallWriteLock, CloseGate,
       EnterWrite, CallWriteUnlock, OpenGate, LeaveWrite
  <2>2. rdcount' = rdcount /\ loaded' = loaded
    BY <1>3 DEF CallReadLock, WaitGate, PostGate, LockCount, FirstReader, EnterRead,
       CallReadUnlock, RelockCount, LastReader, LeaveRead, CallWriteLock, CloseGate,
       EnterWrite, CallWriteUnlock, OpenGate, LeaveWrite
  <2>3. \A q \in Proc : pc'[q] \in {"rl_inc", "ru_dec"} => pc'[q] = pc[q]
    BY <2>1 DEF Goto, TypeOK
  <2> QED  BY <2>2, <2>3 DEF LoadedInv
<1>4. CASE (\E p \in Proc : Die(p)) \/ UNCHANGED vars
  BY <1>4 DEF Die, vars, LoadedInv
<1> QED  BY <1>1, <1>2, <1>3, <1>4 DEF Next, ReaderStep, WriterStep, Proc

-----------------------------------------------------------------------------
(* The heart of the protocol: who owns write_sem. *)

(***************************************************************************)
(* While rdcount_sem is held by a process that is not the waiting first    *)
(* reader, every counted reader is an owner of write_sem.                  *)
(***************************************************************************)
LEMMA CountedAreOwners ==
  ASSUME IInv, NEW p \in CountHolders, pc[p] # "rl_first"
  PROVE  Counted \subseteq ReadOwners
<1>1. \A q \in Proc : pc[q] = "rl_first" => q = p
  BY DEF IInv, Mutex, CountHolders, At
<1> QED  BY <1>1 DEF Counted, ReadOwners, At

LEMMA WritePreserved ==
  ASSUME IInv, [Next]_vars
  PROVE  WriteInv'
<1> USE DEF IInv
<1>1. ASSUME NEW p \in Proc, CountIn(p) PROVE WriteInv'
  <2>1. WriteOwners' = WriteOwners
    <3>1. PICK to \in {"rl_first", "rl_done"} : Goto(p, "rl_inc", to)
      BY <1>1 DEF CountIn
    <3> QED  BY <3>1, AtUnchanged DEF WriteOwners
  <2>2. write_sem' = write_sem
    BY <1>1 DEF CountIn
  <2> loaded[p] = rdcount
    BY <1>1 DEF CountIn, Goto, LoadedInv
  <2>3. CASE rdcount + 1 = 1
    <3>1. Goto(p, "rl_inc", "rl_first")
      BY <1>1, <2>3 DEF CountIn
    <3>2. ReadOwners' = ReadOwners
      BY <3>1, AtUnchanged DEF ReadOwners
    <3> QED  BY <2>1, <2>2, <3>2 DEF WriteInv
  <2>4. CASE rdcount + 1 # 1
    <3>1. Goto(p, "rl_inc", "rl_done")
      BY <1>1, <2>4 DEF CountIn
    <3>2. ReadOwners' = ReadOwners \cup {p}
      BY <3>1, AtStep DEF ReadOwners
    <3>3. Counted # {}
      <4>1. Cardinality(Counted) # 0
        BY <2>4 DEF CounterExact, TypeOK
      <4> QED  BY <4>1, FS_EmptySet
    <3>4. p \in CountHolders /\ pc[p] # "rl_first"
      BY <3>1 DEF CountHolders, At, Goto
    <3>5. ReadOwners # {}
      BY <3>3, <3>4, CountedAreOwners
    <3> QED  BY <2>1, <2>2, <3>2, <3>5 DEF WriteInv
  <2> QED  BY <2>3, <2>4
<1>2. ASSUME NEW p \in Proc, FirstReader(p) PROVE WriteInv'
  <2>1. Goto(p, "rl_first", "rl_done")
    BY <1>2 DEF FirstReader
  <2>2. ReadOwners' = ReadOwners \cup {p} /\ WriteOwners' = WriteOwners
    BY <2>1, AtStep, AtUnchanged DEF ReadOwners, WriteOwners
  <2>3. write_sem > 0 /\ write_sem' = write_sem - 1
    BY <1>2 DEF FirstReader, wait_sem
  <2> QED  BY <2>2, <2>3 DEF WriteInv
<1>3. ASSUME NEW p \in Proc, CountOut(p) PROVE WriteInv'
  <2>1. WriteOwners' = WriteOwners
    <3>1. PICK to \in {"ru_last", "ru_done"} : Goto(p, "ru_dec", to)
      BY <1>3 DEF CountOut
    <3> QED  BY <3>1, AtUnchanged DEF WriteOwners
  <2>2. write_sem' = write_sem
    BY <1>3 DEF CountOut
  <2> loaded[p] = rdcount
    BY <1>3 DEF CountOut, Goto, LoadedInv
  <2>3. CASE rdcount - 1 = 0
    <3>1. Goto(p, "ru_dec", "ru_last")
      BY <1>3, <2>3 DEF CountOut
    <3>2. ReadOwners' = ReadOwners
      BY <3>1, AtUnchanged DEF ReadOwners
    <3> QED  BY <2>1, <2>2, <3>2 DEF WriteInv
  <2>4. CASE rdcount - 1 # 0
    <3>1. Goto(p, "ru_dec", "ru_done")
      BY <1>3, <2>4 DEF CountOut
    <3>2. ReadOwners' = ReadOwners \ {p} /\ p \in ReadOwners
      BY <3>1, AtStep DEF ReadOwners
    <3>3. p \in Counted /\ IsFiniteSet(Counted)
      BY <3>1, CountedFinite DEF Counted, At, Goto
    <3>4. Counted \ {p} # {}
      BY <2>4, <3>3, FS_RemoveElement, FS_EmptySet DEF CounterExact, TypeOK
    <3>5. p \in CountHolders /\ pc[p] # "rl_first"
      BY <3>1 DEF CountHolders, At, Goto
    <3>6. ReadOwners \ {p} # {}
      BY <3>4, <3>5, CountedAreOwners
    <3> QED  BY <2>1, <2>2, <3>2, <3>6 DEF WriteInv
  <2> QED  BY <2>3, <2>4
<1>4. ASSUME NEW p \in Proc, LastReader(p) PROVE WriteInv'
  <2>1. Goto(p, "ru_last", "ru_done")
    BY <1>4 DEF LastReader
  <2>2. ReadOwners' = ReadOwners \ {p} /\ p \in ReadOwners
    BY <2>1, AtStep DEF ReadOwners
  <2>3. WriteOwners' = WriteOwners
    BY <2>1, AtUnchanged DEF WriteOwners
  <2>4. write_sem' = write_sem + 1
    BY <1>4 DEF LastReader, post_sem
  <2>5. Counted = {}
    <3>1. rdcount = 0
      BY <2>1 DEF LastInv, Goto
    <3> QED  BY <3>1, CountedFinite, FS_EmptySet DEF CounterExact
  <2>6. ReadOwners \ {p} = {}
    <3>1. p \in CountHolders
      BY <2>1 DEF CountHolders, At, Goto
    <3> QED  BY <2>5, <3>1 DEF ReadOwners, Counted, CountHolders, Mutex, At
  <2> QED  BY <2>2, <2>3, <2>4, <2>6 DEF WriteInv
<1>5. ASSUME NEW p \in Proc, EnterWrite(p) PROVE WriteInv'
  <2>1. Goto(p, "wl_write", "writing")
    BY <1>5 DEF EnterWrite
  <2>2. WriteOwners' = WriteOwners \cup {p} /\ ReadOwners' = ReadOwners
    BY <2>1, AtStep, AtUnchanged DEF ReadOwners, WriteOwners
  <2>3. write_sem > 0 /\ write_sem' = write_sem - 1
    BY <1>5 DEF EnterWrite, wait_sem
  <2> QED  BY <2>2, <2>3 DEF WriteInv
<1>6. ASSUME NEW p \in Proc, LeaveWrite(p) PROVE WriteInv'
  <2>1. Goto(p, "wu_write", "idle")
    BY <1>6 DEF LeaveWrite
  <2>2. WriteOwners' = WriteOwners \ {p} /\ p \in WriteOwners
    BY <2>1, AtStep DEF WriteOwners
  <2>3. ReadOwners' = ReadOwners
    BY <2>1, AtUnchanged DEF ReadOwners
  <2>4. write_sem' = write_sem + 1
    BY <1>6 DEF LeaveWrite, post_sem
  <2> QED  BY <2>2, <2>3, <2>4 DEF WriteInv
<1>7. ASSUME NEW p \in Proc,
             \/ CallReadLock(p) \/ WaitGate(p) \/ PostGate(p) \/ LockCount(p)
             \/ LoadCount(p) \/ LeaveRead(p) \/ CallWriteLock(p) \/ CloseGate(p)
      PROVE  WriteInv'
  <2> DEFINE L == {"idle", "rl_gate", "rl_pass", "rl_count", "rl_load", "rl_inc",
                   "ru_done", "wl_gate", "wl_write"}
  <2>1. PICK from \in L, to \in L : Goto(p, from, to)
    BY <1>7 DEF CallReadLock, WaitGate, PostGate, LockCount, LoadCount,
                LeaveRead, CallWriteLock, CloseGate
  <2>2. ReadOwners' = ReadOwners /\ WriteOwners' = WriteOwners
    BY <2>1, AtUnchanged DEF ReadOwners, WriteOwners
  <2>3. write_sem' = write_sem
    BY <1>7 DEF CallReadLock, WaitGate, PostGate, LockCount, LoadCount,
                LeaveRead, CallWriteLock, CloseGate
  <2> QED  BY <2>2, <2>3 DEF WriteInv
<1>8. ASSUME NEW p \in Proc,
             \/ EnterRead(p) \/ CallReadUnlock(p) \/ RelockCount(p) \/ ReloadCount(p)
      PROVE  WriteInv'
  <2> DEFINE L == {"rl_done", "reading", "ru_count", "ru_load", "ru_dec"}
  <2>1. PICK from \in L, to \in L : Goto(p, from, to)
    BY <1>8 DEF EnterRead, CallReadUnlock, RelockCount, ReloadCount
  <2>2. ReadOwners' = ReadOwners /\ WriteOwners' = WriteOwners
    BY <2>1, AtUnchanged DEF ReadOwners, WriteOwners
  <2>3. write_sem' = write_sem
    BY <1>8 DEF EnterRead, CallReadUnlock, RelockCount, ReloadCount
  <2> QED  BY <2>2, <2>3 DEF WriteInv
<1>9. ASSUME NEW p \in Proc, CallWriteUnlock(p) \/ OpenGate(p) PROVE WriteInv'
  <2> DEFINE L == {"writing", "wu_gate", "wu_write"}
  <2>1. PICK from \in L, to \in L : Goto(p, from, to)
    BY <1>9 DEF CallWriteUnlock, OpenGate
  <2>2. ReadOwners' = ReadOwners /\ WriteOwners' = WriteOwners
    BY <2>1, AtUnchanged DEF ReadOwners, WriteOwners
  <2>3. write_sem' = write_sem
    BY <1>9 DEF CallWriteUnlock, OpenGate
  <2> QED  BY <2>2, <2>3 DEF WriteInv
<1>10. CASE (\E p \in Proc : Die(p)) \/ UNCHANGED vars
  BY <1>10 DEF Die, vars, ReadOwners, WriteOwners, At, WriteInv
<1> QED  BY <1>1, <1>2, <1>3, <1>4, <1>5, <1>6, <1>7, <1>8, <1>9, <1>10
         DEF Next, ReaderStep, WriterStep, Proc
-----------------------------------------------------------------------------
LEMMA TypePreserved ==
  ASSUME IInv, [Next]_vars
  PROVE  TypeOK'
<1> USE DEF IInv
<1>1. read_sem' \in {0, 1} /\ rdcount_sem' \in {0, 1} /\ write_sem' \in {0, 1}
  BY GatePreserved, CountSemPreserved, WritePreserved DEF Mutex, WriteInv
<1>2. rdcount' \in Nat
  BY CounterPreserved
<1>3. ASSUME NEW p \in Reader, CallReadLock(p) \/ ReaderStep(p) PROVE PlacesOK'
  <2>1. PICK from, to : to \in ReaderLocs /\ Goto(p, from, to)
    BY <1>3 DEF ReaderStep, ReaderLocs, CallReadLock, WaitGate, PostGate, LockCount,
       LoadCount, ReloadCount, CountIn, FirstReader, EnterRead, CallReadUnlock, RelockCount, CountOut,
       LastReader, LeaveRead
  <2>2. p \in Proc /\ p \notin Writer
    BY ProcAssumption DEF Proc
  <2> QED  BY <2>1, <2>2, TypeStep
<1>4. ASSUME NEW p \in Writer, CallWriteLock(p) \/ WriterStep(p) PROVE PlacesOK'
  <2>1. PICK from, to : to \in WriterLocs /\ Goto(p, from, to)
    BY <1>4 DEF WriterStep, WriterLocs, CallWriteLock, CloseGate, EnterWrite,
       CallWriteUnlock, OpenGate, LeaveWrite
  <2>2. p \in Proc /\ p \notin Reader
    BY ProcAssumption DEF Proc
  <2> QED  BY <2>1, <2>2, TypeStep
<1>5. ASSUME (\E p \in Proc : Die(p)) \/ UNCHANGED vars PROVE PlacesOK'
  BY <1>5 DEF Die, vars, TypeOK, PlacesOK
<1>6. PlacesOK'
  BY <1>3, <1>4, <1>5 DEF Next
<1>7. loaded' \in [Proc -> Nat]
  <2>1. CASE UNCHANGED loaded
    BY <2>1 DEF TypeOK
  <2>2. ASSUME NEW p \in Proc, NEW v \in Nat, loaded' = [loaded EXCEPT ![p] = v]
        PROVE  loaded' \in [Proc -> Nat]
    BY <2>2 DEF TypeOK
  <2>3. ASSUME NEW p \in Proc,
               LoadCount(p) \/ ReloadCount(p) \/ CountIn(p) \/ CountOut(p)
        PROVE  loaded' \in [Proc -> Nat]
    BY <2>2, <2>3 DEF LoadCount, ReloadCount, CountIn, CountOut, TypeOK
  <2>4. ASSUME NEW p \in Proc,
               \/ CallReadLock(p) \/ WaitGate(p) \/ PostGate(p) \/ LockCount(p)
               \/ FirstReader(p) \/ EnterRead(p) \/ CallReadUnlock(p)
               \/ RelockCount(p) \/ LastReader(p) \/ LeaveRead(p)
               \/ CallWriteLock(p) \/ WriterStep(p) \/ Die(p)
        PROVE  UNCHANGED loaded
    BY <2>4 DEF CallReadLock, WaitGate, PostGate, LockCount, FirstReader, EnterRead,
       CallReadUnlock, RelockCount, LastReader, LeaveRead, CallWriteLock, WriterStep,
       CloseGate, EnterWrite, CallWriteUnlock, OpenGate, LeaveWrite, Die
  <2> QED  BY <2>1, <2>3, <2>4 DEF Next, ReaderStep, Proc, vars
<1> QED  BY <1>1, <1>2, <1>6, <1>7 DEF TypeOK, PlacesOK

LEMMA NextPreserves == IInv /\ [Next]_vars => IInv'
BY TypePreserved, CounterPreserved, GatePreserved, CountSemPreserved, WritePreserved,
   LastPreserved, LoadedPreserved DEF IInv

(* The whole invariant always holds. *)
THEOREM Invariance == Spec => []IInv
BY InitEstablishes, NextPreserves, PTL DEF Spec

(* task11/rwlock.c: every variable keeps its type; no semaphore exceeds one. *)
THEOREM TypeCorrect == Spec => []TypeOK
<1>1. IInv => TypeOK
  BY DEF IInv
<1> QED  BY <1>1, Invariance, PTL

(* task11/rwlock.c: rdcount is the number of the readers counted, and never wraps. *)
THEOREM CounterAlwaysExact == Spec => []CounterExact
<1>1. IInv => CounterExact
  BY DEF IInv
<1> QED  BY <1>1, Invariance, PTL

LEMMA IInvExcludes == IInv => Exclusion
<1> SUFFICES ASSUME IInv PROVE Exclusion
  OBVIOUS
<1>1. \A r \in Reader : pc[r] = "reading" => r \in ReadOwners
  BY DEF ReadOwners, At, Proc
<1>2. \A w \in Writer : pc[w] = "writing" => w \in WriteOwners
  BY DEF WriteOwners, At, Proc
<1> QED  BY <1>1, <1>2 DEF Exclusion, IInv, WriteInv

(***************************************************************************)
(* task11/rwlock.c: a reader and a writer, or two writers, are never       *)
(* inside together, whoever died holding what.                             *)
(***************************************************************************)
THEOREM AlwaysExclusive == Spec => []Exclusion
BY IInvExcludes, Invariance, PTL

LEMMA AtMostOne ==
  ASSUME NEW S, \A p, q \in S : p = q
  PROVE  Cardinality(S) = IF S = {} THEN 0 ELSE 1
<1>1. CASE S = {}
  BY <1>1, FS_EmptySet
<1>2. CASE S # {}
  <2>1. PICK p \in S : TRUE
    BY <1>2
  <2>2. S = {} \cup {p}
    BY <2>1
  <2> QED  BY <1>2, <2>2, FS_EmptySet, FS_AddElement
<1> QED  BY <1>1, <1>2

LEMMA IInvConserves == IInv => PermitsConserved
<1> SUFFICES ASSUME IInv PROVE PermitsConserved
  OBVIOUS
<1>1. read_sem + Cardinality(GateHolders) = 1
  BY AtMostOne DEF IInv, Mutex
<1>2. rdcount_sem + Cardinality(CountHolders) = 1
  BY AtMostOne DEF IInv, Mutex
<1>3. write_sem + Cardinality(WriteOwners) + (IF ReadOwners = {} THEN 0 ELSE 1) = 1
  <2>1. Cardinality(WriteOwners) = IF WriteOwners = {} THEN 0 ELSE 1
    BY AtMostOne DEF IInv, WriteInv
  <2> QED  BY <2>1 DEF IInv, WriteInv
<1> QED  BY <1>1, <1>2, <1>3 DEF PermitsConserved

(* task11/rwlock.c: each semaphore is one less the number of its holders. *)
THEOREM PermitsAlwaysConserved == Spec => []PermitsConserved
BY IInvConserves, Invariance, PTL

(* With the gate shut by w a reader cannot pass it, nor another writer have it. *)
LEMMA GateIsShut ==
  ASSUME IInv, NEW w \in Writer, pc[w] = "wl_write", pc'[w] = "wl_write", [Next]_vars
  PROVE  PastGate' \subseteq PastGate
<1>1. w \in GateHolders /\ read_sem = 0
  BY DEF IInv, TypeOK, Mutex, GateHolders, At, Proc
<1>2. pc \in [Proc -> ReaderLocs \cup WriterLocs]
  BY DEF IInv, TypeOK
<1> SUFFICES ASSUME NEW q \in Proc, pc'[q] \in (ReaderLocs \ {"idle", "rl_gate"}) \cup {"writing"}
             PROVE  pc[q] \in (ReaderLocs \ {"idle", "rl_gate"}) \cup {"writing"}
  BY DEF PastGate, At
<1>3. CASE pc' = pc
  BY <1>3
<1>4. ASSUME NEW p \in Reader, CallReadLock(p) \/ ReaderStep(p)
      PROVE  pc[q] \in (ReaderLocs \ {"idle", "rl_gate"}) \cup {"writing"}
  <2>1. ~WaitGate(p)
    BY <1>1 DEF WaitGate, wait_sem
  <2>2. PICK from, to : /\ pc[p] = from /\ pc' = [pc EXCEPT ![p] = to]
                        /\ \/ from \in ReaderLocs \ {"idle", "rl_gate"}
                           \/ to = "rl_gate"
    BY <1>4, <2>1 DEF ReaderStep, CallReadLock, PostGate, LockCount, LoadCount, CountIn,
       FirstReader, EnterRead, CallReadUnlock, RelockCount, ReloadCount, CountOut,
       LastReader, LeaveRead, Goto, ReaderLocs
  <2> QED  BY <1>2, <2>2 DEF Proc
<1>5. ASSUME NEW p \in Writer, CallWriteLock(p) \/ WriterStep(p)
      PROVE  pc[q] \in (ReaderLocs \ {"idle", "rl_gate"}) \cup {"writing"}
  <2>1. ~EnterWrite(p)
    <3> SUFFICES ASSUME EnterWrite(p) PROVE FALSE
      OBVIOUS
    <3>1. p \in GateHolders
      BY DEF EnterWrite, Goto, GateHolders, At, Proc
    <3>2. p = w
      BY <1>1, <3>1 DEF IInv, Mutex
    <3> QED  BY <1>2, <3>2 DEF EnterWrite, Goto, Proc
  <2>2. PICK to \in WriterLocs \ {"writing"} : pc' = [pc EXCEPT ![p] = to]
    BY <1>5, <2>1 DEF WriterStep, CallWriteLock, CloseGate, CallWriteUnlock, OpenGate,
       LeaveWrite, Goto, WriterLocs
  <2> QED  BY <1>2, <2>2 DEF Proc, ReaderLocs, WriterLocs
<1> QED  BY <1>3, <1>4, <1>5 DEF Next, Die, vars

(***************************************************************************)
(* task11/rwlock.c, rwlock_write_lock: while a writer that has taken       *)
(* read_sem waits for write_sem, no step brings another process past it.   *)
(***************************************************************************)
THEOREM NewcomersAlwaysStopped == Spec => GateStopsNewcomers
<1>1. IInv /\ [Next]_vars
        => [\A w \in Writer : pc[w] = "wl_write" /\ pc'[w] = "wl_write"
                               => PastGate' \subseteq PastGate]_vars
  BY GateIsShut
<1> QED  BY <1>1, Invariance, PTL DEF Spec, GateStopsNewcomers
=============================================================================
