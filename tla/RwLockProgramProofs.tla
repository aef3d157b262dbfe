------------------------- MODULE RwLockProgramProofs -------------------------
(***************************************************************************)
(* Theorems about the programs that use the locks, Task11Program and       *)
(* Task09Program, for any number of writers and readers and whatever forks *)
(* fail.  Each program uses its lock as it is to be used, so that it       *)
(* inherits what is proved of the lock; nothing is written in task11       *)
(* before every child is forked; and both programs implement SharedFile,   *)
(* whichever children fail while they are at the file.                     *)
(***************************************************************************)
EXTENDS Task11Program, TLAPS

AtLocs == {"unborn", "absent", "boot", "top", "work", "opened", "unlock", "leave"}
PcLocs == Lock!ReaderLocs \cup Lock!WriterLocs

Placed == pc \in [Proc -> PcLocs] /\ at \in [Proc -> AtLocs]

(* Where a child may be in the lock while the gate is shut. *)
BeforeGate == {"idle", "rl_gate", "wl_gate"}

(* main() has not reached the gate, and has forked nobody. *)
NoneForked == /\ read_sem = 1 /\ pc[Main] \in {"idle", "wl_gate"}
              /\ Unborn(Children) = Children

(* main() has passed the gate and shut it behind itself. *)
GateShut == read_sem = 0 /\ pc[Main] \in {"wl_write", "writing"}

(***************************************************************************)
(* While a child is still to be forked the others can come as far as the   *)
(* gate of the lock, and main() has not begun to unlock.                   *)
(***************************************************************************)
Forking ==
  Unborn(Children) # {}
  => /\ file = "empty"
     /\ at[Main] \in {"top", "work"}
     /\ \A c \in Children : pc[c] \in BeforeGate
     /\ NoneForked \/ GateShut

(* A child that is not born has called nothing. *)
UnbornIdle == \A c \in Proc : at[c] = "unborn" => pc[c] = "idle"

IInv == Placed /\ UnbornIdle /\ Forking

LEMMA InitEstablishes == Init => IInv
BY ProgramAssumption
   DEF Init, Lock!Init, PcLocs, AtLocs, Lock!ReaderLocs, Lock!WriterLocs, Lock!Proc, Proc,
       Children, IInv, Placed, UnbornIdle, Forking,
       NoneForked, BeforeGate, Unborn

(***************************************************************************)
(* The steps of one process in the lock: of all that they do, the places   *)
(* they lead from and to, and what they do to the gate.                    *)
(***************************************************************************)
Inside(p) ==
  /\ p \in alive
  /\ UNCHANGED <<at, file, pipe, alive>>
  /\ \E to \in PcLocs :
       /\ pc' = [pc EXCEPT ![p] = to]
       /\ \/ /\ pc[p] \in {"rl_gate", "wl_gate"} /\ (pc[p] = "wl_gate" => to = "wl_write")
             /\ read_sem > 0 /\ read_sem' = read_sem - 1
          \/ pc[p] = "wl_write" /\ to = "writing" /\ UNCHANGED read_sem
          \/ pc[p] \notin BeforeGate \cup {"wl_write", "writing"}

LEMMA LockStepInside ==
  ASSUME NEW p \in Proc, LockStep(p)
  PROVE  Inside(p)
<1> USE DEF InLock, Inside, BeforeGate, PcLocs, Lock!ReaderLocs, Lock!WriterLocs, Lock!Goto,
            Lock!wait_sem
<1>1. CASE p \in Writer
  <2> USE DEF LockStep, Lock!CloseGate, Lock!EnterWrite, Lock!OpenGate, Lock!LeaveWrite
  <2>1. CASE pc[p] = "wl_gate"
    BY <1>1, <2>1
  <2>2. CASE pc[p] = "wl_write"
    BY <1>1, <2>2
  <2>3. CASE pc[p] \in {"wu_gate", "wu_write"}
    BY <1>1, <2>3
  <2> QED  BY <1>1, <2>1, <2>2, <2>3
<1>2. CASE p \notin Writer
  <2> USE DEF LockStep, Lock!WaitGate, Lock!PostGate,
              Lock!LockCount, Lock!LoadCount, Lock!CountIn, Lock!FirstReader,
              Lock!EnterRead, Lock!RelockCount, Lock!ReloadCount, Lock!CountOut,
              Lock!LastReader, Lock!LeaveRead
  <2>1. CASE pc[p] = "rl_gate"
    BY <1>2, <2>1
  <2>2. CASE pc[p] # "rl_gate"
    BY <1>2, <2>2
  <2> QED  BY <2>1, <2>2
<1> QED  BY <1>1, <1>2

LEMMA LockPreserves ==
  ASSUME IInv, NEW p \in Proc, Inside(p)
  PROVE  IInv'
<1> USE DEF IInv, Inside
<1>1. Placed'
  BY DEF Placed
<1>2. UnbornIdle'
  BY DEF Placed, UnbornIdle, BeforeGate
<1>3. Forking'
  <2> SUFFICES ASSUME Unborn(Children) # {}
               PROVE  /\ \A c \in Children : pc'[c] \in BeforeGate
                      /\ (NoneForked \/ GateShut)'
    BY DEF Forking, Unborn
  <2>1. CASE p = Main
    BY <2>1 DEF Placed, Forking, NoneForked, GateShut, BeforeGate, Unborn, Children
  <2>2. CASE p # Main
    <3>1. p \in Children /\ pc[p] \in {"rl_gate", "wl_gate"} /\ read_sem > 0
      BY <2>2 DEF Forking, BeforeGate, Children
    <3>2. NoneForked /\ at[p] = "unborn"
      BY <3>1 DEF Forking, NoneForked, GateShut, Unborn
    <3> QED  BY <3>1, <3>2 DEF UnbornIdle
  <2> QED  BY <2>1, <2>2
<1> QED  BY <1>1, <1>2, <1>3

(* The steps that call the lock. *)
LEMMA MainLockPreserves ==
  ASSUME IInv, MainLock
  PROVE  IInv'
<1> USE ProgramAssumption DEF MainLock, Move, Lock!CallWriteLock, Lock!Goto
<1>1. Placed'
  BY DEF IInv, Placed, PcLocs, AtLocs, Lock!WriterLocs
<1>2. UnbornIdle'
  BY DEF IInv, Placed, UnbornIdle, Proc
<1>3. Unborn(Children)' = Unborn(Children)
  BY DEF IInv, Placed, Unborn, Children
<1>4. Forking'
  BY <1>3 DEF IInv, Placed, Forking, NoneForked, GateShut, Children, Proc
<1> QED  BY <1>1, <1>2, <1>4 DEF IInv

LEMMA LockFilePreserves ==
  ASSUME IInv, NEW p \in Proc, LockFile(p)
  PROVE  IInv'
<1> USE ProgramAssumption
    DEF LockFile, Move, Lock!CallWriteLock, Lock!CallReadLock, Lock!Goto
<1>1. Placed'
  BY DEF IInv, Placed, PcLocs, AtLocs, Lock!WriterLocs, Lock!ReaderLocs
<1>2. UnbornIdle'
  BY DEF IInv, Placed, UnbornIdle, Proc
<1>3. Unborn(Children)' = Unborn(Children)
  BY DEF IInv, Placed, Unborn, Children
<1>4. Forking'
  BY <1>3 DEF IInv, Placed, Forking, NoneForked, GateShut, BeforeGate, Children, Proc
<1> QED  BY <1>1, <1>2, <1>4 DEF IInv

(* main() unlocks when every child is forked; no child unlocks before. *)
LEMMA UnlockFilePreserves ==
  ASSUME IInv, NEW p \in Proc, UnlockFile(p)
  PROVE  IInv'
<1> USE ProgramAssumption
    DEF UnlockFile, Move, Lock!CallWriteUnlock, Lock!CallReadUnlock, Lock!Goto
<1>1. Placed'
  BY DEF IInv, Placed, PcLocs, AtLocs, Lock!WriterLocs, Lock!ReaderLocs
<1>2. UnbornIdle'
  BY DEF IInv, Placed, UnbornIdle, Proc
<1>3. Unborn(Children)' = Unborn(Children)
  BY DEF IInv, Placed, Unborn, Children
<1>4. Unborn(Children) = {}
  BY DEF IInv, Forking, BeforeGate, Children
<1> QED  BY <1>1, <1>2, <1>3, <1>4 DEF IInv, Forking

-----------------------------------------------------------------------------
(* The steps of main.c between two calls of the lock. *)
LEMMA ForkPreserves ==
  ASSUME IInv, NEW c \in Children, Fork(c)
  PROVE  IInv'
<1> USE ProgramAssumption DEF Fork, Move, lockVars
<1>1. Placed'
  BY DEF IInv, Placed, AtLocs
<1>2. UnbornIdle'
  BY DEF IInv, Placed, UnbornIdle, Proc
<1>3. Unborn(Children)' \subseteq Unborn(Children)
  BY DEF IInv, Placed, Unborn, Children
<1>4. GateShut \/ Unborn(Children) = {}
  BY DEF IInv, Forking, NoneForked
<1>5. Forking'
  BY <1>3, <1>4 DEF IInv, Placed, Forking, GateShut, BeforeGate, Children, Proc
<1> QED  BY <1>1, <1>2, <1>5 DEF IInv

(* What a process does outside the lock and outside main(). *)
LEMMA ChildPreserves ==
  ASSUME IInv, NEW p \in Proc, NEW from \in AtLocs \ {"unborn"},
         NEW to \in AtLocs \ {"unborn"},
         Move(p, from, to), UNCHANGED lockVars,
         p = Main => Unborn(Children) = {},
         file' = file \/ Unborn(Children) = {}
  PROVE  IInv'
<1> USE ProgramAssumption DEF Move, lockVars
<1>1. Placed'
  BY DEF IInv, Placed
<1>2. UnbornIdle'
  BY DEF IInv, Placed, UnbornIdle, Proc
<1>3. Unborn(Children)' = Unborn(Children)
  BY DEF IInv, Placed, Unborn, Children
<1>4. Forking'
  BY <1>3 DEF IInv, Placed, Forking, NoneForked, GateShut, Children, Proc
<1> QED  BY <1>1, <1>2, <1>4 DEF IInv

(* Whoever ends leaves the others and the lock where they are.             *)
LEMMA DeathPreserves ==
  ASSUME IInv, BrokenPipe \/ \E p \in Proc : Fail(p)
  PROVE  IInv'
BY DEF IInv, BrokenPipe, Fail, Lock!Die, Placed, UnbornIdle, Forking, NoneForked, GateShut,
       Unborn

-----------------------------------------------------------------------------
LEMMA StepPreserves ==
  ASSUME IInv, [Next]_vars
  PROVE  IInv'
<1> USE DEF AtLocs
<1>1. CASE MainLock
  BY <1>1, MainLockPreserves
<1>2. ASSUME NEW c \in Children, Fork(c) PROVE IInv'
  BY <1>2, ForkPreserves
<1>3. CASE MainClosePipe
  BY <1>3, ProgramAssumption, ChildPreserves DEF MainClosePipe, Proc
<1>4. ASSUME NEW p \in Proc, Turn(p) PROVE IInv'
  <2>1. CASE CloseEnds(p)
    <3>1. p # Main \/ Unborn(Children) = {}
      BY <2>1 DEF CloseEnds, Move, IInv, Forking
    <3> QED  BY <2>1, <3>1, ChildPreserves DEF CloseEnds
  <2>2. CASE LockFile(p)
    BY <2>2, LockFilePreserves
  <2>3. CASE LockStep(p)
    BY <2>3, LockStepInside, LockPreserves
  <2>4. CASE WriteFile(p)
    <3>1. Unborn(Children) = {}
      BY <2>4 DEF WriteFile, IInv, Forking, BeforeGate, Children
    <3> QED  BY <2>4, <3>1, ChildPreserves DEF WriteFile
  <2>5. CASE p \in Reader /\ (OpenFile(p) \/ ReadFile(p))
    BY <2>5, ProgramAssumption, ChildPreserves DEF OpenFile, ReadFile
  <2>6. CASE UnlockFile(p)
    BY <2>6, UnlockFilePreserves
  <2>7. CASE Sleep(p)
    BY <2>7, ChildPreserves DEF Sleep
  <2> QED  BY <1>4, <2>1, <2>2, <2>3, <2>4, <2>5, <2>6, <2>7 DEF Turn
<1>5. CASE ReadPipe
  BY <1>5, ProgramAssumption, ChildPreserves DEF ReadPipe, Proc
<1>6. CASE WritePipe
  BY <1>6, ProgramAssumption, ChildPreserves DEF WritePipe, Proc
<1>7. CASE BrokenPipe \/ \E p \in Faulty : Fail(p)
  BY <1>7, ProgramAssumption, DeathPreserves DEF Proc
<1>8. CASE UNCHANGED vars
  BY <1>8 DEF vars, lockVars, IInv, Placed, UnbornIdle, Forking,
              NoneForked, GateShut, Unborn
<1> QED  BY <1>1, <1>2, <1>3, <1>4, <1>5, <1>6, <1>7, <1>8 DEF Next, Stuck

LEMMA Inductive == Spec => []IInv
<1>1. Init => IInv
  BY InitEstablishes
<1>2. IInv /\ [Next]_vars => IInv'
  BY StepPreserves
<1> QED  BY <1>1, <1>2, PTL DEF Spec

(***************************************************************************)
(* Nothing is written into numbers.bin while main() still forks.           *)
(***************************************************************************)
THEOREM AlwaysStartTogether == Spec => []StartTogether
<1>1. IInv => StartTogether
  BY DEF IInv, Forking, StartTogether
<1> QED  BY <1>1, Inductive, PTL

-----------------------------------------------------------------------------
(* What a step of the program does to the lock is a step of the lock.      *)
LEMMA StepUsesLock ==
  ASSUME [Next]_vars
  PROVE  [Lock!Next]_(Lock!vars)
<1> USE ProgramAssumption DEF Lock!Next, Lock!vars, Lock!Proc, Proc
<1>1. CASE MainLock
  BY <1>1 DEF MainLock
<1>2. CASE (\E c \in Children : Fork(c)) \/ MainClosePipe \/ ReadPipe \/ WritePipe
  BY <1>2 DEF Fork, MainClosePipe, ReadPipe, WritePipe, lockVars
<1>3. CASE BrokenPipe \/ \E p \in Faulty : Fail(p)
  BY <1>3 DEF BrokenPipe, Fail
<1>4. ASSUME NEW p \in Proc, Turn(p) PROVE [Lock!Next]_(Lock!vars)
  <2>1. CASE CloseEnds(p) \/ WriteFile(p) \/ OpenFile(p) \/ ReadFile(p) \/ Sleep(p)
    BY <2>1 DEF CloseEnds, WriteFile, OpenFile, ReadFile, Sleep, lockVars
  <2>2. CASE LockFile(p)
    BY <2>2 DEF LockFile
  <2>3. CASE UnlockFile(p)
    BY <2>3 DEF UnlockFile, Lock!ReaderStep, Lock!WriterStep
  <2>4. CASE LockStep(p)
    BY <2>4 DEF LockStep, InLock, Lock!ReaderStep, Lock!WriterStep
  <2> QED  BY <1>4, <2>1, <2>2, <2>3, <2>4 DEF Turn
<1>5. CASE UNCHANGED vars
  BY <1>5 DEF vars, lockVars
<1> QED  BY <1>1, <1>2, <1>3, <1>4, <1>5 DEF Next, Stuck

(***************************************************************************)
(* main.c uses the lock as it is to be used: what all its processes do to  *)
(* the semaphores and the counter is a behaviour of task11/rwlock.c.       *)
(***************************************************************************)
THEOREM UsesLock == Spec => Lock!Spec
<1>1. Init => Lock!Init
  BY DEF Init
<1> QED  BY <1>1, StepUsesLock, PTL DEF Spec, Lock!Spec

LockProofs == INSTANCE PosixRwLockProofs WITH Mortal <- {R0} \cup Faulty

LEMMA LockIsExclusive == LockProofs!Spec => []LockProofs!Exclusion
<1>1. LockProofs!IsFiniteSet(Reader)
  BY ProgramAssumption DEF IsFiniteSet, LockProofs!IsFiniteSet
<1> QED  BY <1>1, ProgramAssumption, LockProofs!AlwaysExclusive

(* The lock of the program and that of the theorems are the same.          *)
LEMMA SameLock == Lock!Spec => LockProofs!Spec
<1>1. Lock!Init => LockProofs!Init
  BY DEF Lock!Init, Lock!Proc, LockProofs!Init, LockProofs!Proc
<1>2. [Lock!Next]_(Lock!vars) => [LockProofs!Next]_(LockProofs!vars)
  <2>1. ASSUME NEW p PROVE Lock!ReaderStep(p) => LockProofs!ReaderStep(p)
    BY DEF Lock!ReaderStep, Lock!WaitGate, Lock!PostGate, Lock!LockCount, Lock!LoadCount,
       Lock!CountIn, Lock!FirstReader, Lock!EnterRead, Lock!CallReadUnlock,
       Lock!RelockCount, Lock!ReloadCount, Lock!CountOut, Lock!LastReader, Lock!LeaveRead,
       Lock!Goto, Lock!wait_sem, Lock!post_sem,
       LockProofs!ReaderStep, LockProofs!WaitGate, LockProofs!PostGate,
       LockProofs!LockCount, LockProofs!LoadCount, LockProofs!CountIn,
       LockProofs!FirstReader, LockProofs!EnterRead, LockProofs!CallReadUnlock,
       LockProofs!RelockCount, LockProofs!ReloadCount, LockProofs!CountOut,
       LockProofs!LastReader, LockProofs!LeaveRead,
       LockProofs!Goto, LockProofs!wait_sem, LockProofs!post_sem
  <2>2. ASSUME NEW p PROVE Lock!WriterStep(p) => LockProofs!WriterStep(p)
    BY DEF Lock!WriterStep, Lock!CloseGate, Lock!EnterWrite, Lock!CallWriteUnlock,
       Lock!OpenGate, Lock!LeaveWrite, Lock!Goto, Lock!wait_sem, Lock!post_sem,
       LockProofs!WriterStep, LockProofs!CloseGate, LockProofs!EnterWrite,
       LockProofs!CallWriteUnlock, LockProofs!OpenGate, LockProofs!LeaveWrite,
       LockProofs!Goto, LockProofs!wait_sem, LockProofs!post_sem
  <2> QED  BY <2>1, <2>2
           DEF Lock!Next, Lock!vars, Lock!Proc, Lock!CallReadLock, Lock!CallWriteLock,
               Lock!Die, Lock!Goto,
               LockProofs!Next, LockProofs!vars, LockProofs!Proc, LockProofs!CallReadLock,
               LockProofs!CallWriteLock, LockProofs!Die, LockProofs!Goto
<1> QED  BY <1>1, <1>2, PTL DEF Lock!Spec, LockProofs!Spec

(***************************************************************************)
(* In task11, with all that main.c does between the calls, and whichever   *)
(* processes fail at the file or are killed by the broken pipe, whoever    *)
(* writes is alone.                                                        *)
(***************************************************************************)
THEOREM AlwaysExclusive == Spec => []Lock!Exclusion
<1>1. LockProofs!Exclusion => Lock!Exclusion
  BY DEF Lock!Exclusion, LockProofs!Exclusion
<1> QED  BY <1>1, UsesLock, SameLock, LockIsExclusive, PTL

-----------------------------------------------------------------------------
(***************************************************************************)
(* What both programs do to the file.  A reader that has opened it is      *)
(* inside the lock, and whoever ended did so at the file, or outside the   *)
(* lock.                                                                   *)
(***************************************************************************)
AtTheFile ==
  /\ DOMAIN pc = Proc /\ DOMAIN at = Proc
  /\ \A p \in Proc : /\ at[p] = "opened" => pc[p] = "reading"
                     /\ pc[p] = "reading" => p \in Reader
                     /\ pc[p] = "writing" => p \in Writer
                     /\ p \notin alive => pc[p] \in {"idle", "reading", "writing"}

(* The exclusion that either lock gives. *)
OneInside ==
  /\ \A r \in Reader, w \in Writer : ~(pc[r] = "reading" /\ pc[w] = "writing")
  /\ \A v, w \in Writer : pc[v] = "writing" /\ pc[w] = "writing" => v = w

(* The ways in which a step of p concerns the file. *)
Elsewhere(p) ==
  /\ p \in alive /\ UNCHANGED <<file, alive>>
  /\ DOMAIN pc' = DOMAIN pc /\ DOMAIN at' = DOMAIN at
  /\ \A q \in Proc \ {p} : pc'[q] = pc[q] /\ at'[q] = at[q]
  /\ at[p] # "opened" /\ at'[p] # "opened"
  /\ pc'[p] = "reading" => p \in Reader
  /\ pc'[p] = "writing" => p \in Writer

Opens(p) ==
  /\ p \in Reader /\ pc[p] = "reading"
  /\ Move(p, "work", "opened")
  /\ UNCHANGED <<pc, alive, file>>

Reads(p) ==
  /\ Move(p, "opened", "unlock")
  /\ UNCHANGED <<pc, alive, file>>

Writes(p) ==
  /\ p \in Writer /\ pc[p] = "writing"
  /\ Move(p, "work", "unlock")
  /\ file' = p
  /\ UNCHANGED <<pc, alive>>

Ends(p) ==
  /\ p \in alive /\ alive' = alive \ {p}
  /\ pc[p] \in {"idle", "reading", "writing"}
  /\ UNCHANGED <<pc, at, file>>

FileStep(p) == Elsewhere(p) \/ Opens(p) \/ Reads(p) \/ Writes(p) \/ Ends(p)

LEMMA StaysAtTheFile ==
  ASSUME AtTheFile, NEW p \in Proc, FileStep(p)
  PROVE  AtTheFile'
<1> USE DEF AtTheFile, Proc
<1>1. CASE Elsewhere(p)
  BY <1>1 DEF Elsewhere
<1>2. CASE Opens(p) \/ Reads(p) \/ Writes(p)
  BY <1>2 DEF Opens, Reads, Writes, Move
<1>3. CASE Ends(p)
  BY <1>3 DEF Ends
<1> QED  BY <1>1, <1>2, <1>3 DEF FileStep

(* Each of these ways is a step of SharedFile, or none. *)
LEMMA FileStepShared ==
  ASSUME AtTheFile, OneInside, NEW p \in Proc, FileStep(p)
  PROVE  [Numbers!Next]_(Numbers!vars)
<1> DEFINE Opened == {r \in Reader : at[r] = "opened"}
<1> USE ProgramAssumption DEF AtTheFile, OneInside, Proc
<1>1. CASE Elsewhere(p)
  <2>1. Failed' = Failed
    BY <1>1 DEF Elsewhere, Failed
  <2>2. Opened' = Opened
    BY <1>1 DEF Elsewhere
  <2> QED  BY <1>1, <2>1, <2>2 DEF Elsewhere, Numbers!vars
<1>2. CASE Opens(p)
  <2>1. UNCHANGED <<file, Failed>>
    BY <1>2 DEF Opens, Failed
  <2>2. p \notin Opened /\ Opened' = Opened \cup {p}
    BY <1>2 DEF Opens, Move
  <2>3. p \notin Failed /\ Failed \cap Writer = {}
    BY <1>2 DEF Opens, Move, Failed
  <2>4. Numbers!Open(p)
    BY <2>1, <2>2, <2>3 DEF Numbers!Open
  <2> QED  BY <1>2, <2>4 DEF Opens, Numbers!Next
<1>3. CASE Reads(p)
  <2>1. UNCHANGED <<file, Failed>>
    BY <1>3 DEF Reads, Failed
  <2>2. p \in Opened \ Failed /\ Opened' = Opened \ {p}
    BY <1>3 DEF Reads, Move, Failed
  <2>3. Numbers!Close(p)
    BY <2>1, <2>2 DEF Numbers!Close
  <2> QED  BY <2>2, <2>3 DEF Numbers!Next
<1>4. CASE Writes(p)
  <2>1. UNCHANGED Failed
    BY <1>4 DEF Writes, Failed
  <2>2. Opened = {} /\ Opened' = {}
    BY <1>4 DEF Writes, Move
  <2>3. Failed = {}
    BY <1>4 DEF Writes, Move, Failed
  <2>4. Numbers!Write(p)
    BY <1>4, <2>1, <2>2, <2>3 DEF Writes, Numbers!Write
  <2> QED  BY <1>4, <2>4 DEF Writes, Numbers!Next
<1>5. CASE Ends(p)
  <2>1. UNCHANGED <<file, Opened>> /\ p \notin Failed
    BY <1>5 DEF Ends, Failed
  <2>2. CASE pc[p] = "idle"
    <3>1. Failed' = Failed
      BY <1>5, <2>2 DEF Ends, Failed
    <3> QED  BY <2>1, <3>1 DEF Numbers!vars
  <2>3. CASE pc[p] = "reading"
    <3>1. Failed' = Failed \cup {p} /\ Failed \cap Writer = {}
      BY <1>5, <2>3 DEF Ends, Failed
    <3>2. Numbers!FailReader(p)
      BY <2>1, <3>1 DEF Numbers!FailReader
    <3> QED  BY <2>3, <3>2 DEF Numbers!Next
  <2>4. CASE pc[p] = "writing"
    <3>1. Failed = {} /\ Failed' = {p}
      BY <1>5, <2>4 DEF Ends, Failed
    <3>2. Opened = {}
      BY <2>4
    <3>3. Numbers!FailWriter(p)
      BY <2>1, <3>1, <3>2 DEF Numbers!FailWriter
    <3> QED  BY <2>4, <3>3 DEF Numbers!Next
  <2> QED  BY <1>5, <2>2, <2>3, <2>4 DEF Ends
<1> QED  BY <1>1, <1>2, <1>3, <1>4, <1>5 DEF FileStep

(* Every step of task11 is one of these. *)
LEMMA StepOfFile ==
  ASSUME AtTheFile, [Next]_vars
  PROVE  (\E p \in Proc : FileStep(p)) \/ UNCHANGED <<pc, at, alive, file>>
<1> USE ProgramAssumption DEF AtTheFile, FileStep, Move, Children, Proc, lockVars
<1>1. ASSUME NEW c \in Children, Fork(c) PROVE Elsewhere(c)
  BY <1>1 DEF Fork, Elsewhere
<1>2. CASE MainLock \/ MainClosePipe
  <2>1. Elsewhere(Main)
    BY <1>2 DEF MainLock, MainClosePipe, Elsewhere, Lock!CallWriteLock, Lock!Goto
  <2> QED  BY <2>1
<1>3. CASE ReadPipe \/ WritePipe
  <2>1. Elsewhere(W0) \/ Elsewhere(R0)
    BY <1>3 DEF ReadPipe, WritePipe, Elsewhere
  <2> QED  BY <2>1
<1>4. CASE BrokenPipe \/ \E p \in Faulty : Fail(p)
  <2>1. \E p \in Proc : Ends(p)
    BY <1>4 DEF BrokenPipe, Fail, OutsideLock, AtFile, Ends, Lock!Die
  <2> QED  BY <2>1
<1>5. ASSUME NEW p \in Proc, Turn(p) PROVE FileStep(p)
  <2>1. CASE CloseEnds(p) \/ Sleep(p)
    BY <2>1 DEF CloseEnds, Sleep, Elsewhere
  <2>2. CASE p \in Writer /\ WriteFile(p)
    BY <2>2 DEF WriteFile, Writes
  <2>3. CASE p \in Reader /\ (OpenFile(p) \/ ReadFile(p))
    BY <2>3 DEF OpenFile, ReadFile, Opens, Reads
  <2>4. CASE LockFile(p) \/ UnlockFile(p)
    BY <2>4 DEF LockFile, UnlockFile, Elsewhere, Lock!CallReadLock, Lock!CallWriteLock,
                Lock!CallReadUnlock, Lock!CallWriteUnlock, Lock!Goto
  <2>5. CASE LockStep(p)
    <3>1. p \in alive /\ UNCHANGED <<at, file, alive>> /\ \E to : pc' = [pc EXCEPT ![p] = to]
      BY <2>5, LockStepInside DEF Inside
    <3>2. pc[p] # "reading" /\ (pc'[p] = "reading" => p \notin Writer)
                           /\ (pc'[p] = "writing" => p \in Writer)
      BY <2>5 DEF LockStep, InLock, Lock!CloseGate, Lock!EnterWrite, Lock!OpenGate,
         Lock!LeaveWrite, Lock!WaitGate, Lock!PostGate, Lock!LockCount, Lock!LoadCount,
         Lock!CountIn, Lock!FirstReader, Lock!EnterRead, Lock!RelockCount,
         Lock!ReloadCount, Lock!CountOut, Lock!LastReader, Lock!LeaveRead, Lock!Goto
    <3> QED  BY <3>1, <3>2 DEF Elsewhere
  <2> QED  BY <1>5, <2>1, <2>2, <2>3, <2>4, <2>5 DEF Turn
<1>6. CASE UNCHANGED vars
  BY <1>6 DEF vars
<1> QED  BY <1>1, <1>2, <1>3, <1>4, <1>5, <1>6 DEF Next, Stuck

LEMMA AlwaysAtTheFile == Spec => []AtTheFile
<1>1. Init => AtTheFile
  BY DEF Init, Lock!Init, Lock!Proc, AtTheFile, Proc
<1>2. ASSUME AtTheFile, [Next]_vars PROVE AtTheFile'
  <2>1. CASE UNCHANGED <<pc, at, alive, file>>
    BY <1>2, <2>1 DEF AtTheFile
  <2> QED  BY <1>2, <2>1, StepOfFile, StaysAtTheFile
<1> QED  BY <1>1, <1>2, PTL DEF Spec

(***************************************************************************)
(* task11/main.c implements SharedFile: what a reader has opened nobody    *)
(* writes until it has read it; nobody writes after a reader has failed at *)
(* the file, nor comes to it at all after a writer has.                    *)
(***************************************************************************)
THEOREM FileAlwaysShared == Spec => FileShared
<1>1. Init => Numbers!Init
  BY DEF Init, Lock!Init, Lock!Proc, Numbers!Init, Failed, Proc
<1>2. ASSUME AtTheFile, Lock!Exclusion, [Next]_vars PROVE [Numbers!Next]_(Numbers!vars)
  <2>1. OneInside
    BY <1>2 DEF Lock!Exclusion, OneInside
  <2>2. CASE UNCHANGED <<pc, at, alive, file>>
    BY <2>2 DEF Numbers!vars, Failed
  <2> QED  BY <1>2, <2>1, <2>2, StepOfFile, FileStepShared
<1> QED  BY <1>1, <1>2, AlwaysAtTheFile, AlwaysExclusive, PTL
         DEF Spec, FileShared, Numbers!Spec

-----------------------------------------------------------------------------
(***************************************************************************)
(* task09/main.c, for the same processes: the lock has one set of System V *)
(* semaphores, and lets rmax readers in.                                   *)
(***************************************************************************)
CONSTANT rmax
VARIABLE sem

Task09 == INSTANCE Task09Program

(* What a step of the program does to the lock is a step of the lock.      *)
LEMMA Task09StepUsesLock ==
  ASSUME [Task09!Next]_(Task09!vars)
  PROVE  [Task09!Lock!Next]_(Task09!Lock!vars)
<1> USE ProgramAssumption DEF Task09!Lock!Next, Task09!Lock!vars, Task09!Lock!Proc,
                              Task09!Proc
<1>1. CASE Task09!MainLock
  BY <1>1 DEF Task09!MainLock
<1>2. CASE \/ \E c \in Task09!Children : Task09!Fork(c)
           \/ Task09!read_from_pipe \/ Task09!write_to_pipe
  BY <1>2 DEF Task09!Fork, Task09!read_from_pipe, Task09!write_to_pipe, Task09!lockVars
<1>3. CASE Task09!MainUnlock
  BY <1>3 DEF Task09!MainUnlock
<1>4. CASE Task09!MainReturn \/ Task09!BrokenPipe \/ \E p \in Faulty : Task09!Fail(p)
  BY <1>4 DEF Task09!MainReturn, Task09!BrokenPipe, Task09!Fail
<1>5. ASSUME NEW p \in Task09!Proc, Task09!Turn(p) PROVE [Task09!Lock!Next]_(Task09!Lock!vars)
  <2>1. CASE \/ Task09!CloseEnds(p) \/ Task09!WriteFile(p) \/ Task09!OpenFile(p)
             \/ Task09!ReadFile(p) \/ Task09!NextTurn(p)
    BY <2>1 DEF Task09!CloseEnds, Task09!WriteFile, Task09!OpenFile, Task09!ReadFile,
                Task09!NextTurn, Task09!lockVars
  <2>2. CASE Task09!LockFile(p)
    BY <2>2 DEF Task09!LockFile
  <2>3. CASE Task09!UnlockFile(p)
    BY <2>3 DEF Task09!UnlockFile
  <2>4. CASE Task09!LockStep(p)
    BY <2>4 DEF Task09!LockStep
  <2> QED  BY <1>5, <2>1, <2>2, <2>3, <2>4 DEF Task09!Turn
<1>6. CASE UNCHANGED Task09!vars
  BY <1>6 DEF Task09!vars, Task09!lockVars
<1> QED  BY <1>1, <1>2, <1>3, <1>4, <1>5, <1>6 DEF Task09!Next, Task09!Stuck

(***************************************************************************)
(* task09/main.c uses the lock as it is to be used: the semop calls of all *)
(* its processes are a behaviour of task09/rwlock.c.                       *)
(***************************************************************************)
THEOREM Task09UsesLock == Task09!Spec => Task09!Lock!Spec
<1>1. Task09!Init => Task09!Lock!Init
  BY DEF Task09!Init
<1> QED  BY <1>1, Task09StepUsesLock, PTL DEF Task09!Spec, Task09!Lock!Spec

Task09LockProofs == INSTANCE SysVRwLockProofs WITH Mortal <- {Main, R0} \cup Faulty

LEMMA Task09LockIsExclusive ==
  ASSUME rmax \in Nat \ {0}
  PROVE  Task09LockProofs!Spec => []Task09LockProofs!Exclusion
<1>1. Task09LockProofs!IsFiniteSet(Reader)
  BY ProgramAssumption DEF IsFiniteSet, Task09LockProofs!IsFiniteSet
<1> QED  BY <1>1, ProgramAssumption, Task09LockProofs!AlwaysExclusive

(* The lock of the program and that of the theorems are the same.          *)
LEMMA Task09SameLock == Task09!Lock!Spec => Task09LockProofs!Spec
<1>1. Task09!Lock!Init => Task09LockProofs!Init
  BY DEF Task09LockProofs!Init, Task09!Lock!Init, Task09LockProofs!Proc, Task09!Lock!Proc,
         Task09LockProofs!Sem, Task09!Lock!Sem
<1>2. [Task09!Lock!Next]_(Task09!Lock!vars) => [Task09LockProofs!Next]_(Task09LockProofs!vars)
  BY DEF Task09LockProofs!Next, Task09!Lock!Next, Task09LockProofs!vars, Task09!Lock!vars,
         Task09LockProofs!Proc, Task09!Lock!Proc, Task09LockProofs!CallReadLock,
         Task09LockProofs!CallReadUnlock, Task09LockProofs!CallWriteLock,
         Task09LockProofs!CallWriteUnlock, Task09LockProofs!ReadLock,
         Task09LockProofs!ReadUnlock, Task09LockProofs!WriteLock,
         Task09LockProofs!WriteUnlock, Task09LockProofs!Die, Task09LockProofs!Call,
         Task09LockProofs!Goto, Task09!Lock!CallReadLock, Task09!Lock!CallReadUnlock,
         Task09!Lock!CallWriteLock, Task09!Lock!CallWriteUnlock, Task09!Lock!ReadLock,
         Task09!Lock!ReadUnlock, Task09!Lock!WriteLock, Task09!Lock!WriteUnlock,
         Task09!Lock!Die, Task09!Lock!Call, Task09!Lock!Goto
<1> QED  BY <1>1, <1>2, PTL DEF Task09!Lock!Spec, Task09LockProofs!Spec

(***************************************************************************)
(* In task09, whatever its main() and its children do between the calls    *)
(* and whoever is killed by the broken pipe or returns, whoever writes is  *)
(* alone.  rmax is how many readers rwlock.c lets in.                      *)
(***************************************************************************)
THEOREM Task09AlwaysExclusive ==
  ASSUME rmax \in Nat \ {0}
  PROVE  Task09!Spec => []Task09!Lock!Exclusion
<1>1. Task09LockProofs!Exclusion => Task09!Lock!Exclusion
  BY DEF Task09LockProofs!Exclusion, Task09!Lock!Exclusion, Task09LockProofs!ReadHolders,
         Task09!Lock!ReadHolders, Task09LockProofs!WriteHolders, Task09!Lock!WriteHolders,
         Task09LockProofs!At, Task09!Lock!At, Task09LockProofs!Proc, Task09!Lock!Proc
<1> QED  BY <1>1, Task09UsesLock, Task09SameLock, Task09LockIsExclusive, PTL

(* Every step of task09 is one of those that StepOfFile finds in task11.   *)
LEMMA Task09StepOfFile ==
  ASSUME AtTheFile, [Task09!Next]_(Task09!vars)
  PROVE  (\E p \in Proc : FileStep(p)) \/ UNCHANGED <<pc, at, alive, file>>
<1> USE ProgramAssumption
    DEF AtTheFile, FileStep, Move, Task09!Move, Proc, Task09!Proc, Task09!Children,
        Task09!lockVars, Task09!Lock!Goto, Task09!Lock!Call
<1>1. ASSUME NEW c \in Task09!Children, Task09!Fork(c) PROVE Elsewhere(c)
  BY <1>1 DEF Task09!Fork, Elsewhere
<1>2. CASE Task09!MainLock \/ Task09!MainUnlock
  <2>1. Elsewhere(Main)
    BY <1>2 DEF Task09!MainLock, Task09!MainUnlock, Elsewhere, Task09!Lock!CallWriteLock,
                Task09!Lock!CallWriteUnlock
  <2> QED  BY <2>1
<1>3. CASE Task09!read_from_pipe \/ Task09!write_to_pipe
  <2>1. Elsewhere(W0) \/ Elsewhere(R0)
    BY <1>3 DEF Task09!read_from_pipe, Task09!write_to_pipe, Elsewhere
  <2> QED  BY <2>1
<1>4. CASE Task09!MainReturn \/ Task09!BrokenPipe \/ \E p \in Faulty : Task09!Fail(p)
  <2>1. \E p \in Proc : Ends(p)
    BY <1>4 DEF Task09!MainReturn, Task09!BrokenPipe, Task09!Fail, Task09!OutsideLock,
                Task09!AtFile, Ends, Task09!Lock!Die
  <2> QED  BY <2>1
<1>5. ASSUME NEW p \in Task09!Proc, Task09!Turn(p) PROVE FileStep(p)
  <2>1. CASE Task09!CloseEnds(p) \/ Task09!NextTurn(p)
    BY <2>1 DEF Task09!CloseEnds, Task09!NextTurn, Elsewhere
  <2>2. CASE p \in Writer /\ Task09!WriteFile(p)
    BY <2>2 DEF Task09!WriteFile, Writes
  <2>3. CASE p \in Reader /\ (Task09!OpenFile(p) \/ Task09!ReadFile(p))
    BY <2>3 DEF Task09!OpenFile, Task09!ReadFile, Opens, Reads
  <2>4. CASE Task09!LockFile(p) \/ Task09!UnlockFile(p)
    BY <2>4 DEF Task09!LockFile, Task09!UnlockFile, Elsewhere, Task09!Lock!CallReadLock,
                Task09!Lock!CallWriteLock, Task09!Lock!CallReadUnlock,
                Task09!Lock!CallWriteUnlock
  <2>5. CASE Task09!LockStep(p)
    BY <2>5 DEF Task09!LockStep, Elsewhere, Task09!Lock!ReadLock, Task09!Lock!ReadUnlock,
                Task09!Lock!WriteLock, Task09!Lock!WriteUnlock
  <2> QED  BY <1>5, <2>1, <2>2, <2>3, <2>4, <2>5 DEF Task09!Turn
<1>6. CASE UNCHANGED Task09!vars
  BY <1>6 DEF Task09!vars
<1> QED  BY <1>1, <1>2, <1>3, <1>4, <1>5, <1>6 DEF Task09!Next, Task09!Stuck

LEMMA Task09AlwaysAtTheFile == Task09!Spec => []AtTheFile
<1>1. Task09!Init => AtTheFile
  BY DEF Task09!Init, Task09!Lock!Init, Task09!Lock!Proc, Task09!Proc, AtTheFile, Proc
<1>2. ASSUME AtTheFile, [Task09!Next]_(Task09!vars) PROVE AtTheFile'
  <2>1. CASE UNCHANGED <<pc, at, alive, file>>
    BY <1>2, <2>1 DEF AtTheFile
  <2> QED  BY <1>2, <2>1, Task09StepOfFile, StaysAtTheFile
<1> QED  BY <1>1, <1>2, PTL DEF Task09!Spec

(***************************************************************************)
(* task09/main.c implements SharedFile as well: the System V lock keeps    *)
(* the same promise, and who fails at the file takes it along there too.   *)
(* The two programs name their processes and the file alike, so that one   *)
(* FileShared is about both.                                               *)
(***************************************************************************)
THEOREM Task09FileAlwaysShared ==
  ASSUME rmax \in Nat \ {0}
  PROVE  Task09!Spec => FileShared
<1>1. Task09!Init => Numbers!Init
  BY DEF Task09!Init, Task09!Lock!Init, Task09!Lock!Proc, Task09!Proc, Numbers!Init, Failed,
         Proc
<1>2. ASSUME AtTheFile, Task09!Lock!Exclusion, [Task09!Next]_(Task09!vars)
      PROVE  [Numbers!Next]_(Numbers!vars)
  <2>1. OneInside
    BY <1>2 DEF Task09!Lock!Exclusion, Task09!Lock!ReadHolders, Task09!Lock!WriteHolders,
                Task09!Lock!At, Task09!Lock!Proc, OneInside
  <2>2. CASE UNCHANGED <<pc, at, alive, file>>
    BY <2>2 DEF Numbers!vars, Failed
  <2> QED  BY <1>2, <2>1, <2>2, Task09StepOfFile, FileStepShared
<1> QED  BY <1>1, <1>2, Task09AlwaysAtTheFile, Task09AlwaysExclusive, PTL
         DEF Task09!Spec, FileShared, Numbers!Spec
=============================================================================
