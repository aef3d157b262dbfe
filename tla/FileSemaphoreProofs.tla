------------------------- MODULE FileSemaphoreProofs -------------------------
(***************************************************************************)
(* Theorems about FileSemaphore, for any finite number of runs of either   *)
(* program and pipes of any size, any process killed anywhere: there is    *)
(* one permit, and a file that was written stays so unless another run     *)
(* starts.                                                                 *)
(***************************************************************************)
EXTENDS FileSemaphore, FiniteSetTheorems, TLAPS

Locs == {"off", "first", "second", "fork", "wait", "pipe"} \cup Inside

TypeOK ==
  /\ api \in {"SysV", "POSIX"}
  /\ sem \in [Run \cup {Named} -> Nat \cup {-1}]
  /\ pc \in [Proc -> Locs]

(* A run that has not made its semaphore is not known by one: when it does *)
(* make it, nobody can be inside.                                          *)
NotMadeYet ==
  api = "SysV" => \A r \in Run : pc[<<r, "parent">>] \in {"off", "first"} => sem[r] = -1

Before == {"off", "first", "second", "fork"}

(* Nor is there a child before the fork. *)
NotForkedYet ==
  \A r \in Run : pc[<<r, "parent">>] \in Before => pc[<<r, "child">>] = "off"

IInv == TypeOK /\ NotMadeYet /\ NotForkedYet /\ OnePermit

(* From its parent's turn on a run finds the file filled, or another's. *)
FilledInv ==
  \A r \in Run : pc[<<r, "parent">>] \in {"post", "pipe"}
                 => file[2] = "number" \/ file[1] # r

LEMMA ProcFinite == IsFiniteSet(Proc)
<1>1. IsFiniteSet({"parent"}) /\ IsFiniteSet({"child"})
  BY FS_Singleton
<1>2. IsFiniteSet(Parents) /\ IsFiniteSet(Children)
  BY <1>1, RunAssumption, FS_Product DEF Parents, Children
<1> QED  BY <1>2, FS_Union DEF Proc

(* The processes are the parents and the children of runs. *)
LEMMA ProcStructure ==
  /\ \A r \in Run : <<r, "parent">> \in Proc /\ <<r, "child">> \in Proc
  /\ \A p \in Proc : p[1] \in Run
  /\ \A r \in Run : <<r, "parent">> # <<r, "child">>
BY DEF Proc, Parents, Children

LEMMA SemOfInDomain ==
  ASSUME NEW r \in Run
  PROVE  SemOf(r) \in Run \cup {Named}
BY DEF SemOf

(* What adding and removing an element does to the size of a set. *)
LEMMA HoldersCount ==
  ASSUME NEW s, NEW p
  PROVE  /\ Cardinality(Holders(s)) \in Nat
         /\ Cardinality(Holders(s)) = 0 <=> Holders(s) = {}
         /\ p \notin Holders(s) => Cardinality(Holders(s) \cup {p}) = Cardinality(Holders(s)) + 1
         /\ p \in Holders(s) => Cardinality(Holders(s) \ {p}) = Cardinality(Holders(s)) - 1
<1>1. Holders(s) \subseteq Proc
  BY DEF Holders
<1>2. IsFiniteSet(Holders(s))
  BY <1>1, ProcFinite, FS_Subset
<1> QED  BY <1>2, FS_CardinalityType, FS_AddElement, FS_RemoveElement, FS_EmptySet

(* How the holders change when one process moves. *)
LEMMA HoldersStep ==
  ASSUME TypeOK, NEW p \in Proc, NEW to, pc' = [pc EXCEPT ![p] = to],
         UNCHANGED api, NEW s
  PROVE  /\ p \in Holders(s) <=> SemOf(p[1]) = s /\ pc[p] \in Inside
         /\ Holders(s)' = IF SemOf(p[1]) = s /\ to \in Inside
                          THEN Holders(s) \cup {p} ELSE Holders(s) \ {p}
BY DEF TypeOK, Holders, SemOf

(* A move that stays inside, or outside, leaves the holders alone. *)
LEMMA HoldersUnchanged ==
  ASSUME TypeOK, NEW p \in Proc, NEW to, pc' = [pc EXCEPT ![p] = to],
         UNCHANGED api, pc[p] \in Inside <=> to \in Inside, NEW s
  PROVE  Holders(s)' = Holders(s)
<1>1. CASE SemOf(p[1]) = s /\ to \in Inside
  <2>1. p \in Holders(s) /\ Holders(s)' = Holders(s) \cup {p}
    BY <1>1, HoldersStep
  <2> QED  BY <2>1
<1>2. CASE ~(SemOf(p[1]) = s /\ to \in Inside)
  <2>1. p \notin Holders(s) /\ Holders(s)' = Holders(s) \ {p}
    BY <1>2, HoldersStep
  <2> QED  BY <2>1
<1> QED  BY <1>1, <1>2

(* A step that changes the semaphore s, by as much as it has more or less  *)
(* holders after it, or that makes it, leaves one permit.                  *)
LEMMA OnePermitStep ==
  ASSUME TypeOK, OnePermit, NEW s \in Run \cup {Named}, NEW v \in Nat,
         sem' = [sem EXCEPT ![s] = v],
         v + Cardinality(Holders(s)') = 1,
         \A t : t # s => Holders(t)' = Holders(t)
  PROVE  OnePermit'
<1> SUFFICES ASSUME NEW t \in DOMAIN sem'
             PROVE  IF sem'[t] = -1 THEN Holders(t)' = {}
                                    ELSE sem'[t] + Cardinality(Holders(t)') = 1
  BY DEF OnePermit
<1>1. DOMAIN sem = Run \cup {Named} /\ t \in DOMAIN sem
  BY DEF TypeOK
<1>2. CASE t = s
  BY <1>1, <1>2
<1>3. CASE t # s
  <2>1. sem'[t] = sem[t] /\ Holders(t)' = Holders(t)
    BY <1>1, <1>3
  <2> QED  BY <1>1, <2>1 DEF OnePermit
<1> QED  BY <1>2, <1>3

LEMMA InitEstablishes == Init => IInv /\ FilledInv
<1> SUFFICES ASSUME Init PROVE IInv /\ FilledInv
  OBVIOUS
<1>1. TypeOK
  BY DEF Init, TypeOK, Locs, Inside
<1>2. OnePermit
  BY DEF Init, OnePermit, Holders, Inside
<1>3. NotMadeYet
  BY DEF Init, NotMadeYet
<1>4. NotForkedYet /\ FilledInv
  BY ProcStructure DEF Init, NotForkedYet, FilledInv
<1> QED  BY <1>1, <1>2, <1>3, <1>4 DEF IInv

(* A step of p that is no wait, no post and makes no semaphore. *)
LEMMA MovePreserves ==
  ASSUME IInv, NEW p \in Proc, NEW to \in Locs, pc' = [pc EXCEPT ![p] = to],
         UNCHANGED <<api, sem>>, pc[p] \in Inside <=> to \in Inside,
         to \in {"off", "first"} => pc[p] = "off",
         to \in Before => p \in Parents /\ pc[p] \in Before,
         pc[p] # "off" \/ p \in Parents
  PROVE  IInv'
<1> USE DEF IInv
<1>1. TypeOK'
  BY DEF TypeOK
<1>2. NotMadeYet'
  BY ProcStructure DEF TypeOK, NotMadeYet
<1>3. NotForkedYet'
  BY ProcStructure DEF TypeOK, NotForkedYet, Parents
<1>4. \A s : Holders(s)' = Holders(s)
  BY HoldersUnchanged
<1>5. OnePermit'
  BY <1>4 DEF OnePermit
<1> QED  BY <1>1, <1>2, <1>3, <1>5

LEMMA ForkPreserves ==
  ASSUME IInv, NEW r \in Run, Fork(r)
  PROVE  IInv'
<1> DEFINE p == <<r, "parent">>
           c == <<r, "child">>
<1> USE DEF IInv
<1>1. p \in Proc /\ p \in Parents /\ c \in Proc /\ p # c /\ pc[p] = "fork" /\ UNCHANGED <<api, sem>>
  BY ProcStructure DEF Fork, Parents
<1>2. CASE UNCHANGED pc
  BY <1>1, <1>2 DEF TypeOK, NotMadeYet, NotForkedYet, OnePermit, Holders, SemOf
<1>3. CASE pc' = [pc EXCEPT ![p] = "wait"]
  <2>1. "wait" \in Locs /\ "wait" \notin Inside /\ "fork" \notin Inside /\ "wait" \notin Before
    BY DEF Locs, Inside, Before
  <2> QED  BY <1>1, <1>3, <2>1, MovePreserves
<1>4. CASE pc' = [pc EXCEPT ![p] = "wait", ![c] = "pipe"]
  <2>1. pc[c] = "off"
    BY <1>1 DEF NotForkedYet, Before
  <2>2. TypeOK'
    BY <1>1, <1>4 DEF TypeOK, Locs
  <2>3. NotMadeYet' /\ NotForkedYet'
    BY <1>1, <1>4, ProcStructure DEF TypeOK, NotMadeYet, NotForkedYet, Before
  <2>4. \A s : Holders(s)' = Holders(s)
    BY <1>1, <1>4, <2>1 DEF TypeOK, Holders, Inside, SemOf
  <2>5. OnePermit'
    BY <1>1, <2>4 DEF OnePermit
  <2> QED  BY <2>2, <2>3, <2>5
<1> QED  BY <1>2, <1>3, <1>4 DEF Fork

(* The run that makes its semaphore is the first to use it. *)
LEMMA MakePreserves ==
  ASSUME IInv, NEW r \in Run, mutex_init(r) \/ sem_open(r)
  PROVE  IInv'
<1> DEFINE p  == <<r, "parent">>
           to == IF pc[p] = "first" THEN "second" ELSE "fork"
<1> USE DEF IInv
<1>1. /\ p \in Proc /\ p \in Parents /\ pc[p] \in {"first", "second"}
      /\ pc' = [pc EXCEPT ![p] = to] /\ UNCHANGED api
  BY ProcStructure DEF mutex_init, sem_open, Setup, Goto, Parents
<1>2. to \in Locs /\ to \notin {"off", "first"} /\ to \notin Inside /\ pc[p] \notin Inside
  BY <1>1 DEF Locs, Inside
<1>3. \A s : Holders(s)' = Holders(s)
  BY <1>1, <1>2, HoldersUnchanged
<1>4. TypeOK'
  BY <1>1, <1>2 DEF TypeOK, mutex_init, sem_open
<1>5. NotForkedYet'
  BY <1>1, ProcStructure DEF TypeOK, NotForkedYet, Before
<1>6. CASE mutex_init(r)
  <2>1. api = "SysV" /\ pc[p] = "first" /\ sem' = [sem EXCEPT ![r] = 1] /\ sem[r] = -1
    BY <1>6 DEF mutex_init, Setup, Goto, NotMadeYet
  <2>2. Holders(r)' = {}
    BY <1>3, <2>1 DEF OnePermit, TypeOK
  <2>3. 1 + Cardinality(Holders(r)') = 1
    BY <2>2, FS_EmptySet
  <2>5. OnePermit'
    BY <1>3, <2>1, <2>3, OnePermitStep
  <2>4. NotMadeYet'
    BY <1>1, <2>1, ProcStructure DEF NotMadeYet, TypeOK
  <2> QED  BY <1>4, <1>5, <2>4, <2>5
<1>7. CASE sem_open(r)
  <2>1. api = "POSIX" /\ sem' = [sem EXCEPT ![Named] = IF @ = -1 THEN 1 ELSE @]
    BY <1>7 DEF sem_open
  <2>2. ASSUME sem[Named] = -1 PROVE OnePermit'
    <3>1. Holders(Named)' = {}
      BY <1>3, <2>2 DEF OnePermit, TypeOK
    <3>2. 1 + Cardinality(Holders(Named)') = 1 /\ sem' = [sem EXCEPT ![Named] = 1]
      BY <2>1, <2>2, <3>1, FS_EmptySet
    <3> QED  BY <1>3, <3>2, OnePermitStep
  <2>3. ASSUME sem[Named] # -1 PROVE OnePermit'
    <3>1. sem' = sem
      BY <2>1, <2>3 DEF TypeOK
    <3> QED  BY <1>3, <3>1 DEF OnePermit
  <2>4. OnePermit'
    BY <2>2, <2>3
  <2>5. NotMadeYet'
    BY <1>1, <2>1 DEF NotMadeYet
  <2> QED  BY <1>4, <1>5, <2>4, <2>5
<1> QED  BY <1>6, <1>7

LEMMA WaitPreserves ==
  ASSUME IInv, NEW p \in Proc, Wait(p)
  PROVE  IInv'
<1> SUFFICES ASSUME NEW s, s = SemOf(p[1]) PROVE IInv'
  OBVIOUS
<1> DEFINE to == IF p \in Parents THEN "write" ELSE "open"
<1> USE DEF IInv
<1>1. /\ p[1] \in Run /\ s \in Run \cup {Named} /\ to \in Inside /\ pc[p] = "wait"
      /\ pc' = [pc EXCEPT ![p] = to] /\ UNCHANGED api
      /\ sem[s] > 0 /\ sem' = [sem EXCEPT ![s] = @ - 1]
  BY ProcStructure, SemOfInDomain DEF Wait, Goto, Inside
<1>2. TypeOK'
  BY <1>1 DEF TypeOK, Locs
<1>3. NotMadeYet'
  <2>1. sem[s] # -1
    BY <1>1 DEF TypeOK
  <2>2. api = "SysV" => s = p[1]
    BY DEF SemOf
  <2> QED  BY <1>1, <2>1, <2>2, ProcStructure DEF TypeOK, NotMadeYet, Inside
<1>4. NotForkedYet'
  BY <1>1, ProcStructure DEF TypeOK, NotForkedYet, Before, Inside
<1>5. p \notin Holders(s) /\ Holders(s)' = Holders(s) \cup {p}
  BY <1>1, HoldersStep DEF Inside
<1>6. \A t : t # s => Holders(t)' = Holders(t)
  BY <1>1 DEF TypeOK, Holders, SemOf
<1>7. sem[s] \in Nat /\ sem[s] - 1 \in Nat /\ sem[s] + Cardinality(Holders(s)) = 1
  BY <1>1 DEF OnePermit, TypeOK
<1>8. sem[s] - 1 + Cardinality(Holders(s)') = 1
  <2>1. Cardinality(Holders(s)') = Cardinality(Holders(s)) + 1 /\ Cardinality(Holders(s)) \in Nat
    BY <1>5, HoldersCount
  <2> QED  BY <1>7, <2>1
<1>9. OnePermit'
  BY <1>1, <1>6, <1>7, <1>8, OnePermitStep
<1> QED  BY <1>2, <1>3, <1>4, <1>9

LEMMA PostPreserves ==
  ASSUME IInv, NEW p \in Proc, Post(p)
  PROVE  IInv'
<1> SUFFICES ASSUME NEW s, s = SemOf(p[1]) PROVE IInv'
  OBVIOUS
<1> USE DEF IInv
<1>1. /\ p[1] \in Run /\ s \in Run \cup {Named} /\ pc[p] = "post"
      /\ pc' = [pc EXCEPT ![p] = "pipe"] /\ UNCHANGED api
      /\ sem' = [sem EXCEPT ![s] = @ + 1]
  BY ProcStructure, SemOfInDomain DEF Post, Goto
<1>2. p \in Holders(s) /\ Holders(s)' = Holders(s) \ {p}
  <2>1. pc[p] \in Inside /\ "pipe" \notin Inside
    BY <1>1 DEF Inside
  <2> QED  BY <1>1, <2>1, HoldersStep
<1>3. sem[s] # -1
  BY <1>1, <1>2 DEF OnePermit, TypeOK
<1>4. TypeOK'
  BY <1>1, <1>3 DEF TypeOK, Locs
<1>5. NotMadeYet'
  <2>1. api = "SysV" => s = p[1]
    BY DEF SemOf
  <2> QED  BY <1>1, <1>3, <2>1, ProcStructure DEF TypeOK, NotMadeYet
<1>6. NotForkedYet'
  BY <1>1, ProcStructure DEF TypeOK, NotForkedYet, Before
<1>7. \A t : t # s => Holders(t)' = Holders(t)
  BY <1>1 DEF TypeOK, Holders, SemOf
<1>8. sem[s] + 1 \in Nat /\ sem[s] + Cardinality(Holders(s)) = 1
  BY <1>1, <1>3 DEF OnePermit, TypeOK
<1>9. sem[s] + 1 + Cardinality(Holders(s)') = 1
  BY <1>1, <1>2, <1>8, HoldersCount DEF TypeOK
<1>10. OnePermit'
  BY <1>1, <1>7, <1>8, <1>9, OnePermitStep
<1> QED  BY <1>4, <1>5, <1>6, <1>10

(* Every step, by who takes it. *)
LEMMA StepPreserves ==
  ASSUME IInv, Next
  PROVE  IInv'
<1> USE DEF IInv
<1>1. ASSUME NEW r \in Run, Start(r) PROVE IInv'
  <2>1. <<r, "parent">> \in Parents /\ "first" \in Locs /\ "first" \notin Inside /\ "off" \notin Inside
    BY DEF Parents, Locs, Inside
  <2> QED  BY <1>1, <2>1, ProcStructure, MovePreserves DEF Start, Before
<1>2. ASSUME NEW r \in Run, open_file(r) PROVE IInv'
  <2> DEFINE p  == <<r, "parent">>
             at == IF api = "SysV" THEN "second" ELSE "first"
             to == IF at = "first" THEN "second" ELSE "fork"
  <2>1. p \in Proc /\ p \in Parents
    BY ProcStructure DEF Parents
  <2>2. pc' = [pc EXCEPT ![p] = to] /\ pc[p] = at /\ UNCHANGED <<api, sem>>
    BY <1>2 DEF open_file, Setup, Goto
  <2>3. to \in Locs \ (Inside \cup {"off", "first"}) /\ at \notin Inside /\ at \in Before
    BY DEF Locs, Inside, Before
  <2> HIDE DEF at, to
  <2>4. to \in Locs /\ (pc[p] \in Inside <=> to \in Inside) /\ to \notin {"off", "first"} /\ pc[p] \in Before
    BY <2>2, <2>3
  <2> QED  BY <2>1, <2>2, <2>4, MovePreserves
<1>3. ASSUME NEW r \in Run, NEW p \in {<<r, "parent">>, <<r, "child">>},
             \/ WriteFile(p) \/ OpenFile(p) \/ ReadFile(p)
             \/ p = <<r, "parent">> /\ ReadPipe(r)
             \/ p = <<r, "child">> /\ WritePipe(r)
      PROVE  IInv'
  <2>1. PICK from \in {"write", "open", "read", "pipe"}, to \in {"post", "read", "wait"} :
          /\ Goto(p, from, to) /\ UNCHANGED <<api, sem>>
          /\ from \in Inside <=> to \in Inside
    BY <1>3 DEF WriteFile, OpenFile, ReadFile, ReadPipe, WritePipe, Inside
  <2>2. p \in Proc /\ to \in Locs /\ to \notin Before /\ to \notin {"off", "first"} /\ from # "off"
    BY ProcStructure DEF Locs, Inside, Before
  <2> QED  BY <2>1, <2>2, MovePreserves DEF Goto
<1>4. ASSUME UNCHANGED <<api, sem, pc>> PROVE IInv'
  BY <1>4 DEF TypeOK, NotMadeYet, NotForkedYet, OnePermit, Holders, SemOf
<1>5. ASSUME NEW r \in Run, Parent(r) PROVE IInv'
  BY <1>2, <1>3, <1>5, ProcStructure, MakePreserves, ForkPreserves, WaitPreserves, PostPreserves
     DEF Parent
<1>6. ASSUME NEW r \in Run, Child(r) PROVE IInv'
  BY <1>3, <1>4, <1>6, ProcStructure, WaitPreserves, PostPreserves DEF Child, BrokenPipe
<1>7. ASSUME NEW p \in Proc, Die(p) PROVE IInv'
  BY <1>4, <1>7 DEF Die
<1> QED  BY <1>1, <1>5, <1>6, <1>7 DEF Next

LEMMA StutterPreserves ==
  ASSUME IInv, UNCHANGED vars
  PROVE  IInv'
BY DEF IInv, vars, TypeOK, NotMadeYet, NotForkedYet, OnePermit, Holders, SemOf

LEMMA IInvInvariant == Spec => []IInv
<1>1. IInv /\ [Next]_vars => IInv'
  BY StepPreserves, StutterPreserves
<1> QED  BY <1>1, InitEstablishes, PTL DEF Spec

(***************************************************************************)
(* However many runs of task08 or task10 there are, and wherever their     *)
(* processes are killed, each semaphore has one permit: in it, or with one *)
(* process.                                                                *)
(***************************************************************************)
THEOREM PermitAlwaysOne == Spec => []OnePermit
<1>1. IInv => OnePermit
  BY DEF IInv
<1> QED  BY <1>1, IInvInvariant, PTL

(* No step but these two changes the file, and none but the second takes a *)
(* parent to "post".                                                       *)
LEMMA FileStep ==
  ASSUME IInv, Next, NEW r \in Run,
         ~\E q \in Run : open_file(q),
         ~\E p \in Proc : WriteFile(p)
  PROVE  /\ UNCHANGED file
         /\ pc'[<<r, "parent">>] \in {"post", "pipe"} => pc[<<r, "parent">>] \in {"post", "pipe"}
<1> DEFINE Goal == /\ UNCHANGED file
                   /\ pc'[<<r, "parent">>] \in {"post", "pipe"}
                      => pc[<<r, "parent">>] \in {"post", "pipe"}
<1>1. pc \in [Proc -> Locs] /\ <<r, "parent">> \in Proc
  BY ProcStructure DEF IInv, TypeOK
<1>2. ASSUME NEW q \in Run, Start(q) \/ mutex_init(q) \/ sem_open(q) PROVE Goal
  BY <1>1, <1>2 DEF Start, mutex_init, sem_open, Setup, Goto
<1>3. ASSUME NEW q \in Run, Fork(q) PROVE Goal
  BY <1>1, <1>3 DEF Fork
<1>4. ASSUME NEW p \in Proc, Wait(p) \/ Post(p) \/ OpenFile(p) PROVE Goal
  BY <1>1, <1>4 DEF Wait, Post, OpenFile, Goto
<1>5. ASSUME NEW p \in Proc, ReadFile(p) PROVE Goal
  BY <1>1, <1>5 DEF ReadFile, Goto, Children
<1>6. ASSUME NEW q \in Run, ReadPipe(q) \/ WritePipe(q) PROVE Goal
  BY <1>1, <1>6 DEF ReadPipe, WritePipe, Goto
<1>7. ASSUME UNCHANGED <<pc, file>> PROVE Goal
  BY <1>7
<1>8. ASSUME NEW q \in Run, Parent(q) \/ Child(q) PROVE Goal
  BY <1>2, <1>3, <1>4, <1>5, <1>6, <1>7, <1>8, ProcStructure DEF Parent, Child, BrokenPipe
<1> QED  BY <1>2, <1>7, <1>8 DEF Next, Die

LEMMA FilledPreserved ==
  ASSUME IInv, FilledInv, [Next]_vars
  PROVE  FilledInv'
<1> SUFFICES ASSUME NEW r \in Run, pc'[<<r, "parent">>] \in {"post", "pipe"}
             PROVE  file'[2] = "number" \/ file'[1] # r
  BY DEF FilledInv
<1>1. CASE UNCHANGED vars
  BY <1>1 DEF FilledInv, vars
<1>2. ASSUME NEW q \in Run, open_file(q) PROVE file'[2] = "number" \/ file'[1] # r
  <2>1. file' = <<q, "empty">> /\ pc'[<<q, "parent">>] \in {"second", "fork"}
    BY <1>2, ProcStructure DEF open_file, Setup, Goto, IInv, TypeOK
  <2> QED  BY <2>1
<1>3. ASSUME NEW p \in Proc, WriteFile(p) PROVE file'[2] = "number" \/ file'[1] # r
  BY <1>3 DEF WriteFile
<1>4. ASSUME Next, ~\E q \in Run : open_file(q), ~\E p \in Proc : WriteFile(p)
      PROVE  file'[2] = "number" \/ file'[1] # r
  <2>1. UNCHANGED file /\ pc[<<r, "parent">>] \in {"post", "pipe"}
    BY <1>4, FileStep
  <2> QED  BY <2>1 DEF FilledInv
<1> QED  BY <1>1, <1>2, <1>3, <1>4

(***************************************************************************)
(* For any number of overlapping runs of either program, a child whose     *)
(* parent has had its turn finds the file empty only if another run has    *)
(* emptied it.                                                             *)
(***************************************************************************)
THEOREM FileAlwaysFilled == Spec => []FileFilled
<1>1. IInv /\ FilledInv /\ [Next]_vars => FilledInv'
  BY FilledPreserved
<1>2. FilledInv => FileFilled
  BY DEF FilledInv, FileFilled
<1> QED  BY <1>1, <1>2, InitEstablishes, IInvInvariant, PTL DEF Spec
=============================================================================
