------------------------ MODULE SeriesExtremaProofs ------------------------
(***************************************************************************)
(* Theorems about SeriesExtrema, for every size of the array and every     *)
(* range of int: what is printed are the extrema of a whole series, and    *)
(* nobody is blocked on the semaphore that is destroyed.                   *)
(***************************************************************************)
EXTENDS SeriesExtrema, TLAPS

ParentInside == pc["parent"] \in {"generate", "print", "clear", "size", "fill", "post"}
ChildInside  == pc["child"] \in {"calc", "min", "max", "flag", "scan", "post"}

(* One of the two at most is inside, and the semaphore says which. *)
MutexInv == /\ sem = 1 <=> ~ParentInside /\ ~ChildInside
            /\ ~(ParentInside /\ ChildInside)

(* Where the parent stands between one series and the next. *)
SeriesInv ==
  /\ first_iter = 1 => calculated = 1 /\ pc["parent"] \notin {"print", "clear", "size", "fill"}
  /\ pc["parent"] \in {"print", "clear"} => calculated = 1
  /\ pc["parent"] \in {"size", "fill"} => calculated = 0
  /\ first_iter = 0 /\ pc["parent"] \notin {"clear", "size"} => size >= 1
  /\ pc["parent"] = "fill" => j["parent"] <= size
  /\ pc["parent"] # "fill" => j["parent"] = size

(* Where the child stands in a computation: n numbers scanned. *)
ScannedInv(n) ==
  /\ n <= size
  /\ n = 0 => min = INT_MAX /\ max = INT_MIN
  /\ n > 0 => AreExtrema(min, max, n)

ChildInv ==
  /\ pc["child"] \in {"min", "max", "flag"} => calculated = 0
  /\ pc["child"] \in {"max", "flag"} => min = INT_MAX
  /\ pc["child"] = "flag" => max = INT_MIN
  /\ pc["child"] = "scan" => first_iter = 0 /\ calculated = 1 /\ ScannedInv(j["child"])

(* A series marked as computed is, unless the child is at it. *)
ComputedInv ==
  calculated = 1 /\ first_iter = 0 /\ pc["child"] # "scan" /\ pc["parent"] # "clear"
    => AreExtrema(min, max, size)

(***************************************************************************)
(* PrintedExtrema alone is not inductive: the parent may print because     *)
(* `calculated' is set while the child is not at its loop, and the child   *)
(* is not because the semaphore excludes it.                               *)
(***************************************************************************)
IInv == TypeOK /\ MutexInv /\ SeriesInv /\ ChildInv /\ ComputedInv

(* One more number scanned makes extrema of n numbers extrema of n + 1. *)
LEMMA ExtremaStep ==
  ASSUME TypeOK, NEW n \in Nat, n < size, ScannedInv(n),
         max' = (IF numbers[n] > max THEN numbers[n] ELSE max),
         min' = (IF numbers[n] < min THEN numbers[n] ELSE min),
         numbers' = numbers
  PROVE  AreExtrema(min', max', n + 1)
<1> DEFINE x == numbers[n]
<1>1. n \in Index /\ x \in Int /\ 0 <= x /\ x <= INT_MAX /\ INT_MIN < x
  BY IntAssumption DEF TypeOK, Index, Number
<1>2. \A k \in 0 .. n : k \in Index /\ numbers[k] \in Int
  BY IntAssumption DEF TypeOK, Index, Number
<1>3. CASE n = 0
  <2>1. min' = x /\ max' = x
    BY <1>1, <1>3, IntAssumption DEF ScannedInv
  <2> QED  BY <1>1, <1>3, <2>1 DEF AreExtrema
<1>4. CASE n > 0
  <2>1. AreExtrema(min, max, n)
    BY <1>4 DEF ScannedInv
  <2>2. PICK k1 \in 0 .. n - 1 : numbers[k1] = min
    BY <2>1 DEF AreExtrema
  <2>3. PICK k2 \in 0 .. n - 1 : numbers[k2] = max
    BY <2>1 DEF AreExtrema
  <2>4. \A k \in 0 .. n - 1 : min <= numbers[k] /\ numbers[k] <= max
    BY <2>1 DEF AreExtrema
  <2>5. /\ min' \in Int /\ max' \in Int
        /\ min' <= min /\ max <= max' /\ min' <= x /\ x <= max'
    BY <1>1 DEF TypeOK
  <2>6. \E k \in 0 .. n : numbers[k] = min'
    BY <2>2, <1>4
  <2>7. \E k \in 0 .. n : numbers[k] = max'
    BY <2>3, <1>4
  <2>8. \A k \in 0 .. n : min' <= numbers[k] /\ numbers[k] <= max'
    <3> SUFFICES ASSUME NEW k \in 0 .. n
                 PROVE  min' <= numbers[k] /\ numbers[k] <= max'
      OBVIOUS
    <3>1. CASE k = n
      BY <3>1, <2>5
    <3>2. CASE k # n
      <4>1. min <= numbers[k] /\ numbers[k] <= max
        BY <3>2, <2>4
      <4> QED  BY <4>1, <2>5, <1>2 DEF TypeOK
    <3> QED  BY <3>1, <3>2
  <2>9. (n + 1) - 1 = n
    OBVIOUS
  <2> QED  BY <2>6, <2>7, <2>8, <2>9 DEF AreExtrema
<1> QED  BY <1>3, <1>4

LEMMA InitEstablishes == Init => IInv
BY IntAssumption DEF Init, IInv, TypeOK, MutexInv, SeriesInv, ChildInv, ComputedInv,
   ParentInside, ChildInside, Proc, Index, Number, ParentLocs, ChildLocs

(* The parts about the series only depend on what they mention. *)
LEMMA SeriesUntouched ==
  ASSUME UNCHANGED <<calculated, size, numbers, min, max, first_iter, j>>,
         SeriesInv, ChildInv, ComputedInv,
         \/ UNCHANGED pc
         \/ /\ pc'["child"] = pc["child"]
            /\ pc["parent"] \notin {"print", "clear", "size", "fill"}
            /\ pc'["parent"] \notin {"print", "clear", "size", "fill"}
         \/ /\ pc'["parent"] = pc["parent"]
            /\ pc["child"] \notin {"min", "max", "flag", "scan"}
            /\ pc'["child"] \notin {"min", "max", "flag", "scan"}
  PROVE  SeriesInv' /\ ChildInv' /\ ComputedInv'
<1>1. SeriesInv'
  BY DEF SeriesInv
<1>2. AreExtrema(min, max, size)' <=> AreExtrema(min, max, size)
  BY DEF AreExtrema
<1>3. ScannedInv(j["child"])' <=> ScannedInv(j["child"])
  BY DEF ScannedInv, AreExtrema
<1>4. ChildInv'
  BY <1>3 DEF ChildInv
<1>5. ComputedInv'
  BY <1>2 DEF ComputedInv
<1> QED  BY <1>1, <1>4, <1>5

(* The steps of the loops leave the series alone. *)
LEMMA CommonPreserves ==
  ASSUME IInv, NEW p \in Proc, Common(p)
  PROVE  IInv'
<1> USE DEF IInv, Proc, Goto
<1>1. PICK to : Goto(p, pc[p], to)
                /\ pc[p] \in {"top", "wait", "post", "destroy"}
                /\ to \in {"top", "wait", "sleep", "generate", "calc", "destroy", "exit"}
                /\ (p = "parent" => to \in ParentLocs) /\ (p = "child" => to \in ChildLocs)
  BY DEF Common, TestStop, Wait, Post, Destroy, ParentLocs, ChildLocs
<1>2. UNCHANGED <<calculated, size, numbers, min, max, first_iter, j>>
  BY DEF Common, TestStop, Wait, Post, Destroy, shmbuf
<1>3. SeriesInv' /\ ChildInv' /\ ComputedInv'
  BY <1>1, <1>2, SeriesUntouched DEF TypeOK
<1>4. sem' \in {0, 1} /\ MutexInv'
  BY DEF Common, TestStop, Wait, Post, Destroy, shmbuf, TypeOK, MutexInv, ParentInside,
         ChildInside
<1>5. TypeOK'
  BY <1>1, <1>2, <1>4 DEF TypeOK
<1> QED  BY <1>3, <1>4, <1>5

(* While the parent is inside, the child is at no place that says anything. *)
LEMMA ParentPreserves ==
  ASSUME IInv,
         Generate \/ PrintExtrema \/ ClearCalculated \/ SetSize \/ Fill \/ Sleep
  PROVE  IInv'
<1> USE DEF IInv, Proc, Goto
<1>1. /\ pc'["child"] = pc["child"] /\ pc'["parent"] \in ParentLocs
      /\ pc' \in [Proc -> ParentLocs \cup ChildLocs]
      /\ UNCHANGED <<sem, stop, sigint>>
  BY DEF TypeOK, Generate, PrintExtrema, ClearCalculated, SetSize, Fill, Sleep, shmbuf, ParentLocs
<1>2. MutexInv'
  BY <1>1 DEF MutexInv, TypeOK, Generate, PrintExtrema, ClearCalculated, SetSize, Fill, Sleep,
     ParentInside, ChildInside
<1>3. pc["parent"] = "sleep" \/ (ParentInside /\ ~ChildInside)
  BY DEF MutexInv, Generate, PrintExtrema, ClearCalculated, SetSize, Fill, Sleep, ParentInside
<1>4. pc["parent"] # "sleep" => pc'["child"] \notin {"min", "max", "flag", "scan"}
  BY <1>1, <1>3 DEF ChildInside
<1>5. CASE Sleep
  <2>1. UNCHANGED <<calculated, size, numbers, min, max, first_iter, j>>
    BY <1>5 DEF Sleep, shmbuf
  <2>2. SeriesInv' /\ ChildInv' /\ ComputedInv'
    BY <1>1, <1>5, <2>1, SeriesUntouched DEF Sleep, TypeOK
  <2> QED  BY <1>1, <1>2, <2>1, <2>2 DEF TypeOK
<1>6. CASE ~Sleep
  <2>1. pc["parent"] # "sleep"
    BY <1>6 DEF Generate, PrintExtrema, ClearCalculated, SetSize, Fill
  <2>2. ChildInv'
    BY <1>4, <2>1 DEF ChildInv
  <2>3. CASE Generate \/ PrintExtrema
    <3>1. UNCHANGED <<calculated, size, numbers, min, max, j>>
      BY <2>3 DEF Generate, PrintExtrema, shmbuf
    <3>2. first_iter' \in {0, 1}
      BY <2>3 DEF Generate, PrintExtrema, TypeOK
    <3>3. TypeOK'
      BY <1>1, <3>1, <3>2 DEF TypeOK
    <3>4. AreExtrema(min, max, size)' <=> AreExtrema(min, max, size)
      BY <3>1 DEF AreExtrema
    <3>5. SeriesInv'
      BY <2>3, <3>1 DEF Generate, PrintExtrema, SeriesInv, TypeOK
    <3>6. ComputedInv'
      BY <2>3, <3>1, <3>4, <1>1 DEF Generate, PrintExtrema, ComputedInv, SeriesInv, TypeOK
    <3> QED  BY <1>2, <2>2, <3>3, <3>5, <3>6
  <2>4. CASE ClearCalculated
    <3>1. TypeOK' /\ calculated' = 0 /\ pc["parent"] = "clear" /\ pc'["parent"] = "size"
          /\ UNCHANGED <<size, first_iter, j>>
      BY <1>1, <2>4 DEF ClearCalculated, TypeOK
    <3> QED  BY <1>2, <2>2, <3>1 DEF SeriesInv, ComputedInv
  <2>5. CASE SetSize
    <3>1. size' \in 1 .. SERIES_SIZE - 1 /\ j' \in [Proc -> 0 .. SERIES_SIZE - 1]
      BY <2>5, IntAssumption DEF SetSize, TypeOK
    <3>2. TypeOK' /\ calculated' = 0 /\ first_iter' = 0 /\ j'["parent"] = 0
          /\ pc'["parent"] = "fill"
      BY <1>1, <2>5, <3>1, IntAssumption DEF SetSize, TypeOK, SeriesInv
    <3> QED  BY <1>2, <2>2, <3>1, <3>2 DEF SeriesInv, ComputedInv
  <2>6. CASE Fill
    <3>1. numbers' \in [Index -> Number]
      BY <2>6 DEF Fill, TypeOK
    <3>2. /\ pc["parent"] = "fill" /\ calculated' = 0 /\ first_iter' = 0
          /\ UNCHANGED <<calculated, first_iter, size, min, max>>
      BY <2>6 DEF Fill, TypeOK, SeriesInv
    <3>3. \/ j["parent"] < size /\ j' = [j EXCEPT !["parent"] = @ + 1]
               /\ pc'["parent"] = "fill"
          \/ j["parent"] = size /\ UNCHANGED j /\ pc'["parent"] = "post"
      BY <2>6 DEF Fill, TypeOK, SeriesInv
    <3>4. j' \in [Proc -> 0 .. SERIES_SIZE - 1] /\ j'["parent"] <= size
      BY <3>3, IntAssumption DEF TypeOK, SeriesInv
    <3>5. TypeOK'
      BY <1>1, <3>1, <3>2, <3>4 DEF TypeOK
    <3> QED  BY <1>2, <2>2, <3>2, <3>3, <3>4, <3>5 DEF SeriesInv, ComputedInv
  <2> QED  BY <1>6, <2>3, <2>4, <2>5, <2>6
<1> QED  BY <1>5, <1>6

(* While the child is inside, the parent is between two series. *)
LEMMA ChildPreserves ==
  ASSUME IInv, Calc \/ InitMin \/ InitMax \/ SetCalculated \/ Scan
  PROVE  IInv'
<1> USE DEF IInv, Proc, Goto
<1>1. /\ pc'["parent"] = pc["parent"] /\ pc'["child"] \in ChildLocs
      /\ pc' \in [Proc -> ParentLocs \cup ChildLocs]
      /\ UNCHANGED <<sem, size, numbers, first_iter, stop, sigint>>
  BY DEF TypeOK, Calc, InitMin, InitMax, SetCalculated, Scan, shmbuf, ChildLocs
<1>2. MutexInv'
  BY <1>1 DEF MutexInv, TypeOK, Calc, InitMin, InitMax, SetCalculated, Scan,
     ParentInside, ChildInside
<1>3. ~ParentInside
  BY DEF MutexInv, Calc, InitMin, InitMax, SetCalculated, Scan, ChildInside
<1>4. /\ pc["parent"] \notin {"print", "clear", "size", "fill"}
      /\ first_iter = 0 => size >= 1
      /\ first_iter = 1 => calculated = 1
  BY <1>3 DEF ParentInside, SeriesInv
<1>5. CASE Calc
  <2>1. UNCHANGED <<calculated, min, max, j>>
    BY <1>5 DEF Calc, shmbuf
  <2>2. AreExtrema(min, max, size)' <=> AreExtrema(min, max, size)
    BY <1>1, <2>1 DEF AreExtrema
  <2>3. ChildInv' /\ ComputedInv'
    BY <1>1, <1>5, <2>1, <2>2 DEF Calc, ChildInv, ComputedInv, TypeOK
  <2> QED  BY <1>1, <1>2, <2>1, <2>3 DEF TypeOK, SeriesInv
<1>6. CASE InitMin \/ InitMax
  <2>1. UNCHANGED <<calculated, j>> /\ min' \in Int /\ max' \in Int /\ calculated = 0
    BY <1>6, IntAssumption DEF InitMin, InitMax, TypeOK, ChildInv
  <2>2. ChildInv'
    BY <1>6, <2>1 DEF InitMin, InitMax, ChildInv, TypeOK
  <2> QED  BY <1>1, <1>2, <2>1, <2>2 DEF TypeOK, SeriesInv, ComputedInv
<1>7. CASE SetCalculated
  <2>1. /\ calculated = 0 /\ first_iter = 0 /\ min = INT_MAX /\ max = INT_MIN
        /\ UNCHANGED <<min, max>>
    BY <1>4, <1>7 DEF SetCalculated, ChildInv, TypeOK
  <2>2. /\ calculated' = 1 /\ j'["child"] = 0 /\ j'["parent"] = j["parent"]
        /\ j' \in [Proc -> 0 .. SERIES_SIZE - 1] /\ pc'["child"] = "scan"
    BY <1>7, IntAssumption DEF SetCalculated, TypeOK
  <2>3. ScannedInv(j["child"])'
    BY <1>1, <2>1, <2>2 DEF ScannedInv, TypeOK
  <2>4. TypeOK'
    BY <1>1, <2>1, <2>2 DEF TypeOK
  <2>5. SeriesInv'
    BY <1>1, <1>4, <2>1, <2>2 DEF SeriesInv
  <2>6. ChildInv' /\ ComputedInv'
    BY <1>1, <2>1, <2>2, <2>3 DEF ChildInv, ComputedInv
  <2> QED  BY <1>2, <2>4, <2>5, <2>6
<1>8. CASE Scan
  <2>1. /\ pc["child"] = "scan" /\ ScannedInv(j["child"]) /\ j["child"] \in Nat
        /\ first_iter = 0 /\ calculated = 1 /\ calculated' = 1 /\ size >= 1
    BY <1>4, <1>8 DEF Scan, ChildInv, TypeOK
  <2>2. CASE j["child"] < size
    <3> DEFINE n == j["child"]
    <3>1. AreExtrema(min', max', n + 1)
      BY <1>8, <2>1, <2>2, ExtremaStep DEF Scan
    <3>2. j'["child"] = n + 1 /\ j'["parent"] = j["parent"] /\ pc'["child"] = "scan"
      BY <1>8, <2>2 DEF Scan, TypeOK
    <3>3. ScannedInv(j["child"])'
      BY <1>1, <2>1, <2>2, <3>1, <3>2 DEF ScannedInv, AreExtrema, TypeOK
    <3>4. numbers[n] \in Int
      BY <2>1, <2>2, IntAssumption DEF TypeOK, Index, Number
    <3>5. min' \in Int /\ max' \in Int
      BY <1>8, <2>2, <3>4 DEF Scan, TypeOK
    <3>6. j' \in [Proc -> 0 .. SERIES_SIZE - 1]
      BY <1>8, <2>2, IntAssumption DEF Scan, TypeOK
    <3>7. TypeOK'
      BY <1>1, <2>1, <3>5, <3>6 DEF TypeOK
    <3>8. SeriesInv'
      BY <1>1, <1>4, <2>1, <3>2 DEF SeriesInv
    <3>9. ChildInv' /\ ComputedInv'
      BY <1>1, <2>1, <3>2, <3>3 DEF ChildInv, ComputedInv
    <3> QED  BY <1>2, <3>7, <3>8, <3>9
  <2>3. CASE ~(j["child"] < size)
    <3>1. j["child"] = size /\ AreExtrema(min, max, size)
      BY <2>1, <2>3 DEF ScannedInv, TypeOK
    <3>2. UNCHANGED <<min, max, j, calculated>> /\ pc'["child"] = "post"
      BY <1>8, <2>3 DEF Scan, TypeOK
    <3>3. AreExtrema(min, max, size)'
      BY <1>1, <3>1, <3>2 DEF AreExtrema
    <3>4. SeriesInv' /\ TypeOK'
      BY <1>1, <3>2 DEF SeriesInv, TypeOK
    <3> QED  BY <1>2, <3>2, <3>3, <3>4 DEF ChildInv, ComputedInv
  <2> QED  BY <2>2, <2>3
<1> QED  BY <1>5, <1>6, <1>7, <1>8

(* A signal changes nothing the invariant is about. *)
LEMMA SignalPreserves ==
  ASSUME IInv,
         \/ \E p \in Proc : sighandler(p)
         \/ \E S \in SUBSET Proc \ {{}} : Interrupt(S)
         \/ UNCHANGED vars
  PROVE  IInv'
<1>1. UNCHANGED <<shmbuf, first_iter, j, pc>>
  BY DEF sighandler, Interrupt, vars
<1>2. stop' \in [Proc -> {0, 1}] /\ sigint' \subseteq Proc
  BY DEF IInv, TypeOK, sighandler, Interrupt, vars
<1>3. TypeOK' /\ MutexInv'
  BY <1>1, <1>2 DEF IInv, TypeOK, shmbuf, MutexInv, ParentInside, ChildInside
<1> QED  BY <1>1, <1>3, SeriesUntouched DEF IInv, shmbuf

LEMMA NextPreserves == IInv /\ [Next]_vars => IInv'
BY CommonPreserves, ParentPreserves, ChildPreserves, SignalPreserves
   DEF Next, Parent, Child, Proc

THEOREM Invariance == Spec => []IInv
BY InitEstablishes, NextPreserves, PTL DEF Spec

(* task12/main.c: every variable keeps its type, no index leaves the array. *)
THEOREM TypeCorrect == Spec => []TypeOK
<1>1. IInv => TypeOK
  BY DEF IInv
<1> QED  BY <1>1, Invariance, PTL

(***************************************************************************)
(* task12/main.c: "min: %d, max: %d" are always the extrema of the whole   *)
(* series printed before, for any series.                                  *)
(***************************************************************************)
THEOREM PrintsExtrema == Spec => []PrintedExtrema
<1>1. IInv => PrintedExtrema
  BY DEF IInv, TypeOK, PrintedExtrema, SeriesInv, ComputedInv, MutexInv, ParentInside,
     ChildInside
<1> QED  BY <1>1, Invariance, PTL

(* task12/main.c: the semaphore is not destroyed under a process blocked on it. *)
THEOREM DestroysUnblocked == Spec => []NoneBlockedAtDestroy
<1>1. IInv => NoneBlockedAtDestroy
  BY DEF IInv, TypeOK, NoneBlockedAtDestroy, MutexInv, ParentInside, ChildInside, Proc
<1> QED  BY <1>1, Invariance, PTL
=============================================================================
