---------------------------- MODULE ContactsProofs ----------------------------
(***************************************************************************)
(* Theorems about Contacts, for any names and any data: the list is in     *)
(* order, also when it was read from a file with the records of several    *)
(* runs in it, and what one run saved the next one reads, if it starts.    *)
(***************************************************************************)
EXTENDS Contacts, FiniteSetTheorems, SequenceTheorems, WellFoundedInduction, TLAPS

InOrder(cs) == \A i, k \in DOMAIN cs : i < k => cs[i].name < cs[k].name

(* The lists a run may have. *)
Book == {cs \in Seq(Contact) : InOrder(cs)}

TypeOK == list \in Seq(Contact) /\ file \in Seq(Contact)

IInv == TypeOK /\ Sorted

-----------------------------------------------------------------------------
(* Induction over numbers, in the form the provers can use.                *)
LEMMA LeastNat ==
  ASSUME NEW T, T \subseteq Nat, T # {}
  PROVE  \E n \in T : \A m \in T : n <= m
<1> DEFINE R == OpToRel(<, Nat)
<1>1. IsWellFoundedOn(R, Nat)
  BY NatLessThanWellFounded
<1>2. \A x, y \in Nat : <<x, y>> \in R <=> x < y
  BY DEF OpToRel
<1> HIDE DEF R
<1>3. PICK n \in T : \A m \in T : ~(<<m, n>> \in R)
  BY <1>1, WFMin
<1>4. ASSUME NEW m \in T PROVE n <= m
  <2>1. m \in Nat /\ n \in Nat
    OBVIOUS
  <2>2. ~(m < n)
    BY <1>2, <1>3, <2>1
  <2> QED  BY <2>1, <2>2
<1> QED  BY <1>4

-----------------------------------------------------------------------------
(* A new element at one place moves those behind it by one.                *)
LEMMA Inserted ==
  ASSUME NEW S, NEW s \in Seq(S), NEW e \in S, NEW k \in 1 .. Len(s) + 1
  PROVE  /\ InsertAt(s, k, e) \in Seq(S)
         /\ Len(InsertAt(s, k, e)) = Len(s) + 1
         /\ \A i \in 1 .. Len(s) + 1 :
              InsertAt(s, k, e)[i] = IF i < k THEN s[i] ELSE IF i = k THEN e ELSE s[i - 1]
<1> DEFINE a == SubSeq(s, 1, k - 1)  b == SubSeq(s, k, Len(s))
<1>0. Len(s) \in Nat /\ k \in Nat
  BY LenProperties
<1>1. a \in Seq(S) /\ Len(a) = k - 1 /\ \A i \in 1 .. k - 1 : a[i] = s[i]
  BY SubSeqProperties
<1>2. b \in Seq(S) /\ Len(b) = Len(s) - k + 1 /\ \A i \in 1 .. Len(b) : b[i] = s[k + i - 1]
  BY SubSeqProperties
<1>3. <<e>> \in Seq(S) /\ Len(<<e>>) = 1 /\ <<e>>[1] = e
  OBVIOUS
<1> HIDE DEF a, b
<1>4. /\ a \o <<e>> \in Seq(S) /\ Len(a \o <<e>>) = k
      /\ \A i \in 1 .. k : (a \o <<e>>)[i] = IF i < k THEN a[i] ELSE e
  BY <1>1, <1>3, ConcatProperties
<1> DEFINE ae == a \o <<e>>
<1> HIDE DEF ae
<1>5. /\ ae \o b \in Seq(S) /\ Len(ae \o b) = Len(s) + 1
      /\ \A i \in 1 .. Len(s) + 1 : (ae \o b)[i] = IF i <= k THEN ae[i] ELSE b[i - k]
  <2>1. ae \in Seq(S) /\ Len(ae) = k
    BY <1>4 DEF ae
  <2>2. /\ ae \o b \in Seq(S) /\ Len(ae \o b) = k + Len(b)
        /\ \A i \in 1 .. k + Len(b) : (ae \o b)[i] = IF i <= k THEN ae[i] ELSE b[i - k]
    BY <1>2, <2>1, ConcatProperties
  <2>3. k + Len(b) = Len(s) + 1
    BY <1>0, <1>2
  <2> QED  BY <2>2, <2>3
<1>6. InsertAt(s, k, e) = ae \o b
  BY DEF InsertAt, a, b, ae
<1>7. ASSUME NEW i \in 1 .. Len(s) + 1
      PROVE  (ae \o b)[i] = IF i < k THEN s[i] ELSE IF i = k THEN e ELSE s[i - 1]
  <2>0. i \in Nat
    BY <1>0
  <2>1. CASE i < k
    BY <2>1, <2>0, <1>0, <1>1, <1>4, <1>5 DEF ae
  <2>2. CASE i = k
    BY <2>2, <2>0, <1>0, <1>4, <1>5 DEF ae
  <2>3. CASE i > k
    BY <2>3, <2>0, <1>0, <1>2, <1>5
  <2>4. i < k \/ i = k \/ i > k
    BY <2>0, <1>0
  <2> QED  BY <2>1, <2>2, <2>3, <2>4
<1> QED  BY <1>5, <1>6, <1>7

LEMMA Removed ==
  ASSUME NEW S, NEW s \in Seq(S), NEW k \in 1 .. Len(s)
  PROVE  /\ RemoveAt(s, k) \in Seq(S)
         /\ Len(RemoveAt(s, k)) = Len(s) - 1
         /\ \A i \in 1 .. Len(s) - 1 : RemoveAt(s, k)[i] = IF i < k THEN s[i] ELSE s[i + 1]
<1> DEFINE a == SubSeq(s, 1, k - 1)  b == SubSeq(s, k + 1, Len(s))
<1>0. Len(s) \in Nat /\ k \in Nat /\ k >= 1 /\ k <= Len(s)
  BY LenProperties
<1>1. a \in Seq(S) /\ Len(a) = k - 1 /\ \A i \in 1 .. k - 1 : a[i] = s[i]
  BY SubSeqProperties
<1>2. b \in Seq(S) /\ Len(b) = Len(s) - k /\ \A i \in 1 .. Len(b) : b[i] = s[k + i]
  BY SubSeqProperties
<1> HIDE DEF a, b
<1>3. /\ a \o b \in Seq(S) /\ Len(a \o b) = Len(s) - 1
      /\ \A i \in 1 .. Len(s) - 1 : (a \o b)[i] = IF i < k THEN a[i] ELSE b[i - (k - 1)]
  <2>1. /\ a \o b \in Seq(S) /\ Len(a \o b) = Len(a) + Len(b)
        /\ \A i \in 1 .. Len(a) + Len(b) :
             (a \o b)[i] = IF i <= Len(a) THEN a[i] ELSE b[i - Len(a)]
    BY <1>1, <1>2, ConcatProperties
  <2>2. Len(a) + Len(b) = Len(s) - 1 /\ Len(a) = k - 1
    BY <1>0, <1>1, <1>2
  <2>3. \A i \in 1 .. Len(s) - 1 : i <= k - 1 <=> i < k
    BY <1>0
  <2> QED  BY <2>1, <2>2, <2>3
<1>4. ASSUME NEW i \in 1 .. Len(s) - 1
      PROVE  (a \o b)[i] = IF i < k THEN s[i] ELSE s[i + 1]
  <2>0. i \in Nat
    BY <1>0
  <2>1. CASE i < k
    BY <2>1, <2>0, <1>0, <1>1, <1>3
  <2>2. CASE i >= k
    <3>1. i - (k - 1) \in 1 .. Len(b) /\ k + (i - (k - 1)) = i + 1
      BY <2>2, <2>0, <1>0, <1>2
    <3>2. b[i - (k - 1)] = s[k + (i - (k - 1))]
      BY <3>1, <1>2
    <3> QED  BY <3>1, <3>2, <2>2, <2>0, <1>0, <1>3
  <2>3. i < k \/ i >= k
    BY <2>0, <1>0
  <2> QED  BY <2>1, <2>2, <2>3
<1>5. RemoveAt(s, k) = a \o b
  BY DEF RemoveAt, a, b
<1> QED  BY <1>3, <1>4, <1>5

(* The walk of contacts_add() stops where the contact belongs.             *)
LEMMA Place ==
  ASSUME NEW cs \in Book, NEW c \in Contact
  PROVE  /\ Cardinality(Before(cs, c)) + 1 \in 1 .. Len(cs) + 1
         /\ \A i \in 1 .. Len(cs) : i <= Cardinality(Before(cs, c)) <=> cs[i].name < c.name
<1> DEFINE T == {n \in 1 .. Len(cs) + 1 : n = Len(cs) + 1 \/ ~(cs[n].name < c.name)}
<1>1. cs \in Seq(Contact) /\ InOrder(cs) /\ Len(cs) \in Nat /\ DOMAIN cs = 1 .. Len(cs)
  BY LenProperties DEF Book
<1>2. c.name \in Nat /\ \A i \in 1 .. Len(cs) : cs[i].name \in Nat
  <2>1. ASSUME NEW i \in 1 .. Len(cs) PROVE cs[i] \in Contact
    BY <1>1, ElementOfSeq
  <2>2. \A d \in Contact : d.name \in Name
    BY DEF Contact
  <2> QED  BY <2>1, <2>2, NameAssumption
<1>3. PICK k \in T : \A m \in T : k <= m
  <2>1. Len(cs) + 1 \in T /\ T \subseteq Nat
    BY <1>1
  <2> QED  BY <2>1, LeastNat
<1>4. \A i \in 1 .. Len(cs) : i <= k - 1 <=> cs[i].name < c.name
  BY <1>1, <1>2, <1>3 DEF InOrder
<1>5. Before(cs, c) = 1 .. k - 1
  BY <1>1, <1>4, <1>3 DEF Before
<1>6. Cardinality(1 .. k - 1) = k - 1
  BY <1>1, <1>3, FS_Interval
<1> QED  BY <1>1, <1>3, <1>4, <1>5, <1>6

-----------------------------------------------------------------------------
(* What contacts_add() returns for a new name is a list in order with the  *)
(* contacts there were and the new one.                                    *)
LEMMA InsertKeeps ==
  ASSUME NEW cs \in Book, NEW c \in Contact
  PROVE  \/ Insert(cs, c) = <<>>
         \/ \E new \in Book : /\ Insert(cs, c) = <<new>>
                              /\ \A i \in 1 .. Len(cs) : \E k \in 1 .. Len(new) : new[k] = cs[i]
                              /\ \E k \in 1 .. Len(new) : new[k] = c
<1> SUFFICES ASSUME c.name \notin Names(cs)
             PROVE  \E new \in Book :
                       /\ Insert(cs, c) = <<new>>
                       /\ \A i \in 1 .. Len(cs) : \E k \in 1 .. Len(new) : new[k] = cs[i]
                       /\ \E k \in 1 .. Len(new) : new[k] = c
  BY DEF Insert
<1> DEFINE p == Cardinality(Before(cs, c)) + 1  new == InsertAt(cs, p, c)
<1>1. cs \in Seq(Contact) /\ InOrder(cs) /\ Len(cs) \in Nat /\ DOMAIN cs = 1 .. Len(cs)
  BY LenProperties DEF Book
<1>2. p \in 1 .. Len(cs) + 1 /\ p \in Nat
  BY <1>1, Place
<1>3. \A i \in 1 .. Len(cs) : i < p <=> cs[i].name < c.name
  <2>1. ASSUME NEW i \in 1 .. Len(cs) PROVE i < p <=> i <= Cardinality(Before(cs, c))
    <3>1. Cardinality(Before(cs, c)) \in Int
      <4>1. Before(cs, c) \subseteq 1 .. Len(cs)
        BY <1>1 DEF Before
      <4>2. IsFiniteSet(1 .. Len(cs))
        BY <1>1, FS_Interval
      <4>3. IsFiniteSet(Before(cs, c))
        BY <4>1, <4>2, FS_Subset
      <4> QED  BY <4>3, FS_CardinalityType
    <3> QED  BY <1>1, <3>1
  <2> QED  BY <2>1, Place
<1>4. c.name \in Nat /\ \A i \in 1 .. Len(cs) : cs[i].name \in Nat
  <2>1. ASSUME NEW i \in 1 .. Len(cs) PROVE cs[i] \in Contact
    BY <1>1, ElementOfSeq
  <2>2. \A d \in Contact : d.name \in Name
    BY DEF Contact
  <2> QED  BY <2>1, <2>2, NameAssumption
<1>5. \A i \in 1 .. Len(cs) : cs[i].name # c.name
  BY <1>1 DEF Names
<1> HIDE DEF p, new
<1>6. /\ new \in Seq(Contact) /\ Len(new) = Len(cs) + 1
      /\ \A i \in 1 .. Len(cs) + 1 :
           new[i] = IF i < p THEN cs[i] ELSE IF i = p THEN c ELSE cs[i - 1]
  <2>1. /\ InsertAt(cs, p, c) \in Seq(Contact) /\ Len(InsertAt(cs, p, c)) = Len(cs) + 1
        /\ \A i \in 1 .. Len(cs) + 1 :
             InsertAt(cs, p, c)[i] = IF i < p THEN cs[i] ELSE IF i = p THEN c ELSE cs[i - 1]
    <3>1. cs \in Seq(Contact) /\ c \in Contact /\ p \in 1 .. Len(cs) + 1
      BY <1>1, <1>2
    <3> QED  BY <3>1, Inserted
  <2> QED  BY <2>1 DEF new
<1>7. InOrder(new)
  <2> SUFFICES ASSUME NEW i \in 1 .. Len(cs) + 1, NEW k \in 1 .. Len(cs) + 1, i < k
               PROVE  new[i].name < new[k].name
    <3>1. DOMAIN new = 1 .. Len(cs) + 1
      BY <1>6, LenProperties
    <3> QED  BY <3>1 DEF InOrder
  <2>0. i \in Nat /\ k \in Nat
    BY <1>1
  <2>1. CASE k < p
    <3>1. new[i] = cs[i] /\ new[k] = cs[k] /\ i \in 1 .. Len(cs) /\ k \in 1 .. Len(cs)
      BY <2>0, <2>1, <1>1, <1>2, <1>6
    <3> QED  BY <3>1, <1>1 DEF InOrder
  <2>2. CASE k = p
    <3>1. new[i] = cs[i] /\ new[k] = c /\ i \in 1 .. Len(cs) /\ i < p
      BY <2>0, <2>2, <1>1, <1>2, <1>6
    <3> QED  BY <3>1, <1>3
  <2>3. CASE k > p /\ i < p
    <3>1. /\ new[i] = cs[i] /\ new[k] = cs[k - 1]
          /\ i \in 1 .. Len(cs) /\ k - 1 \in 1 .. Len(cs) /\ i < k - 1
      BY <2>0, <2>3, <1>1, <1>2, <1>6
    <3> QED  BY <3>1, <1>1 DEF InOrder
  <2>4. CASE k > p /\ i = p
    <3>1. new[i] = c /\ new[k] = cs[k - 1] /\ k - 1 \in 1 .. Len(cs) /\ ~(k - 1 < p)
      BY <2>0, <2>4, <1>1, <1>2, <1>6
    <3>2. ~(cs[k - 1].name < c.name) /\ cs[k - 1].name # c.name
      BY <3>1, <1>3, <1>5
    <3>3. cs[k - 1].name \in Nat
      BY <3>1, <1>4
    <3> QED  BY <3>1, <3>2, <3>3, <1>4
  <2>5. CASE k > p /\ i > p
    <3>1. /\ new[i] = cs[i - 1] /\ new[k] = cs[k - 1]
          /\ i - 1 \in 1 .. Len(cs) /\ k - 1 \in 1 .. Len(cs) /\ i - 1 < k - 1
      BY <2>0, <2>5, <1>1, <1>2, <1>6
    <3> QED  BY <3>1, <1>1 DEF InOrder
  <2>6. k < p \/ k = p \/ (k > p /\ (i < p \/ i = p \/ i > p))
    BY <2>0, <1>2
  <2> QED  BY <2>1, <2>2, <2>3, <2>4, <2>5, <2>6
<1>8. ASSUME NEW i \in 1 .. Len(cs) PROVE \E k \in 1 .. Len(new) : new[k] = cs[i]
  <2>0. i \in Nat
    BY <1>1
  <2>1. CASE i < p
    <3>1. i \in 1 .. Len(new) /\ new[i] = cs[i]
      BY <2>0, <2>1, <1>1, <1>2, <1>6
    <3> QED  BY <3>1
  <2>2. CASE ~(i < p)
    <3>1. i + 1 \in 1 .. Len(new) /\ ~(i + 1 < p) /\ i + 1 # p /\ (i + 1) - 1 = i
      BY <2>0, <2>2, <1>1, <1>2, <1>6
    <3>2. new[i + 1] = cs[(i + 1) - 1]
      BY <3>1, <1>6
    <3> QED  BY <3>1, <3>2
  <2> QED  BY <2>1, <2>2
<1>9. p \in 1 .. Len(new) /\ new[p] = c
  BY <1>1, <1>2, <1>6
<1>10. Insert(cs, c) = <<new>>
  BY DEF Insert, new, p
<1>11. new \in Book
  BY <1>6, <1>7 DEF Book
<1> QED  BY <1>8, <1>9, <1>10, <1>11

-----------------------------------------------------------------------------
(* One round of the loop of contacts_read(), on what the round before left. *)
Round(before, c) == IF before = <<>> THEN <<>> ELSE Insert(before[1], c)

Rounds(records, m, g) ==
  g = [n \in 0 .. m |-> IF n = 0 THEN << <<>> >> ELSE Round(g[n - 1], records[n])]

(* The recursive function of contacts_read() exists.                       *)
LEMMA RoundsExist ==
  ASSUME NEW records, NEW m \in Nat
  PROVE  \E g : Rounds(records, m, g)
<1> DEFINE T == {n \in Nat : ~(\E g : Rounds(records, n, g))}
<1> SUFFICES ASSUME T # {} PROVE FALSE
  OBVIOUS
<1>1. PICK n \in T : \A i \in T : n <= i
  <2> HIDE DEF T
  <2>1. T \subseteq Nat
    BY DEF T
  <2> QED  BY <2>1, LeastNat
<1>2. CASE n = 0
  <2> DEFINE g == [i \in 0 .. 0 |-> << <<>> >>]
  <2>1. Rounds(records, 0, g)
    BY DEF Rounds
  <2> QED  BY <2>1, <1>1, <1>2
<1>3. CASE n # 0
  <2>1. n - 1 \in Nat /\ n - 1 \notin T
    BY <1>1, <1>3
  <2>2. PICK g : Rounds(records, n - 1, g)
    BY <2>1
  <2> DEFINE h == [i \in 0 .. n |-> IF i = n THEN Round(g[n - 1], records[n]) ELSE g[i]]
  <2>3. \A i \in 0 .. n - 1 :
          g[i] = IF i = 0 THEN << <<>> >> ELSE Round(g[i - 1], records[i])
    BY <2>2 DEF Rounds
  <2>4. h = [i \in 0 .. n |-> IF i = 0 THEN << <<>> >> ELSE Round(h[i - 1], records[i])]
    <3>1. ASSUME NEW i \in 0 .. n
          PROVE  h[i] = IF i = 0 THEN << <<>> >> ELSE Round(h[i - 1], records[i])
      <4>1. CASE i = n
        BY <4>1, <1>3, <2>1
      <4>2. CASE i # n /\ i = 0
        BY <4>2, <2>1, <2>3
      <4>3. CASE i # n /\ i # 0
        <5>1. i \in 0 .. n - 1 /\ i - 1 \in 0 .. n /\ i - 1 # n
          BY <4>3, <2>1
        <5>2. h[i] = g[i] /\ h[i - 1] = g[i - 1]
          BY <4>3, <5>1
        <5> QED  BY <4>3, <5>1, <5>2, <2>3
      <4> QED  BY <4>1, <4>2, <4>3
    <3> HIDE DEF h
    <3>2. h = [i \in 0 .. n |-> h[i]]
      BY DEF h
    <3> QED  BY <3>1, <3>2
  <2>5. Rounds(records, n, h)
    BY <2>4 DEF Rounds
  <2> QED  BY <2>5, <1>1
<1> QED  BY <1>2, <1>3

(* contacts_read() is the last of the rounds.                              *)
LEMMA ReadInRounds ==
  ASSUME NEW records \in Seq(Contact)
  PROVE  \E g : Rounds(records, Len(records), g) /\ contacts_read(records) = g[Len(records)]
<1> DEFINE G == CHOOSE g : Rounds(records, Len(records), g)
<1>1. Rounds(records, Len(records), G)
  BY RoundsExist, LenProperties
<1>2. contacts_read(records) = G[Len(records)]
  BY DEF contacts_read, Rounds, Round
<1> QED  BY <1>1, <1>2

(* What contacts_read() returns is a list in order with every record.      *)
LEMMA ReadKeeps ==
  ASSUME NEW records \in Seq(Contact)
  PROVE  \/ contacts_read(records) = <<>>
         \/ \E s \in Book : /\ contacts_read(records) = <<s>>
                            /\ \A i \in 1 .. Len(records) : \E k \in 1 .. Len(s) : s[k] = records[i]
<1> DEFINE Good(b, n) == \/ b = <<>>
                         \/ \E s \in Book : /\ b = <<s>>
                                            /\ \A i \in 1 .. n : \E k \in 1 .. Len(s) : s[k] = records[i]
<1>1. PICK g : /\ Rounds(records, Len(records), g)
               /\ contacts_read(records) = g[Len(records)]
  BY ReadInRounds
<1>2. Len(records) \in Nat
  BY LenProperties
<1>3. \A n \in 0 .. Len(records) :
        g[n] = IF n = 0 THEN << <<>> >> ELSE Round(g[n - 1], records[n])
  BY <1>1 DEF Rounds
<1> DEFINE T == {n \in 0 .. Len(records) : ~Good(g[n], n)}
<1> SUFFICES ASSUME T # {} PROVE FALSE
  <2>1. Len(records) \notin T => Good(g[Len(records)], Len(records))
    BY <1>2
  <2> QED  BY <2>1, <1>1
<1>4. PICK n \in T : \A i \in T : n <= i
  <2> HIDE DEF Good
  <2>1. T \subseteq Nat
    BY <1>2
  <2> HIDE DEF T
  <2> QED  BY <2>1, LeastNat
<1>5. CASE n = 0
  <2>1. <<>> \in Book
    <3>1. <<>> \in Seq(Contact) /\ DOMAIN <<>> = {}
      BY EmptySeq
    <3> QED  BY <3>1 DEF Book, InOrder
  <2>2. g[0] = << <<>> >>
    BY <1>2, <1>3
  <2>3. Good(g[0], 0)
    BY <2>1, <2>2
  <2> QED  BY <2>3, <1>4, <1>5
<1>6. CASE n # 0
  <2>1. n \in 1 .. Len(records) /\ n - 1 \in 0 .. Len(records) /\ ~(n <= n - 1)
    BY <1>2, <1>4, <1>6
  <2>2. Good(g[n - 1], n - 1)
    <3> HIDE DEF Good
    <3> QED  BY <2>1, <1>4
  <2>3. g[n] = Round(g[n - 1], records[n])
    BY <2>1, <1>3, <1>6
  <2>4. CASE g[n - 1] = <<>>
    <3>1. g[n] = <<>>
      BY <2>3, <2>4 DEF Round
    <3> QED  BY <3>1, <1>4
  <2>5. CASE g[n - 1] # <<>>
    <3>1. PICK s \in Book :
               /\ g[n - 1] = <<s>>
               /\ \A i \in 1 .. n - 1 : \E k \in 1 .. Len(s) : s[k] = records[i]
      BY <2>2, <2>5
    <3>2. g[n] = Insert(s, records[n])
      BY <2>3, <2>5, <3>1 DEF Round
    <3>3. records[n] \in Contact
      BY <2>1, ElementOfSeq
    <3>4. CASE Insert(s, records[n]) = <<>>
      BY <3>2, <3>4, <1>4
    <3>5. CASE Insert(s, records[n]) # <<>>
      <4>1. PICK new \in Book :
                 /\ Insert(s, records[n]) = <<new>>
                 /\ \A i \in 1 .. Len(s) : \E k \in 1 .. Len(new) : new[k] = s[i]
                 /\ \E k \in 1 .. Len(new) : new[k] = records[n]
        BY <3>3, <3>5, InsertKeeps
      <4>2. ASSUME NEW i \in 1 .. n PROVE \E k \in 1 .. Len(new) : new[k] = records[i]
        <5>1. CASE i = n
          BY <5>1, <4>1
        <5>2. CASE i # n
          <6>1. i \in 1 .. n - 1
            BY <5>2, <2>1
          <6>2. PICK k \in 1 .. Len(s) : s[k] = records[i]
            BY <6>1, <3>1
          <6> QED  BY <6>2, <4>1
        <5> QED  BY <5>1, <5>2
      <4>3. Good(g[n], n)
        BY <4>1, <4>2, <3>2
      <4> QED  BY <4>3, <1>4
    <3> QED  BY <3>4, <3>5
  <2> QED  BY <2>4, <2>5
<1> QED  BY <1>5, <1>6

-----------------------------------------------------------------------------
(* The same as a step of the program sees it.                              *)
LEMMA InsertStep ==
  ASSUME TypeOK, Sorted, NEW c \in Contact, Insert(list, c) # <<>>
  PROVE  Insert(list, c)[1] \in Book
<1>1. list \in Book
  BY DEF TypeOK, Sorted, Book, InOrder
<1>2. PICK new \in Book : Insert(list, c) = <<new>>
  BY <1>1, InsertKeeps
<1> QED  BY <1>2

(* A contact with other data under the same name is in its place.          *)
LEMMA EditStep ==
  ASSUME TypeOK, Sorted, NEW n \in Names(list), NEW d \in Data
  PROVE  [list EXCEPT ![IndexOf(n)].data = d] \in Book
<1> DEFINE new == [list EXCEPT ![IndexOf(n)].data = d]
<1>1. list \in Seq(Contact) /\ Len(list) \in Nat /\ DOMAIN list = 1 .. Len(list)
  BY LenProperties DEF TypeOK
<1>2. IndexOf(n) \in 1 .. Len(list)
  BY <1>1 DEF IndexOf, Names
<1>3. DOMAIN new = 1 .. Len(list)
  BY <1>1
<1>4. \A i \in 1 .. Len(list) : list[i] \in Contact
  BY <1>1, ElementOfSeq
<1>5. \A i \in 1 .. Len(list) : new[i] \in Contact /\ new[i].name = list[i].name
  <2>1. ASSUME NEW i \in 1 .. Len(list) PROVE new[i] \in Contact /\ new[i].name = list[i].name
    <3>1. CASE i = IndexOf(n)
      <4>1. new[i] = [list[i] EXCEPT !.data = d]
        BY <3>1, <1>1
      <4>2. list[i] \in Contact
        BY <1>4
      <4> HIDE DEF new
      <4> QED  BY <4>1, <4>2 DEF Contact
    <3>2. CASE i # IndexOf(n)
      <4>1. new[i] = list[i]
        BY <3>2, <1>1
      <4> QED  BY <4>1, <1>4
    <3> QED  BY <3>1, <3>2
  <2> QED  BY <2>1
<1>6. new \in Seq(Contact)
  <2>1. new = [i \in 1 .. Len(list) |-> new[i]]
    BY <1>3
  <2> HIDE DEF new
  <2>2. new \in [1 .. Len(list) -> Contact]
    BY <2>1, <1>5
  <2> QED  BY <2>2, <1>1, SeqDef
<1> HIDE DEF new
<1>7. InOrder(new)
  BY <1>1, <1>3, <1>5 DEF InOrder, Sorted
<1>8. new \in Book
  BY <1>6, <1>7 DEF Book
<1> QED  BY <1>8 DEF new

(* Without one contact the rest are in order.                              *)
LEMMA RemoveStep ==
  ASSUME TypeOK, Sorted, NEW n \in Names(list)
  PROVE  RemoveAt(list, IndexOf(n)) \in Book
<1> DEFINE k == IndexOf(n)  new == RemoveAt(list, k)
<1>1. list \in Seq(Contact) /\ Len(list) \in Nat /\ DOMAIN list = 1 .. Len(list)
  BY LenProperties DEF TypeOK
<1>2. k \in 1 .. Len(list)
  BY <1>1 DEF IndexOf, Names
<1> HIDE DEF k
<1>3. /\ new \in Seq(Contact) /\ Len(new) = Len(list) - 1
      /\ \A i \in 1 .. Len(list) - 1 : new[i] = IF i < k THEN list[i] ELSE list[i + 1]
  BY <1>1, <1>2, Removed
<1> HIDE DEF new
<1>4. DOMAIN new = 1 .. Len(list) - 1
  BY <1>3, LenProperties
<1>5. ASSUME NEW i \in 1 .. Len(list) - 1, NEW j \in 1 .. Len(list) - 1, i < j
      PROVE  new[i].name < new[j].name
  <2> DEFINE At(x) == IF x < k THEN x ELSE x + 1
  <2>1. At(i) \in 1 .. Len(list) /\ At(j) \in 1 .. Len(list) /\ At(i) < At(j)
    BY <1>1, <1>2, <1>5
  <2>2. new[i] = list[At(i)] /\ new[j] = list[At(j)]
    BY <1>3
  <2> HIDE DEF At
  <2> QED  BY <2>1, <2>2, <1>1 DEF Sorted
<1>6. InOrder(new)
  BY <1>4, <1>5 DEF InOrder
<1>7. new \in Book
  BY <1>3, <1>6 DEF Book
<1> QED  BY <1>7 DEF new, k

(* A file that is written over is again a file of contacts, which begins   *)
(* with what was written.                                                  *)
LEMMA OverwrittenType ==
  ASSUME TypeOK, NEW cs \in Seq(Contact)
  PROVE  /\ Overwritten(cs) \in Seq(Contact)
         /\ Len(cs) \in Nat /\ Len(Overwritten(cs)) \in Nat
         /\ Len(cs) <= Len(Overwritten(cs))
         /\ \A i \in 1 .. Len(cs) : Overwritten(cs)[i] = cs[i]
<1> DEFINE rest == SubSeq(file, Len(cs) + 1, Len(file))
<1>1. Len(cs) \in Nat /\ Len(file) \in Nat /\ file \in Seq(Contact)
  BY LenProperties DEF TypeOK
<1>2. rest \in Seq(Contact)
  <2>1. \A i \in Len(cs) + 1 .. Len(file) : file[i] \in Contact
    BY <1>1, ElementOfSeq
  <2> QED  BY <1>1, <2>1, SubSeqProperties
<1> HIDE DEF rest
<1>3. Len(rest) \in Nat
  BY <1>2, LenProperties
<1>4. /\ cs \o rest \in Seq(Contact) /\ Len(cs \o rest) = Len(cs) + Len(rest)
      /\ \A i \in 1 .. Len(cs) + Len(rest) :
           (cs \o rest)[i] = IF i <= Len(cs) THEN cs[i] ELSE rest[i - Len(cs)]
  BY <1>2, ConcatProperties
<1>5. Overwritten(cs) = cs \o rest
  BY DEF Overwritten, rest
<1> QED  BY <1>1, <1>3, <1>4, <1>5

-----------------------------------------------------------------------------
LEMMA BookInv ==
  ASSUME list' \in Book, file' \in Seq(Contact)
  PROVE  IInv'
BY DEF Book, InOrder, IInv, TypeOK, Sorted

LEMMA EmptyBook == <<>> \in Book
<1>1. <<>> \in Seq(Contact) /\ DOMAIN <<>> = {}
  BY EmptySeq
<1> QED  BY <1>1 DEF Book, InOrder

LEMMA WriteStep ==
  ASSUME IInv, contacts_write
  PROVE  IInv'
<1>1. TypeOK /\ list \in Seq(Contact) /\ Len(list) \in Nat
  BY LenProperties DEF IInv, TypeOK
<1>2. list' = <<>>
  BY DEF contacts_write, Ended
<1>3. CASE tail = "null" /\ file' = Overwritten(list) /\ Ended("off")
  <2>1. file' \in Seq(Contact)
    BY <1>1, <1>3, OverwrittenType
  <2> QED  BY <2>1, <1>2, EmptyBook, BookInv
<1>4. ASSUME NEW k \in 0 .. Len(list) - 1, file' = Overwritten(SubSeq(list, 1, k))
      PROVE  IInv'
  <2>1. SubSeq(list, 1, k) \in Seq(Contact)
    <3>1. \A i \in 1 .. k : list[i] \in Contact
      BY <1>1, ElementOfSeq
    <3> QED  BY <3>1, <1>1, SubSeqProperties
  <2>2. file' \in Seq(Contact)
    BY <1>1, <1>4, <2>1, OverwrittenType
  <2> QED  BY <2>2, <1>2, EmptyBook, BookInv
<1>5. ASSUME NEW c \in Contact, file' = Overwritten(Append(list, c))
      PROVE  IInv'
  <2>1. Append(list, c) \in Seq(Contact)
    BY <1>1, AppendProperties
  <2>2. file' \in Seq(Contact)
    BY <1>1, <1>5, <2>1, OverwrittenType
  <2> QED  BY <2>2, <1>2, EmptyBook, BookInv
<1>6. CASE file' = Overwritten(list)
  <2>1. file' \in Seq(Contact)
    BY <1>1, <1>6, OverwrittenType
  <2> QED  BY <2>1, <1>2, EmptyBook, BookInv
<1> QED  BY <1>3, <1>4, <1>5, <1>6 DEF contacts_write

LEMMA StepInv ==
  ASSUME IInv, [Next]_vars
  PROVE  IInv'
<1>0. TypeOK /\ Sorted /\ file \in Seq(Contact) /\ list \in Book
  BY DEF IInv, TypeOK, Sorted, Book, InOrder
<1>1. CASE Start
  <2>1. CASE contacts_read(file) # <<>> /\ list' = contacts_read(file)[1]
    <3>1. PICK s \in Book : contacts_read(file) = <<s>>
      BY <1>0, <2>1, ReadKeeps
    <3>2. list' = s /\ file' = file
      BY <1>1, <2>1, <3>1 DEF Start
    <3> QED  BY <1>0, <3>2, BookInv
  <2>2. CASE list' = <<>>
    <3>1. file' = file
      BY <1>1 DEF Start
    <3> QED  BY <1>0, <2>2, <3>1, EmptyBook, BookInv
  <2> QED  BY <1>1, <2>1, <2>2 DEF Start, Ended
<1>2. ASSUME NEW c \in Contact, contacts_add(c) PROVE IInv'
  <2>1. file' = file
    BY <1>2 DEF contacts_add, WalkOff
  <2>2. CASE list' = <<>>
    BY <1>0, <2>1, <2>2, EmptyBook, BookInv
  <2>3. CASE list' = list
    BY <1>0, <2>1, <2>3, BookInv
  <2>4. CASE Insert(list, c) # <<>> /\ list' = Insert(list, c)[1]
    <3>1. list' \in Book
      BY <1>0, <2>4, InsertStep
    <3> QED  BY <1>0, <2>1, <3>1, BookInv
  <2> QED  BY <1>2, <2>2, <2>3, <2>4 DEF contacts_add, WalkOff, Ended
<1>3. ASSUME NEW n \in Name, contacts_find(n) PROVE IInv'
  <2>1. file' = file
    BY <1>3 DEF contacts_find, WalkOff
  <2>2. CASE list' = <<>>
    BY <1>0, <2>1, <2>2, EmptyBook, BookInv
  <2>3. ASSUME n \in Names(list), NEW d \in Data, list' = [list EXCEPT ![IndexOf(n)].data = d]
        PROVE  IInv'
    <3>1. list' \in Book
      BY <1>0, <2>3, EditStep
    <3> QED  BY <1>0, <2>1, <3>1, BookInv
  <2> QED  BY <1>3, <2>2, <2>3 DEF contacts_find, WalkOff, Ended
<1>4. ASSUME NEW n \in Name, contacts_remove(n) PROVE IInv'
  <2>1. file' = file
    BY <1>4 DEF contacts_remove, WalkOff
  <2>2. CASE list' = <<>>
    BY <1>0, <2>1, <2>2, EmptyBook, BookInv
  <2>3. CASE n \in Names(list) /\ list' = RemoveAt(list, IndexOf(n))
    <3>1. list' \in Book
      BY <1>0, <2>3, RemoveStep
    <3> QED  BY <1>0, <2>1, <3>1, BookInv
  <2> QED  BY <1>4, <2>2, <2>3 DEF contacts_remove, WalkOff, Ended
<1>5. CASE contacts_print
  <2>1. file' = file /\ list' = <<>>
    BY <1>5 DEF contacts_print, WalkOff, Ended
  <2> QED  BY <1>0, <2>1, EmptyBook, BookInv
<1>6. CASE contacts_write
  BY <1>6, WriteStep
<1>7. CASE UNCHANGED vars
  <2>1. file' = file /\ list' = list
    BY <1>7 DEF vars
  <2> QED  BY <1>0, <2>1, BookInv
<1> QED  BY <1>1, <1>2, <1>3, <1>4, <1>5, <1>6, <1>7 DEF Next, Option

LEMMA Invariance == Spec => []IInv
<1>1. Init => IInv
  <2> SUFFICES ASSUME Init PROVE IInv
    OBVIOUS
  <2>1. list = <<>> /\ file = <<>> /\ <<>> \in Seq(Contact) /\ DOMAIN <<>> = {}
    BY EmptySeq DEF Init
  <2> QED  BY <2>1 DEF IInv, TypeOK, Sorted
<1>2. IInv /\ [Next]_vars => IInv'
  BY StepInv
<1> QED  BY <1>1, <1>2, PTL DEF Spec

(***************************************************************************)
(* contacts_add(), contacts_remove() and contacts_read() keep the list in  *)
(* the order of the names and no name on it twice, whatever the runs       *)
(* before have left in contacts.data.                                      *)
(***************************************************************************)
THEOREM AlwaysSorted == Spec => []Sorted
<1>1. IInv => Sorted
  BY DEF IInv
<1> QED  BY <1>1, Invariance, PTL

(***************************************************************************)
(* What contacts_write() wrote without an error is on the list which       *)
(* contacts_read() makes of the file, if it makes one: it never drops a    *)
(* record, and those of earlier runs come after.                           *)
(***************************************************************************)
THEOREM NothingEverLost == Spec => NothingLost
<1>1. ASSUME IInv, [Next]_vars, pc = "menu", pc' = "off", contacts_read(file') # <<>>
      PROVE  ToSet(list) \subseteq ToSet(contacts_read(file')[1])
  <2>1. TypeOK /\ list \in Seq(Contact) /\ DOMAIN list = 1 .. Len(list)
    BY <1>1, LenProperties DEF IInv, TypeOK
  <2>2. file' = Overwritten(list)
    BY <1>1 DEF Next, Start, Option, contacts_add, contacts_find, contacts_remove,
                contacts_print, contacts_write, WalkOff, Ended, vars
  <2>3. /\ file' \in Seq(Contact) /\ Len(list) \in Nat /\ Len(file') \in Nat
        /\ Len(list) <= Len(file')
        /\ \A i \in 1 .. Len(list) : file'[i] = list[i]
    BY <2>1, <2>2, OverwrittenType
  <2>4. PICK s \in Book : /\ contacts_read(file') = <<s>>
                          /\ \A i \in 1 .. Len(file') : \E k \in 1 .. Len(s) : s[k] = file'[i]
    BY <1>1, <2>3, ReadKeeps
  <2>5. DOMAIN s = 1 .. Len(s) /\ contacts_read(file')[1] = s
    BY <2>4, LenProperties DEF Book
  <2>6. ASSUME NEW i \in 1 .. Len(list) PROVE \E k \in DOMAIN s : s[k] = list[i]
    <3>1. i \in 1 .. Len(file') /\ file'[i] = list[i]
      BY <2>3
    <3> QED  BY <3>1, <2>4, <2>5
  <2> QED  BY <2>1, <2>5, <2>6 DEF ToSet
<1>2. IInv /\ [Next]_vars
      => [pc = "menu" /\ pc' = "off" /\ contacts_read(file') # <<>>
          => ToSet(list) \subseteq ToSet(contacts_read(file')[1])]_vars
  BY <1>1
<1> QED  BY <1>2, Invariance, PTL DEF Spec, NothingLost
=============================================================================
