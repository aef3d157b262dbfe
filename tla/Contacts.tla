------------------------------ MODULE Contacts ------------------------------
(***************************************************************************)
(* task03: a contact book.  A run reads contacts.data into a list that is  *)
(* kept in the order of the names, serves the menu, and writes the list to *)
(* the file when the user leaves.  The file is what one run leaves to the  *)
(* next.                                                                   *)
(*                                                                         *)
(* contacts_add() sets the link of a contact only if another follows it:   *)
(* the link of the last is what malloc() returned, NULL in fresh memory    *)
(* and anything in the memory of a contact that was removed.               *)
(***************************************************************************)
EXTENDS Integers, Sequences, SequencesExt

CONSTANTS Name,   \* the names, first and last in one, in the order of strcmp
          Data    \* the emails and profiles

ASSUME NameAssumption == Name \subseteq Nat

Contact == [name : Name, data : Data]

VARIABLES list,   \* the contacts, from the head to the last
          tail,   \* the link of the last: "null" or "wild"
          freed,  \* how many freed contacts malloc() may reuse
          file,   \* the records of contacts.data
          pc      \* "menu" while a run serves it, else how the last run ended

vars == <<list, tail, freed, file, pc>>

Init == list = <<>> /\ tail = "null" /\ freed = 0 /\ file = <<>> /\ pc = "off"

Names(cs)   == {cs[i].name : i \in DOMAIN cs}
IndexOf(n)  == CHOOSE i \in DOMAIN list : list[i].name = n
Before(cs, c) == {i \in DOMAIN cs : cs[i].name < c.name}

(* Bug: the walk does not look for an equal name. *)
InsertAgain(cs, c) == <<InsertAt(cs, Cardinality(Before(cs, c)) + 1, c)>>

(* contacts_add() as a function: the list it returns, none for a duplicate. *)
Insert(cs, c) ==
  IF c.name \in Names(cs) THEN <<>>
  ELSE <<InsertAt(cs, Cardinality(Before(cs, c)) + 1, c)>>

(* What contacts_read() makes of a file: <<list>>, or <<>> when it fails. *)
contacts_read(records) ==
  LET book[n \in 0 .. Len(records)] ==
        IF n = 0 THEN << <<>> >>
        ELSE IF book[n - 1] = <<>> THEN <<>>
        ELSE Insert(book[n - 1][1], records[n])
  IN  book[Len(records)]

Ended(how) == pc' = how /\ list' = <<>> /\ tail' = "null" /\ freed' = 0

(* A walk past a wild link: from there on the run has no defined behaviour. *)
WalkOff == tail = "wild" /\ Ended("crashed") /\ UNCHANGED file

Start ==
  /\ pc # "menu"
  /\ \/ /\ contacts_read(file) # <<>>
        /\ list' = contacts_read(file)[1] /\ pc' = "menu"
        /\ UNCHANGED <<tail, freed>>
     \/ contacts_read(file) = <<>> /\ Ended("failed")
  /\ UNCHANGED file

(* The new contact is the last one, or it is linked to the one it precedes. *)
contacts_add(c) ==
  LET last == \A i \in DOMAIN list : list[i].name < c.name
  IN  /\ pc = "menu"
      /\ \/ last /\ WalkOff
         \/ /\ ~last \/ tail = "null"
            /\ list' = IF Insert(list, c) = <<>> THEN list ELSE Insert(list, c)[1]
            /\ tail' \in IF last /\ freed > 0 THEN {"null", "wild"} ELSE {tail}
            /\ freed' = IF freed > 0 THEN freed - 1 ELSE 0
            /\ UNCHANGED <<file, pc>>

(* Options 2 and 4: the contact found is edited, or only printed. *)
contacts_find(n) ==
  /\ pc = "menu"
  /\ \/ n \notin Names(list) /\ WalkOff
     \/ /\ n \in Names(list)
        /\ \E d \in Data : list' = [list EXCEPT ![IndexOf(n)].data = d]
        /\ UNCHANGED <<tail, freed, file, pc>>

contacts_remove(n) ==
  /\ pc = "menu"
  /\ \/ n \notin Names(list) /\ WalkOff
     \/ /\ n \in Names(list)
        /\ list' = RemoveAt(list, IndexOf(n))
        /\ freed' = freed + 1
        /\ UNCHANGED <<tail, file, pc>>

contacts_print == pc = "menu" /\ WalkOff

(* The file is opened without O_TRUNC: what is past the end of cs remains. *)
Overwritten(cs) == cs \o SubSeq(file, Len(cs) + 1, Len(file))

(* Bug: the head of the list is taken for the fake node and left out. *)
contacts_write_tail ==
  /\ pc = "menu" /\ tail = "null"
  /\ file' = Overwritten(IF list = <<>> THEN <<>> ELSE Tail(list))
  /\ Ended("off")

(* A write may fail, which main() does not see; past a wild link it may     *)
(* write what it finds there, for which any one contact stands.             *)
contacts_write ==
  /\ pc = "menu"
  /\ \/ tail = "null" /\ file' = Overwritten(list) /\ Ended("off")
     \/ \E k \in 0 .. Len(list) - 1 :
          file' = Overwritten(SubSeq(list, 1, k)) /\ Ended("unsaved")
     \/ /\ tail = "wild" /\ Ended("crashed")
        /\ \/ file' = Overwritten(list)
           \/ \E c \in Contact : file' = Overwritten(Append(list, c))

Option == \/ \E c \in Contact : contacts_add(c)
          \/ \E n \in Name : contacts_find(n) \/ contacts_remove(n)
          \/ contacts_print \/ contacts_write

Next == Start \/ Option

Spec == Init /\ [][Next]_vars

-----------------------------------------------------------------------------
(***************************************************************************)
(* The list is in order and has no name twice, also when it was read from  *)
(* a file that has the records of several runs in it: every walk may stop  *)
(* at the first name that is not less.                                     *)
(***************************************************************************)
Sorted == \A i, k \in DOMAIN list : i < k => list[i].name < list[k].name

(***************************************************************************)
(* What a run saved without an error the next reads: every contact as it   *)
(* was on the list, whatever else is in the file, if it starts at all.     *)
(***************************************************************************)
NothingLost ==
  [][pc = "menu" /\ pc' = "off" /\ contacts_read(file') # <<>>
     => ToSet(list) \subseteq ToSet(contacts_read(file')[1])]_vars

(***************************************************************************)
(* A contact of which the user was told "contact removed" is not there     *)
(* again at the next start: nobody is, who was not on the list at the end. *)
(***************************************************************************)
RemovedStaysRemoved ==
  [][pc = "menu" /\ pc' = "off" /\ contacts_read(file') # <<>>
     => Names(contacts_read(file')[1]) \subseteq Names(list)]_vars
=============================================================================
