----------------------------- MODULE SharedFile -----------------------------
(***************************************************************************)
(* What the programs of task09 and task11 promise of numbers.bin, with     *)
(* nothing said about the lock that keeps the promise: what a reader has   *)
(* opened nobody writes until it has read, and a process that fails at the *)
(* file keeps it: for good nobody writes after a reader has failed, nor    *)
(* opens it after a writer has.                                            *)
(***************************************************************************)
CONSTANTS Reader, Writer   \* the processes that use the file

VARIABLES file,            \* who wrote it last, "empty" before the first
          open,            \* the readers that have it open
          failed           \* the processes that ended in their turn at it

vars == <<file, open, failed>>

Init == file = "empty" /\ open = {} /\ failed = {}

Open(r) ==
  /\ r \notin open \cup failed
  /\ failed \cap Writer = {}
  /\ open' = open \cup {r}
  /\ UNCHANGED <<file, failed>>

Close(r) ==
  /\ r \in open \ failed
  /\ open' = open \ {r}
  /\ UNCHANGED <<file, failed>>

Write(w) ==
  /\ open = {} /\ failed = {}
  /\ file' = w
  /\ UNCHANGED <<open, failed>>

(* A reader fails while it opens or reads, a writer while it opens or writes. *)
FailReader(r) ==
  /\ r \notin failed
  /\ failed \cap Writer = {}
  /\ failed' = failed \cup {r}
  /\ UNCHANGED <<file, open>>

FailWriter(w) ==
  /\ open = {} /\ failed = {}
  /\ failed' = {w}
  /\ UNCHANGED <<file, open>>

Next == \/ \E r \in Reader : Open(r) \/ Close(r) \/ FailReader(r)
        \/ \E w \in Writer : Write(w) \/ FailWriter(w)

Spec == Init /\ [][Next]_vars
=============================================================================
