------------------------------ MODULE TurnProofs ------------------------------
(***************************************************************************)
(* Theorems about the programs of which two take turns: at a file, by      *)
(* signals and a pipe (SignalFile, task05); over a message queue (MsgQueue,*)
(* task06 and task07); over a socket (ForkServer, task15 and task16).      *)
(* They share no variable, and a theorem is about one of them.             *)
(***************************************************************************)
EXTENDS SignalFile, MsgQueue, ForkServer, FiniteSetTheorems, SequenceTheorems, TLAPS

-----------------------------------------------------------------------------
(***************************************************************************)
(* SignalFile: the signals and the pipe pass one turn.                     *)
(***************************************************************************)
SignalTypeOK ==
  /\ is_file_blocked \in {0, 1}
  /\ pending \subseteq {"SIGUSR1", "SIGUSR2"}
  /\ filled \in BOOLEAN
  /\ pipe \in Nat
  /\ parent \in {"block", "write", "unblock", "pipe", "dead"}
  /\ child \in {"loop", "pause", "test", "open", "read", "pipe", "dead"}

Passed == parent \in {"pipe", "dead"} /\ filled

(* The turn of a child that is alive is on its way to it in a SIGUSR2, or  *)
(* with it, or on its way back in the pipe, and only in one of these.      *)
TurnPassed ==
  /\ "SIGUSR2" \in pending
       => Passed /\ pipe = 0 /\ child \notin {"open", "read", "pipe"}
  /\ child \in {"open", "read", "pipe"} \/ (child = "test" /\ is_file_blocked = 0)
       => Passed /\ pipe = 0 /\ pending = {}
  /\ pipe > 0 => pipe = 1 /\ Passed /\ pending = {} /\ child \in {"loop", "pause"}

SignalInv ==
  /\ SignalTypeOK
  /\ parent \in {"unblock", "pipe"} => filled
  /\ child = "dead" \/ TurnPassed

LEMMA SignalEstablishes == SignalInit => SignalInv
<1> SUFFICES ASSUME SignalInit PROVE SignalInv
  OBVIOUS
<1>1. SignalTypeOK
  BY DEF SignalInit, SignalTypeOK
<1>2. TurnPassed
  BY DEF SignalInit, TurnPassed
<1> QED  BY <1>1, <1>2 DEF SignalInit, SignalInv

LEMMA SignalParent ==
  ASSUME SignalInv, Parent
  PROVE  SignalInv'
<1>1. CASE send_block_sig
  BY <1>1 DEF SignalInv, SignalTypeOK, TurnPassed, Passed, send_block_sig, send
<1>2. CASE WriteFile
  BY <1>2 DEF SignalInv, SignalTypeOK, TurnPassed, Passed, WriteFile
<1>3. CASE send_unblock_sig
  BY <1>3 DEF SignalInv, SignalTypeOK, TurnPassed, Passed, send_unblock_sig, send
<1>4. CASE ReadPipe
  BY <1>4 DEF SignalInv, SignalTypeOK, TurnPassed, Passed, ReadPipe
<1> QED  BY <1>1, <1>2, <1>3, <1>4 DEF Parent

LEMMA SignalChild ==
  ASSUME SignalInv, Child
  PROVE  SignalInv'
<1>1. CASE pause
  BY <1>1 DEF SignalInv, SignalTypeOK, TurnPassed, Passed, pause, ChildTo
<1>2. CASE Test
  BY <1>2 DEF SignalInv, SignalTypeOK, TurnPassed, Passed, Test, ChildTo
<1>3. CASE OpenToRead
  BY <1>3 DEF SignalInv, SignalTypeOK, TurnPassed, Passed, OpenToRead, ChildTo
<1>4. CASE ReadFile
  BY <1>4 DEF SignalInv, SignalTypeOK, TurnPassed, Passed, ReadFile, ChildTo
<1>5. CASE WritePipe
  BY <1>5 DEF SignalInv, SignalTypeOK, TurnPassed, Passed, WritePipe, ChildTo
<1> QED  BY <1>1, <1>2, <1>3, <1>4, <1>5 DEF Child

LEMMA SignalHandled ==
  ASSUME SignalInv, Handle
  PROVE  SignalInv'
<1>1. PICK last \in pending : is_file_blocked' = sighandler(last)
  BY DEF Handle
<1>2. SignalTypeOK'
  BY <1>1 DEF SignalInv, SignalTypeOK, Handle, sighandler
<1>3. CASE last = "SIGUSR1"
  BY <1>1, <1>2, <1>3 DEF SignalInv, SignalTypeOK, TurnPassed, Passed, Handle, sighandler
<1>4. CASE last = "SIGUSR2"
  BY <1>1, <1>2, <1>4 DEF SignalInv, SignalTypeOK, TurnPassed, Passed, Handle, sighandler
<1> QED  BY <1>1, <1>3, <1>4 DEF SignalInv, SignalTypeOK

LEMMA SignalDeath ==
  ASSUME SignalInv, Die
  PROVE  SignalInv'
BY DEF SignalInv, SignalTypeOK, TurnPassed, Passed, Die

LEMMA SignalInvariance == SignalSpec => []SignalInv
<1>1. SignalInv /\ [SignalNext]_signalVars => SignalInv'
  <2> SUFFICES ASSUME SignalInv, [SignalNext]_signalVars PROVE SignalInv'
    OBVIOUS
  <2>1. CASE UNCHANGED signalVars
    BY <2>1 DEF signalVars, SignalInv, SignalTypeOK, TurnPassed, Passed
  <2> QED  BY <2>1, SignalParent, SignalChild, SignalHandled, SignalDeath DEF SignalNext
<1> QED  BY <1>1, SignalEstablishes, PTL DEF SignalSpec

(***************************************************************************)
(* Whenever and in whatever order the signals are handled, the child has   *)
(* the file open only while the parent waits for its number, or is dead,   *)
(* and never finds it empty.                                               *)
(***************************************************************************)
THEOREM AlwaysOneAtATime == SignalSpec => []OneAtATime
<1>1. SignalInv => OneAtATime
  BY DEF SignalInv, TurnPassed, Passed, OneAtATime
<1> QED  BY <1>1, SignalInvariance, PTL

-----------------------------------------------------------------------------
(***************************************************************************)
(* MsgQueue, for queues of any capacity and programs killed anywhere and   *)
(* started again any number of times: a queue has one turn at most and one *)
(* for each time that proc2 was killed on it without its turn.             *)
(***************************************************************************)
Locs == Stopped \cup {"recv", "blocked", "prompt", "send", "delete"}

QueueTypeOK ==
  /\ api \in {"SysV", "POSIX"}
  /\ pc \in [Proc -> Locs]
  /\ msg \in [Proc -> Msg]
  /\ queues \in Seq(Seq(Msg))
  /\ id \in [Proc -> Nat]
  /\ name \in 0 .. Len(queues)
  /\ behind \in Seq([Proc -> Nat]) /\ Len(behind) = Len(queues)
  /\ \A p \in Proc : Up(p) => id[p] \in DOMAIN queues

(* A turn held by a process, as a number. *)
Holds(p, q) == IF id[p] = q /\ pc[p] \in {"prompt", "send"} THEN 1 ELSE 0

(* proc2, who speaks first, only comes to a queue that has no turn yet but *)
(* those that proc2 has left there.                                        *)
FreshFor2 ==
  name # 0 /\ (pc["proc2"] \in Stopped \/ id["proc2"] # name)
    => Turns(name) <= behind[name]["proc2"]

QueueInv == QueueTypeOK /\ OneTurn /\ FreshFor2

(* With two processes the number of those that write is a sum of two.      *)
LEMMA TwoProcesses ==
  ASSUME NEW S, S \subseteq Proc
  PROVE  Cardinality(S) = (IF "proc1" \in S THEN 1 ELSE 0)
                          + (IF "proc2" \in S THEN 1 ELSE 0)
<1>1. Cardinality({}) = 0 /\ Cardinality({"proc1"}) = 1 /\ Cardinality({"proc2"}) = 1
  BY FS_EmptySet, FS_Singleton
<1>2. Cardinality({"proc1"} \cup {"proc2"}) = 2
  <2>1. IsFiniteSet({"proc1"})
    BY FS_Singleton
  <2>2. "proc2" \notin {"proc1"}
    OBVIOUS
  <2> QED  BY <1>1, <2>1, <2>2, FS_AddElement
<1>3. S \in {{}, {"proc1"}, {"proc2"}, {"proc1"} \cup {"proc2"}}
  BY DEF Proc
<1> QED  BY <1>1, <1>2, <1>3

(* The turns of a queue, in terms of that sum. *)
Sum(q) == Len(queues[q]) + (Holds("proc1", q) + Holds("proc2", q))

LEMMA TurnsIsSum ==
  \A q : Turns(q) = Sum(q) /\ Turns(q)' = Sum(q)'
<1> SUFFICES ASSUME NEW q PROVE Turns(q) = Sum(q) /\ Turns(q)' = Sum(q)'
  OBVIOUS
<1> DEFINE S == {p \in Proc : id[p] = q /\ pc[p] \in {"prompt", "send"}}
<1> DEFINE T == {p \in Proc : id'[p] = q /\ pc'[p] \in {"prompt", "send"}}
<1>1. Cardinality(S) = Holds("proc1", q) + Holds("proc2", q)
  <2>1. S \subseteq Proc
    OBVIOUS
  <2>2. /\ (IF "proc1" \in S THEN 1 ELSE 0) = Holds("proc1", q)
        /\ (IF "proc2" \in S THEN 1 ELSE 0) = Holds("proc2", q)
    BY DEF Holds, Proc
  <2> HIDE DEF S
  <2> QED  BY <2>1, <2>2, TwoProcesses
<1>2. Cardinality(T) = Holds("proc1", q)' + Holds("proc2", q)'
  <2>1. T \subseteq Proc
    OBVIOUS
  <2>2. /\ (IF "proc1" \in T THEN 1 ELSE 0) = Holds("proc1", q)'
        /\ (IF "proc2" \in T THEN 1 ELSE 0) = Holds("proc2", q)'
    BY DEF Holds, Proc
  <2> HIDE DEF T
  <2> QED  BY <2>1, <2>2, TwoProcesses
<1> QED  BY <1>1, <1>2 DEF Turns, Sum

LEMMA QueueEstablishes == QueueInit => QueueInv
<1> SUFFICES ASSUME QueueInit PROVE QueueInv
  OBVIOUS
<1>1. QueueTypeOK
  BY DEF QueueInit, QueueTypeOK, Locs, Stopped, Msg, Up
<1>2. OneTurn /\ FreshFor2
  BY DEF QueueInit, OneTurn, FreshFor2
<1> QED  BY <1>1, <1>2 DEF QueueInv

LEMMA HoldsNat == \A q : \A p \in Proc : Holds(p, q) \in {0, 1} /\ Holds(p, q)' \in {0, 1}
BY DEF Holds

LEMMA LeftNat ==
  ASSUME QueueTypeOK, NEW q \in DOMAIN queues
  PROVE  q \in DOMAIN behind /\ behind[q] \in [Proc -> Nat] /\ behind[q]["proc2"] \in Nat
<1>1. q \in DOMAIN behind /\ behind \in Seq([Proc -> Nat])
  BY DEF QueueTypeOK
<1>2. behind[q] \in [Proc -> Nat]
  BY <1>1
<1> QED  BY <1>1, <1>2 DEF Proc

(* A step that makes no turn, and after which proc2 may come to the named  *)
(* queue only if it could before or left no turn there, keeps all of it.   *)
LEMMA NoNewTurn ==
  ASSUME QueueInv, QueueTypeOK',
         DOMAIN queues' = DOMAIN queues,
         name' \in {0, name}, id' = id, behind' = behind,
         \A q \in DOMAIN queues : Sum(q)' <= Sum(q),
         name' # 0 /\ pc'["proc2"] \in Stopped /\ id["proc2"] = name
           => pc["proc2"] \in Stopped \/ Sum(name)' <= behind[name]["proc2"]
  PROVE  QueueInv'
<1>1. OneTurn'
  <2> SUFFICES ASSUME NEW q \in DOMAIN queues' PROVE Turns(q)' <= 1 + behind'[q]["proc2"]
    BY DEF OneTurn
  <2>1. Sum(q) <= 1 + behind[q]["proc2"]
    BY TurnsIsSum DEF QueueInv, OneTurn
  <2>2. Sum(q) \in Int /\ Sum(q)' \in Int
    BY DEF Sum, Holds, QueueInv, QueueTypeOK
  <2>3. behind[q]["proc2"] \in Nat
    BY LeftNat DEF QueueInv
  <2> QED  BY <2>1, <2>2, <2>3, TurnsIsSum
<1>2. FreshFor2'
  <2>1. SUFFICES ASSUME name' # 0, pc'["proc2"] \in Stopped \/ id'["proc2"] # name',
                        NEW q, q = name'
                 PROVE  Turns(q)' <= behind'[q]["proc2"]
    BY DEF FreshFor2, Turns, Stopped
  <2>2. q = name /\ q \in DOMAIN queues
    BY <2>1 DEF QueueInv, QueueTypeOK
  <2>3. Sum(q)' \in Nat /\ Sum(q) \in Nat /\ behind[q]["proc2"] \in Nat
    <3>1. Len(queues[q]) \in Nat /\ Len(queues'[q]) \in Nat
      <4>1. queues[q] \in Seq(Msg) /\ queues'[q] \in Seq(Msg)
        BY <2>2 DEF QueueInv, QueueTypeOK
      <4> QED  BY <4>1
    <3>2. Sum(q)' \in Nat /\ Sum(q) \in Nat
      BY <3>1, HoldsNat DEF Sum, Proc
    <3> QED  BY <2>2, <3>2, LeftNat DEF QueueInv
  <2>4. CASE pc["proc2"] \in Stopped \/ id["proc2"] # name
    <3>1. Sum(q) <= behind[q]["proc2"]
      BY <2>1, <2>2, <2>4, TurnsIsSum DEF FreshFor2, QueueInv, Turns
    <3>2. Sum(q)' <= Sum(q)
      BY <2>2
    <3> QED  BY <3>1, <3>2, <2>3, TurnsIsSum
  <2>5. CASE pc["proc2"] \notin Stopped /\ id["proc2"] = name
    <3>1. Sum(q)' <= behind[q]["proc2"]
      BY <2>1, <2>2, <2>5 DEF Sum, Holds
    <3> QED  BY <3>1, TurnsIsSum
  <2> QED  BY <2>4, <2>5
<1> QED  BY <1>1, <1>2 DEF QueueInv

(* One message more or less in a queue. *)
LEMMA OneMessage ==
  ASSUME NEW s \in Seq(Msg)
  PROVE  /\ Len(s) \in Nat /\ Len(<<>>) = 0 /\ <<>> \in Seq(Msg)
         /\ \A m \in Msg : /\ Insert(s, m) \in Seq(Msg)
                           /\ Len(Insert(s, m)) = Len(s) + 1
         /\ s # <<>> => /\ Head(s) \in Msg /\ Tail(s) \in Seq(Msg)
                        /\ Len(Tail(s)) = Len(s) - 1
<1>1. ASSUME NEW m \in Msg
      PROVE  Insert(s, m) \in Seq(Msg) /\ Len(Insert(s, m)) = Len(s) + 1
  <2>1. Append(s, m) \in Seq(Msg) /\ Len(Append(s, m)) = Len(s) + 1
    OBVIOUS
  <2>2. <<m>> \in Seq(Msg) /\ Len(<<m>>) = 1
    OBVIOUS
  <2>3. <<m>> \o s \in Seq(Msg) /\ Len(<<m>> \o s) = Len(s) + 1
    BY <2>2
  <2> QED  BY <2>1, <2>3 DEF Insert
<1> QED  BY <1>1

(* One queue of all changed. *)
LEMMA OneQueue ==
  ASSUME NEW Qs \in Seq(Seq(Msg)), NEW i \in DOMAIN Qs, NEW s \in Seq(Msg),
         NEW Rs, Rs = [Qs EXCEPT ![i] = s]
  PROVE  /\ Rs \in Seq(Seq(Msg)) /\ Len(Rs) = Len(Qs) /\ DOMAIN Rs = DOMAIN Qs
         /\ Rs[i] = s /\ \A j \in DOMAIN Qs \ {i} : Rs[j] = Qs[j]
OBVIOUS

LEMMA OwnQueue ==
  ASSUME QueueTypeOK
  PROVE  \A p \in Proc : /\ msg[p] \in Msg
                         /\ Up(p) => id[p] \in DOMAIN queues /\ queues[id[p]] \in Seq(Msg)
<1> SUFFICES ASSUME NEW p \in Proc, Up(p)
             PROVE  id[p] \in DOMAIN queues /\ queues[id[p]] \in Seq(Msg)
  BY DEF QueueTypeOK
<1>1. id[p] \in DOMAIN queues /\ queues \in Seq(Seq(Msg))
  BY DEF QueueTypeOK
<1> QED  BY <1>1

(* A kill counts itself, for its queue only, if it leaves something behind. *)
LEMMA LeftStep ==
  ASSUME QueueTypeOK, NEW p \in Proc, Kill(p)
  PROVE  /\ behind' \in Seq([Proc -> Nat]) /\ Len(behind') = Len(behind)
         /\ \A q \in DOMAIN queues :
              /\ behind'[q]["proc2"] \in Nat /\ behind'[q]["proc2"] >= behind[q]["proc2"]
              /\ q = id[p] /\ p = "proc2" /\ LeavesBehind(p)
                   => behind'[q]["proc2"] = behind[q]["proc2"] + 1
<1>0. id[p] \in DOMAIN queues /\ id[p] \in DOMAIN behind /\ behind[id[p]] \in [Proc -> Nat]
  BY OwnQueue, LeftNat DEF Kill
<1>1. CASE ~LeavesBehind(p)
  BY <1>1, LeftNat DEF Kill, QueueTypeOK
<1>2. CASE LeavesBehind(p)
  <2> DEFINE f == [behind[id[p]] EXCEPT ![p] = @ + 1]
  <2>1. f \in [Proc -> Nat] /\ f["proc2"] = behind[id[p]]["proc2"] + (IF p = "proc2" THEN 1 ELSE 0)
    BY <1>0 DEF Proc
  <2>2. behind' = [behind EXCEPT ![id[p]] = f] /\ behind \in Seq([Proc -> Nat])
    BY <1>0, <1>2 DEF Kill, QueueTypeOK
  <2> HIDE DEF f
  <2>3. behind' \in Seq([Proc -> Nat]) /\ Len(behind') = Len(behind)
    BY <1>0, <2>1, <2>2
  <2>4. behind'[id[p]] = f /\ \A q \in DOMAIN behind \ {id[p]} : behind'[q] = behind[q]
    BY <1>0, <2>2
  <2>5. \A q \in DOMAIN queues : q \in DOMAIN behind /\ behind[q]["proc2"] \in Nat
    BY LeftNat
  <2> QED  BY <2>1, <2>3, <2>4, <2>5
<1> QED  BY <1>1, <1>2

(* Every step keeps the types. *)
LEMMA QueueTypeStep ==
  ASSUME QueueTypeOK, [QueueNext]_queueVars
  PROVE  QueueTypeOK'
<1> USE DEF QueueTypeOK, Locs, Stopped, Up
<1>1. ASSUME NEW p \in Proc, msgqueue_init(p) PROVE QueueTypeOK'
  <2>1. pc'[p] \in {"recv", "prompt"} /\ \A r \in Proc \ {p} : pc'[r] = pc[r]
    BY <1>1 DEF msgqueue_init, FirstStep
  <2>2. pc' \in [Proc -> Locs] /\ msg' \in [Proc -> Msg] /\ api' \in {"SysV", "POSIX"}
    BY <1>1 DEF msgqueue_init, FirstStep
  <2>3. CASE name # 0 /\ UNCHANGED <<queues, name, behind>>
    BY <1>1, <2>1, <2>2, <2>3 DEF msgqueue_init
  <2>4. CASE /\ name = 0 /\ queues' = Append(queues, <<>>) /\ name' = Len(queues) + 1
             /\ behind' = Append(behind, [r \in Proc |-> 0])
    <3>0. [r \in Proc |-> 0] \in [Proc -> Nat]
      OBVIOUS
    <3>6. behind' \in Seq([Proc -> Nat]) /\ Len(behind') = Len(behind) + 1
      BY <2>4, <3>0
    <3>1. queues' \in Seq(Seq(Msg)) /\ Len(queues') = Len(queues) + 1
      BY <2>4
    <3>2. DOMAIN queues' = 1 .. (Len(queues) + 1) /\ DOMAIN queues = 1 .. Len(queues)
      BY <3>1
    <3>3. id'[p] = Len(queues) + 1 /\ \A r \in Proc \ {p} : id'[r] = id[r]
      BY <1>1, <2>4 DEF msgqueue_init
    <3>4. id' \in [Proc -> Nat] /\ name' \in 0 .. Len(queues')
      BY <1>1, <2>4, <3>1 DEF msgqueue_init
    <3>5. \A r \in Proc : Up(r)' => id'[r] \in DOMAIN queues'
      BY <2>1, <3>2, <3>3
    <3> QED  BY <2>2, <3>1, <3>4, <3>5, <3>6
  <2> QED  BY <1>1, <2>3, <2>4 DEF msgqueue_init
<1>2. ASSUME NEW p \in Proc, msg_scan(p) PROVE QueueTypeOK'
  BY <1>2 DEF msg_scan, Goto
<1>3. ASSUME NEW p \in Proc, msgqueue_recv(p) PROVE QueueTypeOK'
  <2>1. id[p] \in DOMAIN queues /\ queues[id[p]] \in Seq(Msg)
    BY <1>3, OwnQueue DEF msgqueue_recv
  <2>2. CASE UNCHANGED queues
    BY <1>3, <2>2 DEF msgqueue_recv, Goto, Received
  <2>3. CASE queues[id[p]] # <<>> /\ queues' = [queues EXCEPT ![id[p]] = Tail(@)]
    <3>0. Tail(queues[id[p]]) \in Seq(Msg)
      BY <2>1, <2>3, OneMessage
    <3>1. queues' \in Seq(Seq(Msg)) /\ Len(queues') = Len(queues) /\ DOMAIN queues' = DOMAIN queues
      BY <2>1, <2>3, <3>0, OneQueue
    <3> QED  BY <1>3, <2>3, <3>1 DEF msgqueue_recv, Goto, Received
  <2> QED  BY <1>3, <2>2, <2>3 DEF msgqueue_recv
<1>4. ASSUME NEW p \in Proc, msgqueue_send(p) PROVE QueueTypeOK'
  <2>1. id[p] \in DOMAIN queues /\ queues[id[p]] \in Seq(Msg) /\ msg[p] \in Msg
    BY <1>4, OwnQueue DEF msgqueue_send
  <2>2. CASE UNCHANGED queues
    BY <1>4, <2>2 DEF msgqueue_send, Goto, Received, Sent, Blocked
  <2>3. CASE queues' = [queues EXCEPT ![id[p]] = Insert(@, msg[p])]
    <3>0. Insert(queues[id[p]], msg[p]) \in Seq(Msg)
      BY <2>1, OneMessage
    <3>1. queues' \in Seq(Seq(Msg)) /\ Len(queues') = Len(queues) /\ DOMAIN queues' = DOMAIN queues
      BY <2>1, <2>3, <3>0, OneQueue
    <3>2. pc' \in [Proc -> Locs] /\ \A r \in Proc : Up(r)' => Up(r)
      BY <1>4 DEF msgqueue_send, Goto, Received, Sent, Blocked
    <3> QED  BY <1>4, <2>3, <3>1, <3>2 DEF msgqueue_send
  <2> QED  BY <1>4, <2>2, <2>3 DEF msgqueue_send
<1>5. ASSUME NEW p \in Proc, IPC_RMID(p) PROVE QueueTypeOK'
  <2>0. <<>> \in Seq(Msg)
    BY EmptySeq
  <2>1. id[p] \in DOMAIN queues
    BY <1>5, OwnQueue DEF IPC_RMID
  <2>2. queues' \in Seq(Seq(Msg)) /\ Len(queues') = Len(queues) /\ DOMAIN queues' = DOMAIN queues
    BY <1>5, <2>0, <2>1, OneQueue DEF IPC_RMID
  <2>3. pc' \in [Proc -> Locs] /\ \A r \in Proc : Up(r)' => Up(r)
    BY <1>5 DEF IPC_RMID
  <2> QED  BY <1>5, <2>2, <2>3 DEF IPC_RMID
<1>6. ASSUME NEW p \in Proc, mq_unlink(p) PROVE QueueTypeOK'
  BY <1>6 DEF mq_unlink, Goto
<1>7. ASSUME NEW p \in Proc, Kill(p) PROVE QueueTypeOK'
  <2>1. behind' \in Seq([Proc -> Nat]) /\ Len(behind') = Len(behind)
    BY <1>7, LeftStep
  <2>2. pc' \in [Proc -> Locs] /\ \A r \in Proc : Up(r)' => Up(r)
    BY <1>7 DEF Kill, Goto
  <2> QED  BY <1>7, <2>1, <2>2 DEF Kill
<1>8. ASSUME UNCHANGED queueVars PROVE QueueTypeOK'
  BY <1>8 DEF queueVars
<1> QED  BY <1>1, <1>2, <1>3, <1>4, <1>5, <1>6, <1>7, <1>8 DEF QueueNext, Step

(* What a step of one process from one place to another does to the turns. *)
LEMMA OneMoves ==
  ASSUME QueueTypeOK, NEW p \in Proc, NEW to, pc' = [pc EXCEPT ![p] = to], id' = id,
         NEW q
  PROVE  /\ \A r \in Proc : r # p \/ id[p] # q => Holds(r, q)' = Holds(r, q)
         /\ id[p] # q => Holds(p, q) = 0
         /\ id[p] = q => /\ to \in {"prompt", "send"} => Holds(p, q)' = 1
                         /\ to \notin {"prompt", "send"} => Holds(p, q)' = 0
                         /\ pc[p] \in {"prompt", "send"} => Holds(p, q) = 1
                         /\ pc[p] \notin {"prompt", "send"} => Holds(p, q) = 0
BY DEF QueueTypeOK, Holds

LEMMA SumNat ==
  ASSUME QueueTypeOK, NEW q \in DOMAIN queues
  PROVE  Len(queues[q]) \in Nat /\ Sum(q) \in Nat
<1>1. queues[q] \in Seq(Msg)
  BY DEF QueueTypeOK
<1>2. Len(queues[q]) \in Nat
  BY <1>1
<1> QED  BY <1>2 DEF Sum, Holds

(* A queue's turns when neither it nor its users change.                   *)
LEMMA SumOfOther ==
  ASSUME NEW q, queues'[q] = queues[q], \A r \in Proc : Holds(r, q)' = Holds(r, q)
  PROVE  Sum(q)' = Sum(q)
BY DEF Sum, Proc

LEMMA SumOfOwn ==
  ASSUME NEW q, NEW p \in Proc, \A r \in Proc : r # p => Holds(r, q)' = Holds(r, q),
         Len(queues[q]) \in Nat, Len(queues'[q]) \in Nat,
         Len(queues'[q]) + Holds(p, q)' <= Len(queues[q]) + Holds(p, q)
  PROVE  Sum(q)' <= Sum(q)
<1>1. PICK r \in Proc : r # p /\ Proc = {p, r}
  BY DEF Proc
<1>2. Sum(q) = (Len(queues[q]) + Holds(p, q)) + Holds(r, q)
  BY <1>1, HoldsNat DEF Sum, Proc
<1>3. Sum(q)' = (Len(queues'[q]) + Holds(p, q)') + Holds(r, q)'
  BY <1>1, HoldsNat DEF Sum, Proc
<1> QED  BY <1>1, <1>2, <1>3, HoldsNat

(* Receiving turns a message into a turn of the one that writes.           *)
LEMMA RecvStep ==
  ASSUME QueueInv, QueueTypeOK', NEW p \in Proc, msgqueue_recv(p)
  PROVE  QueueInv'
<1>0. QueueTypeOK /\ id' = id /\ behind' = behind /\ name' = name /\ pc[p] = "recv"
  BY DEF msgqueue_recv, QueueInv
<1>1. id[p] \in DOMAIN queues /\ queues[id[p]] \in Seq(Msg)
  BY <1>0, OwnQueue DEF Up, Stopped
<1>2. PICK to : /\ pc' = [pc EXCEPT ![p] = to]
                /\ \/ UNCHANGED queues /\ to = "blocked"
                   \/ UNCHANGED queues /\ to = "failed" /\ Removed(id[p])
                   \/ /\ queues[id[p]] # <<>>
                      /\ queues' = [queues EXCEPT ![id[p]] = Tail(@)]
                      /\ to \in {"prompt", "delete"}
  BY DEF msgqueue_recv, Goto, Received
<1>3. ASSUME NEW q \in DOMAIN queues PROVE Sum(q)' <= Sum(q)
  <2>1. CASE id[p] # q
    <3>1. queues'[q] = queues[q]
      BY <1>0, <1>2, <2>1 DEF QueueTypeOK
    <3>2. \A r \in Proc : Holds(r, q)' = Holds(r, q)
      BY <1>0, <1>2, <2>1, OneMoves
    <3>3. Sum(q) \in Nat
      BY <1>0, SumNat
    <3> QED  BY <3>1, <3>2, <3>3, SumOfOther
  <2>2. CASE id[p] = q
    <3>1. /\ \A r \in Proc : r # p => Holds(r, q)' = Holds(r, q)
          /\ Holds(p, q) = 0 /\ Holds(p, q)' \in {0, 1}
          /\ to \in {"blocked", "failed"} => Holds(p, q)' = 0
      BY <1>0, <1>2, <2>2 DEF QueueTypeOK, Holds
    <3>2. Len(queues[q]) \in Nat /\ Len(queues'[q]) \in Nat
          /\ Len(queues'[q]) + Holds(p, q)' <= Len(queues[q]) + Holds(p, q)
      <4>1. CASE UNCHANGED queues /\ to \in {"blocked", "failed"}
        BY <1>0, <3>1, <4>1, SumNat
      <4>2. CASE queues[q] # <<>> /\ queues' = [queues EXCEPT ![q] = Tail(@)]
        <5>1. queues'[q] = Tail(queues[q]) /\ Len(Tail(queues[q])) = Len(queues[q]) - 1
              /\ Len(queues[q]) \in Nat /\ Len(Tail(queues[q])) \in Nat
          BY <1>0, <1>1, <2>2, <4>2, OneMessage DEF QueueTypeOK
        <5> QED  BY <3>1, <5>1
      <4> QED  BY <1>2, <2>2, <4>1, <4>2
    <3> QED  BY <3>1, <3>2, SumOfOwn
  <2> QED  BY <2>1, <2>2
<1>4. DOMAIN queues' = DOMAIN queues
  BY <1>0, <1>2 DEF QueueTypeOK
<1>5. name # 0 /\ pc'["proc2"] \in Stopped /\ id["proc2"] = name => pc["proc2"] \in Stopped
  BY <1>0, <1>2 DEF QueueTypeOK, Stopped, Removed, Proc
<1> QED  BY <1>0, <1>3, <1>4, <1>5, NoNewTurn

(* Sending turns the turn of the writer into a message, or hands it over.  *)
LEMMA SendStep ==
  ASSUME QueueInv, QueueTypeOK', NEW p \in Proc, msgqueue_send(p)
  PROVE  QueueInv'
<1>0. QueueTypeOK /\ id' = id /\ behind' = behind /\ name' = name /\ pc[p] = "send"
  BY DEF msgqueue_send, QueueInv
<1>1. id[p] \in DOMAIN queues /\ queues[id[p]] \in Seq(Msg) /\ msg[p] \in Msg
  BY <1>0, OwnQueue DEF Up, Stopped
<1>2. CASE \E b \in Blocked(id[p]) : pc' = [pc EXCEPT ![p] = Sent(msg[p]), ![b] = Received(msg[p])]
                                   /\ UNCHANGED queues
  <2>1. PICK b \in Proc : /\ b # p /\ pc[b] = "blocked" /\ id[b] = id[p]
                          /\ pc' = [pc EXCEPT ![p] = Sent(msg[p]), ![b] = Received(msg[p])]
                          /\ UNCHANGED queues
    BY <1>0, <1>2 DEF Blocked
  <2>2. pc'[p] \in {"delete", "recv"} /\ pc'[b] \in {"prompt", "delete"} /\ Proc = {p, b}
    BY <1>0, <2>1 DEF QueueTypeOK, Sent, Received, Proc
  <2>3. ASSUME NEW q \in DOMAIN queues PROVE Sum(q)' <= Sum(q)
    <3>1. Holds(p, q)' = 0 /\ Holds(b, q) = 0
          /\ (id[p] = q => Holds(p, q) = 1) /\ (id[p] # q => Holds(b, q)' = 0)
      BY <1>0, <2>1, <2>2 DEF Holds
    <3>2. Sum(q) = Len(queues[q]) + Holds(p, q) /\ Sum(q)' = Len(queues[q]) + Holds(b, q)'
      BY <1>0, <2>1, <2>2, <3>1, SumNat, HoldsNat DEF Sum, Proc
    <3> QED  BY <1>0, <3>1, <3>2, HoldsNat, SumNat
  <2>4. pc'["proc2"] \notin Stopped
    BY <2>2 DEF Stopped, Proc
  <2> QED  BY <1>0, <2>1, <2>3, <2>4, NoNewTurn
<1>3. CASE \/ UNCHANGED queues /\ Goto(p, "send", "failed") /\ Removed(id[p])
           \/ /\ queues' = [queues EXCEPT ![id[p]] = Insert(@, msg[p])]
              /\ Goto(p, "send", Sent(msg[p]))
  <2>1. PICK to : /\ pc' = [pc EXCEPT ![p] = to] /\ to \notin {"prompt", "send"}
                  /\ \/ UNCHANGED queues /\ to = "failed" /\ Removed(id[p])
                     \/ /\ queues' = [queues EXCEPT ![id[p]] = Insert(@, msg[p])]
                        /\ to \notin Stopped
    BY <1>3 DEF Goto, Sent, Stopped
  <2>2. ASSUME NEW q \in DOMAIN queues PROVE Sum(q)' <= Sum(q)
    <3>1. CASE id[p] # q
      <4>1. queues'[q] = queues[q]
        BY <1>0, <2>1, <3>1 DEF QueueTypeOK
      <4>2. \A r \in Proc : Holds(r, q)' = Holds(r, q)
        BY <1>0, <2>1, <3>1, OneMoves
      <4> QED  BY <1>0, <4>1, <4>2, SumNat, SumOfOther
    <3>2. CASE id[p] = q
      <4>1. /\ \A r \in Proc : r # p => Holds(r, q)' = Holds(r, q)
            /\ Holds(p, q) = 1 /\ Holds(p, q)' = 0
        BY <1>0, <2>1, <3>2 DEF QueueTypeOK, Holds
      <4>2. Len(queues[q]) \in Nat /\ Len(queues'[q]) \in 0 .. (Len(queues[q]) + 1)
        <5>1. CASE UNCHANGED queues
          BY <1>0, <5>1, SumNat
        <5>2. CASE queues' = [queues EXCEPT ![q] = Insert(@, msg[p])]
          <6>1. queues'[q] = Insert(queues[q], msg[p])
            BY <1>0, <5>2 DEF QueueTypeOK
          <6>2. Len(Insert(queues[q], msg[p])) = Len(queues[q]) + 1 /\ Len(queues[q]) \in Nat
            BY <1>1, <3>2, OneMessage
          <6> QED  BY <6>1, <6>2
        <5> QED  BY <2>1, <3>2, <5>1, <5>2
      <4> QED  BY <4>1, <4>2, SumOfOwn
    <3> QED  BY <3>1, <3>2
  <2>3. DOMAIN queues' = DOMAIN queues
    BY <1>0, <2>1 DEF QueueTypeOK
  <2>4. name # 0 /\ pc'["proc2"] \in Stopped /\ id["proc2"] = name => pc["proc2"] \in Stopped
    BY <1>0, <2>1 DEF QueueTypeOK, Removed, Proc
  <2> QED  BY <1>0, <2>2, <2>3, <2>4, NoNewTurn
<1> QED  BY <1>2, <1>3 DEF msgqueue_send

(* Scanning keeps the turn, or drops it at the end of the input.           *)
LEMMA ScanStep ==
  ASSUME QueueInv, QueueTypeOK', NEW p \in Proc, msg_scan(p)
  PROVE  QueueInv'
<1>0. /\ QueueTypeOK /\ id' = id /\ behind' = behind /\ name' = name /\ queues' = queues /\ pc[p] = "prompt"
  BY DEF msg_scan, Goto, QueueInv
<1>1. PICK to \in {"send", "failed"} : pc' = [pc EXCEPT ![p] = to]
  BY DEF msg_scan, Goto
<1>2. ASSUME NEW q \in DOMAIN queues
      PROVE  Sum(q)' <= Sum(q) /\ (id[p] = q /\ to = "failed" => Sum(q)' = Sum(q) - 1)
  <2>1. \A r \in Proc : r # p => Holds(r, q)' = Holds(r, q)
    BY <1>0, <1>1 DEF QueueTypeOK, Holds
  <2>2. Holds(p, q)' <= Holds(p, q) /\ (id[p] = q /\ to = "failed" => Holds(p, q)' = Holds(p, q) - 1)
    BY <1>0, <1>1 DEF QueueTypeOK, Holds
  <2> QED  BY <1>0, <2>1, <2>2, SumNat, HoldsNat DEF Sum, Proc
<1>3. ASSUME name # 0, pc'["proc2"] \in Stopped, id["proc2"] = name, pc["proc2"] \notin Stopped,
             NEW q, q = name
      PROVE  Sum(q)' <= behind[q]["proc2"]
  <2>1. p = "proc2" /\ to = "failed" /\ id[p] = q /\ q \in DOMAIN queues
    BY <1>0, <1>1, <1>3 DEF QueueTypeOK, Proc, Stopped
  <2>2. Sum(q) <= 1 + behind[q]["proc2"] /\ Sum(q) \in Nat /\ behind[q]["proc2"] \in Nat
    BY <1>0, <2>1, TurnsIsSum, SumNat, LeftNat DEF QueueInv, OneTurn
  <2> QED  BY <1>2, <2>1, <2>2
<1>4. name' # 0 /\ pc'["proc2"] \in Stopped /\ id["proc2"] = name
        => pc["proc2"] \in Stopped \/ Sum(name)' <= behind[name]["proc2"]
  <2>1. PICK q : q = name
    OBVIOUS
  <2> QED  BY <1>0, <1>3, <2>1 DEF Sum, Holds
<1> QED  BY <1>0, <1>2, <1>4, NoNewTurn

(* Removing a queue drops its messages; those who have it do not get it back. *)
LEMMA DeleteStep ==
  ASSUME QueueInv, QueueTypeOK', NEW p \in Proc, IPC_RMID(p)
  PROVE  QueueInv'
<1>0. /\ QueueTypeOK /\ id' = id /\ behind' = behind /\ name' \in {0, name} /\ pc[p] = "delete"
      /\ (name' # 0 => name # id[p])
  BY DEF IPC_RMID, QueueInv
<1>1. id[p] \in DOMAIN queues
  BY <1>0, OwnQueue DEF Up, Stopped
<1>2. \A r \in Proc : /\ pc'[r] \in {"ended", "failed", pc[r]}
                      /\ pc'[r] # pc[r] => id[r] = id[p]
  BY <1>0 DEF IPC_RMID, Blocked
<1>3. ASSUME NEW q \in DOMAIN queues PROVE Sum(q)' <= Sum(q)
  <2>1. \A r \in Proc : Holds(r, q)' <= Holds(r, q)
    <3> SUFFICES ASSUME NEW r \in Proc, Holds(r, q)' = 1 PROVE Holds(r, q) = 1
      BY HoldsNat
    <3>1. id'[r] = q /\ pc'[r] \in {"prompt", "send"}
      BY DEF Holds
    <3>2. pc'[r] = pc[r] /\ id[r] = q
      BY <1>0, <1>2, <3>1
    <3> QED  BY <3>1, <3>2 DEF Holds
  <2>2. queues'[q] = queues[q] \/ Len(queues'[q]) = 0
    BY <1>0, <1>1 DEF IPC_RMID, QueueTypeOK
  <2> QED  BY <1>0, <2>1, <2>2, SumNat, HoldsNat DEF Sum, Proc
<1>4. DOMAIN queues' = DOMAIN queues
  BY <1>0, <1>1 DEF IPC_RMID, QueueTypeOK
<1>5. name' # 0 /\ pc'["proc2"] \in Stopped /\ id["proc2"] = name => pc["proc2"] \in Stopped
  BY <1>0, <1>2 DEF Proc
<1> QED  BY <1>0, <1>3, <1>4, <1>5, NoNewTurn

LEMMA UnlinkStep ==
  ASSUME QueueInv, QueueTypeOK', NEW p \in Proc, mq_unlink(p)
  PROVE  QueueInv'
<1>0. /\ QueueTypeOK /\ id' = id /\ behind' = behind /\ name' = 0 /\ queues' = queues
      /\ pc[p] = "delete" /\ pc' = [pc EXCEPT ![p] = "ended"]
  BY DEF mq_unlink, Goto, QueueInv
<1>1. ASSUME NEW q \in DOMAIN queues PROVE Sum(q)' <= Sum(q)
  <2>1. \A r \in Proc : Holds(r, q)' = Holds(r, q)
    BY <1>0 DEF QueueTypeOK, Holds
  <2> QED  BY <1>0, <2>1, SumNat, HoldsNat DEF Sum, Proc
<1> QED  BY <1>0, <1>1, NoNewTurn

(* A program that starts finds a queue, or makes one without a turn.  Only *)
(* proc2 brings a turn, and FreshFor2 says that it finds none.             *)
LEMMA StartStep ==
  ASSUME QueueInv, QueueTypeOK', NEW p \in Proc, msgqueue_init(p)
  PROVE  QueueInv'
<1>0. /\ QueueTypeOK /\ pc[p] \in Stopped /\ pc' = [pc EXCEPT ![p] = FirstStep(p)]
      /\ id' = [id EXCEPT ![p] = name'] /\ name' # 0
      /\ \/ UNCHANGED <<queues, name, behind>>
         \/ /\ queues' = Append(queues, <<>>) /\ name' = Len(queues) + 1
            /\ behind' = Append(behind, [r \in Proc |-> 0])
  BY DEF msgqueue_init, QueueInv, QueueTypeOK
<1>1. ASSUME NEW q \in DOMAIN queues
      PROVE  /\ Sum(q) \in Nat /\ Sum(q) <= 1 + behind[q]["proc2"] /\ behind[q]["proc2"] \in Nat
             /\ Len(queues[q]) \in Nat
             /\ q = name' /\ (pc["proc2"] \in Stopped \/ id["proc2"] # name')
                  => Sum(q) <= behind[q]["proc2"]
  <2>1. /\ Sum(q) \in Nat /\ Sum(q) <= 1 + behind[q]["proc2"] /\ behind[q]["proc2"] \in Nat
        /\ Len(queues[q]) \in Nat
    BY <1>0, TurnsIsSum, SumNat, LeftNat DEF QueueInv, OneTurn
  <2>2. ASSUME q = name', pc["proc2"] \in Stopped \/ id["proc2"] # name'
        PROVE  Sum(q) <= behind[q]["proc2"]
    <3>1. q = name /\ name' = name
      BY <1>0, <2>2 DEF QueueTypeOK
    <3>2. Turns(q) <= behind[q]["proc2"]
      BY <1>0, <2>2, <3>1 DEF QueueInv, FreshFor2, Turns
    <3> QED  BY <3>2, TurnsIsSum
  <2> QED  BY <1>0, <2>1, <2>2
<1>2. ASSUME NEW q \in DOMAIN queues'
      PROVE  /\ Sum(q)' <= 1 + behind'[q]["proc2"]
             /\ q = name' /\ (pc'["proc2"] \in Stopped \/ id'["proc2"] # q)
                  => Sum(q)' <= behind'[q]["proc2"]
  <2>1. \A r \in Proc : Holds(r, q)' = IF r # p THEN Holds(r, q)
                                       ELSE IF p = "proc2" /\ q = name' THEN 1 ELSE 0
    BY <1>0 DEF QueueTypeOK, Holds, FirstStep, Proc
  <2>2. Holds(p, q) = 0
    BY <1>0 DEF Holds, Stopped
  <2>3. CASE q \in DOMAIN queues
    <3>1. queues'[q] = queues[q] /\ behind'[q] = behind[q]
      <4>1. queues \in Seq(Seq(Msg)) /\ q \in 1 .. Len(queues)
        BY <1>0, <2>3 DEF QueueTypeOK
      <4>2. Append(queues, <<>>)[q] = queues[q]
        BY <4>1
      <4>3. behind \in Seq([Proc -> Nat]) /\ q \in 1 .. Len(behind)
        BY <1>0, <4>1 DEF QueueTypeOK
      <4>4. Append(behind, [r \in Proc |-> 0])[q] = behind[q]
        BY <4>3
      <4> QED  BY <1>0, <4>2, <4>4
    <3>2. Sum(q)' = Sum(q) + (IF p = "proc2" /\ q = name' THEN 1 ELSE 0)
      BY <1>1, <2>1, <2>2, <2>3, <3>1, HoldsNat DEF Sum, Proc
    <3>3. pc'["proc2"] \in Stopped \/ id'["proc2"] # name'
            => p # "proc2" /\ (pc["proc2"] \in Stopped \/ id["proc2"] # name')
      BY <1>0 DEF QueueTypeOK, FirstStep, Stopped, Proc
    <3>4. p = "proc2" /\ q = name' => Sum(q) <= behind[q]["proc2"]
      BY <1>0, <1>1, <2>3
    <3> QED  BY <1>1, <2>3, <3>1, <3>2, <3>3, <3>4
  <2>4. CASE q \notin DOMAIN queues
    <3>1. q = name' /\ Len(queues'[q]) = 0 /\ behind'[q]["proc2"] = 0
      <4>1. q = name' /\ Len(queues'[q]) = 0 /\ q = Len(behind) + 1 /\ behind \in Seq([Proc -> Nat])
            /\ behind' = Append(behind, [r \in Proc |-> 0])
        BY <1>0, <2>4 DEF QueueTypeOK
      <4>2. behind'[q] = [r \in Proc |-> 0]
        BY <4>1
      <4> QED  BY <4>1, <4>2 DEF Proc
    <3>2. \A r \in Proc : Holds(r, q) = 0
      BY <1>0, <2>4 DEF QueueTypeOK, Holds, Up, Stopped
    <3>3. Sum(q)' = IF p = "proc2" THEN 1 ELSE 0
      BY <2>1, <3>1, <3>2 DEF Sum, Proc
    <3>4. pc'["proc2"] \in Stopped \/ id'["proc2"] # name' => p # "proc2"
      BY <1>0 DEF QueueTypeOK, FirstStep, Stopped, Proc
    <3> QED  BY <3>1, <3>3, <3>4
  <2> QED  BY <2>3, <2>4
<1>3. OneTurn'
  BY <1>2, TurnsIsSum DEF OneTurn
<1>4. FreshFor2'
  <2>1. SUFFICES ASSUME pc'["proc2"] \in Stopped \/ id'["proc2"] # name', NEW q, q = name'
                 PROVE  Turns(q)' <= behind'[q]["proc2"]
    BY DEF FreshFor2, Turns, Stopped
  <2>2. q \in DOMAIN queues'
    BY <1>0, <2>1 DEF QueueTypeOK
  <2> QED  BY <1>2, <2>1, <2>2, TurnsIsSum
<1> QED  BY <1>3, <1>4 DEF QueueInv

(* A kill loses the turn of one who writes.  If proc2 waits for its turn it *)
(* leaves one behind, and is counted for it.                               *)
LEMMA KillStep ==
  ASSUME QueueInv, QueueTypeOK', NEW p \in Proc, Kill(p)
  PROVE  QueueInv'
<1>0. /\ QueueTypeOK /\ id' = id /\ name' = name /\ queues' = queues
      /\ Up(p) /\ pc' = [pc EXCEPT ![p] = "killed"]
  BY DEF Kill, Goto, QueueInv
<1>1. ASSUME NEW q \in DOMAIN queues
      PROVE  /\ Sum(q) \in Nat /\ Sum(q)' \in Nat /\ Sum(q)' <= Sum(q)
             /\ id[p] = q /\ pc[p] \in {"prompt", "send"} => Sum(q)' = Sum(q) - 1
  <2>1. \A r \in Proc : r # p \/ id[p] # q => Holds(r, q)' = Holds(r, q)
    BY <1>0 DEF QueueTypeOK, Holds
  <2>2. /\ Holds(p, q)' <= Holds(p, q)
        /\ id[p] = q /\ pc[p] \in {"prompt", "send"} => Holds(p, q)' = Holds(p, q) - 1
    BY <1>0 DEF QueueTypeOK, Holds
  <2> QED  BY <1>0, <2>1, <2>2, SumNat, HoldsNat DEF Sum, Proc
<1>2. ASSUME NEW q \in DOMAIN queues
      PROVE  /\ behind'[q]["proc2"] \in Nat /\ behind[q]["proc2"] \in Nat
             /\ behind'[q]["proc2"] >= behind[q]["proc2"]
             /\ q = id[p] /\ p = "proc2" /\ LeavesBehind(p)
                  => behind'[q]["proc2"] = behind[q]["proc2"] + 1
  BY <1>0, LeftStep, LeftNat
<1>3. ASSUME NEW q \in DOMAIN queues PROVE Sum(q) <= 1 + behind[q]["proc2"]
  BY TurnsIsSum DEF QueueInv, OneTurn
<1>4. OneTurn'
  <2> SUFFICES ASSUME NEW q \in DOMAIN queues PROVE Turns(q)' <= 1 + behind'[q]["proc2"]
    BY <1>0 DEF OneTurn
  <2> QED  BY <1>1, <1>2, <1>3, TurnsIsSum
<1>5. FreshFor2'
  <2>1. SUFFICES ASSUME name # 0, pc'["proc2"] \in Stopped \/ id["proc2"] # name,
                        NEW q, q = name
                 PROVE  Turns(q)' <= behind'[q]["proc2"]
    BY <1>0 DEF FreshFor2, Turns, Stopped
  <2>2. q \in DOMAIN queues
    BY <1>0, <2>1 DEF QueueTypeOK
  <2>3. CASE pc["proc2"] \in Stopped \/ id["proc2"] # name
    <3>1. Sum(q) <= behind[q]["proc2"]
      BY <2>1, <2>3, TurnsIsSum DEF QueueInv, FreshFor2, Turns
    <3> QED  BY <3>1, <2>2, <1>1, <1>2, TurnsIsSum
  <2>4. CASE pc["proc2"] \notin Stopped /\ id["proc2"] = name
    <3>1. p = "proc2" /\ id[p] = q
      BY <1>0, <2>1, <2>4 DEF QueueTypeOK, Proc
    <3>2. pc[p] \in {"prompt", "send"} \/ LeavesBehind(p)
      BY <1>0, <3>1 DEF QueueTypeOK, Locs, Up, LeavesBehind
    <3>3. Sum(q)' <= behind'[q]["proc2"]
      BY <3>1, <3>2, <2>2, <1>1, <1>2, <1>3
    <3> QED  BY <3>3, TurnsIsSum
  <2> QED  BY <2>3, <2>4
<1> QED  BY <1>4, <1>5 DEF QueueInv

LEMMA QueueStepKeeps == QueueInv /\ [QueueNext]_queueVars => QueueInv'
<1> SUFFICES ASSUME QueueInv, [QueueNext]_queueVars PROVE QueueInv'
  OBVIOUS
<1>0. QueueTypeOK'
  BY QueueTypeStep DEF QueueInv
<1>1. CASE QueueNext
  BY <1>0, <1>1, StartStep, ScanStep, RecvStep, SendStep, DeleteStep, UnlinkStep, KillStep
    DEF QueueNext, Step
<1>2. CASE UNCHANGED queueVars
  BY <1>0, <1>2 DEF queueVars, QueueInv, OneTurn, FreshFor2, Turns
<1> QED  BY <1>1, <1>2

(* At any time a queue has at most one turn, a message in it or a program  *)
(* that writes one, and one more for each time that proc2 was killed on it *)
(* in msgqueue_recv() or before msgqueue_delete().  That is so in either   *)
(* task, however often and wherever the programs are killed and started    *)
(* again, and whoever removes or unlinks which queue: as long as proc2 is  *)
(* not killed there, two that share a queue never prompt together.         *)
THEOREM OneTurnAlways == QueueSpec => []OneTurn
<1>1. QueueInv => OneTurn
  BY DEF QueueInv
<1> QED  BY QueueEstablishes, QueueStepKeeps, <1>1, PTL DEF QueueSpec

-----------------------------------------------------------------------------
(***************************************************************************)
(* ForkServer, for files and buffers of any size: the two programs never   *)
(* talk at cross purposes and a file arrives whole, unless it has the mark *)
(* inside.                                                                 *)
(***************************************************************************)
Requests == {"GET_OP", "GET_ARG", "OP_RESULT", "GET_FILENAME", "START_FILE_SENDING"}
Token    == Byte \cup Requests \cup {"RST"}

Waits == {"op", "lhs", "rhs", "result", "name"}

Sending == <<"send", "file">>
AllSent    == <<"wait", "quit">>

(* Where the server's process may be; only task16 knows of files.          *)
Places == Ended \cup {<<"accept", "op">>, <<"ask", "again">>, <<"wait", "again">>,
                      <<"start", "file">>, <<"open", "file">>, Sending, AllSent}
          \cup ({"ask", "wait"} \X Waits)

Calculating == Ended \cup {<<"accept", "op">>} \cup ({"ask", "wait"} \X {"op", "lhs", "rhs", "result"})

ForkTypeOK ==
  /\ task \in {15, 16}
  /\ srv \in Places /\ (task = 15 => srv \in Calculating)
  /\ down \in Seq(Token) /\ up \in Seq(Answers)
  /\ file \in File \cup {Missing}
  /\ srv = Sending => rest \in Seq(Byte)

-----------------------------------------------------------------------------
(* What the client may answer to a request, when it is not about to leave. *)
Fits(a, s) == CASE s = "op"             -> a \in {"calc", "file"}
                [] s \in {"lhs", "rhs"} -> a = "arg"
                [] s = "name"           -> a = "name"
                [] s = "result"         -> a = "go"

Quiet == down = <<>> /\ up = <<>>

(* The server has the turn, or has ended; the client waits for a request.  *)
ServerTurn == /\ srv \in {"ask"} \X Waits \cup Ended \cup {<<"accept", "op">>, <<"start", "file">>}
              /\ cli = "read" /\ Quiet
              /\ srv = <<"start", "file">> => rest = file

(* A request and its answer. *)
Asked(s)    == /\ srv = <<"wait", s>>
               /\ \/ cli = "read" /\ down = <<Request[s]>> /\ up = <<>>
                  \/ cli = Request[s] /\ Quiet
                  \/ cli = "read" /\ down = <<>> /\ \E a \in Answers : Fits(a, s) /\ up = <<a>>

(* A file has been announced and is not open yet, or could not be opened.  *)
Announced   == /\ srv \in Ended \cup {<<"open", "file">>} /\ up = <<>>
               /\ srv = <<"open", "file">> => rest = file
               /\ \/ cli = "read" /\ down = <<"START_FILE_SENDING">>
                  \/ cli = "START_FILE_SENDING" /\ down = <<>>
                  \/ cli = "file" /\ down = <<>> /\ out = <<>>

(* What has been sent and what has not is the file and the mark.           *)
ToSend      == IF srv = Sending THEN rest \o EndMark ELSE <<>>
Flow(bytes) == bytes \in Seq(Byte) /\ bytes \o ToSend = file \o EndMark

OnTheWay    == /\ srv \in {Sending, AllSent} /\ up = <<>> /\ file \in File
               /\ \/ /\ cli = "read" /\ down # <<>> /\ Head(down) = "START_FILE_SENDING"
                     /\ Flow(Tail(down))
                  \/ cli = "START_FILE_SENDING" /\ Flow(down)
                  \/ /\ cli = "file" /\ out \in Seq(Byte) /\ down \in Seq(Byte)
                     /\ Flow(out \o down)

Arrived     == /\ srv = AllSent /\ down = <<>>
               /\ \/ cli = "quit" /\ up = <<>> /\ out = file
                  \/ cli = "read" /\ up = <<"go">>

InTouch == \/ ServerTurn \/ Announced \/ OnTheWay \/ Arrived
           \/ \E s \in Waits : Asked(s)

(* The client has taken the inside of the file for its end: when it reads  *)
(* again it finds bytes.                                                   *)
TooEarly == /\ HasMark(file) /\ cli \in {"read", "quit"}
            /\ IF down = <<>> THEN srv = Sending ELSE Head(down) \in Byte

OutOfTouch == cli \in {"astray", "leave", "left", "exited"}

ForkInv == ForkTypeOK /\ (InTouch \/ TooEarly \/ OutOfTouch)

-----------------------------------------------------------------------------
(* About sequences.                                                        *)
LEMMA Marks ==
  /\ EndMark \in Seq(Byte) /\ EndMark \in Seq(Token)
  /\ Len(EndMark) = 2 /\ EndMark[1] = "cr" /\ EndMark[2] = "lf"
BY DEF EndMark, Byte, Token

LEMMA Files == File \subseteq Seq(Byte)
<1> SUFFICES ASSUME NEW n \in 0 .. MaxFile, NEW f \in [1 .. n -> Byte] PROVE f \in Seq(Byte)
  BY DEF File
<1>1. n \in Nat
  BY SizeAssumption
<1> QED  BY <1>1, SeqDef

LEMMA Single ==
  ASSUME NEW x, NEW s, s = <<x>>
  PROVE  s # <<>> /\ Head(s) = x /\ Tail(s) = <<>>
OBVIOUS

LEMMA Regroup ==
  ASSUME NEW r \in Seq(Byte), NEW s \in Seq(Byte), NEW t \in Seq(Byte)
  PROVE  (r \o s) \o t = r \o (s \o t)
BY ConcatAssociative

LEMMA JoinHead ==
  ASSUME NEW S, NEW s \in Seq(S), NEW t \in Seq(S), s # <<>>
  PROVE  s \o t # <<>> /\ Head(s \o t) = Head(s) /\ Tail(s \o t) = Tail(s) \o t
<1>1. /\ Len(s) \in Nat \ {0} /\ Len(t) \in Nat
      /\ s \o t \in Seq(S) /\ Len(s \o t) = Len(s) + Len(t)
      /\ \A i \in 1 .. Len(s) + Len(t) : (s \o t)[i] = IF i <= Len(s) THEN s[i] ELSE t[i - Len(s)]
  BY EmptySeq, LenProperties, ConcatProperties
<1>2. s \o t # <<>>
  BY <1>1, EmptySeq
<1>3. Head(s \o t) = (s \o t)[1] /\ Head(s) = s[1]
  BY <1>1, <1>2
<1>4. (s \o t)[1] = s[1]
  BY <1>1
<1>5. /\ Tail(s) \in Seq(S) /\ Len(Tail(s)) = Len(s) - 1
      /\ \A i \in 1 .. Len(Tail(s)) : Tail(s)[i] = s[i + 1]
  BY HeadTailProperties
<1>6. /\ Tail(s \o t) \in Seq(S) /\ Len(Tail(s \o t)) = Len(s \o t) - 1
      /\ \A i \in 1 .. Len(Tail(s \o t)) : Tail(s \o t)[i] = (s \o t)[i + 1]
  BY <1>1, <1>2, HeadTailProperties
<1>7. /\ Tail(s) \o t \in Seq(S) /\ Len(Tail(s) \o t) = Len(Tail(s)) + Len(t)
      /\ \A i \in 1 .. Len(Tail(s)) + Len(t) :
           (Tail(s) \o t)[i] = IF i <= Len(Tail(s)) THEN Tail(s)[i] ELSE t[i - Len(Tail(s))]
  BY <1>5, ConcatProperties
<1>8. Tail(s \o t) = Tail(s) \o t
  <2> DEFINE a == Tail(s \o t)  b == Tail(s) \o t
  <2>1. Len(a) = Len(b) /\ Len(a) = Len(s) + Len(t) - 1
    BY <1>1, <1>5, <1>6, <1>7
  <2>2. ASSUME NEW i \in 1 .. Len(a) PROVE a[i] = b[i]
    <3>1. i \in Nat /\ i + 1 \in 1 .. Len(s) + Len(t) /\ i \in 1 .. Len(Tail(s)) + Len(t)
      BY <1>1, <1>5, <2>1
    <3>2. a[i] = IF i + 1 <= Len(s) THEN s[i + 1] ELSE t[(i + 1) - Len(s)]
      BY <3>1, <1>1, <1>6
    <3>3. CASE i + 1 <= Len(s)
      <4>1. i \in 1 .. Len(Tail(s)) /\ i <= Len(Tail(s))
        BY <3>1, <3>3, <1>1, <1>5
      <4> QED  BY <4>1, <3>1, <3>2, <3>3, <1>5, <1>7
    <3>4. CASE ~(i + 1 <= Len(s))
      <4>1. ~(i <= Len(Tail(s))) /\ (i + 1) - Len(s) = i - Len(Tail(s))
        BY <3>1, <3>4, <1>1, <1>5
      <4> QED  BY <4>1, <3>1, <3>2, <3>4, <1>7
    <3> QED  BY <3>3, <3>4
  <2>3. a \in Seq(S) /\ b \in Seq(S)
    BY <1>6, <1>7
  <2> HIDE DEF a, b
  <2>4. a = b
    BY <2>1, <2>2, <2>3, SeqEqual
  <2> QED  BY <2>4 DEF a, b
<1> QED  BY <1>2, <1>3, <1>4, <1>8

(* A sequence is taken apart.                                              *)
LEMMA Cut ==
  ASSUME NEW S, NEW s \in Seq(S), NEW n \in 0 .. Len(s)
  PROVE  /\ SubSeq(s, 1, n) \in Seq(S) /\ Len(SubSeq(s, 1, n)) = n
         /\ \A i \in 1 .. n : SubSeq(s, 1, n)[i] = s[i]
         /\ SubSeq(s, n + 1, Len(s)) \in Seq(S) /\ Len(SubSeq(s, n + 1, Len(s))) = Len(s) - n
         /\ \A i \in 1 .. Len(s) - n : SubSeq(s, n + 1, Len(s))[i] = s[n + i]
         /\ SubSeq(s, 1, n) \o SubSeq(s, n + 1, Len(s)) = s
<1>1. Len(s) \in Nat /\ n \in Nat
  BY LenProperties
<1>2. \A i \in 1 .. Len(s) : s[i] \in S
  BY ElementOfSeq
<1>3. /\ SubSeq(s, 1, n) \in Seq(S) /\ Len(SubSeq(s, 1, n)) = n
      /\ \A i \in 1 .. n : SubSeq(s, 1, n)[i] = s[i]
  BY <1>1, <1>2, SubSeqProperties
<1>4. /\ SubSeq(s, n + 1, Len(s)) \in Seq(S) /\ Len(SubSeq(s, n + 1, Len(s))) = Len(s) - n
      /\ \A i \in 1 .. Len(s) - n : SubSeq(s, n + 1, Len(s))[i] = s[n + i]
  BY <1>1, <1>2, SubSeqProperties
<1>5. SubSeq(s, 1, n) \o SubSeq(s, n + 1, Len(s)) = SubSeq(s, 1, Len(s))
  <2>1. 1 \in 1 .. Len(s) + 1 /\ n \in 1 - 1 .. Len(s) /\ Len(s) \in n .. Len(s)
    BY <1>1
  <2> QED  BY <2>1, ConcatAdjacentSubSeq
<1> QED  BY <1>3, <1>4, <1>5, SubSeqFull

(* What the client looks for at the end of each read.                      *)
LEMMA EndOfBuffer ==
  ASSUME NEW buf \in Seq(Byte)
  PROVE  IsEnd(buf) <=> Len(buf) >= 2 /\ buf[Len(buf) - 1] = "cr" /\ buf[Len(buf)] = "lf"
<1>1. Len(buf) \in Nat
  BY LenProperties
<1> DEFINE r == Reverse(EndMark)  b == Reverse(buf)
<1>2. r \in Seq(Byte) /\ Len(r) = 2 /\ r[1] = "lf" /\ r[2] = "cr"
  BY Marks DEF Reverse, Byte
<1>3. b \in Seq(Byte) /\ Len(b) = Len(buf) /\ \A i \in 1 .. Len(buf) : b[i] = buf[(Len(buf) - i) + 1]
  <2>1. \A i \in 1 .. Len(buf) : (Len(buf) - i) + 1 \in 1 .. Len(buf)
    BY <1>1
  <2>2. \A i \in 1 .. Len(buf) : buf[(Len(buf) - i) + 1] \in Byte
    BY <2>1, ElementOfSeq
  <2> QED  BY <1>1, <2>2 DEF Reverse
<1> HIDE DEF r, b
<1>4. IsEnd(buf) <=> Len(r) <= Len(b) /\ SubSeq(r, 1, Len(r)) = SubSeq(b, 1, Len(r))
  BY DEF IsEnd, IsSuffix, IsPrefix, r, b
<1>5. CASE Len(buf) >= 2
  <2>1. b[1] = buf[Len(buf)] /\ b[2] = buf[Len(buf) - 1]
    BY <1>1, <1>3, <1>5
  <2>2. SubSeq(r, 1, 2) = r
    BY <1>2, SubSeqFull
  <2>3. SubSeq(b, 1, 2) \in Seq(Byte) /\ Len(SubSeq(b, 1, 2)) = 2
        /\ SubSeq(b, 1, 2)[1] = b[1] /\ SubSeq(b, 1, 2)[2] = b[2]
    BY <1>1, <1>3, <1>5, Cut
  <2>4. r = SubSeq(b, 1, 2) <=> r[1] = b[1] /\ r[2] = b[2]
    <3>1. r[1] = b[1] /\ r[2] = b[2] => \A i \in 1 .. Len(r) : r[i] = SubSeq(b, 1, 2)[i]
      BY <1>2, <2>3
    <3> QED  BY <3>1, <1>2, <2>3, SeqEqual
  <2> QED  BY <1>1, <1>2, <1>3, <1>4, <1>5, <2>1, <2>2, <2>4
<1>6. CASE ~(Len(buf) >= 2)
  BY <1>1, <1>2, <1>3, <1>4, <1>6
<1> QED  BY <1>5, <1>6

(* What is at the end of the bytes got so far cannot be the mark before    *)
(* the end of the file, unless the file has it inside.                     *)
LEMMA EndFound ==
  ASSUME NEW f \in Seq(Byte), NEW got \in Seq(Byte), NEW left \in Seq(Byte),
         got \o left = f \o EndMark,
         Len(got) >= 2, got[Len(got) - 1] = "cr", got[Len(got)] = "lf"
  PROVE  \/ left = <<>> /\ SubSeq(got, 1, Len(got) - 2) = f
         \/ left # <<>> /\ HasMark(f)
<1>1. Len(f) \in Nat /\ Len(got) \in Nat /\ Len(left) \in Nat
  BY LenProperties
<1>2. /\ Len(f \o EndMark) = Len(f) + 2
      /\ \A i \in 1 .. Len(f) + 2 : (f \o EndMark)[i] = IF i <= Len(f) THEN f[i] ELSE EndMark[i - Len(f)]
  <2>1. /\ Len(f \o EndMark) = Len(f) + Len(EndMark)
        /\ \A i \in 1 .. Len(f) + Len(EndMark) :
             (f \o EndMark)[i] = IF i <= Len(f) THEN f[i] ELSE EndMark[i - Len(f)]
    <3>1. EndMark \in Seq(Byte)
      BY Marks
    <3> HIDE DEF EndMark
    <3> QED  BY <3>1, ConcatProperties
  <2> QED  BY <2>1, Marks
<1>3. /\ Len(got \o left) = Len(got) + Len(left)
      /\ \A i \in 1 .. Len(got) + Len(left) :
           (got \o left)[i] = IF i <= Len(got) THEN got[i] ELSE left[i - Len(got)]
  BY ConcatProperties
<1> DEFINE p == Len(got)
<1>4. p <= Len(f) + 2 /\ p - 1 \in 1 .. Len(f) + 2 /\ p \in 1 .. Len(f) + 2
  BY <1>1, <1>2, <1>3
<1>5. \A i \in 1 .. p : got[i] = (f \o EndMark)[i]
  BY <1>1, <1>3
<1>6. CASE p = Len(f) + 2
  <2>1. Len(left) = 0
    BY <1>1, <1>2, <1>3, <1>6
  <2>2. left = <<>>
    BY <2>1, EmptySeq
  <2>3. /\ SubSeq(got, 1, p - 2) \in Seq(Byte) /\ Len(SubSeq(got, 1, p - 2)) = Len(f)
        /\ \A i \in 1 .. p - 2 : SubSeq(got, 1, p - 2)[i] = got[i]
    <3>1. p - 2 \in 0 .. Len(got)
      BY <1>1
    <3> QED  BY <3>1, <1>1, <1>6, Cut
  <2>4. \A i \in 1 .. Len(f) : SubSeq(got, 1, p - 2)[i] = f[i]
    BY <1>1, <1>2, <1>5, <1>6, <2>3
  <2>5. SubSeq(got, 1, p - 2) = f
    BY <2>3, <2>4, SeqEqual
  <2> QED  BY <2>2, <2>5
<1>7. CASE p = Len(f) + 1
  <2>1. got[p] = EndMark[1]
    <3>1. (f \o EndMark)[p] = EndMark[p - Len(f)] /\ p - Len(f) = 1
      BY <1>1, <1>2, <1>4, <1>7
    <3> QED  BY <3>1, <1>1, <1>4, <1>5
  <2> QED  BY <2>1, Marks
<1>8. CASE p <= Len(f)
  <2>1. got[p - 1] = f[p - 1] /\ got[p] = f[p]
    BY <1>1, <1>2, <1>4, <1>5, <1>8
  <2> DEFINE two == SubSeq(f, p - 1, p)
  <2>2. two \in Seq(Byte) /\ Len(two) = 2 /\ two[1] = f[p - 1] /\ two[2] = f[p]
    <3>1. \A i \in p - 1 .. p : f[i] \in Byte
      BY <1>1, <1>4, <1>8, ElementOfSeq
    <3>2. /\ two \in Seq(Byte) /\ Len(two) = IF p - 1 <= p THEN p - (p - 1) + 1 ELSE 0
          /\ \A i \in 1 .. p - (p - 1) + 1 : two[i] = f[p - 1 + i - 1]
      BY <3>1, <1>1, SubSeqProperties
    <3> HIDE DEF two
    <3>3. p - (p - 1) + 1 = 2 /\ p - 1 <= p /\ p - 1 + 1 - 1 = p - 1 /\ p - 1 + 2 - 1 = p
      BY <1>1
    <3>4. two[1] = f[p - 1 + 1 - 1] /\ two[2] = f[p - 1 + 2 - 1]
      BY <3>2, <3>3
    <3> QED  BY <3>2, <3>3, <3>4
  <2> HIDE DEF two
  <2>3. \A i \in 1 .. Len(two) : two[i] = EndMark[i]
    <3>1. \A i \in 1 .. Len(two) : i = 1 \/ i = 2
      BY <2>2
    <3> QED  BY <2>1, <2>2, <3>1, Marks
  <2>4. two = EndMark
    BY <2>2, <2>3, Marks, SeqEqual
  <2>5. p - 1 \in 1 .. Len(f) - 1 /\ SubSeq(f, p - 1, (p - 1) + 1) = EndMark
    <3>1. (p - 1) + 1 = p /\ p - 1 \in 1 .. Len(f) - 1
      BY <1>1, <1>4, <1>8
    <3> QED  BY <3>1, <2>4 DEF two
  <2>6. left # <<>>
    BY <1>1, <1>2, <1>3, <1>8, EmptySeq
  <2> QED  BY <2>5, <2>6 DEF HasMark
<1> QED  BY <1>1, <1>4, <1>6, <1>7, <1>8

-----------------------------------------------------------------------------
(* Types.                                                                  *)
LEMMA WriteTypes ==
  ASSUME ForkTypeOK, NEW tokens \in Seq(Token), NEW next, Write(tokens, next)
  PROVE  down' \in Seq(Token) /\ srv' \in {next} \cup Ended
<1>1. <<"RST">> \in Seq(Token)
  BY DEF Token
<1>2. down \o tokens \in Seq(Token)
  BY ConcatProperties DEF ForkTypeOK
<1> QED  BY <1>1, <1>2 DEF Write, Ended

LEMMA ServerTypes ==
  ASSUME ForkTypeOK, Server
  PROVE  ForkTypeOK'
<1> USE DEF ForkTypeOK
<1>1. CASE Accept
  BY <1>1 DEF Accept, Places, Calculating, Waits, Ended, Sending, AllSent
<1>2. CASE StartFileSending
  <2>1. <<"START_FILE_SENDING">> \in Seq(Token)
    BY DEF Token, Requests
  <2>2. Write(<<"START_FILE_SENDING">>, <<"open", "file">>)
    BY <1>2 DEF StartFileSending
  <2>3. down' \in Seq(Token) /\ srv' \in {<<"open", "file">>} \cup Ended
    BY <2>1, <2>2, WriteTypes
  <2> QED  BY <1>2, <2>3 DEF StartFileSending, Places, Calculating, Ended, Sending
<1>3. CASE OpenFile
  BY <1>3, Files DEF OpenFile, Places, Calculating, Ended, Sending
<1>4. CASE SendPiece
  <2> DEFINE n == SmallerOf(BufSize, Len(rest))
  <2>1. srv = Sending /\ rest \in Seq(Byte)
    BY <1>4 DEF SendPiece, Sending
  <2>2. n \in 0 .. Len(rest)
    BY <2>1, SizeAssumption, LenProperties DEF SmallerOf
  <2>3. SubSeq(rest, 1, n) \in Seq(Byte) /\ SubSeq(rest, n + 1, Len(rest)) \in Seq(Byte)
    <3> HIDE DEF n
    <3> QED  BY <2>1, <2>2, Cut
  <2>4. Byte \subseteq Token
    BY DEF Token
  <2>5. SubSeq(rest, 1, n) \in Seq(Token)
    BY <2>3, <2>4, SeqMonotonic
  <2>6. down' \in Seq(Token) /\ srv' \in {srv} \cup Ended /\ rest' \in Seq(Byte)
    BY <1>4, <2>3, <2>5, WriteTypes DEF SendPiece
  <2> QED  BY <1>4, <2>1, <2>6 DEF SendPiece, Places, Calculating, Ended, Sending
<1>5. CASE SendEndMark
  <2>1. Write(EndMark, <<"wait", "quit">>)
    BY <1>5 DEF SendEndMark
  <2>2. down' \in Seq(Token) /\ srv' \in {AllSent} \cup Ended
    BY <2>1, Marks, WriteTypes DEF AllSent
  <2> QED  BY <1>5, <2>2 DEF SendEndMark, Places, Calculating, Ended, Sending, AllSent
<1>6. ASSUME NEW s \in Stages, Ask(s) PROVE ForkTypeOK'
  <2>1. s \in Waits \cup {"again"}
    BY <1>6 DEF Ask, Places, Waits, Sending, AllSent, Ended
  <2>2. <<Request[s]>> \in Seq(Token)
    BY <2>1 DEF Token, Requests, Request, Waits
  <2>3. Write(<<Request[s]>>, <<"wait", s>>)
    BY <1>6 DEF Ask
  <2>4. down' \in Seq(Token) /\ srv' \in {<<"wait", s>>} \cup Ended
    BY <2>2, <2>3, WriteTypes
  <2>5. task = 15 => s \in {"op", "lhs", "rhs", "result"}
    BY <1>6 DEF Ask, Calculating, Ended
  <2> QED  BY <1>6, <2>1, <2>4, <2>5 DEF Ask, Places, Calculating, Ended, Sending, AllSent, Waits
<1>7. ASSUME NEW s \in Stages, NEW a, srv = <<"wait", s>>, srv' = AfterAnswer(s, a)
      PROVE  srv' \in Places /\ srv' # Sending /\ (task = 15 => srv' \in Calculating)
  <2>1. CASE task = 15
    <3>1. s \in {"op", "lhs", "rhs", "result"}
      BY <1>7, <2>1 DEF Calculating, Ended
    <3>2. srv' = Next15(s, a)
      BY <1>7, <2>1 DEF AfterAnswer
    <3>3. srv' \in {<<"ask", "op">>, <<"ask", "lhs">>, <<"ask", "rhs">>, <<"ask", "result">>,
                    <<"ended", "refused">>}
      BY <3>1, <3>2 DEF Next15
    <3> QED  BY <3>3 DEF Places, Calculating, Ended, Sending, Waits
  <2>2. CASE task = 16
    <3>1. srv' = Next16(s, a)
      BY <1>7, <2>2 DEF AfterAnswer
    <3>2. srv' \in {<<"ask", "op">>, <<"ask", "lhs">>, <<"ask", "rhs">>, <<"ask", "result">>,
                    <<"ended", "refused">>, <<"ask", "name">>, <<"start", "file">>, <<"ask", "again">>}
      BY <3>1 DEF Next16, Next15, Stages
    <3> QED  BY <3>2, <2>2 DEF Places, Ended, Sending, Waits
  <2> QED  BY <2>1, <2>2
<1>8. ASSUME NEW s \in Stages, ReadAnswer(s) PROVE ForkTypeOK'
  <2>1. up' \in Seq(Answers)
    BY <1>8, HeadTailProperties DEF ReadAnswer
  <2> QED  BY <1>7, <1>8, <2>1 DEF ReadAnswer
<1>9. ASSUME NEW s \in Stages, EndOfStream(s) PROVE ForkTypeOK'
  <2>1. CASE srv' = AfterAnswer(s, "stop")
    BY <1>7, <1>9, <2>1 DEF EndOfStream
  <2>2. CASE srv' = <<"ended", "failed">>
    BY <1>9, <2>2 DEF EndOfStream, Places, Calculating, Ended, Sending
  <2> QED  BY <1>9, <2>1, <2>2 DEF EndOfStream
<1> QED  BY <1>1, <1>2, <1>3, <1>4, <1>5, <1>6, <1>8, <1>9 DEF Server

LEMMA ClientTypes ==
  ASSUME ForkTypeOK, Client \/ User \/ Astray \/ Killed
  PROVE  ForkTypeOK'
<1> USE DEF ForkTypeOK
<1>1. <<"RST">> \in Seq(Token) /\ <<>> \in Seq(Token)
  BY DEF Token
<1>2. ASSUME NEW how, Close(how) PROVE down' \in Seq(Token)
  BY <1>1, <1>2 DEF Close
<1>3. ASSUME NEW a \in Answers, NEW next, Send(a, next) PROVE up' \in Seq(Answers)
  BY <1>3, AppendProperties DEF Send
<1>4. ASSUME NEW n \in 0 .. Len(down) PROVE SubSeq(down, n + 1, Len(down)) \in Seq(Token)
  BY <1>4, Cut
<1>5. ASSUME NEW n \in 1 .. Len(down) PROVE SubSeq(down, n + 1, Len(down)) \in Seq(Token)
  <2>1. n \in 0 .. Len(down)
    BY LenProperties
  <2> QED  BY <2>1, <1>4
<1>6. CASE ReadRequest
  <2>1. down # <<>> => Tail(down) \in Seq(Token)
    BY HeadTailProperties
  <2>2. down' \in Seq(Token)
    BY <1>5, <1>6, <2>1 DEF ReadRequest
  <2> QED  BY <1>6, <2>2 DEF ReadRequest
<1>7. CASE ReceiveFile
  <2>1. PICK n \in 1 .. SmallerOf(BufSize, Len(down)) : down' = SubSeq(down, n + 1, Len(down))
    BY <1>7 DEF ReceiveFile
  <2>2. n \in 1 .. Len(down)
    BY SizeAssumption, LenProperties DEF SmallerOf
  <2> QED  BY <1>5, <1>7, <2>1, <2>2 DEF ReceiveFile
<1>8. CASE Leave \/ Killed
  BY <1>2, <1>8 DEF Leave, Killed
<1>9. CASE AnswerOp
  <2>1. up' \in Seq(Answers)
    BY <1>3, <1>9 DEF AnswerOp, Answers
  <2>2. down' \in Seq(Token)
    BY <1>2, <1>9 DEF AnswerOp
  <2> QED  BY <1>9, <2>1, <2>2 DEF AnswerOp
<1>10. CASE AnswerArg
  <2>1. up' \in Seq(Answers)
    BY <1>3, <1>10 DEF AnswerArg, Answers
  <2> QED  BY <1>10, <2>1 DEF AnswerArg
<1>11. CASE AnswerFilename
  <2>1. up' \in Seq(Answers)
    BY <1>3, <1>11 DEF AnswerFilename, Answers
  <2> QED  BY <1>11, <2>1 DEF AnswerFilename
<1>12. CASE AnswerStop
  <2>1. up' \in Seq(Answers)
    BY <1>3, <1>12 DEF AnswerStop, Answers
  <2> QED  BY <1>12, <2>1 DEF AnswerStop
<1>13. CASE OpenOut
  BY <1>2, <1>13 DEF OpenOut
<1>14. CASE Astray
  <2>1. CASE Close("exited") /\ UNCHANGED up
    BY <1>2, <1>14, <2>1 DEF Astray
  <2>2. CASE /\ \E n \in 1 .. Len(down) : down' = SubSeq(down, n + 1, Len(down))
             /\ \E a \in Answers : Send(a, "astray") \/ Send(a, "leave")
    <3>1. down' \in Seq(Token) /\ up' \in Seq(Answers)
      BY <1>3, <1>5, <2>2
    <3> QED  BY <1>14, <3>1 DEF Astray
  <2> QED  BY <1>14, <2>1, <2>2 DEF Astray
<1> QED  BY <1>6, <1>7, <1>8, <1>9, <1>10, <1>11, <1>12, <1>13, <1>14 DEF Client, User

-----------------------------------------------------------------------------
(* The steps of the server, by the situation of the conversation.          *)
Together == InTouch \/ TooEarly \/ OutOfTouch

LEMMA WriteArrives ==
  ASSUME cli \notin {"left", "exited"}, NEW tokens, NEW next, Write(tokens, next)
  PROVE  srv' = next /\ down' = down \o tokens
BY DEF Write, Gone, Reset

LEMMA WriteFirst ==
  ASSUME cli \notin {"left", "exited"}, down = <<>>,
         NEW tokens \in Seq(Token), NEW next, Write(tokens, next)
  PROVE  srv' = next /\ down' = tokens
BY WriteArrives, ConcatEmptySeq

LEMMA InServerTurn ==
  ASSUME ForkTypeOK, ServerTurn, Server
  PROVE  InTouch'
<1> USE DEF ServerTurn, Quiet
<1>1. CASE Accept
  <2>1. ServerTurn'
    BY <1>1 DEF Accept, Waits, Ended
  <2> QED  BY <2>1 DEF InTouch
<1>2. CASE StartFileSending
  <2>1. <<"START_FILE_SENDING">> \in Seq(Token)
    BY DEF Token, Requests
  <2>2. srv' = <<"open", "file">> /\ down' = <<"START_FILE_SENDING">>
    BY <1>2, <2>1, WriteFirst DEF StartFileSending
  <2>3. Announced'
    BY <1>2, <2>2 DEF StartFileSending, Announced
  <2> QED  BY <2>3 DEF InTouch
<1>3. ASSUME NEW s \in Stages, Ask(s) PROVE InTouch'
  <2>1. s \in Waits
    BY <1>3 DEF Ask, Ended, Waits
  <2>2. <<Request[s]>> \in Seq(Token)
    BY <2>1 DEF Token, Requests, Request, Waits
  <2>3. srv' = <<"wait", s>> /\ down' = <<Request[s]>>
    BY <1>3, <2>2, WriteFirst DEF Ask
  <2>4. Asked(s)'
    BY <1>3, <2>3 DEF Ask, Asked
  <2> QED  BY <2>1, <2>4 DEF InTouch
<1>4. ~OpenFile /\ ~SendPiece /\ ~SendEndMark /\ \A s \in Stages : ~ReadAnswer(s) /\ ~EndOfStream(s)
  BY DEF OpenFile, SendPiece, SendEndMark, ReadAnswer, EndOfStream, Ended
<1> QED  BY <1>1, <1>2, <1>3, <1>4 DEF Server

LEMMA InAsked ==
  ASSUME ForkTypeOK, NEW s \in Waits, Asked(s), Server
  PROVE  InTouch'
<1>1. srv = <<"wait", s>> /\ cli \notin {"left", "exited"}
  BY DEF Asked, Request, Waits
<1>2. /\ ~Accept /\ ~StartFileSending /\ ~OpenFile /\ ~SendPiece /\ ~SendEndMark
      /\ \A z \in Stages : ~Ask(z) /\ ~EndOfStream(z) /\ (ReadAnswer(z) => z = s)
  BY <1>1 DEF Accept, StartFileSending, OpenFile, SendPiece, SendEndMark, Ask, EndOfStream,
              ReadAnswer, Gone
<1>3. ReadAnswer(s)
  BY <1>2 DEF Server
<1>4. PICK a \in Answers : cli = "read" /\ down = <<>> /\ up = <<a>> /\ Fits(a, s)
  BY <1>3 DEF Asked, ReadAnswer, Quiet
<1>5. Head(up) = a /\ Tail(up) = <<>>
  BY <1>4
<1>6. /\ srv' = AfterAnswer(s, a) /\ up' = <<>> /\ down' = <<>> /\ cli' = "read"
      /\ s = "name" /\ a = "name" => rest' = file /\ file' = file
  BY <1>3, <1>4, <1>5 DEF ReadAnswer
<1>7. s = "name" => task = 16
  BY <1>1 DEF ForkTypeOK, Calculating, Ended
<1>8. task \in {15, 16}
  BY DEF ForkTypeOK
<1>9. ServerTurn'
  <2>1. CASE s = "op"
    BY <1>6, <1>8, <2>1 DEF AfterAnswer, Next15, Next16, ServerTurn, Quiet, Waits
  <2>2. CASE s = "lhs"
    BY <1>6, <1>8, <2>2 DEF AfterAnswer, Next15, Next16, ServerTurn, Quiet, Waits
  <2>3. CASE s = "rhs"
    BY <1>6, <1>8, <2>3 DEF AfterAnswer, Next15, Next16, ServerTurn, Quiet, Waits
  <2>4. CASE s = "result"
    <3>1. a = "go"
      BY <1>4, <2>4 DEF Fits
    <3> QED  BY <1>6, <1>8, <2>4, <3>1 DEF AfterAnswer, Next15, Next16, ServerTurn, Quiet, Waits
  <2>5. CASE s = "name"
    <3>1. a = "name"
      BY <1>4, <2>5 DEF Fits
    <3> QED  BY <1>6, <1>7, <2>5, <3>1 DEF AfterAnswer, Next16, ServerTurn, Quiet, Waits
  <2> QED  BY <2>1, <2>2, <2>3, <2>4, <2>5 DEF Waits
<1> QED  BY <1>9 DEF InTouch

LEMMA InArrived ==
  ASSUME ForkTypeOK, Arrived, Server
  PROVE  InTouch'
<1>1. /\ ~Accept /\ ~StartFileSending /\ ~OpenFile /\ ~SendPiece /\ ~SendEndMark
      /\ \A z \in Stages : ~Ask(z) /\ ~EndOfStream(z) /\ (ReadAnswer(z) => z = "quit")
  BY DEF Arrived, AllSent, Accept, StartFileSending, OpenFile, SendPiece, SendEndMark, Ask,
         EndOfStream, ReadAnswer, Gone
<1>2. ReadAnswer("quit")
  BY <1>1 DEF Server
<1>3. cli = "read" /\ down = <<>> /\ up = <<"go">>
  BY <1>2 DEF Arrived, ReadAnswer
<1>4. Head(up) = "go" /\ Tail(up) = <<>>
  BY <1>3
<1>5. task = 16
  BY DEF ForkTypeOK, Arrived, AllSent, Calculating, Ended
<1>6. srv' = <<"ask", "op">> /\ up' = <<>> /\ down' = <<>> /\ cli' = "read"
  BY <1>2, <1>3, <1>4, <1>5 DEF ReadAnswer, AfterAnswer, Next16
<1>7. ServerTurn'
  BY <1>6 DEF ServerTurn, Quiet, Waits
<1> QED  BY <1>7 DEF InTouch

LEMMA InAnnounced ==
  ASSUME ForkTypeOK, Announced, Server
  PROVE  InTouch'
<1> USE DEF Announced
<1>1. /\ ~Accept /\ ~StartFileSending /\ ~SendPiece /\ ~SendEndMark
      /\ \A z \in Stages : ~Ask(z) /\ ~EndOfStream(z) /\ ~ReadAnswer(z)
  BY DEF Accept, StartFileSending, SendPiece, SendEndMark, Ask, EndOfStream, ReadAnswer, Ended
<1>2. OpenFile
  BY <1>1 DEF Server
<1>3. CASE rest \notin File
  <2>1. Announced'
    BY <1>2, <1>3 DEF OpenFile, Ended
  <2> QED  BY <2>1 DEF InTouch
<1>4. CASE rest \in File
  <2>1. /\ srv' = Sending /\ rest = file /\ rest' = rest /\ file' = file /\ file \in Seq(Byte)
        /\ cli' = cli /\ down' = down /\ up' = <<>> /\ out' = out
    BY <1>2, <1>4, Files DEF OpenFile, Sending
  <2>2. ToSend' = file' \o EndMark
    BY <2>1 DEF ToSend
  <2>3. <<>> \in Seq(Byte) /\ <<>> \o ToSend' = file' \o EndMark
    BY <2>1, <2>2, Marks, ConcatProperties, ConcatEmptySeq
  <2>4. cli = "read" => down' # <<>> /\ Head(down') = "START_FILE_SENDING" /\ Tail(down') = <<>>
    <3>1. cli = "read" => down' = <<"START_FILE_SENDING">>
      BY <2>1
    <3> QED  BY <3>1, Single
  <2>5. cli = "file" => out' = <<>> /\ down' = <<>> /\ out' \o down' = <<>>
    BY <2>1, <2>3, ConcatEmptySeq
  <2>6. OnTheWay'
    BY <1>4, <2>1, <2>3, <2>4, <2>5 DEF OnTheWay, Flow
  <2> QED  BY <2>6 DEF InTouch
<1> QED  BY <1>3, <1>4

(* What is written moves from the one side of the equation to the other.   *)
LEMMA FlowOn ==
  ASSUME NEW bytes, Flow(bytes), NEW piece \in Seq(Byte), NEW later \in Seq(Byte),
         file' = file, ToSend' = later, ToSend = piece \o later
  PROVE  bytes \o piece \in Seq(Byte) /\ (bytes \o piece) \o ToSend' = file' \o EndMark
<1>1. bytes \in Seq(Byte) /\ bytes \o ToSend = file \o EndMark
  BY DEF Flow
<1>2. (bytes \o piece) \o later = bytes \o (piece \o later)
  BY <1>1, Regroup
<1> QED  BY <1>1, <1>2, ConcatProperties

LEMMA InOnTheWay ==
  ASSUME ForkTypeOK, OnTheWay, Server
  PROVE  InTouch'
<1>1. cli \notin {"left", "exited"} /\ srv \in {Sending, AllSent} /\ up = <<>>
  BY DEF OnTheWay
<1>2. /\ ~Accept /\ ~StartFileSending /\ ~OpenFile
      /\ \A z \in Stages : ~Ask(z) /\ ~EndOfStream(z) /\ ~ReadAnswer(z)
  BY <1>1 DEF Accept, StartFileSending, OpenFile, Ask, EndOfStream, ReadAnswer, Gone, Sending, AllSent
<1>3. ASSUME NEW piece \in Seq(Byte), NEW later \in Seq(Byte),
             down' = down \o piece, file' = file, cli' = cli, out' = out, up' = up,
             ToSend' = later, ToSend = piece \o later, srv' \in {Sending, AllSent}
      PROVE  OnTheWay'
  <2>1. CASE cli = "read"
    <3>1. down # <<>> /\ Head(down) = "START_FILE_SENDING" /\ Flow(Tail(down))
      BY <2>1 DEF OnTheWay
    <3>2. piece \in Seq(Token) /\ down \in Seq(Token)
      <4>1. Byte \subseteq Token
        BY DEF Token
      <4> QED  BY <4>1, SeqMonotonic DEF ForkTypeOK
    <3>3. /\ down' # <<>> /\ Head(down') = "START_FILE_SENDING"
          /\ Tail(down') = Tail(down) \o piece
      BY <1>3, <3>1, <3>2, JoinHead
    <3>4. Tail(down') \in Seq(Byte) /\ Tail(down') \o ToSend' = file' \o EndMark
      BY <1>3, <3>1, <3>3, FlowOn
    <3> QED  BY <1>3, <2>1, <3>3, <3>4 DEF OnTheWay, Flow
  <2>2. CASE cli = "START_FILE_SENDING"
    <3>1. Flow(down)
      BY <2>2 DEF OnTheWay
    <3>2. down' \in Seq(Byte) /\ down' \o ToSend' = file' \o EndMark
      BY <1>3, <3>1, FlowOn
    <3> QED  BY <1>3, <2>2, <3>2 DEF OnTheWay, Flow
  <2>3. CASE cli = "file"
    <3>1. out \in Seq(Byte) /\ down \in Seq(Byte) /\ Flow(out \o down)
      BY <2>3 DEF OnTheWay
    <3>2. out \o (down \o piece) = (out \o down) \o piece
      BY <3>1, Regroup
    <3>3. out' \o down' \in Seq(Byte) /\ (out' \o down') \o ToSend' = file' \o EndMark
      <4>1. /\ (out \o down) \o piece \in Seq(Byte)
            /\ ((out \o down) \o piece) \o ToSend' = file' \o EndMark
        BY <1>3, <3>1, FlowOn
      <4>2. out' \o down' = (out \o down) \o piece
        BY <1>3, <3>2
      <4> QED  BY <4>1, <4>2
    <3>4. down' \in Seq(Byte)
      BY <1>3, <3>1, ConcatProperties
    <3> QED  BY <1>3, <2>3, <3>1, <3>3, <3>4 DEF OnTheWay, Flow
  <2> QED  BY <2>1, <2>2, <2>3 DEF OnTheWay
<1>4. CASE SendPiece
  <2> DEFINE n == SmallerOf(BufSize, Len(rest))
             piece == SubSeq(rest, 1, n)  left == SubSeq(rest, n + 1, Len(rest))
  <2>1. srv = Sending /\ rest \in Seq(Byte)
    BY <1>4 DEF SendPiece, Sending, ForkTypeOK
  <2>2. n \in 0 .. Len(rest)
    BY <2>1, SizeAssumption, LenProperties DEF SmallerOf
  <2>3. piece \in Seq(Byte) /\ left \in Seq(Byte) /\ piece \o left = rest
    <3> HIDE DEF n
    <3> QED  BY <2>1, <2>2, Cut
  <2>4. srv' = Sending /\ down' = down \o piece /\ rest' = left
    BY <1>1, <1>4, <2>1, WriteArrives DEF SendPiece
  <2> HIDE DEF piece, left, n
  <2>5. ToSend' = left \o EndMark /\ ToSend = piece \o (left \o EndMark) /\ left \o EndMark \in Seq(Byte)
    <3>1. EndMark \in Seq(Byte)
      BY Marks
    <3>2. ToSend' = left \o EndMark /\ ToSend = rest \o EndMark
      BY <2>1, <2>4 DEF ToSend
    <3> HIDE DEF EndMark
    <3>3. (piece \o left) \o EndMark = piece \o (left \o EndMark)
      BY <2>3, <3>1, Regroup
    <3>4. left \o EndMark \in Seq(Byte)
      BY <2>3, <3>1, ConcatProperties
    <3> QED  BY <2>3, <3>2, <3>3, <3>4
  <2>6. file' = file /\ cli' = cli /\ out' = out /\ up' = up
    BY <1>4 DEF SendPiece
  <2>7. OnTheWay'
    BY <1>3, <2>3, <2>4, <2>5, <2>6
  <2> QED  BY <2>7 DEF InTouch
<1>5. CASE SendEndMark
  <2>1. srv = Sending /\ rest = <<>>
    BY <1>5 DEF SendEndMark, Sending
  <2>2. srv' = AllSent /\ down' = down \o EndMark
    BY <1>1, <1>5, WriteArrives DEF SendEndMark, AllSent
  <2>3. ToSend' = <<>> /\ ToSend = EndMark \o <<>> /\ <<>> \in Seq(Byte)
    BY <2>1, <2>2, Marks, ConcatEmptySeq DEF ToSend, Sending, AllSent
  <2>4. file' = file /\ cli' = cli /\ out' = out /\ up' = up
    BY <1>5 DEF SendEndMark
  <2>5. OnTheWay'
    BY <1>3, <2>2, <2>3, <2>4, Marks
  <2> QED  BY <2>5 DEF InTouch
<1> QED  BY <1>2, <1>4, <1>5 DEF Server

LEMMA ServerElsewhere ==
  ASSUME Server
  PROVE  UNCHANGED <<cli, file, out>>
BY DEF Server, Accept, StartFileSending, OpenFile, SendPiece, SendEndMark, Ask, ReadAnswer, EndOfStream

(* Bytes that the client has not read stay before all that comes later.    *)
LEMMA InTooEarly ==
  ASSUME ForkTypeOK, TooEarly, Server
  PROVE  TooEarly'
<1>1. /\ cli \in {"read", "quit"} /\ HasMark(file) /\ down \in Seq(Token)
      /\ UNCHANGED <<cli, file>> /\ cli \notin {"left", "exited"}
  BY ServerElsewhere DEF TooEarly, ForkTypeOK
<1>2. HasMark(file)'
  BY <1>1 DEF HasMark
<1>3. ASSUME NEW tokens \in Seq(Token), NEW next, Write(tokens, next), tokens # <<>>,
             down = <<>> => Head(tokens) \in Byte
      PROVE  down' # <<>> /\ Head(down') \in Byte
  <2>1. down' = down \o tokens
    BY <1>1, <1>3, WriteArrives
  <2>2. CASE down = <<>>
    <3>1. down' = tokens
      BY <1>1, <1>3, <2>2, WriteFirst
    <3> QED  BY <1>3, <2>2, <3>1
  <2>3. CASE down # <<>>
    <3>1. Head(down) \in Byte
      BY <2>3 DEF TooEarly
    <3> QED  BY <1>1, <2>1, <2>3, <3>1, JoinHead
  <2> QED  BY <2>2, <2>3
<1>4. down = <<>> => srv = Sending
  BY DEF TooEarly
<1>5. CASE SendPiece
  <2> DEFINE n == SmallerOf(BufSize, Len(rest))  piece == SubSeq(rest, 1, n)
  <2>1. srv = Sending /\ rest \in Seq(Byte) /\ rest # <<>>
    BY <1>5 DEF SendPiece, Sending, ForkTypeOK
  <2>2. n \in 1 .. Len(rest) /\ n \in 0 .. Len(rest)
    BY <2>1, EmptySeq, SizeAssumption, LenProperties DEF SmallerOf
  <2>3. piece \in Seq(Byte) /\ Len(piece) = n
    <3> HIDE DEF n
    <3> QED  BY <2>1, <2>2, Cut
  <2>4. Write(piece, srv)
    BY <1>5 DEF SendPiece
  <2> HIDE DEF piece
  <2>5. piece # <<>>
    BY <2>2, <2>3, EmptySeq
  <2>6. Head(piece) \in Byte /\ piece \in Seq(Token)
    <3>1. Byte \subseteq Token
      BY DEF Token
    <3> QED  BY <2>3, <2>5, <3>1, SeqMonotonic, HeadTailProperties
  <2>7. down' # <<>> /\ Head(down') \in Byte
    BY <1>3, <2>4, <2>5, <2>6
  <2> QED  BY <1>1, <1>2, <2>7 DEF TooEarly
<1>6. CASE SendEndMark
  <2>1. Write(EndMark, <<"wait", "quit">>)
    BY <1>6 DEF SendEndMark
  <2>2. EndMark # <<>> /\ Head(EndMark) \in Byte /\ EndMark \in Seq(Token)
    BY Marks DEF EndMark, Byte
  <2>3. down' # <<>> /\ Head(down') \in Byte
    BY <1>3, <2>1, <2>2
  <2> QED  BY <1>1, <1>2, <2>3 DEF TooEarly
<1>7. CASE StartFileSending
  <2>1. Write(<<"START_FILE_SENDING">>, <<"open", "file">>) /\ down # <<>>
    BY <1>4, <1>7 DEF StartFileSending, Sending
  <2>2. <<"START_FILE_SENDING">> \in Seq(Token) /\ <<"START_FILE_SENDING">> # <<>>
    BY DEF Token, Requests
  <2>3. down' # <<>> /\ Head(down') \in Byte
    BY <1>3, <2>1, <2>2
  <2> QED  BY <1>1, <1>2, <2>3 DEF TooEarly
<1>8. ASSUME NEW s \in Stages, Ask(s) PROVE TooEarly'
  <2>1. s \in Waits \cup {"again"}
    BY <1>8 DEF Ask, ForkTypeOK, Places, Waits, Sending, AllSent, Ended
  <2>2. <<Request[s]>> \in Seq(Token) /\ <<Request[s]>> # <<>>
    BY <2>1 DEF Token, Requests, Request, Waits
  <2>3. Write(<<Request[s]>>, <<"wait", s>>) /\ down # <<>>
    BY <1>4, <1>8 DEF Ask, Sending
  <2>4. down' # <<>> /\ Head(down') \in Byte
    BY <1>3, <2>2, <2>3
  <2> QED  BY <1>1, <1>2, <2>4 DEF TooEarly
<1>9. ASSUME down # <<>>, down' = down PROVE TooEarly'
  BY <1>1, <1>2, <1>9 DEF TooEarly
<1>10. CASE Accept \/ OpenFile \/ \E s \in Stages : ReadAnswer(s) \/ EndOfStream(s)
  <2>1. down' = down /\ down # <<>>
    BY <1>4, <1>10 DEF Accept, OpenFile, ReadAnswer, EndOfStream, Sending
  <2> QED  BY <1>9, <2>1
<1> QED  BY <1>5, <1>6, <1>7, <1>8, <1>10 DEF Server

LEMMA ServerStep ==
  ASSUME ForkInv, Server
  PROVE  Together'
<1>1. ForkTypeOK /\ (InTouch \/ TooEarly \/ OutOfTouch)
  BY DEF ForkInv
<1>2. CASE InTouch
  BY <1>1, <1>2, InServerTurn, InAsked, InArrived, InAnnounced, InOnTheWay DEF InTouch, Together
<1>3. CASE TooEarly
  BY <1>1, <1>3, InTooEarly DEF Together
<1>4. CASE OutOfTouch
  BY <1>4, ServerElsewhere DEF OutOfTouch, Together
<1> QED  BY <1>1, <1>2, <1>3, <1>4

-----------------------------------------------------------------------------
(* The steps of the client and of its user.                                *)
LEMMA Receiving ==
  ASSUME ForkTypeOK, OnTheWay, ReceiveFile
  PROVE  Together'
<1>1. /\ cli = "file" /\ down # <<>> /\ out \in Seq(Byte) /\ down \in Seq(Byte)
      /\ Flow(out \o down) /\ srv \in {Sending, AllSent} /\ up = <<>> /\ file \in Seq(Byte)
      /\ UNCHANGED <<srv, rest, file, up>>
  BY Files DEF OnTheWay, ReceiveFile
<1>2. PICK n \in 1 .. SmallerOf(BufSize, Len(down)) :
           LET buf == SubSeq(down, 1, n)
           IN  /\ down' = SubSeq(down, n + 1, Len(down))
               /\ IF IsEnd(buf)
                  THEN cli' = "quit" /\ out' = out \o SubSeq(buf, 1, n - 2)
                  ELSE UNCHANGED cli /\ out' = out \o buf
  BY DEF ReceiveFile
<1>3. n \in 0 .. Len(down) /\ n \in Nat
  BY <1>1, SizeAssumption, LenProperties DEF SmallerOf
<1> DEFINE buf == SubSeq(down, 1, n)  left == SubSeq(down, n + 1, Len(down))  got == out \o buf
<1>4. buf \in Seq(Byte) /\ Len(buf) = n /\ left \in Seq(Byte) /\ buf \o left = down
  BY <1>1, <1>3, Cut
<1> HIDE DEF buf, left
<1>5. down' = left
  BY <1>2 DEF left
<1>6. got \in Seq(Byte) /\ got \o left = out \o down
  BY <1>1, <1>4, Regroup, ConcatProperties
<1>7. ToSend' = ToSend /\ ToSend \in Seq(Byte)
  <2>1. rest \in Seq(Byte) => rest \o EndMark \in Seq(Byte)
    BY Marks, ConcatProperties
  <2>2. <<>> \in Seq(Byte)
    BY EmptySeq
  <2> QED  BY <1>1, <2>1, <2>2 DEF ToSend, ForkTypeOK
<1>8. CASE ~IsEnd(buf)
  <2>1. cli' = "file" /\ out' = got
    BY <1>1, <1>2, <1>8 DEF buf
  <2> HIDE DEF got
  <2>2. Flow(out \o down)'
    BY <1>1, <1>5, <1>6, <1>7, <2>1 DEF Flow
  <2>3. OnTheWay'
    BY <1>1, <1>4, <1>5, <1>6, <2>1, <2>2 DEF OnTheWay
  <2> QED  BY <2>3 DEF Together, InTouch
<1>9. CASE IsEnd(buf)
  <2>1. Len(buf) >= 2 /\ buf[Len(buf) - 1] = "cr" /\ buf[Len(buf)] = "lf"
    BY <1>4, <1>9, EndOfBuffer
  <2>2. cli' = "quit" /\ out' = out \o SubSeq(buf, 1, n - 2)
    BY <1>2, <1>9 DEF buf
  <2>3. /\ Len(out) \in Nat /\ Len(buf) \in Nat /\ Len(got) = Len(out) + Len(buf)
        /\ \A i \in 1 .. Len(out) + Len(buf) : got[i] = IF i <= Len(out) THEN out[i] ELSE buf[i - Len(out)]
    BY <1>1, <1>4, LenProperties, ConcatProperties
  <2>4. out \o SubSeq(buf, 1, n - 2) = SubSeq(got, 1, Len(got) - 2)
    <3> DEFINE b == SubSeq(buf, 1, n - 2)  l == out \o b  r == SubSeq(got, 1, Len(got) - 2)
    <3>1. n - 2 \in 0 .. Len(buf) /\ Len(got) - 2 \in 0 .. Len(got) /\ n = Len(buf)
      BY <1>3, <1>4, <2>1, <2>3
    <3>2. b \in Seq(Byte) /\ Len(b) = n - 2 /\ \A i \in 1 .. n - 2 : b[i] = buf[i]
      BY <1>4, <3>1, Cut
    <3>3. r \in Seq(Byte) /\ Len(r) = Len(got) - 2 /\ \A i \in 1 .. Len(got) - 2 : r[i] = got[i]
      <4> HIDE DEF got
      <4> QED  BY <1>6, <3>1, Cut
    <3> HIDE DEF b, got
    <3>4. /\ l \in Seq(Byte) /\ Len(l) = Len(out) + Len(b)
          /\ \A i \in 1 .. Len(out) + Len(b) : l[i] = IF i <= Len(out) THEN out[i] ELSE b[i - Len(out)]
      BY <1>1, <3>2, ConcatProperties
    <3> HIDE DEF l, r
    <3>5. Len(l) = Len(r)
      BY <2>1, <2>3, <3>1, <3>2, <3>3, <3>4
    <3>6. ASSUME NEW i \in 1 .. Len(l) PROVE l[i] = r[i]
      <4>1. i \in Nat /\ i \in 1 .. Len(out) + Len(b) /\ i \in 1 .. Len(got) - 2
            /\ i \in 1 .. Len(out) + Len(buf)
        BY <2>1, <2>3, <3>1, <3>2, <3>3, <3>4, <3>5
      <4>2. CASE i <= Len(out)
        BY <4>1, <4>2, <2>3, <3>3, <3>4
      <4>3. CASE ~(i <= Len(out))
        <5>1. i - Len(out) \in 1 .. n - 2
          BY <4>1, <4>3, <2>3, <3>1, <3>2
        <5> QED  BY <4>1, <4>3, <5>1, <2>3, <3>2, <3>3, <3>4
      <4> QED  BY <4>2, <4>3
    <3>7. l = r
      BY <3>3, <3>4, <3>5, <3>6, SeqEqual
    <3> QED  BY <3>7 DEF l, r, b
  <2>5. Len(got) >= 2 /\ got[Len(got) - 1] = "cr" /\ got[Len(got)] = "lf"
    <3>1. /\ Len(got) \in 1 .. Len(out) + Len(buf) /\ Len(got) - 1 \in 1 .. Len(out) + Len(buf)
          /\ ~(Len(got) <= Len(out)) /\ ~(Len(got) - 1 <= Len(out))
          /\ Len(got) - Len(out) = Len(buf) /\ (Len(got) - 1) - Len(out) = Len(buf) - 1
          /\ Len(got) >= 2
      BY <2>1, <2>3
    <3>2. got[Len(got)] = buf[Len(got) - Len(out)] /\ got[Len(got) - 1] = buf[(Len(got) - 1) - Len(out)]
      BY <2>3, <3>1
    <3> QED  BY <2>1, <3>1, <3>2
  <2> HIDE DEF got
  <2>6. got \o (left \o ToSend) = file \o EndMark /\ left \o ToSend \in Seq(Byte)
    <3>1. (got \o left) \o ToSend = file \o EndMark
      BY <1>1, <1>6 DEF Flow
    <3> QED  BY <1>4, <1>6, <1>7, <3>1, Regroup, ConcatProperties
  <2>7. \/ left \o ToSend = <<>> /\ SubSeq(got, 1, Len(got) - 2) = file
        \/ left \o ToSend # <<>> /\ HasMark(file)
    BY <1>1, <1>6, <2>5, <2>6, EndFound
  <2>8. CASE left \o ToSend = <<>>
    <3>1. left = <<>> /\ ToSend = <<>>
      BY <1>4, <1>7, <2>8, ConcatEqualIffEmpty
    <3>2. srv = AllSent
      <4>1. srv = Sending => ToSend = rest \o EndMark /\ rest \in Seq(Byte)
        BY DEF ToSend, ForkTypeOK
      <4>2. rest \in Seq(Byte) => rest \o EndMark # <<>>
        <5>1. EndMark \in Seq(Byte)
          BY Marks
        <5>2. EndMark # <<>>
          BY DEF EndMark
        <5> HIDE DEF EndMark
        <5> QED  BY <5>1, <5>2, ConcatEqualIffEmpty
      <4> QED  BY <1>1, <3>1, <4>1, <4>2
    <3>3. out' = file
      BY <2>2, <2>4, <2>7, <2>8
    <3>4. Arrived'
      BY <1>1, <1>5, <2>2, <3>1, <3>2, <3>3 DEF Arrived
    <3> QED  BY <3>4 DEF Together, InTouch
  <2>9. CASE left \o ToSend # <<>>
    <3>1. HasMark(file)'
      BY <1>1, <2>7, <2>9 DEF HasMark
    <3>2. CASE left = <<>>
      <4>1. ToSend # <<>>
        BY <1>7, <2>9, <3>2, ConcatEmptySeq
      <4>2. srv' = Sending
        BY <1>1, <4>1 DEF ToSend
      <4>3. TooEarly'
        BY <1>5, <2>2, <3>1, <3>2, <4>2 DEF TooEarly
      <4> QED  BY <4>3 DEF Together
    <3>3. CASE left # <<>>
      <4>1. Head(left) \in Byte
        BY <1>4, <3>3, HeadTailProperties
      <4>2. TooEarly'
        BY <1>5, <2>2, <3>1, <3>3, <4>1 DEF TooEarly
      <4> QED  BY <4>2 DEF Together
    <3> QED  BY <3>2, <3>3
  <2> QED  BY <2>8, <2>9
<1> QED  BY <1>8, <1>9

LEMMA AskedUser ==
  ASSUME Together, cli \in {"GET_OP", "GET_ARG", "OP_RESULT", "GET_FILENAME"}
  PROVE  \E s \in Waits : srv = <<"wait", s>> /\ cli = Request[s] /\ Quiet
BY DEF Together, InTouch, ServerTurn, Announced, OnTheWay, Arrived, Asked, TooEarly, OutOfTouch

LEMMA Answering ==
  ASSUME ForkTypeOK, Together, cli \in {"GET_OP", "GET_ARG", "OP_RESULT", "GET_FILENAME"},
         NEW a \in Answers, Send(a, "read"), UNCHANGED <<srv, down>>,
         \A s \in Waits : cli = Request[s] => Fits(a, s)
  PROVE  Together'
<1>1. PICK s \in Waits : srv = <<"wait", s>> /\ cli = Request[s] /\ Quiet
  BY AskedUser
<1>2. up' = <<a>> /\ down' = <<>> /\ cli' = "read" /\ srv' = srv
  <2>1. Append(<<>>, a) = <<a>>
    OBVIOUS
  <2> QED  BY <1>1, <2>1 DEF Send, Quiet
<1>3. Asked(s)'
  BY <1>1, <1>2 DEF Asked
<1> QED  BY <1>3 DEF Together, InTouch

LEMMA ReadStep ==
  ASSUME ForkTypeOK, Together, ReadRequest
  PROVE  Together'
<1>1. cli = "read" /\ UNCHANGED <<task, srv, rest, file, out, up>>
  BY DEF ReadRequest
<1>2. CASE cli' = "astray"
  BY <1>2 DEF Together, OutOfTouch
<1>3. CASE down # <<>> /\ Head(down) \notin Byte /\ cli' = Head(down) /\ down' = Tail(down)
  <2>1. CASE ServerTurn \/ Arrived
    BY <1>3, <2>1 DEF ServerTurn, Quiet, Arrived
  <2>2. ASSUME NEW s \in Waits, Asked(s) PROVE Together'
    <3>1. srv = <<"wait", s>> /\ down = <<Request[s]>> /\ up = <<>>
      BY <1>1, <1>3, <2>2 DEF Asked, Quiet, Request, Waits
    <3>2. cli' = Request[s] /\ down' = <<>> /\ up' = <<>> /\ srv' = srv
      BY <1>1, <1>3, <3>1, Single
    <3>3. Asked(s)'
      BY <3>1, <3>2 DEF Asked, Quiet
    <3> QED  BY <3>3 DEF Together, InTouch
  <2>3. CASE Announced
    <3>1. down = <<"START_FILE_SENDING">>
      BY <1>1, <1>3, <2>3 DEF Announced
    <3>2. cli' = "START_FILE_SENDING" /\ down' = <<>>
      BY <1>3, <3>1, Single
    <3>3. Announced'
      BY <1>1, <2>3, <3>2 DEF Announced
    <3> QED  BY <3>3 DEF Together, InTouch
  <2>4. CASE OnTheWay
    <3>1. Head(down) = "START_FILE_SENDING" /\ Flow(Tail(down))
      BY <1>1, <2>4 DEF OnTheWay
    <3>2. cli' = "START_FILE_SENDING" /\ Flow(down)'
      BY <1>1, <1>3, <3>1 DEF Flow, ToSend
    <3>3. OnTheWay'
      BY <1>1, <2>4, <3>2 DEF OnTheWay
    <3> QED  BY <3>3 DEF Together, InTouch
  <2>5. CASE TooEarly
    BY <1>3, <2>5 DEF TooEarly
  <2>6. CASE OutOfTouch
    BY <1>1, <2>6 DEF OutOfTouch
  <2> QED  BY <2>1, <2>2, <2>3, <2>4, <2>5, <2>6 DEF Together, InTouch
<1> QED  BY <1>2, <1>3 DEF ReadRequest

LEMMA ClientStep ==
  ASSUME ForkInv, Client \/ User \/ Astray \/ Killed
  PROVE  Together'
<1>0. ForkTypeOK /\ Together
  BY DEF ForkInv, Together
<1>1. CASE ReadRequest
  BY <1>0, <1>1, ReadStep
<1>2. CASE ReceiveFile
  <2>1. cli = "file" /\ down # <<>>
    BY <1>2 DEF ReceiveFile
  <2>2. OnTheWay
    BY <1>0, <2>1 DEF Together, InTouch, ServerTurn, Announced, Arrived, Asked, Quiet, Request, Waits,
                      TooEarly, OutOfTouch
  <2> QED  BY <1>0, <1>2, <2>2, Receiving
<1>3. CASE OutOfTouch'
  BY <1>3 DEF Together
<1>4. Leave \/ Astray \/ Killed => OutOfTouch'
  BY DEF Leave, Astray, Killed, Close, Send, OutOfTouch
<1>5. CASE AnswerOp
  <2>1. CASE cli' = "exited"
    BY <1>3, <2>1 DEF OutOfTouch
  <2>2. ASSUME NEW a \in {"calc", "file"}, Send(a, "read"), UNCHANGED down PROVE Together'
    <3>1. cli = "GET_OP" /\ UNCHANGED srv
      BY <1>5 DEF AnswerOp
    <3>2. \A s \in Waits : cli = Request[s] => Fits(a, s)
      <4>1. \A s \in Waits : cli = Request[s] => s = "op"
        BY <3>1 DEF Waits, Request
      <4>2. Fits(a, "op")
        BY DEF Fits
      <4> QED  BY <4>1, <4>2
    <3>3. a \in Answers
      BY DEF Answers
    <3> QED  BY <1>0, <2>2, <3>1, <3>2, <3>3, Answering
  <2> QED  BY <1>5, <2>1, <2>2 DEF AnswerOp, Close
<1>6. CASE AnswerArg
  <2>1. cli = "GET_ARG" /\ Send("arg", "read") /\ UNCHANGED <<srv, down>>
    BY <1>6 DEF AnswerArg
  <2>2. "arg" \in Answers /\ \A s \in Waits : cli = Request[s] => Fits("arg", s)
    BY <2>1 DEF Waits, Request, Fits, Answers
  <2> QED  BY <1>0, <2>1, <2>2, Answering
<1>7. CASE AnswerFilename
  <2>1. cli = "GET_FILENAME" /\ Send("name", "read") /\ UNCHANGED <<srv, down>>
    BY <1>7 DEF AnswerFilename
  <2>2. "name" \in Answers /\ \A s \in Waits : cli = Request[s] => Fits("name", s)
    BY <2>1 DEF Waits, Request, Fits, Answers
  <2> QED  BY <1>0, <2>1, <2>2, Answering
<1>8. CASE AnswerStop
  <2>1. CASE cli' = "leave"
    BY <1>3, <2>1 DEF OutOfTouch
  <2>2. CASE cli = "OP_RESULT" /\ Send("go", "read")
    <3>1. UNCHANGED <<srv, down>>
      BY <1>8 DEF AnswerStop
    <3>2. "go" \in Answers /\ \A s \in Waits : cli = Request[s] => Fits("go", s)
      BY <2>2 DEF Waits, Request, Fits, Answers
    <3> QED  BY <1>0, <2>2, <3>1, <3>2, Answering
  <2>3. CASE cli = "quit" /\ Send("go", "read")
    <3>1. UNCHANGED <<srv, down, file>> /\ cli' = "read" /\ up' = Append(up, "go")
      BY <1>8, <2>3 DEF AnswerStop, Send
    <3>2. Arrived \/ TooEarly
      BY <1>0, <2>3 DEF Together, InTouch, ServerTurn, Announced, OnTheWay, Asked, Quiet, Request,
                        Waits, OutOfTouch
    <3>3. CASE Arrived
      <4>1. up = <<>>
        BY <2>3, <3>3 DEF Arrived
      <4>2. up' = <<"go">>
        <5>1. Append(<<>>, "go") = <<"go">>
          OBVIOUS
        <5> QED  BY <3>1, <4>1, <5>1
      <4>3. Arrived'
        BY <3>1, <3>3, <4>2 DEF Arrived
      <4> QED  BY <4>3 DEF Together, InTouch
    <3>4. CASE TooEarly
      <4>1. TooEarly'
        BY <3>1, <3>4 DEF TooEarly, HasMark
      <4> QED  BY <4>1 DEF Together
    <3> QED  BY <3>2, <3>3, <3>4
  <2> QED  BY <1>8, <2>1, <2>2, <2>3 DEF AnswerStop, Send
<1>9. CASE OpenOut
  <2>1. CASE cli' = "exited"
    BY <1>3, <2>1 DEF OutOfTouch
  <2>2. CASE cli' = "file" /\ out' = <<>> /\ UNCHANGED down
    <3>1. cli = "START_FILE_SENDING" /\ UNCHANGED <<srv, rest, file, up>>
      BY <1>9 DEF OpenOut
    <3>2. Announced \/ OnTheWay
      BY <1>0, <3>1 DEF Together, InTouch, ServerTurn, Arrived, Asked, Quiet, Request, Waits,
                        TooEarly, OutOfTouch
    <3>3. CASE Announced
      <4>1. Announced'
        BY <2>2, <3>1, <3>3 DEF Announced
      <4> QED  BY <4>1 DEF Together, InTouch
    <3>4. CASE OnTheWay
      <4>1. Flow(down)
        BY <3>1, <3>4 DEF OnTheWay
      <4>2. <<>> \in Seq(Byte) /\ <<>> \o down = down /\ down \in Seq(Byte)
        BY <4>1, EmptySeq, ConcatEmptySeq DEF Flow
      <4>3. out' \o down' = down /\ down' = down /\ ToSend' = ToSend
        BY <2>2, <3>1, <4>2 DEF ToSend
      <4>4. Flow(out \o down)'
        BY <3>1, <4>1, <4>3 DEF Flow
      <4>5. OnTheWay'
        BY <2>2, <3>1, <3>4, <4>2, <4>3, <4>4 DEF OnTheWay
      <4> QED  BY <4>5 DEF Together, InTouch
    <3> QED  BY <3>2, <3>3, <3>4
  <2> QED  BY <1>9, <2>1, <2>2 DEF OpenOut, Close
<1> QED  BY <1>1, <1>2, <1>3, <1>4, <1>5, <1>6, <1>7, <1>8, <1>9 DEF Client, User

-----------------------------------------------------------------------------
LEMMA Invariance == ForkSpec => []ForkInv
<1>1. ForkInit => ForkInv
  <2> SUFFICES ASSUME ForkInit PROVE ForkInv
    OBVIOUS
  <2>1. ForkTypeOK
    <3>1. <<>> \in Seq(Token) /\ <<>> \in Seq(Answers)
      BY EmptySeq
    <3> QED  BY <3>1 DEF ForkInit, ForkTypeOK, Places, Calculating, Sending
  <2>2. ServerTurn
    BY DEF ForkInit, ServerTurn, Quiet
  <2> QED  BY <2>1, <2>2 DEF ForkInv, InTouch
<1>2. ForkInv /\ [ForkNext]_forkVars => ForkInv'
  <2> SUFFICES ASSUME ForkInv, [ForkNext]_forkVars PROVE ForkInv'
    OBVIOUS
  <2>1. ForkTypeOK
    BY DEF ForkInv
  <2>2. CASE Server
    BY <2>1, <2>2, ServerTypes, ServerStep DEF ForkInv, Together
  <2>3. CASE Client \/ User \/ Astray \/ Killed
    BY <2>1, <2>3, ClientTypes, ClientStep DEF ForkInv, Together
  <2>4. CASE UNCHANGED forkVars
    BY <2>4 DEF forkVars, ForkInv, ForkTypeOK, InTouch, TooEarly, OutOfTouch, ServerTurn, Announced, OnTheWay,
                Arrived, Asked, Quiet, Flow, ToSend, HasMark
  <2> QED  BY <2>2, <2>3, <2>4 DEF ForkNext
<1> QED  BY <1>1, <1>2, PTL DEF ForkSpec

(***************************************************************************)
(* When the client's user is asked something, do_request() of the server   *)
(* waits for just that and nothing else is on the way, also after a file   *)
(* that does not have the mark inside.                                     *)
(***************************************************************************)
THEOREM AlwaysInStep == ForkSpec => []InStep
<1>1. ForkInv => InStep
  <2> SUFFICES ASSUME ForkInv, \/ cli \in {"GET_OP", "GET_ARG", "OP_RESULT", "GET_FILENAME"}
                               \/ cli = "quit" /\ ~HasMark(file)
               PROVE  srv \in {<<"wait", s>> : s \in Awaiting} /\ down = <<>> /\ up = <<>>
    BY DEF InStep
  <2>1. CASE cli \in {"GET_OP", "GET_ARG", "OP_RESULT", "GET_FILENAME"}
    <3>1. PICK s \in Waits : srv = <<"wait", s>> /\ cli = Request[s] /\ Quiet
      BY <2>1, AskedUser DEF ForkInv, Together
    <3>2. s \in Awaiting
      BY <2>1, <3>1 DEF Awaiting, Request, Waits
    <3> QED  BY <3>1, <3>2 DEF Quiet
  <2>2. CASE cli = "quit" /\ ~HasMark(file)
    <3>1. Arrived /\ up = <<>>
      BY <2>2 DEF ForkInv, InTouch, ServerTurn, Announced, OnTheWay, Arrived, Asked, Quiet, Request,
                  Waits, TooEarly, OutOfTouch
    <3> QED  BY <2>2, <3>1 DEF Arrived, AllSent, Awaiting
  <2> QED  BY <2>1, <2>2
<1> QED  BY <1>1, Invariance, PTL

(***************************************************************************)
(* When the client takes the file for complete, it has written all of it   *)
(* and nothing else, however read() cut it into pieces, unless the file    *)
(* has the mark inside.                                                    *)
(***************************************************************************)
THEOREM AlwaysWholeFile == ForkSpec => []WholeFile
<1>1. ForkInv => WholeFile
  BY DEF ForkInv, WholeFile, InTouch, ServerTurn, Announced, OnTheWay, Arrived, Asked, Quiet, Request,
         Waits, TooEarly, OutOfTouch
<1> QED  BY <1>1, Invariance, PTL
=============================================================================
