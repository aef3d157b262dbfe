------------------------------ MODULE MsgQueue ------------------------------
(***************************************************************************)
(* task06 and task07: two programs that talk over one message queue.       *)
(* proc2 sends first, proc1 receives first; then each receives and sends   *)
(* in turn, both by the same queue, so that whoever receives a message, be *)
(* it his own, writes the next.  "exit" ends both; each removes the queue  *)
(* when it ends.  A program may be killed anywhere (Ctrl-C), which leaves  *)
(* the queue and its messages, and both may be started again.              *)
(*                                                                         *)
(* The programs of the two tasks are the same, the queues are not.  That   *)
(* of task06 (System V) is removed by its identifier and is gone at once.  *)
(* That of task07 (POSIX) is removed by its name: those that have it open  *)
(* keep it, and it may be another's queue that loses the name.             *)
(***************************************************************************)
EXTENDS Integers, Sequences, FiniteSets

CONSTANTS QueueCap,   \* how many messages the kernel keeps in a queue
          MaxQueues,  \* bound: how many queues are made in all
          MaxBehind   \* bound: how often a program is killed as `behind` counts it

ASSUME QueueAssumption ==
  QueueCap \in Nat \ {0} /\ MaxQueues \in Nat \ {0} /\ MaxBehind \in Nat

Proc == {"proc1", "proc2"}
Msg  == {"text", "exit"}    \* "exit" has a type (task06) or priority of its own

VARIABLES api,      \* which of the two tasks this is
          pc,       \* where each process is
          msg,      \* the line each has scanned and not sent yet
          id,       \* the queue each has opened last
          queues,   \* the messages in every queue made so far
          name,     \* the queue that the key or the name stands for, 0 for none
          behind    \* history: how often each was killed on each queue made so
                    \* far with something left behind (see LeavesBehind)

queueVars == <<api, pc, msg, id, queues, name, behind>>

Stopped == {"off", "ended", "failed", "killed"}
(* Else a process is in "recv", "blocked", "prompt", "send" or "delete". *)

Up(p) == pc[p] \notin Stopped

QueueInit ==
  /\ api \in {"SysV", "POSIX"}
  /\ pc = [p \in Proc |-> "off"]
  /\ msg = [p \in Proc |-> "text"]
  /\ id = [p \in Proc |-> 0]
  /\ queues = <<>>
  /\ name = 0
  /\ behind = <<>>

Goto(p, from, to) == pc[p] = from /\ pc' = [pc EXCEPT ![p] = to]

(* A System V queue is gone as soon as its key no longer stands for it. *)
Removed(q) == api = "SysV" /\ q # name

(* Bug: both programs send first. *)
FirstStepBothSend(p) == "prompt"

FirstStep(p) == IF p = "proc1" THEN "recv" ELSE "prompt"

(* msgget() or mq_open() finds the queue that is there or makes one. *)
msgqueue_init(p) ==
  /\ pc[p] \in Stopped
  /\ pc' = [pc EXCEPT ![p] = FirstStep(p)]
  /\ \/ /\ name # 0
        /\ UNCHANGED <<queues, name, behind>>
     \/ /\ name = 0 /\ Len(queues) < MaxQueues
        /\ queues' = Append(queues, <<>>)
        /\ behind' = Append(behind, [r \in Proc |-> 0])
        /\ name' = Len(queues) + 1
  /\ id' = [id EXCEPT ![p] = name']
  /\ UNCHANGED <<api, msg>>

(* Bug: the receiver does not look for "exit". *)
ReceivedAnything(m) == "prompt"

(* Where a process goes with the message it has received or sent. *)
Received(m) == IF m = "exit" THEN "delete" ELSE "prompt"
Sent(m)     == IF m = "exit" THEN "delete" ELSE "recv"

(* Fails on a queue that is gone; else takes the first message, or waits. *)
msgqueue_recv(p) ==
  LET q == id[p]
  IN  /\ pc[p] = "recv"
      /\ \/ /\ Removed(q)
            /\ Goto(p, "recv", "failed")
            /\ UNCHANGED queues
         \/ /\ ~Removed(q) /\ queues[q] # <<>>
            /\ Goto(p, "recv", Received(Head(queues[q])))
            /\ queues' = [queues EXCEPT ![q] = Tail(@)]
         \/ /\ ~Removed(q) /\ queues[q] = <<>>
            /\ Goto(p, "recv", "blocked")
            /\ UNCHANGED queues
      /\ UNCHANGED <<api, msg, id, name, behind>>

(* fgets() reads a line, or fails at the end of the input. *)
msg_scan(p) ==
  /\ \/ Goto(p, "prompt", "send") /\ msg' \in {[msg EXCEPT ![p] = m] : m \in Msg}
     \/ Goto(p, "prompt", "failed") /\ UNCHANGED msg
  /\ UNCHANGED <<api, id, queues, name, behind>>

Blocked(q) == {p \in Proc : pc[p] = "blocked" /\ id[p] = q}

(* POSIX keeps a queue in the order of priority, the highest first. *)
Insert(queue, m) ==
  IF api = "POSIX" /\ m = "exit" THEN <<m>> \o queue ELSE Append(queue, m)

(* The kernel hands the message to a process that waits, or queues it. *)
msgqueue_send(p) ==
  LET q == id[p]
      m == msg[p]
  IN  /\ pc[p] = "send"
      /\ \/ /\ Removed(q)
            /\ Goto(p, "send", "failed")
            /\ UNCHANGED queues
         \/ /\ ~Removed(q)
            /\ \E b \in Blocked(q) :
                 pc' = [pc EXCEPT ![p] = Sent(m), ![b] = Received(m)]
            /\ UNCHANGED queues
         \/ /\ ~Removed(q) /\ Blocked(q) = {}
            /\ Len(queues[q]) < QueueCap
            /\ Goto(p, "send", Sent(m))
            /\ queues' = [queues EXCEPT ![q] = Insert(@, m)]
      /\ UNCHANGED <<api, msg, id, name, behind>>

(* task06: IPC_RMID drops the messages and fails every wait. *)
IPC_RMID(p) ==
  /\ pc[p] = "delete" /\ api = "SysV"
  /\ pc' = [r \in Proc |-> CASE r = p               -> "ended"
                             [] r \in Blocked(id[p]) -> "failed"
                             [] OTHER               -> pc[r]]
  /\ name' = IF name = id[p] THEN 0 ELSE name
  /\ queues' = [queues EXCEPT ![id[p]] = <<>>]
  /\ UNCHANGED <<api, msg, id, behind>>

(* task07: whatever queue has the name loses it, and if none it is no error. *)
mq_unlink(p) ==
  /\ Goto(p, "delete", "ended") /\ api = "POSIX"
  /\ name' = 0
  /\ UNCHANGED <<api, msg, id, queues, behind>>

(* A kill leaves behind what the program does not expect when it is started *)
(* again: a turn, of which proc2 brings another; or, when it was about to   *)
(* delete the queue, an "exit", or a peer that is still to delete it.       *)
LeavesBehind(p) == pc[p] = "delete" \/ (p = "proc2" /\ pc[p] \in {"recv", "blocked"})

(* No handler is installed: SIGINT or SIGTERM ends the process wherever it is. *)
Kill(p) ==
  LET q == id[p]
  IN  /\ Up(p)
      /\ \/ /\ LeavesBehind(p) /\ behind[q][p] < MaxBehind
            /\ behind' = [behind EXCEPT ![q][p] = @ + 1]
         \/ ~LeavesBehind(p) /\ UNCHANGED behind
      /\ Goto(p, pc[p], "killed")
      /\ UNCHANGED <<api, msg, id, queues, name>>

Step(p) == msgqueue_recv(p) \/ msgqueue_send(p) \/ IPC_RMID(p) \/ mq_unlink(p)

QueueNext == \E p \in Proc : msgqueue_init(p) \/ msg_scan(p) \/ Step(p) \/ Kill(p)

QueueSpec == QueueInit /\ [][QueueNext]_queueVars

(* The kernel runs both programs; nobody makes the user start, type or kill. *)
QueueFairSpec == QueueSpec /\ \A p \in Proc : WF_queueVars(Step(p))

-----------------------------------------------------------------------------
(* Turns around for queue q: the messages in it and those who write one. *)
Turns(q) == Len(queues[q])
            + Cardinality({p \in Proc : id[p] = q /\ pc[p] \in {"prompt", "send"}})

(***************************************************************************)
(* A queue has one turn at most, and one more for each time that proc2 was *)
(* killed on it without its turn: started again it speaks first, though    *)
(* the turn is in the queue or with proc1.  Nothing else makes a second:   *)
(* not that both receive what either sends, not that proc1 or a writer is  *)
(* killed, not that a run meets the messages of an earlier one, nor that a *)
(* POSIX queue is unlinked by one who uses another.  So, proc2 apart, two  *)
(* programs on a queue never prompt together, and no send waits for room.  *)
(***************************************************************************)
OneTurn == \A q \in DOMAIN queues : Turns(q) <= 1 + behind[q]["proc2"]

(***************************************************************************)
(* When one program is to end after "exit", the other does not wait for    *)
(* ever: it gets the message and ends well or, in task06 only, it gets the *)
(* error of the queue that was removed before it had the message.  Else it *)
(* was killed itself, or one of them left something on that queue by being *)
(* killed: a second turn, or an "exit" that meets the one who sent it.     *)
(***************************************************************************)
PeerEnds ==
  \A p, r \in Proc, q \in 1 .. MaxQueues :
    pc[p] = "delete" /\ id[p] = q /\ id[r] = q /\ Up(r)
      ~> \/ pc[r] \in {"ended", "killed"}
         \/ pc[r] = "failed" /\ api = "SysV"
         \/ q \in DOMAIN behind /\ \E s \in Proc : behind[q][s] > 0
=============================================================================
