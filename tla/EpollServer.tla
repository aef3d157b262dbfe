---------------------------- MODULE EpollServer ----------------------------
(***************************************************************************)
(* task18: a calculator served to many clients by one process.  epoll      *)
(* tells it, once per change, which connections have something to read or  *)
(* have been lost; it then runs the state machine of such a connection     *)
(* (conn.c) until its socket would block.  A client reads a question,      *)
(* answers it and is told the result; it may be killed at any point.       *)
(*                                                                         *)
(* Questions and answers are short, so each write is taken to arrive as    *)
(* one piece.  What clients do once the server is gone is not modelled.    *)
(***************************************************************************)
EXTENDS Integers, Sequences, FiniteSets, FiniteSetsExt

CONSTANTS Client,        \* the clients, each one run of client.c
          MAX_EVENTS     \* how many events epoll_wait returns at most

ASSUME ServerAssumption == IsFiniteSet(Client) /\ MAX_EVENTS \in Nat \ {0}

VARIABLES cl,         \* where each client is
          asked,      \* the message each client has read last
          typed,      \* what each user has answered since the last result
          down, up,   \* the messages and the replies that were not read yet
          link,       \* each connection as the server's kernel knows it
          serving,    \* the server is running
          backlog,    \* the connections it has not accepted
          conns,      \* those it has accepted and not closed
          conn,       \* the struct conn_inner of each
          ready,      \* those in the ready list of epoll
          batch, hup, \* the events not handled yet, and those with EPOLLHUP
          accepting,  \* the event of the listening socket is not handled yet
          handling    \* the connection being handled, if any

clientVars == <<cl, asked, typed>>
pollVars   == <<batch, hup, accepting, handling>>
vars == <<clientVars, down, up, link, serving, backlog, conns, conn, ready, pollVars>>

(* The instances of the macro MSG: the question, the field, the next state. *)
Stage   == {"LHS_ARG", "RHS_ARG", "OP", "RES"}
Message == [LHS_ARG |-> "REQ_ARG", RHS_ARG |-> "REQ_ARG",
            OP      |-> "REQ_OP",  RES     |-> "RET_RES"]
(* Bug: the second argument is stored over the first. *)
DestTwice == [LHS_ARG |-> "lhs", RHS_ARG |-> "lhs", OP |-> "op", RES |-> "cont"]

Dest    == [LHS_ARG |-> "lhs", RHS_ARG |-> "rhs", OP |-> "op", RES |-> "cont"]
Out     == [LHS_ARG |-> "RHS_ARG", RHS_ARG |-> "OP", OP |-> "RES"]

(* A connection is open, ended by the client ("fin"), or reset by it ("rst", *)
(* and "rst_told" once a call has returned the error).  "fin_rst": ended,   *)
(* and then reset because the server wrote.                                *)
Links  == {"none", "open", "fin", "fin_rst", "rst", "rst_told", "closed"}
Broken == {"fin_rst", "rst_told"}
Reset  == Broken \cup {"rst"}

NewConn == [stage |-> "LHS_ARG", phase |-> "MSG",
            lhs |-> "unset", rhs |-> "unset", op |-> "unset", cont |-> "yes"]

Init ==
  /\ cl = [c \in Client |-> "off"]
  /\ asked = [c \in Client |-> [kind |-> "none", data |-> <<>>]]
  /\ typed = [c \in Client |-> <<>>]
  /\ down = [c \in Client |-> <<>>] /\ up = [c \in Client |-> <<>>]
  /\ link = [c \in Client |-> "none"]
  /\ serving = TRUE
  /\ backlog = {} /\ conns = {} /\ conn = [c \in Client |-> NewConn]
  /\ ready = {} /\ batch = {} /\ hup = {} /\ accepting = FALSE /\ handling = {}

-----------------------------------------------------------------------------
(* client.c *)

Connect(c) ==
  /\ cl[c] = "off"
  /\ cl' = [cl EXCEPT ![c] = "read"]
  /\ link' = [link EXCEPT ![c] = "open"]
  /\ backlog' = backlog \cup {c}
  /\ UNCHANGED <<asked, typed, down, up, serving, conns, conn, ready, pollVars>>

ReadMsg(c) ==
  /\ cl[c] = "read" /\ down[c] # <<>>
  /\ asked' = [asked EXCEPT ![c] = Head(down[c])]
  /\ down' = [down EXCEPT ![c] = Tail(@)]
  /\ cl' = [cl EXCEPT ![c] =
              IF Head(down[c]).kind = "ERR_INVALID_REPLY" THEN "closing" ELSE "reply"]
  /\ UNCHANGED <<typed, up, link, serving, backlog, conns, conn, ready, pollVars>>

(* epoll marks a connection ready when something arrives on it. *)
Notify(c) == ready' = ready \cup ({c} \cap conns)

Reply(c, data, next) ==
  /\ cl[c] = "reply"
  /\ up' = [up EXCEPT ![c] = Append(@, [recv_msg |-> asked[c].kind, data |-> data])]
  /\ Notify(c)
  /\ cl' = [cl EXCEPT ![c] = next]
  /\ UNCHANGED <<asked, down, link, serving, backlog, conns, conn, pollVars>>

(* A number or an operation.  The server only computes with what users     *)
(* type, so it is enough to tell their answers apart by who gave which.    *)
Answer(c) ==
  LET a == <<c, Len(typed[c]) + 1>>
  IN  /\ asked[c].kind \in {"REQ_ARG", "REQ_OP"}
      /\ Reply(c, a, "read")
      /\ typed' = [typed EXCEPT ![c] = Append(@, a)]

AnswerCont(c) ==
  /\ asked[c].kind = "RET_RES"
  /\ Reply(c, "yes", "read") \/ Reply(c, "no", "closing")
  /\ typed' = [typed EXCEPT ![c] = <<>>]

InvalidOp(c) ==
  /\ cl[c] = "reply" /\ asked[c].kind = "REQ_OP"
  /\ cl' = [cl EXCEPT ![c] = "closing"]
  /\ UNCHANGED <<asked, typed, down, up, link, serving, backlog, conns, conn, ready,
                 pollVars>>

(* The kernel closes the socket; it resets it if a message was not read. *)
Leave(c) ==
  /\ cl' = [cl EXCEPT ![c] = "ended"]
  /\ link' = [link EXCEPT ![c] = IF @ = "closed" THEN @
                              ELSE IF down[c] = <<>> THEN "fin" ELSE "rst"]
  /\ down' = [down EXCEPT ![c] = <<>>]
  /\ Notify(c)
  /\ UNCHANGED <<asked, typed, up, serving, backlog, conns, conn, pollVars>>

Close(c) == cl[c] = "closing" /\ Leave(c)

Killed(c) == cl[c] \in {"read", "reply"} /\ Leave(c)

-----------------------------------------------------------------------------
(* server.c: the loop over epoll_wait. *)

Idle == batch = {} /\ ~accepting /\ handling = {}

epoll_wait ==
  LET events == Cardinality(ready) + (IF backlog = {} THEN 0 ELSE 1)
  IN  /\ Idle /\ events > 0
      /\ \E S \in SUBSET ready, listen \in BOOLEAN :
           /\ listen => backlog # {}
           /\ Cardinality(S) + (IF listen THEN 1 ELSE 0) = Min({events, MAX_EVENTS})
           /\ batch' = S
           /\ hup' = {c \in S : link[c] \in Reset}
           /\ ready' = ready \ S
           /\ accepting' = listen
      /\ UNCHANGED <<clientVars, down, up, link, serving, backlog, conns, conn, handling>>

(* Bug: registered without EPOLLOUT, the connection is not ready at first. *)
AcceptForInput ==
  /\ accepting /\ handling = {}
  /\ accepting' = FALSE
  /\ \E c \in backlog :
       /\ backlog' = backlog \ {c}
       /\ conns' = conns \cup {c}
       /\ conn' = [conn EXCEPT ![c] = NewConn]
  /\ UNCHANGED <<clientVars, down, up, link, serving, ready, batch, hup, handling>>

(* A new connection can be written to, which makes it ready. *)
Accept ==
  /\ accepting /\ handling = {}
  /\ accepting' = FALSE
  /\ \E c \in backlog :
       /\ backlog' = backlog \ {c}
       /\ conns' = conns \cup {c}
       /\ conn' = [conn EXCEPT ![c] = NewConn]
       /\ ready' = ready \cup {c}
  /\ UNCHANGED <<clientVars, down, up, link, serving, batch, hup, handling>>

(* Bug: free() without close(), so that epoll keeps the descriptor. *)
FreeOnly(c) ==
  /\ conns' = conns \ {c}
  /\ link' = [link EXCEPT ![c] = "closed"]
  /\ up' = [up EXCEPT ![c] = <<>>]
  /\ UNCHANGED ready

(* close(fd), which also takes it out of epoll, and free(conn). *)
Free(c) ==
  /\ conns' = conns \ {c}
  /\ ready' = ready \ {c}
  /\ link' = [link EXCEPT ![c] = "closed"]
  /\ up' = [up EXCEPT ![c] = <<>>]

handle_conn(c) ==
  /\ handling = {} /\ c \in batch
  /\ batch' = batch \ {c}
  /\ hup' = hup \ {c}
  /\ IF c \in hup
     THEN Free(c) /\ UNCHANGED handling
     ELSE handling' = {c} /\ UNCHANGED <<conns, ready, link, up>>
  /\ UNCHANGED <<clientVars, down, serving, backlog, conn, accepting>>

-----------------------------------------------------------------------------
(* conn.c: handle_conn_inner, between two calls of write() and read(). *)

(* A write to a connection known to be broken raises SIGPIPE, which ends    *)
(* the server; deadly are the links on which a write ends it.              *)
Write(c, m, deadly) ==
  /\ serving' = (link[c] \notin deadly)
  /\ down' = IF link[c] = "open" THEN [down EXCEPT ![c] = Append(@, m)] ELSE down
  /\ link' = [link EXCEPT ![c] = CASE @ = "fin" -> "fin_rst"
                                   [] @ = "rst" -> "rst_told"
                                   [] OTHER     -> @]

calc_result(c) ==
  IF conn[c].stage = "RES" THEN <<conn[c].lhs, conn[c].rhs, conn[c].op>> ELSE <<>>

(* Bug: the state is not changed to wait for the reply. *)
SendMsgOver(c) ==
  /\ c \in handling
  /\ conn[c].stage \in Stage /\ conn[c].phase = "MSG"
  /\ Write(c, [kind |-> Message[conn[c].stage], data |-> calc_result(c)], Broken)
  /\ UNCHANGED <<clientVars, up, backlog, conns, conn, ready, pollVars>>

SendMsg(c) ==
  /\ c \in handling
  /\ conn[c].stage \in Stage /\ conn[c].phase = "MSG"
  /\ Write(c, [kind |-> Message[conn[c].stage], data |-> calc_result(c)], Broken)
  /\ conn' = [conn EXCEPT ![c].phase = "REPLY"]
  /\ UNCHANGED <<clientVars, up, backlog, conns, ready, pollVars>>

(* An error of this write is not ignored, as that of SendMsg is.  The END   *)
(* state is left for a new round: only cont = 0 stops, see below.           *)
SendError(c) ==
  /\ c \in handling
  /\ conn[c].stage = "ERROR"
  /\ Write(c, [kind |-> "ERR_INVALID_REPLY", data |-> <<>>], Reset)
  /\ conn' = [conn EXCEPT ![c].stage = "LHS_ARG", ![c].phase = "MSG"]
  /\ UNCHANGED <<clientVars, up, backlog, conns, ready, pollVars>>

Receiving(c) == c \in handling /\ conn[c].phase = "REPLY"

(* The reply r is stored, and names the next state; the last one ends the  *)
(* round, and with cont = 0 the connection.                                *)
Store(c, r) ==
  LET s == conn[c].stage
      goto(stage) == [conn EXCEPT ![c] = [@ EXCEPT !.stage = stage, !.phase = "MSG"]]
      store(stage) == [conn EXCEPT ![c] = [@ EXCEPT !.stage = stage, !.phase = "MSG",
                                                    ![Dest[s]] = r.data]]
  IN  /\ conn' = IF r.recv_msg # Message[s] THEN goto("ERROR")
                  ELSE IF s # "RES" THEN store(Out[s])
                  ELSE IF r.data = "yes" THEN store("LHS_ARG") ELSE conn
      /\ handling' = IF r.recv_msg = Message[s] /\ s = "RES" /\ r.data = "no"
                     THEN {} ELSE handling

Ends(c, r) == r = [recv_msg |-> "RET_RES", data |-> "no"] /\ conn[c].stage = "RES"

ReadReply(c) ==
  LET r == Head(up[c])
  IN  /\ Receiving(c) /\ up[c] # <<>>
      /\ Store(c, r)
      /\ IF Ends(c, r)
         THEN Free(c)
         ELSE up' = [up EXCEPT ![c] = Tail(@)] /\ UNCHANGED <<conns, ready, link>>
      /\ UNCHANGED <<clientVars, down, serving, backlog, batch, hup, accepting>>

(* Bug: that nothing has come yet is taken for the end. *)
WouldBlockEnds(c) ==
  /\ Receiving(c) /\ up[c] = <<>> /\ link[c] = "open"
  /\ handling' = {}
  /\ Free(c)
  /\ UNCHANGED <<clientVars, down, serving, backlog, conn, batch, hup, accepting>>

(* EAGAIN *)
WouldBlock(c) ==
  /\ Receiving(c) /\ up[c] = <<>> /\ link[c] = "open"
  /\ handling' = {}
  /\ UNCHANGED <<clientVars, down, up, link, serving, backlog, conns, conn, ready,
                 batch, hup, accepting>>

(* Bug: the end of the stream is taken for a reply. *)
EndOfStreamUnchecked(c) ==
  /\ Receiving(c) /\ up[c] = <<>> /\ link[c] \in {"fin"} \cup Broken
  /\ conn' = [conn EXCEPT ![c].phase = "MSG"]
  /\ UNCHANGED <<clientVars, down, up, link, serving, backlog, conns, ready, pollVars>>

(* read() returns 0 *)
EndOfStream(c) ==
  /\ Receiving(c) /\ up[c] = <<>> /\ link[c] \in {"fin"} \cup Broken
  /\ handling' = {}
  /\ Free(c)
  /\ UNCHANGED <<clientVars, down, serving, backlog, conn, batch, hup, accepting>>

(* What an uninitialised reply_t may hold, for the state that reads it. *)
Garbage(s) == [recv_msg : {Message[s], "other"},
               data : IF s = "RES" THEN {"yes", "no"} ELSE {"garbage"}]

(* read() fails with ECONNRESET and the reply is used all the same. *)
ReadFails(c) ==
  /\ Receiving(c) /\ up[c] = <<>> /\ link[c] = "rst"
  /\ \E r \in Garbage(conn[c].stage) :
       /\ Store(c, r)
       /\ IF Ends(c, r)
          THEN Free(c)
          ELSE link' = [link EXCEPT ![c] = "rst_told"] /\ UNCHANGED <<conns, ready, up>>
  /\ UNCHANGED <<clientVars, down, serving, backlog, batch, hup, accepting>>

-----------------------------------------------------------------------------
Server == \/ epoll_wait \/ Accept
          \/ \E c \in Client : \/ handle_conn(c) \/ SendMsg(c) \/ SendError(c)
                               \/ ReadReply(c) \/ WouldBlock(c) \/ EndOfStream(c)
                               \/ ReadFails(c)

User(c) == Answer(c) \/ AnswerCont(c) \/ InvalidOp(c)

Next == /\ serving
        /\ \/ Server
           \/ \E c \in Client : \/ Connect(c) \/ ReadMsg(c) \/ User(c)
                                \/ Close(c) \/ Killed(c)

Spec == Init /\ [][Next]_vars

(***************************************************************************)
(* The kernel runs the server, and a client reads what has come; nobody    *)
(* makes the user answer.  A user is not for ever quicker than the read    *)
(* with which the server follows its question.                             *)
(***************************************************************************)
FairSpec == /\ Spec /\ WF_vars(serving /\ Server)
            /\ \A c \in Client : WF_vars(serving /\ ReadMsg(c))
                                 /\ SF_vars(serving /\ WouldBlock(c))

-----------------------------------------------------------------------------
(***************************************************************************)
(* Events never outlive their connection: what epoll_wait returned is      *)
(* handled after others of the same batch, and points to memory that those *)
(* may have freed.                                                         *)
(***************************************************************************)
NoUseAfterFree == batch \cup handling \subseteq conns

(***************************************************************************)
(* At most one question or answer is under way on a connection, so that    *)
(* answers cannot be mistaken for one another and no write ever blocks.    *)
(***************************************************************************)
OneUnderWay == \A c \in Client : Len(down[c]) + Len(up[c]) <= 1

(***************************************************************************)
(* The result a user is shown is that of the two numbers and the operation *)
(* he has typed since the last one, in whatever order the server handled   *)
(* him and the others.                                                     *)
(***************************************************************************)
ResultOfTyped ==
  \A c \in Client :
    cl[c] = "reply" /\ asked[c].kind = "RET_RES" => asked[c].data = typed[c]

(***************************************************************************)
(* The server hangs up on no client that has not decided to leave: the     *)
(* client takes no read of 0 bytes for a message.                          *)
(***************************************************************************)
NoHangup == \A c \in Client : link[c] = "closed" => cl[c] \in {"closing", "ended"}

(***************************************************************************)
(* Clients that leave or are killed at any point, even with an answer on   *)
(* its way, do not take the server along, except one killed between the    *)
(* arrival of a question and the read of it: that resets the connection,   *)
(* and the server takes the failed read for a reply and writes again.      *)
(***************************************************************************)
ServerSurvives == serving \/ \E c \in Client : link[c] \in {"rst", "rst_told"}

(***************************************************************************)
(* A client that waits gets its next question, as long as there is a       *)
(* server: no change of its connection is lost, though epoll reports each  *)
(* only once.                                                              *)
(***************************************************************************)
Served == \A c \in Client : cl[c] = "read" ~> (cl[c] # "read" \/ ~serving)
=============================================================================
