-------------------------- MODULE EpollServerProofs --------------------------
(***************************************************************************)
(* Theorems about EpollServer, for any number of clients and of events     *)
(* that epoll_wait may return.  Every conversation is described by itself, *)
(* by Conversation(c): at any time it is in one of few situations, whatever *)
(* the server does with the others.                                        *)
(***************************************************************************)
EXTENDS EpollServer, SequenceTheorems, TLAPS

Data == {"unset", "garbage", "yes", "no"} \cup (Client \X Nat)

Conn == [stage : Stage \cup {"ERROR"}, phase : {"MSG", "REPLY"},
         lhs : Data, rhs : Data, op : Data, cont : Data]

TypeOK ==
  /\ asked = [c \in Client |-> asked[c]] /\ typed = [c \in Client |-> typed[c]]
  /\ down = [c \in Client |-> down[c]] /\ up = [c \in Client |-> up[c]]
  /\ cl \in [Client -> {"off", "read", "reply", "closing", "ended"}]
  /\ link \in [Client -> Links]
  /\ conn \in [Client -> Conn]
  /\ serving \in BOOLEAN
  /\ backlog \subseteq Client /\ conns \subseteq Client
  /\ \A c \in Client : conn[c].phase = "REPLY" => conn[c].stage \in Stage

(* Of which connections epoll and the server hold pointers.                *)
Events ==
  /\ ready \subseteq conns /\ batch \subseteq conns /\ handling \subseteq conns
  /\ batch \cap handling = {} /\ hup \subseteq batch
  /\ \A c \in hup : link[c] \in Reset
  /\ backlog \cap conns = {}
  /\ \A c \in backlog : conn[c] = NewConn
  /\ \A c \in backlog \cup conns : link[c] \notin {"none", "closed"}

(* What the server asks next, and what it has been given before that.      *)
Question(c) == [kind |-> Message[conn[c].stage], data |-> calc_result(c)]

Given(c) == CASE conn[c].stage = "LHS_ARG" -> <<>>
              [] conn[c].stage = "RHS_ARG" -> <<conn[c].lhs>>
              [] conn[c].stage = "OP"      -> <<conn[c].lhs, conn[c].rhs>>
              [] OTHER                     -> <<conn[c].lhs, conn[c].rhs, conn[c].op>>

ReplyOf(c, d) == <<[recv_msg |-> Message[conn[c].stage], data |-> d]>>

Empty(c) == down[c] = <<>> /\ up[c] = <<>>

ToAsk(c)     == conn[c].phase = "MSG" /\ cl[c] = "read" /\ Empty(c) /\ typed[c] = Given(c)
Asked(c)     == /\ conn[c].phase = "REPLY" /\ cl[c] = "read" /\ typed[c] = Given(c)
                /\ down[c] = <<Question(c)>> /\ up[c] = <<>>
Answering(c) == /\ conn[c].phase = "REPLY" /\ cl[c] = "reply" /\ typed[c] = Given(c)
                /\ asked[c] = Question(c) /\ Empty(c)
Quitting(c)  == conn[c].phase = "REPLY" /\ cl[c] = "closing" /\ Empty(c)
Answered(c)  == /\ conn[c].phase = "REPLY" /\ down[c] = <<>>
                /\ \E d \in Data :
                     /\ up[c] = ReplyOf(c, d)
                     /\ \/ /\ conn[c].stage # "RES" /\ cl[c] = "read"
                           /\ typed[c] = Append(Given(c), d)
                        \/ /\ conn[c].stage = "RES" /\ cl[c] = "read" /\ d = "yes"
                           /\ typed[c] = <<>>
                        \/ /\ conn[c].stage = "RES" /\ cl[c] = "closing" /\ d = "no"

Open(c) == ToAsk(c) \/ Asked(c) \/ Answering(c) \/ Quitting(c) \/ Answered(c)

(* The client has left, its last answer may still be there to read.        *)
Finished(c) ==
  \/ up[c] = <<>>
  \/ conn[c].phase = "REPLY" /\ \E d \in Data : up[c] = ReplyOf(c, d)

Conversation(c) ==
  /\ link[c] = "none" => cl[c] = "off" /\ Empty(c) /\ typed[c] = <<>> /\ conn[c] = NewConn
  /\ link[c] \in {"open", "fin", "fin_rst"} => conn[c].stage \in Stage
  /\ link[c] = "open" => Open(c)
  /\ link[c] = "fin" => cl[c] = "ended" /\ down[c] = <<>> /\ Finished(c)
  /\ link[c] \in Reset => cl[c] = "ended" /\ Empty(c)
  /\ link[c] = "fin_rst" => conn[c].phase = "REPLY"
  /\ link[c] = "closed" => cl[c] \in {"closing", "ended"} /\ Empty(c)

IInv == TypeOK /\ Events /\ (\A c \in Client : Conversation(c)) /\ ServerSurvives

-----------------------------------------------------------------------------
(* Streams hold one message or reply at most, rounds three answers.        *)
LEMMA OneItem ==
  \A x : /\ Append(<<>>, x) = <<x>> /\ Len(<<x>>) = 1 /\ Len(<<>>) = 0 /\ <<x>> # <<>>
         /\ Head(<<x>>) = x /\ Tail(<<x>>) = <<>>
OBVIOUS

LEMMA TwoItems ==
  \A x, y : Append(<<x>>, y) = <<x, y>> /\ Len(<<x, y>>) = 2
<1> TAKE x, y
<1> DEFINE S == {x, y}
<1>1. <<x>> \in Seq(S) /\ <<x, y>> \in Seq(S) /\ Len(<<x>>) = 1 /\ Len(<<x, y>>) = 2
  OBVIOUS
<1>2. Append(<<x>>, y) \in Seq(S) /\ Len(Append(<<x>>, y)) = 2
  BY <1>1
<1>3. Append(<<x>>, y)[1] = x /\ Append(<<x>>, y)[2] = y
  BY <1>1
<1>4. \A i \in 1 .. Len(<<x, y>>) : Append(<<x>>, y)[i] = <<x, y>>[i]
  BY <1>1, <1>3
<1> HIDE DEF S
<1> QED  BY <1>1, <1>2, <1>4, SeqEqual

LEMMA ThreeItems ==
  \A x, y, z : Append(<<x, y>>, z) = <<x, y, z>>
<1> TAKE x, y, z
<1> DEFINE S == {x, y, z}
<1>1. <<x, y>> \in Seq(S) /\ Len(<<x, y>>) = 2
  OBVIOUS
<1>2. <<x, y, z>> \in Seq(S) /\ Len(<<x, y, z>>) = 3
  OBVIOUS
<1>3. Append(<<x, y>>, z) \in Seq(S) /\ Len(Append(<<x, y>>, z)) = 3
  BY <1>1
<1>4. /\ Append(<<x, y>>, z)[1] = x /\ Append(<<x, y>>, z)[2] = y
      /\ Append(<<x, y>>, z)[3] = z
  BY <1>1
<1>5. \A i \in 1 .. Len(<<x, y, z>>) : Append(<<x, y>>, z)[i] = <<x, y, z>>[i]
  BY <1>2, <1>4
<1> HIDE DEF S
<1> QED  BY <1>2, <1>3, <1>5, SeqEqual

LEMMA InitEstablishes == Init => IInv
<1> SUFFICES ASSUME Init PROVE IInv
  OBVIOUS
<1>1. NewConn \in Conn
  BY DEF NewConn, Conn, Data, Stage
<1>2. TypeOK
  BY <1>1 DEF Init, TypeOK, Links, NewConn, Stage
<1>3. Events
  BY DEF Init, Events
<1>4. \A c \in Client : Conversation(c)
  BY DEF Init, Conversation, Empty, Reset, Broken
<1>5. ServerSurvives
  BY DEF Init, ServerSurvives
<1> QED  BY <1>2, <1>3, <1>4, <1>5 DEF IInv

(* A step in one conversation leaves the others as they are.               *)
Same(d) == /\ cl'[d] = cl[d] /\ asked'[d] = asked[d] /\ typed'[d] = typed[d]
           /\ down'[d] = down[d] /\ up'[d] = up[d]
           /\ link'[d] = link[d] /\ conn'[d] = conn[d]

LEMMA SameConversation ==
  ASSUME NEW d \in Client, Conversation(d), Same(d)
  PROVE  Conversation(d)'
BY DEF Conversation, Same, Empty, Open, ToAsk, Asked, Answering, Quitting, Answered,
       Finished, Given, Question, calc_result, ReplyOf

LEMMA OneConversation ==
  ASSUME IInv, TypeOK', Events', ServerSurvives',
         NEW c \in Client, \A d \in Client \ {c} : Same(d),
         Conversation(c)'
  PROVE  IInv'
BY SameConversation DEF IInv

(* The steps of a client.                                                  *)
LEMMA ConnectStep ==
  ASSUME IInv, NEW c \in Client, Connect(c), serving
  PROVE  IInv'
<1> USE DEF Connect, pollVars
<1>0. TypeOK /\ Events /\ Conversation(c)
  BY DEF IInv
<1>1. TypeOK'
  BY <1>0 DEF TypeOK, Links
<1>2. link[c] = "none"
  BY <1>0 DEF Conversation, TypeOK, Links, Reset, Broken, Open, ToAsk, Asked, Answering,
              Quitting, Answered
<1>3. Events'
  BY <1>0, <1>2 DEF Events, TypeOK, Conversation, Reset, Broken
<1>4. ServerSurvives'
  BY DEF ServerSurvives
<1>5. \A d \in Client \ {c} : Same(d)
  BY <1>0 DEF Same, TypeOK
<1>6. Conversation(c)'
  <2>1. cl'[c] = "read" /\ link'[c] = "open"
    BY <1>0 DEF TypeOK
  <2>2. ToAsk(c)' /\ conn'[c].stage \in Stage
    BY <1>0, <1>2, <2>1 DEF ToAsk, Conversation, NewConn, Given, Empty, Stage
  <2> QED  BY <2>1, <2>2 DEF Conversation, Open, Reset, Broken
<1> QED  BY <1>1, <1>3, <1>4, <1>5, <1>6, OneConversation

LEMMA ClientOpen ==
  ASSUME TypeOK, NEW c \in Client, Conversation(c), cl[c] \in {"read", "reply"}
  PROVE  link[c] = "open" /\ Open(c) /\ conn[c].stage \in Stage
<1>1. link[c] = "open"
  BY DEF TypeOK, Conversation, Links, Reset, Broken
<1> QED  BY <1>1 DEF Conversation

LEMMA ReadMsgStep ==
  ASSUME IInv, NEW c \in Client, ReadMsg(c), serving
  PROVE  IInv'
<1> USE DEF ReadMsg, pollVars
<1>0. TypeOK /\ Events /\ Conversation(c)
  BY DEF IInv
<1>1. TypeOK'
  BY <1>0 DEF TypeOK
<1>2. Asked(c) /\ link[c] = "open" /\ conn[c].stage \in Stage
  BY <1>0, ClientOpen DEF Open, ToAsk, Answering, Quitting, Answered, Empty, Asked
<1>3. Events' /\ ServerSurvives'
  BY <1>0 DEF Events, ServerSurvives
<1>4. \A d \in Client \ {c} : Same(d)
  BY <1>0 DEF Same, TypeOK
<1>5. Head(down[c]) = Question(c) /\ Tail(down[c]) = <<>>
  BY <1>2, OneItem DEF Asked
<1>6. Question(c).kind # "ERR_INVALID_REPLY"
  BY <1>2 DEF Question, Stage, Message
<1>7. Answering(c)'
  BY <1>0, <1>2, <1>5, <1>6 DEF TypeOK, Answering, Asked, Empty, Question, Given, calc_result
<1>8. Conversation(c)'
  BY <1>2, <1>7 DEF Conversation, Open, Reset, Broken
<1> QED  BY <1>1, <1>3, <1>4, <1>8, OneConversation

LEMMA ReplyStep ==
  ASSUME IInv, NEW c \in Client, Answer(c) \/ AnswerCont(c), serving
  PROVE  IInv'
<1> USE DEF pollVars
<1>0. TypeOK /\ Events /\ Conversation(c)
  BY DEF IInv
<1>1. PICK d, next : /\ Reply(c, d, next)
                     /\ \/ /\ asked[c].kind \in {"REQ_ARG", "REQ_OP"}
                           /\ d = <<c, Len(typed[c]) + 1>> /\ next = "read"
                           /\ typed' = [typed EXCEPT ![c] = Append(@, d)]
                        \/ /\ asked[c].kind = "RET_RES"
                           /\ <<d, next>> \in {<<"yes", "read">>, <<"no", "closing">>}
                           /\ typed' = [typed EXCEPT ![c] = <<>>]
  BY DEF Answer, AnswerCont
<1> HIDE DEF pollVars
<1>2. Answering(c) /\ link[c] = "open" /\ conn[c].stage \in Stage
  BY <1>0, <1>1, ClientOpen DEF Open, ToAsk, Answering, Quitting, Answered, Asked, Reply
<1>3. d \in Data
  <2>1. Len(typed[c]) \in Nat
    BY <1>2, OneItem, TwoItems DEF Answering, Given
  <2> QED  BY <1>1, <2>1 DEF Data
<1>4. TypeOK'
  BY <1>0, <1>1 DEF TypeOK, Reply
<1>5. Events' /\ ServerSurvives'
  BY <1>0, <1>1 DEF Events, ServerSurvives, Reply, Notify, pollVars
<1>6. \A e \in Client \ {c} : Same(e)
  BY <1>0, <1>1 DEF Same, TypeOK, Reply
<1>7. up'[c] = ReplyOf(c, d) /\ down'[c] = <<>> /\ cl'[c] = next
  BY <1>0, <1>1, <1>2, OneItem DEF TypeOK, Reply, Answering, Empty, ReplyOf, Question
<1>8. CASE asked[c].kind \in {"REQ_ARG", "REQ_OP"}
  <2>1. conn[c].stage # "RES"
    BY <1>2, <1>8 DEF Answering, Question, Message
  <2>2. typed'[c] = Append(Given(c), d) /\ next = "read"
    BY <1>0, <1>1, <1>2, <1>8 DEF TypeOK, Answering
  <2> QED  BY <1>1, <1>2, <1>3, <1>4, <1>5, <1>6, <1>7, <2>1, <2>2, OneConversation
           DEF Reply, Conversation, Open, Answered, Given, ReplyOf, Answering, Reset, Broken
<1>9. CASE asked[c].kind = "RET_RES"
  <2>1. conn[c].stage = "RES"
    BY <1>2, <1>9 DEF Answering, Question, Message, Stage
  <2>2. typed'[c] = <<>> /\ <<d, next>> \in {<<"yes", "read">>, <<"no", "closing">>}
    BY <1>0, <1>1, <1>9 DEF TypeOK
  <2> QED  BY <1>1, <1>2, <1>3, <1>4, <1>5, <1>6, <1>7, <2>1, <2>2, OneConversation
           DEF Reply, Conversation, Open, Answered, ReplyOf, Answering, Reset, Broken
<1> QED  BY <1>1, <1>8, <1>9

LEMMA InvalidOpStep ==
  ASSUME IInv, NEW c \in Client, InvalidOp(c), serving
  PROVE  IInv'
<1> USE DEF InvalidOp, pollVars
<1>0. TypeOK /\ Events /\ Conversation(c)
  BY DEF IInv
<1>1. TypeOK'
  BY <1>0 DEF TypeOK
<1>2. Answering(c) /\ link[c] = "open" /\ conn[c].stage \in Stage
  BY <1>0, ClientOpen DEF Open, ToAsk, Answering, Quitting, Answered, Asked
<1>3. Events' /\ ServerSurvives'
  BY <1>0 DEF Events, ServerSurvives
<1>4. \A d \in Client \ {c} : Same(d)
  BY <1>0 DEF Same, TypeOK
<1>5. Quitting(c)'
  BY <1>0, <1>2 DEF TypeOK, Answering, Quitting, Empty
<1>6. Conversation(c)'
  BY <1>2, <1>5 DEF Conversation, Open, Reset, Broken
<1> QED  BY <1>1, <1>3, <1>4, <1>6, OneConversation

LEMMA LeaveStep ==
  ASSUME IInv, NEW c \in Client, Close(c) \/ Killed(c), serving
  PROVE  IInv'
<1>0. /\ TypeOK /\ Events /\ Conversation(c)
      /\ Leave(c) /\ cl[c] \in {"read", "reply", "closing"}
  BY DEF IInv, Close, Killed
<1>1. TypeOK'
  BY <1>0 DEF TypeOK, Leave, Links
<1>2. \/ link[c] = "open" /\ Open(c) /\ conn[c].stage \in Stage
      \/ link[c] = "closed" /\ Empty(c)
  BY <1>0 DEF Conversation, TypeOK, Links, Reset, Broken
<1>3. /\ cl'[c] = "ended" /\ down'[c] = <<>> /\ up'[c] = up[c] /\ conn'[c] = conn[c]
      /\ link'[c] = IF link[c] = "closed" THEN "closed"
                    ELSE IF down[c] = <<>> THEN "fin" ELSE "rst"
  BY <1>0 DEF TypeOK, Leave
<1>4. \A d \in Client \ {c} : Same(d)
  BY <1>0 DEF Same, TypeOK, Leave
<1>5. Events'
  <2>1. \A d \in Client : /\ link'[d] \in {"none", "closed"} => link[d] \in {"none", "closed"}
                          /\ link[d] \in Reset => link'[d] = link[d]
    BY <1>0, <1>2, <1>3, <1>4 DEF Same, Reset, Broken
  <2> QED  BY <1>0, <2>1 DEF Events, TypeOK, Leave, Notify, pollVars
<1>6. ServerSurvives'
  BY <1>0 DEF ServerSurvives, Leave
<1>7. Conversation(c)'
  <2>1. CASE link[c] = "closed"
    BY <1>2, <1>3, <2>1 DEF Conversation, Empty, Reset, Broken
  <2>2. CASE link[c] = "open" /\ down[c] = <<>>
    <3>1. up[c] = <<>> \/ (conn[c].phase = "REPLY" /\ \E d \in Data : up[c] = ReplyOf(c, d))
      BY <1>2, <2>2 DEF Open, ToAsk, Asked, Answering, Quitting, Answered, Empty
    <3>2. Finished(c)'
      BY <1>3, <3>1 DEF Finished, ReplyOf
    <3> QED  BY <1>2, <1>3, <2>2, <3>2 DEF Conversation, Reset, Broken
  <2>3. CASE link[c] = "open" /\ down[c] # <<>>
    <3>1. up[c] = <<>>
      BY <1>2, <2>3 DEF Open, ToAsk, Asked, Answering, Quitting, Answered, Empty
    <3> QED  BY <1>2, <1>3, <2>3, <3>1 DEF Conversation, Empty, Reset, Broken
  <2> QED  BY <1>2, <2>1, <2>2, <2>3
<1> QED  BY <1>1, <1>4, <1>5, <1>6, <1>7, OneConversation

-----------------------------------------------------------------------------
(* The steps of the server: first those of its loop.                       *)
LEMMA NoConversation ==
  ASSUME IInv, Events', UNCHANGED <<clientVars, down, up, link, conn, serving>>,
         backlog' \subseteq backlog, conns' \subseteq backlog \cup conns
  PROVE  IInv'
<1>1. TypeOK'
  BY DEF IInv, TypeOK, clientVars
<1>2. \A c \in Client : Conversation(c)'
  BY SameConversation DEF IInv, Same, clientVars
<1>3. ServerSurvives'
  BY DEF IInv, ServerSurvives
<1> QED  BY <1>1, <1>2, <1>3 DEF IInv

LEMMA LoopStep ==
  ASSUME IInv, epoll_wait \/ Accept, serving
  PROVE  IInv'
<1>0. TypeOK /\ Events
  BY DEF IInv
<1>1. CASE epoll_wait
  <2>1. Events'
    BY <1>0, <1>1 DEF Events, epoll_wait, Idle, TypeOK
  <2> QED  BY <1>1, <2>1, NoConversation DEF epoll_wait
<1>2. CASE Accept
  <2>1. PICK c \in backlog : /\ backlog' = backlog \ {c} /\ conns' = conns \cup {c}
                             /\ conn' = [conn EXCEPT ![c] = NewConn]
                             /\ ready' = ready \cup {c}
    BY <1>2 DEF Accept
  <2>2. conn' = conn
    BY <1>0, <2>1 DEF Events, TypeOK
  <2>3. Events'
    BY <1>0, <1>2, <2>1, <2>2 DEF Events, Accept, Reset, Broken
  <2> QED  BY <1>2, <2>1, <2>2, <2>3, NoConversation DEF Accept
<1> QED  BY <1>1, <1>2

(* close() and free(): nothing is left of a connection to be handled, and  *)
(* its conversation was at an end.                                         *)
LEMMA FreeStep ==
  ASSUME IInv, NEW c \in conns, Free(c),
         batch' = batch \ {c}, hup' = hup \ {c}, handling' \subseteq handling \ {c},
         cl[c] \in {"closing", "ended"}, down[c] = <<>>, TypeOK',
         \A d \in Client \ {c} : conn'[d] = conn[d],
         serving, UNCHANGED <<clientVars, down, serving, backlog>>
  PROVE  IInv'
<1>0. TypeOK /\ Events /\ c \in Client
  BY DEF IInv, TypeOK
<1>1. \A d \in Client \ {c} : Same(d)
  BY <1>0 DEF Same, TypeOK, Free, clientVars
<1>2. link'[c] = "closed" /\ up'[c] = <<>> /\ down'[c] = <<>> /\ cl'[c] \in {"closing", "ended"}
  BY <1>0 DEF TypeOK, Free, clientVars
<1>3. Events'
  BY <1>0, <1>1 DEF Events, Free, Same, TypeOK
<1>4. ServerSurvives'
  <2>1. serving'
    OBVIOUS
  <2> QED  BY <2>1 DEF ServerSurvives
<1>5. Conversation(c)'
  BY <1>2 DEF Conversation, Empty, Reset, Broken
<1> QED  BY <1>0, <1>1, <1>3, <1>4, <1>5, OneConversation

LEMMA HandleStep ==
  ASSUME IInv, NEW c \in Client, handle_conn(c), serving
  PROVE  IInv'
<1>0. TypeOK /\ Events /\ Conversation(c) /\ c \in conns /\ handling = {}
  BY DEF IInv, handle_conn, Events
<1>1. CASE c \in hup
  <2>1. cl[c] = "ended" /\ down[c] = <<>>
    BY <1>0, <1>1 DEF Events, Conversation, Empty
  <2>2. TypeOK'
    BY <1>0, <1>1 DEF TypeOK, handle_conn, Free, clientVars, Links
  <2> QED  BY <1>0, <1>1, <2>1, <2>2, FreeStep DEF handle_conn, clientVars
<1>2. CASE c \notin hup
  <2>1. Events'
    BY <1>0, <1>2 DEF Events, handle_conn
  <2> QED  BY <1>2, <2>1, NoConversation DEF handle_conn
<1> QED  BY <1>1, <1>2

(* What the conversation is in when the server handles it.                 *)
LEMMA Handled ==
  ASSUME IInv, NEW c \in handling
  PROVE  /\ TypeOK /\ Events /\ c \in Client /\ c \in conns /\ c \notin batch
         /\ Conversation(c) /\ link[c] \in {"open", "fin"} \cup Reset
         /\ conn[c].phase \in {"MSG", "REPLY"}
BY DEF IInv, Events, TypeOK, Links, Reset, Broken, Conn

(* A write: a broken link is the only one that ends the server, and one on *)
(* which a client was killed with a question unread.                       *)
LEMMA SendMsgStep ==
  ASSUME IInv, NEW c \in Client, SendMsg(c), serving
  PROVE  IInv'
<1>0. c \in handling /\ conn[c].stage \in Stage /\ conn[c].phase = "MSG"
  BY DEF SendMsg
<1>1. TypeOK /\ Events /\ Conversation(c) /\ link[c] \in {"open", "fin", "rst", "rst_told"}
  BY <1>0, Handled DEF Conversation, Reset, Broken
<1>2. conn' = [conn EXCEPT ![c].phase = "REPLY"]
  BY DEF SendMsg
<1>3. /\ conn'[c].phase = "REPLY" /\ conn'[c].stage = conn[c].stage /\ conn'[c].lhs = conn[c].lhs
      /\ conn'[c].rhs = conn[c].rhs /\ conn'[c].op = conn[c].op /\ conn' \in [Client -> Conn]
  BY <1>1, <1>2 DEF TypeOK, Conn
<1>4. /\ cl' = cl /\ asked' = asked /\ typed' = typed /\ up' = up
      /\ down'[c] = IF link[c] = "open" THEN Append(down[c], Question(c)) ELSE down[c]
      /\ link'[c] = IF link[c] = "fin" THEN "fin_rst"
                    ELSE IF link[c] = "rst" THEN "rst_told" ELSE link[c]
  BY <1>1 DEF TypeOK, SendMsg, Write, Question, clientVars
<1>5. TypeOK'
  BY <1>1, <1>3 DEF TypeOK, SendMsg, Write, clientVars, Links
<1>6. \A d \in Client \ {c} : Same(d)
  BY <1>1, <1>2, <1>4 DEF Same, TypeOK, SendMsg, Write
<1>7. Events'
  <2>1. c \notin backlog
    BY <1>0, <1>1 DEF Events
  <2>2. \A d \in Client : /\ link'[d] \in {"none", "closed"} => link[d] \in {"none", "closed"}
                          /\ link[d] \in Reset => link'[d] \in Reset
                          /\ d \in backlog => conn'[d] = conn[d]
    BY <1>1, <1>4, <1>6, <2>1 DEF Same, Reset, Broken
  <2> QED  BY <1>1, <2>2 DEF Events, TypeOK, SendMsg, pollVars
<1>8. ServerSurvives'
  BY <1>1, <1>4 DEF ServerSurvives, SendMsg, Write, Broken
<1>9. Conversation(c)'
  <2>1. CASE link[c] = "open"
    <3>1. ToAsk(c)
      BY <1>0, <1>1, <2>1 DEF Conversation, Open, ToAsk, Asked, Answering, Quitting, Answered
    <3>2. down'[c] = <<Question(c)>>
      BY <1>4, <2>1, <3>1, OneItem DEF ToAsk, Empty
    <3>3. Question(c)' = Question(c)
      BY <1>3 DEF Question, calc_result
    <3>4. Given(c)' = Given(c)
      BY <1>3 DEF Given
    <3>5. Asked(c)'
      BY <1>3, <1>4, <3>1, <3>2, <3>3, <3>4 DEF Asked, ToAsk, Empty
    <3> QED  BY <1>0, <1>3, <1>4, <2>1, <3>5 DEF Conversation, Open, Reset, Broken
  <2>2. CASE link[c] = "fin"
    BY <1>0, <1>1, <1>3, <1>4, <2>2 DEF Conversation, Finished, Empty, Reset, Broken
  <2>3. CASE link[c] \in {"rst", "rst_told"}
    BY <1>1, <1>4, <2>3 DEF Conversation, Empty, Reset, Broken
  <2> QED  BY <1>1, <2>1, <2>2, <2>3
<1> QED  BY <1>5, <1>6, <1>7, <1>8, <1>9, OneConversation

LEMMA SendErrorStep ==
  ASSUME IInv, NEW c \in Client, SendError(c), serving
  PROVE  IInv'
<1>0. c \in handling /\ conn[c].stage = "ERROR"
  BY DEF SendError
<1>1. TypeOK /\ Events /\ Conversation(c) /\ link[c] \in {"rst", "rst_told"}
  BY <1>0, Handled DEF Conversation, Reset, Broken, Stage
<1>2. /\ clientVars' = clientVars /\ up' = up /\ down' = down
      /\ conn' = [conn EXCEPT ![c].stage = "LHS_ARG", ![c].phase = "MSG"]
      /\ link' = [link EXCEPT ![c] = "rst_told"]
  BY <1>1 DEF SendError, Write, TypeOK
<1>3. TypeOK'
  <2>1. conn' \in [Client -> Conn]
    <3>1. conn' = [conn EXCEPT ![c] = [@ EXCEPT !.stage = "LHS_ARG", !.phase = "MSG"]]
          /\ conn \in [Client -> Conn] /\ conn[c] \in Conn
      BY <1>1, <1>2 DEF TypeOK
    <3>2. [conn[c] EXCEPT !.stage = "LHS_ARG", !.phase = "MSG"] \in Conn
      BY <3>1 DEF Conn, Stage
    <3> QED  BY <3>1, <3>2
  <2>2. serving' \in BOOLEAN
    BY DEF SendError, Write
  <2> QED  BY <1>1, <1>2, <2>1, <2>2 DEF TypeOK, SendError, clientVars, Links
<1>4. \A d \in Client \ {c} : Same(d)
  BY <1>1, <1>2 DEF Same, TypeOK, clientVars
<1>5. Events'
  <2>1. c \notin backlog
    BY <1>0, <1>1 DEF Events
  <2> QED  BY <1>1, <1>2, <2>1 DEF Events, TypeOK, SendError, pollVars, Reset, Broken
<1>6. ServerSurvives' /\ link'[c] = "rst_told"
  BY <1>1, <1>2 DEF ServerSurvives, TypeOK
<1>7. Conversation(c)'
  BY <1>1, <1>2, <1>6 DEF Conversation, Empty, Reset, Broken, clientVars
<1> QED  BY <1>3, <1>4, <1>5, <1>6, <1>7, OneConversation

(* What a reply does to the connection: it is refused, or stored and       *)
(* followed by the next state, which knows one answer more or none.        *)
LEMMA StoreReply ==
  ASSUME TypeOK, NEW c \in Client, NEW m, NEW d \in Data,
         conn[c].stage \in Stage, conn[c].phase = "REPLY",
         Store(c, [recv_msg |-> m, data |-> d])
  PROVE  /\ conn' \in [Client -> Conn]
         /\ conn'[c].phase = "REPLY" => conn'[c].stage \in Stage
         /\ \A e \in Client \ {c} : conn'[e] = conn[e]
         /\ handling' \in {{}, handling}
         /\ handling' = {} => Ends(c, [recv_msg |-> m, data |-> d]) \/ handling = {}
         /\ Ends(c, [recv_msg |-> m, data |-> d]) => handling' = {} /\ conn' = conn
         /\ m # Message[conn[c].stage] => conn'[c].stage = "ERROR"
         /\ m = Message[conn[c].stage] /\ conn[c].stage # "RES"
              => /\ conn'[c].phase = "MSG" /\ conn'[c].stage \in Stage
                 /\ Given(c)' = Append(Given(c), d)
         /\ m = Message[conn[c].stage] /\ conn[c].stage = "RES" /\ d = "yes"
              => conn'[c].phase = "MSG" /\ conn'[c].stage = "LHS_ARG" /\ Given(c)' = <<>>
         /\ m = Message[conn[c].stage] /\ conn[c].stage = "RES" /\ d # "yes"
              => conn' = conn
<1> DEFINE s == conn[c].stage
<1> DEFINE r == [recv_msg |-> m, data |-> d]
<1>0. r.recv_msg = m /\ r.data = d /\ conn[c] \in Conn
  BY DEF TypeOK
<1>e. Ends(c, r) <=> m = "RET_RES" /\ d = "no" /\ s = "RES"
  BY DEF Ends
<1>h. handling' = IF m = Message[s] /\ s = "RES" /\ d = "no" THEN {} ELSE handling
  BY <1>0 DEF Store
<1>m. s = "RES" => Message[s] = "RET_RES"
  BY DEF Message
<1>1. CASE m # Message[s]
  <2>1. conn' = [conn EXCEPT ![c] = [@ EXCEPT !.stage = "ERROR", !.phase = "MSG"]]
    BY <1>0, <1>1 DEF Store
  <2>2. conn' \in [Client -> Conn]
    BY <1>0, <2>1 DEF TypeOK, Conn
  <2>3. conn'[c].stage = "ERROR" /\ conn'[c].phase = "MSG" /\ \A e \in Client \ {c} : conn'[e] = conn[e]
    BY <1>0, <2>1 DEF TypeOK, Conn
  <2> QED  BY <1>1, <1>e, <1>h, <1>m, <2>2, <2>3
<1>2. CASE m = Message[s] /\ s # "RES"
  <2>1. conn' = [conn EXCEPT ![c] = [@ EXCEPT !.stage = Out[s], !.phase = "MSG", ![Dest[s]] = d]]
    BY <1>0, <1>2 DEF Store
  <2>2. \A e \in Client \ {c} : conn'[e] = conn[e]
    BY <1>0, <2>1 DEF TypeOK
  <2>3. conn' \in [Client -> Conn] /\ conn'[c].phase = "MSG" /\ conn'[c].stage \in Stage
        /\ Given(c)' = Append(Given(c), d)
    <3>1. CASE s = "LHS_ARG"
      <4>0. Out[s] = "RHS_ARG" /\ Dest[s] = "lhs"
        BY <3>1 DEF Out, Dest
      <4>1. conn'[c] = [conn[c] EXCEPT !.stage = "RHS_ARG", !.phase = "MSG", !["lhs"] = d]
        BY <2>1, <4>0 DEF TypeOK
      <4>2. conn'[c] \in Conn /\ conn'[c].phase = "MSG" /\ conn'[c].stage = "RHS_ARG" /\ conn'[c].lhs = d
        BY <1>0, <4>1 DEF Conn, Stage
      <4>3. Given(c)' = <<d>> /\ Given(c) = <<>>
        BY <3>1, <4>2 DEF Given
      <4> QED  BY <2>1, <4>2, <4>3, OneItem DEF TypeOK, Stage
    <3>2. CASE s = "RHS_ARG"
      <4>0. Out[s] = "OP" /\ Dest[s] = "rhs"
        BY <3>2 DEF Out, Dest
      <4>1. conn'[c] = [conn[c] EXCEPT !.stage = "OP", !.phase = "MSG", !["rhs"] = d]
        BY <2>1, <4>0 DEF TypeOK
      <4>2. conn'[c] \in Conn /\ conn'[c].phase = "MSG" /\ conn'[c].stage = "OP"
            /\ conn'[c].rhs = d /\ conn'[c].lhs = conn[c].lhs
        BY <1>0, <4>1 DEF Conn, Stage
      <4>3. Given(c)' = <<conn[c].lhs, d>> /\ Given(c) = <<conn[c].lhs>>
        BY <3>2, <4>2 DEF Given
      <4> QED  BY <2>1, <4>2, <4>3, TwoItems DEF TypeOK, Stage
    <3>3. CASE s = "OP"
      <4>0. Out[s] = "RES" /\ Dest[s] = "op"
        BY <3>3 DEF Out, Dest
      <4>1. conn'[c] = [conn[c] EXCEPT !.stage = "RES", !.phase = "MSG", !["op"] = d]
        BY <2>1, <4>0 DEF TypeOK
      <4>2. conn'[c] \in Conn /\ conn'[c].phase = "MSG" /\ conn'[c].stage = "RES"
            /\ conn'[c].op = d /\ conn'[c].lhs = conn[c].lhs /\ conn'[c].rhs = conn[c].rhs
        BY <1>0, <4>1 DEF Conn, Stage
      <4>3. Given(c)' = <<conn[c].lhs, conn[c].rhs, d>> /\ Given(c) = <<conn[c].lhs, conn[c].rhs>>
        BY <3>3, <4>2 DEF Given
      <4> QED  BY <2>1, <4>2, <4>3, ThreeItems DEF TypeOK, Stage
    <3> QED  BY <1>2, <3>1, <3>2, <3>3 DEF Stage
  <2> QED  BY <1>2, <1>e, <1>h, <2>2, <2>3
<1>3. CASE m = Message[s] /\ s = "RES" /\ d = "yes"
  <2>1. conn' = [conn EXCEPT ![c] = [@ EXCEPT !.stage = "LHS_ARG", !.phase = "MSG", !["cont"] = d]]
    <3>1. Dest[s] = "cont" /\ s = "RES" /\ d = "yes"
      BY <1>3 DEF Dest
    <3>2. conn' = [conn EXCEPT ![c] = [@ EXCEPT !.stage = "LHS_ARG", !.phase = "MSG", ![Dest[s]] = d]]
      BY <1>0, <1>3 DEF Store
    <3> QED  BY <3>1, <3>2
  <2>2. conn' \in [Client -> Conn] /\ \A e \in Client \ {c} : conn'[e] = conn[e]
    BY <1>0, <2>1 DEF TypeOK, Conn, Stage
  <2>3. conn'[c].phase = "MSG" /\ conn'[c].stage = "LHS_ARG" /\ Given(c)' = <<>>
    BY <1>0, <2>1 DEF TypeOK, Conn, Given
  <2> QED  BY <1>3, <1>e, <1>h, <2>2, <2>3
<1>4. CASE m = Message[s] /\ s = "RES" /\ d # "yes"
  <2>1. conn' = conn
    BY <1>0, <1>4 DEF Store
  <2> QED  BY <1>4, <1>e, <1>h, <1>m, <2>1 DEF TypeOK
<1> QED  BY <1>1, <1>2, <1>3, <1>4

LEMMA WouldBlockStep ==
  ASSUME IInv, NEW c \in Client, WouldBlock(c), serving
  PROVE  IInv'
<1>1. Events'
  BY DEF WouldBlock, IInv, Events
<1> QED  BY <1>1, NoConversation DEF WouldBlock

LEMMA EndOfStreamStep ==
  ASSUME IInv, NEW c \in Client, EndOfStream(c), serving
  PROVE  IInv'
<1>0. c \in handling /\ Free(c) /\ handling' = {} /\ link[c] \in {"fin", "fin_rst", "rst_told"}
  BY DEF EndOfStream, Receiving, Broken
<1>1. TypeOK /\ Events /\ Conversation(c) /\ c \in conns /\ c \notin batch /\ c \notin hup
  BY <1>0, Handled DEF Events
<1>2. cl[c] = "ended" /\ down[c] = <<>>
  BY <1>0, <1>1 DEF Conversation, Empty, Reset, Broken
<1>3. TypeOK'
  BY <1>0, <1>1 DEF TypeOK, EndOfStream, Free, clientVars, Links
<1> QED  BY <1>1, <1>2, <1>3, FreeStep DEF EndOfStream

(* A read takes the one answer that can be there: that to the question     *)
(* asked last, by which the server has what its user has typed.            *)
LEMMA ReadReplyStep ==
  ASSUME IInv, NEW c \in Client, ReadReply(c), serving
  PROVE  IInv'
<1>0. /\ c \in handling /\ conn[c].phase = "REPLY" /\ up[c] # <<>>
      /\ UNCHANGED <<clientVars, down, serving, backlog, batch, hup, accepting>>
  BY DEF ReadReply, Receiving
<1>1. TypeOK /\ Events /\ Conversation(c) /\ c \in conns /\ c \notin batch /\ c \notin hup
  BY <1>0, Handled DEF Events
<1>2. /\ link[c] \in {"open", "fin"} /\ conn[c].stage \in Stage /\ down[c] = <<>>
      /\ link[c] = "open" => Answered(c)
      /\ \E d \in Data : up[c] = ReplyOf(c, d)
  <2>1. link[c] \in {"open", "fin"} /\ conn[c].stage \in Stage
    BY <1>0, <1>1, Handled DEF Conversation, Empty, Reset, Broken
  <2>2. CASE link[c] = "open"
    <3>1. Answered(c)
      BY <1>0, <1>1, <2>2 DEF Conversation, Open, ToAsk, Asked, Answering, Quitting, Empty
    <3> QED  BY <2>1, <2>2, <3>1 DEF Answered
  <2>3. CASE link[c] = "fin"
    BY <1>0, <1>1, <2>1, <2>3 DEF Conversation, Finished
  <2> QED  BY <2>1, <2>2, <2>3
<1>3. PICK d \in Data :
        /\ up[c] = ReplyOf(c, d)
        /\ link[c] = "open" =>
             \/ conn[c].stage # "RES" /\ cl[c] = "read" /\ typed[c] = Append(Given(c), d)
             \/ conn[c].stage = "RES" /\ cl[c] = "read" /\ d = "yes" /\ typed[c] = <<>>
             \/ conn[c].stage = "RES" /\ cl[c] = "closing" /\ d = "no"
  BY <1>2 DEF Answered
<1> DEFINE r == [recv_msg |-> Message[conn[c].stage], data |-> d]
<1>4. Head(up[c]) = r /\ Tail(up[c]) = <<>>
  BY <1>3, OneItem DEF ReplyOf
<1>5. /\ Store(c, r)
      /\ IF Ends(c, r)
         THEN Free(c)
         ELSE up' = [up EXCEPT ![c] = <<>>] /\ UNCHANGED <<conns, ready, link>>
  BY <1>4 DEF ReadReply
<1>6. /\ conn' \in [Client -> Conn]
      /\ conn'[c].phase = "REPLY" => conn'[c].stage \in Stage
      /\ \A e \in Client \ {c} : conn'[e] = conn[e]
      /\ handling' \in {{}, handling}
      /\ handling' = {} => Ends(c, r)
      /\ Ends(c, r) => handling' = {} /\ conn' = conn
      /\ conn[c].stage # "RES"
           => /\ conn'[c].phase = "MSG" /\ conn'[c].stage \in Stage
              /\ Given(c)' = Append(Given(c), d)
      /\ conn[c].stage = "RES" /\ d = "yes"
           => conn'[c].phase = "MSG" /\ conn'[c].stage = "LHS_ARG" /\ Given(c)' = <<>>
      /\ conn[c].stage = "RES" /\ d # "yes" => conn' = conn
  BY <1>0, <1>1, <1>2, <1>5, StoreReply
<1>7. CASE Ends(c, r)
  <2>1. cl[c] \in {"closing", "ended"}
    <3>1. conn[c].stage = "RES" /\ d = "no"
      BY <1>7 DEF Ends
    <3> QED  BY <1>1, <1>2, <1>3, <3>1 DEF Conversation
  <2>2. TypeOK'
    BY <1>0, <1>1, <1>5, <1>6, <1>7 DEF TypeOK, Free, clientVars, Links
  <2> QED  BY <1>0, <1>1, <1>2, <1>5, <1>6, <1>7, <2>1, <2>2, FreeStep
<1>8. CASE ~Ends(c, r)
  <2>1. up' = [up EXCEPT ![c] = <<>>] /\ UNCHANGED <<conns, ready, link>> /\ handling' = handling
    BY <1>5, <1>6, <1>8
  <2>2. TypeOK'
    BY <1>0, <1>1, <1>6, <2>1 DEF TypeOK, clientVars
  <2>3. Events'
    BY <1>0, <1>1, <1>6, <2>1 DEF Events, TypeOK
  <2>4. ServerSurvives'
    BY <1>0 DEF ServerSurvives
  <2>5. \A e \in Client \ {c} : Same(e)
    BY <1>0, <1>1, <1>6, <2>1 DEF Same, TypeOK, clientVars
  <2>6. up'[c] = <<>> /\ down'[c] = <<>> /\ cl'[c] = cl[c] /\ typed'[c] = typed[c] /\ link'[c] = link[c]
    BY <1>0, <1>1, <1>2, <2>1 DEF TypeOK, clientVars
  <2>7. conn'[c].stage \in Stage
    BY <1>2, <1>6 DEF Stage
  <2>8. link[c] = "open" => ToAsk(c)'
    <3>1. ~(conn[c].stage = "RES" /\ d = "no")
      BY <1>8 DEF Ends, Message
    <3> QED  BY <1>3, <1>6, <2>6, <3>1 DEF ToAsk, Empty
  <2>9. link[c] = "fin" => cl[c] = "ended"
    BY <1>1 DEF Conversation
  <2>10. Conversation(c)'
    BY <1>2, <2>6, <2>7, <2>8, <2>9 DEF Conversation, Open, Finished, Reset, Broken
  <2> QED  BY <2>2, <2>3, <2>4, <2>5, <2>10, OneConversation
<1> QED  BY <1>7, <1>8

(* A read that fails takes anything for an answer, but the client is gone  *)
(* and nobody is told any more.                                            *)
LEMMA ReadFailsStep ==
  ASSUME IInv, NEW c \in Client, ReadFails(c), serving
  PROVE  IInv'
<1>0. /\ c \in handling /\ conn[c].phase = "REPLY" /\ link[c] = "rst"
      /\ UNCHANGED <<clientVars, down, serving, backlog, batch, hup, accepting>>
  BY DEF ReadFails, Receiving
<1>1. TypeOK /\ Events /\ Conversation(c) /\ c \in conns /\ c \notin batch /\ c \notin hup
  BY <1>0, Handled DEF Events
<1>2. cl[c] = "ended" /\ down[c] = <<>> /\ up[c] = <<>> /\ conn[c].stage \in Stage
  BY <1>0, <1>1 DEF Conversation, Empty, Reset, Broken, TypeOK
<1>3. PICK m \in {Message[conn[c].stage], "other"}, d \in Data :
        /\ Store(c, [recv_msg |-> m, data |-> d])
        /\ IF Ends(c, [recv_msg |-> m, data |-> d])
           THEN Free(c)
           ELSE link' = [link EXCEPT ![c] = "rst_told"] /\ UNCHANGED <<conns, ready, up>>
  <2>1. PICK r \in Garbage(conn[c].stage) :
          /\ Store(c, r)
          /\ IF Ends(c, r)
             THEN Free(c)
             ELSE link' = [link EXCEPT ![c] = "rst_told"] /\ UNCHANGED <<conns, ready, up>>
    BY DEF ReadFails
  <2>2. r = [recv_msg |-> r.recv_msg, data |-> r.data]
        /\ r.recv_msg \in {Message[conn[c].stage], "other"} /\ r.data \in Data
    BY DEF Garbage, Data
  <2> QED  BY <2>1, <2>2
<1> DEFINE r == [recv_msg |-> m, data |-> d]
<1>4. /\ conn' \in [Client -> Conn]
      /\ conn'[c].phase = "REPLY" => conn'[c].stage \in Stage
      /\ \A e \in Client \ {c} : conn'[e] = conn[e]
      /\ handling' \in {{}, handling}
      /\ Ends(c, r) => handling' = {}
  BY <1>0, <1>1, <1>2, <1>3, StoreReply
<1>5. CASE Ends(c, r)
  <2>1. TypeOK'
    BY <1>0, <1>1, <1>3, <1>4, <1>5 DEF TypeOK, Free, clientVars, Links
  <2> QED  BY <1>0, <1>1, <1>2, <1>3, <1>4, <1>5, <2>1, FreeStep
<1>6. CASE ~Ends(c, r)
  <2>1. link' = [link EXCEPT ![c] = "rst_told"] /\ UNCHANGED <<conns, ready, up>>
    BY <1>3, <1>6
  <2>2. TypeOK'
    BY <1>0, <1>1, <1>4, <2>1 DEF TypeOK, clientVars, Links
  <2>3. Events'
    BY <1>0, <1>1, <1>4, <2>1 DEF Events, TypeOK, Reset, Broken
  <2>4. ServerSurvives'
    BY <1>0 DEF ServerSurvives
  <2>5. \A e \in Client \ {c} : Same(e)
    BY <1>0, <1>1, <1>4, <2>1 DEF Same, TypeOK, clientVars
  <2>6. Conversation(c)'
    BY <1>0, <1>1, <1>2, <2>1 DEF Conversation, Empty, Reset, Broken, TypeOK, clientVars
  <2> QED  BY <2>2, <2>3, <2>4, <2>5, <2>6, OneConversation
<1> QED  BY <1>5, <1>6

-----------------------------------------------------------------------------
LEMMA StepKeeps == IInv /\ [Next]_vars => IInv'
<1> SUFFICES ASSUME IInv, [Next]_vars PROVE IInv'
  OBVIOUS
<1>1. CASE Next
  BY <1>1, ConnectStep, ReadMsgStep, ReplyStep, InvalidOpStep, LeaveStep, LoopStep, HandleStep,
     SendMsgStep, SendErrorStep, ReadReplyStep, WouldBlockStep, EndOfStreamStep, ReadFailsStep
     DEF Next, Server, User
<1>2. CASE UNCHANGED vars
  <2>1. Events'
    BY <1>2 DEF vars, clientVars, pollVars, IInv, Events
  <2> QED  BY <1>2, <2>1, NoConversation DEF vars, clientVars
<1> QED  BY <1>1, <1>2

LEMMA AlwaysIInv == Spec => []IInv
BY InitEstablishes, StepKeeps, PTL DEF Spec

(* In every reachable state, with any number of clients and of events that *)
(* epoll_wait returns together, what the server still has to handle is a   *)
(* connection it has not freed (the pointers in the events, server.c).     *)
THEOREM AlwaysAllocated == Spec => []NoUseAfterFree
<1>1. IInv => NoUseAfterFree
  BY DEF IInv, Events, NoUseAfterFree
<1> QED  BY <1>1, AlwaysIInv, PTL

(* On every connection there is at most one message or reply to be read.   *)
THEOREM AlwaysOneUnderWay == Spec => []OneUnderWay
<1>1. IInv => OneUnderWay
  <2> SUFFICES ASSUME IInv, NEW c \in Client PROVE Len(down[c]) + Len(up[c]) <= 1
    BY DEF OneUnderWay
  <2>1. Conversation(c) /\ link[c] \in Links
    BY DEF IInv, TypeOK
  <2>2. \/ down[c] = <<>> /\ up[c] = <<>>
        \/ down[c] = <<Question(c)>> /\ up[c] = <<>>
        \/ down[c] = <<>> /\ \E d \in Data : up[c] = ReplyOf(c, d)
    BY <2>1 DEF Conversation, Links, Reset, Broken, Open, ToAsk, Asked, Answering, Quitting,
                Answered, Finished, Empty
  <2>3. Len(<<>>) = 0 /\ \A x : Len(<<x>>) = 1
    BY OneItem
  <2>4. CASE down[c] = <<>> /\ up[c] = <<>>
    BY <2>3, <2>4
  <2>5. CASE down[c] = <<Question(c)>> /\ up[c] = <<>>
    <3>1. Len(down[c]) = 1 /\ Len(up[c]) = 0
      BY <2>3, <2>5
    <3> QED  BY <3>1
  <2>6. CASE down[c] = <<>> /\ \E d \in Data : up[c] = ReplyOf(c, d)
    <3>1. Len(down[c]) = 0 /\ Len(up[c]) = 1
      BY <2>3, <2>6 DEF ReplyOf
    <3> QED  BY <3>1
  <2> QED  BY <2>2, <2>4, <2>5, <2>6
<1> QED  BY <1>1, AlwaysIInv, PTL

(* A user is only ever shown the result of what he typed since the last    *)
(* one, however the server's steps for him and others are mixed (conn.c).  *)
THEOREM AlwaysResultOfTyped == Spec => []ResultOfTyped
<1>1. IInv => ResultOfTyped
  <2> SUFFICES ASSUME IInv, NEW c \in Client, cl[c] = "reply", asked[c].kind = "RET_RES"
               PROVE  asked[c].data = typed[c]
    BY DEF ResultOfTyped
  <2>1. Answering(c) /\ conn[c].stage \in Stage
    BY ClientOpen DEF IInv, Open, ToAsk, Asked, Answering, Quitting, Answered
  <2>2. conn[c].stage = "RES"
    BY <2>1 DEF Answering, Question, Message, Stage
  <2> QED  BY <2>1, <2>2 DEF Answering, Question, calc_result, Given
<1> QED  BY <1>1, AlwaysIInv, PTL

(* The server closes no connection whose client still wants to go on.      *)
THEOREM NeverHangsUp == Spec => []NoHangup
<1>1. IInv => NoHangup
  BY DEF IInv, Conversation, NoHangup
<1> QED  BY <1>1, AlwaysIInv, PTL

(* The server is only ever ended by a client that was killed with a        *)
(* question on its way to it (the error of read() at conn.c:51).           *)
THEOREM AlwaysSurvives == Spec => []ServerSurvives
<1>1. IInv => ServerSurvives
  BY DEF IInv
<1> QED  BY <1>1, AlwaysIInv, PTL
=============================================================================
