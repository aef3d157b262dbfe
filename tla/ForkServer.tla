------------------------------ MODULE ForkServer ------------------------------
(***************************************************************************)
(* task15 and task16: a server that forks a process for every client and   *)
(* leads the conversation: it sends a request, the client asks its user    *)
(* and answers.  An operation is a calculation or, in task16 only, a file, *)
(* which the server sends in pieces and ends by a mark, "\r\n", that the   *)
(* client looks for at the end of each of its reads.                       *)
(*                                                                         *)
(* Conversations share nothing, so this is one of them, from accept() on.  *)
(* A request or an answer arrives whole; the bytes of a file do not.       *)
(***************************************************************************)
EXTENDS Integers, Sequences, SequencesExt

CONSTANTS BufSize,    \* the buffers of server and client, 4 KiB in the code
          MaxFile,    \* bound: the length of a file
          SockCap     \* how many requests and bytes, or answers, are on the way

ASSUME SizeAssumption == /\ BufSize \in Nat \ {0} /\ MaxFile \in Nat
                         /\ SockCap \in Nat /\ SockCap >= BufSize /\ SockCap > 1

Byte    == {"cr", "lf", "x"}
File    == UNION {[1 .. n -> Byte] : n \in 0 .. MaxFile}
EndMark == <<"cr", "lf">>
Missing == <<"missing">>    \* a name that cannot be opened or read

VARIABLES task,    \* 15 or 16
          srv,     \* what the server's process does, and for which request
          rest,    \* of the file that is sent, what was not read yet
          cli,     \* what the client does
          file,    \* the file its user named last
          out,     \* the file it has received
          down,    \* from server to client: requests and bytes
          up       \* from client to server: answers

forkVars == <<task, srv, rest, cli, file, out, down, up>>

Ended == {<<"ended", "refused">>, <<"ended", "failed">>}
Gone  == cli \in {"left", "exited"}

(* The client is connected, if only by the queue of listen(). *)
ForkInit ==
  /\ task \in {15, 16}
  /\ srv = <<"accept", "op">>
  /\ rest = <<>>
  /\ cli = "read"
  /\ file = Missing
  /\ out = <<>>
  /\ down = <<>>
  /\ up = <<>>

-----------------------------------------------------------------------------
(* The server. *)

(* A fork that fails ends the server and closes what it had accepted. *)
Accept ==
  /\ srv = <<"accept", "op">>
  /\ srv' \in {<<"ask", "op">>, <<"ended", "failed">>}
  /\ UNCHANGED <<task, rest, cli, file, out, down, up>>

(* What is written for a client that is gone makes its kernel reset. *)
Reset == Gone /\ down # <<>>

(* write() waits for room; after a reset it fails, or SIGPIPE kills. *)
Write(tokens, next) ==
  /\ \/ srv' = next
     \/ Reset /\ srv' = <<"ended", "failed">>
  /\ IF Gone THEN down' = <<"RST">>
             ELSE Len(down \o tokens) <= SockCap /\ down' = down \o tokens

Request == [op |-> "GET_OP", lhs |-> "GET_ARG", rhs |-> "GET_ARG",
            result |-> "OP_RESULT", name |-> "GET_FILENAME",
            again |-> "START_FILE_SENDING"]

(* The first half of do_request(). *)
Ask(s) ==
  /\ srv = <<"ask", s>>
  /\ Write(<<Request[s]>>, <<"wait", s>>)
  /\ UNCHANGED <<task, rest, cli, file, out, up>>

(* What the server does with an answer a; it reads any as what it asked for. *)
Next15(s, a) ==
  CASE s = "op"                    -> <<"ask", "lhs">>
    [] s = "lhs"                   -> <<"ask", "rhs">>
    [] s = "rhs"                   -> <<"ask", "result">>
    [] s = "result" /\ a = "stop"  -> <<"ended", "refused">>
    [] s = "result" /\ a # "stop"  -> <<"ask", "op">>

(* After a file `break' leaves the switch only: it asks once more, by the  *)
(* request that is still START_FILE_SENDING.                               *)
Next16(s, a) ==
  CASE s = "op" /\ a = "file"      -> <<"ask", "name">>
    [] s = "name"                  -> <<"start", "file">>
    [] s = "quit" /\ a = "stop"    -> <<"ask", "again">>
    [] s = "quit" /\ a # "stop"    -> <<"ask", "op">>
    [] s = "again"                 -> Next15("result", a)
    [] OTHER                       -> Next15(s, a)

AfterAnswer(s, a) == IF task = 15 THEN Next15(s, a) ELSE Next16(s, a)

(* The second half of do_request(), and the read after a file (s = "quit"). *)
ReadAnswer(s) ==
  /\ srv = <<"wait", s>> /\ up # <<>>
  /\ srv' = AfterAnswer(s, Head(up))
  /\ up' = Tail(up)
  /\ rest' = CASE s = "name" /\ Head(up) = "name" -> file
              [] s = "name" /\ Head(up) # "name" -> Missing
              [] OTHER                           -> rest
  /\ UNCHANGED <<task, cli, file, out, down>>

(* Bug: do_request does not look at how much it has read. *)
EndOfStreamUnchecked(s) ==
  /\ srv = <<"wait", s>> /\ up = <<>> /\ Gone
  /\ srv' = AfterAnswer(s, "arg")
  /\ UNCHANGED <<task, rest, cli, file, out, down, up>>

(* A read of 0 bytes fails in do_request; after a file it leaves the old   *)
(* response, the file's name, whose first bytes are read as `stop'.        *)
EndOfStream(s) ==
  /\ srv = <<"wait", s>> /\ Gone
  /\ \/ /\ up = <<>>
        /\ srv' = IF s = "quit" THEN AfterAnswer(s, "stop") ELSE <<"ended", "failed">>
     \/ /\ Reset
        /\ srv' = <<"ended", "failed">>
  /\ UNCHANGED <<task, rest, cli, file, out, down, up>>

StartFileSending ==
  /\ srv = <<"start", "file">>
  /\ Write(<<"START_FILE_SENDING">>, <<"open", "file">>)
  /\ UNCHANGED <<task, rest, cli, file, out, up>>

(* The file is opened when the client has been told that it comes. *)
OpenFile ==
  /\ srv = <<"open", "file">>
  /\ srv' = IF rest \in File THEN <<"send", "file">> ELSE <<"ended", "failed">>
  /\ UNCHANGED <<task, rest, cli, file, out, down, up>>

SmallerOf(m, n) == IF m < n THEN m ELSE n

SendPiece ==
  LET n == SmallerOf(BufSize, Len(rest))
  IN  /\ srv = <<"send", "file">> /\ rest # <<>>
      /\ Write(SubSeq(rest, 1, n), srv)
      /\ rest' = SubSeq(rest, n + 1, Len(rest))
      /\ UNCHANGED <<task, cli, file, out, up>>

(* Bug: the server does not wait for the client's answer to the file. *)
SendEndMarkOnly ==
  /\ srv = <<"send", "file">> /\ rest = <<>>
  /\ Write(EndMark, <<"ask", "op">>)
  /\ UNCHANGED <<task, rest, cli, file, out, up>>

SendEndMark ==
  /\ srv = <<"send", "file">> /\ rest = <<>>
  /\ Write(EndMark, <<"wait", "quit">>)
  /\ UNCHANGED <<task, rest, cli, file, out, up>>

Stages == {"op", "lhs", "rhs", "result", "name", "quit", "again"}

Server == \/ Accept \/ StartFileSending \/ OpenFile \/ SendPiece \/ SendEndMark
          \/ \E s \in Stages : Ask(s) \/ ReadAnswer(s) \/ EndOfStream(s)

-----------------------------------------------------------------------------
(* The client. *)

(* A read of 0 bytes is not noticed: the request is an old one, or never   *)
(* was any.  Nor is it noticed that what was read is a piece of a file.    *)
ReadRequest ==
  /\ cli = "read"
  /\ \/ /\ down # <<>> /\ Head(down) \notin Byte
        /\ cli' = Head(down)
        /\ down' = Tail(down)
     \/ /\ down # <<>> /\ Head(down) \in Byte
        /\ cli' = "astray"
        /\ \E n \in 1 .. Len(down) : down' = SubSeq(down, n + 1, Len(down))
     \/ /\ down = <<>> /\ srv \in Ended
        /\ cli' = "astray"
        /\ UNCHANGED down
  /\ UNCHANGED <<task, srv, rest, file, out, up>>

Send(a, next) == Len(up) < SockCap /\ up' = Append(up, a) /\ cli' = next

(* close(), also by the kernel; unread data make it a reset. *)
Close(how) == cli' = how /\ down' = IF down = <<>> THEN <<>> ELSE <<"RST">>

(* scanf() by scanf(), then the write(). *)
AnswerOp ==
  /\ cli = "GET_OP"
  /\ \/ Send("calc", "read") /\ UNCHANGED down
     \/ task = 16 /\ Send("file", "read") /\ UNCHANGED down
     \/ Close("exited") /\ UNCHANGED up    \* "invalid operator"
  /\ UNCHANGED <<task, srv, rest, file, out>>

AnswerArg ==
  /\ cli = "GET_ARG"
  /\ Send("arg", "read")
  /\ UNCHANGED <<task, srv, rest, file, out, down>>

AnswerFilename ==
  /\ cli = "GET_FILENAME"
  /\ file' \in File \cup {Missing}
  /\ Send("name", "read")
  /\ UNCHANGED <<task, srv, rest, out, down>>

(* "quit (1 - yes, 0 - no)", after a result and after a file. *)
AnswerStop ==
  /\ cli \in {"OP_RESULT", "quit"}
  /\ \/ Send("stop", "leave")
     \/ Send("go", "read")
  /\ UNCHANGED <<task, srv, rest, file, out, down>>

Leave ==
  /\ cli = "leave" /\ Close("left")
  /\ UNCHANGED <<task, srv, rest, file, out, up>>

(* "out filename"; a file that cannot be opened ends the client. *)
OpenOut ==
  /\ cli = "START_FILE_SENDING"
  /\ \/ cli' = "file" /\ out' = <<>> /\ UNCHANGED down
     \/ Close("exited") /\ UNCHANGED out
  /\ UNCHANGED <<task, srv, rest, file, up>>

(* Bug: the last byte of the mark is taken for the whole of it. *)
IsEndByLast(buf) == Len(buf) > 1 /\ Last(buf) = "lf"

(* Bug: the mark is not found when it comes alone. *)
IsEndTooLong(buf) == Len(buf) > 2 /\ IsSuffix(EndMark, buf)

(* Is the end of what one read() returned the mark? *)
IsEnd(buf) == IsSuffix(EndMark, buf)

(* A read of 0 bytes, when the server could not open the file, is written  *)
(* and followed by the next, for ever.                                     *)
ReceiveFile ==
  /\ cli = "file" /\ down # <<>>
  /\ \E n \in 1 .. SmallerOf(BufSize, Len(down)) :
       LET buf == SubSeq(down, 1, n)
       IN  /\ down' = SubSeq(down, n + 1, Len(down))
           /\ IF IsEnd(buf)
              THEN cli' = "quit" /\ out' = out \o SubSeq(buf, 1, n - 2)
              ELSE UNCHANGED cli /\ out' = out \o buf
  /\ UNCHANGED <<task, srv, rest, file, up>>

Answers == {"calc", "file", "arg", "name", "stop", "go"}

(* A client that has taken something else for a request reads on anywhere  *)
(* and answers anything, until it leaves or finds the server gone.         *)
Astray ==
  /\ cli = "astray"
  /\ \/ /\ \E n \in 1 .. Len(down) : down' = SubSeq(down, n + 1, Len(down))
        /\ \E a \in Answers : Send(a, "astray") \/ Send(a, "leave")
     \/ Close("exited") /\ UNCHANGED up
  /\ UNCHANGED <<task, srv, rest, file, out>>

(* The user's Ctrl-C. *)
Killed ==
  /\ ~Gone /\ Close("exited")
  /\ UNCHANGED <<task, srv, rest, file, out, up>>

User == AnswerOp \/ AnswerArg \/ AnswerFilename \/ AnswerStop \/ OpenOut

Client == ReadRequest \/ ReceiveFile \/ Leave

ForkNext == Server \/ Client \/ User \/ Astray \/ Killed

ForkSpec == ForkInit /\ [][ForkNext]_forkVars

(* The kernel runs both programs; nobody makes the user answer or leave. *)
ForkFairSpec == ForkSpec /\ WF_forkVars(Server) /\ WF_forkVars(Client)

-----------------------------------------------------------------------------
HasMark(f) == \E i \in 1 .. Len(f) - 1 : SubSeq(f, i, i + 1) = EndMark

(* The stages in which the server waits for what the user is asked. *)
Awaiting == IF cli = "quit" THEN {"quit"} ELSE {s \in DOMAIN Request : Request[s] = cli}

(***************************************************************************)
(* The two never talk at cross purposes: when the client's user is asked   *)
(* something, the server waits for just that and nothing else is on the    *)
(* way, also after a file, unless the file has the mark inside: the server *)
(* knows the end of a file and the client has to find it.                  *)
(***************************************************************************)
InStep ==
  \/ cli \in {"GET_OP", "GET_ARG", "OP_RESULT", "GET_FILENAME"}
  \/ cli = "quit" /\ ~HasMark(file)
  => srv \in {<<"wait", s>> : s \in Awaiting} /\ down = <<>> /\ up = <<>>

(***************************************************************************)
(* When the client says that the file has come, it has the whole file and  *)
(* no byte more, in whatever pieces it came, unless the file has the mark  *)
(* inside.                                                                 *)
(***************************************************************************)
WholeFile == cli = "quit" => out = file \/ HasMark(file)

(***************************************************************************)
(* A client that waits for a request gets one; and one that receives a     *)
(* file comes to its end, but for two cases: the file is missing, or the   *)
(* mark comes in two reads, of which the first ends in its first byte.     *)
(***************************************************************************)
ClientGoesOn ==
  /\ cli = "read" ~> cli # "read"
  /\ cli = "file" /\ file # Missing /\ Len(out) <= Len(file)
       ~> (cli # "file" \/ Len(out) = Len(file) + 1)

(***************************************************************************)
(* When the client is gone, wherever it was killed, the server's process   *)
(* for it ends, so that they do not pile up.                               *)
(***************************************************************************)
ChildEnds == Gone ~> srv \in Ended
=============================================================================
