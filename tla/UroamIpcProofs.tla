--------------------------- MODULE UroamIpcProofs ---------------------------
(* For any set of clients: UroamIpc keeps its types, and what send_command     *)
(* returns belongs to the caller's command and to what was done with it.       *)
EXTENDS UroamIpc, TLAPS

Queued(c)   == \E i \in 1..Len(backlog) : backlog[i] = c
InFlight(c) == server.client = c \/ Queued(c)

\* A connection is queued or being served at most once.
ServedOnce ==
  /\ \A i, j \in 1..Len(backlog) : backlog[i] = backlog[j] => i = j
  /\ \A c \in Clients : ~(server.client = c /\ Queued(c))

\* Until the server is through with a connection it is open, carries no reply,
\* and its client has no result.
Untouched(c) ==
  /\ ~sock[c].closed /\ sock[c].reply = "none"
  /\ client[c].at \in {"connected", "half", "waiting", "gone"}

OpenInFlight == \A c \in Clients : InFlight(c) => Untouched(c)

\* Answer a to a command is true of what was done with it, r.
TellsTruth(a, cmd, r) ==
  /\ a = "ok" => IF cmd = "Stub" THEN r = "nothing" ELSE r = "done"
  /\ a = "refused" => r = "failed"

\* An answer on its way tells what was done.
AnswerMatches ==
  /\ server.at = "reply" =>
       TellsTruth(server.answer, client[server.client].cmd, ran[server.client])
  /\ \A c \in Clients : TellsTruth(sock[c].reply, client[c].cmd, ran[c])

IndInv == TypeOK /\ ServedOnce /\ OpenInFlight /\ AnswerMatches /\ AnswersTrue

USE IpcAssumption

-----------------------------------------------------------------------------
\* What the steps make of a connection is well typed.
LEMMA SockSteps ==
  /\ Fresh \in SockType
  /\ \A s \in SockType :
       /\ [s EXCEPT !.body = TRUE] \in SockType
       /\ [s EXCEPT !.newline = TRUE] \in SockType
       /\ [s EXCEPT !.left = TRUE] \in SockType
       /\ [s EXCEPT !.closed = TRUE] \in SockType
       /\ \A r \in {"none", "body", "all"} : [s EXCEPT !.read = r] \in SockType
       /\ \A a \in {"none", "ok", "refused"} :
            [s EXCEPT !.reply = a, !.closed = TRUE] \in SockType
  BY DEF Fresh, SockType

\* What they make of the server record.
LEMMA ServerSteps ==
  /\ Listening \in ServerType
  /\ \A s \in ServerType, c \in Clients :
       [s EXCEPT !.at = "read", !.client = c] \in ServerType
  /\ \A s \in ServerType : [s EXCEPT !.at = "execute"] \in ServerType
  /\ \A s \in ServerType, a \in {"ok", "refused"} :
       [s EXCEPT !.at = "reply", !.answer = a] \in ServerType
  BY DEF Listening, ServerType

ClientPlaces == {"idle", "connected", "half", "waiting", "ok", "refused", "error", "gone"}

\* What they make of a client record.
LEMMA ClientSteps ==
  /\ \A a \in ClientPlaces, cmd \in Command : [at |-> a, cmd |-> cmd] \in ClientType
  /\ \A k \in ClientType, a \in ClientPlaces : [k EXCEPT !.at = a] \in ClientType
  BY DEF ClientType, ClientPlaces

\* A client that only changes its place in send_command.
LEMMA MovesType ==
  ASSUME TypeOK, NEW c \in Clients, NEW at \in ClientPlaces, Moves(c, at)
  PROVE  client' \in [Clients -> ClientType]
<1>1. [client[c] EXCEPT !.at = at] \in ClientType
  BY ClientSteps DEF TypeOK
<1>2. client' = [client EXCEPT ![c] = [client[c] EXCEPT !.at = at]]
  BY DEF Moves, TypeOK
<1> QED BY <1>1, <1>2 DEF TypeOK

\* send_command returns to a client with a result that is a result.
LEMMA ReturnsType ==
  ASSUME TypeOK, NEW c \in Clients, NEW at \in ClientPlaces, Returns(c, at)
  PROVE  /\ client' \in [Clients -> ClientType] /\ sock' \in [Clients -> SockType]
         /\ ran' \in [Clients -> {"no", "done", "nothing", "failed"}]
<1>1. client' \in [Clients -> ClientType]
  BY MovesType DEF Returns
<1> QED BY <1>1, SockSteps DEF Returns, TypeOK

\* The end of the process, from Shutdown or from main.
LEMMA EndsType ==
  ASSUME TypeOK, ProcessEnds
  PROVE  /\ up' \in BOOLEAN /\ server' \in ServerType /\ backlog' \in Seq(Clients)
         /\ server'.at = "accept" /\ server'.client = Nobody
         /\ sock' \in [Clients -> SockType]
<1>1. server' \in ServerType /\ server'.at = "accept" /\ server'.client = Nobody
  BY ServerSteps DEF ProcessEnds, Listening
<1>2. sock' \in [Clients -> SockType]
  BY SockSteps DEF ProcessEnds, TypeOK
<1>3. up' = FALSE /\ backlog' = <<>>
  BY DEF ProcessEnds
<1>4. <<>> \in Seq(Clients)
  OBVIOUS
<1> QED BY <1>1, <1>2, <1>3, <1>4

\* One command's result, whichever it is.
LEMMA ResultType ==
  ASSUME TypeOK, NEW c \in Clients, server.client = c, NEW r \in {"done", "nothing", "failed"},
         NEW a \in {"ok", "refused"}, Result(c, r, a)
  PROVE  TypeOK'
<1>1. server' \in ServerType /\ server'.at = "reply" /\ server'.client = c
  BY ServerSteps DEF Result, TypeOK, ServerType
<1>2. ran' \in [Clients -> {"no", "done", "nothing", "failed"}]
  BY DEF Result, TypeOK
<1> QED BY <1>1, <1>2 DEF Result, TypeOK

\* Every step keeps the types.
LEMMA TypeStep == TypeOK /\ [Next]_vars => TypeOK'
<1> SUFFICES ASSUME TypeOK, [Next]_vars PROVE TypeOK'
  OBVIOUS
<1>0. server.at # "accept" => server.client \in Clients
  BY DEF TypeOK, ServerType
<1>1. CASE Accept
  <2> USE <1>1 DEF Accept, TypeOK
  <2>1. Head(backlog) \in Clients /\ Tail(backlog) \in Seq(Clients)
    OBVIOUS
  <2>2. server' \in ServerType
    BY <2>1, ServerSteps
  <2>3. server'.at = "read" /\ server'.client = Head(backlog)
    BY DEF ServerType
  <2> QED BY <2>1, <2>2, <2>3
<1>2. CASE ServerRead
  <2> USE <1>2 DEF ServerRead, TypeOK
  <2>1. server.client \in Clients
    BY <1>0
  <2>2. CASE Drop(server.client)
    <3>1. server' \in ServerType /\ server'.at = "accept" /\ server'.client = Nobody
      BY <2>2, ServerSteps DEF Drop, Listening
    <3>2. sock' \in [Clients -> SockType]
      <4>1. sock' = [sock EXCEPT ![server.client] = [sock[server.client] EXCEPT !.closed = TRUE]]
        BY <2>1, <2>2 DEF Drop
      <4> QED BY <2>1, <4>1, SockSteps
    <3> QED BY <3>1, <3>2
  <2>3. CASE ~Drop(server.client)
    <3> DEFINE r == IF sock[server.client].newline THEN "all" ELSE "body"
    <3>1. server' = [server EXCEPT !.at = "execute"]
      BY <2>3
    <3>2. server' \in ServerType /\ server'.at = "execute" /\ server'.client = server.client
      BY <3>1, ServerSteps DEF ServerType
    <3>3. sock' = [sock EXCEPT ![server.client] = [sock[server.client] EXCEPT !.read = r]]
      BY <2>1, <2>3
    <3>4. sock' \in [Clients -> SockType]
      BY <2>1, <3>3, SockSteps
    <3> QED BY <2>1, <3>2, <3>4
  <2> QED BY <2>2, <2>3
<1>3. CASE Execute
  <2>1. server.client \in Clients
    BY <1>0, <1>3 DEF Execute
  <2>2. CASE Optimize(server.client)
    BY <2>1, <2>2, ResultType DEF Optimize
  <2>3. CASE OtherCommand(server.client)
    BY <2>1, <2>3, ResultType DEF OtherCommand
  <2>5. CASE StubCommand(server.client)
    BY <2>1, <2>5, ResultType DEF StubCommand
  <2>4. CASE Shutdown(server.client)
    BY <2>1, <2>4, EndsType DEF Shutdown, TypeOK
  <2> QED BY <1>3, <2>2, <2>3, <2>4, <2>5 DEF Execute
<1>4. CASE Reply
  <2> USE <1>4 DEF Reply, TypeOK
  <2>1. server.client \in Clients /\ server.answer \in {"none", "ok", "refused"}
    BY <1>0 DEF ServerType
  <2>2. sock' = [sock EXCEPT ![server.client] =
                   [sock[server.client] EXCEPT !.reply = server.answer, !.closed = TRUE]]
    BY <2>1
  <2>3. sock' \in [Clients -> SockType]
    <3>1. sock[server.client] \in SockType
      BY <2>1
    <3>2. [sock[server.client] EXCEPT !.reply = server.answer, !.closed = TRUE] \in SockType
      BY <2>1, <3>1, SockSteps
    <3> QED BY <2>1, <2>2, <3>2
  <2>4. server' \in ServerType /\ server'.at = "accept" /\ server'.client = Nobody
    BY ServerSteps DEF Listening
  <2> QED BY <2>3, <2>4
<1>5. CASE EngineFails
  BY <1>5, EndsType DEF EngineFails, TypeOK
<1>6. ASSUME NEW c \in Clients, NEW cmd \in Command, Connect(c, cmd) PROVE TypeOK'
  <2> USE <1>6 DEF Connect, TypeOK
  <2>1. client' \in [Clients -> ClientType]
    BY ClientSteps DEF ClientPlaces
  <2>2. backlog' \in Seq(Clients)
    OBVIOUS
  <2>3. sock' \in [Clients -> SockType] /\ ran' \in [Clients -> {"no", "done", "nothing", "failed"}]
    BY SockSteps
  <2> QED BY <2>1, <2>2, <2>3
<1>7. ASSUME NEW c \in Clients, SendBody(c) PROVE TypeOK'
  <2> USE <1>7 DEF SendBody
  <2>1. CASE Returns(c, "error")
    BY <2>1, ReturnsType DEF ClientPlaces, TypeOK
  <2>2. CASE ~Returns(c, "error")
    <3>1. client' \in [Clients -> ClientType]
      BY <2>2, MovesType DEF ClientPlaces
    <3>2. sock' = [sock EXCEPT ![c] = [sock[c] EXCEPT !.body = TRUE]]
      BY <2>2
    <3>3. sock' \in [Clients -> SockType]
      BY <3>2, SockSteps DEF TypeOK
    <3> QED BY <2>2, <3>1, <3>3 DEF TypeOK
  <2> QED BY <2>1, <2>2
<1>8. ASSUME NEW c \in Clients, SendNewline(c) PROVE TypeOK'
  <2> USE <1>8 DEF SendNewline
  <2>1. CASE Returns(c, "error")
    BY <2>1, ReturnsType DEF ClientPlaces, TypeOK
  <2>2. CASE ~Returns(c, "error")
    <3>1. client' \in [Clients -> ClientType]
      BY <2>2, MovesType DEF ClientPlaces
    <3>2. sock' = [sock EXCEPT ![c] = [sock[c] EXCEPT !.newline = TRUE]]
      BY <2>2
    <3>3. sock' \in [Clients -> SockType]
      BY <3>2, SockSteps DEF TypeOK
    <3> QED BY <2>2, <3>1, <3>3 DEF TypeOK
  <2> QED BY <2>1, <2>2
<1>9. ASSUME NEW c \in Clients, ReadReply(c) PROVE TypeOK'
  <2>1. sock[c].reply \in {"none", "ok", "refused"}
    BY DEF TypeOK, SockType
  <2>2. PICK at \in ClientPlaces : Returns(c, at)
    BY <1>9, <2>1 DEF ReadReply, ClientPlaces
  <2> QED BY <1>9, <2>2, ReturnsType DEF ReadReply, TypeOK
<1>10. ASSUME NEW c \in Clients, Abandon(c) PROVE TypeOK'
  <2>1. client' \in [Clients -> ClientType]
    BY <1>10, MovesType DEF Abandon, ClientPlaces
  <2>2. sock' = [sock EXCEPT ![c] = [sock[c] EXCEPT !.left = TRUE]]
    BY <1>10 DEF Abandon
  <2>3. sock' \in [Clients -> SockType]
    BY <2>2, SockSteps DEF TypeOK
  <2> QED BY <1>10, <2>1, <2>3 DEF Abandon, TypeOK
<1>11. CASE UNCHANGED vars
  BY <1>11 DEF vars, TypeOK
<1> QED
  BY <1>1, <1>2, <1>3, <1>4, <1>5, <1>6, <1>7, <1>8, <1>9, <1>10, <1>11
     DEF Next, Server, Progress

\* Who is in flight, once: only Connect adds somebody, who was not.
LEMMA ServedOnceStep == IndInv /\ [Next]_vars => ServedOnce'
<1> SUFFICES ASSUME IndInv, [Next]_vars PROVE ServedOnce'
  OBVIOUS
<1> USE DEF IndInv, ServedOnce, Queued
<1>0. backlog \in Seq(Clients) /\ backlog' \in Seq(Clients)
  BY TypeStep DEF TypeOK
<1>1. CASE Accept
  <2>1. /\ server'.client = Head(backlog)
        /\ backlog' = Tail(backlog) /\ Len(backlog) > 0
    BY <1>0, <1>1 DEF Accept, TypeOK
  <2>2. /\ Len(backlog') = Len(backlog) - 1
        /\ \A i \in 1..Len(backlog') : backlog'[i] = backlog[i + 1]
        /\ server'.client = backlog[1]
    BY <1>0, <2>1
  <2> QED BY <1>0, <2>2
<1>2. ASSUME NEW c \in Clients, NEW cmd \in Command, Connect(c, cmd) PROVE ServedOnce'
  <2>1. server' = server /\ server.client # c
    BY <1>2 DEF Connect
  <2>2. ~Queued(c)
    BY <1>0, <1>2 DEF Connect
  <2>3. CASE backlog' = backlog
    BY <2>1, <2>3
  <2>4. CASE backlog' = Append(backlog, c)
    <3>1. /\ Len(backlog') = Len(backlog) + 1
          /\ \A i \in 1..Len(backlog) : backlog'[i] = backlog[i]
          /\ backlog'[Len(backlog) + 1] = c
      BY <1>0, <2>4
    <3> QED BY <1>0, <2>1, <2>2, <3>1
  <2> QED BY <1>2, <2>3, <2>4 DEF Connect
<1>3. CASE backlog' = backlog /\ server'.client \in {server.client, Nobody}
  BY <1>3
<1>4. CASE backlog' = <<>> /\ server'.client = Nobody
  BY <1>4
<1>5. CASE ServerRead \/ Reply
  <2>1. server'.client \in {server.client, Nobody}
    BY <1>5 DEF ServerRead, Reply, Drop, Listening, TypeOK, ServerType
  <2>2. backlog' = backlog
    BY <1>5 DEF ServerRead, Reply
  <2> QED BY <1>3, <2>1, <2>2
<1>6. CASE Execute
  <2>1. ASSUME NEW c, NEW r, NEW a, Result(c, r, a) PROVE ServedOnce'
    <3>1. backlog' = backlog
      BY <2>1 DEF Result
    <3>2. server'.client = server.client
      BY <2>1 DEF Result, TypeOK, ServerType
    <3> QED BY <1>3, <3>1, <3>2
  <2>2. CASE Shutdown(server.client)
    BY <1>4, <2>2 DEF Shutdown, ProcessEnds, Listening
  <2> QED BY <1>6, <2>1, <2>2 DEF Execute, Optimize, StubCommand, OtherCommand
<1>7. CASE EngineFails
  BY <1>4, <1>7 DEF EngineFails, ProcessEnds, Listening
<1>8. ASSUME NEW c \in Clients, SendBody(c) \/ SendNewline(c) \/ ReadReply(c) \/ Abandon(c)
      PROVE ServedOnce'
  BY <1>3, <1>8 DEF SendBody, SendNewline, ReadReply, Abandon
<1>9. CASE UNCHANGED vars
  BY <1>3, <1>9 DEF vars
<1> QED BY <1>1, <1>2, <1>5, <1>6, <1>7, <1>8, <1>9 DEF Next, Server, Progress

\* Only Accept and Connect put somebody in flight; neither Reply, Drop nor a return
\* of send_command is about somebody who stays there.
LEMMA OpenStep == IndInv /\ [Next]_vars => OpenInFlight'
<1> SUFFICES ASSUME IndInv, [Next]_vars, NEW c \in Clients, InFlight(c)'
             PROVE  Untouched(c)'
  BY DEF OpenInFlight, Untouched
<1>0. /\ InFlight(c) => Untouched(c)
      /\ sock \in [Clients -> SockType] /\ client \in [Clients -> ClientType]
      /\ server \in ServerType /\ backlog \in Seq(Clients) /\ c # Nobody
  BY DEF IndInv, OpenInFlight, Untouched, TypeOK
<1>1. CASE Accept
  <2>1. InFlight(c)
    BY <1>0, <1>1 DEF Accept, InFlight, Queued, ServerType
  <2> QED BY <1>0, <1>1, <2>1 DEF Accept, Untouched
<1>2. CASE ServerRead
  <2>1. InFlight(c) /\ (Drop(server.client) => server.client # c)
    BY <1>0, <1>2 DEF ServerRead, Drop, Listening, InFlight, Queued, ServerType, IndInv,
      ServedOnce
  <2> QED BY <1>0, <1>2, <2>1 DEF ServerRead, Drop, Untouched, SockType
<1>3. CASE Execute
  <2>1. ASSUME NEW d, NEW r, NEW a, Result(d, r, a) PROVE Untouched(c)'
    BY <1>0, <2>1 DEF Result, InFlight, Queued, ServerType, Untouched
  <2>2. CASE Shutdown(server.client)
    BY <1>0, <2>2 DEF Shutdown, ProcessEnds, InFlight, Queued, Listening
  <2> QED BY <1>3, <2>1, <2>2 DEF Execute, Optimize, StubCommand, OtherCommand
<1>4. CASE Reply
  <2>1. InFlight(c) /\ server.client # c
    BY <1>0, <1>4 DEF Reply, Listening, InFlight, Queued, IndInv, ServedOnce
  <2> QED BY <1>0, <1>4, <2>1 DEF Reply, Untouched
<1>5. CASE EngineFails
  BY <1>0, <1>5 DEF EngineFails, ProcessEnds, InFlight, Queued, Listening
<1>6. ASSUME NEW d \in Clients, NEW cmd \in Command, Connect(d, cmd) PROVE Untouched(c)'
  <2>1. CASE c = d
    <3>1. up
      BY <1>0, <1>6, <2>1 DEF Connect, InFlight, Queued
    <3> QED BY <1>0, <1>6, <2>1, <3>1 DEF Connect, Untouched, Fresh
  <2>2. CASE c # d
    <3>1. InFlight(c)
      BY <1>0, <1>6, <2>2 DEF Connect, InFlight, Queued
    <3> QED BY <1>0, <1>6, <2>2, <3>1 DEF Connect, Untouched
  <2> QED BY <2>1, <2>2
<1>7. ASSUME NEW d \in Clients, NEW at, Returns(d, at), sock[d].closed,
             server' = server, backlog' = backlog
      PROVE  Untouched(c)'
  <2>1. InFlight(c) /\ c # d
    BY <1>0, <1>7 DEF InFlight, Queued, Untouched
  <2> QED BY <1>0, <1>7, <2>1 DEF Returns, Moves, Untouched
<1>8. ASSUME NEW d \in Clients, SendBody(d) \/ SendNewline(d) PROVE Untouched(c)'
  <2>1. CASE sock[d].closed
    BY <1>7, <1>8, <2>1 DEF SendBody, SendNewline
  <2>2. CASE ~sock[d].closed
    <3>1. InFlight(c)
      BY <1>0, <1>8, <2>2 DEF SendBody, SendNewline, InFlight, Queued
    <3>2. client'[c].at \in {client[c].at, "half", "waiting"}
      BY <1>0, <1>8, <2>2 DEF SendBody, SendNewline, Moves, ClientType
    <3>3. sock'[c].closed = sock[c].closed /\ sock'[c].reply = sock[c].reply
      <4>1. CASE sock' = [sock EXCEPT ![d] = [sock[d] EXCEPT !.body = TRUE]]
        BY <1>0, <4>1 DEF SockType
      <4>2. CASE sock' = [sock EXCEPT ![d] = [sock[d] EXCEPT !.newline = TRUE]]
        BY <1>0, <4>2 DEF SockType
      <4> QED BY <1>8, <2>2, <4>1, <4>2 DEF SendBody, SendNewline
    <3> QED BY <1>0, <3>1, <3>2, <3>3 DEF Untouched
  <2> QED BY <2>1, <2>2
<1>9. ASSUME NEW d \in Clients, ReadReply(d) PROVE Untouched(c)'
  BY <1>7, <1>9 DEF ReadReply
<1>10. ASSUME NEW d \in Clients, Abandon(d) PROVE Untouched(c)'
  BY <1>0, <1>10 DEF Abandon, Moves, InFlight, Queued, Untouched, SockType, ClientType
<1>11. CASE UNCHANGED vars
  BY <1>0, <1>11 DEF vars, InFlight, Queued, Untouched
<1> QED BY <1>1, <1>2, <1>3, <1>4, <1>5, <1>6, <1>8, <1>9, <1>10, <1>11
           DEF Next, Server, Progress

\* The answer that travels and the answer that was received both tell what the
\* daemon did: what it did for c changes only while c is in flight.
LEMMA AnswerStep == IndInv /\ [Next]_vars => AnswerMatches' /\ AnswersTrue'
<1> SUFFICES ASSUME IndInv, [Next]_vars
             PROVE  /\ server'.at = "reply" => TellsTruth(server'.answer, client'[server'.client].cmd, ran'[server'.client])
                    /\ \A c \in Clients : /\ TellsTruth(sock'[c].reply, client'[c].cmd, ran'[c])
                                          /\ TellsTruth(client'[c].at, client'[c].cmd, ran'[c])
  BY DEF AnswerMatches, AnswersTrue, TellsTruth
<1> DEFINE SrvTrue == server'.at = "reply" => TellsTruth(server'.answer, client'[server'.client].cmd, ran'[server'.client])
           CliTrue == \A c \in Clients : /\ TellsTruth(sock'[c].reply, client'[c].cmd, ran'[c])
                                         /\ TellsTruth(client'[c].at, client'[c].cmd, ran'[c])
<1>0. /\ server.at = "reply" => TellsTruth(server.answer, client[server.client].cmd, ran[server.client])
      /\ \A c \in Clients : /\ TellsTruth(sock[c].reply, client[c].cmd, ran[c])
                            /\ TellsTruth(client[c].at, client[c].cmd, ran[c])
      /\ sock \in [Clients -> SockType] /\ client \in [Clients -> ClientType]
      /\ server \in ServerType /\ (server.at # "accept" => server.client \in Clients)
      /\ ran \in [Clients -> {"no", "done", "nothing", "failed"}]
      /\ \A c \in Clients : server.client = c => Untouched(c)
  BY DEF IndInv, AnswerMatches, AnswersTrue, TellsTruth, TypeOK, ServerType, OpenInFlight,
    InFlight
<1>a. ASSUME ran' = ran, client' = client,
             \A c \in Clients : sock'[c].reply \in {sock[c].reply, "none"}
      PROVE  CliTrue
  BY <1>0, <1>a DEF TellsTruth
<1>b. server'.at # "reply" => SrvTrue
  OBVIOUS
<1>1. CASE Accept
  <2>1. server'.at = "read"
    BY <1>0, <1>1 DEF Accept, ServerType
  <2> QED BY <1>a, <1>b, <1>1, <2>1 DEF Accept
<1>2. CASE ServerRead
  <2>1. server'.at # "reply"
    BY <1>0, <1>2 DEF ServerRead, Drop, Listening, ServerType
  <2>2. \A c \in Clients : sock'[c].reply = sock[c].reply
    <3>1. server.client \in Clients
      BY <1>0, <1>2 DEF ServerRead
    <3>2. CASE sock' = [sock EXCEPT ![server.client].closed = TRUE]
      BY <1>0, <3>1, <3>2 DEF SockType
    <3>3. ASSUME NEW r, sock' = [sock EXCEPT ![server.client].read = r]
          PROVE  \A c \in Clients : sock'[c].reply = sock[c].reply
      BY <1>0, <3>1, <3>3 DEF SockType
    <3> QED BY <1>2, <3>2, <3>3 DEF ServerRead, Drop
  <2> QED BY <1>a, <1>b, <1>2, <2>1, <2>2 DEF ServerRead
<1>3. CASE Execute
  <2> DEFINE d == server.client
  <2>0. d \in Clients /\ Untouched(d)
    BY <1>0, <1>3 DEF Execute
  <2>1. ASSUME NEW r \in {"done", "nothing", "failed"}, NEW a,
               TellsTruth(a, client[d].cmd, r), Result(d, r, a)
        PROVE  SrvTrue /\ CliTrue
    <3>1. ran'[d] = r /\ \A c \in Clients \ {d} : ran'[c] = ran[c]
      BY <1>0, <2>0, <2>1 DEF Result
    <3>2. server'.answer = a /\ server'.client = d
      BY <1>0, <2>1 DEF Result, ServerType
    <3>3. SrvTrue
      BY <2>1, <3>1, <3>2 DEF Result
    <3>4. CliTrue
      BY <1>0, <2>0, <2>1, <3>1 DEF Result, TellsTruth, Untouched
    <3> QED BY <3>3, <3>4
  <2>2. CASE Optimize(d)
    BY <2>1, <2>2 DEF Optimize, TellsTruth
  <2>3. CASE OtherCommand(d)
    BY <2>1, <2>3 DEF OtherCommand, TellsTruth
  <2>5. CASE StubCommand(d)
    BY <2>1, <2>5 DEF StubCommand, TellsTruth
  <2>4. CASE Shutdown(d)
    <3>1. ran'[d] = "done" /\ \A c \in Clients \ {d} : ran'[c] = ran[c]
      BY <1>0, <2>0, <2>4 DEF Shutdown
    <3>2. \A c \in Clients : sock'[c].reply = sock[c].reply
      BY <1>0, <2>4 DEF Shutdown, ProcessEnds, SockType
    <3>3. CliTrue
      BY <1>0, <2>0, <2>4, <3>1, <3>2 DEF Shutdown, TellsTruth, Untouched
    <3> QED BY <1>b, <2>4, <3>3 DEF Shutdown, ProcessEnds, Listening
  <2> QED BY <1>3, <2>2, <2>3, <2>4, <2>5 DEF Execute
<1>4. CASE Reply
  <2> DEFINE d == server.client
  <2>1. d \in Clients
    BY <1>0, <1>4 DEF Reply
  <2>2. sock'[d].reply = server.answer /\ \A c \in Clients \ {d} : sock'[c] = sock[c]
    BY <1>0, <1>4, <2>1 DEF Reply, SockType
  <2>3. CliTrue
    BY <1>0, <1>4, <2>1, <2>2 DEF Reply
  <2> QED BY <1>b, <1>4, <2>3 DEF Reply, Listening
<1>5. CASE EngineFails
  <2>1. \A c \in Clients : sock'[c].reply = sock[c].reply
    BY <1>0, <1>5 DEF EngineFails, ProcessEnds, SockType
  <2> QED BY <1>a, <1>b, <1>5, <2>1 DEF EngineFails, ProcessEnds, Listening
\* A step of a client d that leaves the server alone: it is not being served when
\* what was done for it is forgotten.
<1>6. ASSUME NEW d \in Clients, server' = server,
             \A c \in Clients \ {d} : sock'[c] = sock[c] /\ client'[c] = client[c]
                                        /\ ran'[c] = ran[c],
             (ran'[d] = ran[d] /\ client'[d].cmd = client[d].cmd) \/ server.client # d,
             TellsTruth(sock'[d].reply, client'[d].cmd, ran'[d]),
             TellsTruth(client'[d].at, client'[d].cmd, ran'[d])
      PROVE  SrvTrue /\ CliTrue
  <2>1. SrvTrue
    BY <1>0, <1>6
  <2>2. CliTrue
    BY <1>0, <1>6
  <2> QED BY <2>1, <2>2
<1>7. ASSUME NEW c \in Clients, NEW cmd \in Command, Connect(c, cmd) PROVE SrvTrue /\ CliTrue
  <2>1. server' = server /\ server.client # c
    BY <1>7 DEF Connect
  <2>2. /\ sock'[c].reply = "none" /\ client'[c].at \in {"connected", "error"}
        /\ \A e \in Clients \ {c} : sock'[e] = sock[e] /\ client'[e] = client[e]
                                      /\ ran'[e] = ran[e]
    BY <1>0, <1>7 DEF Connect, Fresh
  <2> QED BY <1>6, <2>1, <2>2 DEF TellsTruth
<1>8. ASSUME NEW c \in Clients, NEW at, Returns(c, at), server' = server, sock[c].closed,
             at = "error" \/ TellsTruth(at, client[c].cmd, ran[c])
      PROVE  SrvTrue /\ CliTrue
  <2>1. server.client # c
    BY <1>0, <1>8 DEF Untouched
  <2>2. /\ sock'[c].reply = "none" /\ client'[c].at = at /\ client'[c].cmd = client[c].cmd
        /\ ran'[c] = (IF at = "error" THEN "no" ELSE ran[c])
        /\ \A e \in Clients \ {c} : sock'[e] = sock[e] /\ client'[e] = client[e]
                                      /\ ran'[e] = ran[e]
    BY <1>0, <1>8 DEF Returns, Moves, Fresh, ClientType
  <2> QED BY <1>6, <1>8, <2>1, <2>2 DEF TellsTruth
<1>9. ASSUME NEW c \in Clients, SendBody(c) \/ SendNewline(c) PROVE SrvTrue /\ CliTrue
  <2>1. CASE sock[c].closed
    BY <1>8, <1>9, <2>1 DEF SendBody, SendNewline
  <2>2. CASE ~sock[c].closed
    <3>1. /\ client'[c].at \in {"half", "waiting"} /\ client'[c].cmd = client[c].cmd
          /\ \A e \in Clients \ {c} : client'[e] = client[e]
      BY <1>0, <1>9, <2>2 DEF SendBody, SendNewline, Moves, ClientType
    <3>2. /\ sock'[c].reply = sock[c].reply
          /\ \A e \in Clients \ {c} : sock'[e] = sock[e]
      BY <1>0, <1>9, <2>2 DEF SendBody, SendNewline, SockType
    <3>3. ran' = ran /\ server' = server
      BY <1>9, <2>2 DEF SendBody, SendNewline
    <3> QED BY <1>0, <1>6, <3>1, <3>2, <3>3 DEF TellsTruth
  <2> QED BY <2>1, <2>2
<1>10. ASSUME NEW c \in Clients, ReadReply(c) PROVE SrvTrue /\ CliTrue
  <2>1. PICK at : Returns(c, at) /\ (at = "error" \/ at = sock[c].reply)
    BY <1>10 DEF ReadReply
  <2> QED BY <1>0, <1>8, <1>10, <2>1 DEF ReadReply
<1>11. ASSUME NEW c \in Clients, Abandon(c) PROVE SrvTrue /\ CliTrue
  <2>1. client'[c].at = "gone" /\ client'[c].cmd = client[c].cmd /\ \A e \in Clients \ {c} : client'[e] = client[e]
    BY <1>0, <1>11 DEF Abandon, Moves, ClientType
  <2>2. sock'[c].reply = sock[c].reply /\ \A e \in Clients \ {c} : sock'[e] = sock[e]
    BY <1>0, <1>11 DEF Abandon, SockType
  <2>3. ran' = ran /\ server' = server
    BY <1>11 DEF Abandon
  <2> QED BY <1>0, <1>6, <2>1, <2>2, <2>3 DEF TellsTruth
<1>12. CASE UNCHANGED vars
  BY <1>0, <1>12 DEF vars
<1> QED BY <1>1, <1>2, <1>3, <1>4, <1>5, <1>7, <1>9, <1>10, <1>11, <1>12
           DEF Next, Server, Progress

-----------------------------------------------------------------------------
\* The initial state: nobody is in flight and nothing has been answered.
LEMMA InitInv == Init => IndInv
<1> SUFFICES ASSUME Init PROVE IndInv
  OBVIOUS
<1>1. TypeOK
  <2>1. "Other" \in Command /\ <<>> \in Seq(Clients)
    BY DEF Command
  <2>2. [at |-> "idle", cmd |-> "Other"] \in ClientType
    BY <2>1, ClientSteps DEF ClientPlaces
  <2> QED BY <2>1, <2>2, SockSteps, ServerSteps DEF Init, TypeOK, Listening
<1>2. ServedOnce /\ OpenInFlight
  BY DEF Init, ServedOnce, OpenInFlight, InFlight, Queued, Listening
<1>3. AnswerMatches /\ AnswersTrue
  BY DEF Init, AnswerMatches, AnswersTrue, TellsTruth, Listening, Fresh
<1> QED BY <1>1, <1>2, <1>3 DEF IndInv

\* The invariant is inductive.
LEMMA IndInvHolds == Spec => []IndInv
<1>1. IndInv /\ [Next]_vars => IndInv'
  BY TypeStep, ServedOnceStep, OpenStep, AnswerStep DEF IndInv
<1> QED BY InitInv, <1>1, PTL DEF Spec

\* The server, its queue, the clients and their connections keep their types for any
\* number of clients, whenever the process ends.
THEOREM TypeCorrect == Spec => []TypeOK
<1>1. IndInv => TypeOK
  BY DEF IndInv
<1> QED BY <1>1, IndInvHolds, PTL

\* What send_command returns is what handle_client did for that very client, however
\* many others connect, leave or are served meanwhile: a refused command failed, an
\* accepted one was carried out unless its handler is one of the three that do nothing.
THEOREM AnswersAreTrue == Spec => []AnswersTrue
<1>1. IndInv => AnswersTrue
  BY DEF IndInv
<1> QED BY <1>1, IndInvHolds, PTL

=============================================================================
