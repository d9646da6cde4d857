------------------------------ MODULE UroamIpc ------------------------------
(***************************************************************************)
(* The IPC of the Rust daemon uroamd (ipc/mod.rs): one thread that serves  *)
(* the connections of a Unix socket one after the other, and the processes *)
(* that call IpcClient::send_command.  UroamEngine is the daemon's other   *)
(* thread; here it matters because its end is the end of the process.      *)
(***************************************************************************)
EXTENDS Naturals, Sequences

CONSTANTS Clients,           \* processes that call send_command
          Nobody

ASSUME IpcAssumption == Nobody \notin Clients

\* "Optimize" is also Clean: both write drop_caches.  "Stub" is ProfileSet,
\* ConfigReload and ProfileGet, whose handlers touch nothing and answer Ok.  "Other"
\* changes nothing either: Status succeeds or not, the unimplemented and the
\* unparsable are refused.
Command == {"Optimize", "Shutdown", "Stub", "Other"}

VARIABLES
  up,        \* the process is running
  writable,  \* drop_caches may be written
  server,    \* the IPC thread: where it is, the client it serves, its answer
  backlog,   \* connections not accepted yet
  client,    \* client[c]: where it is, its command
  sock,      \* sock[c]: what is in, or has become of, its connection
  ran        \* ran[c]: what the daemon did with its command

vars == <<up, writable, server, backlog, client, sock, ran>>

Fresh == [body |-> FALSE, newline |-> FALSE, read |-> "none", reply |-> "none",
          closed |-> FALSE, left |-> FALSE]
Listening == [at |-> "accept", client |-> Nobody, answer |-> "none"]

ServerType == [at : {"accept", "read", "execute", "reply"}, client : Clients \cup {Nobody},
               answer : {"none", "ok", "refused"}]
ClientType == [at : {"idle", "connected", "half", "waiting", "ok", "refused", "error", "gone"},
               cmd : Command]
SockType   == [body : BOOLEAN, newline : BOOLEAN, read : {"none", "body", "all"},
               reply : {"none", "ok", "refused"}, closed : BOOLEAN, left : BOOLEAN]

TypeOK ==
  /\ up \in BOOLEAN /\ writable \in BOOLEAN
  /\ server \in ServerType
  /\ server.at = "accept" <=> server.client = Nobody
  /\ backlog \in Seq(Clients)
  /\ client \in [Clients -> ClientType]
  /\ sock \in [Clients -> SockType]
  /\ ran \in [Clients -> {"no", "done", "nothing", "failed"}]

\* IpcServer::start has bound the socket and spawned the thread.
Init ==
  /\ up = TRUE /\ writable \in BOOLEAN
  /\ server = Listening /\ backlog = <<>>
  /\ client = [c \in Clients |-> [at |-> "idle", cmd |-> "Other"]]
  /\ sock = [c \in Clients |-> Fresh]
  /\ ran = [c \in Clients |-> "no"]

\* The process is gone, and the kernel closes every connection.
ProcessEnds ==
  /\ up' = FALSE
  /\ server' = Listening /\ backlog' = <<>>
  /\ sock' = [c \in Clients |-> [sock[c] EXCEPT !.closed = TRUE]]

\* main returns because the optimization thread has ended.
EngineFails ==
  /\ up
  /\ ProcessEnds
  /\ UNCHANGED <<writable, client, ran>>

-----------------------------------------------------------------------------
(* IpcClient::send_command                                                  *)

Finished(c) == client[c].at \in {"idle", "ok", "refused", "error", "gone"}
Moves(c, at) == client' = [client EXCEPT ![c].at = at]

\* send_command returns; nothing is left of the call but the command and its result.
Returns(c, at) ==
  /\ Moves(c, at)
  /\ sock' = [sock EXCEPT ![c] = Fresh]
  /\ ran' = [ran EXCEPT ![c] = IF at = "error" THEN "no" ELSE @]

\* A client process may call again once nothing of its last call is left.
Connect(c, cmd) ==
  /\ Finished(c) /\ server.client # c /\ \A i \in DOMAIN backlog : backlog[i] # c
  /\ client' = [client EXCEPT ![c] = [at |-> IF up THEN "connected" ELSE "error", cmd |-> cmd]]
  /\ backlog' = IF up THEN Append(backlog, c) ELSE backlog
  /\ sock' = [sock EXCEPT ![c] = Fresh]
  /\ ran' = [ran EXCEPT ![c] = "no"]
  /\ UNCHANGED <<up, writable, server>>

\* The command and its newline are two writes; the peer may be gone at either.
SendBody(c) ==
  /\ client[c].at = "connected"
  /\ \/ sock[c].closed /\ Returns(c, "error")
     \/ /\ ~sock[c].closed /\ Moves(c, "half")
        /\ sock' = [sock EXCEPT ![c].body = TRUE] /\ UNCHANGED ran
  /\ UNCHANGED <<up, writable, server, backlog>>

SendNewline(c) ==
  /\ client[c].at = "half"
  /\ \/ sock[c].closed /\ Returns(c, "error")
     \/ /\ ~sock[c].closed /\ Moves(c, "waiting")
        /\ sock' = [sock EXCEPT ![c].newline = TRUE] /\ UNCHANGED ran
  /\ UNCHANGED <<up, writable, server, backlog>>

\* A peer that closes with bytes unread resets the connection, and the reset is
\* what ends read_to_string, even after a reply.
Reset(c) == sock[c].newline /\ sock[c].read # "all"

\* read_to_string returns when the peer has closed; no text is no JSON.
ReadReply(c) ==
  /\ client[c].at = "waiting" /\ sock[c].closed
  /\ Returns(c, IF Reset(c) \/ sock[c].reply = "none" THEN "error" ELSE sock[c].reply)
  /\ UNCHANGED <<up, writable, server, backlog>>

\* The client process is killed.
Abandon(c) ==
  /\ client[c].at \in {"connected", "half", "waiting"}
  /\ Moves(c, "gone")
  /\ sock' = [sock EXCEPT ![c].left = TRUE]
  /\ UNCHANGED <<up, writable, server, backlog, ran>>

-----------------------------------------------------------------------------
(* IpcServer                                                                *)

Accept ==
  /\ up /\ server.at = "accept" /\ backlog # <<>>
  /\ server' = [server EXCEPT !.at = "read", !.client = Head(backlog)]
  /\ backlog' = Tail(backlog)
  /\ UNCHANGED <<up, writable, client, sock, ran>>

\* handle_client returns: the stream is dropped and incoming() goes on.
Drop(c) == /\ server' = Listening
           /\ sock' = [sock EXCEPT ![c].closed = TRUE]

\* One read: what has arrived, or the end of a connection that brought nothing.
ServerRead ==
  /\ up /\ server.at = "read"
  /\ LET c == server.client
     IN \/ /\ sock[c].body
           /\ sock' = [sock EXCEPT ![c].read = IF sock[c].newline THEN "all" ELSE "body"]
           /\ server' = [server EXCEPT !.at = "execute"]
        \/ ~sock[c].body /\ sock[c].left /\ Drop(c)
  /\ UNCHANGED <<up, writable, backlog, client, ran>>

Result(c, r, answer) ==
  /\ ran' = [ran EXCEPT ![c] = r]
  /\ server' = [server EXCEPT !.at = "reply", !.answer = answer]
  /\ UNCHANGED <<up, writable, backlog, client, sock>>

\* Defect: the result of the write is dropped.
OptimizeUnchecked(c) ==
  /\ client[c].cmd = "Optimize"
  /\ Result(c, IF writable THEN "done" ELSE "failed", "ok")

\* trigger_optimization, clean_memory
Optimize(c) ==
  /\ client[c].cmd = "Optimize"
  /\ \/ writable /\ Result(c, "done", "ok")
     \/ ~writable /\ Result(c, "failed", "refused")

\* set_profile and reload_config log a line and return Ok, get_current_profile
\* returns "balanced": nothing is done, and the answer is Ok.
StubCommand(c) ==
  /\ client[c].cmd = "Stub"
  /\ Result(c, "nothing", "ok")

OtherCommand(c) ==
  /\ client[c].cmd = "Other"
  /\ Result(c, "done", "ok") \/ Result(c, "failed", "refused")

\* process::exit(0), without an answer.
Shutdown(c) ==
  /\ client[c].cmd = "Shutdown"
  /\ ProcessEnds
  /\ ran' = [ran EXCEPT ![c] = "done"]
  /\ UNCHANGED <<writable, client>>

Execute ==
  /\ up /\ server.at = "execute"
  /\ \/ Optimize(server.client)
     \/ StubCommand(server.client)
     \/ OtherCommand(server.client)
     \/ Shutdown(server.client)

\* Defect: the stream outlives handle_client.
ReplyKeepsOpen ==
  /\ up /\ server.at = "reply"
  /\ server' = Listening
  /\ sock' = [sock EXCEPT ![server.client].reply = server.answer]
  /\ UNCHANGED <<up, writable, backlog, client, ran>>

\* Two writes and the drop of the stream; a client that has left costs only a
\* dropped error.
Reply ==
  /\ up /\ server.at = "reply"
  /\ server' = Listening
  /\ sock' = [sock EXCEPT ![server.client].reply = server.answer,
                          ![server.client].closed = TRUE]
  /\ UNCHANGED <<up, writable, backlog, client, ran>>

-----------------------------------------------------------------------------
Server  == Accept \/ ServerRead \/ Execute \/ Reply
Progress(c) == SendNewline(c) \/ ReadReply(c)

Next ==
  \/ Server
  \/ EngineFails
  \/ \E c \in Clients :
       \/ \E cmd \in Command : Connect(c, cmd)
       \/ SendBody(c) \/ Progress(c) \/ Abandon(c)

\* The server thread and a client past its first write keep being scheduled.
\* Whoever has connected may stay silent: nothing is assumed of SendBody.
Fairness == WF_vars(Server) /\ \A c \in Clients : WF_vars(Progress(c))

Spec == Init /\ [][Next]_vars /\ Fairness

-----------------------------------------------------------------------------
(* Properties                                                               *)

\* What send_command returns is what the daemon did with the caller's own command,
\* whatever connections were dropped or reset and whichever client was served in
\* between: Error only for a command that failed, Ok only for one that was carried
\* out, or for one of the three that are accepted and never carried out.  (A
\* transport error says nothing: the newline may be caught by the close after the
\* command was carried out.)
AnswersTrue ==
  \A c \in Clients :
    /\ client[c].at = "ok" => IF client[c].cmd = "Stub" THEN ran[c] = "nothing" ELSE ran[c] = "done"
    /\ client[c].at = "refused" => ran[c] = "failed"

\* The one server thread reaches everybody: as long as no client that connected
\* stays silent for ever, every client that has sent its command gets its answer
\* or an error, also when others leave, or the daemon ends, meanwhile.
EveryClientServed ==
  (\A c \in Clients : []<>(client[c].at # "connected"))
    => \A c \in Clients : client[c].at = "waiting" ~> Finished(c)

=============================================================================
