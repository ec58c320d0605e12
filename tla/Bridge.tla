------------------------------- MODULE Bridge -------------------------------
(***************************************************************************)
(* One connection of a client to kadrand's api.sock.                       *)
(*                                                                         *)
(* Over ssh the client starts an ssh process and speaks through its pipes; *)
(* sshd runs kadran-connect, which connects to the socket, writes the      *)
(* preface that says who is calling, and then carries bytes both ways.  On *)
(* the server itself the client connects to the socket and writes the      *)
(* preface too.  kadrand reads the preface under a deadline and then       *)
(* serves gRPC.  Bytes are carried in the order they are written; the      *)
(* model keeps what is on its way and not what it says.                    *)
(***************************************************************************)
EXTENDS Naturals, Sequences

CONSTANTS
  MaxRequests,   \* bound: what the client writes on the connection
  MaxAnswers     \* bound: what kadrand writes on it

ASSUME BridgeAssumption == MaxRequests \in Nat /\ MaxAnswers \in Nat

VARIABLES
  path,          \* "ssh" or "local"
  client,        \* the net.Conn that gRPC has
  ssh,           \* the ssh process
  up, down,      \* what is between the client and kadran-connect, each way
  bridge,        \* kadran-connect
  sock,          \* the connection of api.sock
  server,        \* kadrand's side of it
  daemon         \* kadrand: "up", "hung" or "down"

vars == <<path, client, ssh, up, down, bridge, sock, server, daemon>>
remote == <<bridge, sock, server, daemon>>

Init ==
  /\ path \in {"ssh", "local"}
  /\ client = [at |-> "idle", sent |-> 0, got |-> 0, end |-> "none"]
  \* Waiting for a stubborn ssh does not end with its session: a child holds its
  \* stderr.  (Its stdout ends; a child that held that too would keep the end from
  \* the reader, and nothing in the client bounds that.)
  /\ ssh \in [at : {"none"}, failed : {FALSE}, cut : {FALSE}, stubborn : BOOLEAN]
  /\ up = <<>> /\ down = 0
  /\ bridge = [at |-> "none", upstream |-> "none", failed |-> FALSE]
  /\ sock = [open |-> FALSE, up |-> <<>>, upEnd |-> FALSE, down |-> 0, downEnd |-> "no"]
  /\ server = [at |-> "none", deadline |-> FALSE, read |-> <<>>, sent |-> 0]
  /\ daemon \in {"up", "hung", "down"}

-----------------------------------------------------------------------------
(* The client: dialSSH, dialLocal and pipeConn. *)

\* Mutant: the preface is written at the client's end of ssh too.
DialSSHWithPreface ==
  /\ path = "ssh" /\ client.at = "idle"
  /\ client' = [client EXCEPT !.at = "open"]
  /\ ssh' = [ssh EXCEPT !.at = "connecting"]
  /\ up' = <<"preface">>
  /\ UNCHANGED <<path, down, remote>>

DialSSH ==
  /\ path = "ssh" /\ client.at = "idle"
  /\ client' = [client EXCEPT !.at = "open"]
  /\ ssh' = [ssh EXCEPT !.at = "connecting"]
  /\ UNCHANGED <<path, up, down, remote>>

\* The kernel accepts for a kadrand that is hung, as long as its backlog lasts.
DialLocal ==
  /\ path = "local" /\ client.at = "idle" /\ daemon # "down"
  /\ client' = [client EXCEPT !.at = "open"]
  /\ sock' = [sock EXCEPT !.open = TRUE, !.up = <<"preface">>]
  /\ UNCHANGED <<path, ssh, up, down, bridge, server, daemon>>

DialFails ==
  /\ client.at = "idle"
  /\ client' = [client EXCEPT !.at = "closed"]
  /\ UNCHANGED <<path, ssh, up, down, remote>>

Write ==
  /\ client.at = "open" /\ client.sent < MaxRequests
  /\ \/ path = "ssh" /\ ssh.at \in {"connecting", "up"}
        /\ up' = Append(up, "request") /\ UNCHANGED sock
     \/ path = "local" /\ server.at # "closed"
        /\ sock' = [sock EXCEPT !.up = Append(@, "request")] /\ UNCHANGED up
  /\ client' = [client EXCEPT !.sent = @ + 1]
  /\ UNCHANGED <<path, ssh, down, bridge, server, daemon>>

Read ==
  /\ client.at = "open" /\ client.end = "none"
  /\ \/ path = "ssh" /\ down > 0
        /\ down' = down - 1 /\ UNCHANGED sock
     \/ path = "local" /\ sock.down > 0
        /\ sock' = [sock EXCEPT !.down = @ - 1] /\ UNCHANGED down
  /\ client' = [client EXCEPT !.got = @ + 1]
  /\ UNCHANGED <<path, ssh, up, bridge, server, daemon>>

\* onEOF waits for ssh, and its failure takes the place of the end.
ReadEnd ==
  /\ client.at = "open" /\ client.end = "none"
  /\ \/ /\ path = "ssh" /\ down = 0 /\ ssh.at = "exited"
        /\ client' = [client EXCEPT !.end = IF ssh.failed THEN "reason" ELSE "eof"]
     \/ /\ path = "local" /\ sock.down = 0 /\ sock.downEnd # "no"
        /\ client' = [client EXCEPT !.end = IF sock.downEnd = "reset" THEN "reason" ELSE "eof"]
  /\ UNCHANGED <<path, ssh, up, down, remote>>

\* gRPC closes: after an end, when the time to connect is over, or at will.
Close ==
  /\ client.at = "open"
  /\ IF path = "ssh"
       THEN client' = [client EXCEPT !.at = "closing"] /\ UNCHANGED sock
       ELSE /\ client' = [client EXCEPT !.at = "closed"]
            /\ sock' = [sock EXCEPT !.upEnd = TRUE, !.down = 0]
  /\ UNCHANGED <<path, ssh, up, down, bridge, server, daemon>>

\* cleanup has collected ssh.
Closed ==
  /\ client.at = "closing" /\ ssh.at = "exited"
  /\ client' = [client EXCEPT !.at = "closed"]
  /\ UNCHANGED <<path, ssh, up, down, remote>>

\* wait: after sshExitGrace the process is killed, whoever waits for it.
Kill ==
  /\ \/ client.at = "closing" /\ ssh.at \in {"connecting", "up", "lingering"}
     \/ client.at = "open" /\ ssh.at = "lingering" /\ down = 0
  /\ ssh' = [ssh EXCEPT !.at = "exited", !.failed = TRUE]
  /\ UNCHANGED <<path, client, up, down, remote>>

-----------------------------------------------------------------------------
(* ssh and sshd: external. *)

SshConnects ==
  /\ ssh.at = "connecting"
  /\ ssh' = [ssh EXCEPT !.at = "up"]
  /\ bridge' = [bridge EXCEPT !.at = "dialling"]
  /\ UNCHANGED <<path, client, up, down, sock, server, daemon>>

\* No route, a refused key, another host key, or no answer in time.
SshRefused ==
  /\ ssh.at = "connecting"
  /\ ssh' = [ssh EXCEPT !.at = "exited", !.failed = TRUE]
  /\ UNCHANGED <<path, client, up, down, remote>>

\* The session ends with kadran-connect, whose exit code is ssh's.
SshEnds ==
  /\ ssh.at = "up" /\ bridge.at = "gone"
  /\ ssh' = [ssh EXCEPT !.at = IF ssh.stubborn THEN "lingering" ELSE "exited",
                        !.failed = bridge.failed]
  /\ UNCHANGED <<path, client, up, down, remote>>

\* The network breaks: what ssh carries is lost.
SshCut ==
  /\ ssh.at = "up"
  /\ ssh' = [ssh EXCEPT !.at = "exited", !.failed = TRUE, !.cut = TRUE]
  /\ up' = <<>>
  /\ down' \in 0 .. down
  /\ UNCHANGED <<path, client, remote>>

-----------------------------------------------------------------------------
(* kadran-connect *)

\* The process ends, and with it its end of the socket.
Leaves(failed) ==
  /\ bridge' = [bridge EXCEPT !.at = "gone", !.failed = failed]
  /\ sock' = [sock EXCEPT !.upEnd = TRUE, !.down = 0]

\* The socket is there, or kadrand is down; one that is hung has a backlog.
Connect ==
  /\ bridge.at = "dialling"
  /\ \/ /\ daemon # "down"
        /\ bridge' = [bridge EXCEPT !.at = "writing"]
        /\ sock' = [sock EXCEPT !.open = TRUE]
     \/ daemon # "up" /\ Leaves(TRUE)
  /\ UNCHANGED <<path, client, ssh, up, down, server, daemon>>

\* The preface goes first, and only then is the client's first byte read.
WritePreface ==
  /\ bridge.at = "writing"
  /\ IF server.at = "closed"
       THEN Leaves(TRUE)
       ELSE /\ bridge' = [bridge EXCEPT !.at = "pumping", !.upstream = "copying"]
            /\ sock' = [sock EXCEPT !.up = Append(@, "preface")]
  /\ UNCHANGED <<path, client, ssh, up, down, server, daemon>>

\* Whether the client's side has closed: it did, or ssh is gone.
StdinEnded == client.at \in {"closing", "closed"} \/ ssh.at \in {"lingering", "exited"}

CopyUp ==
  /\ bridge.at = "pumping" /\ bridge.upstream = "copying" /\ up # <<>>
  /\ up' = Tail(up)
  /\ IF server.at = "closed"
       THEN bridge' = [bridge EXCEPT !.upstream = "failed"] /\ UNCHANGED sock
       ELSE sock' = [sock EXCEPT !.up = Append(@, Head(up))] /\ UNCHANGED bridge
  /\ UNCHANGED <<path, client, ssh, down, server, daemon>>

\* Mutant: the end of the input is not passed on.
CopyUpEndsQuietly ==
  /\ bridge.at = "pumping" /\ bridge.upstream = "copying"
  /\ up = <<>> /\ StdinEnded
  /\ bridge' = [bridge EXCEPT !.upstream = "done"]
  /\ UNCHANGED <<path, client, ssh, up, down, sock, server, daemon>>

\* CloseWrite: kadrand sees that no request follows.
CopyUpEnds ==
  /\ bridge.at = "pumping" /\ bridge.upstream = "copying"
  /\ up = <<>> /\ StdinEnded
  /\ bridge' = [bridge EXCEPT !.upstream = "done"]
  /\ sock' = [sock EXCEPT !.upEnd = TRUE]
  /\ UNCHANGED <<path, client, ssh, up, down, server, daemon>>

\* Without an ssh there is nobody to write to.
CopyDown ==
  /\ bridge.at = "pumping" /\ sock.down > 0
  /\ IF ssh.at = "up"
       THEN /\ down' = down + 1
            /\ sock' = [sock EXCEPT !.down = @ - 1]
            /\ UNCHANGED bridge
       ELSE Leaves(TRUE) /\ UNCHANGED down
  /\ UNCHANGED <<path, client, ssh, up, server, daemon>>

\* Mutant: the process ends when either direction does.
PumpEndsOnEither ==
  /\ bridge.at = "pumping"
  /\ \/ sock.down = 0 /\ sock.downEnd # "no"
     \/ bridge.upstream \in {"done", "failed"}
  /\ Leaves(sock.downEnd = "reset" \/ bridge.upstream = "failed")
  /\ UNCHANGED <<path, client, ssh, up, down, server, daemon>>

\* The way down decides: an error on the way up is only reported at the end.
PumpEnds ==
  /\ bridge.at = "pumping" /\ sock.down = 0 /\ sock.downEnd # "no"
  /\ Leaves(sock.downEnd = "reset" \/ bridge.upstream = "failed")
  /\ UNCHANGED <<path, client, ssh, up, down, server, daemon>>

-----------------------------------------------------------------------------
(* kadrand *)

\* The socket is closed; the peer reads what was written, and then the end, or
\* an error if something was left unread or the connection was never accepted.
Hangup(read, unread) ==
  /\ server' = [server EXCEPT !.at = "closed", !.deadline = FALSE, !.read = read]
  /\ sock' = [sock EXCEPT !.up = <<>>,
                          !.downEnd = IF unread # <<>> \/ server.at = "none"
                                        THEN "reset" ELSE "eof"]

\* ServerHandshake: the peer's credentials pass, and the deadline is set.
Accept ==
  /\ daemon = "up" /\ sock.open /\ server.at = "none"
  /\ server' = [server EXCEPT !.at = "handshake", !.deadline = TRUE]
  /\ UNCHANGED <<path, client, ssh, up, down, bridge, sock, daemon>>

\* Mutant: the deadline stays on the connection that gRPC then serves.
HandshakeKeepsDeadline ==
  /\ daemon = "up" /\ server.at = "handshake" /\ sock.up # <<>>
  /\ Head(sock.up) = "preface"
  /\ server' = [server EXCEPT !.at = "session", !.read = Append(@, Head(sock.up))]
  /\ sock' = [sock EXCEPT !.up = Tail(@)]
  /\ UNCHANGED <<path, client, ssh, up, down, bridge, daemon>>

\* The preface is read whole and nothing after it; the deadline is lifted.
Handshake ==
  /\ daemon = "up" /\ server.at = "handshake" /\ sock.up # <<>>
  /\ Head(sock.up) = "preface"
  /\ server' = [server EXCEPT !.at = "session", !.deadline = FALSE,
                              !.read = Append(@, Head(sock.up))]
  /\ sock' = [sock EXCEPT !.up = Tail(@)]
  /\ UNCHANGED <<path, client, ssh, up, down, bridge, daemon>>

\* Refused credentials, or the end before a preface.
HandshakeFails ==
  /\ daemon = "up" /\ server.at = "handshake"
  /\ Hangup(server.read, sock.up)
  /\ UNCHANGED <<path, client, ssh, up, down, bridge, daemon>>

\* CheckRole: a preface that was read is refused.
PrefaceRefused ==
  /\ daemon = "up" /\ server.at = "handshake" /\ sock.up # <<>>
  /\ Head(sock.up) = "preface"
  /\ Hangup(Append(server.read, Head(sock.up)), Tail(sock.up))
  /\ UNCHANGED <<path, client, ssh, up, down, bridge, daemon>>

\* A read that is under way when the deadline comes fails.
DeadlinePasses ==
  /\ daemon = "up" /\ server.deadline /\ sock.up = <<>>
  /\ Hangup(server.read, sock.up)
  /\ UNCHANGED <<path, client, ssh, up, down, bridge, daemon>>

Serve ==
  /\ daemon = "up" /\ server.at = "session" /\ sock.up # <<>>
  /\ server' = [server EXCEPT !.read = Append(@, Head(sock.up))]
  /\ sock' = [sock EXCEPT !.up = Tail(@)]
  /\ UNCHANGED <<path, client, ssh, up, down, bridge, daemon>>

Answer ==
  /\ daemon = "up" /\ server.at = "session" /\ server.sent < MaxAnswers
  /\ server' = [server EXCEPT !.sent = @ + 1]
  \* To a peer that is gone nothing is written.
  /\ sock' = [sock EXCEPT !.down = IF bridge.at = "gone" \/ (path = "local" /\ client.at = "closed")
                                     THEN 0 ELSE @ + 1]
  /\ UNCHANGED <<path, client, ssh, up, down, bridge, daemon>>

SessionEnds ==
  /\ daemon = "up" /\ server.at = "session" /\ sock.upEnd /\ sock.up = <<>>
  /\ Hangup(server.read, sock.up)
  /\ UNCHANGED <<path, client, ssh, up, down, bridge, daemon>>

Hang ==
  /\ daemon = "up"
  /\ daemon' = "hung"
  /\ UNCHANGED <<path, client, ssh, up, down, bridge, sock, server>>

\* kadrand stops or is killed: its sockets are closed, also unaccepted ones.
Die ==
  /\ daemon # "down"
  /\ daemon' = "down"
  /\ IF sock.open /\ server.at # "closed" THEN Hangup(server.read, sock.up) ELSE UNCHANGED <<sock, server>>
  /\ UNCHANGED <<path, client, ssh, up, down, bridge>>

-----------------------------------------------------------------------------
\* Nothing is left to happen: the client is done and kadrand is gone.
Over ==
  /\ client.at = "closed" /\ daemon = "down" /\ bridge.at \in {"none", "gone"}
  /\ UNCHANGED vars

Client == DialSSH \/ DialLocal \/ DialFails \/ Write \/ Read \/ ReadEnd \/ Close \/ Closed \/ Kill
Ssh == SshConnects \/ SshRefused \/ SshEnds \/ SshCut
Connector == Connect \/ WritePreface \/ CopyUp \/ CopyUpEnds \/ CopyDown \/ PumpEnds
Server == \/ Accept \/ Handshake \/ HandshakeFails \/ PrefaceRefused \/ DeadlinePasses
          \/ Serve \/ Answer \/ SessionEnds

Next == Client \/ Ssh \/ Connector \/ Server \/ Hang \/ Die \/ Over

\* kadran-connect and both of its directions are scheduled, gRPC's server
\* reads what comes and its deadline passes, and the time of a wait for ssh
\* runs out.  Nothing is assumed of the client's calls, of ssh or of a kadrand
\* that hangs.
Fairness ==
  /\ WF_vars(Connect) /\ WF_vars(WritePreface)
  /\ WF_vars(CopyUp \/ CopyUpEnds) /\ WF_vars(CopyDown \/ PumpEnds)
  /\ WF_vars(Accept)
  /\ WF_vars(Handshake \/ HandshakeFails \/ PrefaceRefused \/ DeadlinePasses)
  /\ WF_vars(Serve \/ SessionEnds)
  /\ WF_vars(Kill) /\ WF_vars(Closed)

Spec == Init /\ [][Next]_vars /\ Fairness

-----------------------------------------------------------------------------
\* Types; and the deadline of the handshake is on the connection only during it:
\* left in place it would end the session that follows.
BridgeTypeOK ==
  /\ path \in {"ssh", "local"} /\ daemon \in {"up", "hung", "down"}
  /\ client \in [at : {"idle", "open", "closing", "closed"}, sent : 0 .. MaxRequests,
                 got : 0 .. MaxAnswers, end : {"none", "eof", "reason"}]
  /\ ssh \in [at : {"none", "connecting", "up", "lingering", "exited"},
              failed : BOOLEAN, cut : BOOLEAN, stubborn : BOOLEAN]
  /\ up \in Seq({"preface", "request"}) /\ down \in 0 .. MaxAnswers
  /\ bridge \in [at : {"none", "dialling", "writing", "pumping", "gone"},
                 upstream : {"none", "copying", "done", "failed"}, failed : BOOLEAN]
  /\ sock \in [open : BOOLEAN, up : Seq({"preface", "request"}), upEnd : BOOLEAN,
               down : 0 .. MaxAnswers, downEnd : {"no", "eof", "reset"}]
  /\ server.at \in {"none", "handshake", "session", "closed"}
  /\ server.deadline <=> server.at = "handshake"

\* What kadrand reads of a connection is one preface, written by kadran-connect
\* or by the client on the server itself, and after it the client's requests in
\* the order they were sent.
PrefaceFirst ==
  LET stream == server.read \o sock.up
  IN  \A i \in DOMAIN stream : stream[i] = "preface" <=> i = 1

\* The end that a client reads is true: unless the network broke it has then read
\* all that kadrand wrote, and a plain end means that kadrand ended the connection;
\* that ssh or kadran-connect failed is told.
EndIsTrue ==
  client.end # "none" =>
    /\ ssh.cut \/ client.got = server.sent
    /\ client.end = "eof" => server.at = "closed" /\ ~bridge.failed

\* A client that closes gets rid of its ssh; and when an ssh is gone, neither
\* kadran-connect nor kadrand's side of the connection stays, unless kadrand
\* hangs.
CloseCollects ==
  /\ client.at = "closing" ~> client.at = "closed" /\ ssh.at = "exited"
  /\ ssh.at = "exited" ~>
       \/ bridge.at \in {"none", "gone"} /\ (sock.open => server.at = "closed")
       \/ daemon = "hung"

=============================================================================
