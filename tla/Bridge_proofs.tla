---------------------------- MODULE Bridge_proofs ----------------------------
(***************************************************************************)
(* For any number of requests and answers: what kadrand reads begins with  *)
(* one preface, and the end that a client reads is true.                   *)
(***************************************************************************)
EXTENDS Bridge, TLAPS

Token == {"preface", "request"}

\* Types; that no more answers arrive than were written is in Books.
ClientOK ==
  client \in [at : {"idle", "open", "closing", "closed"}, sent : 0 .. MaxRequests,
              got : Nat, end : {"none", "eof", "reason"}]

SshOK ==
  ssh \in [at : {"none", "connecting", "up", "lingering", "exited"},
           failed : BOOLEAN, cut : BOOLEAN, stubborn : BOOLEAN]

BridgeOK ==
  bridge \in [at : {"none", "dialling", "writing", "pumping", "gone"},
              upstream : {"none", "copying", "done", "failed"}, failed : BOOLEAN]

SockOK ==
  sock \in [open : BOOLEAN, up : Seq(Token), upEnd : BOOLEAN,
            down : Nat, downEnd : {"no", "eof", "reset"}]

ServerOK ==
  server \in [at : {"none", "handshake", "session", "closed"}, deadline : BOOLEAN,
              read : Seq(Token), sent : 0 .. MaxAnswers]

Shape ==
  /\ path \in {"ssh", "local"} /\ daemon \in {"up", "hung", "down"}
  /\ up \in Seq({"request"}) /\ down \in Nat
  /\ ClientOK /\ SshOK /\ BridgeOK /\ SockOK /\ ServerOK

\* Who has come how far when someone else has.
Roles ==
  /\ server.deadline <=> server.at = "handshake"
  /\ ~sock.open => server.at = "none"
  /\ server.at \in {"none", "handshake"} => server.read = <<>>
  /\ server.read = <<>> => server.at # "session" /\ server.sent = 0
  /\ sock.downEnd # "no" <=> server.at = "closed"
  /\ client.at = "idle" => ssh.at = "none" /\ client.end = "none"
  /\ path = "local" => /\ ssh.at = "none" /\ ~ssh.cut
                       /\ bridge.at = "none" /\ ~bridge.failed
                       /\ client.at = "idle" => ~sock.open
                       /\ client.at # "closing"
  /\ path = "ssh" => /\ ssh.at \in {"none", "connecting"} => bridge.at = "none"
                     /\ bridge.at \in {"none", "dialling"} => ~sock.open
                     /\ ssh.at = "up" => bridge.at # "none"
                     /\ ssh.at = "lingering" => bridge.at = "gone"

\* A piece of what kadrand reads that begins it, and one that does not.
Prefaced(s) == \A i \in 1 .. Len(s) : s[i] = "preface" <=> i = 1
Requests(s) == \A i \in 1 .. Len(s) : s[i] = "request"

\* What kadrand has read, and what it has yet to read.
Stream ==
  /\ Prefaced(server.read)
  /\ IF server.read = <<>> THEN Prefaced(sock.up) ELSE Requests(sock.up)
  /\ IF path = "local"
     THEN /\ client.at = "idle" => sock.up = <<>> /\ server.read = <<>>
          /\ client.at = "open" => server.at = "closed" \/ sock.up # <<>> \/ server.read # <<>>
     ELSE /\ bridge.at \in {"none", "dialling", "writing"} => sock.up = <<>> /\ server.read = <<>>
          /\ bridge.at = "pumping" => server.at = "closed" \/ sock.up # <<>> \/ server.read # <<>>

\* Every answer is on its way, as long as the client reads and the network is
\* there; nobody has answers that were not written.
Reading == client.at \in {"idle", "open"} /\ ~ssh.cut

Books ==
  /\ client.got + down + sock.down <= server.sent
  /\ Reading => client.got + down + sock.down = server.sent
  /\ path = "local" => down = 0

\* kadrand's side of the connection has ended, or never begins.
Final ==
  \/ server.at = "closed"
  \/ server.at = "none" /\ ~sock.open /\ bridge.at \in {"none", "gone"}

Told ==
  /\ bridge.at = "gone" /\ Reading => Final /\ sock.down = 0
  /\ bridge.at = "gone" /\ ~bridge.failed => server.at = "closed"
  /\ ssh.at \in {"lingering", "exited"} /\ ~ssh.failed => bridge.at = "gone" /\ ~bridge.failed
  /\ ssh.at = "exited" /\ Reading => bridge.at \in {"none", "gone"}
  /\ client.end # "none" =>
       /\ path = "ssh" => ssh.at = "exited"
       /\ ssh.cut \/ (client.got = server.sent /\ Final)
       /\ client.end = "eof" =>
            /\ server.at = "closed" /\ ~bridge.failed
            /\ path = "ssh" => bridge.at = "gone"

BridgeInv == Shape /\ Roles /\ Stream /\ Books /\ Told

-----------------------------------------------------------------------------
(* Sequences of prefaces and requests. *)

LEMMA TokenSeqs ==
  /\ <<>> \in Seq(Token) /\ <<"preface">> \in Seq(Token)
  /\ \A s \in Seq(Token), t \in Token : Append(s, t) \in Seq(Token) /\ Append(s, t) # <<>>
  /\ \A s \in Seq(Token) : s # <<>> => Head(s) \in Token /\ Tail(s) \in Seq(Token)
  /\ "preface" \in Token /\ "request" \in Token
  BY DEF Token

LEMMA Begin ==
  /\ Prefaced(<<>>) /\ Requests(<<>>)
  /\ Prefaced(<<"preface">>) /\ <<"preface">> # <<>>
  /\ Append(<<>>, "preface") = <<"preface">>
  BY DEF Prefaced, Requests

\* A request comes after what there is.
LEMMA Extended ==
  ASSUME NEW s \in Seq(Token)
  PROVE  /\ Requests(s) => Requests(Append(s, "request"))
         /\ Prefaced(s) /\ s # <<>> => Prefaced(Append(s, "request"))
  BY DEF Prefaced, Requests

\* The head is taken from what there is.
LEMMA Taken ==
  ASSUME NEW s \in Seq(Token), s # <<>>
  PROVE  /\ Requests(s) => Head(s) = "request" /\ Requests(Tail(s))
         /\ Prefaced(s) => Head(s) = "preface" /\ Requests(Tail(s))
<1>1. /\ Len(s) \in Nat \ {0} /\ Head(s) = s[1] /\ Len(Tail(s)) = Len(s) - 1
      /\ \A i \in 1 .. Len(s) - 1 : Tail(s)[i] = s[i + 1]
      /\ \A i \in 1 .. Len(s) : s[i] \in Token
  OBVIOUS
<1> QED
  BY DEF Prefaced, Requests, Token

\* What the client writes at its end of ssh.
LEMMA RequestSeqs ==
  /\ <<>> \in Seq({"request"})
  /\ \A s \in Seq({"request"}) : Append(s, "request") \in Seq({"request"})
  /\ \A s \in Seq({"request"}) :
       s # <<>> => Head(s) = "request" /\ Tail(s) \in Seq({"request"})
<1> DEFINE R == {"request"}
<1>1. /\ <<>> \in Seq(R) /\ \A s \in Seq(R), t \in R : Append(s, t) \in Seq(R)
      /\ \A s \in Seq(R) : s # <<>> => Head(s) \in R /\ Tail(s) \in Seq(R)
  OBVIOUS
<1> QED
  BY <1>1

\* The fields by themselves, for the leaves that need no record.
LEMMA Types ==
  ASSUME Shape
  PROVE  /\ client.sent \in Nat /\ client.got \in Nat /\ down \in Nat
         /\ sock.down \in Nat /\ server.sent \in Nat
         /\ sock.up \in Seq(Token) /\ server.read \in Seq(Token)
         /\ up \in Seq({"request"})
  BY DEF Shape, ClientOK, SockOK, ServerOK


-----------------------------------------------------------------------------
(* The client.  Each step is spelled out field by field, then carried      *)
(* through the parts of the invariant.                                     *)

LEMMA DialLocalKeeps ==
  ASSUME BridgeInv, DialLocal
  PROVE  BridgeInv'
<1> USE BridgeAssumption DEF BridgeInv
<1>1. /\ client' = [at |-> "open", sent |-> client.sent, got |-> client.got,
                    end |-> client.end]
      /\ sock' = [open |-> TRUE, up |-> <<"preface">>, upEnd |-> sock.upEnd,
                  down |-> sock.down, downEnd |-> sock.downEnd]
      /\ UNCHANGED <<path, ssh, up, down, bridge, server, daemon>>
  BY DEF DialLocal, Shape, ClientOK, SockOK
<1>2. /\ path = "local" /\ client.at = "idle"
  BY DEF DialLocal
<1>3. Shape'
  BY <1>1, TokenSeqs DEF Shape, ClientOK, SshOK, BridgeOK, SockOK, ServerOK
<1>4. Roles'
  BY <1>1, <1>2 DEF Roles
<1>5. Stream'
  BY <1>1, <1>2, Begin DEF Stream
<1>6. Books'
  BY <1>1, <1>2 DEF Books, Reading
<1>7. Told'
  BY <1>1, <1>2 DEF Roles, Told
<1> QED
  BY <1>3, <1>4, <1>5, <1>6, <1>7

LEMMA WriteKeeps ==
  ASSUME BridgeInv, Write
  PROVE  BridgeInv'
<1> USE BridgeAssumption DEF BridgeInv
<1>1. CASE path = "ssh"
  <2>1. /\ client' = [at |-> client.at, sent |-> client.sent + 1,
                      got |-> client.got, end |-> client.end]
        /\ up' = Append(up, "request")
        /\ UNCHANGED <<path, ssh, down, bridge, sock, server, daemon>>
    BY <1>1 DEF Write, Shape, ClientOK
  <2>2. /\ client.at = "open" /\ client.sent < MaxRequests
    BY DEF Write
  <2>3. Shape'
    BY <2>1, <2>2 DEF Shape, ClientOK, SshOK, BridgeOK, SockOK, ServerOK
  <2>4. Roles'
    BY <2>1 DEF Roles
  <2>5. Stream'
    BY <2>1 DEF Stream
  <2>6. Books'
    BY <2>1 DEF Books, Reading
  <2>7. Told'
    BY <2>1 DEF Told, Reading, Final
  <2> QED
    BY <2>3, <2>4, <2>5, <2>6, <2>7
<1>2. CASE path = "local"
  <2>1. /\ client' = [at |-> client.at, sent |-> client.sent + 1,
                      got |-> client.got, end |-> client.end]
        /\ sock' = [open |-> sock.open, up |-> Append(sock.up, "request"),
                    upEnd |-> sock.upEnd, down |-> sock.down,
                    downEnd |-> sock.downEnd]
        /\ UNCHANGED <<path, ssh, up, down, bridge, server, daemon>>
    BY <1>2 DEF Write, Shape, ClientOK, SockOK
  <2>2. /\ client.at = "open" /\ client.sent < MaxRequests /\ server.at # "closed"
    BY <1>2 DEF Write
  <2>3. Shape'
    BY <2>1, <2>2, TokenSeqs DEF Shape, ClientOK, SshOK, BridgeOK, SockOK, ServerOK
  <2>4. /\ client'.at = client.at /\ client'.sent = client.sent + 1
        /\ client'.got = client.got /\ client'.end = client.end
        /\ sock'.open = sock.open /\ sock'.up = Append(sock.up, "request")
        /\ sock'.upEnd = sock.upEnd /\ sock'.down = sock.down
        /\ sock'.downEnd = sock.downEnd
    BY <2>1
  <2>5. /\ UNCHANGED <<path, ssh, up, down, bridge, server, daemon>>
    BY <2>1
  <2>6. sock.up # <<>> \/ server.read # <<>>
    BY <1>2, <2>2 DEF Stream
  <2>7. /\ Append(sock.up, "request") # <<>>
        /\ Requests(sock.up) => Requests(Append(sock.up, "request"))
        /\ Prefaced(sock.up) /\ sock.up # <<>> => Prefaced(Append(sock.up, "request"))
    BY Extended, TokenSeqs, Types
  <2>8. Roles'
    BY <2>4, <2>5 DEF Roles
  <2>9. Stream'
    BY <2>4, <2>5, <2>6, <2>7 DEF Stream
  <2>10. Books'
    BY <2>4, <2>5 DEF Books, Reading
  <2>11. Told'
    BY <2>4, <2>5 DEF Told, Reading, Final
  <2> QED
    BY <2>3, <2>8, <2>9, <2>10, <2>11
<1> QED
  BY <1>1, <1>2 DEF Shape

LEMMA ReadKeeps ==
  ASSUME BridgeInv, Read
  PROVE  BridgeInv'
<1> USE BridgeAssumption DEF BridgeInv
<1>1. CASE path = "ssh"
  <2>1. /\ client' = [at |-> client.at, sent |-> client.sent,
                      got |-> client.got + 1, end |-> client.end]
        /\ down' = down - 1
        /\ UNCHANGED <<path, ssh, up, bridge, sock, server, daemon>>
    BY <1>1 DEF Read, Shape, ClientOK
  <2>2. /\ client.at = "open" /\ client.end = "none" /\ down > 0
    BY <1>1 DEF Read
  <2>3. Shape'
    BY <2>1, <2>2 DEF Shape, ClientOK, SshOK, BridgeOK, SockOK, ServerOK
  <2>4. /\ client'.at = client.at /\ client'.sent = client.sent
        /\ client'.got = client.got + 1 /\ client'.end = client.end
    BY <2>1
  <2>5. /\ UNCHANGED <<path, ssh, up, bridge, sock, server, daemon>>
        /\ down' = down - 1
    BY <2>1
  <2>6. /\ client.got \in Nat /\ down \in Nat /\ sock.down \in Nat
        /\ server.sent \in Nat
    BY Types
  <2>7. client'.got + down' + sock'.down = client.got + down + sock.down
    BY <2>2, <2>4, <2>5, <2>6
  <2>8. Roles'
    BY <2>4, <2>5 DEF Roles
  <2>9. Stream'
    BY <2>4, <2>5 DEF Stream
  <2>10. Books'
    BY <2>2, <2>5, <2>7 DEF Books, Reading
  <2>11. Told'
    BY <2>2, <2>4, <2>5 DEF Told, Reading, Final
  <2> QED
    BY <2>3, <2>8, <2>9, <2>10, <2>11
<1>2. CASE path = "local"
  <2>1. /\ client' = [at |-> client.at, sent |-> client.sent,
                      got |-> client.got + 1, end |-> client.end]
        /\ sock' = [open |-> sock.open, up |-> sock.up, upEnd |-> sock.upEnd,
                    down |-> sock.down - 1, downEnd |-> sock.downEnd]
        /\ UNCHANGED <<path, ssh, up, down, bridge, server, daemon>>
    BY <1>2 DEF Read, Shape, ClientOK, SockOK
  <2>2. /\ client.at = "open" /\ client.end = "none" /\ sock.down > 0
    BY <1>2 DEF Read
  <2>3. Shape'
    BY <2>1, <2>2 DEF Shape, ClientOK, SshOK, BridgeOK, SockOK, ServerOK
  <2>4. /\ client'.at = client.at /\ client'.sent = client.sent
        /\ client'.got = client.got + 1 /\ client'.end = client.end
        /\ sock'.open = sock.open /\ sock'.up = sock.up /\ sock'.upEnd = sock.upEnd
        /\ sock'.down = sock.down - 1 /\ sock'.downEnd = sock.downEnd
    BY <2>1
  <2>5. /\ UNCHANGED <<path, ssh, up, down, bridge, server, daemon>>
    BY <2>1
  <2>6. /\ client.got \in Nat /\ down \in Nat /\ sock.down \in Nat
        /\ server.sent \in Nat
    BY Types
  <2>7. client'.got + down' + sock'.down = client.got + down + sock.down
    BY <2>4, <2>5, <2>6
  <2>8. Roles'
    BY <2>4, <2>5 DEF Roles
  <2>9. Stream'
    BY <2>4, <2>5 DEF Stream
  <2>10. Books'
    BY <2>4, <2>5, <2>7 DEF Books, Reading
  <2>11. Told'
    BY <2>2, <2>4, <2>5 DEF Told, Reading
  <2> QED
    BY <2>3, <2>8, <2>9, <2>10, <2>11
<1> QED
  BY <1>1, <1>2 DEF Shape

\* The end a client reads is true: ssh left after the connector, which left
\* after kadrand, and every answer had been passed on.
LEMMA ReadEndKeeps ==
  ASSUME BridgeInv, ReadEnd
  PROVE  BridgeInv'
<1> USE BridgeAssumption DEF BridgeInv
<1>1. CASE path = "ssh"
  <2>1. /\ client' = [at |-> client.at, sent |-> client.sent, got |-> client.got,
                      end |-> IF ssh.failed THEN "reason" ELSE "eof"]
        /\ UNCHANGED <<path, ssh, up, down, bridge, sock, server, daemon>>
    BY <1>1 DEF ReadEnd, Shape, ClientOK, remote
  <2>2. /\ client.at = "open" /\ client.end = "none" /\ down = 0
        /\ ssh.at = "exited"
    BY <1>1 DEF ReadEnd
  <2>3. Shape'
    BY <2>1 DEF Shape, ClientOK, SshOK, BridgeOK, SockOK, ServerOK
  <2>4. Roles'
    BY <2>1, <2>2 DEF Roles
  <2>5. Stream'
    BY <2>1 DEF Stream
  <2>6. Books'
    BY <2>1 DEF Books, Reading
  <2>7. Told'
    BY <2>1, <2>2 DEF Shape, Roles, Books, Reading, Told, Final, ClientOK, SockOK
  <2> QED
    BY <2>3, <2>4, <2>5, <2>6, <2>7
<1>2. CASE path = "local"
  <2>1. /\ client' = [at |-> client.at, sent |-> client.sent, got |-> client.got,
                      end |-> IF sock.downEnd = "reset" THEN "reason" ELSE "eof"]
        /\ UNCHANGED <<path, ssh, up, down, bridge, sock, server, daemon>>
    BY <1>2 DEF ReadEnd, Shape, ClientOK, remote
  <2>2. /\ client.at = "open" /\ client.end = "none" /\ sock.down = 0
        /\ sock.downEnd # "no"
    BY <1>2 DEF ReadEnd
  <2>3. Shape'
    BY <2>1 DEF Shape, ClientOK, SshOK, BridgeOK, SockOK, ServerOK
  <2>4. Roles'
    BY <2>1, <2>2 DEF Roles
  <2>5. Stream'
    BY <2>1 DEF Stream
  <2>6. Books'
    BY <2>1 DEF Books, Reading
  <2>7. Told'
    BY <2>1, <2>2, <1>2 DEF Shape, Roles, Books, Reading, Told, Final, ClientOK
  <2> QED
    BY <2>3, <2>4, <2>5, <2>6, <2>7
<1> QED
  BY <1>1, <1>2 DEF Shape

\* Who closes reads no more, so answers may be lost from here on.
LEMMA CloseKeeps ==
  ASSUME BridgeInv, Close
  PROVE  BridgeInv'
<1> USE BridgeAssumption DEF BridgeInv
<1>1. CASE path = "ssh"
  <2>1. /\ client' = [at |-> "closing", sent |-> client.sent, got |-> client.got,
                      end |-> client.end]
        /\ UNCHANGED <<path, ssh, up, down, bridge, sock, server, daemon>>
    BY <1>1 DEF Close, Shape, ClientOK
  <2>2. /\ client.at = "open"
    BY DEF Close
  <2>3. Shape'
    BY <2>1 DEF Shape, ClientOK, SshOK, BridgeOK, SockOK, ServerOK
  <2>4. Roles'
    BY <2>1, <1>1 DEF Roles
  <2>5. Stream'
    BY <2>1 DEF Stream
  <2>6. Books'
    BY <2>1 DEF Books, Reading
  <2>7. Told'
    BY <2>1 DEF Told, Reading, Final
  <2> QED
    BY <2>3, <2>4, <2>5, <2>6, <2>7
<1>2. CASE path = "local"
  <2>1. /\ client' = [at |-> "closed", sent |-> client.sent, got |-> client.got,
                      end |-> client.end]
        /\ sock' = [open |-> sock.open, up |-> sock.up, upEnd |-> TRUE, down |-> 0,
                    downEnd |-> sock.downEnd]
        /\ UNCHANGED <<path, ssh, up, down, bridge, server, daemon>>
    <3>1. client' = [at |-> "closed", sent |-> client.sent, got |-> client.got,
                     end |-> client.end]
      BY <1>2 DEF Close, Shape, ClientOK
    <3>2. sock' = [open |-> sock.open, up |-> sock.up, upEnd |-> TRUE, down |-> 0,
                   downEnd |-> sock.downEnd]
      BY <1>2 DEF Close, Shape, SockOK
    <3> QED
      BY <3>1, <3>2, <1>2 DEF Close, remote
  <2>2. /\ client.at = "open"
    BY DEF Close
  <2>3. Shape'
    BY <2>1 DEF Shape, ClientOK, SshOK, BridgeOK, SockOK, ServerOK
  <2>4. Roles'
    BY <2>1 DEF Roles
  <2>5. Stream'
    BY <2>1 DEF Stream
  <2>6. Books'
    BY <2>1 DEF Shape, Books, Reading, ClientOK, SockOK, ServerOK
  <2>7. Told'
    BY <2>1 DEF Told, Reading, Final
  <2> QED
    BY <2>3, <2>4, <2>5, <2>6, <2>7
<1> QED
  BY <1>1, <1>2 DEF Shape

\* ssh passes the exit code of the connector on.
LEMMA SshEndsKeeps ==
  ASSUME BridgeInv, SshEnds
  PROVE  BridgeInv'
<1> USE BridgeAssumption DEF BridgeInv
<1>1. /\ ssh' = [at |-> IF ssh.stubborn THEN "lingering" ELSE "exited",
                 failed |-> bridge.failed, cut |-> ssh.cut,
                 stubborn |-> ssh.stubborn]
      /\ UNCHANGED <<path, client, up, down, bridge, sock, server, daemon>>
  BY DEF SshEnds, Shape, SshOK, remote
<1>2. /\ ssh.at = "up" /\ bridge.at = "gone"
  BY DEF SshEnds
<1>3. Shape'
  BY <1>1 DEF Shape, ClientOK, SshOK, BridgeOK, SockOK, ServerOK
<1>4. Roles'
  BY <1>1, <1>2 DEF Roles
<1>5. Stream'
  BY <1>1 DEF Stream
<1>6. Books'
  BY <1>1 DEF Books, Reading
<1>7. Told'
  BY <1>1, <1>2 DEF Told, Reading, Final
<1> QED
  BY <1>3, <1>4, <1>5, <1>6, <1>7

-----------------------------------------------------------------------------
(* The connector on the host. *)

LEMMA ConnectKeeps ==
  ASSUME BridgeInv, Connect
  PROVE  BridgeInv'
<1> USE BridgeAssumption DEF BridgeInv
<1>1. CASE /\ daemon # "down"
            /\ bridge' = [bridge EXCEPT !.at = "writing"]
            /\ sock' = [sock EXCEPT !.open = TRUE]
  <2>1. /\ bridge' = [at |-> "writing", upstream |-> bridge.upstream,
                      failed |-> bridge.failed]
        /\ sock' = [open |-> TRUE, up |-> sock.up, upEnd |-> sock.upEnd,
                    down |-> sock.down, downEnd |-> sock.downEnd]
        /\ UNCHANGED <<path, client, ssh, up, down, server, daemon>>
    BY <1>1 DEF Connect, Shape, BridgeOK, SockOK
  <2>2. /\ bridge.at = "dialling"
    BY DEF Connect
  <2>3. Shape'
    BY <2>1 DEF Shape, ClientOK, SshOK, BridgeOK, SockOK, ServerOK
  <2>4. Roles'
    BY <2>1, <2>2 DEF Roles
  <2>5. Stream'
    BY <2>1, <2>2 DEF Stream
  <2>6. Books'
    BY <2>1 DEF Books, Reading
  <2>7. Told'
    BY <2>1, <2>2 DEF Told, Reading, Final
  <2> QED
    BY <2>3, <2>4, <2>5, <2>6, <2>7
<1>2. CASE Leaves(TRUE)
  <2>1. /\ bridge' = [at |-> "gone", upstream |-> bridge.upstream, failed |-> TRUE]
        /\ sock' = [open |-> sock.open, up |-> sock.up, upEnd |-> TRUE, down |-> 0,
                    downEnd |-> sock.downEnd]
        /\ UNCHANGED <<path, client, ssh, up, down, server, daemon>>
    BY <1>2 DEF Connect, Leaves, Shape, BridgeOK, SockOK
  <2>2. /\ bridge.at = "dialling"
    BY DEF Connect
  <2>3. Shape'
    BY <2>1 DEF Shape, ClientOK, SshOK, BridgeOK, SockOK, ServerOK
  <2>4. Roles'
    BY <2>1, <2>2 DEF Roles
  <2>5. Stream'
    BY <2>1 DEF Stream
  <2>6. Books'
    BY <2>1, <2>2 DEF Shape, Roles, Books, ClientOK, SockOK
  <2>7. Told'
    BY <2>1, <2>2 DEF Shape, Roles, Told, Final
  <2> QED
    BY <2>3, <2>4, <2>5, <2>6, <2>7
<1> QED
  BY <1>1, <1>2 DEF Connect

\* The preface is the first thing written to the socket.
LEMMA WritePrefaceKeeps ==
  ASSUME BridgeInv, WritePreface
  PROVE  BridgeInv'
<1> USE BridgeAssumption DEF BridgeInv
<1>1. CASE server.at = "closed"
  <2>1. /\ bridge' = [at |-> "gone", upstream |-> bridge.upstream, failed |-> TRUE]
        /\ sock' = [open |-> sock.open, up |-> sock.up, upEnd |-> TRUE, down |-> 0,
                    downEnd |-> sock.downEnd]
        /\ UNCHANGED <<path, client, ssh, up, down, server, daemon>>
    BY <1>1 DEF WritePreface, Leaves, Shape, BridgeOK, SockOK
  <2>2. /\ bridge.at = "writing"
    BY DEF WritePreface
  <2>3. Shape'
    BY <2>1 DEF Shape, ClientOK, SshOK, BridgeOK, SockOK, ServerOK
  <2>4. /\ bridge'.at = "gone" /\ bridge'.upstream = bridge.upstream
        /\ bridge'.failed = TRUE
        /\ sock'.open = sock.open /\ sock'.up = sock.up /\ sock'.upEnd = TRUE
        /\ sock'.down = 0 /\ sock'.downEnd = sock.downEnd
    BY <2>1
  <2>5. /\ UNCHANGED <<path, client, ssh, up, down, server, daemon>>
    BY <2>1
  <2>6. Roles'
    BY <2>2, <2>4, <2>5 DEF Roles
  <2>7. Stream'
    BY <2>4, <2>5 DEF Stream
  <2>8. Books'
    BY <2>2, <2>4, <2>5, Types DEF Roles, Stream, Books
  <2>9. Told'
    BY <1>1, <2>2, <2>4, <2>5 DEF Shape, Roles, Told, Final
  <2> QED
    BY <2>3, <2>6, <2>7, <2>8, <2>9
<1>2. CASE server.at # "closed"
  <2>1. /\ bridge' = [at |-> "pumping", upstream |-> "copying",
                      failed |-> bridge.failed]
        /\ sock' = [open |-> sock.open, up |-> Append(sock.up, "preface"),
                    upEnd |-> sock.upEnd, down |-> sock.down,
                    downEnd |-> sock.downEnd]
        /\ UNCHANGED <<path, client, ssh, up, down, server, daemon>>
    <3>1. bridge' = [at |-> "pumping", upstream |-> "copying",
                     failed |-> bridge.failed]
      BY <1>2 DEF WritePreface, Shape, BridgeOK
    <3>2. sock' = [open |-> sock.open, up |-> Append(sock.up, "preface"),
                   upEnd |-> sock.upEnd, down |-> sock.down,
                   downEnd |-> sock.downEnd]
      BY <1>2 DEF WritePreface, Shape, SockOK
    <3> QED
      BY <3>1, <3>2, <1>2 DEF WritePreface, remote
  <2>2. /\ bridge.at = "writing"
    BY DEF WritePreface
  <2>3. Shape'
    BY <2>1, TokenSeqs DEF Shape, ClientOK, SshOK, BridgeOK, SockOK, ServerOK
  <2>4. /\ bridge'.at = "pumping" /\ bridge'.upstream = "copying"
        /\ bridge'.failed = bridge.failed
        /\ sock'.open = sock.open /\ sock'.up = Append(sock.up, "preface")
        /\ sock'.upEnd = sock.upEnd /\ sock'.down = sock.down
        /\ sock'.downEnd = sock.downEnd
    BY <2>1
  <2>5. /\ UNCHANGED <<path, client, ssh, up, down, server, daemon>>
    BY <2>1
  <2>6. Roles'
    BY <2>2, <2>4, <2>5 DEF Roles
  <2>7. Stream'
    <3>1. /\ path = "ssh" /\ sock.up = <<>> /\ server.read = <<>>
      BY <2>2 DEF Shape, Roles, Stream
    <3>2. /\ sock'.up # <<>> /\ Prefaced(sock'.up) /\ Prefaced(server.read)
      BY <2>4, <3>1, Begin
    <3> QED
      BY <2>4, <2>5, <3>1, <3>2 DEF Stream
  <2>8. Books'
    BY <2>4, <2>5 DEF Books, Reading
  <2>9. Told'
    BY <2>2, <2>4, <2>5 DEF Told, Reading, Final
  <2> QED
    BY <2>3, <2>6, <2>7, <2>8, <2>9
<1> QED
  BY <1>1, <1>2

\* Only requests follow the preface.
LEMMA CopyUpKeeps ==
  ASSUME BridgeInv, CopyUp
  PROVE  BridgeInv'
<1> USE BridgeAssumption DEF BridgeInv
<1>1. CASE server.at = "closed"
  <2>1. /\ up' = Tail(up)
        /\ bridge' = [at |-> bridge.at, upstream |-> "failed",
                      failed |-> bridge.failed]
        /\ UNCHANGED <<path, client, ssh, down, sock, server, daemon>>
    BY <1>1 DEF CopyUp, Shape, BridgeOK
  <2>2. /\ bridge.at = "pumping" /\ up # <<>>
    BY DEF CopyUp
  <2>3. Shape'
    BY <2>1, <2>2 DEF Shape, ClientOK, SshOK, BridgeOK, SockOK, ServerOK
  <2>4. Roles'
    BY <2>1 DEF Roles
  <2>5. Stream'
    BY <2>1 DEF Stream
  <2>6. Books'
    BY <2>1 DEF Books, Reading
  <2>7. Told'
    BY <2>1 DEF Told, Reading, Final
  <2> QED
    BY <2>3, <2>4, <2>5, <2>6, <2>7
<1>2. CASE server.at # "closed"
  <2>1. /\ up' = Tail(up)
        /\ sock' = [open |-> sock.open, up |-> Append(sock.up, Head(up)),
                    upEnd |-> sock.upEnd, down |-> sock.down,
                    downEnd |-> sock.downEnd]
        /\ UNCHANGED <<path, client, ssh, down, bridge, server, daemon>>
    BY <1>2 DEF CopyUp, Shape, SockOK
  <2>2. /\ bridge.at = "pumping" /\ up # <<>>
    BY DEF CopyUp
  <2>3. Shape'
    BY <2>1, <2>2, TokenSeqs DEF Shape, ClientOK, SshOK, BridgeOK, SockOK, ServerOK
  <2>4. /\ sock'.open = sock.open /\ sock'.up = Append(sock.up, Head(up))
        /\ sock'.upEnd = sock.upEnd /\ sock'.down = sock.down
        /\ sock'.downEnd = sock.downEnd
    BY <2>1
  <2>5. /\ UNCHANGED <<path, client, ssh, down, bridge, server, daemon>>
        /\ up' = Tail(up)
    BY <2>1
  <2>6. sock.up # <<>> \/ server.read # <<>>
    BY <1>2, <2>2 DEF Roles, Stream
  <2>7. /\ Append(sock.up, "request") # <<>> /\ Head(up) = "request"
        /\ Requests(sock.up) => Requests(Append(sock.up, "request"))
        /\ Prefaced(sock.up) /\ sock.up # <<>> => Prefaced(Append(sock.up, "request"))
    BY <2>2, Extended, TokenSeqs, RequestSeqs, Types
  <2>8. Roles'
    BY <2>4, <2>5 DEF Roles
  <2>9. Stream'
    BY <2>4, <2>5, <2>6, <2>7 DEF Stream
  <2>10. Books'
    BY <2>4, <2>5 DEF Books, Reading
  <2>11. Told'
    BY <2>4, <2>5 DEF Told, Reading, Final
  <2> QED
    BY <2>3, <2>8, <2>9, <2>10, <2>11
<1> QED
  BY <1>1, <1>2

LEMMA CopyDownKeeps ==
  ASSUME BridgeInv, CopyDown
  PROVE  BridgeInv'
<1> USE BridgeAssumption DEF BridgeInv
<1>1. CASE ssh.at = "up"
  <2>1. /\ down' = down + 1
        /\ sock' = [open |-> sock.open, up |-> sock.up, upEnd |-> sock.upEnd,
                    down |-> sock.down - 1, downEnd |-> sock.downEnd]
        /\ UNCHANGED <<path, client, ssh, up, bridge, server, daemon>>
    BY <1>1 DEF CopyDown, Shape, SockOK
  <2>2. /\ bridge.at = "pumping" /\ sock.down > 0
    BY DEF CopyDown
  <2>3. Shape'
    BY <2>1, <2>2 DEF Shape, ClientOK, SshOK, BridgeOK, SockOK, ServerOK
  <2>4. Roles'
    BY <2>1 DEF Roles
  <2>5. Stream'
    BY <2>1 DEF Stream
  <2>6. Books'
    BY <2>1, <2>2 DEF Shape, Roles, Books, Reading, ClientOK, SockOK
  <2>7. Told'
    BY <2>1, <2>2, <1>1 DEF Told, Final
  <2> QED
    BY <2>3, <2>4, <2>5, <2>6, <2>7
<1>2. CASE ssh.at # "up"
  <2>1. /\ bridge' = [at |-> "gone", upstream |-> bridge.upstream, failed |-> TRUE]
        /\ sock' = [open |-> sock.open, up |-> sock.up, upEnd |-> TRUE, down |-> 0,
                    downEnd |-> sock.downEnd]
        /\ UNCHANGED <<path, client, ssh, up, down, server, daemon>>
    <3>1. bridge' = [at |-> "gone", upstream |-> bridge.upstream, failed |-> TRUE]
      BY <1>2 DEF CopyDown, Leaves, Shape, BridgeOK
    <3>2. sock' = [open |-> sock.open, up |-> sock.up, upEnd |-> TRUE, down |-> 0,
                   downEnd |-> sock.downEnd]
      BY <1>2 DEF CopyDown, Leaves, Shape, SockOK
    <3> QED
      BY <3>1, <3>2, <1>2 DEF CopyDown, Leaves, remote
  <2>2. /\ bridge.at = "pumping" /\ sock.down > 0
    BY DEF CopyDown
  <2>3. Shape'
    BY <2>1 DEF Shape, ClientOK, SshOK, BridgeOK, SockOK, ServerOK
  <2>4. Roles'
    BY <2>1, <2>2 DEF Roles
  <2>5. Stream'
    BY <2>1 DEF Stream
  <2>6. Books'
    BY <2>1, <2>2, <1>2
    DEF Shape, Roles, Books, Reading, Told, ClientOK, SshOK, SockOK, ServerOK
  <2>7. Told'
    BY <2>1, <2>2, <1>2 DEF Shape, Roles, Reading, Told, Final, SshOK
  <2> QED
    BY <2>3, <2>4, <2>5, <2>6, <2>7
<1> QED
  BY <1>1, <1>2

\* The connector leaves of itself when kadrand's side ended, with every answer
\* passed on.
LEMMA PumpEndsKeeps ==
  ASSUME BridgeInv, PumpEnds
  PROVE  BridgeInv'
<1> USE BridgeAssumption DEF BridgeInv
<1>1. /\ bridge' = [at |-> "gone", upstream |-> bridge.upstream,
                    failed |-> (sock.downEnd = "reset" \/ bridge.upstream = "failed")]
      /\ sock' = [open |-> sock.open, up |-> sock.up, upEnd |-> TRUE, down |-> 0,
                  downEnd |-> sock.downEnd]
      /\ UNCHANGED <<path, client, ssh, up, down, server, daemon>>
  BY DEF PumpEnds, Leaves, Shape, BridgeOK, SockOK
<1>2. /\ bridge.at = "pumping" /\ sock.down = 0 /\ sock.downEnd # "no"
  BY DEF PumpEnds
<1>3. Shape'
  BY <1>1 DEF Shape, ClientOK, SshOK, BridgeOK, SockOK, ServerOK
<1>4. Roles'
  BY <1>1, <1>2 DEF Roles
<1>5. Stream'
  BY <1>1 DEF Stream
<1>6. Books'
  BY <1>1, <1>2 DEF Books, Reading
<1>7. Told'
  BY <1>1, <1>2 DEF Shape, Roles, Told, Final
<1> QED
  BY <1>3, <1>4, <1>5, <1>6, <1>7

-----------------------------------------------------------------------------
(* kadrand. *)

LEMMA HandshakeKeeps ==
  ASSUME BridgeInv, Handshake
  PROVE  BridgeInv'
<1> USE BridgeAssumption DEF BridgeInv
<1>1. /\ sock' = [open |-> sock.open, up |-> Tail(sock.up), upEnd |-> sock.upEnd,
                  down |-> sock.down, downEnd |-> sock.downEnd]
      /\ server' = [at |-> "session", deadline |-> FALSE,
                    read |-> Append(server.read, Head(sock.up)),
                    sent |-> server.sent]
      /\ UNCHANGED <<path, client, ssh, up, down, bridge, daemon>>
  BY DEF Handshake, Shape, SockOK, ServerOK
<1>2. /\ server.at = "handshake" /\ sock.up # <<>>
  BY DEF Handshake
<1>3. Shape'
  BY <1>1, <1>2 DEF Shape, ClientOK, SshOK, BridgeOK, SockOK, ServerOK
<1>4. /\ sock'.open = sock.open /\ sock'.up = Tail(sock.up)
      /\ sock'.upEnd = sock.upEnd /\ sock'.down = sock.down
      /\ sock'.downEnd = sock.downEnd
      /\ server'.at = "session" /\ server'.deadline = FALSE
      /\ server'.read = Append(server.read, Head(sock.up))
      /\ server'.sent = server.sent
  BY <1>1
<1>5. /\ UNCHANGED <<path, client, ssh, up, down, bridge, daemon>>
  BY <1>1
<1>6. /\ Requests(Tail(sock.up)) /\ Prefaced(Append(server.read, Head(sock.up)))
      /\ Append(server.read, Head(sock.up)) # <<>>
  BY <1>2, Taken, Begin, Types DEF Roles, Stream
<1>7. Roles'
  BY <1>2, <1>4, <1>5, <1>6 DEF Roles
<1>8. Stream'
  BY <1>2, <1>4, <1>5, <1>6 DEF Stream
<1>9. Books'
  BY <1>4, <1>5 DEF Books, Reading
<1>10. Told'
  BY <1>2, <1>5 DEF Told, Reading, Final
<1> QED
  BY <1>3, <1>7, <1>8, <1>9, <1>10

\* The ways to hang up: what was not read is dropped.
LEMMA HandshakeFailsKeeps ==
  ASSUME BridgeInv, HandshakeFails
  PROVE  BridgeInv'
<1> USE BridgeAssumption DEF BridgeInv
<1>1. /\ sock' = [open |-> sock.open, up |-> <<>>, upEnd |-> sock.upEnd,
                  down |-> sock.down,
                  downEnd |-> IF sock.up # <<>> \/ server.at = "none" THEN "reset" ELSE "eof"]
      /\ server' = [at |-> "closed", deadline |-> FALSE, read |-> server.read,
                    sent |-> server.sent]
      /\ UNCHANGED <<path, client, ssh, up, down, bridge, daemon>>
  BY DEF HandshakeFails, Hangup, Shape, SockOK, ServerOK
<1>2. /\ server.at = "handshake"
  BY DEF HandshakeFails
<1>3. Shape'
  BY <1>1 DEF Shape, ClientOK, SshOK, BridgeOK, SockOK, ServerOK
<1>4. /\ sock'.open = sock.open /\ sock'.up = <<>> /\ sock'.upEnd = sock.upEnd
      /\ sock'.down = sock.down
      /\ sock'.downEnd = (IF sock.up # <<>> \/ server.at = "none" THEN "reset" ELSE "eof")
      /\ server'.at = "closed" /\ server'.deadline = FALSE
      /\ server'.read = server.read /\ server'.sent = server.sent
  BY <1>1
<1>5. /\ UNCHANGED <<path, client, ssh, up, down, bridge, daemon>>
  BY <1>1
<1>6. Roles'
  BY <1>2, <1>4, <1>5 DEF Roles
<1>7. Stream'
  BY <1>4, <1>5, Begin DEF Stream
<1>8. Books'
  BY <1>4, <1>5 DEF Books, Reading
<1>9. Told'
  BY <1>4, <1>5 DEF Told, Reading, Final
<1> QED
  BY <1>3, <1>6, <1>7, <1>8, <1>9

LEMMA PrefaceRefusedKeeps ==
  ASSUME BridgeInv, PrefaceRefused
  PROVE  BridgeInv'
<1> USE BridgeAssumption DEF BridgeInv
<1>1. /\ sock' = [open |-> sock.open, up |-> <<>>, upEnd |-> sock.upEnd,
                  down |-> sock.down,
                  downEnd |-> IF Tail(sock.up) # <<>> \/ server.at = "none" THEN "reset" ELSE "eof"]
      /\ server' = [at |-> "closed", deadline |-> FALSE,
                    read |-> Append(server.read, Head(sock.up)), sent |-> server.sent]
      /\ UNCHANGED <<path, client, ssh, up, down, bridge, daemon>>
  BY DEF PrefaceRefused, Hangup, Shape, SockOK, ServerOK
<1>2. /\ server.at = "handshake" /\ sock.up # <<>>
  BY DEF PrefaceRefused
<1>3. Shape'
  BY <1>1, <1>2 DEF Shape, ClientOK, SshOK, BridgeOK, SockOK, ServerOK
<1>4. /\ sock'.open = sock.open /\ sock'.up = <<>> /\ sock'.upEnd = sock.upEnd
      /\ sock'.down = sock.down /\ sock'.downEnd \in {"reset", "eof"}
      /\ server'.at = "closed" /\ server'.deadline = FALSE
      /\ server'.read = Append(server.read, Head(sock.up)) /\ server'.sent = server.sent
  BY <1>1
<1>5. /\ UNCHANGED <<path, client, ssh, up, down, bridge, daemon>>
  BY <1>1
<1>6. /\ Prefaced(Append(server.read, Head(sock.up)))
      /\ Append(server.read, Head(sock.up)) # <<>>
  BY <1>2, Taken, Begin, Types DEF Roles, Stream
<1>7. Roles'
  BY <1>2, <1>4, <1>5, <1>6 DEF Roles
<1>8. Stream'
  BY <1>2, <1>4, <1>5, <1>6, Begin DEF Stream
<1>9. Books'
  BY <1>4, <1>5 DEF Books, Reading
<1>10. Told'
  BY <1>2, <1>4, <1>5 DEF Told, Reading, Final
<1> QED
  BY <1>3, <1>7, <1>8, <1>9, <1>10

LEMMA DeadlinePassesKeeps ==
  ASSUME BridgeInv, DeadlinePasses
  PROVE  BridgeInv'
<1> USE BridgeAssumption DEF BridgeInv
<1>1. /\ sock' = [open |-> sock.open, up |-> <<>>, upEnd |-> sock.upEnd,
                  down |-> sock.down,
                  downEnd |-> IF sock.up # <<>> \/ server.at = "none" THEN "reset" ELSE "eof"]
      /\ server' = [at |-> "closed", deadline |-> FALSE, read |-> server.read,
                    sent |-> server.sent]
      /\ UNCHANGED <<path, client, ssh, up, down, bridge, daemon>>
  BY DEF DeadlinePasses, Hangup, Shape, SockOK, ServerOK
<1>2. /\ server.deadline /\ sock.up = <<>>
  BY DEF DeadlinePasses
<1>3. Shape'
  BY <1>1 DEF Shape, ClientOK, SshOK, BridgeOK, SockOK, ServerOK
<1>4. /\ sock'.open = sock.open /\ sock'.up = <<>> /\ sock'.upEnd = sock.upEnd
      /\ sock'.down = sock.down
      /\ sock'.downEnd = (IF sock.up # <<>> \/ server.at = "none" THEN "reset" ELSE "eof")
      /\ server'.at = "closed" /\ server'.deadline = FALSE
      /\ server'.read = server.read /\ server'.sent = server.sent
  BY <1>1
<1>5. /\ UNCHANGED <<path, client, ssh, up, down, bridge, daemon>>
  BY <1>1
<1>6. Roles'
  BY <1>2, <1>4, <1>5 DEF Roles
<1>7. Stream'
  BY <1>4, <1>5, Begin DEF Stream
<1>8. Books'
  BY <1>4, <1>5 DEF Books, Reading
<1>9. Told'
  BY <1>4, <1>5 DEF Told, Reading, Final
<1> QED
  BY <1>3, <1>6, <1>7, <1>8, <1>9

LEMMA ServeKeeps ==
  ASSUME BridgeInv, Serve
  PROVE  BridgeInv'
<1> USE BridgeAssumption DEF BridgeInv
<1>1. /\ sock' = [open |-> sock.open, up |-> Tail(sock.up), upEnd |-> sock.upEnd,
                  down |-> sock.down, downEnd |-> sock.downEnd]
      /\ server' = [at |-> server.at, deadline |-> server.deadline,
                    read |-> Append(server.read, Head(sock.up)),
                    sent |-> server.sent]
      /\ UNCHANGED <<path, client, ssh, up, down, bridge, daemon>>
  BY DEF Serve, Shape, SockOK, ServerOK
<1>2. /\ server.at = "session" /\ sock.up # <<>>
  BY DEF Serve
<1>3. Shape'
  BY <1>1, <1>2 DEF Shape, ClientOK, SshOK, BridgeOK, SockOK, ServerOK
<1>4. /\ sock'.open = sock.open /\ sock'.up = Tail(sock.up)
      /\ sock'.upEnd = sock.upEnd /\ sock'.down = sock.down
      /\ sock'.downEnd = sock.downEnd
      /\ server'.at = server.at /\ server'.deadline = server.deadline
      /\ server'.read = Append(server.read, Head(sock.up))
      /\ server'.sent = server.sent
  BY <1>1
<1>5. /\ UNCHANGED <<path, client, ssh, up, down, bridge, daemon>>
  BY <1>1
<1>6. server.read # <<>> /\ Append(server.read, Head(sock.up)) # <<>>
  BY <1>2, TokenSeqs DEF Roles
<1>7. Requests(Tail(sock.up)) /\ Prefaced(Append(server.read, Head(sock.up)))
  BY <1>2, Types, <1>6, Taken, Extended DEF Stream
<1>8. Roles'
  BY <1>4, <1>5, <1>6 DEF Roles
<1>9. Stream'
  BY <1>4, <1>5, <1>6, <1>7 DEF Stream
<1>10. Books'
  BY <1>4, <1>5 DEF Books, Reading
<1>11. Told'
  BY <1>4, <1>5 DEF Told, Reading, Final
<1> QED
  BY <1>3, <1>8, <1>9, <1>10, <1>11

LEMMA AnswerKeeps ==
  ASSUME BridgeInv, Answer
  PROVE  BridgeInv'
<1> USE BridgeAssumption DEF BridgeInv
<1>1. CASE bridge.at = "gone" \/ (path = "local" /\ client.at = "closed")
  <2>1. /\ sock' = [open |-> sock.open, up |-> sock.up, upEnd |-> sock.upEnd,
                    down |-> 0, downEnd |-> sock.downEnd]
        /\ server' = [at |-> server.at, deadline |-> server.deadline,
                      read |-> server.read, sent |-> server.sent + 1]
        /\ UNCHANGED <<path, client, ssh, up, down, bridge, daemon>>
    BY <1>1 DEF Answer, Shape, SockOK, ServerOK
  <2>2. /\ server.at = "session" /\ server.sent < MaxAnswers
    BY DEF Answer
  <2>3. Shape'
    BY <2>1, <2>2 DEF Shape, ClientOK, SshOK, BridgeOK, SockOK, ServerOK
  <2>4. Roles'
    BY <2>1, <2>2 DEF Roles
  <2>5. Stream'
    BY <2>1 DEF Stream
  <2>6. Books'
    BY <2>1, <2>2, <1>1
    DEF Shape, Roles, Books, Reading, Told, Final, ClientOK, SshOK, SockOK, ServerOK
  <2>7. Told'
    BY <2>1, <2>2 DEF Told, Reading, Final
  <2> QED
    BY <2>3, <2>4, <2>5, <2>6, <2>7
<1>2. CASE ~(bridge.at = "gone" \/ (path = "local" /\ client.at = "closed"))
  <2>1. /\ sock' = [open |-> sock.open, up |-> sock.up, upEnd |-> sock.upEnd,
                    down |-> sock.down + 1, downEnd |-> sock.downEnd]
        /\ server' = [at |-> server.at, deadline |-> server.deadline,
                      read |-> server.read, sent |-> server.sent + 1]
        /\ UNCHANGED <<path, client, ssh, up, down, bridge, daemon>>
    BY <1>2 DEF Answer, Shape, SockOK, ServerOK
  <2>2. /\ server.at = "session" /\ server.sent < MaxAnswers
    BY DEF Answer
  <2>3. Shape'
    BY <2>1, <2>2 DEF Shape, ClientOK, SshOK, BridgeOK, SockOK, ServerOK
  <2>4. /\ sock'.open = sock.open /\ sock'.up = sock.up /\ sock'.upEnd = sock.upEnd
        /\ sock'.down = sock.down + 1 /\ sock'.downEnd = sock.downEnd
        /\ server'.at = server.at /\ server'.deadline = server.deadline
        /\ server'.read = server.read /\ server'.sent = server.sent + 1
    BY <2>1
  <2>5. /\ UNCHANGED <<path, client, ssh, up, down, bridge, daemon>>
    BY <2>1
  <2>6. /\ client.got \in Nat /\ down \in Nat /\ sock.down \in Nat
        /\ server.sent \in Nat
    BY Types
  <2>7. client'.got + down' + sock'.down = client.got + down + sock.down + 1
    BY <2>4, <2>5, <2>6
  <2>8. Roles'
    BY <2>2, <2>4, <2>5 DEF Roles
  <2>9. Stream'
    BY <2>4, <2>5 DEF Stream
  <2>10. Books'
    BY <2>4, <2>5, <2>6 DEF Books, Reading
  <2>11. Told'
    BY <2>2, <2>5 DEF Told, Reading, Final
  <2> QED
    BY <2>3, <2>8, <2>9, <2>10, <2>11
<1> QED
  BY <1>1, <1>2

LEMMA SessionEndsKeeps ==
  ASSUME BridgeInv, SessionEnds
  PROVE  BridgeInv'
<1> USE BridgeAssumption DEF BridgeInv
<1>1. /\ sock' = [open |-> sock.open, up |-> <<>>, upEnd |-> sock.upEnd,
                  down |-> sock.down,
                  downEnd |-> IF sock.up # <<>> \/ server.at = "none" THEN "reset" ELSE "eof"]
      /\ server' = [at |-> "closed", deadline |-> FALSE, read |-> server.read,
                    sent |-> server.sent]
      /\ UNCHANGED <<path, client, ssh, up, down, bridge, daemon>>
  BY DEF SessionEnds, Hangup, Shape, SockOK, ServerOK
<1>2. /\ server.at = "session" /\ sock.up = <<>>
  BY DEF SessionEnds
<1>3. Shape'
  BY <1>1 DEF Shape, ClientOK, SshOK, BridgeOK, SockOK, ServerOK
<1>4. /\ sock'.open = sock.open /\ sock'.up = <<>> /\ sock'.upEnd = sock.upEnd
      /\ sock'.down = sock.down
      /\ sock'.downEnd = (IF sock.up # <<>> \/ server.at = "none" THEN "reset" ELSE "eof")
      /\ server'.at = "closed" /\ server'.deadline = FALSE
      /\ server'.read = server.read /\ server'.sent = server.sent
  BY <1>1
<1>5. /\ UNCHANGED <<path, client, ssh, up, down, bridge, daemon>>
  BY <1>1
<1>6. Roles'
  BY <1>2, <1>4, <1>5 DEF Roles
<1>7. Stream'
  BY <1>4, <1>5, Begin DEF Stream
<1>8. Books'
  BY <1>4, <1>5 DEF Books, Reading
<1>9. Told'
  BY <1>4, <1>5 DEF Told, Reading, Final
<1> QED
  BY <1>3, <1>6, <1>7, <1>8, <1>9

\* The kernel ends the connections of a daemon that dies.
LEMMA DieKeeps ==
  ASSUME BridgeInv, Die
  PROVE  BridgeInv'
<1> USE BridgeAssumption DEF BridgeInv
<1>1. CASE sock.open /\ server.at # "closed"
  <2>1. /\ sock' = [open |-> sock.open, up |-> <<>>, upEnd |-> sock.upEnd,
                    down |-> sock.down,
                    downEnd |-> IF sock.up # <<>> \/ server.at = "none" THEN "reset" ELSE "eof"]
        /\ server' = [at |-> "closed", deadline |-> FALSE, read |-> server.read,
                      sent |-> server.sent]
        /\ daemon' = "down"
        /\ UNCHANGED <<path, client, ssh, up, down, bridge>>
    <3>1. sock' = [open |-> sock.open, up |-> <<>>, upEnd |-> sock.upEnd,
                   down |-> sock.down,
                   downEnd |-> IF sock.up # <<>> \/ server.at = "none" THEN "reset" ELSE "eof"]
      BY <1>1 DEF Die, Hangup, Shape, SockOK
    <3>2. server' = [at |-> "closed", deadline |-> FALSE, read |-> server.read,
                     sent |-> server.sent]
      BY <1>1 DEF Die, Hangup, Shape, ServerOK
    <3> QED
      BY <3>1, <3>2, <1>1 DEF Die, Hangup, remote
  <2>2. /\ daemon # "down"
    BY DEF Die
  <2>3. Shape'
    BY <2>1 DEF Shape, ClientOK, SshOK, BridgeOK, SockOK, ServerOK
  <2>4. /\ sock'.open = sock.open /\ sock'.up = <<>> /\ sock'.upEnd = sock.upEnd
        /\ sock'.down = sock.down
        /\ sock'.downEnd = (IF sock.up # <<>> \/ server.at = "none" THEN "reset" ELSE "eof")
        /\ server'.at = "closed" /\ server'.deadline = FALSE
        /\ server'.read = server.read /\ server'.sent = server.sent
    BY <2>1
  <2>5. /\ UNCHANGED <<path, client, ssh, up, down, bridge>> /\ daemon' = "down"
    BY <2>1
  <2>6. Roles'
    BY <1>1, <2>4, <2>5 DEF Roles
  <2>7. Stream'
    BY <2>4, <2>5, Begin DEF Stream
  <2>8. Books'
    BY <2>4, <2>5 DEF Books, Reading
  <2>9. Told'
    BY <2>4, <2>5 DEF Told, Reading, Final
  <2> QED
    BY <2>3, <2>6, <2>7, <2>8, <2>9
<1>2. CASE ~(sock.open /\ server.at # "closed")
  <2>1. /\ daemon' = "down"
        /\ UNCHANGED <<path, client, ssh, up, down, bridge, sock, server>>
    BY <1>2 DEF Die
  <2>2. /\ daemon # "down"
    BY DEF Die
  <2>3. Shape'
    BY <2>1 DEF Shape, ClientOK, SshOK, BridgeOK, SockOK, ServerOK
  <2>4. Roles'
    BY <2>1 DEF Roles
  <2>5. Stream'
    BY <2>1 DEF Stream
  <2>6. Books'
    BY <2>1 DEF Books, Reading
  <2>7. Told'
    BY <2>1 DEF Told, Reading, Final
  <2> QED
    BY <2>3, <2>4, <2>5, <2>6, <2>7
<1> QED
  BY <1>1, <1>2


-----------------------------------------------------------------------------
(* The parties together: the steps above, and those short enough to be     *)
(* proved in place.                                                        *)

LEMMA Same ==
  ASSUME Shape
  PROVE  /\ client' = client => ClientOK'
         /\ ssh' = ssh => SshOK'
         /\ bridge' = bridge => BridgeOK'
         /\ sock' = sock => SockOK'
         /\ server' = server => ServerOK'
  BY DEF Shape, ClientOK, SshOK, BridgeOK, SockOK, ServerOK

LEMMA ClientKeeps ==
  ASSUME BridgeInv, Client
  PROVE  BridgeInv'
<1> USE BridgeAssumption DEF BridgeInv, remote
<1>1. ASSUME DialSSH PROVE BridgeInv'
  <2>1. Shape'
    <3>1. ClientOK'
      BY <1>1 DEF DialSSH, Shape, ClientOK
    <3>2. SshOK'
      BY <1>1 DEF DialSSH, Shape, SshOK
    <3> QED
      BY <1>1, Same, <3>1, <3>2 DEF DialSSH, Shape
  <2>2. Roles'
    BY <1>1 DEF DialSSH, Roles
  <2>3. Stream'
    BY <1>1 DEF DialSSH, Stream
  <2>4. Books'
    BY <1>1 DEF DialSSH, Books, Reading
  <2>5. Told'
    BY <1>1 DEF DialSSH, Roles, Told
  <2> QED
    BY <2>1, <2>2, <2>3, <2>4, <2>5
<1>2. ASSUME DialFails PROVE BridgeInv'
  <2>1. Shape'
    <3>1. ClientOK'
      BY <1>2 DEF DialFails, Shape, ClientOK
    <3> QED
      BY <1>2, Same, <3>1 DEF DialFails, Shape
  <2>2. Roles'
    BY <1>2 DEF DialFails, Roles
  <2>3. Stream'
    BY <1>2 DEF DialFails, Stream
  <2>4. Books'
    BY <1>2 DEF DialFails, Books, Reading
  <2>5. Told'
    BY <1>2 DEF DialFails, Told, Reading, Final
  <2> QED
    BY <2>1, <2>2, <2>3, <2>4, <2>5
<1>3. ASSUME Closed PROVE BridgeInv'
  <2>1. Shape'
    <3>1. ClientOK'
      BY <1>3 DEF Closed, Shape, ClientOK
    <3> QED
      BY <1>3, Same, <3>1 DEF Closed, Shape
  <2>2. Roles'
    BY <1>3 DEF Closed, Roles
  <2>3. Stream'
    BY <1>3 DEF Closed, Stream
  <2>4. Books'
    BY <1>3 DEF Closed, Books, Reading
  <2>5. Told'
    BY <1>3 DEF Closed, Told, Reading, Final
  <2> QED
    BY <2>1, <2>2, <2>3, <2>4, <2>5
<1>4. ASSUME Kill PROVE BridgeInv'
  <2>1. Shape'
    <3>1. SshOK'
      BY <1>4 DEF Kill, Shape, SshOK
    <3> QED
      BY <1>4, Same, <3>1 DEF Kill, Shape
  <2>2. Roles'
    BY <1>4 DEF Kill, Roles
  <2>3. Stream'
    BY <1>4 DEF Kill, Stream
  <2>4. Books'
    BY <1>4 DEF Kill, Books, Reading
  <2>5. Told'
    BY <1>4 DEF Kill, Shape, Roles, Told, Reading, Final
  <2> QED
    BY <2>1, <2>2, <2>3, <2>4, <2>5
<1> QED
  BY <1>1, <1>2, <1>3, <1>4, DialLocalKeeps, WriteKeeps, ReadKeeps, ReadEndKeeps,
     CloseKeeps
  DEF Client

LEMMA SshKeeps ==
  ASSUME BridgeInv, Ssh
  PROVE  BridgeInv'
<1> USE BridgeAssumption DEF BridgeInv, remote
<1>1. ASSUME SshConnects PROVE BridgeInv'
  <2>1. Shape'
    <3>1. SshOK'
      BY <1>1 DEF SshConnects, Shape, SshOK
    <3>2. BridgeOK'
      BY <1>1 DEF SshConnects, Shape, BridgeOK
    <3> QED
      BY <1>1, Same, <3>1, <3>2 DEF SshConnects, Shape
  <2>2. Roles'
    BY <1>1 DEF SshConnects, Roles
  <2>3. Stream'
    BY <1>1 DEF SshConnects, Shape, Roles, Stream
  <2>4. Books'
    BY <1>1 DEF SshConnects, Books, Reading
  <2>5. Told'
    BY <1>1 DEF SshConnects, Shape, Roles, Told
  <2> QED
    BY <2>1, <2>2, <2>3, <2>4, <2>5
<1>2. ASSUME SshRefused PROVE BridgeInv'
  <2>1. Shape'
    <3>1. SshOK'
      BY <1>2 DEF SshRefused, Shape, SshOK
    <3> QED
      BY <1>2, Same, <3>1 DEF SshRefused, Shape
  <2>2. Roles'
    BY <1>2 DEF SshRefused, Roles
  <2>3. Stream'
    BY <1>2 DEF SshRefused, Stream
  <2>4. Books'
    BY <1>2 DEF SshRefused, Books, Reading
  <2>5. Told'
    BY <1>2 DEF SshRefused, Shape, Roles, Told
  <2> QED
    BY <2>1, <2>2, <2>3, <2>4, <2>5
<1>3. ASSUME SshCut PROVE BridgeInv'
  <2>1. Shape'
    <3>1. SshOK'
      BY <1>3 DEF SshCut, Shape, SshOK
    <3> QED
      BY <1>3, Same, <3>1 DEF SshCut, Shape
  <2>2. Roles'
    BY <1>3 DEF SshCut, Roles
  <2>3. Stream'
    BY <1>3 DEF SshCut, Stream
  <2>4. Books'
    <3>1. /\ ssh'.cut /\ UNCHANGED <<client, sock, server, path>> /\ path # "local"
          /\ down' \in 0 .. down
      BY <1>3 DEF SshCut, Shape, Roles, SshOK
    <3>2. /\ client.got \in Nat /\ down \in Nat /\ sock.down \in Nat
          /\ server.sent \in Nat
      BY Types
    <3>3. client'.got + down' + sock'.down <= server'.sent
      BY <3>1, <3>2 DEF Books
    <3> QED
      BY <3>1, <3>3 DEF Books, Reading
  <2>5. Told'
    BY <1>3 DEF SshCut, Told, Reading
  <2> QED
    BY <2>1, <2>2, <2>3, <2>4, <2>5
<1> QED
  BY <1>1, <1>2, <1>3, SshEndsKeeps DEF Ssh

LEMMA ConnectorKeeps ==
  ASSUME BridgeInv, Connector
  PROVE  BridgeInv'
<1> USE BridgeAssumption DEF BridgeInv, remote
<1>1. ASSUME CopyUpEnds PROVE BridgeInv'
  <2>1. Shape'
    <3>1. BridgeOK'
      BY <1>1 DEF CopyUpEnds, Shape, BridgeOK
    <3>2. SockOK'
      BY <1>1 DEF CopyUpEnds, Shape, SockOK
    <3> QED
      BY <1>1, Same, <3>1, <3>2 DEF CopyUpEnds, Shape
  <2>2. Roles'
    BY <1>1 DEF CopyUpEnds, Roles
  <2>3. Stream'
    BY <1>1 DEF CopyUpEnds, Stream
  <2>4. Books'
    BY <1>1 DEF CopyUpEnds, Books, Reading
  <2>5. Told'
    BY <1>1 DEF CopyUpEnds, Told, Reading, Final
  <2> QED
    BY <2>1, <2>2, <2>3, <2>4, <2>5
<1> QED
  BY <1>1, ConnectKeeps, WritePrefaceKeeps, CopyUpKeeps, CopyDownKeeps,
     PumpEndsKeeps
  DEF Connector

LEMMA ServerKeeps ==
  ASSUME BridgeInv, Server
  PROVE  BridgeInv'
<1> USE BridgeAssumption DEF BridgeInv, remote
<1>1. ASSUME Accept PROVE BridgeInv'
  <2>1. Shape'
    <3>1. ServerOK'
      BY <1>1 DEF Accept, Shape, ServerOK
    <3> QED
      BY <1>1, Same, <3>1 DEF Accept, Shape
  <2>2. Roles'
    BY <1>1 DEF Accept, Roles
  <2>3. Stream'
    BY <1>1 DEF Accept, Stream
  <2>4. Books'
    BY <1>1 DEF Accept, Books, Reading
  <2>5. Told'
    BY <1>1 DEF Accept, Told, Reading, Final
  <2> QED
    BY <2>1, <2>2, <2>3, <2>4, <2>5
<1> QED
  BY <1>1, HandshakeKeeps, HandshakeFailsKeeps, PrefaceRefusedKeeps, DeadlinePassesKeeps, ServeKeeps,
     AnswerKeeps, SessionEndsKeeps
  DEF Server

LEMMA HangKeeps ==
  ASSUME BridgeInv, Hang
  PROVE  BridgeInv'
  BY DEF BridgeInv, Hang, Shape, ClientOK, SshOK, BridgeOK, SockOK, ServerOK,
         Roles, Stream, Books, Told, Reading, Final

LEMMA NothingKeeps ==
  ASSUME BridgeInv, UNCHANGED vars
  PROVE  BridgeInv'
  BY DEF BridgeInv, vars, Shape, ClientOK, SshOK, BridgeOK, SockOK, ServerOK,
         Roles, Stream, Books, Told, Reading, Final

LEMMA BridgeInvInit ==
  ASSUME Init
  PROVE  BridgeInv
<1> USE BridgeAssumption DEF Init
<1>1. Shape
  <2>1. ClientOK
    BY DEF ClientOK
  <2>4. SshOK
    BY DEF SshOK
  <2>5. BridgeOK
    BY DEF BridgeOK
  <2>2. SockOK
    BY DEF SockOK
  <2>3. ServerOK
    BY DEF ServerOK
  <2> QED
    BY <2>1, <2>2, <2>3, <2>4, <2>5 DEF Shape
<1>2. Roles /\ Stream
  BY Begin DEF Roles, Stream
<1>3. Books /\ Told
  BY DEF Books, Told
<1> QED
  BY <1>1, <1>2, <1>3 DEF BridgeInv

\* In every state the four parties agree on how far the connection has come,
\* on the bytes that are on their way, and on what has been told of its end.
THEOREM BridgeCorrect == Spec => []BridgeInv
<1>1. Init => BridgeInv
  BY BridgeInvInit
<1>2. BridgeInv /\ [Next]_vars => BridgeInv'
  BY ClientKeeps, SshKeeps, ConnectorKeeps, ServerKeeps, HangKeeps, DieKeeps,
     NothingKeeps
     DEF Next, Over
<1> QED
  BY <1>1, <1>2, PTL DEF Spec

\* The deadline of the handshake is on the connection only during it, and no
\* party ever has more answers than kadrand may write.
THEOREM BridgeTypes == Spec => []BridgeTypeOK
<1>1. BridgeInv => BridgeTypeOK
  <2> SUFFICES ASSUME BridgeInv PROVE BridgeTypeOK
    OBVIOUS
  <2> USE DEF BridgeInv
  <2>1. /\ client.got \in Nat /\ down \in Nat /\ sock.down \in Nat
        /\ server.sent \in 0 .. MaxAnswers
        /\ client.got + down + sock.down <= server.sent
    BY Types DEF Shape, ServerOK, Books
  <2>2. /\ client.got \in 0 .. MaxAnswers /\ down \in 0 .. MaxAnswers
        /\ sock.down \in 0 .. MaxAnswers
    BY <2>1, BridgeAssumption
  <2>3. up \in Seq({"preface", "request"})
    BY DEF Shape
  <2>4. client \in [at : {"idle", "open", "closing", "closed"}, sent : 0 .. MaxRequests,
                    got : 0 .. MaxAnswers, end : {"none", "eof", "reason"}]
    BY <2>2 DEF Shape, ClientOK
  <2>5. sock \in [open : BOOLEAN, up : Seq({"preface", "request"}), upEnd : BOOLEAN,
                  down : 0 .. MaxAnswers, downEnd : {"no", "eof", "reset"}]
    BY <2>2 DEF Shape, SockOK, Token
  <2>6. server.at \in {"none", "handshake", "session", "closed"}
    BY DEF Shape, ServerOK
  <2> QED
    BY <2>2, <2>4, <2>5, <2>6 DEF BridgeTypeOK, Shape, SshOK, BridgeOK, Roles
<1> QED
  BY <1>1, BridgeCorrect, PTL

\* What kadrand reads of a connection begins with one preface, and holds no
\* other, however many requests are written and wherever it is hung or killed.
THEOREM OnePreface == Spec => []PrefaceFirst
<1>1. BridgeInv => PrefaceFirst
  <2> SUFFICES ASSUME BridgeInv PROVE PrefaceFirst
    OBVIOUS
  <2> DEFINE r == server.read  u == sock.up
  <2>1. r \in Seq(Token) /\ u \in Seq(Token)
    BY Types DEF BridgeInv
  <2>2. /\ Prefaced(r)
        /\ IF r = <<>> THEN Prefaced(u) ELSE Requests(u)
    BY DEF BridgeInv, Stream
  <2> HIDE DEF r, u
  <2>3. /\ Len(r \o u) = Len(r) + Len(u) /\ DOMAIN (r \o u) = 1 .. Len(r) + Len(u)
        /\ Len(r) \in Nat /\ Len(u) \in Nat
    BY <2>1
  <2>4. \A i \in 1 .. Len(r) + Len(u) :
          (r \o u)[i] = IF i <= Len(r) THEN r[i] ELSE u[i - Len(r)]
    BY <2>1
  <2>5. \A i \in 1 .. Len(r) + Len(u) : (r \o u)[i] = "preface" <=> i = 1
    <3> TAKE i \in 1 .. Len(r) + Len(u)
    <3>1. CASE i <= Len(r)
      BY <2>2, <3>1 DEF Prefaced
    <3>2. CASE i > Len(r) /\ r = <<>>
      <4>1. Len(r) = 0
        BY <3>2
      <4> QED
        BY <2>2, <4>1 DEF Prefaced
    <3>3. CASE i > Len(r) /\ r # <<>>
      <4>1. Len(r) > 0 /\ i - Len(r) \in 1 .. Len(u)
        BY <3>3
      <4>2. u[i - Len(r)] = "request"
        BY <2>2, <4>1 DEF Requests
      <4> QED
        BY <4>1, <4>2
    <3> QED
      BY <3>1, <3>2, <3>3
  <2> QED
    BY <2>3, <2>5 DEF PrefaceFirst, r, u
<1> QED
  BY <1>1, BridgeCorrect, PTL

\* The end that a client reads is true, whoever of the four ended first.
THEOREM EndsAreTrue == Spec => []EndIsTrue
<1>1. BridgeInv => EndIsTrue
  BY DEF BridgeInv, Told, EndIsTrue
<1> QED
  BY <1>1, BridgeCorrect, PTL

=============================================================================
