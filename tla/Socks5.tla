-------------------------------- MODULE Socks5 --------------------------------
(***************************************************************************)
(* connect_tcp and udp_associate of src/proxy/socks5.rs against a SOCKS5   *)
(* server that answers what it likes, or nothing, or half an answer, and   *)
(* may close at any moment.  Its octets arrive one by one; the client      *)
(* waits for as many as each read_exact asks for, and nothing else ends    *)
(* the wait.                                                               *)
(***************************************************************************)
EXTENDS Socks5Codec, FiniteSets

CONSTANTS ProxyIps,     \* addresses the server may have
          ReplyAddrs,   \* addresses its replies may name
          ReplyHosts,   \* domain names its replies may have
          MaxData       \* bound: octets the server relays

ASSUME RepliesOK ==
  /\ ProxyIps \subseteq Ips
  /\ ReplyAddrs \subseteq SocketAddr
  /\ ReplyHosts \subseteq Seq(Byte) /\ \A h \in ReplyHosts : Len(h) <= 255
  /\ MaxData \in Nat

VARIABLES
  setup,    \* the dialer: credentials, command, address of the server
  client,   \* where the client is, the octets it waits for, the reply's type
  sent,     \* the messages the client has written
  offered,  \* the address of the server's reply, {} before it is known
  relay,    \* the UDP relay chosen, {} before it is known
  server,   \* where the server is, and what it has agreed to
  transit,  \* the rest of what the server means to say: it may be late for ever
  inbox     \* those that have arrived and are not read

vars == <<setup, client, sent, offered, relay, server, transit, inbox>>
wire == <<server, transit>>

Ended == {"established", "failed"}

\* What is read in each place, and with it the kind of message an octet of the
\* server belongs to (history).
Reading == [method |-> "method", verify |-> "status", header |-> "reply",
            length |-> "reply", host |-> "reply"]
AfterReply == {"resolve", "bind", "established"}
Octet == [byte : Byte, of : {"method", "status", "reply", "data"}]
Tagged(bytes, kind) == [i \in DOMAIN bytes |-> [byte |-> bytes[i], of |-> kind]]

TypeOK ==
  /\ setup \in [auth : {"none", "usable", "too_long"},
                command : {"connect", "associate"}, proxy_ip : ProxyIps]
  /\ client \in [pc : {"connect"} \cup DOMAIN Reading \cup AfterReply \cup Ended,
                 awaited : Nat, atyp : Byte]
  /\ client.pc = "host" => client.atyp \in {ATYP_V4, ATYP_DOMAIN, ATYP_V6}
  /\ sent \subseteq {"greeting", "credentials", "request"}
  /\ offered \subseteq SocketAddr /\ Cardinality(offered) <= 1
  /\ relay \subseteq SocketAddr /\ Cardinality(relay) <= Cardinality(offered)
  /\ server \in [pc : {"greeting", "credentials", "request", "serving", "closed"},
                 method : {0, 1, 2, 255}, verified : BOOLEAN, granted : BOOLEAN,
                 data : 0 .. MaxData, cut : BOOLEAN]
  /\ transit \in Seq(Octet)
  /\ inbox \in Seq(Octet)

Init ==
  /\ setup \in [auth : {"none", "usable", "too_long"},
                command : {"connect", "associate"}, proxy_ip : ProxyIps]
  /\ client = [pc |-> "connect", awaited |-> 0, atyp |-> 0]
  /\ sent = {} /\ offered = {} /\ relay = {}
  /\ server = [pc |-> "greeting", method |-> 255, verified |-> FALSE,
               granted |-> FALSE, data |-> 0, cut |-> FALSE]
  /\ transit = << >> /\ inbox = << >>
-------------------------------------------------------------------------------
(* The client *)

\* The next read_exact is for n octets.
Await(pc, n) == client' = [client EXCEPT !.pc = pc, !.awaited = n]
Ends(pc) == Await(pc, 0)

\* read_exact: the octets awaited have arrived.
Got == [i \in 1 .. client.awaited |-> inbox[i].byte]
ReadExact(pc) ==
  /\ client.pc = pc
  /\ Len(inbox) >= client.awaited
  /\ inbox' = SubSeq(inbox, client.awaited + 1, Len(inbox))

\* The server is connected to and greeted, or cannot be reached.
Connect ==
  /\ client.pc = "connect"
  /\ sent' = sent \cup {"greeting"}
  /\ Await("method", 2)
  /\ UNCHANGED <<setup, offered, relay, wire, inbox>>

ConnectFails ==
  /\ client.pc = "connect"
  /\ Ends("failed")
  /\ UNCHANGED <<setup, sent, offered, relay, wire, inbox>>

SendRequest ==
  /\ sent' = sent \cup {"request"}
  /\ Await("header", 4)

\* handshake: no authentication, the credentials, or neither.
ReadMethod ==
  /\ ReadExact("method")
  /\ \/ /\ Got = <<5, 0>>
        /\ SendRequest
     \/ /\ Got[2] = 2 /\ setup.auth = "usable"
        /\ sent' = sent \cup {"credentials"}
        /\ Await("verify", 2)
     \/ /\ Got # <<5, 0>>
        /\ Got[2] = 2 => setup.auth # "usable"
        /\ Ends("failed")
        /\ UNCHANGED sent
  /\ UNCHANGED <<setup, offered, relay, wire>>

\* Mutant: the status of the authentication is not looked at.
ReadStatusAny ==
  /\ ReadExact("verify")
  /\ SendRequest
  /\ UNCHANGED <<setup, offered, relay, wire>>

\* username_password_auth
ReadStatus ==
  /\ ReadExact("verify")
  /\ IF Got = <<1, 0>> THEN SendRequest ELSE Ends("failed") /\ UNCHANGED sent
  /\ UNCHANGED <<setup, offered, relay, wire>>

\* Mutant: every address of a reply is read as if it were the longest.
AddressLengthMax == [x \in {ATYP_V4, ATYP_V6} |-> V6_LEN]

\* Mutant: the port is not read after the address.
AddressLengthOnly == [x \in {ATYP_V4, ATYP_V6} |-> IF x = ATYP_V4 THEN V4_LEN - 2
                                                   ELSE V6_LEN - 2]

\* read_addr_with_atyp: the octets of an address of each type.
AddressLength == [x \in {ATYP_V4, ATYP_V6} |-> IF x = ATYP_V4 THEN V4_LEN ELSE V6_LEN]

\* Mutant: an unknown address type is read like an IPv4 address.
ReadHeaderAnyType ==
  /\ ReadExact("header")
  /\ client' = [client EXCEPT
       !.atyp = Got[4],
       !.pc = IF Got[1] # 5 \/ Got[2] # 0 THEN "failed"
              ELSE IF Got[4] = ATYP_DOMAIN THEN "length" ELSE "host",
       !.awaited = IF Got[4] \in DOMAIN AddressLength THEN AddressLength[Got[4]] + 2
                   ELSE 1]
  /\ UNCHANGED <<setup, sent, offered, relay, wire>>

\* read_reply; what is awaited next takes the port along (read_port).
ReadHeader ==
  /\ ReadExact("header")
  /\ client' = [client EXCEPT
       !.atyp = Got[4],
       !.pc = IF Got[1] # 5 \/ Got[2] # 0 THEN "failed"
              ELSE IF Got[4] \in DOMAIN AddressLength THEN "host"
              ELSE IF Got[4] = ATYP_DOMAIN THEN "length" ELSE "failed",
       !.awaited = IF Got[4] \in DOMAIN AddressLength THEN AddressLength[Got[4]] + 2
                   ELSE 1]
  /\ UNCHANGED <<setup, sent, offered, relay, wire>>

ReadLength ==
  /\ ReadExact("length")
  /\ Await("host", Got[1] + 2)
  /\ UNCHANGED <<setup, sent, offered, relay, wire>>

\* The reply names addr: a connection is ready, an association needs its
\* socket.
Finish(addr) ==
  /\ offered' = {addr}
  /\ IF setup.command = "connect"
     THEN Ends("established") /\ UNCHANGED relay
     ELSE Ends("bind") /\ relay' = {NormalizeUdpRelay(addr, setup.proxy_ip)}

ReadHost ==
  /\ ReadExact("host")
  /\ IF client.atyp = ATYP_DOMAIN
     THEN Ends("resolve") /\ UNCHANGED <<offered, relay>>
     ELSE Finish([ip |-> SubSeq(Got, 1, client.awaited - 2),
                  port |-> SubSeq(Got, client.awaited - 1, client.awaited)])
  /\ UNCHANGED <<setup, sent, wire>>

\* lookup_host names some address.
Resolve(addr) ==
  /\ client.pc = "resolve"
  /\ Finish(addr)
  /\ UNCHANGED <<setup, sent, wire, inbox>>

\* The UDP socket is bound in the relay's family and connected to the relay.
Bind ==
  /\ client.pc = "bind"
  /\ Ends("established")
  /\ UNCHANGED <<setup, sent, offered, relay, wire, inbox>>

\* The domain has no address, or the socket cannot be bound or connected.
LocalFailure ==
  /\ client.pc \in {"resolve", "bind"}
  /\ Ends("failed")
  /\ UNCHANGED <<setup, sent, offered, relay, wire, inbox>>

\* The stream ends before read_exact has what it asked for.
Broken ==
  /\ client.pc \in DOMAIN Reading
  /\ server.pc = "closed" /\ (transit = << >> \/ server.cut)
  /\ Len(inbox) < client.awaited
  /\ Ends("failed")
  /\ UNCHANGED <<setup, sent, offered, relay, wire, inbox>>

ClientSteps ==
  \/ Connect \/ ConnectFails
  \/ ReadMethod \/ ReadStatus \/ ReadHeader \/ ReadLength \/ ReadHost
  \/ \E addr \in ReplyAddrs : Resolve(addr)
  \/ Bind \/ LocalFailure \/ Broken
-------------------------------------------------------------------------------
(* The server and the network *)

\* The server settles what it says.  How much of it leaves the server, and
\* when, is for Deliver and ServerCloses: an answer whose length octet promises
\* more than ever follows is one whose end is withheld.
Says(pc, bytes, kind, news) ==
  /\ server' = [news EXCEPT !.pc = pc]
  /\ transit' = transit \o Tagged(bytes, kind)
  /\ UNCHANGED <<setup, client, sent, offered, relay, inbox>>

ServerMethod(version, method) ==
  /\ server.pc = "greeting" /\ "greeting" \in sent
  /\ Says(IF method = 2 THEN "credentials" ELSE "request", <<version, method>>,
          "method", [server EXCEPT !.method = method])

ServerStatus(version, status) ==
  /\ server.pc = "credentials" /\ "credentials" \in sent
  /\ Says("request", <<version, status>>, "status",
          [server EXCEPT !.verified = status = 0])

\* Any address field, or one of a type that is none.
Fields == {EncodeAddr(a) : a \in ReplyAddrs}
          \cup {EncodeDomain(h, a.port) : h \in ReplyHosts, a \in ReplyAddrs}
          \cup {<<2>>}

ServerReply(version, code, field) ==
  /\ server.pc = "request" /\ "request" \in sent
  /\ Says("serving", <<version, code, 0>> \o field, "reply",
          [server EXCEPT !.granted = code = 0])

\* The first octets of the connection follow the reply.
ServerData ==
  /\ server.granted /\ server.pc = "serving" /\ setup.command = "connect"
  /\ server.data < MaxData
  /\ Says("serving", <<255>>, "data", [server EXCEPT !.data = server.data + 1])

\* The connection ends, after all the server had to say or inside it: then the
\* rest never arrives.
ServerCloses(cut) ==
  /\ server.pc # "closed"
  /\ cut => transit # << >>
  /\ Says("closed", << >>, "data", [server EXCEPT !.cut = cut])

Deliver ==
  /\ transit # << >> /\ ~ server.cut
  /\ inbox' = Append(inbox, Head(transit))
  /\ transit' = Tail(transit)
  /\ UNCHANGED <<setup, client, sent, offered, relay, server>>

Next ==
  \/ Connect \/ ConnectFails
  \/ ReadMethod \/ ReadStatus \/ ReadHeader \/ ReadLength \/ ReadHost
  \/ \E addr \in ReplyAddrs : Resolve(addr)
  \/ Bind \/ LocalFailure \/ Broken
  \/ \E version \in {4, 5} : \E method \in {0, 1, 2, 255} :
       ServerMethod(version, method)
  \/ \E version \in {1, 5} : \E status \in {0, 1} : ServerStatus(version, status)
  \/ \E version \in {4, 5} : \E code \in {0, 5} : \E field \in Fields :
       ServerReply(version, code, field)
  \/ ServerData \/ (\E cut \in BOOLEAN : ServerCloses(cut)) \/ Deliver

Spec == Init /\ [][Next]_vars

\* The client runs, and what was sent before the server closed arrives.  Of the
\* server nothing is assumed: it may stop before any octet.
FairSpec ==
  Spec /\ WF_vars(ClientSteps) /\ WF_vars(server.pc = "closed" /\ Deliver)
-------------------------------------------------------------------------------
(* Properties *)

\* A session is used only after the server has granted it and, if it asked for
\* credentials, accepted them; and credentials go only to a server that asks
\* (handshake, username_password_auth, read_reply).
SessionAgreed ==
  /\ client.pc \in AfterReply =>
       server.granted /\ (server.method = 0 \/ (server.method = 2 /\ server.verified))
  /\ "credentials" \in sent => server.method = 2 /\ setup.auth = "usable"

\* Client and server agree on where each message ends, whatever the type and
\* length of the reply's address: what is read next is what was meant, and the
\* relayed data begin with the first octet after the reply.
StreamAligned ==
  LET unread == inbox \o transit
  IN  unread # << >> =>
        /\ client.pc \in DOMAIN Reading => unread[1].of = Reading[client.pc]
        /\ client.pc \in AfterReply => unread[1].of = "data"

\* The server has yet to answer what the client has asked.
Owes == [method |-> "greeting", verify |-> "credentials", header |-> "request",
         length |-> "request", host |-> "request"]
Silent == client.pc \in DOMAIN Reading /\ server.pc = Owes[client.pc]

\* The client waits, and the server keeps the connection and an answer, or the
\* rest of one it has begun.
Starving == client.pc \in DOMAIN Reading /\ Len(inbox) < client.awaited
Stalled == Starving /\ server.pc # "closed" /\ (Silent \/ transit # << >>)

\* A handshake ends unless the server stalls, before an answer or inside it: with
\* no timeout in the code (read_exact) that blocks the UDP worker for ever, and
\* nothing else does.
OnlyStallBlocks == <>[](client.pc \in Ended \/ Stalled)

\* Why a stall alone blocks: whatever an answer says, and wherever it breaks off,
\* the client waits for no octet beyond it, however long read_reply takes it to
\* be.  What is missing is part of an answer not begun, or of the rest of one.
NeverStarved ==
  Starving /\ server.pc # "closed" =>
    Silent \/ client.awaited - Len(inbox) \in 1 .. Len(transit)

\* When the server leaves the relay's address unspecified, the relay chosen is on
\* the server's host, in whichever family (normalize_udp_relay).
OnProxyHost(ip) ==
  \/ ip = setup.proxy_ip
  \/ IsV4(setup.proxy_ip) /\ ip = ToIpv6Mapped(setup.proxy_ip)
  \/ IsV4(ip) /\ setup.proxy_ip = ToIpv6Mapped(ip)
RelayOnProxyHost ==
  \A a \in offered : \A r \in relay : Unspecified(a.ip) => OnProxyHost(r.ip)

\* It is, unless an IPv4 relay is asked of a proxy that has no IPv4 address.
ProxyHasV4 ==
  IsV4(setup.proxy_ip) \/ \E ip \in ToIpv4(setup.proxy_ip) :
                            setup.proxy_ip = ToIpv6Mapped(ip)
RelayOnHostOfFamily ==
  \A a \in offered : \A r \in relay :
    Unspecified(a.ip) /\ (IsV4(a.ip) => ProxyHasV4) => OnProxyHost(r.ip)
-------------------------------------------------------------------------------
(* The inductive invariant behind them *)

\* What the server means to say and the client has still to read: the last n
\* octets of a message, then the data it relays.
Unread == inbox \o transit
Holds(n, kind) ==
  /\ Len(Unread) >= n
  /\ \A i \in DOMAIN Unread : Unread[i].of = IF i <= n THEN kind ELSE "data"

\* The octets of the address field that begins with the i-th.
FieldLength(i) ==
  LET atyp == Unread[i].byte
  IN  IF atyp \in DOMAIN AddressLength THEN AddressLength[atyp] + 3
      ELSE IF atyp = ATYP_DOMAIN THEN Unread[i + 1].byte + 4
      ELSE 1

Agreed == server.method = 0 \/ (server.method = 2 /\ server.verified)
Granted == Agreed /\ server.granted /\ server.pc \in {"serving", "closed"}
Unanswered == Unread = << >> /\ server.pc \in {Owes[client.pc], "closed"}

\* What is read first of the session, and where the server is by then.
ConnectInTurn ==
  client.pc = "connect" =>
    sent = {} /\ Unread = << >> /\ server.pc \in {"greeting", "closed"}

MethodInTurn ==
  client.pc = "method" =>
    /\ client.awaited = 2 /\ sent = {"greeting"}
    /\ \/ Unanswered
       \/ /\ Len(Unread) = 2 /\ Holds(2, "method")
          /\ Unread[2].byte = server.method
          /\ server.pc \in {IF server.method = 2 THEN "credentials" ELSE "request",
                            "closed"}

StatusInTurn ==
  client.pc = "verify" =>
    /\ client.awaited = 2 /\ sent = {"greeting", "credentials"}
    /\ \/ Unanswered
       \/ /\ Len(Unread) = 2 /\ Holds(2, "status")
          /\ server.verified = (Unread[2].byte = 0)
          /\ server.pc \in {"request", "closed"}

HeaderInTurn ==
  client.pc = "header" =>
    /\ client.awaited = 4 /\ Agreed
    /\ \/ Unanswered
       \/ /\ Len(Unread) >= IF Unread[4].byte = ATYP_DOMAIN THEN 5 ELSE 4
          /\ Holds(3 + FieldLength(4), "reply")
          /\ server.granted = (Unread[2].byte = 0)
          /\ server.pc \in {"serving", "closed"}

LengthInTurn ==
  client.pc = "length" =>
    /\ client.awaited = 1 /\ client.atyp = ATYP_DOMAIN /\ Granted
    /\ Len(Unread) >= 1 /\ Holds(Unread[1].byte + 3, "reply")

HostInTurn ==
  client.pc = "host" =>
    /\ client.awaited >= 2 /\ Granted
    /\ client.atyp \in DOMAIN AddressLength =>
         client.awaited = AddressLength[client.atyp] + 2
    /\ Holds(client.awaited, "reply")

DataInTurn == client.pc \in AfterReply => Granted /\ Holds(0, "reply")

\* Credentials and methods do not change places.
MethodKept ==
  "credentials" \in sent =>
    server.method = 2 /\ setup.auth = "usable" /\ server.pc # "greeting"

\* The relay is the one the address of the reply stands for.
RelayChosen ==
  /\ client.pc \in {"connect", "resolve"} \cup DOMAIN Reading =>
       offered = {} /\ relay = {}
  /\ \A a \in offered : relay \subseteq {NormalizeUdpRelay(a, setup.proxy_ip)}

\* All of it, kept by every step.
IInv ==
  /\ TypeOK /\ MethodKept /\ RelayChosen
  /\ ConnectInTurn /\ MethodInTurn /\ StatusInTurn /\ HeaderInTurn
  /\ LengthInTurn /\ HostInTurn /\ DataInTurn
===============================================================================
