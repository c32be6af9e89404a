----------------------------- MODULE Socks5Proofs -----------------------------
(***************************************************************************)
(* Proofs about Socks5 and Socks5Datagrams, for every length of addresses, *)
(* every address and every content.                                        *)
(*                                                                         *)
(* First what the sequences are: the unread octets when some arrive, are   *)
(* read or are said, and addresses as they are written.  Then IInv of      *)
(* Socks5, one lemma per action, each of which has one step per place of   *)
(* the client that the action leaves or reaches; and what follows from it. *)
(* The theorems about datagrams hold of every sequence of octets.          *)
(***************************************************************************)
EXTENDS Socks5, Socks5Datagrams, SequenceTheorems, FiniteSetTheorems, TLAPS

-------------------------------------------------------------------------------
(* What is unread *)

LEMMA FunctionIsSeq ==
  ASSUME NEW S, NEW n \in Nat, NEW f \in [1 .. n -> S]
  PROVE  f \in Seq(S) /\ Len(f) = n
<1>1. f \in Seq(S)
  BY SeqDef
<1>2. DOMAIN f = 1 .. n /\ DOMAIN f = 1 .. Len(f) /\ Len(f) \in Nat
  BY <1>1, LenProperties
<1> QED
  BY <1>1, <1>2

LEMMA UnreadType ==
  ASSUME TypeOK
  PROVE  /\ Len(inbox) \in Nat /\ Len(transit) \in Nat
         /\ Unread \in Seq(Octet) /\ Len(Unread) = Len(inbox) + Len(transit)
         /\ DOMAIN Unread = 1 .. Len(Unread)
         /\ \A i \in 1 .. Len(Unread) :
              Unread[i] = IF i <= Len(inbox) THEN inbox[i] ELSE transit[i - Len(inbox)]
         /\ \A i \in 1 .. Len(Unread) :
              Unread[i] \in Octet /\ Unread[i].byte \in Byte
<1>1. inbox \in Seq(Octet) /\ transit \in Seq(Octet)
  BY DEF TypeOK
<1>2. /\ Unread \in Seq(Octet) /\ Len(Unread) = Len(inbox) + Len(transit)
      /\ \A i \in 1 .. Len(Unread) :
           Unread[i] = IF i <= Len(inbox) THEN inbox[i] ELSE transit[i - Len(inbox)]
  BY <1>1, ConcatProperties DEF Unread
<1>3. DOMAIN Unread = 1 .. Len(Unread) /\ \A i \in 1 .. Len(Unread) : Unread[i] \in Octet
  BY <1>2, LenProperties, ElementOfSeq
<1>4. \A i \in 1 .. Len(Unread) : Unread[i].byte \in Byte
  BY <1>3 DEF Octet
<1> QED
  BY <1>1, <1>2, <1>3, <1>4, LenProperties

LEMMA ByteIsNat == \A b \in Byte : b \in Nat
BY DEF Byte

\* An octet on its way changes places, not its turn.
LEMMA DeliverKeeps ==
  ASSUME TypeOK, Deliver
  PROVE  Unread' = Unread /\ inbox' \in Seq(Octet) /\ transit' \in Seq(Octet)
<1>1. inbox \in Seq(Octet) /\ transit \in Seq(Octet) /\ transit # << >>
  BY DEF TypeOK, Deliver
<1>2. /\ Head(transit) \in Octet /\ Tail(transit) \in Seq(Octet)
      /\ transit = <<Head(transit)>> \o Tail(transit)
  BY <1>1, HeadTailProperties
<1>3. inbox' = inbox \o <<Head(transit)>> /\ transit' = Tail(transit)
  BY <1>1, <1>2, AppendIsConcat DEF Deliver
<1>4. <<Head(transit)>> \in Seq(Octet)
  BY <1>2
<1>5. (inbox \o <<Head(transit)>>) \o Tail(transit)
        = inbox \o (<<Head(transit)>> \o Tail(transit))
  BY <1>1, <1>2, <1>4, ConcatAssociative
<1> QED
  BY <1>1, <1>2, <1>3, <1>4, <1>5, ConcatProperties DEF Unread

LEMMA SuffixShape ==
  ASSUME NEW S, NEW s \in Seq(S), NEW n \in Nat
  PROVE  n <= Len(s) =>
           /\ SubSeq(s, n + 1, Len(s)) \in Seq(S)
           /\ Len(SubSeq(s, n + 1, Len(s))) = Len(s) - n
           /\ \A i \in 1 .. Len(s) - n : SubSeq(s, n + 1, Len(s))[i] = s[i + n]
<1> DEFINE m == n + 1
           k == Len(s)
<1>1. \A i \in m .. k : s[i] \in S
  BY LenProperties, ElementOfSeq
<1>2. m \in Nat /\ m >= 1 /\ k \in Nat
  BY LenProperties
<1> HIDE DEF m, k
<1>3. /\ SubSeq(s, m, k) \in Seq(S)
      /\ Len(SubSeq(s, m, k)) = IF m <= k THEN k - m + 1 ELSE 0
      /\ \A i \in 1 .. k - m + 1 : SubSeq(s, m, k)[i] = s[m + i - 1]
  BY <1>1, <1>2, SubSeqProperties
<1>4. n <= k => (IF m <= k THEN k - m + 1 ELSE 0) = k - n /\ k - m + 1 = k - n
  BY <1>2 DEF m
<1>5. \A i \in 1 .. k - n : m + i - 1 = i + n
  BY <1>2 DEF m
<1> QED
  BY <1>3, <1>4, <1>5 DEF m, k

\* read_exact takes the first octets and leaves the others.
LEMMA ReadTakes ==
  ASSUME TypeOK, NEW pc, ReadExact(pc), UNCHANGED transit
  PROVE  /\ client.awaited \in Nat /\ Len(Unread) >= client.awaited
         /\ Got \in Seq(Byte) /\ Len(Got) = client.awaited
         /\ \A i \in 1 .. client.awaited : Got[i] = Unread[i].byte
         /\ inbox' \in Seq(Octet)
         /\ Len(Unread') = Len(Unread) - client.awaited
         /\ DOMAIN Unread' = 1 .. Len(Unread')
         /\ \A i \in 1 .. Len(Unread') : Unread'[i] = Unread[i + client.awaited]
<1> DEFINE n == client.awaited
<1>1. inbox \in Seq(Octet) /\ transit \in Seq(Octet) /\ n \in Nat
  BY DEF TypeOK
<1>2. Len(inbox) \in Nat /\ Len(transit) \in Nat /\ Len(inbox) >= n
  BY <1>1, LenProperties DEF ReadExact
<1>3. Len(Unread) >= n
  BY <1>1, <1>2, UnreadType
<1>4. /\ inbox' \in Seq(Octet) /\ Len(inbox') = Len(inbox) - n
      /\ \A i \in 1 .. Len(inbox') : inbox'[i] = inbox[i + n]
  <2>1. inbox' = SubSeq(inbox, n + 1, Len(inbox))
    BY DEF ReadExact
  <2> DEFINE rest == SubSeq(inbox, n + 1, Len(inbox))
  <2>2. inbox \in Seq(Octet) /\ n \in Nat /\ n <= Len(inbox)
    BY <1>1, <1>2
  <2> HIDE DEF n
  <2>3. /\ rest \in Seq(Octet) /\ Len(rest) = Len(inbox) - n
        /\ \A i \in 1 .. Len(inbox) - n : rest[i] = inbox[i + n]
    BY <2>2, SuffixShape
  <2> HIDE DEF rest
  <2>4. inbox' = rest
    BY <2>1 DEF rest, n
  <2> QED
    BY <2>3, <2>4
<1>5. \A i \in 1 .. n : inbox[i] = Unread[i] /\ Unread[i].byte \in Byte
  BY <1>1, <1>2, <1>3, UnreadType
<1>6. Got \in Seq(Byte) /\ Len(Got) = n /\ \A i \in 1 .. n : Got[i] = Unread[i].byte
  <2>1. Got = [i \in 1 .. n |-> Unread[i].byte]
    BY <1>5 DEF Got
  <2>2. Got \in [1 .. n -> Byte]
    BY <1>5, <2>1
  <2> QED
    BY <1>1, <2>1, <2>2, FunctionIsSeq
<1>7. /\ Unread' \in Seq(Octet) /\ Len(Unread') = Len(inbox') + Len(transit)
      /\ \A i \in 1 .. Len(Unread') :
           Unread'[i] = IF i <= Len(inbox') THEN inbox'[i] ELSE transit[i - Len(inbox')]
  <2>1. Unread' = inbox' \o transit
    BY DEF Unread
  <2>2. inbox' \in Seq(Octet) /\ transit \in Seq(Octet)
    BY <1>1, <1>4
  <2>3. /\ inbox' \o transit \in Seq(Octet)
        /\ Len(inbox' \o transit) = Len(inbox') + Len(transit)
        /\ \A i \in 1 .. Len(inbox') + Len(transit) :
             (inbox' \o transit)[i] =
               IF i <= Len(inbox') THEN inbox'[i] ELSE transit[i - Len(inbox')]
    BY <2>2, ConcatProperties
  <2> QED
    BY <2>1, <2>3
<1>8. DOMAIN Unread' = 1 .. Len(Unread')
  BY <1>7, LenProperties
<1>9. ASSUME NEW i \in 1 .. Len(Unread')
      PROVE  Unread'[i] = Unread[i + n]
  <2>1. i \in Nat /\ i >= 1 /\ i + n \in 1 .. Len(Unread)
        /\ Len(inbox') = Len(inbox) - n
    BY <1>1, <1>2, <1>4, <1>7, UnreadType
  <2>2. Unread[i + n] = IF i + n <= Len(inbox) THEN inbox[i + n]
                        ELSE transit[(i + n) - Len(inbox)]
    BY <2>1, UnreadType
  <2>3. Unread'[i] = IF i <= Len(inbox') THEN inbox'[i] ELSE transit[i - Len(inbox')]
    BY <1>7
  <2>4. i <= Len(inbox') => inbox'[i] = inbox[i + n]
    BY <1>1, <1>2, <1>4, <2>1
  <2>5. i - Len(inbox') = (i + n) - Len(inbox)
        /\ (i <= Len(inbox') <=> i + n <= Len(inbox))
    BY <1>1, <1>2, <2>1
  <2> QED
    BY <2>2, <2>3, <2>4, <2>5
<1> QED
  BY <1>1, <1>2, <1>3, <1>4, <1>6, <1>7, <1>8, <1>9, UnreadType

\* What the server says comes after everything that is unread.
LEMMA SaysAdds ==
  ASSUME TypeOK, NEW pc, NEW bytes \in Seq(Byte), NEW news,
         NEW kind \in {"method", "status", "reply", "data"},
         Says(pc, bytes, kind, news)
  PROVE  /\ transit' \in Seq(Octet) /\ inbox' = inbox
         /\ Len(Unread') = Len(Unread) + Len(bytes)
         /\ DOMAIN Unread' = 1 .. Len(Unread')
         /\ \A i \in 1 .. Len(Unread) : Unread'[i] = Unread[i]
         /\ \A i \in 1 .. Len(Unread') : i > Len(Unread) =>
              /\ Unread'[i].byte = bytes[i - Len(Unread)]
              /\ Unread'[i].of = kind
<1> DEFINE said == Tagged(bytes, kind)
<1>1. inbox \in Seq(Octet) /\ transit \in Seq(Octet) /\ Unread \in Seq(Octet)
      /\ Unread = inbox \o transit
  BY UnreadType DEF TypeOK, Unread
<1>2. DOMAIN bytes = 1 .. Len(bytes) /\ Len(bytes) \in Nat
      /\ \A i \in 1 .. Len(bytes) : bytes[i] \in Byte
  BY LenProperties, ElementOfSeq
<1>3. said = [i \in 1 .. Len(bytes) |-> [byte |-> bytes[i], of |-> kind]]
  BY <1>2 DEF Tagged
<1>4. said \in [1 .. Len(bytes) -> Octet]
  BY <1>2, <1>3 DEF Octet
<1>5. said \in Seq(Octet) /\ Len(said) = Len(bytes)
  BY <1>2, <1>4, FunctionIsSeq
<1>6. transit' = transit \o said /\ inbox' = inbox
  BY DEF Says
<1>7. Unread' = Unread \o said
  <2>1. (inbox \o transit) \o said = inbox \o (transit \o said)
    BY <1>1, <1>5, ConcatAssociative
  <2> QED
    BY <1>1, <1>6, <2>1 DEF Unread
<1>8. Unread \in Seq(Octet) /\ said \in Seq(Octet)
  BY <1>1, <1>5
<1> HIDE DEF said
<1>9. /\ Unread' \in Seq(Octet) /\ Len(Unread') = Len(Unread) + Len(said)
      /\ \A i \in 1 .. Len(Unread) + Len(said) :
           Unread'[i] = IF i <= Len(Unread) THEN Unread[i] ELSE said[i - Len(Unread)]
  BY <1>7, <1>8, ConcatProperties
<1>10. DOMAIN Unread' = 1 .. Len(Unread') /\ Len(Unread) \in Nat
  BY <1>1, <1>9, LenProperties
<1>11. \A i \in 1 .. Len(bytes) : said[i].byte = bytes[i] /\ said[i].of = kind
  BY <1>3
<1>12. ASSUME NEW i \in 1 .. Len(Unread'), i > Len(Unread)
       PROVE  Unread'[i].byte = bytes[i - Len(Unread)] /\ Unread'[i].of = kind
  <2>1. i - Len(Unread) \in 1 .. Len(bytes)
    BY <1>2, <1>5, <1>9, <1>10, <1>12
  <2>2. Unread'[i] = said[i - Len(Unread)]
    BY <1>5, <1>9, <1>10, <1>12
  <2> QED
    BY <1>11, <2>1, <2>2
<1>13. transit' \in Seq(Octet)
  BY <1>1, <1>5, <1>6, ConcatProperties
<1> QED
  BY <1>2, <1>5, <1>6, <1>9, <1>10, <1>12, <1>13
-------------------------------------------------------------------------------
(* Addresses on the wire *)

LEMMA ConcatThree ==
  ASSUME NEW S, NEW s \in Seq(S), NEW t \in Seq(S), NEW u \in Seq(S)
  PROVE  /\ s \o t \o u \in Seq(S)
         /\ Len(s) \in Nat /\ Len(t) \in Nat /\ Len(u) \in Nat
         /\ Len(s \o t \o u) = Len(s) + Len(t) + Len(u)
         /\ \A i \in 1 .. Len(s) : (s \o t \o u)[i] = s[i]
         /\ \A i \in 1 .. Len(t) : (s \o t \o u)[Len(s) + i] = t[i]
         /\ \A i \in 1 .. Len(u) : (s \o t \o u)[Len(s) + Len(t) + i] = u[i]
<1> DEFINE st == s \o t
<1>1. Len(s) \in Nat /\ Len(t) \in Nat /\ Len(u) \in Nat
  BY LenProperties
<1>2. /\ st \in Seq(S) /\ Len(st) = Len(s) + Len(t)
      /\ \A i \in 1 .. Len(s) + Len(t) :
           st[i] = IF i <= Len(s) THEN s[i] ELSE t[i - Len(s)]
  BY ConcatProperties
<1>3. st \in Seq(S)
  BY <1>2
<1> HIDE DEF st
<1>4. /\ st \o u \in Seq(S) /\ Len(st \o u) = Len(st) + Len(u)
      /\ \A i \in 1 .. Len(st) + Len(u) :
           (st \o u)[i] = IF i <= Len(st) THEN st[i] ELSE u[i - Len(st)]
  BY <1>3, ConcatProperties
<1>5. \A i \in 1 .. Len(s) : (st \o u)[i] = s[i]
  BY <1>1, <1>2, <1>4
<1>6. ASSUME NEW i \in 1 .. Len(t) PROVE (st \o u)[Len(s) + i] = t[i]
  <2>1. /\ Len(s) + i \in 1 .. Len(s) + Len(t)
        /\ (Len(s) + i) - Len(s) = i /\ ~ Len(s) + i <= Len(s)
        /\ Len(s) + i \in 1 .. Len(st) + Len(u) /\ Len(s) + i <= Len(st)
    BY <1>1, <1>2
  <2> QED
    BY <1>2, <1>4, <2>1
<1>7. ASSUME NEW i \in 1 .. Len(u) PROVE (st \o u)[Len(s) + Len(t) + i] = u[i]
  <2>1. /\ Len(s) + Len(t) + i \in 1 .. Len(st) + Len(u)
        /\ (Len(s) + Len(t) + i) - Len(st) = i
        /\ ~ Len(s) + Len(t) + i <= Len(st)
    BY <1>1, <1>2
  <2> QED
    BY <1>4, <2>1
<1> QED
  BY <1>1, <1>2, <1>4, <1>5, <1>6, <1>7 DEF st

\* encode_addr: the type of the address's family, the address, the port.
LEMMA EncodeAddrShape ==
  ASSUME NEW a \in SocketAddr
  PROVE  LET n == IF IsV4(a.ip) THEN V4_LEN ELSE V6_LEN
             field == EncodeAddr(a)
         IN  /\ field \in Seq(Byte) /\ Len(field) = n + 3 /\ n \in Nat
             /\ Len(a.ip) = n /\ Len(a.port) = 2
             /\ field[1] = IF IsV4(a.ip) THEN ATYP_V4 ELSE ATYP_V6
             /\ \A i \in 1 .. n : field[1 + i] = a.ip[i]
             /\ \A i \in 1 .. 2 : field[1 + n + i] = a.port[i]
<1> DEFINE n == IF IsV4(a.ip) THEN V4_LEN ELSE V6_LEN
           atyp == IF IsV4(a.ip) THEN ATYP_V4 ELSE ATYP_V6
           type == <<atyp>>
<1>1. a.ip \in Seq(Byte) /\ Len(a.ip) = n /\ a.port \in Seq(Byte) /\ Len(a.port) = 2
  BY DEF SocketAddr, Ips, Ports, IsV4
<1>2. type \in Seq(Byte) /\ Len(type) = 1 /\ type[1] = atyp
  BY DEF ATYP_V4, ATYP_V6, Byte
<1>3. EncodeAddr(a) = type \o a.ip \o a.port
  BY DEF EncodeAddr
<1> HIDE DEF n, atyp, type
<1>4. /\ EncodeAddr(a) \in Seq(Byte) /\ Len(EncodeAddr(a)) = 1 + n + 2
      /\ n \in Nat
      /\ EncodeAddr(a)[1] = atyp
      /\ \A i \in 1 .. n : EncodeAddr(a)[1 + i] = a.ip[i]
      /\ \A i \in 1 .. 2 : EncodeAddr(a)[1 + n + i] = a.port[i]
  <2>1. type \in Seq(Byte) /\ a.ip \in Seq(Byte) /\ a.port \in Seq(Byte)
    BY <1>1, <1>2
  <2> DEFINE ip == a.ip
             port == a.port
             all == type \o ip \o port
  <2>2. ip \in Seq(Byte) /\ port \in Seq(Byte) /\ type \in Seq(Byte)
    BY <2>1
  <2> HIDE DEF ip, port
  <2>3. /\ all \in Seq(Byte) /\ Len(ip) \in Nat
        /\ Len(all) = Len(type) + Len(ip) + Len(port)
        /\ \A i \in 1 .. Len(type) : all[i] = type[i]
        /\ \A i \in 1 .. Len(ip) : all[Len(type) + i] = ip[i]
        /\ \A i \in 1 .. Len(port) :
             all[Len(type) + Len(ip) + i] = port[i]
    BY <2>2, ConcatThree
  <2> HIDE DEF all
  <2>4. EncodeAddr(a) = all
    BY <1>3 DEF all, ip, port
  <2> QED
    BY <1>1, <1>2, <2>3, <2>4 DEF ip, port
<1>5. Len(EncodeAddr(a)) = n + 3
  BY <1>4
<1> QED
  BY <1>1, <1>4, <1>5 DEF n, atyp

\* A domain name: its type, its length, the name, the port.
LEMMA EncodeDomainShape ==
  ASSUME NEW host \in Seq(Byte), Len(host) <= 255, NEW port \in Ports
  PROVE  LET field == EncodeDomain(host, port)
         IN  /\ field \in Seq(Byte) /\ Len(host) \in Byte
             /\ Len(field) = Len(host) + 4
             /\ field[1] = ATYP_DOMAIN /\ field[2] = Len(host)
             /\ \A i \in 1 .. Len(host) : field[2 + i] = host[i]
             /\ \A i \in 1 .. 2 : field[2 + Len(host) + i] = port[i]
<1>1. Len(host) \in Nat
  BY LenProperties
<1>2. Len(host) \in Byte
  <2>1. \A n \in Nat : n <= 255 => n \in Byte
    BY DEF Byte
  <2> QED
    BY <1>1, <2>1
<1>3. port \in Seq(Byte) /\ Len(port) = 2
  BY DEF Ports
<1> DEFINE head == <<ATYP_DOMAIN, Len(host)>>
           field == EncodeDomain(host, port)
<1>4. head \in Seq(Byte) /\ Len(head) = 2 /\ head[1] = ATYP_DOMAIN /\ head[2] = Len(host)
  BY <1>2 DEF ATYP_DOMAIN, Byte
<1>5. field = head \o host \o port
  BY DEF EncodeDomain
<1> HIDE DEF head, field
<1>6. /\ field \in Seq(Byte) /\ Len(field) = 2 + Len(host) + 2
      /\ field[1] = head[1] /\ field[2] = head[2]
      /\ \A i \in 1 .. Len(host) : field[2 + i] = host[i]
      /\ \A i \in 1 .. 2 : field[2 + Len(host) + i] = port[i]
  <2>1. head \in Seq(Byte) /\ host \in Seq(Byte) /\ port \in Seq(Byte)
    BY <1>4, <1>3
  <2> DEFINE all == head \o host \o port
  <2>2. /\ all \in Seq(Byte)
        /\ Len(all) = Len(head) + Len(host) + Len(port)
        /\ \A i \in 1 .. Len(head) : all[i] = head[i]
        /\ \A i \in 1 .. Len(host) : all[Len(head) + i] = host[i]
        /\ \A i \in 1 .. Len(port) : all[Len(head) + Len(host) + i] = port[i]
    BY <2>1, ConcatThree
  <2> HIDE DEF all
  <2>3. field = all
    BY <1>5 DEF all
  <2> QED
    BY <1>1, <1>4, <1>3, <2>2, <2>3
<1>7. Len(field) = Len(host) + 4
  BY <1>1, <1>6
<1> QED
  BY <1>2, <1>4, <1>6, <1>7 DEF field

\* The address field of a reply tells by its first octets how long it is.
LEMMA FieldShape ==
  ASSUME NEW field \in Fields
  PROVE  /\ field \in Seq(Byte) /\ Len(field) \in Nat /\ Len(field) >= 1
         /\ field[1] \in Byte
         /\ field[1] \in DOMAIN AddressLength =>
              Len(field) = AddressLength[field[1]] + 3
         /\ field[1] = ATYP_DOMAIN =>
              Len(field) >= 4 /\ field[2] \in Byte /\ Len(field) = field[2] + 4
         /\ field[1] \notin {ATYP_V4, ATYP_DOMAIN, ATYP_V6} => Len(field) = 1
<1> USE DEF ATYP_V4, ATYP_DOMAIN, ATYP_V6
<1>1. ASSUME NEW a \in ReplyAddrs, field = EncodeAddr(a)
      PROVE  /\ field \in Seq(Byte) /\ Len(field) >= 1
             /\ field[1] \in DOMAIN AddressLength
             /\ Len(field) = AddressLength[field[1]] + 3
  <2>1. a \in SocketAddr
    BY RepliesOK
  <2>2. /\ field \in Seq(Byte)
        /\ Len(field) = (IF IsV4(a.ip) THEN V4_LEN ELSE V6_LEN) + 3
        /\ field[1] = IF IsV4(a.ip) THEN ATYP_V4 ELSE ATYP_V6
    BY <1>1, <2>1, EncodeAddrShape
  <2> QED
    BY <2>2, LengthsOK DEF AddressLength
<1>2. ASSUME NEW h \in ReplyHosts, NEW a \in ReplyAddrs,
             field = EncodeDomain(h, a.port)
      PROVE  /\ field \in Seq(Byte) /\ Len(field) >= 4 /\ field[1] = ATYP_DOMAIN
             /\ field[2] \in Byte /\ Len(field) = field[2] + 4
  <2>1. h \in Seq(Byte) /\ Len(h) <= 255 /\ a.port \in Ports
    BY RepliesOK DEF SocketAddr
  <2>2. /\ field \in Seq(Byte) /\ Len(h) \in Byte /\ Len(field) = Len(h) + 4
        /\ field[1] = ATYP_DOMAIN /\ field[2] = Len(h)
    BY <1>2, <2>1, EncodeDomainShape
  <2> QED
    BY <2>2 DEF Byte
<1>3. \/ field = <<2>>
      \/ \E a \in ReplyAddrs : field = EncodeAddr(a)
      \/ \E h \in ReplyHosts : \E a \in ReplyAddrs : field = EncodeDomain(h, a.port)
  BY DEF Fields
<1>4. /\ field \in Seq(Byte) /\ Len(field) >= 1
      /\ field[1] \in DOMAIN AddressLength =>
           Len(field) = AddressLength[field[1]] + 3
      /\ field[1] = ATYP_DOMAIN =>
           Len(field) >= 4 /\ field[2] \in Byte /\ Len(field) = field[2] + 4
      /\ field[1] \notin {ATYP_V4, ATYP_DOMAIN, ATYP_V6} => Len(field) = 1
  <2>1. CASE field = <<2>>
    <3>1. field \in Seq(Byte) /\ Len(field) = 1 /\ field[1] = 2
      BY <2>1 DEF Byte
    <3> QED
      BY <3>1 DEF AddressLength
  <2>2. CASE \E a \in ReplyAddrs : field = EncodeAddr(a)
    <3>1. /\ field \in Seq(Byte) /\ Len(field) >= 1
          /\ field[1] \in DOMAIN AddressLength
          /\ Len(field) = AddressLength[field[1]] + 3
      BY <1>1, <2>2
    <3> QED
      BY <3>1 DEF AddressLength
  <2>3. CASE \E h \in ReplyHosts : \E a \in ReplyAddrs : field = EncodeDomain(h, a.port)
    <3>1. /\ field \in Seq(Byte) /\ Len(field) >= 4 /\ field[1] = ATYP_DOMAIN
          /\ field[2] \in Byte /\ Len(field) = field[2] + 4
      BY <1>2, <2>3
    <3> QED
      BY <3>1, LenProperties DEF AddressLength
  <2> QED
    BY <1>3, <2>1, <2>2, <2>3
<1>5. Len(field) \in Nat /\ field[1] \in Byte
  BY <1>4, LenProperties, ElementOfSeq
<1> QED
  BY <1>4, <1>5
-------------------------------------------------------------------------------
(* IPv4 in IPv6 *)

LEMMA MappedType ==
  ASSUME NEW ip \in Seq(Byte), IsV4(ip)
  PROVE  /\ ToIpv6Mapped(ip) \in Seq(Byte) /\ Len(ToIpv6Mapped(ip)) = V6_LEN
         /\ ToIpv6Mapped(ip) \in Ips
<1> DEFINE k == V6_LEN - V4_LEN
<1>1. V4_LEN \in Nat /\ V6_LEN \in Nat /\ k \in Nat /\ k >= 2
  BY LengthsOK
<1>2. \A i \in 1 .. V6_LEN : i > k => i - k \in 1 .. Len(ip)
  BY <1>1 DEF IsV4
<1>3. \A i \in 1 .. V6_LEN : i > k => ip[i - k] \in Byte
  BY <1>2, ElementOfSeq
<1>4. 0 \in Byte /\ 255 \in Byte
  BY DEF Byte
<1>5. ToIpv6Mapped(ip) \in [1 .. V6_LEN -> Byte]
  BY <1>3, <1>4 DEF ToIpv6Mapped
<1> QED
  BY <1>1, <1>5, FunctionIsSeq DEF Ips

\* Ipv6Addr::to_ipv4 gives an IPv4 address, if any.
LEMMA ToIpv4Type ==
  ASSUME NEW ip \in Ips, ~ IsV4(ip)
  PROVE  \A x \in ToIpv4(ip) : x \in Ips /\ IsV4(x)
<1> DEFINE v4 == SubSeq(ip, V6_LEN - V4_LEN + 1, V6_LEN)
           k == V6_LEN - V4_LEN + 1
<1>1. V4_LEN \in Nat \ {0} /\ V6_LEN \in Nat /\ k \in Nat /\ k >= 3 /\ k <= V6_LEN
  BY LengthsOK
<1>2. ip \in Seq(Byte) /\ Len(ip) = V6_LEN
  BY DEF Ips, IsV4
<1>3. \A i \in k .. V6_LEN : ip[i] \in Byte
  BY <1>1, <1>2, ElementOfSeq
<1>4. v4 \in Seq(Byte) /\ Len(v4) = V6_LEN - k + 1
  <2> HIDE DEF k
  <2>1. SubSeq(ip, k, V6_LEN) \in Seq(Byte)
        /\ Len(SubSeq(ip, k, V6_LEN)) = V6_LEN - k + 1
    BY <1>1, <1>3, SubSeqProperties
  <2> QED
    BY <2>1 DEF k
<1>5. Len(v4) = V4_LEN
  BY <1>1, <1>4
<1>6. \A x \in ToIpv4(ip) : x = v4
  BY DEF ToIpv4
<1> HIDE DEF v4
<1> QED
  BY <1>4, <1>5, <1>6 DEF Ips, IsV4

\* The mapping of an IPv4 address can be undone.
LEMMA ToIpv4OfMapped ==
  ASSUME NEW ip \in Seq(Byte), IsV4(ip)
  PROVE  ToIpv4(ToIpv6Mapped(ip)) = {ip}
<1> DEFINE k == V6_LEN - V4_LEN
           mapped == ToIpv6Mapped(ip)
           v4 == SubSeq(mapped, k + 1, V6_LEN)
<1>1. V4_LEN \in Nat \ {0} /\ V6_LEN \in Nat /\ k \in Nat /\ k >= 2
  BY LengthsOK
<1>2. mapped \in Seq(Byte) /\ Len(mapped) = V6_LEN
  BY MappedType
<1>3. \A i \in k + 1 .. V6_LEN : mapped[i] = ip[i - k]
  BY <1>1 DEF ToIpv6Mapped
<1>4. \A i \in k + 1 .. V6_LEN : mapped[i] \in Byte
  BY <1>1, <1>2, ElementOfSeq
<1>5. v4 = ip
  <2> HIDE DEF mapped, k
  <2>1. v4 \in Seq(Byte) /\ Len(v4) = (IF k + 1 <= V6_LEN THEN V6_LEN - (k + 1) + 1 ELSE 0)
        /\ \A i \in 1 .. V6_LEN - (k + 1) + 1 : v4[i] = mapped[(k + 1) + i - 1]
    BY <1>1, <1>4, SubSeqProperties
  <2>2. V4_LEN = V6_LEN - k
    BY <1>1 DEF k
  <2>3. Len(v4) = Len(ip) /\ Len(ip) = V4_LEN
    BY <1>1, <2>1, <2>2 DEF IsV4
  <2>4. ASSUME NEW i \in 1 .. Len(v4) PROVE v4[i] = ip[i]
    <3>1. i \in 1 .. V6_LEN - (k + 1) + 1 /\ (k + 1) + i - 1 = i + k
          /\ i + k \in k + 1 .. V6_LEN /\ (i + k) - k = i
      BY <1>1, <2>2, <2>3
    <3>2. mapped[i + k] = ip[(i + k) - k]
      BY <1>3, <3>1
    <3> QED
      BY <2>1, <3>1, <3>2
  <2> HIDE DEF v4
  <2> QED
    BY <2>1, <2>3, <2>4, SeqEqual
<1> QED
  BY <1>5 DEF ToIpv4

\* normalize_udp_relay gives an address.
LEMMA NormalizeType ==
  ASSUME NEW a \in SocketAddr, NEW ip \in Ips
  PROVE  NormalizeUdpRelay(a, ip) \in SocketAddr
<1>1. \A x \in Ips : [a EXCEPT !.ip = x] \in SocketAddr
  BY DEF SocketAddr
<1>2. IsV4(ip) => ToIpv6Mapped(ip) \in Ips
  BY MappedType DEF Ips
<1>3. ~ IsV4(ip) /\ ToIpv4(ip) # {} =>
        (CHOOSE x \in ToIpv4(ip) : TRUE) \in Ips
  BY ToIpv4Type
<1> QED
  BY <1>1, <1>2, <1>3 DEF NormalizeUdpRelay
-------------------------------------------------------------------------------
(* Types *)

Pcs == {"connect", "method", "verify", "header", "length", "host",
        "resolve", "bind", "established", "failed"}
ClientType == [pc : Pcs, awaited : Nat, atyp : Byte]
ServerType == [pc : {"greeting", "credentials", "request", "serving", "closed"},
               method : {0, 1, 2, 255}, verified : BOOLEAN, granted : BOOLEAN,
               data : 0 .. MaxData, cut : BOOLEAN]
SetupType == [auth : {"none", "usable", "too_long"},
              command : {"connect", "associate"}, proxy_ip : ProxyIps]

LEMMA Places ==
  /\ DOMAIN Reading = {"method", "verify", "header", "length", "host"}
  /\ {"connect"} \cup DOMAIN Reading \cup AfterReply \cup Ended = Pcs
<1>1. DOMAIN Reading = {"method", "verify", "header", "length", "host"}
  BY DEF Reading
<1> QED
  BY <1>1 DEF AfterReply, Ended, Pcs

\* TypeOK in parts.
LEMMA TypeParts ==
  TypeOK <=>
    /\ setup \in SetupType /\ client \in ClientType /\ server \in ServerType
    /\ client.pc = "host" => client.atyp \in {ATYP_V4, ATYP_DOMAIN, ATYP_V6}
    /\ sent \subseteq {"greeting", "credentials", "request"}
    /\ offered \subseteq SocketAddr /\ Cardinality(offered) <= 1
    /\ relay \subseteq SocketAddr /\ Cardinality(relay) <= Cardinality(offered)
    /\ transit \in Seq(Octet) /\ inbox \in Seq(Octet)
BY Places, Zenon DEF TypeOK, ClientType, ServerType, SetupType

LEMMA TypePartsNext ==
  TypeOK' <=>
    /\ setup' \in SetupType /\ client' \in ClientType /\ server' \in ServerType
    /\ client'.pc = "host" => client'.atyp \in {ATYP_V4, ATYP_DOMAIN, ATYP_V6}
    /\ sent' \subseteq {"greeting", "credentials", "request"}
    /\ offered' \subseteq SocketAddr /\ Cardinality(offered') <= 1
    /\ relay' \subseteq SocketAddr /\ Cardinality(relay') <= Cardinality(offered')
    /\ transit' \in Seq(Octet) /\ inbox' \in Seq(Octet)
BY Places, Zenon DEF TypeOK, ClientType, ServerType, SetupType

LEMMA AwaitType ==
  ASSUME TypeOK, NEW pc \in Pcs, NEW n \in Nat, Await(pc, n)
  PROVE  /\ client' \in ClientType
         /\ client'.pc = pc /\ client'.awaited = n /\ client'.atyp = client.atyp
<1>1. client \in ClientType
  BY TypeParts
<1> QED
  BY <1>1 DEF Await, ClientType

\* A step that leaves the addresses and the server alone.
LEMMA ClientStepType ==
  ASSUME TypeOK, UNCHANGED <<setup, offered, relay, wire>>,
         client' \in ClientType,
         client'.pc = "host" => client'.atyp \in {ATYP_V4, ATYP_DOMAIN, ATYP_V6},
         sent' \subseteq {"greeting", "credentials", "request"},
         inbox' \in Seq(Octet)
  PROVE  TypeOK'
BY TypeParts, TypePartsNext, Zenon DEF wire

\* A step of the server.
LEMMA SaysType ==
  ASSUME TypeOK, NEW pc, NEW bytes, NEW kind, NEW news,
         Says(pc, bytes, kind, news), server' \in ServerType,
         transit' \in Seq(Octet)
  PROVE  TypeOK'
BY TypeParts, TypePartsNext, Zenon DEF Says

\* The address of the reply, and the relay that it stands for.
LEMMA FinishType ==
  ASSUME TypeOK, NEW addr \in SocketAddr, Finish(addr),
         UNCHANGED <<setup, sent, wire>>, inbox' \in Seq(Octet),
         relay = {}
  PROVE  /\ TypeOK' /\ client'.pc \in {"established", "bind"}
         /\ RelayChosen'
<1>1. setup \in SetupType /\ setup.proxy_ip \in Ips
  BY TypeParts, RepliesOK DEF SetupType
<1>2. Cardinality({addr}) = 1 /\ Cardinality({}) = 0
  BY FS_Singleton, FS_EmptySet
<1>3. CASE setup.command = "connect"
  <2>1. /\ client' \in ClientType /\ client'.pc = "established"
        /\ offered' = {addr} /\ relay' = {}
    BY <1>3, AwaitType DEF Finish, Ends, Pcs
  <2>2. TypeOK'
    BY <1>2, <2>1, TypeParts, TypePartsNext DEF wire
  <2> QED
    BY <2>1, <2>2, Places DEF RelayChosen
<1>4. CASE setup.command # "connect"
  <2> DEFINE chosen == NormalizeUdpRelay(addr, setup.proxy_ip)
  <2>1. /\ client' \in ClientType /\ client'.pc = "bind"
        /\ offered' = {addr} /\ relay' = {chosen} /\ setup' = setup
    BY <1>4, AwaitType DEF Finish, Ends, Pcs
  <2>2. chosen \in SocketAddr
    BY <1>1, NormalizeType
  <2>3. RelayChosen'
    BY <2>1, Places DEF RelayChosen
  <2> HIDE DEF chosen
  <2>4. Cardinality({chosen}) = 1
    BY FS_Singleton
  <2>5. TypeOK'
    BY <1>2, <2>1, <2>2, <2>4, TypeParts, TypePartsNext DEF wire
  <2> QED
    BY <2>1, <2>3, <2>5
<1> QED
  BY <1>3, <1>4
-------------------------------------------------------------------------------
(* The steps of the server *)

\* The conjuncts of IInv that a step may disturb are those for the place where it
\* leaves the client.
LEMMA SameTurn ==
  ASSUME IInv, UNCHANGED <<setup, client, sent, offered, relay>>, Unread' = Unread,
         UNCHANGED server \/ server'.pc = "closed",
         /\ server'.method = server.method /\ server'.verified = server.verified
         /\ server'.granted = server.granted
  PROVE  /\ MethodKept' /\ RelayChosen' /\ ConnectInTurn' /\ MethodInTurn'
         /\ StatusInTurn' /\ HeaderInTurn' /\ LengthInTurn' /\ HostInTurn'
         /\ DataInTurn'
<1>1. /\ server'.pc \in {server.pc, "closed"}
      /\ server'.method = server.method /\ server'.verified = server.verified
      /\ server'.granted = server.granted
  OBVIOUS
<1>2. \A n \in Nat : \A kind : Holds(n, kind) <=> Holds(n, kind)'
  BY DEF Holds
<1>3. /\ Agreed <=> Agreed'
      /\ Granted => Granted'
      /\ Unanswered => Unanswered'
      /\ FieldLength(4)' = FieldLength(4)
  BY <1>1 DEF Agreed, Granted, Unanswered, FieldLength
<1>4. MethodKept' /\ RelayChosen' /\ ConnectInTurn'
  BY <1>1 DEF IInv, MethodKept, RelayChosen, ConnectInTurn
<1>5. MethodInTurn'
  BY <1>1, <1>3 DEF IInv, MethodInTurn, Holds
<1>6. StatusInTurn'
  BY <1>1, <1>3 DEF IInv, StatusInTurn, Holds
<1>7. HeaderInTurn'
  BY <1>1, <1>3 DEF IInv, HeaderInTurn, Holds
<1>8. LengthInTurn' /\ HostInTurn' /\ DataInTurn'
  BY <1>1, <1>3 DEF IInv, LengthInTurn, HostInTurn, DataInTurn, Holds
<1> QED
  BY <1>4, <1>5, <1>6, <1>7, <1>8

LEMMA DeliverStep == IInv /\ Deliver => IInv'
<1> SUFFICES ASSUME IInv, Deliver PROVE IInv'
  OBVIOUS
<1>1. TypeOK /\ Unread' = Unread /\ inbox' \in Seq(Octet) /\ transit' \in Seq(Octet)
  BY DeliverKeeps DEF IInv
<1>2. UNCHANGED <<setup, client, sent, offered, relay, server>>
  BY DEF Deliver
<1>3. TypeOK'
  BY <1>1, <1>2, TypeParts, TypePartsNext
<1> QED
  BY <1>1, <1>2, <1>3, SameTurn DEF IInv

LEMMA ClosesStep == IInv /\ (\E cut \in BOOLEAN : ServerCloses(cut)) => IInv'
<1> SUFFICES ASSUME IInv, NEW cut \in BOOLEAN, ServerCloses(cut) PROVE IInv'
  OBVIOUS
<1>1. TypeOK /\ server \in ServerType
  BY TypeParts DEF IInv
<1>2. Says("closed", << >>, "data", [server EXCEPT !.cut = cut])
  BY DEF ServerCloses
<1>3. /\ transit' \in Seq(Octet) /\ inbox' = inbox
      /\ Len(Unread') = Len(Unread) + Len(<< >>) /\ DOMAIN Unread' = 1 .. Len(Unread')
      /\ \A i \in 1 .. Len(Unread) : Unread'[i] = Unread[i]
  BY <1>1, <1>2, SaysAdds, EmptySeq
<1>4. /\ server'.pc = "closed" /\ server' \in ServerType
      /\ server'.method = server.method /\ server'.verified = server.verified
      /\ server'.granted = server.granted
      /\ UNCHANGED <<setup, client, sent, offered, relay>>
  BY <1>1, <1>2 DEF Says, ServerType
<1>5. TypeOK'
  BY <1>1, <1>2, <1>3, <1>4, SaysType
<1>6. Unread' = Unread
  <2>1. inbox \in Seq(Octet) /\ transit \in Seq(Octet) /\ inbox' = inbox
    BY <1>1, <1>3, TypeParts
  <2>2. transit' = transit \o Tagged(<< >>, "data")
    BY <1>2 DEF Says
  <2>3. Tagged(<< >>, "data") = << >>
    BY DEF Tagged
  <2>4. transit' = transit
    BY <2>1, <2>2, <2>3, ConcatEmptySeq
  <2> QED
    BY <2>1, <2>4 DEF Unread
<1> QED
  BY <1>1, <1>4, <1>5, <1>6, SameTurn DEF IInv

LEMMA MethodStep ==
  ASSUME IInv, NEW version \in {4, 5}, NEW method \in {0, 1, 2, 255},
         ServerMethod(version, method)
  PROVE  IInv'
<1> DEFINE news == [server EXCEPT !.method = method]
           pc == IF method = 2 THEN "credentials" ELSE "request"
           bytes == <<version, method>>
<1>1. TypeOK /\ server \in ServerType /\ client \in ClientType
  BY TypeParts DEF IInv
<1>2. server.pc = "greeting" /\ "greeting" \in sent
      /\ Says(pc, bytes, "method", news)
  BY DEF ServerMethod
<1>3. /\ server' \in ServerType /\ server'.pc = pc /\ server'.method = method
      /\ UNCHANGED <<setup, client, sent, offered, relay, inbox>>
  BY <1>1, <1>2 DEF Says, ServerType
<1>4. bytes \in Seq(Byte) /\ Len(bytes) = 2 /\ bytes[2] = method
  BY DEF Byte
<1>5. client.pc \in {"method", "failed"}
  <2>1. ~ Granted /\ client.pc # "connect"
    BY <1>2 DEF IInv, Granted, ConnectInTurn
  <2>2. client.pc \notin {"length", "host"} \cup AfterReply
    BY <2>1 DEF IInv, LengthInTurn, HostInTurn, DataInTurn
  <2>3. client.pc # "verify"
    BY <1>2 DEF IInv, StatusInTurn, Unanswered, Owes
  <2>4. client.pc # "header"
    BY <1>2 DEF IInv, HeaderInTurn, Unanswered, Owes
  <2> QED
    BY <1>1, <2>1, <2>2, <2>3, <2>4 DEF ClientType, Pcs, AfterReply
<1>6. TypeOK'
  BY <1>1, <1>2, <1>3, <1>4, SaysAdds, SaysType
<1>7. MethodKept' /\ RelayChosen'
  BY <1>2, <1>3 DEF IInv, MethodKept, RelayChosen
<1>8. ASSUME client.pc = "method" PROVE MethodInTurn'
  <2>1. Unread = << >> /\ client.awaited = 2 /\ sent = {"greeting"}
    BY <1>2, <1>8 DEF IInv, MethodInTurn, Unanswered
  <2>2. Len(Unread) = 0
    BY <2>1
  <2>3. TypeOK /\ bytes \in Seq(Byte) /\ Says(pc, bytes, "method", news)
    BY <1>1, <1>2, <1>4
  <2> HIDE DEF bytes, news, pc
  <2>4. /\ Len(Unread') = Len(Unread) + Len(bytes) /\ DOMAIN Unread' = 1 .. Len(Unread')
        /\ \A i \in 1 .. Len(Unread') : i > Len(Unread) =>
             Unread'[i].byte = bytes[i - Len(Unread)] /\ Unread'[i].of = "method"
    BY <2>3, SaysAdds, ZenonT(30)
  <2>5. /\ Len(Unread') = 2 /\ DOMAIN Unread' = 1 .. 2 /\ Unread'[2].byte = method
        /\ \A i \in 1 .. 2 : Unread'[i].of = "method"
    BY <1>4, <2>2, <2>4
  <2>6. Holds(2, "method")'
    BY <2>5 DEF Holds
  <2> QED
    BY <1>3, <2>1, <2>5, <2>6 DEF MethodInTurn, pc
<1>9. ConnectInTurn' /\ StatusInTurn' /\ HeaderInTurn' /\ LengthInTurn'
      /\ HostInTurn' /\ DataInTurn'
  BY <1>3, <1>5 DEF ConnectInTurn, StatusInTurn, HeaderInTurn, LengthInTurn,
                    HostInTurn, DataInTurn, AfterReply
<1>10. MethodInTurn'
  BY <1>3, <1>5, <1>8 DEF MethodInTurn
<1> QED
  BY <1>6, <1>7, <1>9, <1>10 DEF IInv

LEMMA StatusStep ==
  ASSUME IInv, NEW version \in {1, 5}, NEW status \in {0, 1},
         ServerStatus(version, status)
  PROVE  IInv'
<1> DEFINE news == [server EXCEPT !.verified = status = 0]
           bytes == <<version, status>>
<1>1. TypeOK /\ server \in ServerType /\ client \in ClientType
  BY TypeParts DEF IInv
<1>2. server.pc = "credentials" /\ "credentials" \in sent
      /\ Says("request", bytes, "status", news)
  BY DEF ServerStatus
<1>3. /\ server' \in ServerType /\ server'.pc = "request"
      /\ server'.method = server.method /\ server'.verified = (status = 0)
      /\ UNCHANGED <<setup, client, sent, offered, relay, inbox>>
  BY <1>1, <1>2 DEF Says, ServerType
<1>4. bytes \in Seq(Byte) /\ Len(bytes) = 2 /\ bytes[2] = status
  BY DEF Byte
<1>5. client.pc \in {"verify", "failed"}
  <2>1. ~ Granted /\ client.pc # "connect"
    BY <1>2 DEF IInv, Granted, ConnectInTurn
  <2>2. client.pc \notin {"length", "host"} \cup AfterReply
    BY <2>1 DEF IInv, LengthInTurn, HostInTurn, DataInTurn
  <2>3. client.pc # "method"
    BY <1>2 DEF IInv, MethodInTurn
  <2>4. client.pc # "header"
    BY <1>2 DEF IInv, HeaderInTurn, Unanswered, Owes
  <2> QED
    BY <1>1, <2>1, <2>2, <2>3, <2>4 DEF ClientType, Pcs, AfterReply
<1>6. TypeOK'
  BY <1>1, <1>2, <1>3, <1>4, SaysAdds, SaysType
<1>7. MethodKept' /\ RelayChosen'
  BY <1>2, <1>3 DEF IInv, MethodKept, RelayChosen
<1>8. ASSUME client.pc = "verify" PROVE StatusInTurn'
  <2>1. /\ Unread = << >> /\ client.awaited = 2
        /\ sent = {"greeting", "credentials"}
    BY <1>2, <1>8 DEF IInv, StatusInTurn, Unanswered
  <2>2. Len(Unread) = 0
    BY <2>1
  <2>3. TypeOK /\ bytes \in Seq(Byte) /\ Says("request", bytes, "status", news)
    BY <1>1, <1>2, <1>4
  <2> HIDE DEF bytes, news
  <2>4. /\ Len(Unread') = Len(Unread) + Len(bytes) /\ DOMAIN Unread' = 1 .. Len(Unread')
        /\ \A i \in 1 .. Len(Unread') : i > Len(Unread) =>
             Unread'[i].byte = bytes[i - Len(Unread)] /\ Unread'[i].of = "status"
    BY <2>3, SaysAdds, Zenon
  <2>5. /\ Len(Unread') = 2 /\ DOMAIN Unread' = 1 .. 2 /\ Unread'[2].byte = status
        /\ \A i \in 1 .. 2 : Unread'[i].of = "status"
    BY <1>4, <2>2, <2>4
  <2>6. Holds(2, "status")'
    BY <2>5 DEF Holds
  <2>7. server'.verified = (Unread'[2].byte = 0)
    BY <1>3, <2>5
  <2> QED
    BY <1>3, <2>1, <2>5, <2>6, <2>7, Zenon DEF StatusInTurn
<1>9. ConnectInTurn' /\ MethodInTurn' /\ HeaderInTurn' /\ LengthInTurn'
      /\ HostInTurn' /\ DataInTurn'
  BY <1>3, <1>5 DEF ConnectInTurn, MethodInTurn, HeaderInTurn, LengthInTurn,
                    HostInTurn, DataInTurn, AfterReply
<1>10. StatusInTurn'
  BY <1>3, <1>5, <1>8 DEF StatusInTurn
<1> QED
  BY <1>6, <1>7, <1>9, <1>10 DEF IInv

LEMMA ReplyStep ==
  ASSUME IInv, NEW version \in {4, 5}, NEW code \in {0, 5}, NEW field \in Fields,
         ServerReply(version, code, field)
  PROVE  IInv'
<1> DEFINE news == [server EXCEPT !.granted = code = 0]
           head == <<version, code, 0>>
           bytes == head \o field
<1>1. TypeOK /\ server \in ServerType /\ client \in ClientType
  BY TypeParts DEF IInv
<1>2. server.pc = "request" /\ "request" \in sent
      /\ Says("serving", bytes, "reply", news)
  BY DEF ServerReply
<1>3. /\ server' \in ServerType /\ server'.pc = "serving"
      /\ server'.method = server.method /\ server'.verified = server.verified
      /\ server'.granted = (code = 0)
      /\ UNCHANGED <<setup, client, sent, offered, relay, inbox>>
  BY <1>1, <1>2 DEF Says, ServerType
<1>4. /\ bytes \in Seq(Byte) /\ Len(bytes) = 3 + Len(field) /\ bytes[2] = code
      /\ \A i \in 1 .. Len(field) : bytes[3 + i] = field[i]
  <2>1. head \in Seq(Byte) /\ Len(head) = 3 /\ head[2] = code
    BY DEF Byte
  <2>2. field \in Seq(Byte) /\ Len(field) \in Nat
    BY FieldShape
  <2>3. head \in Seq(Byte)
    BY <2>1
  <2> HIDE DEF head
  <2>4. /\ bytes \in Seq(Byte) /\ Len(bytes) = Len(head) + Len(field)
        /\ \A i \in 1 .. Len(head) + Len(field) :
             bytes[i] = IF i <= Len(head) THEN head[i] ELSE field[i - Len(head)]
    BY <2>2, <2>3, ConcatProperties
  <2> HIDE DEF bytes
  <2>5. bytes[2] = code
    BY <2>1, <2>2, <2>4
  <2>6. ASSUME NEW i \in 1 .. Len(field) PROVE bytes[3 + i] = field[i]
    <3>1. 3 + i \in 1 .. 3 + Len(field) /\ ~ 3 + i <= 3 /\ (3 + i) - 3 = i
      BY <2>2
    <3> QED
      BY <2>1, <2>4, <3>1
  <2> QED
    BY <2>1, <2>4, <2>5, <2>6
<1>5. client.pc \in {"header", "failed"}
  <2>1. ~ Granted /\ client.pc # "connect"
    BY <1>2 DEF IInv, Granted, ConnectInTurn
  <2>2. client.pc \notin {"length", "host"} \cup AfterReply
    BY <2>1 DEF IInv, LengthInTurn, HostInTurn, DataInTurn
  <2>3. client.pc # "method"
    BY <1>2 DEF IInv, MethodInTurn
  <2>4. client.pc # "verify"
    BY <1>2 DEF IInv, StatusInTurn
  <2> QED
    BY <1>1, <2>1, <2>2, <2>3, <2>4 DEF ClientType, Pcs, AfterReply
<1>6. TypeOK'
  <2>1. TypeOK /\ bytes \in Seq(Byte) /\ Says("serving", bytes, "reply", news)
    BY <1>1, <1>2, <1>4
  <2> HIDE DEF bytes, news
  <2>2. transit' \in Seq(Octet)
    BY <2>1, SaysAdds, Zenon
  <2> QED
    BY <1>3, <2>1, <2>2, SaysType
<1>7. MethodKept' /\ RelayChosen'
  BY <1>2, <1>3 DEF IInv, MethodKept, RelayChosen
<1>8. ASSUME client.pc = "header" PROVE HeaderInTurn'
  <2>1. Unread = << >> /\ client.awaited = 4 /\ Agreed
    BY <1>2, <1>8 DEF IInv, HeaderInTurn, Unanswered
  <2>2. Len(Unread) = 0
    BY <2>1
  <2>3. TypeOK /\ bytes \in Seq(Byte) /\ Says("serving", bytes, "reply", news)
    BY <1>1, <1>2, <1>4
  <2> HIDE DEF bytes, news, head
  <2>4. /\ Len(Unread') = Len(Unread) + Len(bytes) /\ DOMAIN Unread' = 1 .. Len(Unread')
        /\ \A i \in 1 .. Len(Unread') : i > Len(Unread) =>
             Unread'[i].byte = bytes[i - Len(Unread)] /\ Unread'[i].of = "reply"
    BY <2>3, SaysAdds, Zenon
  <2>5. Len(field) \in Nat /\ Len(field) >= 1
    BY FieldShape
  <2>6. /\ Len(Unread') = 3 + Len(field)
        /\ DOMAIN Unread' = 1 .. 3 + Len(field)
        /\ \A i \in 1 .. 3 + Len(field) :
             Unread'[i].byte = bytes[i] /\ Unread'[i].of = "reply"
    BY <1>4, <2>2, <2>4, <2>5
  <2>7. Unread'[2].byte = code /\ Unread'[4].byte = field[1]
    BY <1>4, <2>5, <2>6
  <2>8. field[1] = ATYP_DOMAIN =>
          Len(field) >= 4 /\ Unread'[5].byte = field[2]
    <3>1. field[1] = ATYP_DOMAIN => Len(field) >= 4
      BY FieldShape
    <3>2. Len(field) >= 4 =>
            /\ 5 \in 1 .. 3 + Len(field) /\ 2 \in 1 .. Len(field) /\ 3 + 2 = 5
      BY <2>5
    <3> QED
      BY <1>4, <2>6, <3>1, <3>2
  <2>9. FieldLength(4)' = Len(field)
    <3>1. FieldLength(4)' =
            IF field[1] \in DOMAIN AddressLength THEN AddressLength[field[1]] + 3
            ELSE IF field[1] = ATYP_DOMAIN THEN Unread'[5].byte + 4
            ELSE 1
      BY <2>7 DEF FieldLength
    <3>2. DOMAIN AddressLength = {ATYP_V4, ATYP_V6}
      BY DEF AddressLength
    <3> QED
      BY <2>8, <3>1, <3>2, FieldShape
  <2>10. Holds(3 + FieldLength(4), "reply")'
    BY <2>5, <2>6, <2>9 DEF Holds
  <2>11. Len(Unread') >= IF Unread'[4].byte = ATYP_DOMAIN THEN 5 ELSE 4
    BY <2>5, <2>6, <2>7, <2>8
  <2>12. Agreed' /\ server'.granted = (Unread'[2].byte = 0)
         /\ server'.pc \in {"serving", "closed"} /\ client'.awaited = 4
    BY <1>3, <2>1, <2>7 DEF Agreed
  <2> QED
    BY <2>10, <2>11, <2>12, Zenon DEF HeaderInTurn
<1>9. ConnectInTurn' /\ MethodInTurn' /\ StatusInTurn' /\ LengthInTurn'
      /\ HostInTurn' /\ DataInTurn'
  BY <1>3, <1>5 DEF ConnectInTurn, MethodInTurn, StatusInTurn, LengthInTurn,
                    HostInTurn, DataInTurn, AfterReply
<1>10. HeaderInTurn'
  BY <1>3, <1>5, <1>8 DEF HeaderInTurn
<1> QED
  BY <1>6, <1>7, <1>9, <1>10 DEF IInv

\* The header of a reply tells how long the address is.
LEMMA FieldLengthType ==
  ASSUME TypeOK, Len(Unread) \in Nat,
         Len(Unread) >= IF Unread[4].byte = ATYP_DOMAIN THEN 5 ELSE 4
  PROVE  FieldLength(4) \in Nat
<1>1. Unread[4].byte = ATYP_DOMAIN => 5 \in 1 .. Len(Unread)
  OBVIOUS
<1>2. Unread[4].byte = ATYP_DOMAIN => Unread[5].byte \in Nat
  BY <1>1, UnreadType, ByteIsNat
<1>3. \A x \in DOMAIN AddressLength : AddressLength[x] \in Nat
  BY LengthsOK DEF AddressLength
<1> QED
  BY <1>2, <1>3 DEF FieldLength

LEMMA DataStep == IInv /\ ServerData => IInv'
<1> SUFFICES ASSUME IInv, ServerData PROVE IInv'
  OBVIOUS
<1> DEFINE news == [server EXCEPT !.data = server.data + 1]
           bytes == <<255>>
<1>1. TypeOK /\ server \in ServerType /\ client \in ClientType
  BY TypeParts DEF IInv
<1>2. server.pc = "serving" /\ Says("serving", bytes, "data", news)
      /\ server.data < MaxData
  BY DEF ServerData
<1>3. /\ server' \in ServerType /\ server'.pc = "serving"
      /\ server'.method = server.method /\ server'.verified = server.verified
      /\ server'.granted = server.granted
      /\ UNCHANGED <<setup, client, sent, offered, relay, inbox>>
  <2>1. server.data \in 0 .. MaxData /\ MaxData \in Nat
    BY <1>1, RepliesOK DEF ServerType
  <2>2. server.data + 1 \in 0 .. MaxData
    BY <1>2, <2>1
  <2> QED
    BY <1>1, <1>2, <2>2 DEF Says, ServerType
<1>4. bytes \in Seq(Byte) /\ Len(bytes) = 1
  BY DEF Byte
<1>5. client.pc \notin {"connect", "method", "verify"}
  BY <1>2 DEF IInv, ConnectInTurn, MethodInTurn, StatusInTurn, Unanswered, Owes
<1>6. /\ transit' \in Seq(Octet) /\ Len(Unread) \in Nat
      /\ Len(Unread') = Len(Unread) + 1
      /\ DOMAIN Unread = 1 .. Len(Unread) /\ DOMAIN Unread' = 1 .. Len(Unread) + 1
      /\ \A i \in 1 .. Len(Unread) : Unread'[i] = Unread[i]
      /\ Unread'[Len(Unread) + 1].of = "data"
  <2>1. TypeOK /\ bytes \in Seq(Byte) /\ Says("serving", bytes, "data", news)
    BY <1>1, <1>2, <1>4
  <2> HIDE DEF bytes, news
  <2>2. /\ transit' \in Seq(Octet) /\ Len(Unread') = Len(Unread) + Len(bytes)
        /\ DOMAIN Unread' = 1 .. Len(Unread')
        /\ \A i \in 1 .. Len(Unread) : Unread'[i] = Unread[i]
        /\ \A i \in 1 .. Len(Unread') : i > Len(Unread) => Unread'[i].of = "data"
    BY <2>1, SaysAdds, Zenon
  <2>3. Unread \in Seq(Octet) /\ DOMAIN Unread = 1 .. Len(Unread)
    BY <1>1, UnreadType
  <2>4. Len(Unread) \in Nat
    BY <2>3, LenProperties
  <2> QED
    BY <1>4, <2>2, <2>3, <2>4
<1>7. TypeOK'
  <2>1. TypeOK /\ Says("serving", bytes, "data", news)
    BY <1>1, <1>2
  <2> HIDE DEF bytes, news
  <2> QED
    BY <1>3, <1>6, <2>1, SaysType
<1> HIDE DEF bytes, news
<1>8. ASSUME NEW n \in Nat, Holds(n, "reply")
      PROVE  /\ Len(Unread') >= n
             /\ \A i \in DOMAIN Unread' :
                  Unread'[i].of = IF i <= n THEN "reply" ELSE "data"
  <2>1. n <= Len(Unread)
        /\ \A i \in 1 .. Len(Unread) :
             Unread[i].of = IF i <= n THEN "reply" ELSE "data"
    BY <1>6, <1>8 DEF Holds
  <2> QED
    BY <1>6, <2>1
<1>9. (Granted => Granted') /\ (Agreed => Agreed')
  BY <1>2, <1>3 DEF Granted, Agreed
<1>10. MethodKept' /\ RelayChosen'
  BY <1>2, <1>3 DEF IInv, MethodKept, RelayChosen
<1>11. ASSUME client.pc = "header" PROVE HeaderInTurn'
  <2>1. /\ client.awaited = 4 /\ Agreed
        /\ Len(Unread) >= IF Unread[4].byte = ATYP_DOMAIN THEN 5 ELSE 4
        /\ Holds(3 + FieldLength(4), "reply")
        /\ server.granted = (Unread[2].byte = 0)
    BY <1>2, <1>11 DEF IInv, HeaderInTurn, Unanswered, Owes
  <2>2. /\ 2 \in 1 .. Len(Unread) /\ 4 \in 1 .. Len(Unread)
        /\ Unread[4].byte = ATYP_DOMAIN => 5 \in 1 .. Len(Unread)
    BY <1>6, <2>1
  <2>3. Unread'[2] = Unread[2] /\ Unread'[4] = Unread[4]
        /\ (Unread[4].byte = ATYP_DOMAIN => Unread'[5] = Unread[5])
    BY <1>6, <2>2
  <2>4. FieldLength(4)' = FieldLength(4)
    BY <2>3 DEF FieldLength
  <2>5. FieldLength(4) \in Nat
    BY <1>1, <1>6, <2>1, FieldLengthType
  <2>6. Holds(3 + FieldLength(4), "reply")'
    <3>1. /\ Len(Unread') >= 3 + FieldLength(4)
          /\ \A i \in DOMAIN Unread' :
               Unread'[i].of = IF i <= 3 + FieldLength(4) THEN "reply" ELSE "data"
      BY <1>8, <2>1, <2>5
    <3> QED
      BY <2>4, <3>1 DEF Holds
  <2>7. Len(Unread') >= IF Unread'[4].byte = ATYP_DOMAIN THEN 5 ELSE 4
    BY <1>6, <2>1, <2>3
  <2>8. Agreed' /\ server'.granted = (Unread'[2].byte = 0)
        /\ server'.pc \in {"serving", "closed"} /\ client'.awaited = 4
    BY <1>3, <1>9, <2>1, <2>3
  <2> QED
    BY <2>6, <2>7, <2>8, Zenon DEF HeaderInTurn
<1>12. ASSUME client.pc = "length" PROVE LengthInTurn'
  <2>1. /\ client.awaited = 1 /\ client.atyp = ATYP_DOMAIN /\ Granted
        /\ Len(Unread) >= 1 /\ Holds(Unread[1].byte + 3, "reply")
    BY <1>12 DEF IInv, LengthInTurn
  <2>2. 1 \in 1 .. Len(Unread) /\ Unread'[1] = Unread[1]
    BY <1>6, <2>1
  <2>3. Unread[1].byte \in Byte
    BY <1>1, <2>2, UnreadType
  <2>4. Unread[1].byte + 3 \in Nat
    BY <2>3 DEF Byte
  <2>5. Holds(Unread[1].byte + 3, "reply")'
    BY <1>8, <2>1, <2>2, <2>4 DEF Holds
  <2>6. Len(Unread') >= 1
    BY <1>6
  <2> QED
    BY <1>3, <1>9, <2>1, <2>5, <2>6 DEF LengthInTurn
<1>13. ASSUME client.pc = "host" PROVE HostInTurn'
  <2>1. Holds(client.awaited, "reply") /\ client.awaited \in Nat
    BY <1>1, <1>13 DEF IInv, HostInTurn, ClientType
  <2>2. Holds(client.awaited, "reply")'
    BY <1>3, <1>8, <2>1 DEF Holds
  <2> QED
    BY <1>3, <1>9, <1>13, <2>2 DEF IInv, HostInTurn
<1>14. DataInTurn'
  <2>1. Holds(0, "reply") => Holds(0, "reply")'
    BY <1>8 DEF Holds
  <2> QED
    BY <1>3, <1>9, <2>1 DEF IInv, DataInTurn
<1>15. ConnectInTurn' /\ MethodInTurn' /\ StatusInTurn'
  BY <1>3, <1>5 DEF ConnectInTurn, MethodInTurn, StatusInTurn
<1>16. HeaderInTurn' /\ LengthInTurn' /\ HostInTurn'
  BY <1>3, <1>11, <1>12, <1>13 DEF HeaderInTurn, LengthInTurn, HostInTurn
<1> QED
  BY <1>7, <1>10, <1>14, <1>15, <1>16 DEF IInv
-------------------------------------------------------------------------------
(* The steps of the client *)

\* What is left of a message after a part of it is read.
LEMMA HoldsAfterRead ==
  ASSUME TypeOK, NEW pc, ReadExact(pc), UNCHANGED transit, NEW kind,
         NEW n \in Nat, Holds(n, kind), n >= client.awaited
  PROVE  /\ Len(Unread') >= n - client.awaited
         /\ \A i \in DOMAIN Unread' :
              Unread'[i].of = IF i <= n - client.awaited THEN kind ELSE "data"
<1>1. /\ client.awaited \in Nat /\ Len(Unread') = Len(Unread) - client.awaited
      /\ DOMAIN Unread' = 1 .. Len(Unread')
      /\ \A i \in 1 .. Len(Unread') : Unread'[i] = Unread[i + client.awaited]
  BY ReadTakes
<1>2. DOMAIN Unread = 1 .. Len(Unread) /\ Len(Unread) \in Nat
  BY UnreadType
<1>3. Len(Unread) >= n
      /\ \A i \in 1 .. Len(Unread) :
           Unread[i].of = IF i <= n THEN kind ELSE "data"
  BY <1>2 DEF Holds
<1>4. ASSUME NEW i \in DOMAIN Unread'
      PROVE  Unread'[i].of = IF i <= n - client.awaited THEN kind ELSE "data"
  <2>1. /\ i + client.awaited \in 1 .. Len(Unread)
        /\ i <= n - client.awaited <=> i + client.awaited <= n
        /\ Unread'[i] = Unread[i + client.awaited]
    BY <1>1, <1>2
  <2> QED
    BY <1>3, <2>1
<1> QED
  BY <1>1, <1>2, <1>3, <1>4

\* A message that is read to its end leaves nothing behind.
LEMMA NothingUnread ==
  ASSUME TypeOK, NEW pc, ReadExact(pc), UNCHANGED transit,
         Len(Unread) = client.awaited
  PROVE  Unread' = << >>
<1>1. client.awaited \in Nat /\ Len(Unread') = Len(Unread) - client.awaited
  BY ReadTakes
<1>2. Len(Unread') = 0
  BY <1>1
<1>3. inbox' \in Seq(Octet) /\ transit' \in Seq(Octet)
  BY ReadTakes, TypeParts
<1>4. Unread' \in Seq(Octet)
  BY <1>3, ConcatProperties DEF Unread
<1> QED
  BY <1>2, <1>4, EmptySeq

LEMMA EstablishStep == IInv /\ (Connect \/ ConnectFails) => IInv'
<1> SUFFICES ASSUME IInv, Connect \/ ConnectFails PROVE IInv'
  OBVIOUS
<1>1. /\ TypeOK /\ client.pc = "connect" /\ sent = {} /\ Unread = << >>
      /\ server.pc \in {"greeting", "closed"} /\ inbox \in Seq(Octet)
      /\ UNCHANGED <<setup, offered, relay, wire, inbox>>
  BY TypeParts DEF IInv, ConnectInTurn, Connect, ConnectFails
<1>2. Unread' = << >> /\ server' = server
  BY <1>1 DEF Unread, wire
<1>3. CASE Connect
  <2>1. client' \in ClientType /\ client'.pc = "method" /\ client'.awaited = 2
        /\ sent' = {"greeting"}
    BY <1>1, <1>3, AwaitType DEF Connect, Pcs
  <2>2. TypeOK'
    BY <1>1, <2>1, ClientStepType
  <2>3. MethodKept' /\ RelayChosen'
    BY <1>1, <2>1, Places DEF IInv, MethodKept, RelayChosen
  <2>4. MethodInTurn'
    BY <1>1, <1>2, <2>1 DEF MethodInTurn, Unanswered, Owes
  <2> QED
    BY <2>1, <2>2, <2>3, <2>4
    DEF IInv, ConnectInTurn, StatusInTurn, HeaderInTurn, LengthInTurn,
        HostInTurn, DataInTurn, AfterReply
<1>4. CASE ConnectFails
  <2>1. client' \in ClientType /\ client'.pc = "failed" /\ sent' = sent
    BY <1>1, <1>4, AwaitType DEF ConnectFails, Ends, Pcs
  <2>2. TypeOK'
    BY <1>1, <2>1, ClientStepType
  <2>3. MethodKept' /\ RelayChosen'
    BY <1>1, <2>1, Places DEF IInv, MethodKept, RelayChosen
  <2> QED
    BY <2>1, <2>2, <2>3
    DEF IInv, ConnectInTurn, MethodInTurn, StatusInTurn, HeaderInTurn,
        LengthInTurn, HostInTurn, DataInTurn, AfterReply
<1> QED
  BY <1>3, <1>4

\* Wherever the client fails, nothing is left to expect.
LEMMA FailedStep ==
  ASSUME IInv, Ends("failed"), inbox' \in Seq(Octet),
         UNCHANGED <<setup, sent, offered, relay, wire>>
  PROVE  IInv'
<1>1. TypeOK /\ client' \in ClientType /\ client'.pc = "failed"
  BY AwaitType DEF IInv, Ends, Pcs
<1>2. TypeOK'
  BY <1>1, TypeParts, ClientStepType
<1>3. MethodKept' /\ RelayChosen'
  BY <1>1, Places DEF IInv, MethodKept, RelayChosen, wire
<1> QED
  BY <1>1, <1>2, <1>3
  DEF IInv, ConnectInTurn, MethodInTurn, StatusInTurn, HeaderInTurn,
      LengthInTurn, HostInTurn, DataInTurn, AfterReply

LEMMA ReadMethodStep == IInv /\ ReadMethod => IInv'
<1> SUFFICES ASSUME IInv, ReadMethod PROVE IInv'
  OBVIOUS
<1>1. /\ TypeOK /\ client.pc = "method" /\ ReadExact("method")
      /\ UNCHANGED <<setup, offered, relay, wire>> /\ transit' = transit
      /\ server' = server
  BY DEF IInv, ReadMethod, ReadExact, wire
<1>2. /\ client.awaited = 2 /\ sent = {"greeting"} /\ Len(Unread) >= 2
      /\ inbox' \in Seq(Octet) /\ Len(Got) = 2
      /\ \A i \in 1 .. 2 : Got[i] = Unread[i].byte
  BY <1>1, ReadTakes DEF IInv, MethodInTurn
<1>3. ~ Unanswered
  BY <1>2, EmptySeq DEF Unanswered
<1>4. /\ Len(Unread) = 2 /\ Got[2] = server.method
      /\ server.pc \in {IF server.method = 2 THEN "credentials" ELSE "request",
                        "closed"}
  BY <1>1, <1>2, <1>3 DEF IInv, MethodInTurn
<1>5. Unread' = << >>
  BY <1>1, <1>2, <1>4, NothingUnread
<1>6. RelayChosen /\ offered = {} /\ relay = {}
  BY <1>1, Places DEF IInv, RelayChosen
<1>7. CASE Got = <<5, 0>> /\ SendRequest
  <2>1. client' \in ClientType /\ client'.pc = "header" /\ client'.awaited = 4
        /\ sent' = {"greeting", "request"}
    BY <1>1, <1>2, <1>7, AwaitType DEF SendRequest, Pcs
  <2>2. TypeOK'
    BY <1>1, <1>2, <2>1, ClientStepType
  <2>3. MethodKept' /\ RelayChosen'
    BY <1>1, <1>6, <2>1 DEF MethodKept, RelayChosen
  <2>4. Got[2] = 0
    BY <1>7
  <2>5. HeaderInTurn'
    BY <1>1, <1>4, <1>5, <2>1, <2>4 DEF HeaderInTurn, Unanswered, Owes, Agreed
  <2> QED
    BY <2>1, <2>2, <2>3, <2>5
    DEF IInv, ConnectInTurn, MethodInTurn, StatusInTurn, LengthInTurn,
        HostInTurn, DataInTurn, AfterReply
<1>8. CASE Got[2] = 2 /\ setup.auth = "usable" /\ Await("verify", 2)
           /\ sent' = sent \cup {"credentials"}
  <2>1. client' \in ClientType /\ client'.pc = "verify" /\ client'.awaited = 2
        /\ sent' = {"greeting", "credentials"}
    BY <1>1, <1>2, <1>8, AwaitType DEF Pcs
  <2>2. TypeOK'
    BY <1>1, <1>2, <2>1, ClientStepType
  <2>3. MethodKept' /\ RelayChosen'
    BY <1>1, <1>4, <1>6, <1>8, <2>1 DEF MethodKept, RelayChosen
  <2>4. StatusInTurn'
    BY <1>1, <1>4, <1>5, <1>8, <2>1 DEF StatusInTurn, Unanswered, Owes
  <2> QED
    BY <2>1, <2>2, <2>3, <2>4
    DEF IInv, ConnectInTurn, MethodInTurn, HeaderInTurn, LengthInTurn,
        HostInTurn, DataInTurn, AfterReply
<1>9. CASE Ends("failed") /\ UNCHANGED sent
  BY <1>1, <1>2, <1>9, FailedStep
<1> QED
  BY <1>7, <1>8, <1>9 DEF ReadMethod

LEMMA ReadStatusStep == IInv /\ ReadStatus => IInv'
<1> SUFFICES ASSUME IInv, ReadStatus PROVE IInv'
  OBVIOUS
<1>1. /\ TypeOK /\ client.pc = "verify" /\ ReadExact("verify")
      /\ UNCHANGED <<setup, offered, relay, wire>> /\ transit' = transit
      /\ server' = server
  BY DEF IInv, ReadStatus, ReadExact, wire
<1>2. /\ client.awaited = 2 /\ sent = {"greeting", "credentials"} /\ Len(Unread) >= 2
      /\ inbox' \in Seq(Octet) /\ Len(Got) = 2
      /\ \A i \in 1 .. 2 : Got[i] = Unread[i].byte
  BY <1>1, ReadTakes DEF IInv, StatusInTurn
<1>3. ~ Unanswered
  BY <1>2, EmptySeq DEF Unanswered
<1>4. /\ Len(Unread) = 2 /\ server.verified = (Got[2] = 0)
      /\ server.pc \in {"request", "closed"}
  BY <1>1, <1>2, <1>3 DEF IInv, StatusInTurn
<1>5. Unread' = << >>
  BY <1>1, <1>2, <1>4, NothingUnread
<1>6. RelayChosen /\ offered = {} /\ relay = {} /\ server.method = 2
  BY <1>1, <1>2, Places DEF IInv, RelayChosen, MethodKept
<1>7. CASE Got = <<1, 0>> /\ SendRequest
  <2>1. client' \in ClientType /\ client'.pc = "header" /\ client'.awaited = 4
        /\ sent' = {"greeting", "credentials", "request"}
    BY <1>1, <1>2, <1>7, AwaitType DEF SendRequest, Pcs
  <2>2. TypeOK'
    BY <1>1, <1>2, <2>1, ClientStepType
  <2>3. MethodKept' /\ RelayChosen'
    BY <1>1, <1>2, <1>6, <2>1 DEF IInv, MethodKept, RelayChosen
  <2>4. Got[2] = 0
    BY <1>7
  <2>5. server.verified
    BY <1>4, <2>4, Zenon
  <2>6. HeaderInTurn'
    BY <1>1, <1>4, <1>5, <1>6, <2>1, <2>5 DEF HeaderInTurn, Unanswered, Owes, Agreed
  <2> QED
    BY <2>1, <2>2, <2>3, <2>6
    DEF IInv, ConnectInTurn, MethodInTurn, StatusInTurn, LengthInTurn,
        HostInTurn, DataInTurn, AfterReply
<1>8. CASE Ends("failed") /\ UNCHANGED sent
  BY <1>1, <1>2, <1>8, FailedStep
<1> QED
  BY <1>7, <1>8 DEF ReadStatus

LEMMA ReadHeaderStep == IInv /\ ReadHeader => IInv'
<1> SUFFICES ASSUME IInv, ReadHeader PROVE IInv'
  OBVIOUS
<1> USE DEF ATYP_V4, ATYP_DOMAIN, ATYP_V6
<1>1. /\ TypeOK /\ client \in ClientType /\ client.pc = "header"
      /\ ReadExact("header") /\ UNCHANGED <<setup, sent, offered, relay, wire>>
      /\ transit' = transit /\ server' = server
  BY TypeParts DEF IInv, ReadHeader, ReadExact, wire
<1>2. client.awaited = 4 /\ Agreed
  BY <1>1 DEF IInv, HeaderInTurn
<1>3. /\ Len(Unread) >= 4 /\ inbox' \in Seq(Octet)
      /\ Got \in Seq(Byte) /\ Len(Got) = 4
      /\ \A i \in 1 .. 4 : Got[i] = Unread[i].byte
  BY <1>1, <1>2, ReadTakes
<1>4. /\ Len(Unread') = Len(Unread) - 4 /\ DOMAIN Unread' = 1 .. Len(Unread')
      /\ \A i \in 1 .. Len(Unread') : Unread'[i] = Unread[i + 4]
  BY <1>1, <1>2, ReadTakes
<1>5. ~ Unanswered
  BY <1>3, EmptySeq DEF Unanswered
<1>6. /\ Len(Unread) >= IF Unread[4].byte = ATYP_DOMAIN THEN 5 ELSE 4
      /\ Holds(3 + FieldLength(4), "reply")
      /\ server.granted = (Unread[2].byte = 0)
      /\ server.pc \in {"serving", "closed"}
  BY <1>1, <1>5 DEF IInv, HeaderInTurn
<1>7. Got[4] = Unread[4].byte /\ Got[2] = Unread[2].byte /\ Got[4] \in Byte
  <2>1. Got[4] = Unread[4].byte /\ Got[2] = Unread[2].byte
    BY <1>3
  <2>2. 4 \in 1 .. Len(Got) /\ Got \in Seq(Byte)
    BY <1>3
  <2>3. Got[4] \in Byte
    BY <2>2, ElementOfSeq
  <2> QED
    BY <2>1, <2>3
<1>8. /\ client'.atyp = Got[4]
      /\ client'.pc = IF Got[1] # 5 \/ Got[2] # 0 THEN "failed"
                      ELSE IF Got[4] \in DOMAIN AddressLength THEN "host"
                      ELSE IF Got[4] = ATYP_DOMAIN THEN "length" ELSE "failed"
      /\ client'.awaited = IF Got[4] \in DOMAIN AddressLength
                           THEN AddressLength[Got[4]] + 2 ELSE 1
  BY <1>1 DEF ReadHeader, ClientType
<1>9. /\ DOMAIN AddressLength = {ATYP_V4, ATYP_V6}
      /\ \A x \in DOMAIN AddressLength : AddressLength[x] \in Nat
  BY LengthsOK DEF AddressLength
<1>10. client' \in ClientType
  <2>1. /\ client' = [pc |-> client'.pc, awaited |-> client'.awaited,
                      atyp |-> client'.atyp]
    BY <1>1 DEF ReadHeader, ClientType
  <2>2. client'.pc \in Pcs /\ client'.awaited \in Nat /\ client'.atyp \in Byte
    BY <1>7, <1>8, <1>9 DEF Pcs
  <2> HIDE DEF ATYP_V4, ATYP_DOMAIN, ATYP_V6
  <2> QED
    BY <2>1, <2>2 DEF ClientType
<1>11. TypeOK'
  <2>1. client'.pc = "host" => client'.atyp \in {ATYP_V4, ATYP_DOMAIN, ATYP_V6}
    BY <1>8, <1>9
  <2>2. sent' \subseteq {"greeting", "credentials", "request"}
    BY <1>1, TypeParts
  <2> QED
    BY <1>1, <1>3, <1>10, <2>1, <2>2, ClientStepType
<1>12. MethodKept' /\ RelayChosen'
  <2>1. offered = {} /\ relay = {}
    BY <1>1, Places DEF IInv, RelayChosen
  <2> QED
    BY <1>1, <2>1 DEF IInv, MethodKept, RelayChosen, wire
<1>13. client'.pc \in {"host", "length", "failed"}
  BY <1>8
<1>14. ASSUME client'.pc \in {"host", "length"} PROVE Granted'
  <2>1. Got[2] = 0
    BY <1>8, <1>14
  <2>2. server.granted
    BY <1>6, <1>7, <2>1, Zenon
  <2> QED
    BY <1>1, <1>2, <1>6, <2>2 DEF Granted, Agreed
<1>15. ASSUME client'.pc = "host" PROVE HostInTurn'
  <2>1. Got[4] \in DOMAIN AddressLength /\ AddressLength[Got[4]] \in Nat
    BY <1>8, <1>9, <1>15
  <2>2. /\ client'.atyp = Got[4] /\ client'.awaited = AddressLength[Got[4]] + 2
        /\ FieldLength(4) = AddressLength[Got[4]] + 3
    BY <1>7, <1>8, <2>1 DEF FieldLength
  <2>3. /\ 3 + FieldLength(4) \in Nat /\ 3 + FieldLength(4) >= client.awaited
        /\ (3 + FieldLength(4)) - client.awaited = client'.awaited
    BY <1>2, <2>1, <2>2
  <2>4. Holds(client.awaited, "reply")'
    <3>1. /\ Len(Unread') >= (3 + FieldLength(4)) - client.awaited
          /\ \A i \in DOMAIN Unread' :
               Unread'[i].of = IF i <= (3 + FieldLength(4)) - client.awaited
                               THEN "reply" ELSE "data"
      BY <1>1, <1>6, <2>3, HoldsAfterRead
    <3> QED
      BY <2>3, <3>1 DEF Holds
  <2>5. client'.awaited >= 2
        /\ (client'.atyp \in DOMAIN AddressLength =>
              client'.awaited = AddressLength[client'.atyp] + 2)
    BY <2>1, <2>2
  <2>6. Granted'
    BY <1>14, <1>15
  <2> QED
    BY <2>4, <2>5, <2>6 DEF HostInTurn, AddressLength
<1>16. ASSUME client'.pc = "length" PROVE LengthInTurn'
  <2>1. Got[4] = ATYP_DOMAIN /\ Got[4] \notin DOMAIN AddressLength
    BY <1>8, <1>16
  <2>2. client'.awaited = 1 /\ client'.atyp = ATYP_DOMAIN
        /\ FieldLength(4) = Unread[5].byte + 4
    BY <1>7, <1>8, <2>1 DEF FieldLength
  <2>3. Len(Unread) >= 5 /\ Len(Unread) \in Nat /\ 5 \in 1 .. Len(Unread)
    BY <1>1, <1>6, <1>7, <2>1, UnreadType
  <2>4. Unread[5].byte \in Byte
    BY <1>1, <2>3, UnreadType
  <2>5. 1 \in 1 .. Len(Unread') /\ Unread'[1] = Unread[5] /\ Len(Unread') >= 1
    BY <1>4, <2>3
  <2>6. /\ 3 + FieldLength(4) \in Nat /\ 3 + FieldLength(4) >= client.awaited
        /\ (3 + FieldLength(4)) - client.awaited = Unread'[1].byte + 3
    <3>1. Unread'[1].byte \in Nat /\ FieldLength(4) = Unread'[1].byte + 4
      <4>2. Unread'[1].byte = Unread[5].byte
        BY <2>5
      <4>3. Unread'[1].byte \in Nat
        BY <2>4, <4>2, ByteIsNat
      <4> QED
        BY <2>2, <4>2, <4>3
    <3> QED
      BY <1>2, <3>1
  <2>7. Holds(Unread[1].byte + 3, "reply")'
    <3>1. /\ Len(Unread') >= (3 + FieldLength(4)) - client.awaited
          /\ \A i \in DOMAIN Unread' :
               Unread'[i].of = IF i <= (3 + FieldLength(4)) - client.awaited
                               THEN "reply" ELSE "data"
      BY <1>1, <1>6, <2>6, HoldsAfterRead
    <3> QED
      BY <2>6, <3>1 DEF Holds
  <2>8. Granted'
    BY <1>14, <1>16
  <2> QED
    BY <2>2, <2>5, <2>7, <2>8 DEF LengthInTurn
<1>17. ConnectInTurn' /\ MethodInTurn' /\ StatusInTurn' /\ HeaderInTurn' /\ DataInTurn'
  BY <1>13 DEF ConnectInTurn, MethodInTurn, StatusInTurn, HeaderInTurn,
               DataInTurn, AfterReply
<1>18. LengthInTurn' /\ HostInTurn'
  BY <1>15, <1>16 DEF LengthInTurn, HostInTurn
<1> QED
  BY <1>11, <1>12, <1>17, <1>18 DEF IInv

LEMMA ReadLengthStep == IInv /\ ReadLength => IInv'
<1> SUFFICES ASSUME IInv, ReadLength PROVE IInv'
  OBVIOUS
<1>1. /\ TypeOK /\ client.pc = "length" /\ ReadExact("length")
      /\ UNCHANGED <<setup, sent, offered, relay, wire>>
      /\ transit' = transit /\ server' = server
  BY DEF IInv, ReadLength, ReadExact, wire
<1>2. /\ client.awaited = 1 /\ client.atyp = ATYP_DOMAIN /\ Granted
      /\ Holds(Unread[1].byte + 3, "reply")
  BY <1>1 DEF IInv, LengthInTurn
<1>3. /\ inbox' \in Seq(Octet) /\ Got \in Seq(Byte) /\ Len(Got) = 1
      /\ Got[1] = Unread[1].byte
  BY <1>1, <1>2, ReadTakes
<1>4. Got[1] \in Byte
  BY <1>3, ElementOfSeq
<1>5. Got[1] \in Nat /\ Got[1] + 2 \in Nat /\ Got[1] + 2 >= 2
  BY <1>4 DEF Byte
<1>6. /\ client' \in ClientType /\ client'.pc = "host"
      /\ client'.awaited = Got[1] + 2 /\ client'.atyp = ATYP_DOMAIN
  <2>1. Await("host", Got[1] + 2) /\ "host" \in Pcs
    BY DEF ReadLength, Pcs
  <2> QED
    BY <1>1, <1>2, <1>5, <2>1, AwaitType
<1>7. TypeOK'
  <2>1. sent' \subseteq {"greeting", "credentials", "request"}
    BY <1>1, TypeParts
  <2> QED
    BY <1>1, <1>3, <1>6, <2>1, ClientStepType
<1>8. MethodKept' /\ RelayChosen'
  <2>1. offered = {} /\ relay = {}
    BY <1>1, Places DEF IInv, RelayChosen
  <2> QED
    BY <1>1, <2>1 DEF IInv, MethodKept, RelayChosen, wire
<1>9. HostInTurn'
  <2> DEFINE n == Unread[1].byte + 3
  <2>1. n \in Nat /\ n >= client.awaited /\ n - client.awaited = client'.awaited
    BY <1>2, <1>3, <1>5, <1>6
  <2>2. Holds(n, "reply")
    BY <1>2
  <2> HIDE DEF n
  <2>3. /\ Len(Unread') >= n - client.awaited
        /\ \A i \in DOMAIN Unread' :
             Unread'[i].of = IF i <= n - client.awaited THEN "reply" ELSE "data"
    BY <1>1, <2>1, <2>2, HoldsAfterRead
  <2>4. Holds(client.awaited, "reply")'
    BY <2>1, <2>3 DEF Holds
  <2>5. ATYP_DOMAIN \notin DOMAIN AddressLength
    BY DEF AddressLength, ATYP_V4, ATYP_V6, ATYP_DOMAIN
  <2>6. Granted'
    BY <1>1, <1>2 DEF Granted, Agreed
  <2>7. client'.awaited >= 2 /\ client'.atyp \notin DOMAIN AddressLength
    BY <1>5, <1>6, <2>5
  <2> QED
    BY <2>4, <2>6, <2>7 DEF HostInTurn, AddressLength
<1> QED
  BY <1>6, <1>7, <1>8, <1>9
  DEF IInv, ConnectInTurn, MethodInTurn, StatusInTurn, HeaderInTurn,
      LengthInTurn, DataInTurn, AfterReply

\* Once the reply is read, all that follows is data.
LEMMA AfterReplyTurn ==
  ASSUME Granted', Holds(0, "reply")', client'.pc \in AfterReply
  PROVE  /\ ConnectInTurn' /\ MethodInTurn' /\ StatusInTurn' /\ HeaderInTurn'
         /\ LengthInTurn' /\ HostInTurn' /\ DataInTurn'
BY DEF ConnectInTurn, MethodInTurn, StatusInTurn, HeaderInTurn, LengthInTurn,
       HostInTurn, DataInTurn, AfterReply

LEMMA ReadHostStep == IInv /\ ReadHost => IInv'
<1> SUFFICES ASSUME IInv, ReadHost PROVE IInv'
  OBVIOUS
<1>1. /\ TypeOK /\ client \in ClientType /\ client.pc = "host" /\ ReadExact("host")
      /\ UNCHANGED <<setup, sent, wire>> /\ transit' = transit /\ server' = server
  BY TypeParts DEF IInv, ReadHost, ReadExact, wire
<1>2. /\ client.awaited \in Nat /\ client.awaited >= 2 /\ Granted
      /\ client.atyp \in DOMAIN AddressLength =>
           client.awaited = AddressLength[client.atyp] + 2
      /\ Holds(client.awaited, "reply")
      /\ client.atyp \in {ATYP_V4, ATYP_DOMAIN, ATYP_V6}
      /\ offered = {} /\ relay = {}
  BY <1>1, TypeParts, Places DEF IInv, HostInTurn, RelayChosen, ClientType
<1>3. inbox' \in Seq(Octet) /\ Got \in Seq(Byte) /\ Len(Got) = client.awaited
  BY <1>1, ReadTakes
<1>4. Holds(0, "reply")'
  <2>1. /\ Len(Unread') >= client.awaited - client.awaited
        /\ \A i \in DOMAIN Unread' :
             Unread'[i].of = IF i <= client.awaited - client.awaited
                             THEN "reply" ELSE "data"
    BY <1>1, <1>2, HoldsAfterRead
  <2>2. client.awaited - client.awaited = 0
    BY <1>2
  <2> QED
    BY <2>1, <2>2 DEF Holds
<1>5. Granted' /\ (MethodKept => MethodKept')
  BY <1>1, <1>2 DEF Granted, Agreed, MethodKept
<1>6. CASE client.atyp = ATYP_DOMAIN
  <2>1. Ends("resolve") /\ UNCHANGED <<offered, relay>>
    BY <1>6 DEF ReadHost
  <2>2. client' \in ClientType /\ client'.pc = "resolve"
    BY <1>1, <2>1, AwaitType DEF Ends, Pcs
  <2>3. TypeOK'
    <3>1. sent' \subseteq {"greeting", "credentials", "request"}
      BY <1>1, TypeParts
    <3> QED
      BY <1>1, <1>3, <2>1, <2>2, <3>1, ClientStepType
  <2>4. RelayChosen'
    BY <1>1, <1>2, <2>1 DEF RelayChosen
  <2> QED
    BY <1>4, <1>5, <2>2, <2>3, <2>4, AfterReplyTurn DEF IInv, AfterReply
<1>7. CASE client.atyp # ATYP_DOMAIN
  <2> DEFINE n == client.awaited
             addr == [ip |-> SubSeq(Got, 1, n - 2), port |-> SubSeq(Got, n - 1, n)]
  <2>1. Finish(addr)
    BY <1>7 DEF ReadHost
  <2>2. /\ n \in Nat /\ n - 2 \in {V4_LEN, V6_LEN} /\ n - 2 \in Nat /\ n - 2 >= 1
    BY <1>2, <1>7, LengthsOK DEF AddressLength
  <2>3. \A i \in 1 .. n : Got[i] \in Byte
    BY <1>3, ElementOfSeq
  <2> DEFINE ip == SubSeq(Got, 1, n - 2)
             port == SubSeq(Got, n - 1, n)
  <2>4. ip \in Seq(Byte) /\ Len(ip) = n - 2
    <3>1. /\ \A i \in 1 .. n - 2 : Got[i] \in Byte
          /\ n - 2 \in Int /\ 1 \in Int /\ 1 <= n - 2 /\ (n - 2) - 1 + 1 = n - 2
      BY <2>2, <2>3
    <3> HIDE DEF n
    <3> QED
      BY <3>1, SubSeqProperties
  <2>5. port \in Seq(Byte) /\ Len(port) = 2
    <3>1. /\ \A i \in n - 1 .. n : Got[i] \in Byte
          /\ n - 1 \in Int /\ n \in Int /\ n - 1 <= n /\ n - (n - 1) + 1 = 2
      BY <2>2, <2>3
    <3> HIDE DEF n
    <3> QED
      BY <3>1, SubSeqProperties
  <2>6. addr \in SocketAddr
    <3>1. ip \in Ips /\ port \in Ports
      BY <2>2, <2>4, <2>5 DEF Ips, Ports
    <3>2. addr = [ip |-> ip, port |-> port]
      OBVIOUS
    <3> HIDE DEF ip, port, addr
    <3> QED
      BY <3>1, <3>2 DEF SocketAddr
  <2> HIDE DEF addr
  <2>7. TypeOK' /\ client'.pc \in {"established", "bind"} /\ RelayChosen'
    BY <1>1, <1>2, <1>3, <2>1, <2>6, FinishType
  <2> QED
    BY <1>4, <1>5, <2>7, AfterReplyTurn DEF IInv, AfterReply
<1> QED
  BY <1>6, <1>7

LEMMA ResolveStep == ASSUME IInv, NEW addr \in ReplyAddrs, Resolve(addr) PROVE IInv'
<1>1. /\ TypeOK /\ client.pc = "resolve" /\ Finish(addr) /\ addr \in SocketAddr
      /\ UNCHANGED <<setup, sent, wire, inbox>>
  BY RepliesOK DEF IInv, Resolve
<1>2. Granted /\ Holds(0, "reply") /\ relay = {} /\ inbox \in Seq(Octet)
  BY <1>1, TypeParts DEF IInv, DataInTurn, AfterReply, RelayChosen
<1>3. Granted' /\ Holds(0, "reply")' /\ (MethodKept => MethodKept')
  BY <1>1, <1>2 DEF Granted, Agreed, Holds, Unread, MethodKept, wire
<1>4. TypeOK' /\ client'.pc \in {"established", "bind"} /\ RelayChosen'
  BY <1>1, <1>2, FinishType
<1> QED
  BY <1>3, <1>4, AfterReplyTurn DEF IInv, AfterReply

LEMMA BindStep == IInv /\ Bind => IInv'
<1> SUFFICES ASSUME IInv, Bind PROVE IInv'
  OBVIOUS
<1>1. /\ TypeOK /\ client.pc = "bind" /\ Ends("established")
      /\ UNCHANGED <<setup, sent, offered, relay, wire, inbox>>
  BY DEF IInv, Bind
<1>2. client' \in ClientType /\ client'.pc = "established"
  BY <1>1, AwaitType DEF Ends, Pcs
<1>3. Granted /\ Holds(0, "reply")
  BY <1>1 DEF IInv, DataInTurn, AfterReply
<1>4. Granted' /\ Holds(0, "reply")' /\ (MethodKept => MethodKept')
  BY <1>1, <1>3 DEF Granted, Agreed, Holds, Unread, MethodKept, wire
<1>5. TypeOK'
  BY <1>1, <1>2, TypeParts, ClientStepType
<1>6. RelayChosen'
  BY <1>1, <1>2, Places DEF IInv, RelayChosen
<1> QED
  BY <1>2, <1>4, <1>5, <1>6, AfterReplyTurn DEF IInv, AfterReply

LEMMA FailureStep == IInv /\ (LocalFailure \/ Broken) => IInv'
<1> SUFFICES ASSUME IInv, LocalFailure \/ Broken PROVE IInv'
  OBVIOUS
<1>1. Ends("failed") /\ UNCHANGED <<setup, sent, offered, relay, wire, inbox>>
  BY DEF LocalFailure, Broken
<1>2. inbox' \in Seq(Octet)
  BY <1>1, TypeParts DEF IInv
<1> QED
  BY <1>1, <1>2, FailedStep
-------------------------------------------------------------------------------
(* Theorems about the handshake *)

LEMMA InitIInv == Init => IInv
<1> SUFFICES ASSUME Init PROVE IInv
  OBVIOUS
<1>1. /\ client = [pc |-> "connect", awaited |-> 0, atyp |-> 0]
      /\ sent = {} /\ offered = {} /\ relay = {}
      /\ server.pc = "greeting" /\ transit = << >> /\ inbox = << >>
  BY DEF Init
<1>2. TypeOK
  <2>1. setup \in SetupType /\ client \in ClientType
    BY DEF Init, SetupType, ClientType, Pcs, Byte
  <2>2. server \in ServerType
    BY RepliesOK DEF Init, ServerType
  <2>3. Cardinality({}) = 0
    BY FS_EmptySet
  <2> QED
    BY <1>1, <2>1, <2>2, <2>3, EmptySeq, TypeParts
<1>3. Unread = << >>
  BY <1>1 DEF Unread
<1> QED
  BY <1>1, <1>2, <1>3, Places
  DEF IInv, MethodKept, RelayChosen, ConnectInTurn, MethodInTurn, StatusInTurn,
      HeaderInTurn, LengthInTurn, HostInTurn, DataInTurn, AfterReply

LEMMA StutterKeeps == IInv /\ UNCHANGED vars => IInv'
<1> SUFFICES ASSUME IInv, UNCHANGED vars PROVE IInv'
  OBVIOUS
<1>1. /\ UNCHANGED <<setup, client, sent, offered, relay, server, transit, inbox>>
      /\ Unread' = Unread
  BY DEF vars, wire, Unread
<1>2. TypeOK'
  BY <1>1, TypeParts, TypePartsNext DEF IInv
<1> QED
  BY <1>1, <1>2, SameTurn DEF IInv

LEMMA NextIInv == IInv /\ [Next]_vars => IInv'
<1> SUFFICES ASSUME IInv, [Next]_vars PROVE IInv'
  OBVIOUS
<1>1. CASE Connect \/ ConnectFails
  BY <1>1, EstablishStep
<1>2. CASE ReadMethod \/ ReadStatus
  BY <1>2, ReadMethodStep, ReadStatusStep
<1>3. CASE ReadHeader \/ ReadLength \/ ReadHost
  BY <1>3, ReadHeaderStep, ReadLengthStep, ReadHostStep
<1>4. CASE \E addr \in ReplyAddrs : Resolve(addr)
  BY <1>4, ResolveStep
<1>5. CASE Bind \/ LocalFailure \/ Broken
  BY <1>5, BindStep, FailureStep
<1>6. CASE \E version \in {4, 5} : \E method \in {0, 1, 2, 255} :
             ServerMethod(version, method)
  BY <1>6, MethodStep
<1>7. CASE \E version \in {1, 5} : \E status \in {0, 1} : ServerStatus(version, status)
  BY <1>7, StatusStep
<1>8. CASE \E version \in {4, 5} : \E code \in {0, 5} : \E field \in Fields :
             ServerReply(version, code, field)
  BY <1>8, ReplyStep
<1>9. CASE ServerData \/ (\E cut \in BOOLEAN : ServerCloses(cut)) \/ Deliver
  BY <1>9, DataStep, ClosesStep, DeliverStep
<1>10. CASE UNCHANGED vars
  BY <1>10, StutterKeeps
<1> QED
  BY <1>1, <1>2, <1>3, <1>4, <1>5, <1>6, <1>7, <1>8, <1>9, <1>10 DEF Next

LEMMA Invariance == Spec => []IInv
BY InitIInv, NextIInv, PTL DEF Spec

\* Every state of a session has the types and the lengths that are declared; the
\* awaited octets and the address of the reply among them.
THEOREM TypeCorrect == Spec => []TypeOK
<1>1. IInv => TypeOK
  BY DEF IInv
<1> QED
  BY <1>1, Invariance, PTL

\* A session that is used was granted and, if the server asked for credentials,
\* authenticated; credentials go only to a server that asks.
THEOREM SessionCorrect == Spec => []SessionAgreed
<1>1. IInv => SessionAgreed
  BY DEF IInv, DataInTurn, Granted, Agreed, MethodKept, SessionAgreed
<1> QED
  BY <1>1, Invariance, PTL

\* Client and server agree on where messages end, for every length of addresses
\* and domain names.
THEOREM StreamCorrect == Spec => []StreamAligned
<1>1. IInv => StreamAligned
  <2> SUFFICES ASSUME IInv, Unread # << >>
               PROVE  /\ client.pc \in DOMAIN Reading =>
                           Unread[1].of = Reading[client.pc]
                      /\ client.pc \in AfterReply => Unread[1].of = "data"
    BY DEF StreamAligned, Unread
  <2>1. TypeOK /\ Unread \in Seq(Octet)
    BY UnreadType DEF IInv
  <2>2. Len(Unread) \in Nat \ {0}
    BY <2>1, EmptySeq
  <2>3. ASSUME NEW n \in Nat, NEW kind, Holds(n, kind)
        PROVE  Unread[1].of = IF 1 <= n THEN kind ELSE "data"
    BY <2>1, <2>2, <2>3, LenProperties DEF Holds
  <2>4. ~ Unanswered
    BY DEF Unanswered
  <2>5. ASSUME client.pc = "method" PROVE Unread[1].of = "method"
    BY <2>3, <2>4, <2>5 DEF IInv, MethodInTurn
  <2>6. ASSUME client.pc = "verify" PROVE Unread[1].of = "status"
    BY <2>3, <2>4, <2>6 DEF IInv, StatusInTurn
  <2>7. ASSUME client.pc = "header" PROVE Unread[1].of = "reply"
    <3>1. /\ Len(Unread) >= IF Unread[4].byte = ATYP_DOMAIN THEN 5 ELSE 4
          /\ Holds(3 + FieldLength(4), "reply")
      BY <2>4, <2>7 DEF IInv, HeaderInTurn
    <3>2. FieldLength(4) \in Nat
      BY <2>1, <2>2, <3>1, FieldLengthType
    <3> QED
      BY <2>3, <3>1, <3>2
  <2>8. ASSUME client.pc = "length" PROVE Unread[1].of = "reply"
    <3>1. Holds(Unread[1].byte + 3, "reply")
      BY <2>8 DEF IInv, LengthInTurn
    <3>2. Unread[1].byte \in Byte
      BY <2>1, <2>2, UnreadType
    <3>3. Unread[1].byte + 3 \in Nat /\ 1 <= Unread[1].byte + 3
      BY <3>2, ByteIsNat
    <3> QED
      BY <2>3, <3>1, <3>3
  <2>9. ASSUME client.pc = "host" PROVE Unread[1].of = "reply"
    <3>1. Holds(client.awaited, "reply") /\ client.awaited >= 2
          /\ client.awaited \in Nat
      BY <2>1, <2>9, TypeParts DEF IInv, HostInTurn, ClientType
    <3> QED
      BY <2>3, <3>1
  <2>10. ASSUME client.pc \in AfterReply PROVE Unread[1].of = "data"
    <3>1. Holds(0, "reply")
      BY <2>10 DEF IInv, DataInTurn
    <3> QED
      BY <2>3, <3>1
  <2>11. client.pc \in DOMAIN Reading => Unread[1].of = Reading[client.pc]
    BY <2>5, <2>6, <2>7, <2>8, <2>9, Places DEF Reading
  <2> QED
    BY <2>10, <2>11
<1> QED
  BY <1>1, Invariance, PTL

\* When the server leaves the address unspecified, the relay is on the server's
\* host, unless an IPv4 relay is asked of a proxy that has no IPv4 address.
THEOREM RelayCorrect == Spec => []RelayOnHostOfFamily
<1>1. IInv => RelayOnHostOfFamily
  <2> SUFFICES ASSUME IInv, NEW a \in offered, NEW r \in relay, Unspecified(a.ip),
                      IsV4(a.ip) => ProxyHasV4
               PROVE  OnProxyHost(r.ip)
    BY DEF RelayOnHostOfFamily
  <2> DEFINE proxy == setup.proxy_ip
  <2>1. a \in SocketAddr /\ proxy \in Ips
    BY TypeParts, RepliesOK DEF IInv, SetupType
  <2>2. r = NormalizeUdpRelay(a, proxy)
    BY DEF IInv, RelayChosen
  <2>3. \A x : [a EXCEPT !.ip = x].ip = x
    BY <2>1 DEF SocketAddr
  <2>4. CASE IsV4(a.ip) /\ IsV4(proxy)
    <3>1. r.ip = proxy
      BY <2>2, <2>3, <2>4 DEF NormalizeUdpRelay
    <3> QED
      BY <3>1 DEF OnProxyHost
  <2>5. CASE IsV4(a.ip) /\ ~ IsV4(proxy)
    <3>1. PICK v4 \in ToIpv4(proxy) : proxy = ToIpv6Mapped(v4)
      BY <2>5 DEF ProxyHasV4
    <3>2. v4 \in Ips /\ IsV4(v4)
      BY <2>1, <2>5, <3>1, ToIpv4Type
    <3>3. v4 \in Seq(Byte)
      BY <3>2 DEF Ips
    <3>4. ToIpv4(proxy) = {v4}
      BY <3>1, <3>2, <3>3, ToIpv4OfMapped
    <3>5. r.ip = v4
      BY <2>2, <2>3, <2>5, <3>4 DEF NormalizeUdpRelay
    <3> QED
      BY <3>1, <3>2, <3>5 DEF OnProxyHost
  <2>6. CASE ~ IsV4(a.ip)
    <3>1. r.ip = IF IsV4(proxy) THEN ToIpv6Mapped(proxy) ELSE proxy
      BY <2>2, <2>3, <2>6 DEF NormalizeUdpRelay
    <3> QED
      BY <3>1 DEF OnProxyHost
  <2> QED
    BY <2>4, <2>5, <2>6
<1> QED
  BY <1>1, Invariance, PTL

\* While the server keeps the connection, the octets that the client lacks are of
\* an answer the server has not begun, or all of them of the rest it withholds:
\* the client never waits past the end of an answer.
THEOREM NothingPastAnswer == Spec => []NeverStarved
<1>1. IInv => NeverStarved
  <2> SUFFICES ASSUME IInv, client.pc \in DOMAIN Reading, server.pc # "closed",
                      ~ Silent, Len(inbox) < client.awaited
               PROVE  client.awaited - Len(inbox) \in 1 .. Len(transit)
    BY DEF NeverStarved, Starving
  <2>1. TypeOK /\ Len(Unread) = Len(inbox) + Len(transit) /\ Len(Unread) \in Nat
    BY UnreadType DEF IInv
  <2>2. ~ Unanswered
    BY DEF Silent, Unanswered
  <2>3. Len(inbox) + Len(transit) >= client.awaited
    <3>1. CASE client.pc \in {"method", "verify"}
      BY <2>1, <2>2, <3>1 DEF IInv, MethodInTurn, StatusInTurn
    <3>2. CASE client.pc = "header"
      <4>1. client.awaited = 4
            /\ Len(Unread) >= IF Unread[4].byte = ATYP_DOMAIN THEN 5 ELSE 4
        BY <2>2, <3>2 DEF IInv, HeaderInTurn
      <4> QED
        BY <2>1, <4>1
    <3>3. CASE client.pc = "length"
      BY <2>1, <3>3 DEF IInv, LengthInTurn
    <3>4. CASE client.pc = "host"
      BY <2>1, <3>4 DEF IInv, HostInTurn, Holds
    <3> QED
      BY <3>1, <3>2, <3>3, <3>4, Places
  <2>4. Len(inbox) \in Nat /\ Len(transit) \in Nat /\ client.awaited \in Nat
    BY <2>1, TypeParts, LenProperties DEF ClientType
  <2> QED
    BY <2>3, <2>4
<1> QED
  BY <1>1, Invariance, PTL
-------------------------------------------------------------------------------
(* Datagrams *)

LEMMA OctetsShape ==
  ASSUME NEW d \in Seq(Byte), NEW at \in Nat, NEW len \in Nat, at + len <= Len(d)
  PROVE  /\ Octets(d, at, len) \in Seq(Byte) /\ Len(Octets(d, at, len)) = len
         /\ \A i \in 1 .. len : Octets(d, at, len)[i] = d[at + i]
<1>1. Len(d) \in Nat
  BY LenProperties
<1>2. \A i \in 1 .. len : at + i \in 1 .. Len(d)
  BY <1>1
<1>3. \A i \in 1 .. len : at + i <= Len(d) /\ d[at + i] \in Byte
  BY <1>1, <1>2, ElementOfSeq
<1>4. Octets(d, at, len) = [i \in 1 .. len |-> d[at + i]]
  BY <1>3 DEF Octets
<1>5. Octets(d, at, len) \in [1 .. len -> Byte]
  BY <1>3, <1>4
<1>6. \A i \in 1 .. len : Octets(d, at, len)[i] = d[at + i]
  BY <1>4
<1> QED
  BY <1>5, <1>6, FunctionIsSeq

LEMMA IsConcatThree ==
  ASSUME NEW S, NEW d \in Seq(S), NEW s \in Seq(S), NEW t \in Seq(S), NEW u \in Seq(S)
  PROVE  /\ Len(d) = Len(s) + Len(t) + Len(u)
         /\ \A i \in 1 .. Len(s) : d[i] = s[i]
         /\ \A i \in 1 .. Len(t) : d[Len(s) + i] = t[i]
         /\ \A i \in 1 .. Len(u) : d[Len(s) + Len(t) + i] = u[i]
         => d = s \o t \o u
<1> DEFINE all == s \o t \o u
<1>1. /\ all \in Seq(S) /\ Len(s) \in Nat /\ Len(t) \in Nat /\ Len(u) \in Nat
      /\ Len(all) = Len(s) + Len(t) + Len(u)
      /\ \A i \in 1 .. Len(s) : all[i] = s[i]
      /\ \A i \in 1 .. Len(t) : all[Len(s) + i] = t[i]
      /\ \A i \in 1 .. Len(u) : all[Len(s) + Len(t) + i] = u[i]
  BY ConcatThree
<1> HIDE DEF all
<1> SUFFICES ASSUME Len(d) = Len(s) + Len(t) + Len(u),
                    \A i \in 1 .. Len(s) : d[i] = s[i],
                    \A i \in 1 .. Len(t) : d[Len(s) + i] = t[i],
                    \A i \in 1 .. Len(u) : d[Len(s) + Len(t) + i] = u[i]
             PROVE  d = all
  BY DEF all
<1>2. ASSUME NEW i \in 1 .. Len(d) PROVE d[i] = all[i]
  <2>1. CASE i <= Len(s)
    BY <1>1, <2>1
  <2>2. CASE i > Len(s) /\ i <= Len(s) + Len(t)
    <3>1. i - Len(s) \in 1 .. Len(t) /\ Len(s) + (i - Len(s)) = i
      BY <1>1, <2>2
    <3> QED
      BY <1>1, <3>1
  <2>3. CASE i > Len(s) + Len(t)
    <3>1. i - Len(s) - Len(t) \in 1 .. Len(u)
          /\ Len(s) + Len(t) + (i - Len(s) - Len(t)) = i
      BY <1>1, <2>3
    <3> QED
      BY <1>1, <3>1
  <2> QED
    BY <1>1, <2>1, <2>2, <2>3
<1> QED
  BY <1>1, <1>2, SeqEqual

\* A datagram is its header and what follows it.
LEMMA HeaderAndPayload ==
  ASSUME NEW d \in Seq(Byte), NEW field \in Seq(Byte),
         3 + Len(field) <= Len(d), Octets(d, 0, 3) = <<0, 0, 0>>,
         \A i \in 1 .. Len(field) : field[i] = d[3 + i]
  PROVE  d = <<0, 0, 0>> \o field \o Payload(d, 3 + Len(field))
<1> DEFINE zeros == <<0, 0, 0>>
           n == 3 + Len(field)
           len == Len(d) - n
           rest == Payload(d, n)
<1>1. /\ Len(d) \in Nat /\ Len(field) \in Nat
      /\ n \in Nat /\ len \in Nat /\ n + len <= Len(d) /\ Len(d) = n + len
  BY LenProperties
<1>2. zeros \in Seq(Byte) /\ Len(zeros) = 3
  BY DEF Byte
<1>3. \A i \in 1 .. 3 : d[i] = zeros[i]
  <2>1. 0 + 3 <= Len(d) /\ 0 \in Nat /\ 3 \in Nat
    BY <1>1
  <2>2. \A i \in 1 .. 3 : Octets(d, 0, 3)[i] = d[0 + i]
    BY <2>1, OctetsShape
  <2> QED
    BY <2>2
<1>4. rest \in Seq(Byte) /\ Len(rest) = len /\ \A i \in 1 .. len : d[n + i] = rest[i]
  <2>1. rest = Octets(d, n, len)
    BY DEF Payload
  <2> HIDE DEF n, len, rest
  <2>2. /\ Octets(d, n, len) \in Seq(Byte) /\ Len(Octets(d, n, len)) = len
        /\ \A i \in 1 .. len : Octets(d, n, len)[i] = d[n + i]
    BY <1>1, OctetsShape
  <2> QED
    BY <2>1, <2>2
<1>5. Len(zeros) + Len(field) = n
  BY <1>2
<1> HIDE DEF zeros, rest, n, len
<1>6. /\ Len(d) = Len(zeros) + Len(field) + Len(rest)
      /\ \A i \in 1 .. Len(zeros) : d[i] = zeros[i]
      /\ \A i \in 1 .. Len(field) : d[Len(zeros) + i] = field[i]
      /\ \A i \in 1 .. Len(rest) : d[Len(zeros) + Len(field) + i] = rest[i]
  BY <1>1, <1>2, <1>3, <1>4, <1>5
<1>7. d = zeros \o field \o rest
  BY <1>2, <1>4, <1>6, IsConcatThree
<1> QED
  BY <1>7 DEF zeros, rest, n

\* Datagrams are octets.
LEMMA DatagramType == DatagramSpec => [](datagram \in Seq(Byte))
<1>1. DatagramInit => datagram \in Seq(Byte)
  BY EmptySeq DEF DatagramInit
<1>2. datagram \in Seq(Byte) /\ [DatagramNext]_datagram
        => (datagram \in Seq(Byte))'
  <2> SUFFICES ASSUME datagram \in Seq(Byte), NEW b \in Alphabet, Grow(b)
               PROVE  datagram' \in Seq(Byte)
    BY DEF DatagramNext
  <2>1. b \in Byte
    BY DatagramsOK
  <2> QED
    BY <2>1, AppendProperties DEF Grow
<1> QED
  BY <1>1, <1>2, PTL DEF DatagramSpec


\* parse_udp_response reports a header that is there completely.
LEMMA HeaderParsed ==
  ASSUME NEW d \in Seq(Byte), NEW r \in ParseUdpResponse(d)
  PROVE  LET field == IF r.atyp = ATYP_DOMAIN THEN EncodeDomain(r.host, r.port)
                      ELSE EncodeAddr([ip |-> r.host, port |-> r.port])
         IN  /\ field \in Seq(Byte) /\ Len(r.port) = 2 /\ Octets(d, 0, 3) = <<0, 0, 0>>
             /\ r.offset = 3 + Len(field) /\ r.offset <= Len(d)
             /\ \A i \in 1 .. Len(field) : field[i] = d[3 + i]
<1> USE DEF ATYP_V4, ATYP_DOMAIN, ATYP_V6
<1>1. Len(d) >= 4 /\ Octets(d, 0, 3) = <<0, 0, 0>> /\ Len(d) \in Nat
  BY LenProperties DEF ParseUdpResponse
<1>2. PICK h \in HostsPresent(d) :
        r = [atyp |-> h.atyp, host |-> Octets(d, h.at, h.len),
             port |-> Octets(d, h.at + h.len, 2), offset |-> h.at + h.len + 2]
  BY <1>1 DEF ParseUdpResponse
<1>3. h \in Hosts(d) /\ h.atyp = d[4] /\ h.at + h.len + 2 <= Len(d)
  BY DEF HostsPresent
<1> DEFINE at == h.at
           n == h.len
           host == Octets(d, at, n)
           port == Octets(d, at + n, 2)
           field == IF h.atyp = ATYP_DOMAIN THEN EncodeDomain(host, port)
                    ELSE EncodeAddr([ip |-> host, port |-> port])
<1>4. \/ h.atyp = ATYP_V4 /\ at = 4 /\ n = V4_LEN
      \/ h.atyp = ATYP_V6 /\ at = 4 /\ n = V6_LEN
      \/ h.atyp = ATYP_DOMAIN /\ at = 5 /\ n = d[5] /\ Len(d) >= 5
  BY <1>1, <1>3 DEF Hosts
<1>5. Len(d) >= 5 => d[5] \in Byte
  <2>1. Len(d) >= 5 => 5 \in 1 .. Len(d)
    BY <1>1
  <2> QED
    BY <2>1, ElementOfSeq
<1>6. at \in Nat /\ n \in Nat /\ at + n \in Nat /\ (at = 5 => n <= 255)
  <2>1. CASE at = 4 /\ n \in {V4_LEN, V6_LEN}
    BY <2>1, LengthsOK
  <2>2. CASE at = 5 /\ n \in Byte
    <3>1. \A b \in Byte : b \in Nat /\ b <= 255
      BY DEF Byte
    <3> QED
      BY <2>2, <3>1
  <2> QED
    BY <1>4, <1>5, <2>1, <2>2
<1>7. at + n + 2 <= Len(d) /\ at + n <= Len(d)
  BY <1>1, <1>3, <1>6
<1>8. /\ host \in Seq(Byte) /\ Len(host) = n
      /\ \A i \in 1 .. n : host[i] = d[at + i]
  <2> HIDE DEF at, n
  <2> QED
    BY <1>6, <1>7, OctetsShape
<1>9. /\ port \in Seq(Byte) /\ Len(port) = 2
      /\ \A i \in 1 .. 2 : port[i] = d[at + n + i]
  <2> DEFINE m == at + n
  <2>1. m \in Nat /\ m + 2 <= Len(d) /\ 2 \in Nat
    BY <1>6, <1>7
  <2> HIDE DEF m
  <2>2. /\ Octets(d, m, 2) \in Seq(Byte) /\ Len(Octets(d, m, 2)) = 2
        /\ \A i \in 1 .. 2 : Octets(d, m, 2)[i] = d[m + i]
    BY <2>1, OctetsShape
  <2> QED
    BY <2>2 DEF m
<1>10. r.atyp = h.atyp /\ r.host = host /\ r.port = port /\ r.offset = at + n + 2
  BY <1>2
<1>11. h.atyp = d[4]
  BY <1>3
<1> HIDE DEF host, port, at, n
<1>12. /\ field \in Seq(Byte) /\ at + n + 2 = 3 + Len(field)
       /\ \A i \in 1 .. Len(field) : field[i] = d[3 + i]
  <2>1. CASE h.atyp \in {ATYP_V4, ATYP_V6}
    <3> DEFINE a == [ip |-> host, port |-> port]
               len == IF IsV4(host) THEN V4_LEN ELSE V6_LEN
               enc == EncodeAddr(a)
    <3>1. /\ at = 4 /\ n = len
          /\ h.atyp = IF IsV4(host) THEN ATYP_V4 ELSE ATYP_V6
      BY <1>4, <1>8, <2>1, LengthsOK DEF IsV4
    <3>2. a \in SocketAddr
      BY <1>4, <1>8, <1>9, <2>1 DEF SocketAddr, Ips, Ports
    <3>3. a.ip = host /\ a.port = port
      OBVIOUS
    <3>4. field = enc
      BY <2>1
    <3> HIDE DEF a, enc
    <3>5. /\ EncodeAddr(a) \in Seq(Byte) /\ Len(EncodeAddr(a)) = len + 3 /\ len \in Nat
          /\ EncodeAddr(a)[1] = IF IsV4(host) THEN ATYP_V4 ELSE ATYP_V6
          /\ \A i \in 1 .. len : EncodeAddr(a)[1 + i] = host[i]
          /\ \A i \in 1 .. 2 : EncodeAddr(a)[1 + len + i] = port[i]
      BY <3>2, <3>3, EncodeAddrShape
    <3> HIDE DEF len
    <3>6. /\ enc \in Seq(Byte) /\ Len(enc) = n + 3 /\ enc[1] = h.atyp
          /\ \A i \in 1 .. n : enc[1 + i] = host[i]
          /\ \A i \in 1 .. 2 : enc[1 + n + i] = port[i]
      BY <3>1, <3>5 DEF enc
    <3>7. ASSUME NEW i \in 1 .. n + 3 PROVE enc[i] = d[3 + i]
      <4>1. CASE i = 1
        BY <1>11, <3>6, <4>1
      <4>2. CASE i > 1 /\ i <= n + 1
        <5>1. i - 1 \in 1 .. n /\ 1 + (i - 1) = i /\ at + (i - 1) = 3 + i
          BY <1>6, <3>1, <4>2
        <5> QED
          BY <1>8, <3>6, <5>1
      <4>3. CASE i > n + 1
        <5>1. i - n - 1 \in 1 .. 2 /\ 1 + n + (i - n - 1) = i
              /\ at + n + (i - n - 1) = 3 + i
          BY <1>6, <3>1, <4>3
        <5> QED
          BY <1>9, <3>6, <5>1
      <4> QED
        BY <1>6, <4>1, <4>2, <4>3
    <3>8. enc \in Seq(Byte) /\ Len(enc) = n + 3 /\ at + n + 2 = 3 + (n + 3)
      BY <1>6, <3>1, <3>6
    <3> QED
      BY <3>4, <3>7, <3>8
  <2>2. CASE h.atyp = ATYP_DOMAIN
    <3> DEFINE enc == EncodeDomain(host, port)
    <3>1. at = 5 /\ n = d[5] /\ n <= 255 /\ Len(host) <= 255 /\ port \in Ports
      BY <1>4, <1>6, <1>8, <1>9, <2>2 DEF Ports
    <3>2. /\ EncodeDomain(host, port) \in Seq(Byte)
          /\ Len(EncodeDomain(host, port)) = Len(host) + 4
          /\ EncodeDomain(host, port)[1] = ATYP_DOMAIN
          /\ EncodeDomain(host, port)[2] = Len(host)
          /\ \A i \in 1 .. Len(host) : EncodeDomain(host, port)[2 + i] = host[i]
          /\ \A i \in 1 .. 2 : EncodeDomain(host, port)[2 + Len(host) + i] = port[i]
      BY <1>8, <3>1, EncodeDomainShape
    <3>3. field = enc
      BY <2>2
    <3> HIDE DEF enc
    <3>4. /\ enc \in Seq(Byte) /\ Len(enc) = n + 4 /\ enc[1] = h.atyp /\ enc[2] = n
          /\ \A i \in 1 .. n : enc[2 + i] = host[i]
          /\ \A i \in 1 .. 2 : enc[2 + n + i] = port[i]
      BY <1>8, <2>2, <3>2 DEF enc
    <3>5. ASSUME NEW i \in 1 .. n + 4 PROVE enc[i] = d[3 + i]
      <4>1. CASE i = 1
        BY <1>11, <3>4, <4>1
      <4>2. CASE i = 2
        BY <3>1, <3>4, <4>2
      <4>3. CASE i > 2 /\ i <= n + 2
        <5>1. i - 2 \in 1 .. n /\ 2 + (i - 2) = i /\ at + (i - 2) = 3 + i
          BY <1>6, <3>1, <4>3
        <5> QED
          BY <1>8, <3>4, <5>1
      <4>4. CASE i > n + 2
        <5>1. i - n - 2 \in 1 .. 2 /\ 2 + n + (i - n - 2) = i
              /\ at + n + (i - n - 2) = 3 + i
          <6>1. at = 5 /\ n \in Nat
            BY <1>6, <3>1
          <6> QED
            BY <4>4, <6>1
        <5> QED
          BY <1>9, <3>4, <5>1
      <4> QED
        BY <1>6, <4>1, <4>2, <4>3, <4>4
    <3>6. enc \in Seq(Byte) /\ Len(enc) = n + 4 /\ at + n + 2 = 3 + (n + 4)
      BY <1>6, <3>1, <3>4
    <3> QED
      BY <3>3, <3>5, <3>6
  <2> QED
    BY <1>4, <2>1, <2>2
<1> HIDE DEF field
<1>13. field = IF r.atyp = ATYP_DOMAIN THEN EncodeDomain(r.host, r.port)
               ELSE EncodeAddr([ip |-> r.host, port |-> r.port])
  BY <1>10 DEF field
<1> QED
  BY <1>1, <1>7, <1>9, <1>10, <1>12, <1>13

\* Whatever the relay delivers, parse_udp_response accepts it only as a header that
\* it reports completely, followed by the payload.
THEOREM ParserSoundness == DatagramSpec => []ParserSound
<1>1. datagram \in Seq(Byte) => ParserSound
  <2> SUFFICES ASSUME datagram \in Seq(Byte), NEW r \in ParseUdpResponse(datagram)
               PROVE  LET field == IF r.atyp = ATYP_DOMAIN
                                   THEN EncodeDomain(r.host, r.port)
                                   ELSE EncodeAddr([ip |-> r.host, port |-> r.port])
                      IN  /\ datagram = <<0, 0, 0>> \o field
                                          \o Payload(datagram, r.offset)
                          /\ Len(r.port) = 2
    BY DEF ParserSound
  <2> DEFINE field == IF r.atyp = ATYP_DOMAIN THEN EncodeDomain(r.host, r.port)
                      ELSE EncodeAddr([ip |-> r.host, port |-> r.port])
  <2>1. /\ field \in Seq(Byte) /\ Len(r.port) = 2
        /\ Octets(datagram, 0, 3) = <<0, 0, 0>>
        /\ r.offset = 3 + Len(field) /\ r.offset <= Len(datagram)
        /\ \A i \in 1 .. Len(field) : field[i] = datagram[3 + i]
    BY HeaderParsed
  <2> HIDE DEF field
  <2>2. 3 + Len(field) <= Len(datagram)
    BY <2>1
  <2>3. datagram = <<0, 0, 0>> \o field \o Payload(datagram, 3 + Len(field))
    BY <2>1, <2>2, HeaderAndPayload
  <2> QED
    BY <2>1, <2>3 DEF field
<1> QED
  BY <1>1, DatagramType, PTL

\* The parser undoes BuildUdpRequest.
LEMMA BuiltIsParsed ==
  ASSUME NEW a \in SocketAddr, NEW payload \in Seq(Byte)
  PROVE  LET built == BuildUdpRequest(a, payload)
         IN  \E r \in ParseUdpResponse(built) :
               r.host = a.ip /\ r.port = a.port /\ Payload(built, r.offset) = payload
<1> USE DEF ATYP_V4, ATYP_DOMAIN, ATYP_V6
<1> DEFINE zeros == <<0, 0, 0>>
           field == EncodeAddr(a)
           built == BuildUdpRequest(a, payload)
           n == IF IsV4(a.ip) THEN V4_LEN ELSE V6_LEN
           atyp == IF IsV4(a.ip) THEN ATYP_V4 ELSE ATYP_V6
           k == 3 + n + 3
           h == [atyp |-> atyp, at |-> 4, len |-> n]
<1>1. /\ EncodeAddr(a) \in Seq(Byte) /\ Len(EncodeAddr(a)) = n + 3 /\ n \in Nat
      /\ Len(a.ip) = n /\ Len(a.port) = 2 /\ EncodeAddr(a)[1] = atyp
      /\ \A i \in 1 .. n : EncodeAddr(a)[1 + i] = a.ip[i]
      /\ \A i \in 1 .. 2 : EncodeAddr(a)[1 + n + i] = a.port[i]
  BY EncodeAddrShape
<1>2. /\ zeros \in Seq(Byte) /\ Len(zeros) = 3
      /\ zeros[1] = 0 /\ zeros[2] = 0 /\ zeros[3] = 0
  BY DEF Byte
<1>3. built = zeros \o field \o payload
  BY DEF BuildUdpRequest
<1>4. a.ip \in Seq(Byte) /\ a.port \in Seq(Byte)
  BY DEF SocketAddr, Ips, Ports
<1>5. h \in Hosts(built) /\ h.atyp = atyp /\ h.at = 4 /\ h.len = n
  BY DEF Hosts
<1> HIDE DEF zeros, built, n, atyp, h
<1>6. /\ field \in Seq(Byte) /\ Len(field) = n + 3 /\ n \in Nat
      /\ field[1] = atyp
      /\ \A i \in 1 .. n : field[1 + i] = a.ip[i]
      /\ \A i \in 1 .. 2 : field[1 + n + i] = a.port[i]
  BY <1>1
<1> HIDE DEF field
<1>7. zeros \in Seq(Byte) /\ field \in Seq(Byte) /\ payload \in Seq(Byte)
  BY <1>2, <1>6
<1> DEFINE all == zeros \o field \o payload
<1>8. /\ all \in Seq(Byte) /\ Len(payload) \in Nat
      /\ Len(all) = Len(zeros) + Len(field) + Len(payload)
      /\ \A i \in 1 .. Len(zeros) : all[i] = zeros[i]
      /\ \A i \in 1 .. Len(field) : all[Len(zeros) + i] = field[i]
      /\ \A i \in 1 .. Len(payload) : all[Len(zeros) + Len(field) + i] = payload[i]
  BY <1>7, ConcatThree
<1> HIDE DEF all
<1>9. built = all
  BY <1>3 DEF all
<1>10. /\ built \in Seq(Byte) /\ Len(built) = k + Len(payload)
       /\ k \in Nat /\ Len(built) \in Nat /\ Len(built) >= 6
       /\ Len(built) - k = Len(payload)
  BY <1>2, <1>6, <1>8, <1>9
<1>11. \A i \in 1 .. 3 : built[i] = 0
  BY <1>2, <1>8, <1>9
<1>12. \A i \in 1 .. n + 3 : built[3 + i] = field[i]
  BY <1>2, <1>6, <1>8, <1>9
<1>13. \A i \in 1 .. Len(payload) : built[k + i] = payload[i]
  <2>1. Len(zeros) + Len(field) = k
    BY <1>2, <1>6
  <2> QED
    BY <1>8, <1>9, <2>1
<1>14. Octets(built, 0, 3) = <<0, 0, 0>>
  <2>1. 0 + 3 <= Len(built) /\ 0 \in Nat /\ 3 \in Nat
    BY <1>10
  <2>2. /\ Octets(built, 0, 3) \in Seq(Byte) /\ Len(Octets(built, 0, 3)) = 3
        /\ \A i \in 1 .. 3 : Octets(built, 0, 3)[i] = built[0 + i]
    BY <1>10, <2>1, OctetsShape
  <2>3. \A i \in 1 .. 3 : Octets(built, 0, 3)[i] = zeros[i]
    BY <1>2, <1>11, <2>2
  <2>4. Octets(built, 0, 3) = zeros
    BY <1>2, <2>2, <2>3, SeqEqual
  <2> QED
    BY <2>4 DEF zeros
<1>15. built[4] = atyp
  <2>1. 1 \in 1 .. n + 3 /\ 3 + 1 = 4
    BY <1>6
  <2> QED
    BY <1>6, <1>12, <2>1
<1>16. h \in HostsPresent(built)
  <2>1. 4 + n + 2 <= Len(built)
    BY <1>6, <1>8, <1>10
  <2> QED
    BY <1>5, <1>15, <2>1 DEF HostsPresent
<1>17. Octets(built, 4, n) = a.ip
  <2>1. 4 + n <= Len(built) /\ 4 \in Nat
    BY <1>6, <1>8, <1>10
  <2>2. /\ Octets(built, 4, n) \in Seq(Byte) /\ Len(Octets(built, 4, n)) = n
        /\ \A i \in 1 .. n : Octets(built, 4, n)[i] = built[4 + i]
    BY <1>6, <1>10, <2>1, OctetsShape
  <2>3. ASSUME NEW i \in 1 .. n PROVE Octets(built, 4, n)[i] = a.ip[i]
    <3>1. 1 + i \in 1 .. n + 3 /\ 3 + (1 + i) = 4 + i
      BY <1>6
    <3> QED
      BY <1>6, <1>12, <2>2, <3>1
  <2> QED
    BY <1>1, <1>4, <2>2, <2>3, SeqEqual
<1>18. Octets(built, 4 + n, 2) = a.port
  <2> DEFINE m == 4 + n
  <2>1. m + 2 <= Len(built) /\ m \in Nat /\ 2 \in Nat
    BY <1>6, <1>8, <1>10
  <2> HIDE DEF m
  <2>2. /\ Octets(built, m, 2) \in Seq(Byte) /\ Len(Octets(built, m, 2)) = 2
        /\ \A i \in 1 .. 2 : Octets(built, m, 2)[i] = built[m + i]
    BY <1>10, <2>1, OctetsShape
  <2>3. ASSUME NEW i \in 1 .. 2 PROVE Octets(built, m, 2)[i] = a.port[i]
    <3>1. 1 + n + i \in 1 .. n + 3 /\ 3 + (1 + n + i) = m + i
      BY <1>6 DEF m
    <3> QED
      BY <1>6, <1>12, <2>2, <3>1
  <2>4. Len(Octets(built, m, 2)) = Len(a.port)
        /\ \A i \in 1 .. Len(Octets(built, m, 2)) : Octets(built, m, 2)[i] = a.port[i]
    BY <1>1, <2>2, <2>3
  <2>5. Octets(built, m, 2) = a.port
    BY <1>4, <2>2, <2>4, SeqEqual
  <2> QED
    BY <2>5 DEF m
<1>19. Payload(built, k) = payload
  <2> HIDE DEF k
  <2>1. k + Len(payload) <= Len(built)
    BY <1>8, <1>10
  <2>2. /\ Octets(built, k, Len(payload)) \in Seq(Byte)
        /\ Len(Octets(built, k, Len(payload))) = Len(payload)
        /\ \A i \in 1 .. Len(payload) :
             Octets(built, k, Len(payload))[i] = built[k + i]
    BY <1>8, <1>10, <2>1, OctetsShape
  <2>3. Octets(built, k, Len(payload)) = payload
    BY <1>13, <2>2, SeqEqual
  <2> QED
    BY <1>10, <2>3 DEF Payload
<1> DEFINE r == [atyp |-> h.atyp, host |-> Octets(built, h.at, h.len),
                 port |-> Octets(built, h.at + h.len, 2), offset |-> h.at + h.len + 2]
<1>20. r \in ParseUdpResponse(built)
  BY <1>10, <1>14, <1>16 DEF ParseUdpResponse
<1>21. r.host = a.ip /\ r.port = a.port
  BY <1>5, <1>17, <1>18
<1>22. r.offset = k
  BY <1>5, <1>6
<1> HIDE DEF r
<1>23. Payload(built, r.offset) = payload
  BY <1>19, <1>22
<1> QED
  BY <1>20, <1>21, <1>23 DEF built

\* What send_to writes, recv_datagram reads: the payload and the address, which
\* an address mapped for an IPv6 proxy does not lose.
THEOREM ParserCompleteness == DatagramSpec => []ParserComplete
<1>1. datagram \in Seq(Byte) => ParserComplete
  <2> SUFFICES ASSUME datagram \in Seq(Byte), NEW dst \in Destinations,
                      NEW prefer_mapped \in BOOLEAN
               PROVE  LET addr == MaybeMapIpv4(dst, prefer_mapped)
                          built == BuildUdpRequest(addr, datagram)
                      IN  \E r \in ParseUdpResponse(built) :
                            /\ [ip |-> r.host, port |-> r.port] = addr
                            /\ Payload(built, r.offset) = datagram
                            /\ addr.ip = dst.ip \/ ToIpv4(addr.ip) = {dst.ip}
    BY DEF ParserComplete
  <2> DEFINE addr == MaybeMapIpv4(dst, prefer_mapped)
             built == BuildUdpRequest(addr, datagram)
  <2>1. dst \in SocketAddr /\ dst.ip \in Seq(Byte)
    BY DatagramsOK DEF SocketAddr, Ips
  <2>2. addr \in SocketAddr /\ (addr.ip = dst.ip \/ ToIpv4(addr.ip) = {dst.ip})
    <3>1. CASE prefer_mapped /\ IsV4(dst.ip)
      <4>1. ToIpv6Mapped(dst.ip) \in Ips /\ ToIpv4(ToIpv6Mapped(dst.ip)) = {dst.ip}
        BY <2>1, <3>1, MappedType, ToIpv4OfMapped
      <4> QED
        BY <2>1, <3>1, <4>1 DEF MaybeMapIpv4, SocketAddr
    <3>2. CASE ~ (prefer_mapped /\ IsV4(dst.ip))
      BY <2>1, <3>2 DEF MaybeMapIpv4
    <3> QED
      BY <3>1, <3>2
  <2>3. addr = [ip |-> addr.ip, port |-> addr.port]
    BY <2>2 DEF SocketAddr
  <2> HIDE DEF addr
  <2>4. PICK r \in ParseUdpResponse(built) :
          r.host = addr.ip /\ r.port = addr.port /\ Payload(built, r.offset) = datagram
    BY <2>2, BuiltIsParsed
  <2>5. [ip |-> r.host, port |-> r.port] = addr
    BY <2>3, <2>4
  <2> QED
    BY <2>2, <2>4, <2>5 DEF addr
<1> QED
  BY <1>1, DatagramType, PTL
===============================================================================
