----------------------------- MODULE GridNetProofs -----------------------------
(***************************************************************************)
(* The inductive invariant of GridNet and the theorems that follow from    *)
(* it, for any number of ports, slots, commands and frames in the ring,    *)
(* and any sizes of the buffers.                                           *)
(***************************************************************************)
EXTENDS GridNet, FiniteSetTheorems, WellFoundedInduction, TLAPS

------------------------------------------------------------------------------
(***************************************************************************)
(* The invariant: types                                                    *)
(***************************************************************************)
Words == {"none", "head", "body", "half", "line", "ping", "error", "connected", "disconnected"}
Token == [k : Words, r : Nat, n : Nat]
Segments == {"synack", "rst", "data", "fin"}
FrameType == [kind : Segments \cup {"arp", "dns"}, port : Nat, seq : Nat, tok : Token]
ConnType == [port : 0 .. PortMax, est : BOOLEAN, closed : BOOLEAN, err : BOOLEAN,
             rx : Seq(Token), rxseq : Nat]
PeerType == [st : {"none", "syn", "acked", "open", "gone"}, sent : Seq(Token), fin : BOOLEAN]

NetTypes ==
    /\ ring \in Seq(FrameType)
    /\ gateway \in BOOLEAN /\ nested \in BOOLEAN
    /\ conn \in [Conns -> ConnType]
    /\ slots \in [1 .. TCP_MAX_CONNECTIONS -> Conns \cup {NoConn}]
    /\ port \in 0 .. PortMax
    /\ peer \in [Ports -> PeerType]
    /\ taken \in [Ports -> Seq(Token)]

------------------------------------------------------------------------------
(***************************************************************************)
(* The invariant: the connection table and the wire                        *)
(***************************************************************************)
\* Every connection has a port of its own, which no other has had.
PortsInv ==
    /\ \A c \in Conns : conn[c].port <= port /\ (conn[c].est => conn[c].port # 0)
    /\ \A c, d \in Conns : conn[c].port = conn[d].port /\ conn[c].port # 0 => c = d
    /\ \A p \in Ports : p > port => peer[p] = NoPeer /\ taken[p] = <<>>

\* Before the gateway is known nothing has left, so nothing is answered.
GatewayInv ==
    /\ ~nested
    /\ ~gateway => /\ \A p \in Ports : peer[p].st = "none"
                   /\ \A i \in DOMAIN ring : ring[i].kind = "arp"

\* A peer that has not been heard has sent nothing.
PeersInv ==
    \A p \in Ports :
        /\ peer[p].st \in {"none", "syn", "acked"} => peer[p].sent = <<>> /\ ~peer[p].fin
        /\ Len(taken[p]) <= Len(peer[p].sent)
        /\ \A i \in DOMAIN taken[p] : taken[p][i] = peer[p].sent[i]

\* The segments in the ring are segments of their peers, and a SYN-ACK is
\* ahead of the stream.
RingInv ==
    /\ \A i \in DOMAIN ring : ring[i].kind \in Segments => ring[i].port \in Ports
    /\ \A i \in DOMAIN ring : ring[i].kind \in {"data", "fin"} =>
            peer[ring[i].port].st \in {"open", "gone"}
    /\ \A i \in DOMAIN ring : ring[i].kind = "data" =>
            \E n \in DOMAIN peer[ring[i].port].sent :
                ring[i].seq = 2 * n - 1 /\ ring[i].tok = peer[ring[i].port].sent[n]
    /\ \A i \in DOMAIN ring : ring[i].kind = "fin" =>
            /\ peer[ring[i].port].st = "open" /\ peer[ring[i].port].fin
            /\ \A j \in DOMAIN ring : ring[j].kind = "fin" /\ ring[j].port = ring[i].port => i = j
    /\ \A i \in DOMAIN ring : ring[i].kind = "synack" =>
            /\ peer[ring[i].port].st \in {"acked", "open"} /\ taken[ring[i].port] = <<>>
            /\ \A j \in 1 .. i - 1 : ring[j].kind \in {"data", "fin"} => ring[j].port # ring[i].port

\* What a connection expects next, by how far its peer has come.
Expects(k, p) ==
    /\ peer[p].st \in {"syn", "acked"} => k.rxseq = 0
    /\ peer[p].st = "open" => k.rxseq = 2 * Len(taken[p]) + 1
    /\ peer[p].st = "gone" => k.rxseq = 2 * Len(taken[p]) + 2 \/ peer[p].sent = <<>>

ExpectsInv == \A c \in Conns : conn[c].port # 0 => Expects(conn[c], conn[c].port)

NetInv == NetTypes /\ PortsInv /\ GatewayInv /\ PeersInv /\ RingInv /\ ExpectsInv

------------------------------------------------------------------------------
(***************************************************************************)
(* Sequences and least elements                                            *)
(***************************************************************************)
LEMMA LowestFacts ==
    ASSUME NEW S \in SUBSET Nat, S # {}
    PROVE  LowestOf(S) \in S /\ \A j \in S : LowestOf(S) <= j
<1>1. PICK i \in S : \A j \in S : ~(<<j, i>> \in OpToRel(<, Nat))
  BY NatLessThanWellFounded, WFMin
<1>2. ASSUME NEW j \in S PROVE i <= j
  <2>1. i \in Nat /\ j \in Nat
    OBVIOUS
  <2>2. j < i => <<j, i>> \in OpToRel(<, Nat)
    BY <2>1 DEF OpToRel
  <2>3. ~(j < i)
    BY <1>1, <2>2
  <2> QED
    BY <2>1, <2>3
<1> QED
  BY <1>2 DEF LowestOf

LEMMA TailFacts ==
    ASSUME NEW T, NEW s \in Seq(T), s # <<>>
    PROVE  /\ Tail(s) \in Seq(T) /\ Head(s) = s[1] /\ Head(s) \in T
           /\ Len(s) >= 1 /\ Len(Tail(s)) = Len(s) - 1
           /\ \A i \in 1 .. Len(s) - 1 : Tail(s)[i] = s[i + 1]
           /\ DOMAIN Tail(s) = 1 .. Len(s) - 1 /\ DOMAIN s = 1 .. Len(s)
OBVIOUS

LEMMA AppendFacts ==
    ASSUME NEW T, NEW s \in Seq(T), NEW e \in T
    PROVE  /\ Append(s, e) \in Seq(T) /\ Len(Append(s, e)) = Len(s) + 1
           /\ \A i \in 1 .. Len(s) : Append(s, e)[i] = s[i]
           /\ Append(s, e)[Len(s) + 1] = e
           /\ DOMAIN Append(s, e) = 1 .. Len(s) + 1 /\ DOMAIN s = 1 .. Len(s)
OBVIOUS

LEMMA ConcatFacts ==
    ASSUME NEW T, NEW s \in Seq(T), NEW t \in Seq(T)
    PROVE  /\ s \o t \in Seq(T) /\ Len(s \o t) = Len(s) + Len(t)
           /\ \A i \in 1 .. Len(s) : (s \o t)[i] = s[i]
           /\ \A i \in Len(s) + 1 .. Len(s) + Len(t) : (s \o t)[i] = t[i - Len(s)]
           /\ DOMAIN (s \o t) = 1 .. Len(s) + Len(t) /\ DOMAIN s = 1 .. Len(s)
           /\ DOMAIN t = 1 .. Len(t)
OBVIOUS

LEMMA SubSeqFacts ==
    ASSUME NEW T, NEW s \in Seq(T), NEW m \in 1 .. Len(s) + 1, NEW n \in m - 1 .. Len(s)
    PROVE  /\ SubSeq(s, m, n) \in Seq(T) /\ Len(SubSeq(s, m, n)) = n - m + 1
           /\ \A i \in 1 .. n - m + 1 : SubSeq(s, m, n)[i] = s[m + i - 1]
           /\ DOMAIN SubSeq(s, m, n) = 1 .. n - m + 1 /\ DOMAIN s = 1 .. Len(s)
OBVIOUS
------------------------------------------------------------------------------
(***************************************************************************)
(* How a step changes the network                                          *)
(***************************************************************************)
Opens(c) == ring = <<>> /\ OpenConn(c)

Leaves(c) == ring = <<>> /\ Leave(c) /\ UNCHANGED <<ring, gateway, nested, conn, port>>

\* A client takes tokens from rx_buf, or gives up on the connection.
Edits(c) ==
    /\ \E k \in ConnType :
          /\ k.port = conn[c].port /\ k.est = conn[c].est /\ k.rxseq = conn[c].rxseq
          /\ conn' = [conn EXCEPT ![c] = k]
    /\ UNCHANGED <<ring, gateway, nested, slots, port, peer, taken>>

\* A peer has more to send.
Says(p, s) ==
    /\ peer[p].st = "open"
    /\ peer' = [peer EXCEPT ![p].sent = @ \o s]
    /\ UNCHANGED <<ring, gateway, nested, conn, slots, port, taken>>

\* Something other than a segment arrives.
Brings(f) ==
    /\ f.kind = "arp" \/ (f.kind = "dns" /\ gateway)
    /\ ring' = Append(ring, f)
    /\ UNCHANGED <<gateway, nested, conn, slots, port, peer, taken>>

Handles ==
    /\ ring # <<>> /\ ring' = Tail(ring)
    /\ \/ /\ Head(ring).kind = "arp" /\ gateway' = TRUE
          /\ UNCHANGED <<nested, conn, peer, taken>>
       \/ /\ Head(ring).kind = "dns"
          /\ UNCHANGED <<gateway, nested, conn, peer, taken>>
       \/ /\ Head(ring).kind \in Segments
          /\ tcp_input(Head(ring)) /\ UNCHANGED gateway
    /\ UNCHANGED <<slots, port>>

NetStep ==
    \/ UNCHANGED netVars
    \/ \E c \in Conns : Opens(c) \/ Leaves(c) \/ Edits(c)
    \/ \E p \in Ports : \E s \in Seq(Token) : Says(p, s)
    \/ \E f \in FrameType : Brings(f)
    \/ Wire
    \/ Handles

LEMMA PortFacts ==
    ASSUME NetTypes
    PROVE  /\ PortMax \in Nat /\ Ports = 1 .. PortMax
           /\ \A c \in Conns : conn[c] \in ConnType
           /\ \A c \in Conns : conn[c].port # 0 => conn[c].port \in Ports
           /\ \A p \in Ports : peer[p] \in PeerType /\ taken[p] \in Seq(Token)
           /\ \A i \in DOMAIN ring : ring[i] \in FrameType
           /\ Len(ring) \in Nat /\ DOMAIN ring = 1 .. Len(ring)
BY TcpAssumption DEF NetTypes, Ports, ConnType

LEMMA FreshFacts ==
    /\ NoPeer \in PeerType /\ NoPeer.sent = <<>> /\ NoPeer.fin = FALSE /\ NoPeer.st = "none"
    /\ Closed \in ConnType /\ Closed.est = FALSE /\ Closed.rxseq = 0 /\ Closed.rx = <<>>
<1>1. NoPeer \in PeerType /\ NoPeer.sent = <<>> /\ NoPeer.fin = FALSE /\ NoPeer.st = "none"
  BY DEF NoPeer, PeerType
<1>2. 0 \in 0 .. PortMax
  BY TcpAssumption
<1>3. Closed \in ConnType /\ Closed.est = FALSE /\ Closed.rxseq = 0 /\ Closed.rx = <<>>
  BY <1>2 DEF Closed, ConnType
<1> QED
  BY <1>1, <1>3

LEMMA OpensKeeps ==
    ASSUME NetInv, NEW c \in Conns, Opens(c)
    PROVE  NetInv'
<1> USE DEF NetInv
<1> DEFINE new == port + 1
           opened == [Closed EXCEPT !.port = new]
<1>1. /\ ring = <<>> /\ ring' = <<>> /\ new \in Ports /\ port' = new
      /\ UNCHANGED <<gateway, nested, taken>>
      /\ conn' = [conn EXCEPT ![c] = opened]
      /\ FreeSlots # {} /\ slots' = [slots EXCEPT ![LowestOf(FreeSlots)] = c]
  BY TcpAssumption DEF Opens, OpenConn, NetTypes, Ports
<1>2. opened \in ConnType /\ opened.port = new /\ ~opened.est /\ opened.rxseq = 0
  <2>1. new \in 0 .. PortMax
    BY <1>1 DEF Ports
  <2> HIDE DEF new
  <2> QED
    BY <2>1, FreshFacts DEF ConnType
<1>3. /\ peer[new] = NoPeer /\ taken[new] = <<>>
      /\ peer' = IF gateway THEN [peer EXCEPT ![new].st = "syn"] ELSE peer
  BY <1>1 DEF Opens, OpenConn, PortsInv, NetTypes
<1>4. /\ peer' \in [Ports -> PeerType]
      /\ \A p \in Ports \ {new} : peer'[p] = peer[p]
      /\ peer'[new].sent = <<>> /\ ~peer'[new].fin
      /\ peer'[new].st = IF gateway THEN "syn" ELSE "none"
  <2> DEFINE syn == [NoPeer EXCEPT !.st = "syn"]
  <2>1. syn \in PeerType /\ syn.sent = <<>> /\ ~syn.fin /\ syn.st = "syn"
    BY FreshFacts DEF PeerType
  <2>2. NoPeer \in PeerType /\ NoPeer.sent = <<>> /\ ~NoPeer.fin /\ NoPeer.st = "none"
    BY FreshFacts
  <2>3. peer' = [peer EXCEPT ![new] = IF gateway THEN syn ELSE NoPeer]
    BY <1>1, <1>3 DEF NetTypes
  <2> HIDE DEF syn
  <2>4. CASE gateway
    BY <1>1, <2>1, <2>3, <2>4 DEF NetTypes
  <2>5. CASE ~gateway
    BY <1>1, <2>2, <2>3, <2>5 DEF NetTypes
  <2> QED
    BY <2>4, <2>5
<1> HIDE DEF opened
<1>5. /\ conn' \in [Conns -> ConnType] /\ \A d \in Conns \ {c} : conn'[d] = conn[d]
      /\ conn'[c].port = new /\ ~conn'[c].est /\ conn'[c].rxseq = 0
  BY <1>1, <1>2 DEF NetTypes
<1>6. slots' \in [1 .. TCP_MAX_CONNECTIONS -> Conns \cup {NoConn}]
  BY <1>1 DEF NetTypes
<1>7. NetTypes'
  BY <1>1, <1>4, <1>5, <1>6 DEF NetTypes, Ports
<1>8. PortsInv'
  BY <1>1, <1>4, <1>5, PortFacts DEF PortsInv, NetTypes
<1>9. GatewayInv'
  BY <1>1, <1>4 DEF GatewayInv
<1>10. PeersInv'
  BY <1>1, <1>3, <1>4 DEF PeersInv
<1>11. RingInv'
  BY <1>1 DEF RingInv
<1>12. ExpectsInv'
  <2>1. Expects(conn[c], conn[c].port)'
    BY <1>1, <1>4, <1>5 DEF Expects
  <2>2. ASSUME NEW d \in Conns \ {c}, conn[d].port # 0
        PROVE  Expects(conn[d], conn[d].port)'
    <3>1. conn[d].port \in Ports /\ conn[d].port <= port /\ Expects(conn[d], conn[d].port)
      BY <2>2, PortFacts DEF ExpectsInv, PortsInv
    <3>2. conn[d].port # new
      BY <3>1, TcpAssumption DEF Ports, NetTypes
    <3> QED
      BY <1>1, <1>4, <1>5, <3>1, <3>2 DEF Expects
  <2> QED
    BY <1>5, <2>1, <2>2 DEF ExpectsInv
<1> QED
  BY <1>7, <1>8, <1>9, <1>10, <1>11, <1>12

LEMMA LeavesKeeps ==
    ASSUME NetInv, NEW c \in Conns, Leaves(c)
    PROVE  NetInv'
<1> USE DEF NetInv
<1> DEFINE p == conn[c].port
<1>1. /\ ring = <<>> /\ UNCHANGED <<ring, gateway, nested, conn, port>>
      /\ peer' = [peer EXCEPT ![p] = NoPeer] /\ taken' = [taken EXCEPT ![p] = <<>>]
      /\ unregister_conn(c)
  BY DEF Leaves, Leave
<1>2. NoPeer \in PeerType
  BY DEF NoPeer, PeerType
<1>3. slots' \in [1 .. TCP_MAX_CONNECTIONS -> Conns \cup {NoConn}]
  BY <1>1 DEF NetTypes, unregister_conn
<1>4. /\ peer' \in [Ports -> PeerType] /\ taken' \in [Ports -> Seq(Token)]
      /\ \A q \in Ports :
           /\ q # p => peer'[q] = peer[q] /\ taken'[q] = taken[q]
           /\ q = p => peer'[q] = NoPeer /\ taken'[q] = <<>>
  <2> HIDE DEF p
  <2>1. peer \in [Ports -> PeerType] /\ taken \in [Ports -> Seq(Token)] /\ <<>> \in Seq(Token)
    BY DEF NetTypes
  <2> QED
    BY <1>1, <1>2, <2>1
<1>5. NetTypes'
  BY <1>1, <1>3, <1>4 DEF NetTypes
<1>6. PortsInv' /\ GatewayInv' /\ RingInv'
  BY <1>1, <1>4, FreshFacts DEF PortsInv, GatewayInv, RingInv
<1>8. ASSUME NEW d \in Conns, conn[d].port # 0
      PROVE  Expects(conn[d], conn[d].port)'
  <2>1. conn[d].port \in Ports
    BY <1>8, PortFacts
  <2>2. Expects(conn[d], conn[d].port)
    BY <1>8 DEF ExpectsInv
  <2> HIDE DEF p
  <2>3. CASE conn[d].port = p
    BY <1>1, <1>4, <2>1, <2>3, FreshFacts DEF Expects
  <2>4. CASE conn[d].port # p
    BY <1>1, <1>4, <2>1, <2>2, <2>4 DEF Expects
  <2> QED
    BY <2>3, <2>4
<1>9. ExpectsInv'
  BY <1>1, <1>8 DEF ExpectsInv
<1>7. PeersInv'
  BY <1>4, FreshFacts DEF PeersInv
<1> QED
  BY <1>5, <1>6, <1>7, <1>9

LEMMA EditsKeeps ==
    ASSUME NetInv, NEW c \in Conns, Edits(c)
    PROVE  NetInv'
<1> USE DEF NetInv
<1>1. PICK k \in ConnType :
          /\ k.port = conn[c].port /\ k.est = conn[c].est /\ k.rxseq = conn[c].rxseq
          /\ conn' = [conn EXCEPT ![c] = k]
  BY DEF Edits
<1>2. /\ conn' \in [Conns -> ConnType]
      /\ \A d \in Conns :
           conn'[d].port = conn[d].port /\ conn'[d].est = conn[d].est /\ conn'[d].rxseq = conn[d].rxseq
  BY <1>1 DEF NetTypes
<1>3. UNCHANGED <<ring, gateway, nested, slots, port, peer, taken>>
  BY DEF Edits
<1>4. NetTypes'
  BY <1>2, <1>3 DEF NetTypes
<1>5. PortsInv'
  BY <1>2, <1>3 DEF PortsInv
<1>6. GatewayInv' /\ RingInv' /\ PeersInv'
  BY <1>3 DEF GatewayInv, RingInv, PeersInv
<1>7. ExpectsInv'
  BY <1>2, <1>3 DEF ExpectsInv, Expects
<1> QED
  BY <1>4, <1>5, <1>6, <1>7

LEMMA SaysKeeps ==
    ASSUME NetInv, NEW p \in Ports, NEW s \in Seq(Token), Says(p, s)
    PROVE  NetInv'
<1> USE DEF NetInv
<1>1. /\ peer[p].st = "open"
      /\ peer' = [peer EXCEPT ![p].sent = @ \o s]
      /\ UNCHANGED <<ring, gateway, nested, conn, slots, port, taken>>
  BY DEF Says
<1>2. peer[p] \in PeerType /\ peer[p].sent \in Seq(Token)
  BY DEF NetTypes, PeerType
<1> DEFINE all == peer[p].sent \o s
<1>3. /\ all \in Seq(Token) /\ Len(all) >= Len(peer[p].sent)
      /\ \A i \in DOMAIN peer[p].sent : i \in DOMAIN all /\ all[i] = peer[p].sent[i]
  BY <1>2, ConcatFacts
<1> HIDE DEF all
<1>4. /\ peer' \in [Ports -> PeerType]
      /\ \A q \in Ports : peer'[q].st = peer[q].st /\ peer'[q].fin = peer[q].fin
      /\ \A q \in Ports : q # p => peer'[q] = peer[q]
      /\ peer'[p].sent = all
  <2>1. peer' = [peer EXCEPT ![p] = [@ EXCEPT !.sent = all]]
    BY <1>1 DEF all
  <2>2. [peer[p] EXCEPT !.sent = all] \in PeerType
    BY <1>2, <1>3 DEF PeerType
  <2> QED
    BY <1>2, <2>1, <2>2 DEF NetTypes, PeerType
<1>5. \A q \in Ports :
        /\ Len(peer'[q].sent) >= Len(peer[q].sent)
        /\ \A i \in DOMAIN peer[q].sent :
              i \in DOMAIN peer'[q].sent /\ peer'[q].sent[i] = peer[q].sent[i]
  <2>1. ASSUME NEW q \in Ports, q # p
        PROVE  /\ Len(peer'[q].sent) >= Len(peer[q].sent)
               /\ \A i \in DOMAIN peer[q].sent :
                     i \in DOMAIN peer'[q].sent /\ peer'[q].sent[i] = peer[q].sent[i]
    <3>1. peer'[q] = peer[q]
      BY <1>4, <2>1
    <3>2. peer[q].sent \in Seq(Token)
      BY DEF NetTypes, PeerType
    <3> QED
      BY <3>1, <3>2
  <2> QED
    BY <1>3, <1>4, <2>1
<1>6. NetTypes'
  BY <1>1, <1>4 DEF NetTypes
<1>7. PortsInv'
  <2>1. p <= port
    <3>1. peer[p] # NoPeer
      BY <1>1 DEF NoPeer
    <3> QED
      BY <3>1, PortFacts DEF PortsInv, NetTypes
  <2>2. \A q \in Ports : q > port' => peer'[q] = peer[q]
    <3> SUFFICES ASSUME NEW q \in Ports, q > port' PROVE q # p
      BY <1>4
    <3>1. q \in Nat /\ p \in Nat /\ port \in Nat
      BY TcpAssumption DEF Ports, NetTypes
    <3> QED
      BY <1>1, <2>1, <3>1
  <2> QED
    BY <1>1, <2>2 DEF PortsInv
<1>8. GatewayInv' /\ ExpectsInv'
  BY <1>1, <1>4, PortFacts DEF GatewayInv, ExpectsInv, Expects
<1>9. PeersInv'
  <2>1. \A q \in Ports : \A i \in DOMAIN taken[q] : i \in DOMAIN peer[q].sent
    BY DEF NetTypes, PeersInv, PeerType
  <2> QED
    BY <1>1, <1>4, <1>5, <2>1 DEF PeersInv, NetTypes, PeerType
<1>10. RingInv'
  <2>1. /\ ring' = ring /\ taken' = taken
        /\ \A q \in Ports : peer'[q].st = peer[q].st /\ peer'[q].fin = peer[q].fin
    BY <1>1, <1>4
  <2>2. \A i \in DOMAIN ring : ring[i].kind \in Segments => ring[i].port \in Ports
    BY DEF RingInv
  <2>3. \A i \in DOMAIN ring : ring[i].kind = "data" =>
            \E n \in DOMAIN peer'[ring[i].port].sent :
                ring[i].seq = 2 * n - 1 /\ ring[i].tok = peer'[ring[i].port].sent[n]
    BY <1>5, <2>2 DEF RingInv, Segments
  <2> QED
    BY <2>1, <2>2, <2>3 DEF RingInv, Segments
<1> QED
  BY <1>6, <1>7, <1>8, <1>9, <1>10

LEMMA BringsKeeps ==
    ASSUME NetInv, NEW f \in FrameType, Brings(f)
    PROVE  NetInv'
<1> USE DEF NetInv
<1>1. /\ ring' = Append(ring, f) /\ f.kind \in {"arp", "dns"} /\ (f.kind = "dns" => gateway)
      /\ UNCHANGED <<gateway, nested, conn, slots, port, peer, taken>>
  BY DEF Brings
<1>2. /\ ring' \in Seq(FrameType) /\ DOMAIN ring = 1 .. Len(ring)
      /\ DOMAIN ring' = 1 .. Len(ring) + 1 /\ Len(ring) \in Nat
      /\ \A i \in 1 .. Len(ring) : ring'[i] = ring[i]
      /\ ring'[Len(ring) + 1] = f
  BY <1>1, AppendFacts DEF NetTypes
<1>3. /\ \A i \in DOMAIN ring' : ring'[i].kind \in Segments => i \in DOMAIN ring /\ ring'[i] = ring[i]
      /\ \A i \in DOMAIN ring' : i \in DOMAIN ring \/ ring'[i] = f
      /\ \A i \in DOMAIN ring : ring'[i] = ring[i]
  BY <1>1, <1>2 DEF Segments
<1>4. NetTypes'
  BY <1>1, <1>2 DEF NetTypes
<1>5. PortsInv' /\ PeersInv'
  BY <1>1 DEF PortsInv, PeersInv
<1>6. GatewayInv'
  BY <1>1, <1>3 DEF GatewayInv
<1>7. ExpectsInv'
  BY <1>1 DEF ExpectsInv, Expects
<1>8. RingInv'
  <2>1. \A i \in DOMAIN ring' : ring'[i].kind = "synack" =>
            \A j \in 1 .. i - 1 : j \in DOMAIN ring' /\ (ring'[j].kind \in {"data", "fin"} => ring[j] = ring'[j])
    BY <1>2, <1>3 DEF Segments
  <2> QED
    BY <1>1, <1>3, <2>1 DEF RingInv, Segments
<1> QED
  BY <1>4, <1>5, <1>6, <1>7, <1>8

\* The segment is put behind those in the ring.
LEMMA ArriveFacts ==
    ASSUME NetTypes, NEW f \in FrameType, Arrive(f)
    PROVE  /\ ring' \in Seq(FrameType)
           /\ \A i \in DOMAIN ring : i \in DOMAIN ring' /\ ring'[i] = ring[i]
           /\ \A i \in DOMAIN ring' : \/ i \in DOMAIN ring /\ ring'[i] = ring[i]
                                      \/ i = Len(ring) + 1 /\ ring'[i] = f
           /\ \A i \in DOMAIN ring' : i \in Nat /\ i <= Len(ring) + 1
           /\ \A i \in DOMAIN ring' : \A j \in 1 .. i - 1 : j \in DOMAIN ring /\ ring'[j] = ring[j]
           /\ DOMAIN ring = 1 .. Len(ring) /\ Len(ring) \in Nat
<1>1. /\ ring' \in Seq(FrameType) /\ DOMAIN ring = 1 .. Len(ring)
      /\ DOMAIN ring' = 1 .. Len(ring) + 1 /\ Len(ring) \in Nat
      /\ \A i \in 1 .. Len(ring) : ring'[i] = ring[i]
      /\ ring'[Len(ring) + 1] = f
  BY AppendFacts DEF NetTypes, Arrive
<1> QED
  BY <1>1

LEMMA LookupFacts ==
    ASSUME NetTypes, NEW p, lookup_conn(p) # NoConn
    PROVE  /\ lookup_conn(p) \in Conns
           /\ conn[lookup_conn(p)].port = p
           /\ \E i \in DOMAIN slots : slots[i] = lookup_conn(p)
<1> DEFINE here == {i \in DOMAIN slots : slots[i] # NoConn /\ conn[slots[i]].port = p}
<1>1. here # {}
  BY DEF lookup_conn
<1>2. here \in SUBSET Nat
  BY DEF NetTypes
<1>3. LowestOf(here) \in here
  BY <1>1, <1>2, LowestFacts
<1>4. lookup_conn(p) = slots[LowestOf(here)]
  BY <1>1 DEF lookup_conn
<1> HIDE DEF here
<1>5. slots[LowestOf(here)] \in Conns /\ conn[slots[LowestOf(here)]].port = p
      /\ LowestOf(here) \in DOMAIN slots
  BY <1>3 DEF here, NetTypes
<1> QED
  BY <1>4, <1>5

\* A segment of a peer that is not closed to it, with the state it leaves.
LEMMA SegmentKeeps ==
    ASSUME NetInv, NEW f \in FrameType, f.kind \in Segments, f.port \in Ports, Arrive(f),
           NEW e \in PeerType, peer' = [peer EXCEPT ![f.port] = e],
           UNCHANGED <<gateway, nested, conn, slots, port, taken>>,
           peer[f.port].st # "none", e.sent = peer[f.port].sent,
           e.fin = peer[f.port].fin \/ (f.kind = "fin" /\ e.fin),
           \/ e.st = peer[f.port].st
           \/ peer[f.port].st = "syn" /\ f.kind = "rst" /\ e.st = "gone"
           \/ peer[f.port].st = "syn" /\ f.kind = "synack" /\ e.st = "acked",
           f.kind = "synack" =>
               /\ e.st \in {"acked", "open"} /\ taken[f.port] = <<>>
               /\ \A j \in DOMAIN ring : ring[j].kind \in {"data", "fin"} => ring[j].port # f.port,
           f.kind = "data" =>
               /\ e.st \in {"open", "gone"}
               /\ \E n \in DOMAIN e.sent : f.seq = 2 * n - 1 /\ f.tok = e.sent[n],
           f.kind = "fin" => e.st = "open" /\ e.fin /\ ~peer[f.port].fin
    PROVE  NetInv'
<1> USE DEF NetInv
<1> DEFINE p == f.port
<1>1. /\ peer' \in [Ports -> PeerType] /\ peer'[p] = e /\ peer[p] \in PeerType
      /\ \A q \in Ports : q # p => peer'[q] = peer[q]
  BY DEF NetTypes
<1>2. NetTypes'
  BY <1>1, ArriveFacts DEF NetTypes
<1>3. gateway
  BY DEF GatewayInv
<1>4. GatewayInv'
  BY <1>3 DEF GatewayInv
<1>5. PortsInv'
  <2>1. p <= port
    <3>1. peer[p] # NoPeer
      BY FreshFacts
    <3> QED
      BY <3>1, TcpAssumption DEF PortsInv, NetTypes, Ports
  <2>2. \A q \in Ports : q > port' => q # p
    BY <2>1, TcpAssumption DEF Ports, NetTypes
  <2> QED
    BY <1>1, <2>2 DEF PortsInv
<1>6. e.st \in {"syn", "acked"} => peer[p].st \in {"syn", "acked"}
  OBVIOUS
<1>7. e.st \in {"syn", "acked"} => e.sent = <<>> /\ ~e.fin
  BY <1>1, <1>6 DEF PeersInv, PeerType
<1>8. PeersInv'
  <2>1. ASSUME NEW q \in Ports
        PROVE  /\ peer[q].st \in {"none", "syn", "acked"} => peer[q].sent = <<>> /\ ~peer[q].fin
               /\ Len(taken[q]) <= Len(peer[q].sent)
               /\ \A i \in DOMAIN taken[q] : taken[q][i] = peer[q].sent[i]
    BY DEF PeersInv
  <2>2. e.st # "none"
    OBVIOUS
  <2> QED
    BY <1>1, <1>7, <2>1, <2>2 DEF PeersInv
<1>9. ExpectsInv'
  <2>1. ASSUME NEW d \in Conns, conn[d].port # 0
        PROVE  Expects(conn[d], conn[d].port)'
    <3>1. conn[d].port \in Ports /\ Expects(conn[d], conn[d].port)
      BY <2>1, PortFacts DEF ExpectsInv
    <3>2. CASE conn[d].port # p
      BY <1>1, <3>1, <3>2 DEF Expects
    <3>3. CASE conn[d].port = p
      <4>1. CASE e.st = peer[p].st
        BY <1>1, <3>1, <3>3, <4>1 DEF Expects
      <4>2. CASE e.st # peer[p].st
        <5>1. peer[p].st = "syn" /\ peer[p].sent = <<>> /\ e.st \in {"gone", "acked"}
          BY <4>2 DEF PeersInv
        <5> QED
          BY <1>1, <3>1, <3>3, <5>1 DEF Expects
      <4> QED
        BY <4>1, <4>2
    <3> QED
      BY <3>2, <3>3
  <2> QED
    BY <2>1 DEF ExpectsInv
<1>10. RingInv'
  <2>1. ASSUME NEW i \in DOMAIN ring' PROVE ring'[i].kind \in Segments => ring'[i].port \in Ports
    BY ArriveFacts DEF RingInv
  <2>2. ASSUME NEW i \in DOMAIN ring', ring'[i].kind \in {"data", "fin"}
        PROVE  peer'[ring'[i].port].st \in {"open", "gone"}
    <3>1. CASE ring'[i] = f
      BY <1>1, <2>2, <3>1
    <3>2. CASE i \in DOMAIN ring /\ ring'[i] = ring[i]
      BY <1>1, <2>1, <2>2, <3>2 DEF RingInv, Segments
    <3> QED
      BY <3>1, <3>2, ArriveFacts
  <2>3. ASSUME NEW i \in DOMAIN ring', ring'[i].kind = "data"
        PROVE  \E n \in DOMAIN peer'[ring'[i].port].sent :
                  ring'[i].seq = 2 * n - 1 /\ ring'[i].tok = peer'[ring'[i].port].sent[n]
    <3>1. CASE ring'[i] = f
      BY <1>1, <2>3, <3>1
    <3>2. CASE i \in DOMAIN ring /\ ring'[i] = ring[i]
      <4>1. ring[i].port \in Ports /\ peer'[ring[i].port].sent = peer[ring[i].port].sent
        BY <1>1, <2>1, <2>3, <3>2 DEF Segments
      <4> QED
        BY <2>3, <3>2, <4>1 DEF RingInv
    <3> QED
      BY <3>1, <3>2, ArriveFacts
  <2>4. ASSUME NEW i \in DOMAIN ring', ring'[i].kind = "fin"
        PROVE  /\ peer'[ring'[i].port].st = "open" /\ peer'[ring'[i].port].fin
               /\ \A j \in DOMAIN ring' :
                     ring'[j].kind = "fin" /\ ring'[j].port = ring'[i].port => i = j
    <3>1. \A k \in DOMAIN ring : ring[k].kind = "fin" =>
             /\ ring[k].port \in Ports
             /\ peer[ring[k].port].st = "open" /\ peer[ring[k].port].fin
      BY DEF RingInv, Segments
    <3>2. CASE i = Len(ring) + 1 /\ ring'[i] = f
      <4>1. \A k \in DOMAIN ring : ~(ring[k].kind = "fin" /\ ring[k].port = p)
        BY <2>4, <3>1, <3>2
      <4> QED
        BY <1>1, <2>4, <3>2, <4>1, ArriveFacts
    <3>3. CASE i \in DOMAIN ring /\ ring'[i] = ring[i]
      <4>1. ring[i].port = p => f.kind # "fin"
        BY <2>4, <3>1, <3>3
      <4>2. \A j \in DOMAIN ring : ring[j].kind = "fin" /\ ring[j].port = ring[i].port => i = j
        BY <2>4, <3>3 DEF RingInv
      <4>3. peer'[ring[i].port].st = "open" /\ peer'[ring[i].port].fin
        BY <1>1, <2>4, <3>1, <3>3
      <4>4. ASSUME NEW j \in DOMAIN ring', ring'[j].kind = "fin", ring'[j].port = ring[i].port
            PROVE  i = j
        <5>1. ring'[j] # f
          BY <4>1, <4>4
        <5>2. j \in DOMAIN ring /\ ring'[j] = ring[j]
          BY <5>1, ArriveFacts
        <5> QED
          BY <4>2, <4>4, <5>2
      <4> QED
        BY <3>3, <4>3, <4>4
    <3> QED
      BY <3>2, <3>3, ArriveFacts
  <2>5. ASSUME NEW i \in DOMAIN ring', ring'[i].kind = "synack"
        PROVE  /\ peer'[ring'[i].port].st \in {"acked", "open"} /\ taken[ring'[i].port] = <<>>
               /\ \A j \in 1 .. i - 1 :
                     ring'[j].kind \in {"data", "fin"} => ring'[j].port # ring'[i].port
    <3>1. CASE i = Len(ring) + 1 /\ ring'[i] = f
      BY <1>1, <2>5, <3>1, ArriveFacts
    <3>2. CASE i \in DOMAIN ring /\ ring'[i] = ring[i]
      <4>1. /\ ring[i].port \in Ports
            /\ peer[ring[i].port].st \in {"acked", "open"} /\ taken[ring[i].port] = <<>>
            /\ \A j \in 1 .. i - 1 : ring[j].kind \in {"data", "fin"} => ring[j].port # ring[i].port
        BY <2>5, <3>2 DEF RingInv, Segments
      <4>2. peer'[ring[i].port].st \in {"acked", "open"}
        BY <1>1, <4>1
      <4> QED
        BY <3>2, <4>1, <4>2, ArriveFacts
    <3> QED
      BY <3>1, <3>2, ArriveFacts
  <2> QED
    BY <2>1, <2>2, <2>3, <2>4, <2>5 DEF RingInv
<1> QED
  BY <1>2, <1>4, <1>5, <1>8, <1>9, <1>10

\* A frame as the device delivers it.
LEMMA FrameFacts ==
    ASSUME NEW k \in Segments, NEW p \in Ports, NEW s \in Nat, NEW t \in Token
    PROVE  /\ Frame(k, p, s, t) \in FrameType
           /\ Frame(k, p, s, t).kind = k /\ Frame(k, p, s, t).port = p
           /\ Frame(k, p, s, t).seq = s /\ Frame(k, p, s, t).tok = t
<1>1. k \in Segments \cup {"arp", "dns"} /\ p \in Nat
  BY TcpAssumption DEF Ports
<1> QED
  BY <1>1 DEF Frame, FrameType

LEMMA NoTokIsToken == NoTok \in Token
BY DEF NoTok, Token, Words

LEMMA WireKeeps ==
    ASSUME NetInv, Wire
    PROVE  NetInv'
<1> USE DEF NetInv
<1>1. CASE PeerAnswers
  <2>1. PICK p \in Heard :
          /\ \/ /\ peer[p].st = "syn"
                /\ \E k \in {"synack", "rst"} :
                      /\ Arrive(Frame(k, p, 0, NoTok))
                      /\ peer' = [peer EXCEPT ![p].st = IF k = "rst" THEN "gone" ELSE "acked"]
             \/ /\ peer[p].st = "open" /\ conn[lookup_conn(p)].rxseq = 1 /\ StreamIdle(p)
                /\ Arrive(Frame("synack", p, 0, NoTok))
                /\ UNCHANGED peer
          /\ UNCHANGED <<gateway, nested, conn, slots, port, taken>>
    BY <1>1 DEF PeerAnswers
  <2>2. p \in Ports /\ peer[p] \in PeerType
    BY DEF Heard, NetTypes
  <2>3. ASSUME peer[p].st = "syn", NEW k \in {"synack", "rst"}, Arrive(Frame(k, p, 0, NoTok)),
               peer' = [peer EXCEPT ![p].st = IF k = "rst" THEN "gone" ELSE "acked"]
        PROVE  NetInv'
    <3> DEFINE f == Frame(k, p, 0, NoTok)
               e == [peer[p] EXCEPT !.st = IF k = "rst" THEN "gone" ELSE "acked"]
    <3>1. /\ e \in PeerType /\ e.st = (IF k = "rst" THEN "gone" ELSE "acked")
          /\ e.sent = peer[p].sent /\ e.fin = peer[p].fin
      BY <2>2 DEF PeerType
    <3>2. peer' = [peer EXCEPT ![p] = e]
      BY <2>3
    <3>3. k \in Segments /\ f \in FrameType /\ f.kind = k /\ f.port = p
      BY <2>2, FrameFacts, NoTokIsToken DEF Segments
    <3>4. taken[p] = <<>>
      BY <2>2, <2>3, PortFacts DEF PeersInv
    <3>5. \A j \in DOMAIN ring : ring[j].kind \in {"data", "fin"} => ring[j].port # p
      BY <2>3 DEF RingInv
    <3>6. Arrive(f) /\ UNCHANGED <<gateway, nested, conn, slots, port, taken>>
      BY <2>1, <2>3
    <3> HIDE DEF e, f
    <3>7. /\ \/ f.kind = "rst" /\ e.st = "gone"
             \/ f.kind = "synack" /\ e.st = "acked"
          /\ f.kind \notin {"data", "fin"}
      BY <3>1, <3>3
    <3>8. /\ f \in FrameType /\ f.kind \in Segments /\ f.port \in Ports /\ e \in PeerType
          /\ peer' = [peer EXCEPT ![f.port] = e] /\ peer[f.port].st # "none"
      BY <2>2, <2>3, <3>1, <3>2, <3>3
    <3>9. /\ e.sent = peer[f.port].sent /\ e.fin = peer[f.port].fin
          /\ peer[f.port].st = "syn" /\ taken[f.port] = <<>>
          /\ \A j \in DOMAIN ring : ring[j].kind \in {"data", "fin"} => ring[j].port # f.port
      BY <2>3, <3>1, <3>3, <3>4, <3>5
    <3> QED
      BY <3>6, <3>7, <3>8, <3>9, SegmentKeeps
  <2>4. ASSUME peer[p].st = "open", conn[lookup_conn(p)].rxseq = 1, StreamIdle(p),
               Arrive(Frame("synack", p, 0, NoTok)), UNCHANGED peer
        PROVE  NetInv'
    <3> DEFINE f == Frame("synack", p, 0, NoTok)
    <3>1. f \in FrameType /\ f.kind = "synack" /\ f.port = p /\ "synack" \in Segments
      BY <2>2, FrameFacts, NoTokIsToken DEF Segments
    <3>2. peer' = [peer EXCEPT ![p] = peer[p]]
      BY <2>2, <2>4 DEF NetTypes
    <3>3. taken[p] = <<>>
      <4>1. lookup_conn(p) \in Conns /\ conn[lookup_conn(p)].port = p /\ p # 0
        BY <2>2, LookupFacts, TcpAssumption DEF Heard, Ports
      <4>2. 1 = 2 * Len(taken[p]) + 1
        BY <2>4, <4>1 DEF ExpectsInv, Expects
      <4> QED
        BY <2>2, <4>2, PortFacts
    <3>4. Arrive(f) /\ UNCHANGED <<gateway, nested, conn, slots, port, taken>>
      BY <2>1, <2>4
    <3>5. \A j \in DOMAIN ring : ring[j].kind \in {"data", "fin"} => ring[j].port # p
      BY <2>4 DEF StreamIdle
    <3> HIDE DEF f
    <3> QED
      BY <2>2, <2>4, <3>1, <3>2, <3>3, <3>4, <3>5, SegmentKeeps
  <2> QED
    BY <2>1, <2>3, <2>4
<1>2. CASE Segment
  <2>0. PICK p \in Heard : \E i \in 1 .. Len(peer[p].sent) :
          /\ Arrive(Frame("data", p, 2 * i - 1, peer[p].sent[i]))
          /\ UNCHANGED <<gateway, nested, conn, slots, port, peer, taken>>
    BY <1>2 DEF Segment
  <2>1. PICK i \in 1 .. Len(peer[p].sent) :
          /\ Arrive(Frame("data", p, 2 * i - 1, peer[p].sent[i]))
          /\ UNCHANGED <<gateway, nested, conn, slots, port, peer, taken>>
    BY <2>0
  <2>2. p \in Ports /\ peer[p] \in PeerType /\ peer[p].sent \in Seq(Token)
    BY DEF Heard, NetTypes, PeerType
  <2>3. i \in DOMAIN peer[p].sent /\ peer[p].sent[i] \in Token /\ 2 * i - 1 \in Nat
    BY <2>2
  <2> DEFINE f == Frame("data", p, 2 * i - 1, peer[p].sent[i])
  <2>4. /\ f \in FrameType /\ f.kind = "data" /\ f.port = p /\ "data" \in Segments
        /\ f.seq = 2 * i - 1 /\ f.tok = peer[p].sent[i]
    BY <2>2, <2>3, FrameFacts DEF Segments
  <2>5. peer' = [peer EXCEPT ![p] = peer[p]]
    BY <2>1, <2>2 DEF NetTypes
  <2>6. peer[p].st \in {"open", "gone"}
    <3>1. peer[p].sent # <<>>
      BY <2>2
    <3> QED
      BY <2>2, <3>1 DEF PeersInv, PeerType
  <2>7. /\ UNCHANGED <<gateway, nested, conn, slots, port, taken>>
        /\ \E n \in DOMAIN peer[p].sent : f.seq = 2 * n - 1 /\ f.tok = peer[p].sent[n]
        /\ peer[p].st # "none" /\ Arrive(f)
    BY <2>1, <2>3, <2>4, <2>6
  <2> HIDE DEF f
  <2> QED
    BY <2>2, <2>4, <2>5, <2>6, <2>7, SegmentKeeps
<1>3. CASE FinArrives
  <2>1. PICK p \in Heard :
          /\ peer[p].st = "open" /\ ~peer[p].fin
          /\ Arrive(Frame("fin", p, 2 * Len(peer[p].sent) + 1, NoTok))
          /\ peer' = [peer EXCEPT ![p].fin = TRUE]
          /\ UNCHANGED <<gateway, nested, conn, slots, port, taken>>
    BY <1>3 DEF FinArrives
  <2>2. /\ p \in Ports /\ peer[p] \in PeerType /\ 2 * Len(peer[p].sent) + 1 \in Nat
    BY DEF Heard, NetTypes, PeerType
  <2> DEFINE f == Frame("fin", p, 2 * Len(peer[p].sent) + 1, NoTok)
             e == [peer[p] EXCEPT !.fin = TRUE]
  <2>3. f \in FrameType /\ f.kind = "fin" /\ f.port = p /\ "fin" \in Segments
    BY <2>2, FrameFacts, NoTokIsToken DEF Segments
  <2>4. e \in PeerType /\ e.st = "open" /\ e.sent = peer[p].sent /\ e.fin
    BY <2>1, <2>2 DEF PeerType
  <2>5. peer' = [peer EXCEPT ![p] = e] /\ Arrive(f)
    BY <2>1
  <2> HIDE DEF e, f
  <2>6. /\ f.kind \in Segments /\ f.port \in Ports
        /\ peer' = [peer EXCEPT ![f.port] = e] /\ peer[f.port].st = "open"
        /\ e.sent = peer[f.port].sent /\ ~peer[f.port].fin /\ e.st = peer[f.port].st
        /\ UNCHANGED <<gateway, nested, conn, slots, port, taken>>
    BY <2>1, <2>2, <2>3, <2>4, <2>5
  <2>7. f \in FrameType /\ e \in PeerType /\ Arrive(f) /\ f.kind = "fin" /\ e.fin /\ e.st = "open"
    BY <2>3, <2>4, <2>5
  <2> QED
    BY <2>6, <2>7, SegmentKeeps
<1> QED
  BY <1>1, <1>2, <1>3 DEF Wire

LEMMA PopFacts ==
    ASSUME NetTypes, ring # <<>>, ring' = Tail(ring)
    PROVE  /\ ring' \in Seq(FrameType)
           /\ 1 \in DOMAIN ring /\ Head(ring) = ring[1] /\ Head(ring) \in FrameType
           /\ \A i \in DOMAIN ring' : i \in Nat \ {0} /\ i + 1 \in DOMAIN ring /\ ring'[i] = ring[i + 1]
           /\ \A i \in DOMAIN ring' : \A j \in 1 .. i - 1 : j \in DOMAIN ring'
           /\ DOMAIN ring = 1 .. Len(ring) /\ Len(ring) \in Nat
<1>1. /\ Tail(ring) \in Seq(FrameType) /\ Head(ring) = ring[1] /\ Head(ring) \in FrameType
      /\ Len(ring) >= 1 /\ Len(ring) \in Nat
      /\ \A i \in 1 .. Len(ring) - 1 : Tail(ring)[i] = ring[i + 1]
      /\ DOMAIN Tail(ring) = 1 .. Len(ring) - 1 /\ DOMAIN ring = 1 .. Len(ring)
  BY TailFacts DEF NetTypes
<1> QED
  BY <1>1

\* What the handling of the first segment may leave of its connection, its
\* peer and the history.
Handled(f, c, k, e, t) ==
    /\ gateway /\ ring # <<>> /\ ring' = Tail(ring) /\ f = ring[1]
    /\ UNCHANGED <<gateway, nested, slots, port>>
    /\ c \in Conns /\ conn[c].port = f.port /\ f.kind \in Segments
    /\ k \in ConnType /\ conn' = [conn EXCEPT ![c] = k] /\ k.port = f.port
    /\ e \in PeerType /\ peer' = [peer EXCEPT ![f.port] = e]
    /\ e.sent = peer[f.port].sent /\ e.fin = peer[f.port].fin
    /\ \/ e.st = peer[f.port].st
       \/ f.kind = "synack" /\ e.st = "open"
       \/ f.kind = "fin" /\ e.st = "gone"
    /\ t \in Seq(Token) /\ taken' = [taken EXCEPT ![f.port] = t]
    /\ Len(t) <= Len(e.sent) /\ \A i \in DOMAIN t : t[i] = e.sent[i]
    /\ t = taken[f.port] \/ f.kind = "data"
    /\ e.st \in {"syn", "acked"} => k.rxseq = 0
    /\ e.st = "open" => k.rxseq = 2 * Len(t) + 1
    /\ e.st = "gone" => k.rxseq = 2 * Len(t) + 2 \/ e.sent = <<>>

LEMMA SegmentHandledKeeps ==
    ASSUME NetInv, NEW f, NEW c, NEW k, NEW e, NEW t, Handled(f, c, k, e, t)
    PROVE  NetInv'
<1> USE DEF Handled
<1> USE DEF NetInv
<1> DEFINE p == f.port
<1>1. p \in Ports
  BY PopFacts DEF RingInv
<1>2. /\ peer' \in [Ports -> PeerType] /\ peer'[p] = e /\ peer[p] \in PeerType
      /\ \A q \in Ports : q # p => peer'[q] = peer[q]
      /\ taken' \in [Ports -> Seq(Token)] /\ taken'[p] = t
      /\ \A q \in Ports : q # p => taken'[q] = taken[q]
  BY <1>1 DEF NetTypes
<1>3. /\ conn' \in [Conns -> ConnType] /\ conn'[c] = k
      /\ \A d \in Conns : d # c => conn'[d] = conn[d]
      /\ \A d \in Conns : conn'[d].port = conn[d].port
  BY DEF NetTypes
<1>4. NetTypes'
  BY <1>2, <1>3, PopFacts DEF NetTypes
<1>5. p # 0 /\ p <= port
  BY <1>1, TcpAssumption DEF PortsInv, Ports
<1>6. PortsInv'
  <2>1. \A q \in Ports : q > port' => q # p
    BY <1>5, TcpAssumption DEF Ports, NetTypes
  <2>2. \A d \in Conns : conn'[d].port <= port' /\ (conn'[d].est => conn'[d].port # 0)
    BY <1>3, <1>5 DEF PortsInv
  <2>3. \A d, b \in Conns : conn'[d].port = conn'[b].port /\ conn'[d].port # 0 => d = b
    BY <1>3 DEF PortsInv
  <2> QED
    BY <1>2, <2>1, <2>2, <2>3 DEF PortsInv
<1>7. GatewayInv'
  BY DEF GatewayInv
<1>8. f.kind = "synack" => peer[p].st \in {"acked", "open"}
  BY PopFacts DEF RingInv
<1>9. f.kind = "fin" => peer[p].st = "open" /\ peer[p].fin
  BY PopFacts DEF RingInv
<1>10. PeersInv'
  <2>1. e.st \in {"none", "syn", "acked"} => e.sent = <<>> /\ ~e.fin
    BY <1>1, <1>2 DEF PeersInv, PeerType
  <2>2. \A q \in Ports :
            /\ peer[q].st \in {"none", "syn", "acked"} => peer[q].sent = <<>> /\ ~peer[q].fin
            /\ Len(taken[q]) <= Len(peer[q].sent)
            /\ \A i \in DOMAIN taken[q] : taken[q][i] = peer[q].sent[i]
    BY DEF PeersInv
  <2>3. ASSUME NEW q \in Ports
        PROVE  /\ peer'[q].st \in {"none", "syn", "acked"} => peer'[q].sent = <<>> /\ ~peer'[q].fin
               /\ Len(taken'[q]) <= Len(peer'[q].sent)
               /\ \A i \in DOMAIN taken'[q] : taken'[q][i] = peer'[q].sent[i]
    <3>1. CASE q = p
      BY <1>2, <2>1, <3>1
    <3>2. CASE q # p
      BY <1>2, <2>2, <3>2
    <3> QED
      BY <3>1, <3>2
  <2> QED
    BY <2>3 DEF PeersInv
<1>11. ExpectsInv'
  <2>1. Expects(conn[c], conn[c].port)'
    BY <1>2, <1>3 DEF Expects
  <2>2. ASSUME NEW d \in Conns, conn[d].port # 0, d # c
        PROVE  Expects(conn[d], conn[d].port)'
    <3>1. conn[d].port # p /\ conn[d].port \in Ports /\ Expects(conn[d], conn[d].port)
      BY <2>2, PortFacts DEF PortsInv, ExpectsInv
    <3> QED
      BY <1>2, <1>3, <2>2, <3>1 DEF Expects
  <2> QED
    BY <1>3, <2>1, <2>2 DEF ExpectsInv
<1>12. RingInv'
  <2>1. ASSUME NEW i \in DOMAIN ring' PROVE ring'[i].kind \in Segments => ring'[i].port \in Ports
    BY PopFacts DEF RingInv
  <2>2. ASSUME NEW i \in DOMAIN ring', ring'[i].kind \in {"data", "fin"}
        PROVE  peer'[ring'[i].port].st \in {"open", "gone"}
    <3>1. ring'[i].port \in Ports /\ peer[ring'[i].port].st \in {"open", "gone"}
      BY <2>1, <2>2, PopFacts DEF RingInv, Segments
    <3> QED
      BY <1>2, <3>1
  <2>3. ASSUME NEW i \in DOMAIN ring', ring'[i].kind = "data"
        PROVE  \E n \in DOMAIN peer'[ring'[i].port].sent :
                  ring'[i].seq = 2 * n - 1 /\ ring'[i].tok = peer'[ring'[i].port].sent[n]
    <3>1. ring'[i].port \in Ports /\ peer'[ring'[i].port].sent = peer[ring'[i].port].sent
      BY <1>2, <2>1, <2>3 DEF Segments
    <3> QED
      BY <2>3, <3>1, PopFacts DEF RingInv
  <2>4. ASSUME NEW i \in DOMAIN ring', ring'[i].kind = "fin"
        PROVE  /\ peer'[ring'[i].port].st = "open" /\ peer'[ring'[i].port].fin
               /\ \A j \in DOMAIN ring' :
                     ring'[j].kind = "fin" /\ ring'[j].port = ring'[i].port => i = j
    <3>1. /\ ring'[i].port \in Ports /\ i + 1 \in DOMAIN ring /\ ring'[i] = ring[i + 1] /\ i >= 1
          /\ i \in Nat
      BY <2>1, <2>4, PopFacts DEF Segments
    <3>2. /\ peer[ring'[i].port].st = "open" /\ peer[ring'[i].port].fin
          /\ \A j \in DOMAIN ring :
                ring[j].kind = "fin" /\ ring[j].port = ring'[i].port => i + 1 = j
      BY <2>4, <3>1 DEF RingInv
    <3>3. ~(f.kind = "fin" /\ f.port = ring'[i].port)
      <4>1. 1 \in DOMAIN ring /\ f = ring[1] /\ i + 1 # 1
        BY <3>1, PopFacts
      <4> QED
        BY <3>2, <4>1
    <3>4. peer'[ring'[i].port].st = "open" /\ peer'[ring'[i].port].fin
      BY <1>2, <3>1, <3>2, <3>3
    <3>5. ASSUME NEW j \in DOMAIN ring', ring'[j].kind = "fin", ring'[j].port = ring'[i].port
          PROVE  i = j
      <4>1. j + 1 \in DOMAIN ring /\ ring'[j] = ring[j + 1] /\ j \in Nat
        BY PopFacts
      <4>2. i + 1 = j + 1
        BY <3>2, <3>5, <4>1
      <4> QED
        BY <3>1, <4>1, <4>2
    <3> QED
      BY <3>4, <3>5
  <2>5. ASSUME NEW i \in DOMAIN ring', ring'[i].kind = "synack"
        PROVE  /\ peer'[ring'[i].port].st \in {"acked", "open"} /\ taken'[ring'[i].port] = <<>>
               /\ \A j \in 1 .. i - 1 :
                     ring'[j].kind \in {"data", "fin"} => ring'[j].port # ring'[i].port
    <3>1. /\ ring'[i].port \in Ports /\ i + 1 \in DOMAIN ring /\ ring'[i] = ring[i + 1] /\ i >= 1
          /\ i \in Nat
      BY <2>1, <2>5, PopFacts DEF Segments
    <3>2. /\ peer[ring'[i].port].st \in {"acked", "open"} /\ taken[ring'[i].port] = <<>>
          /\ \A j \in 1 .. i : ring[j].kind \in {"data", "fin"} => ring[j].port # ring'[i].port
      BY <2>5, <3>1 DEF RingInv
    <3>3. ~(f.kind \in {"data", "fin"} /\ f.port = ring'[i].port)
      BY <3>1, <3>2
    <3>4. peer'[ring'[i].port].st \in {"acked", "open"} /\ taken'[ring'[i].port] = <<>>
      BY <1>2, <3>1, <3>2, <3>3
    <3>5. ASSUME NEW j \in 1 .. i - 1
          PROVE  ring'[j].kind \in {"data", "fin"} => ring'[j].port # ring'[i].port
      <4>1. j + 1 \in 1 .. i /\ j \in DOMAIN ring'
        BY <3>1, PopFacts
      <4>2. ring'[j] = ring[j + 1]
        BY <4>1, PopFacts
      <4> QED
        BY <3>2, <4>1, <4>2
    <3> QED
      BY <3>4, <3>5
  <2> QED
    BY <2>1, <2>2, <2>3, <2>4, <2>5 DEF RingInv
<1> QED
  BY <1>4, <1>6, <1>7, <1>10, <1>11, <1>12

\* A frame that changes no connection is dropped, or tells where the gateway is.
LEMMA FrameDroppedKeeps ==
    ASSUME NetInv, ring # <<>>, ring' = Tail(ring), gateway' \in {gateway, TRUE},
           UNCHANGED <<nested, conn, slots, port, peer, taken>>
    PROVE  NetInv'
<1> USE DEF NetInv
<1>1. NetTypes'
  BY PopFacts DEF NetTypes
<1>2. PortsInv' /\ PeersInv'
  BY DEF PortsInv, PeersInv
<1>3. ExpectsInv'
  BY DEF ExpectsInv, Expects
<1>4. GatewayInv'
  BY PopFacts DEF GatewayInv, NetTypes
<1>5. RingInv'
  <2>1. ASSUME NEW i \in DOMAIN ring', ring'[i].kind = "fin"
        PROVE  \A j \in DOMAIN ring' :
                  ring'[j].kind = "fin" /\ ring'[j].port = ring'[i].port => i = j
    <3>1. /\ i \in Nat /\ i + 1 \in DOMAIN ring /\ ring'[i] = ring[i + 1]
      BY PopFacts
    <3>2. ASSUME NEW j \in DOMAIN ring', ring'[j].kind = "fin", ring'[j].port = ring'[i].port
          PROVE  i = j
      <4>1. j + 1 \in DOMAIN ring /\ ring'[j] = ring[j + 1] /\ j \in Nat
        BY PopFacts
      <4>2. i + 1 = j + 1
        BY <2>1, <3>1, <3>2, <4>1 DEF RingInv
      <4> QED
        BY <3>1, <4>1, <4>2
    <3> QED
      BY <3>2
  <2>2. ASSUME NEW i \in DOMAIN ring', ring'[i].kind = "synack"
        PROVE  \A j \in 1 .. i - 1 :
                     ring'[j].kind \in {"data", "fin"} => ring'[j].port # ring'[i].port
    <3>1. i \in Nat /\ i + 1 \in DOMAIN ring /\ ring'[i] = ring[i + 1]
      BY PopFacts
    <3>2. \A j \in 1 .. i : ring[j].kind \in {"data", "fin"} => ring[j].port # ring'[i].port
      BY <2>2, <3>1 DEF RingInv
    <3>3. ASSUME NEW j \in 1 .. i - 1
          PROVE  ring'[j].kind \in {"data", "fin"} => ring'[j].port # ring'[i].port
      <4>1. j + 1 \in 1 .. i /\ j \in DOMAIN ring'
        BY <3>1, PopFacts
      <4>2. ring'[j] = ring[j + 1]
        BY <4>1, PopFacts
      <4> QED
        BY <3>2, <4>1, <4>2
    <3> QED
      BY <3>3
  <2>3. \A i \in DOMAIN ring' : i + 1 \in DOMAIN ring /\ ring'[i] = ring[i + 1]
    BY PopFacts
  <2> QED
    BY <2>1, <2>2, <2>3 DEF RingInv
<1> QED
  BY <1>1, <1>2, <1>3, <1>4, <1>5

\* tcp_input, segment by segment.
LEMMA HandlesKeeps ==
    ASSUME NetInv, Handles
    PROVE  NetInv'
<1> USE DEF NetInv
<1> DEFINE f == Head(ring)
           c == lookup_conn(f.port)
           k == Received(c, f)
<1>1. ring # <<>> /\ ring' = Tail(ring) /\ UNCHANGED <<slots, port>>
  BY DEF Handles
<1>2. f = ring[1] /\ 1 \in DOMAIN ring /\ f \in FrameType
  BY <1>1, PopFacts
<1>3. CASE f.kind \in {"arp", "dns"}
  <2>1. gateway' \in {gateway, TRUE} /\ UNCHANGED <<nested, conn, peer, taken>>
    BY <1>3 DEF Handles, Segments
  <2> QED
    BY <1>1, <2>1, FrameDroppedKeeps
<1>4. CASE f.kind \in Segments
  <2>1. tcp_input(f) /\ gateway' = gateway
    BY <1>4 DEF Handles, Segments
  <2>2. CASE c = NoConn
    <3>1. UNCHANGED <<nested, conn, peer, taken>>
      BY <2>1, <2>2 DEF tcp_input
    <3> QED
      BY <1>1, <2>1, <3>1, FrameDroppedKeeps
  <2>3. CASE c # NoConn
    <3>1. c \in Conns /\ conn[c].port = f.port
      BY <2>3, LookupFacts
    <3>2. gateway
      BY <1>2, <1>4 DEF GatewayInv, Segments
    <3>3. f.port \in Ports /\ f.port # 0
      BY <1>2, <1>4, TcpAssumption DEF RingInv, Ports
    <3> DEFINE e == IF f.kind = "synack" THEN [peer[f.port] EXCEPT !.st = "open"]
                    ELSE IF f.kind = "fin" THEN [peer[f.port] EXCEPT !.st = "gone"] ELSE peer[f.port]
               t == IF Len(k.rx) > Len(conn[c].rx) THEN Append(taken[f.port], f.tok) ELSE taken[f.port]
    <3>4. /\ conn[c] \in ConnType /\ peer[f.port] \in PeerType /\ taken[f.port] \in Seq(Token)
          /\ f.tok \in Token /\ f.seq \in Nat
      BY <1>2, <3>1, <3>3 DEF NetTypes, FrameType
    <3>5. /\ conn' = [conn EXCEPT ![c] = k] /\ taken' = [taken EXCEPT ![f.port] = t]
          /\ peer' = [peer EXCEPT ![f.port] = e] /\ nested' = nested
      <4> HIDE DEF f
      <4>1. /\ conn' = [conn EXCEPT ![c] = k]
            /\ taken' = IF Len(k.rx) > Len(conn[c].rx)
                        THEN [taken EXCEPT ![f.port] = Append(@, f.tok)] ELSE taken
            /\ peer' = IF f.kind = "synack" THEN [peer EXCEPT ![f.port].st = "open"] ELSE
                       IF f.kind = "fin" THEN [peer EXCEPT ![f.port].st = "gone"] ELSE peer
            /\ nested' = (nested \/ (f.kind # "rst" /\ ~gateway))
        BY <2>1, <2>3 DEF tcp_input
      <4> HIDE DEF k
      <4>2. taken' = [taken EXCEPT ![f.port] = t]
        BY <3>3, <4>1 DEF NetTypes
      <4>3. peer' = [peer EXCEPT ![f.port] = e]
        BY <3>3, <4>1 DEF NetTypes
      <4>4. nested' = nested
        <5>1. nested = FALSE /\ gateway = TRUE
          BY <3>2 DEF GatewayInv, NetTypes
        <5> QED
          BY <4>1, <5>1
      <4> QED
        BY <4>1, <4>2, <4>3, <4>4
    <3>6. /\ Len(taken[f.port]) <= Len(peer[f.port].sent) /\ Expects(conn[c], f.port)
          /\ \A i \in DOMAIN taken[f.port] : taken[f.port][i] = peer[f.port].sent[i]
      BY <3>1, <3>3 DEF PeersInv, ExpectsInv
    <3>7. e \in PeerType /\ e.sent = peer[f.port].sent /\ e.fin = peer[f.port].fin
      BY <3>4 DEF PeerType
    <3>8. /\ gateway /\ ring # <<>> /\ ring' = Tail(ring) /\ f = ring[1]
          /\ UNCHANGED <<gateway, nested, slots, port>>
      BY <1>1, <1>2, <2>1, <3>2, <3>5
    <3>9. CASE f.kind = "rst"
      <4>1. k = [conn[c] EXCEPT !.closed = TRUE, !.err = TRUE]
        BY <3>9 DEF Received
      <4>2. k \in ConnType /\ k.port = f.port /\ k.rxseq = conn[c].rxseq /\ k.rx = conn[c].rx
        BY <3>1, <3>4, <4>1 DEF ConnType
      <4>3. e = peer[f.port] /\ t = taken[f.port]
        BY <3>4, <3>9, <4>2 DEF ConnType
      <4> HIDE DEF f, c, k, e, t
      <4>4. Handled(f, c, k, e, t)
        BY <1>4, <3>1, <3>4, <3>5, <3>6, <3>7, <3>8, <4>2, <4>3 DEF Handled, Expects
      <4> QED
        BY <4>4, SegmentHandledKeeps
    <3>10. CASE f.kind = "synack"
      <4> DEFINE next == 1
      <4>1. k = [conn[c] EXCEPT !.est = TRUE, !.rxseq = next] /\ next \in Nat /\ next = 1
        BY <3>10 DEF Received
      <4> HIDE DEF next
      <4>2. k \in ConnType /\ k.port = f.port /\ k.rxseq = 1 /\ k.rx = conn[c].rx
        <5> HIDE DEF f, c, k
        <5> QED
          BY <3>1, <3>4, <4>1 DEF ConnType
      <4>3. t = taken[f.port]
        BY <3>4, <4>2 DEF ConnType
      <4>4. e.st = "open"
        BY <3>4, <3>10 DEF PeerType
      <4>5. taken[f.port] = <<>>
        BY <1>2, <3>10 DEF RingInv
      <4> HIDE DEF f, c, k, e, t
      <4>6. t \in Seq(Token) /\ Len(t) = 0 /\ \A i \in DOMAIN t : t[i] = e.sent[i]
        BY <3>4, <4>3, <4>5
      <4>7. Len(t) <= Len(e.sent)
        BY <3>6, <3>7, <4>3
      <4> QED
        <5>1. Handled(f, c, k, e, t)
          BY <1>4, <3>1, <3>5, <3>7, <3>8, <3>10, <4>2, <4>3, <4>4, <4>6, <4>7 DEF Handled
        <5> QED
          BY <5>1, SegmentHandledKeeps
    <3>11. CASE f.kind = "fin"
      <4> DEFINE next == conn[c].rxseq + 1
      <4>1. k = [conn[c] EXCEPT !.closed = TRUE, !.rxseq = next]
        BY <3>11 DEF Received
      <4>2. next \in Nat
        BY <3>4 DEF ConnType
      <4>3. peer[f.port].st = "open"
        BY <1>2, <3>11 DEF RingInv
      <4>4. next = 2 * Len(taken[f.port]) + 2
        BY <3>6, <4>3, <3>4 DEF Expects
      <4> HIDE DEF next
      <4>5. k \in ConnType /\ k.port = f.port /\ k.rxseq = next /\ k.rx = conn[c].rx
        BY <3>1, <3>4, <4>1, <4>2 DEF ConnType
      <4>6. t = taken[f.port]
        BY <3>4, <4>5 DEF ConnType
      <4>7. e.st = "gone"
        BY <3>4, <3>11 DEF PeerType
      <4> HIDE DEF f, c, k, e, t
      <4>8. Handled(f, c, k, e, t)
        BY <1>4, <3>1, <3>4, <3>5, <3>6, <3>7, <3>8, <3>11, <4>4, <4>5, <4>6, <4>7 DEF Handled
      <4> QED
        BY <4>8, SegmentHandledKeeps
    <3>12. CASE f.kind = "data"
      <4>1. /\ peer[f.port].st \in {"open", "gone"}
            /\ \E n \in DOMAIN peer[f.port].sent :
                  f.seq = 2 * n - 1 /\ f.tok = peer[f.port].sent[n]
        BY <1>2, <3>12 DEF RingInv
      <4>2. PICK n \in DOMAIN peer[f.port].sent :
                  f.seq = 2 * n - 1 /\ f.tok = peer[f.port].sent[n]
        BY <4>1
      <4>3. /\ peer[f.port].sent \in Seq(Token) /\ n \in 1 .. Len(peer[f.port].sent)
            /\ Len(taken[f.port]) \in Nat /\ peer[f.port].sent # <<>>
        BY <3>4, <4>2 DEF PeerType
      <4>4. e = peer[f.port]
        BY <3>12
      <4>5. CASE f.seq # conn[c].rxseq
        <5>1. conn[c].rxseq # 0
          BY <3>6, <4>1, <4>3 DEF Expects
        <5>2. k = conn[c]
          BY <3>12, <4>5, <5>1 DEF Received
        <5>3. t = taken[f.port]
          BY <3>4, <5>2 DEF ConnType
        <5> HIDE DEF f, c, k, e, t
        <5>4. Handled(f, c, k, e, t)
          BY <1>4, <3>1, <3>4, <3>5, <3>6, <3>7, <3>8, <4>4, <5>2, <5>3 DEF Handled, Expects
        <5> QED
          BY <5>4, SegmentHandledKeeps
      <4>6. CASE f.seq = conn[c].rxseq
        <5>1. /\ peer[f.port].st = "open" /\ n = Len(taken[f.port]) + 1
              /\ conn[c].rxseq = 2 * Len(taken[f.port]) + 1
          BY <3>6, <4>1, <4>2, <4>3, <4>6 DEF Expects
        <5>2. /\ Len(conn[c].rx) < RxCap =>
                   k = [conn[c] EXCEPT !.rx = Append(@, f.tok), !.rxseq = conn[c].rxseq + 2]
              /\ ~(Len(conn[c].rx) < RxCap) =>
                   k = [conn[c] EXCEPT !.err = TRUE, !.rxseq = conn[c].rxseq]
          <6>1. conn[c].rxseq # 0
            BY <4>3, <5>1
          <6> HIDE DEF f, c
          <6> QED
            BY <3>12, <4>6, <6>1 DEF Received
        <5>3. CASE Len(conn[c].rx) < RxCap
          <6> DEFINE next == conn[c].rxseq + 2
                     more == Append(conn[c].rx, f.tok)
          <6>1. next \in Nat /\ next = 2 * Len(taken[f.port]) + 3
            BY <4>3, <5>1
          <6>2. more \in Seq(Token) /\ Len(more) > Len(conn[c].rx)
            BY <3>4 DEF ConnType
          <6>3. k = [conn[c] EXCEPT !.rx = more, !.rxseq = next]
            BY <5>2, <5>3
          <6> HIDE DEF next, more
          <6>4. k \in ConnType /\ k.port = f.port /\ k.rxseq = next /\ k.rx = more
            BY <3>1, <3>4, <6>1, <6>2, <6>3 DEF ConnType
          <6>5. t = Append(taken[f.port], f.tok)
            BY <6>2, <6>4
          <6> HIDE DEF f, c, k, e, t
          <6>6. /\ t \in Seq(Token) /\ Len(t) = Len(taken[f.port]) + 1
                /\ \A i \in DOMAIN t : \/ i \in DOMAIN taken[f.port] /\ t[i] = taken[f.port][i]
                                       \/ i = n /\ t[i] = f.tok
            <7> DEFINE old == taken[f.port]
                       tok == f.tok
            <7>1. old \in Seq(Token) /\ tok \in Token /\ t = Append(old, tok) /\ n = Len(old) + 1
              BY <3>4, <5>1, <6>5
            <7> HIDE DEF old, tok
            <7>2. /\ t \in Seq(Token) /\ Len(t) = Len(old) + 1 /\ t[n] = tok
                  /\ DOMAIN t = 1 .. Len(old) + 1 /\ DOMAIN old = 1 .. Len(old)
                  /\ \A i \in 1 .. Len(old) : t[i] = old[i]
              BY <7>1, AppendFacts
            <7>3. \A i \in DOMAIN t : i \in DOMAIN old \/ i = n
              BY <7>1, <7>2
            <7> QED
              BY <7>2, <7>3 DEF old, tok
          <6>7. /\ Len(t) <= Len(e.sent) /\ \A i \in DOMAIN t : t[i] = e.sent[i]
                /\ k.rxseq = 2 * Len(t) + 1 /\ e.st = "open"
            BY <3>6, <4>2, <4>3, <4>4, <5>1, <6>1, <6>4, <6>6
          <6>8. Handled(f, c, k, e, t)
            BY <1>4, <3>1, <3>5, <3>7, <3>8, <3>12, <4>4, <6>4, <6>6, <6>7 DEF Handled
          <6> QED
            BY <6>8, SegmentHandledKeeps
        <5>4. CASE ~(Len(conn[c].rx) < RxCap)
          <6>1. /\ k \in ConnType /\ k.port = f.port /\ k.rxseq = conn[c].rxseq
                /\ k.rx = conn[c].rx
            BY <3>1, <3>4, <5>2, <5>4 DEF ConnType
          <6>2. t = taken[f.port]
            BY <3>4, <6>1 DEF ConnType
          <6> HIDE DEF f, c, k, e, t
          <6>3. Handled(f, c, k, e, t)
            BY <1>4, <3>1, <3>4, <3>5, <3>6, <3>7, <3>8, <4>4, <6>1, <6>2 DEF Handled, Expects
          <6> QED
            BY <6>3, SegmentHandledKeeps
        <5> QED
          BY <5>3, <5>4
      <4> QED
        BY <4>5, <4>6
    <3> QED
      BY <1>4, <3>9, <3>10, <3>11, <3>12 DEF Segments
  <2> QED
    BY <2>2, <2>3
<1> QED
  BY <1>2, <1>3, <1>4 DEF FrameType, Segments

LEMMA NetKeeps ==
    ASSUME NetInv, NetStep
    PROVE  NetInv'
<1>1. CASE UNCHANGED netVars
  <2>1. UNCHANGED <<ring, gateway, nested, conn, slots, port, peer, taken>>
    BY <1>1 DEF netVars
  <2>2. NetTypes' /\ PortsInv' /\ GatewayInv'
    BY <2>1 DEF NetInv, NetTypes, PortsInv, GatewayInv
  <2>3. PeersInv' /\ RingInv' /\ ExpectsInv'
    BY <2>1 DEF NetInv, PeersInv, RingInv, ExpectsInv, Expects
  <2> QED
    BY <2>2, <2>3 DEF NetInv
<1>2. CASE \E c \in Conns : Opens(c) \/ Leaves(c) \/ Edits(c)
  BY <1>2, OpensKeeps, LeavesKeeps, EditsKeeps
<1>3. CASE \E p \in Ports : \E s \in Seq(Token) : Says(p, s)
  BY <1>3, SaysKeeps
<1>4. CASE \E f \in FrameType : Brings(f)
  BY <1>4, BringsKeeps
<1>5. CASE Wire
  BY <1>5, WireKeeps
<1>6. CASE Handles
  BY <1>6, HandlesKeeps
<1> QED
  BY <1>1, <1>2, <1>3, <1>4, <1>5, <1>6 DEF NetStep

------------------------------------------------------------------------------
(***************************************************************************)
(* What a step does to the stream of one connection                        *)
(***************************************************************************)
\* The connection c keeps its port, its received tokens and its stream.
Undisturbed(c) ==
    /\ conn'[c].port = conn[c].port /\ conn'[c].rx = conn[c].rx
    /\ conn[c].port # 0 => /\ taken'[conn[c].port] = taken[conn[c].port]
                           /\ peer'[conn[c].port].sent = peer[conn[c].port].sent

\* The next token of its stream is put in the receive buffer of c.
Delivered(c) ==
    /\ conn[c].port # 0 /\ conn'[c].port = conn[c].port
    /\ peer'[conn[c].port].sent = peer[conn[c].port].sent
    /\ \E t \in Token : /\ conn'[c].rx = Append(conn[c].rx, t)
                        /\ taken'[conn[c].port] = Append(taken[conn[c].port], t)

LEMMA AwayUndisturbed ==
    ASSUME NetInv, NEW c \in Conns, NEW d \in Conns, c # d, Opens(d) \/ Leaves(d) \/ Edits(d)
    PROVE  Undisturbed(c)
<1>1. NetTypes /\ PortsInv /\ conn \in [Conns -> ConnType]
  BY DEF NetInv, NetTypes
<1>2. /\ conn[c].port # 0 => conn[c].port \in Ports /\ conn[c].port # conn[d].port
      /\ conn[c].port \in Nat /\ conn[c].port <= port /\ port \in Nat
  BY <1>1, PortFacts, TcpAssumption DEF PortsInv, NetTypes, ConnType
<1>3. CASE Edits(d)
  BY <1>1, <1>3 DEF Edits, Undisturbed
<1>4. CASE Leaves(d)
  <2> DEFINE p == conn[d].port
  <2>1. /\ peer' = [peer EXCEPT ![p] = NoPeer] /\ taken' = [taken EXCEPT ![p] = <<>>] /\ conn' = conn
    BY <1>4 DEF Leaves, Leave
  <2> HIDE DEF p
  <2>2. \A q \in Ports : q # p => peer'[q] = peer[q] /\ taken'[q] = taken[q]
    BY <1>1, <2>1 DEF NetTypes
  <2> QED
    BY <1>2, <2>1, <2>2 DEF Undisturbed, p
<1>5. CASE Opens(d)
  <2>1. /\ port' = port + 1 /\ taken' = taken
        /\ conn' = [conn EXCEPT ![d] = [Closed EXCEPT !.port = port']]
        /\ peer' = IF gateway THEN [peer EXCEPT ![port'].st = "syn"] ELSE peer
    BY <1>5 DEF Opens, OpenConn
  <2>2. conn'[c] = conn[c]
    BY <1>1, <2>1
  <2>3. \A q \in Ports : peer'[q].sent = peer[q].sent
    <3>1. \A q \in Ports : peer[q] \in PeerType
      BY <1>1, PortFacts
    <3> QED
      BY <1>1, <2>1, <3>1 DEF NetTypes, PeerType
  <2> QED
    BY <1>2, <2>1, <2>2, <2>3 DEF Undisturbed
<1> QED
  BY <1>3, <1>4, <1>5

LEMMA WireUndisturbed ==
    ASSUME NetTypes, NEW c \in Conns, Wire \/ UNCHANGED netVars
    PROVE  Undisturbed(c)
<1>1. /\ conn[c].port # 0 => conn[c].port \in Ports
      /\ \A p \in Ports : peer[p] \in PeerType
  BY PortFacts
<1>2. CASE UNCHANGED netVars
  BY <1>2 DEF netVars, Undisturbed
<1>3. CASE Wire
  <2>1. UNCHANGED <<conn, taken>>
    BY <1>3 DEF Wire, PeerAnswers, Segment, FinArrives
  <2>2. peer' = peer \/ \E p \in Ports : \/ \E s : peer' = [peer EXCEPT ![p].st = s]
                                         \/ peer' = [peer EXCEPT ![p].fin = TRUE]
    <3>1. CASE PeerAnswers
      BY <3>1 DEF PeerAnswers, Heard
    <3>2. CASE Segment
      BY <3>2 DEF Segment
    <3>3. CASE FinArrives
      BY <3>3 DEF FinArrives, Heard
    <3> QED
      BY <1>3, <3>1, <3>2, <3>3 DEF Wire
  <2>3. \A p \in Ports : peer'[p].sent = peer[p].sent
    <3>1. CASE peer' = peer
      BY <3>1
    <3>2. ASSUME NEW p \in Ports, NEW e, peer' = [peer EXCEPT ![p] = e], e.sent = peer[p].sent
          PROVE  \A q \in Ports : peer'[q].sent = peer[q].sent
      BY <3>2 DEF NetTypes
    <3>3. ASSUME NEW p \in Ports, NEW s, peer' = [peer EXCEPT ![p].st = s]
          PROVE  \A q \in Ports : peer'[q].sent = peer[q].sent
      <4>1. [peer[p] EXCEPT !.st = s].sent = peer[p].sent
        BY <1>1 DEF PeerType
      <4> QED
        BY <3>2, <3>3, <4>1
    <3>4. ASSUME NEW p \in Ports, peer' = [peer EXCEPT ![p].fin = TRUE]
          PROVE  \A q \in Ports : peer'[q].sent = peer[q].sent
      <4>1. [peer[p] EXCEPT !.fin = TRUE].sent = peer[p].sent
        BY <1>1 DEF PeerType
      <4> QED
        BY <3>2, <3>4, <4>1
    <3> QED
      BY <2>2, <3>1, <3>3, <3>4
  <2> QED
    BY <1>1, <2>1, <2>3 DEF Undisturbed
<1> QED
  BY <1>2, <1>3

\* tcp_input brings a connection its next token, or none.
LEMMA HandlesDelivers ==
    ASSUME NetInv, NEW c \in Conns, Handles
    PROVE  Undisturbed(c) \/ Delivered(c)
<1> DEFINE f == Head(ring)
           d == lookup_conn(f.port)
           k == Received(d, f)
<1>1. NetTypes /\ PortsInv /\ conn \in [Conns -> ConnType]
  BY DEF NetInv, NetTypes
<1>2. f \in FrameType /\ 1 \in DOMAIN ring /\ f = ring[1]
  BY <1>1, PopFacts DEF Handles
<1>3. CASE UNCHANGED <<conn, peer, taken>>
  BY <1>3 DEF Undisturbed
<1>4. CASE f.kind \in Segments /\ tcp_input(f) /\ d # NoConn
  <2>1. d \in Conns /\ conn[d].port = f.port
    BY <1>1, <1>4, LookupFacts
  <2>2. f.port \in Ports /\ f.port # 0 /\ f.tok \in Token
    BY <1>2, <1>4, TcpAssumption DEF NetInv, RingInv, Ports, FrameType
  <2>3. /\ conn' = [conn EXCEPT ![d] = k]
        /\ taken' = IF Len(k.rx) > Len(conn[d].rx)
                    THEN [taken EXCEPT ![f.port] = Append(@, f.tok)] ELSE taken
        /\ peer' = IF f.kind = "synack" THEN [peer EXCEPT ![f.port].st = "open"] ELSE
                   IF f.kind = "fin" THEN [peer EXCEPT ![f.port].st = "gone"] ELSE peer
    BY <1>4 DEF tcp_input
  <2>4. conn[d] \in ConnType /\ conn[d].rx \in Seq(Token) /\ taken[f.port] \in Seq(Token)
    BY <1>1, <2>1, <2>2 DEF NetTypes, ConnType
  <2>5. /\ k.port = conn[d].port
        /\ k.rx = conn[d].rx \/ k.rx = Append(conn[d].rx, f.tok)
    <3> HIDE DEF f, d
    <3> DEFINE rx2 == Append(conn[d].rx, f.tok)
               seq == IF conn[d].rxseq = 0 THEN f.seq ELSE conn[d].rxseq
               n2 == seq + 2
               n3 == conn[d].rxseq + 1
    <3>1. \/ k = conn[d]
          \/ k = [conn[d] EXCEPT !.closed = TRUE, !.err = TRUE]
          \/ k = [conn[d] EXCEPT !.est = TRUE, !.rxseq = 1]
          \/ k = [conn[d] EXCEPT !.rx = rx2, !.rxseq = n2]
          \/ k = [conn[d] EXCEPT !.err = TRUE, !.rxseq = seq]
          \/ k = [conn[d] EXCEPT !.closed = TRUE, !.rxseq = n3]
      BY <1>4 DEF Received, Segments
    <3> HIDE DEF rx2, n2, n3, seq, k
    <3> QED
      BY <2>4, <3>1 DEF ConnType, rx2
  <2>6. \A p \in Ports : peer'[p].sent = peer[p].sent
    <3>1. \A p \in Ports : peer[p] \in PeerType
      BY <1>1, PortFacts
    <3> HIDE DEF f, d, k
    <3> QED
      BY <1>1, <2>3, <3>1 DEF NetTypes, PeerType
  <2>7. \A p \in Ports : p # f.port => taken'[p] = taken[p]
    BY <1>1, <2>3 DEF NetTypes
  <2>8. CASE c # d
    <3>1. conn'[c] = conn[c]
      BY <1>1, <2>3, <2>8
    <3>2. conn[c].port # 0 => conn[c].port # f.port /\ conn[c].port \in Ports
      BY <1>1, <2>1, <2>8, PortFacts DEF PortsInv
    <3> QED
      BY <2>6, <2>7, <3>1, <3>2 DEF Undisturbed
  <2>9. CASE c = d
    <3> HIDE DEF f, d, k
    <3>1. conn'[c] = k /\ conn[c].port = f.port /\ k.port = f.port
      BY <1>1, <2>1, <2>3, <2>5, <2>9
    <3>2. CASE k.rx = conn[d].rx
      <4>1. taken' = taken
        BY <2>3, <2>4, <3>2
      <4> QED
        BY <2>1, <2>2, <2>6, <2>9, <3>1, <3>2, <4>1 DEF Undisturbed
    <3>3. CASE k.rx = Append(conn[d].rx, f.tok)
      <4>1. Len(k.rx) > Len(conn[d].rx)
        BY <2>2, <2>4, <3>3
      <4>2. taken'[f.port] = Append(taken[f.port], f.tok)
        BY <1>1, <2>2, <2>3, <4>1 DEF NetTypes
      <4> QED
        BY <2>1, <2>2, <2>6, <2>9, <3>1, <3>3, <4>2 DEF Delivered
    <3> QED
      BY <2>5, <3>2, <3>3
  <2> QED
    BY <2>8, <2>9
<1> QED
  BY <1>3, <1>4 DEF Handles, tcp_input

LEMMA PrefixFacts ==
    ASSUME NEW T, NEW s \in Seq(T), NEW t \in Seq(T), Len(s) <= Len(t),
           \A i \in DOMAIN s : s[i] = t[i]
    PROVE  IsPrefix(s, t)
<1>1. CASE s = <<>>
  <2>1. SubSeq(s, 1, Len(s)) = <<>> /\ SubSeq(t, 1, Len(s)) = <<>>
    BY <1>1
  <2> QED
    BY <2>1 DEF IsPrefix
<1>2. CASE s # <<>>
  <2>1. /\ 1 \in 1 .. Len(s) + 1 /\ Len(s) \in 1 - 1 .. Len(s)
        /\ 1 \in 1 .. Len(t) + 1 /\ Len(s) \in 1 - 1 .. Len(t)
    OBVIOUS
  <2>2. /\ SubSeq(s, 1, Len(s)) \in Seq(T) /\ Len(SubSeq(s, 1, Len(s))) = Len(s)
        /\ \A i \in 1 .. Len(s) : SubSeq(s, 1, Len(s))[i] = s[i]
        /\ SubSeq(t, 1, Len(s)) \in Seq(T) /\ Len(SubSeq(t, 1, Len(s))) = Len(s)
        /\ \A i \in 1 .. Len(s) : SubSeq(t, 1, Len(s))[i] = t[i]
    BY <2>1, SubSeqFacts
  <2> DEFINE a == SubSeq(s, 1, Len(s))
             b == SubSeq(t, 1, Len(s))
  <2>3. a \in Seq(T) /\ b \in Seq(T) /\ Len(a) = Len(b) /\ \A i \in 1 .. Len(a) : a[i] = b[i]
    BY <2>2
  <2> HIDE DEF a, b
  <2>4. a = b
    BY <2>3
  <2> QED
    BY <2>4 DEF IsPrefix, a, b
<1> QED
  BY <1>1, <1>2

\* What the invariant says of the streams and of the handlers.
LEMMA NetInvImplies == NetInv => StreamInOrder /\ NoNestedPoll
<1> SUFFICES ASSUME NetInv PROVE StreamInOrder /\ NoNestedPoll
  OBVIOUS
<1>1. ASSUME NEW p \in Ports PROVE IsPrefix(taken[p], peer[p].sent)
  <2>1. taken[p] \in Seq(Token) /\ peer[p].sent \in Seq(Token)
    BY DEF NetInv, NetTypes, PeerType
  <2>2. /\ Len(taken[p]) <= Len(peer[p].sent)
        /\ \A i \in DOMAIN taken[p] : taken[p][i] = peer[p].sent[i]
    BY DEF NetInv, PeersInv
  <2> QED
    BY <2>1, <2>2, PrefixFacts
<1> QED
  BY <1>1 DEF StreamInOrder, NoNestedPoll, NetInv, GatewayInv

LEMMA TcpInitFacts == TcpInit => NetInv
<1> SUFFICES ASSUME TcpInit PROVE NetInv
  OBVIOUS
<1> USE DEF TcpInit
<1>1. NetTypes
  <2>1. 0 \in 0 .. PortMax
    BY TcpAssumption
  <2> QED
    <3> DEFINE nothing == <<>>
    <3>3. nothing \in Seq(Token) /\ nothing \in Seq(FrameType)
      OBVIOUS
    <3>4. taken = [p \in Ports |-> nothing] /\ ring = nothing
      OBVIOUS
    <3> HIDE DEF nothing
    <3>1. /\ ring \in Seq(FrameType) /\ gateway \in BOOLEAN /\ nested \in BOOLEAN
          /\ slots \in [1 .. TCP_MAX_CONNECTIONS -> Conns \cup {NoConn}]
          /\ taken \in [Ports -> Seq(Token)]
      BY <3>3, <3>4
    <3>2. port \in 0 .. PortMax /\ conn \in [Conns -> ConnType] /\ peer \in [Ports -> PeerType]
      BY <2>1, FreshFacts
    <3> QED
      BY <3>1, <3>2 DEF NetTypes
<1>2. PortsInv
  BY FreshFacts DEF PortsInv, Closed
<1>3. GatewayInv /\ RingInv /\ ExpectsInv
  BY FreshFacts DEF GatewayInv, RingInv, ExpectsInv, Closed
<1>4. PeersInv
  BY FreshFacts DEF PeersInv
<1> QED
  BY <1>1, <1>2, <1>3, <1>4 DEF NetInv

------------------------------------------------------------------------------
(***************************************************************************)
(* The invariant: commands                                                 *)
(***************************************************************************)
Steps == {"arp", "dns", "dns_wait", "pool", "wait_http", "request", "answer", "return",
          "close_http", "call", "wait_irc", "login", "quit", "close_irc", "forget", "irc", "pong"}

\* Some steps only ever come first, and a command resolves one name at most.
Tidy(s) ==
    /\ s \in Seq(Steps)
    /\ \A i \in 2 .. Len(s) :
          /\ s[i] \notin {"wait_http", "close_http", "answer"}
          /\ s[i] = "return" => i = 2 /\ s[1] = "close_http"
    /\ \A i, j \in DOMAIN s : s[i] = "dns" /\ s[j] = "dns" => i = j

Resolves(s) == \E i \in DOMAIN s : s[i] = "dns"

ScriptInv ==
    /\ Tidy(script)
    /\ calls \in 0 .. MaxCalls
    /\ dns \in [n : 0 .. calls, done : BOOLEAN, answer : Nat]
    /\ Resolves(script) => dns.n < calls

\* Answers carry the number of a query that left, and the query's own address.
DnsInv ==
    /\ asked \subseteq 1 .. dns.n
    /\ ~gateway => asked = {}
    /\ \A i \in DOMAIN ring : ring[i].kind = "dns" =>
            ring[i].tok.n \in asked /\ ring[i].port = ring[i].tok.n % IdMod
    /\ DnsAnswerIsOurs

------------------------------------------------------------------------------
(***************************************************************************)
(* The invariant: the HTTP client                                          *)
(***************************************************************************)
First(step) == script # <<>> /\ Head(script) = step

\* The pool's connection, while it is made and once it is.
Owning == pool.active \/ First("wait_http")

PoolInv ==
    /\ pool \in [active : BOOLEAN, abandoned : BOOLEAN]
    /\ First("wait_http") => ~pool.active
    /\ \A i, j \in DOMAIN slots : slots[i] = "http" /\ slots[j] = "http" => i = j
    /\ (\E i \in DOMAIN slots : slots[i] = "http") <=> Owning

PageType == [r : Nat, cap : Nat, head : BOOLEAN, need : Nat, close : BOOLEAN, got : Seq(Token)]

PageTypes == page \in PageType

\* The request has left, and the command has not returned with its page.
Returning == First("close_http") /\ Len(script) >= 2 /\ script[2] = "return"
Waiting == First("answer") \/ Returning

\* No page has begun but while its answer is awaited or returned.
PageInv ==
    /\ ~Waiting /\ ~First("return") => ~page.head /\ page.got = <<>>
    /\ Len(page.got) <= page.cap
    /\ ~page.head => page.got = <<>>
    /\ page.head => Len(page.got) <= page.need

\* rx_buf x holds the last of the tokens t that came of the stream s.
Kept(x, t) == Len(t) - Len(x)
Holds(x, t, s) == Len(x) <= Len(t) /\ \A i \in DOMAIN x : x[i] = s[Kept(x, t) + i]

\* Of the stream s, what follows the first n tokens: a head comes only while a
\* request is out, then it is that request's own, and nothing but its body
\* follows it.
OursFollows(s, n, request, out) ==
    LET Unread == {i \in DOMAIN s : i > n}
    IN  /\ request.head => \A i \in Unread : s[i].r = request.r /\ s[i].k # "head"
        /\ \A i, j \in Unread : s[i].k = "head" /\ i < j => s[j].r = request.r /\ s[j].k # "head"
        /\ ~out => \A i \in Unread : s[i].k # "head"

\* The pool's connection serves the requests one by one.
Serves == (pool.active /\ ~pool.abandoned) \/ First("wait_http")
HttpPort == conn["http"].port
HttpRx == conn["http"].rx
HttpSent == peer[HttpPort].sent
HttpTaken == taken[HttpPort]

HttpInv ==
    Serves =>
        /\ HttpPort # 0
        /\ Holds(HttpRx, HttpTaken, HttpSent)
        /\ OursFollows(HttpSent, Kept(HttpRx, HttpTaken), page, Waiting)
        /\ \A i \in DOMAIN page.got : page.got[i].r = page.r
        /\ First("wait_http") => HttpSent = <<>>

------------------------------------------------------------------------------
(***************************************************************************)
(* The invariant: the IRC client                                           *)
(***************************************************************************)
ChatType == [active : BOOLEAN, chans : Seq(Channels \X Nat), parse : Seq(Token),
             q : [0 .. IRC_QUEUE_SIZE - 1 -> Seq(Token)],
             head : 0 .. IRC_QUEUE_SIZE - 1, count : 0 .. IRC_QUEUE_SIZE]

ChatTypes == chat \in ChatType /\ left \in Seq(Token) /\ fresh \in Seq(Seq(Token))

\* All that comes from the server or is left of it is of this connection.
IrcPort == conn["irc"].port
OfHere(s) == \A i \in DOMAIN s : s[i].r = IrcPort

\* Tokens left to parse are parsed before anything else is done.
SessionInv ==
    /\ left # <<>> => script \in {<<"irc">>, <<"pong", "irc">>}
    /\ IrcPort # 0 => OfHere(peer[IrcPort].sent)
    /\ OfHere(conn["irc"].rx) /\ OfHere(left)
    /\ LinesOfThisSession

Inv ==
    /\ NetInv /\ ScriptInv /\ DnsInv
    /\ PoolInv /\ PageTypes /\ PageInv /\ HttpInv
    /\ ChatTypes /\ SessionInv /\ QueueIsNewest

------------------------------------------------------------------------------
(***************************************************************************)
(* Scripts                                                                 *)
(***************************************************************************)
\* Steps that a step of a command may be replaced by.
Ahead(s) ==
    /\ s \in Seq(Steps)
    /\ \A i \in DOMAIN s : s[i] # "dns"
    /\ \A i \in 2 .. Len(s) :
          /\ s[i] \notin {"wait_http", "close_http", "answer"}
          /\ s[i] = "return" => i = 2 /\ s[1] = "close_http"

\* Steps a command may begin with.
Begins(s) ==
    /\ s \in Seq(Steps)
    /\ \A i \in DOMAIN s : s[i] \notin {"wait_http", "close_http", "answer", "return"}
    /\ \A i, j \in DOMAIN s : s[i] = "dns" /\ s[j] = "dns" => i = j

\* The first step is taken, and others come before those that were left.
LEMMA DoFacts ==
    ASSUME Tidy(script), script # <<>>, NEW s, Ahead(s), Do(s),
           s = <<>> \/ script[1] # "close_http"
    PROVE  /\ Tidy(script')
           /\ Resolves(script') => Resolves(script) /\ script[1] # "dns"
           /\ s = <<>> => /\ \A i \in DOMAIN script' :
                                i + 1 \in DOMAIN script /\ script'[i] = script[i + 1]
                          /\ \A i \in DOMAIN script : i > 1 => i - 1 \in DOMAIN script'
           /\ s # <<>> => script' # <<>> /\ \A i \in DOMAIN s : i \in DOMAIN script' /\ script'[i] = s[i]
           /\ \A i \in DOMAIN script' : i > Len(s) =>
                 /\ i - Len(s) + 1 \in 2 .. Len(script) /\ script'[i] = script[i - Len(s) + 1]
<1> DEFINE t == Tail(script)
<1>1. /\ script \in Seq(Steps) /\ s \in Seq(Steps) /\ script' = s \o t
      /\ DOMAIN script = 1 .. Len(script) /\ Len(script) \in Nat /\ Len(script) >= 1
      /\ DOMAIN s = 1 .. Len(s) /\ Len(s) \in Nat
  BY DEF Tidy, Ahead, Do
<1>2. /\ t \in Seq(Steps) /\ Len(t) = Len(script) - 1
      /\ \A i \in 1 .. Len(script) - 1 : t[i] = script[i + 1]
      /\ DOMAIN t = 1 .. Len(script) - 1
  BY <1>1, TailFacts
<1> HIDE DEF t
<1>3. /\ script' \in Seq(Steps) /\ Len(script') = Len(s) + Len(script) - 1
      /\ DOMAIN script' = 1 .. Len(s) + Len(script) - 1
      /\ \A i \in 1 .. Len(s) : script'[i] = s[i]
      /\ \A i \in Len(s) + 1 .. Len(s) + Len(script) - 1 : script'[i] = t[i - Len(s)]
  <2>3. s \in Seq(Steps) /\ t \in Seq(Steps)
    BY <1>1, <1>2
  <2>0. /\ s \o t \in Seq(Steps) /\ Len(s \o t) = Len(s) + Len(t)
        /\ DOMAIN (s \o t) = 1 .. Len(s) + Len(t)
        /\ \A i \in 1 .. Len(s) : (s \o t)[i] = s[i]
        /\ \A i \in Len(s) + 1 .. Len(s) + Len(t) : (s \o t)[i] = t[i - Len(s)]
    BY <2>3, ConcatFacts
  <2>1. /\ script' \in Seq(Steps) /\ Len(script') = Len(s) + Len(t)
        /\ DOMAIN script' = 1 .. Len(s) + Len(t)
        /\ \A i \in 1 .. Len(s) : script'[i] = s[i]
        /\ \A i \in Len(s) + 1 .. Len(s) + Len(t) : script'[i] = t[i - Len(s)]
    BY <1>1, <2>0
  <2>2. Len(s) + Len(t) = Len(s) + Len(script) - 1
    BY <1>1, <1>2
  <2> QED
    BY <2>1, <2>2
<1>4. \A i \in DOMAIN script' : i > Len(s) =>
          /\ i - Len(s) + 1 \in 2 .. Len(script) /\ script'[i] = script[i - Len(s) + 1]
  <2> SUFFICES ASSUME NEW i \in DOMAIN script', i > Len(s)
               PROVE  /\ i - Len(s) + 1 \in 2 .. Len(script)
                      /\ script'[i] = script[i - Len(s) + 1]
    OBVIOUS
  <2>1. i - Len(s) \in 1 .. Len(script) - 1 /\ i \in Len(s) + 1 .. Len(s) + Len(script) - 1
    BY <1>1, <1>3
  <2>2. script'[i] = t[i - Len(s)] /\ t[i - Len(s)] = script[(i - Len(s)) + 1]
    BY <1>2, <1>3, <2>1
  <2> QED
    BY <1>1, <1>3, <2>1, <2>2
<1>5. \A i \in 2 .. Len(script) :
          /\ script[i] \notin {"wait_http", "close_http", "answer"}
          /\ script[i] = "return" => i = 2 /\ script[1] = "close_http"
  BY DEF Tidy
<1>6. \A i \in 2 .. Len(s) :
          /\ s[i] \notin {"wait_http", "close_http", "answer"}
          /\ s[i] = "return" => i = 2 /\ s[1] = "close_http"
  BY DEF Ahead
<1>7. ASSUME NEW i \in 2 .. Len(script')
      PROVE  /\ script'[i] \notin {"wait_http", "close_http", "answer"}
             /\ script'[i] = "return" => i = 2 /\ script'[1] = "close_http"
  <2>1. CASE i <= Len(s)
    <3>1. i \in 2 .. Len(s) /\ 1 \in 1 .. Len(s) /\ i \in 1 .. Len(s)
      BY <1>1, <2>1
    <3> QED
      BY <1>3, <1>6, <3>1
  <2>2. CASE i > Len(s)
    <3>1. i \in DOMAIN script'
      BY <1>3
    <3>2. i - Len(s) + 1 \in 2 .. Len(script) /\ script'[i] = script[i - Len(s) + 1]
      BY <1>4, <2>2, <3>1
    <3>3. script'[i] # "return"
      <4>1. CASE s = <<>>
        <5>1. Len(s) = 0
          BY <4>1
        <5> QED
          BY <1>1, <1>5, <3>2, <5>1
      <4>2. CASE script[1] # "close_http"
        BY <1>5, <3>2, <4>2
      <4> QED
        BY <4>1, <4>2
    <3> QED
      BY <1>5, <3>2, <3>3
  <2> QED
    BY <1>1, <2>1, <2>2
<1>8. ASSUME NEW i \in DOMAIN script', script'[i] = "dns"
      PROVE  /\ i > Len(s) /\ i - Len(s) + 1 \in 2 .. Len(script)
             /\ script[i - Len(s) + 1] = "dns"
  <2>1. i > Len(s)
    BY <1>1, <1>3, <1>8 DEF Ahead
  <2> QED
    BY <1>4, <1>8, <2>1
<1>9. \A i, j \in DOMAIN script : script[i] = "dns" /\ script[j] = "dns" => i = j
  BY DEF Tidy
<1>10. Tidy(script')
  <2>1. ASSUME NEW i \in DOMAIN script', NEW j \in DOMAIN script', script'[i] = "dns", script'[j] = "dns"
        PROVE  i = j
    <3>1. i - Len(s) + 1 = j - Len(s) + 1
      BY <1>1, <1>8, <1>9, <2>1
    <3> QED
      BY <1>1, <1>3, <3>1
  <2> QED
    BY <1>3, <1>7, <2>1 DEF Tidy
<1>11. Resolves(script') => Resolves(script) /\ script[1] # "dns"
  <2>1. ASSUME NEW i \in DOMAIN script', script'[i] = "dns"
        PROVE  Resolves(script) /\ script[1] # "dns"
    <3>1. i - Len(s) + 1 \in 2 .. Len(script) /\ script[i - Len(s) + 1] = "dns"
      BY <1>8, <2>1
    <3>2. i - Len(s) + 1 # 1 /\ i - Len(s) + 1 \in DOMAIN script /\ 1 \in DOMAIN script
      BY <1>1, <3>1
    <3> QED
      BY <1>9, <3>1, <3>2 DEF Resolves
  <2> QED
    BY <2>1 DEF Resolves
<1>12. s = <<>> => /\ \A i \in DOMAIN script' :
                          i + 1 \in DOMAIN script /\ script'[i] = script[i + 1]
                   /\ \A i \in DOMAIN script : i > 1 => i - 1 \in DOMAIN script'
  <2> SUFFICES ASSUME s = <<>>
               PROVE  /\ \A i \in DOMAIN script' :
                            i + 1 \in DOMAIN script /\ script'[i] = script[i + 1]
                      /\ \A i \in DOMAIN script : i > 1 => i - 1 \in DOMAIN script'
    OBVIOUS
  <2>1. Len(s) = 0
    OBVIOUS
  <2> QED
    BY <1>1, <1>3, <1>4, <2>1
<1>13. s # <<>> => /\ script' # <<>>
                   /\ \A i \in DOMAIN s : i \in DOMAIN script' /\ script'[i] = s[i]
  <2> SUFFICES ASSUME s # <<>>
               PROVE  /\ script' # <<>>
                      /\ \A i \in DOMAIN s : i \in DOMAIN script' /\ script'[i] = s[i]
    OBVIOUS
  <2>1. Len(s) >= 1
    BY <1>1
  <2> QED
    BY <1>1, <1>3, <2>1
<1> QED
  BY <1>4, <1>10, <1>11, <1>12, <1>13

LEMMA BeginsFacts ==
    ASSUME NEW a, NEW b, Begins(a), Begins(b), ~(Resolves(a) /\ Resolves(b))
    PROVE  Begins(a \o b)
<1>1. a \in Seq(Steps) /\ b \in Seq(Steps)
  BY DEF Begins
<1>2. /\ a \o b \in Seq(Steps) /\ DOMAIN (a \o b) = 1 .. Len(a) + Len(b)
      /\ \A i \in 1 .. Len(a) : (a \o b)[i] = a[i]
      /\ \A i \in Len(a) + 1 .. Len(a) + Len(b) : (a \o b)[i] = b[i - Len(a)]
  BY <1>1, ConcatFacts
<1>3. /\ DOMAIN a = 1 .. Len(a) /\ DOMAIN b = 1 .. Len(b) /\ Len(a) \in Nat /\ Len(b) \in Nat
  BY <1>1
<1> DEFINE c == a \o b
<1> HIDE DEF c
<1>4. ASSUME NEW i \in DOMAIN c
      PROVE  \/ i \in DOMAIN a /\ c[i] = a[i]
             \/ i - Len(a) \in DOMAIN b /\ c[i] = b[i - Len(a)] /\ i \in Nat
  <2>1. i \in 1 .. Len(a) \/ i \in Len(a) + 1 .. Len(a) + Len(b)
    BY <1>2, <1>3 DEF c
  <2>2. CASE i \in 1 .. Len(a)
    BY <1>2, <1>3, <2>2 DEF c
  <2>3. CASE i \in Len(a) + 1 .. Len(a) + Len(b)
    BY <1>2, <1>3, <2>3 DEF c
  <2> QED
    BY <2>1, <2>2, <2>3
<1>5. \A i \in DOMAIN c : c[i] \notin {"wait_http", "close_http", "answer", "return"}
  BY <1>4 DEF Begins
<1>6. ASSUME NEW i \in DOMAIN c, NEW j \in DOMAIN c, c[i] = "dns", c[j] = "dns"
      PROVE  i = j
  <2>1. CASE i \in DOMAIN a /\ c[i] = a[i]
    <3>1. ~Resolves(b)
      BY <1>6, <2>1 DEF Resolves
    <3>2. j \in DOMAIN a /\ c[j] = a[j]
      BY <1>4, <1>6, <3>1 DEF Resolves
    <3> QED
      BY <1>6, <2>1, <3>2 DEF Begins
  <2>2. CASE i - Len(a) \in DOMAIN b /\ c[i] = b[i - Len(a)] /\ i \in Nat
    <3>1. ~Resolves(a)
      BY <1>6, <2>2 DEF Resolves
    <3>2. j - Len(a) \in DOMAIN b /\ c[j] = b[j - Len(a)] /\ j \in Nat
      BY <1>4, <1>6, <3>1 DEF Resolves
    <3>3. i - Len(a) = j - Len(a)
      BY <1>6, <2>2, <3>2 DEF Begins
    <3> QED
      BY <1>3, <2>2, <3>2, <3>3
  <2> QED
    BY <1>4, <2>1, <2>2
<1> QED
  BY <1>2, <1>5, <1>6 DEF Begins, c

\* The steps of the model's commands and of its replies to a step.
LEMMA BeginFacts ==
    /\ Begins(<<>>) /\ Begins(<<"arp">>) /\ Begins(<<"dns">>) /\ Begins(<<"pool">>)
    /\ Begins(<<"call">>) /\ Begins(<<"quit">>)
    /\ Begins(<<"forget">>) /\ Begins(<<"close_irc", "forget">>)
    /\ ~Resolves(<<>>) /\ ~Resolves(<<"arp">>) /\ ~Resolves(<<"pool">>)
    /\ ~Resolves(<<"call">>) /\ ~Resolves(<<"quit">>)
    /\ ~Resolves(<<"forget">>) /\ ~Resolves(<<"close_irc", "forget">>)
BY DEF Begins, Resolves, Steps

LEMMA AheadFacts ==
    /\ Ahead(<<>>) /\ Ahead(<<"dns_wait">>) /\ Ahead(<<"request">>) /\ Ahead(<<"close_http">>)
    /\ Ahead(<<"close_http", "pool">>) /\ Ahead(<<"wait_http", "request">>)
    /\ Ahead(<<"answer">>) /\ Ahead(<<"return">>) /\ Ahead(<<"close_http", "return">>)
    /\ Ahead(<<"forget">>) /\ Ahead(<<"close_irc", "forget">>)
    /\ Ahead(<<"wait_irc", "login">>)
BY DEF Ahead, Steps

\* A command starts with steps it may begin with.
LEMMA CommandFacts ==
    ASSUME NEW s, Begins(s), Command(s)
    PROVE  Begins(script')
<1>1. script' = (IF gateway THEN <<>> ELSE <<"arp">>) \o s
  BY DEF Command
<1> DEFINE first == IF gateway THEN <<>> ELSE <<"arp">>
<1>2. Begins(first) /\ ~Resolves(first)
  BY BeginFacts
<1> HIDE DEF first
<1>3. Begins(first \o s)
  BY <1>2, BeginsFacts
<1> QED
  BY <1>1, <1>3 DEF first

\* What the first steps of the script say of the request in hand.
LEMMA DoShape ==
    ASSUME Tidy(script), script # <<>>, NEW s, Ahead(s), Do(s),
           s = <<>> \/ script[1] # "close_http"
    PROVE  /\ s = <<>> => /\ ~First("wait_http")' /\ ~First("answer")' /\ ~Returning'
                          /\ First("return")' => Returning
           /\ s # <<>> => /\ \A step : First(step)' <=> s[1] = step
                          /\ Returning' <=> s[1] = "close_http" /\ Len(s) >= 2 /\ s[2] = "return"
<1>1. /\ script \in Seq(Steps) /\ DOMAIN script = 1 .. Len(script) /\ Len(script) \in Nat
      /\ Head(script) = script[1]
      /\ script' \in Seq(Steps) /\ DOMAIN script' = 1 .. Len(script') /\ Len(script') \in Nat
      /\ script' # <<>> => Head(script') = script'[1] /\ 1 \in DOMAIN script'
      /\ s \in Seq(Steps) /\ DOMAIN s = 1 .. Len(s) /\ Len(s) \in Nat
  BY DoFacts, TailFacts DEF Tidy, Ahead
<1>2. CASE s = <<>>
  <2>1. \A i \in DOMAIN script' : i + 1 \in DOMAIN script /\ script'[i] = script[i + 1]
    BY <1>2, DoFacts
  <2>2. script' # <<>> => 2 \in 2 .. Len(script) /\ Len(script) >= 2 /\ script'[1] = script[2]
    BY <1>1, <2>1
  <2>3. script' # <<>> => /\ script'[1] \notin {"wait_http", "close_http", "answer"}
                          /\ script'[1] = "return" => script[1] = "close_http"
    BY <2>2 DEF Tidy
  <2> QED
    BY <1>1, <1>2, <2>2, <2>3 DEF First, Returning
<1>3. CASE s # <<>>
  <2>1. script' # <<>> /\ \A i \in DOMAIN s : i \in DOMAIN script' /\ script'[i] = s[i]
    BY <1>3, DoFacts
  <2>2. 1 \in DOMAIN s
    BY <1>1, <1>3
  <2>3. \A step : First(step)' <=> s[1] = step
    BY <1>1, <2>1, <2>2 DEF First
  <2>4. ASSUME Returning' PROVE s[1] = "close_http" /\ Len(s) >= 2 /\ s[2] = "return"
    <3>1. script'[1] = "close_http" /\ Len(script') >= 2 /\ script'[2] = "return"
      BY <1>1, <2>4 DEF Returning, First
    <3>2. CASE Len(s) >= 2
      <4>1. 2 \in DOMAIN s
        BY <1>1, <3>2
      <4> QED
        BY <2>1, <2>2, <3>1, <3>2, <4>1
    <3>3. CASE ~(Len(s) >= 2)
      <4>1. Len(s) = 1 /\ 2 \in DOMAIN script'
        BY <1>1, <2>2, <3>1, <3>3
      <4>2. \A i \in DOMAIN script' : i > Len(s) =>
                 /\ i - Len(s) + 1 \in 2 .. Len(script) /\ script'[i] = script[i - Len(s) + 1]
        BY DoFacts
      <4>3. 2 \in 2 .. Len(script) /\ script[2] = "return"
        BY <3>1, <4>1, <4>2
      <4>4. script[1] = "close_http"
        BY <4>3 DEF Tidy
      <4> QED
        BY <1>3, <4>4
    <3> QED
      BY <3>2, <3>3
  <2>5. ASSUME s[1] = "close_http", Len(s) >= 2, s[2] = "return" PROVE Returning'
    <3>1. 2 \in DOMAIN s
      BY <1>1, <2>5
    <3>2. script'[2] = "return" /\ 2 \in DOMAIN script'
      BY <2>1, <2>5, <3>1
    <3> QED
      BY <1>1, <2>3, <2>5, <3>2 DEF Returning
  <2> QED
    BY <1>3, <2>3, <2>4, <2>5
<1> QED
  BY <1>2, <1>3

\* A command, or none, has no request in hand.
LEMMA BeginShape ==
    ASSUME Begins(script')
    PROVE  /\ Tidy(script')
           /\ ~First("wait_http")' /\ ~First("answer")' /\ ~Returning' /\ ~First("return")'
<1>1. script' \in Seq(Steps) /\ (script' # <<>> => Head(script') = script'[1] /\ 1 \in DOMAIN script')
  BY DEF Begins
<1> QED
  BY <1>1 DEF Begins, Tidy, First, Returning

------------------------------------------------------------------------------
(***************************************************************************)
(* One pass of the HTTP client over the received tokens                    *)
(***************************************************************************)
\* A pass takes the first m tokens of rx; the page holds tokens it held before
\* or tokens that follow its head.
Passes(rx, p, rest, m) ==
    /\ p \in PageType /\ rest \in Seq(Token) /\ m \in 0 .. Len(rx) /\ Len(rest) = Len(rx) - m
    /\ \A i \in DOMAIN rest : rest[i] = rx[m + i]
    /\ p.r = page.r /\ p.cap = page.cap
    /\ Len(p.got) <= p.cap /\ (p.head => Len(p.got) <= p.need)
    /\ \/ /\ ~page.head /\ ~p.head /\ p = page /\ m = 0
          /\ \A i \in DOMAIN rx : rx[i].k # "head"
       \/ /\ page.head /\ p.head
          /\ \A i \in DOMAIN p.got : \/ i \in DOMAIN page.got /\ p.got[i] = page.got[i]
                                     \/ \E j \in DOMAIN rx : p.got[i] = rx[j]
       \/ /\ ~page.head /\ p.head
          /\ \E h \in 1 .. m : /\ rx[h].k = "head"
                               /\ \A i \in DOMAIN p.got : \E j \in DOMAIN rx : j > h /\ p.got[i] = rx[j]

LEMMA LowestOfThree ==
    ASSUME NEW a \in Nat, NEW b \in Nat, NEW c \in Nat
    PROVE  /\ LowestOf({a, b, c}) \in Nat
           /\ LowestOf({a, b, c}) <= a /\ LowestOf({a, b, c}) <= b /\ LowestOf({a, b, c}) <= c
<1> DEFINE S == {a, b, c}
<1>1. S \in SUBSET Nat /\ S # {} /\ a \in S /\ b \in S /\ c \in S
  OBVIOUS
<1> HIDE DEF S
<1>2. LowestOf(S) \in S /\ \A j \in S : LowestOf(S) <= j
  BY <1>1, LowestFacts
<1> QED
  BY <1>1, <1>2 DEF S

LEMMA PassFacts ==
    ASSUME PageTypes, NEW rx \in Seq(Token), Len(page.got) <= page.cap,
           ~page.head => page.got = <<>>, page.head => Len(page.got) <= page.need
    PROVE  \E m \in 0 .. Len(rx) : Passes(rx, HttpPass(rx).page, HttpPass(rx).rest, m)
<1> DEFINE heads == {i \in DOMAIN rx : rx[i].k = "head"}
           h == LowestOf(heads)
           begun == page.head \/ heads # {}
           body == IF page.head THEN rx ELSE SubSeq(rx, h + 1, Len(rx))
           p == IF page.head \/ ~begun THEN page
                ELSE [page EXCEPT !.head = TRUE, !.need = rx[h].n, !.close = rx[h].n = Endless]
           k == LowestOf({p.need - Len(p.got), p.cap - Len(p.got), Len(body)})
           more == SubSeq(body, 1, k)
           all == p.got \o more
           rest == SubSeq(body, k + 1, Len(body))
           new == [p EXCEPT !.got = all]
<1>1. HttpPass(rx) = IF ~begun THEN [page |-> page, rest |-> rx] ELSE [page |-> new, rest |-> rest]
  BY DEF HttpPass
<1> HIDE DEF p, body, begun
<1>2. /\ page \in PageType /\ page.got \in Seq(Token) /\ Len(page.got) \in Nat
      /\ page.need \in Nat /\ page.cap \in Nat /\ page.head \in BOOLEAN
      /\ DOMAIN rx = 1 .. Len(rx) /\ Len(rx) \in Nat
  BY DEF PageTypes, PageType
<1>3. CASE ~begun
  <2>1. HttpPass(rx).page = page /\ HttpPass(rx).rest = rx
    BY <1>1, <1>3
  <2>2. Passes(rx, page, rx, 0)
    <3>1. ~page.head /\ \A i \in DOMAIN rx : rx[i].k # "head"
      BY <1>3 DEF begun
    <3> QED
      BY <1>2, <3>1 DEF Passes
  <2> QED
    BY <1>2, <2>1, <2>2
<1>4. ASSUME begun, NEW off \in 0 .. Len(rx), p \in PageType, body \in Seq(Token), p.head, p.r = page.r, p.cap = page.cap, p.got = page.got,
             Len(p.got) <= p.need, Len(body) = Len(rx) - off,
             \A i \in DOMAIN body : body[i] = rx[off + i],
             ~page.head => off # 0 /\ rx[off].k = "head"
      PROVE  \E m \in 0 .. Len(rx) : Passes(rx, HttpPass(rx).page, HttpPass(rx).rest, m)
  <2>1. HttpPass(rx).page = new /\ HttpPass(rx).rest = rest
    <3> HIDE DEF new, rest
    <3> QED
      BY <1>1, <1>4
  <2>12. body \in Seq(Token)
    BY <1>4
  <2>2. /\ k \in Nat /\ k <= p.need - Len(p.got) /\ k <= p.cap - Len(p.got) /\ k <= Len(body)
        /\ p.need \in Nat /\ p.cap \in Nat /\ Len(p.got) \in Nat /\ Len(body) \in Nat
    <3>1. p.need \in Nat /\ p.cap \in Nat /\ Len(p.got) \in Nat /\ Len(body) \in Nat
      BY <1>2, <1>4 DEF PageType
    <3>2. Len(p.got) <= p.need /\ Len(p.got) <= p.cap
      BY <1>4
    <3>3. p.need - Len(p.got) \in Nat /\ p.cap - Len(p.got) \in Nat
      BY <3>1, <3>2
    <3> QED
      BY <3>1, <3>3, LowestOfThree
  <2> HIDE DEF k
  <2>3. /\ more \in Seq(Token) /\ Len(more) = k
        /\ \A i \in 1 .. k : more[i] = body[i]
    <3>1. 1 \in 1 .. Len(body) + 1 /\ k \in 1 - 1 .. Len(body)
      BY <2>2
    <3>2. /\ SubSeq(body, 1, k) \in Seq(Token) /\ Len(SubSeq(body, 1, k)) = k - 1 + 1
          /\ \A i \in 1 .. k - 1 + 1 : SubSeq(body, 1, k)[i] = body[1 + i - 1]
      BY <2>12, <3>1, SubSeqFacts
    <3> QED
      BY <2>2, <3>2
  <2>4. /\ rest \in Seq(Token) /\ Len(rest) = Len(body) - k
        /\ \A i \in 1 .. Len(body) - k : rest[i] = body[k + i]
    <3>1. k + 1 \in 1 .. Len(body) + 1 /\ Len(body) \in (k + 1) - 1 .. Len(body)
      BY <2>2
    <3>2. /\ SubSeq(body, k + 1, Len(body)) \in Seq(Token)
          /\ Len(SubSeq(body, k + 1, Len(body))) = Len(body) - (k + 1) + 1
          /\ \A i \in 1 .. Len(body) - (k + 1) + 1 :
                 SubSeq(body, k + 1, Len(body))[i] = body[(k + 1) + i - 1]
      BY <2>12, <3>1, SubSeqFacts
    <3> QED
      BY <2>2, <3>2
  <2> HIDE DEF more, rest
  <2>5. /\ all \in Seq(Token) /\ Len(all) = Len(p.got) + k
        /\ DOMAIN all = 1 .. Len(p.got) + k
        /\ \A i \in 1 .. Len(p.got) : all[i] = p.got[i]
        /\ \A i \in Len(p.got) + 1 .. Len(p.got) + k : all[i] = more[i - Len(p.got)]
    <3> DEFINE g == p.got
    <3>1. g \in Seq(Token) /\ more \in Seq(Token)
      BY <1>2, <1>4, <2>3
    <3> HIDE DEF g
    <3>2. /\ g \o more \in Seq(Token) /\ Len(g \o more) = Len(g) + Len(more)
          /\ DOMAIN (g \o more) = 1 .. Len(g) + Len(more)
          /\ \A i \in 1 .. Len(g) : (g \o more)[i] = g[i]
          /\ \A i \in Len(g) + 1 .. Len(g) + Len(more) : (g \o more)[i] = more[i - Len(g)]
      BY <3>1, ConcatFacts
    <3>3. all = g \o more
      BY DEF g
    <3> HIDE DEF all
    <3>4. /\ all \in Seq(Token) /\ Len(all) = Len(g) + k
          /\ DOMAIN all = 1 .. Len(g) + k
          /\ \A i \in 1 .. Len(g) : all[i] = g[i]
          /\ \A i \in Len(g) + 1 .. Len(g) + k : all[i] = more[i - Len(g)]
      BY <2>3, <3>2, <3>3
    <3> QED
      BY <3>4 DEF g
  <2> HIDE DEF all
  <2>6. /\ new \in PageType /\ new.r = page.r /\ new.cap = page.cap /\ new.head = TRUE
        /\ new.need = p.need /\ new.got = all
    BY <1>4, <2>5 DEF PageType
  <2> HIDE DEF new
  <2>7. \A i \in DOMAIN all : \/ i \in DOMAIN page.got /\ all[i] = page.got[i]
                              \/ \E j \in DOMAIN rx : j > off /\ all[i] = rx[j]
    <3> SUFFICES ASSUME NEW i \in DOMAIN all
                 PROVE  \/ i \in DOMAIN page.got /\ all[i] = page.got[i]
                        \/ \E j \in DOMAIN rx : j > off /\ all[i] = rx[j]
      OBVIOUS
    <3>1. /\ DOMAIN page.got = 1 .. Len(page.got) /\ i \in 1 .. Len(page.got) + k
          /\ \A j \in 1 .. Len(page.got) : all[j] = page.got[j]
          /\ \A j \in Len(page.got) + 1 .. Len(page.got) + k : all[j] = more[j - Len(page.got)]
      BY <1>2, <1>4, <2>5
    <3>2. CASE i <= Len(page.got)
      BY <1>2, <3>1, <3>2
    <3>3. CASE i > Len(page.got)
      <4> DEFINE j == i - Len(page.got)
      <4>5. i \in Len(page.got) + 1 .. Len(page.got) + k
        BY <1>2, <2>2, <3>1, <3>3
      <4>6. all[i] = more[j]
        BY <3>1, <4>5
      <4>7. j \in 1 .. k
        BY <1>2, <2>2, <4>5
      <4>1. j \in 1 .. k /\ all[i] = more[j]
        BY <4>6, <4>7
      <4> HIDE DEF j
      <4>2. all[i] = body[j] /\ j \in DOMAIN body
        BY <1>4, <2>2, <2>3, <4>1
      <4>3. off + j \in DOMAIN rx /\ off + j > off
        BY <1>2, <1>4, <2>2, <4>1
      <4>4. all[i] = rx[off + j]
        BY <1>4, <4>2
      <4> QED
        BY <4>3, <4>4
    <3> QED
      BY <1>2, <2>2, <3>1, <3>2, <3>3
  <2>8. off + k \in 0 .. Len(rx) /\ Len(rest) = Len(rx) - (off + k)
    BY <1>2, <1>4, <2>2, <2>4
  <2>9. \A i \in DOMAIN rest : rest[i] = rx[off + k + i]
    <3> SUFFICES ASSUME NEW i \in DOMAIN rest PROVE rest[i] = rx[off + k + i]
      OBVIOUS
    <3> DEFINE j == k + i
    <3>4. DOMAIN rest = 1 .. Len(body) - k
      BY <2>2, <2>4
    <3>1. i \in 1 .. Len(body) - k /\ j \in 1 .. Len(body) /\ rest[i] = body[j] /\ i \in Nat
      BY <2>2, <2>4, <3>4
    <3>2. off + j = off + k + i
      BY <1>4, <2>2, <3>1
    <3> HIDE DEF j
    <3>3. body[j] = rx[off + j]
      BY <1>4, <3>1
    <3> QED
      BY <3>1, <3>2, <3>3
  <2>10. Len(new.got) <= new.cap /\ Len(new.got) <= new.need
    BY <1>4, <2>2, <2>5, <2>6
  <2>11. Passes(rx, new, rest, off + k)
    <3>1. CASE page.head
      BY <1>2, <2>4, <2>6, <2>7, <2>8, <2>9, <2>10, <3>1 DEF Passes
    <3>2. CASE ~page.head
      <4>1. off \in 1 .. off + k /\ rx[off].k = "head"
        BY <1>2, <1>4, <2>2, <3>2
      <4>2. DOMAIN page.got = {}
        BY <3>2
      <4>3. \A i \in DOMAIN new.got : \E j \in DOMAIN rx : j > off /\ new.got[i] = rx[j]
        BY <2>6, <2>7, <4>2
      <4> QED
        BY <2>4, <2>6, <2>8, <2>9, <2>10, <3>2, <4>1, <4>3 DEF Passes
    <3> QED
      BY <3>1, <3>2
  <2> QED
    BY <2>1, <2>8, <2>11
<1>5. CASE page.head
  <2>1. p = page /\ body = rx /\ begun
    BY <1>5 DEF p, body, begun
  <2>2. 0 \in 0 .. Len(rx) /\ Len(rx) = Len(rx) - 0 /\ \A i \in DOMAIN rx : rx[i] = rx[0 + i]
    BY <1>2
  <2> QED
    BY <1>2, <1>4, <1>5, <2>1, <2>2
<1>6. CASE ~page.head /\ heads # {}
  <2>1. heads \in SUBSET Nat
    BY <1>2
  <2>9. h \in heads
    <3> HIDE DEF heads
    <3> QED
      BY <1>6, <2>1, LowestFacts
  <2> HIDE DEF h
  <2>2. h \in DOMAIN rx /\ rx[h].k = "head" /\ h \in 0 .. Len(rx) /\ h # 0
    BY <1>2, <2>9
  <2>3. /\ body \in Seq(Token) /\ Len(body) = Len(rx) - h
        /\ \A i \in DOMAIN body : body[i] = rx[h + i]
    <3>1. h + 1 \in 1 .. Len(rx) + 1 /\ Len(rx) \in (h + 1) - 1 .. Len(rx)
      BY <1>2, <2>2
    <3> DEFINE b == SubSeq(rx, h + 1, Len(rx))
    <3>2. /\ b \in Seq(Token) /\ Len(b) = Len(rx) - (h + 1) + 1
          /\ \A i \in 1 .. Len(rx) - (h + 1) + 1 : b[i] = rx[(h + 1) + i - 1]
          /\ DOMAIN b = 1 .. Len(rx) - (h + 1) + 1
      BY <3>1, SubSeqFacts
    <3>3. body = b
      BY <1>6 DEF body
    <3>4. h \in Nat /\ Len(rx) \in Nat
      BY <1>2, <2>2
    <3>5. Len(rx) - (h + 1) + 1 = Len(rx) - h /\ \A i \in 1 .. Len(rx) - h : (h + 1) + i - 1 = h + i
      BY <3>4
    <3>6. /\ b \in Seq(Token) /\ Len(b) = Len(rx) - h /\ DOMAIN b = 1 .. Len(rx) - h
          /\ \A i \in 1 .. Len(rx) - h : b[i] = rx[(h + 1) + i - 1]
      BY <3>2, <3>5
    <3> HIDE DEF b, body
    <3> QED
      BY <3>3, <3>5, <3>6
  <2> DEFINE w == rx[h].n
             end == rx[h].n = Endless
  <2>10. rx[h] \in Token
    BY <2>2
  <2>4. w \in Nat /\ end \in BOOLEAN
    BY <2>10 DEF Token
  <2>5. p = [page EXCEPT !.head = TRUE, !.need = w, !.close = end] /\ begun
    BY <1>6 DEF p, begun
  <2> HIDE DEF w, end
  <2>6. /\ p \in PageType /\ p.head = TRUE /\ p.r = page.r /\ p.cap = page.cap
        /\ p.got = page.got
    BY <1>2, <2>4, <2>5 DEF PageType
  <2>7. p.need \in Nat /\ Len(p.got) = 0
    BY <1>6, <2>6 DEF PageType
  <2>8. Len(p.got) <= p.need /\ (~page.head => h # 0 /\ rx[h].k = "head") /\ p.head
    BY <2>2, <2>6, <2>7
  <2> QED
    BY <1>4, <2>2, <2>3, <2>5, <2>6, <2>8
<1> QED
  BY <1>3, <1>5, <1>6 DEF begun

\* A response is a head and its body, all of them of the request.
LEMMA ResponseFacts ==
    ASSUME NEW r \in Nat, NEW s \in Response(r)
    PROVE  /\ s \in Seq(Token) /\ DOMAIN s = 1 .. Len(s) /\ Len(s) \in Nat
           /\ \A i \in DOMAIN s : s[i].r = r /\ (i > 1 => s[i].k # "head")
<1> DEFINE Head1(n) == <<[k |-> "head", r |-> r, n |-> n]>>
           Body(k) == [i \in 1 .. k |-> [k |-> "body", r |-> r, n |-> i]]
           Of(n, k) == Head1(n) \o Body(k)
<1>1. \E n, k \in Nat : s = Of(n, k)
  <2>1. s \in {Of(1, 1), Of(3, 3), Of(Endless, 1)}
    BY DEF Response
  <2>2. Endless \in Nat
    BY TcpAssumption DEF Endless
  <2> HIDE DEF Of
  <2> QED
    BY <2>1, <2>2
<1>2. ASSUME NEW n \in Nat, NEW k \in Nat
      PROVE  /\ Of(n, k) \in Seq(Token)
             /\ \A i \in DOMAIN Of(n, k) : Of(n, k)[i].r = r /\ (i > 1 => Of(n, k)[i].k # "head")
  <2> DEFINE head == [k |-> "head", r |-> r, n |-> n]
             a == <<head>>
             b == Body(k)
  <2>1. /\ head \in Token /\ head.r = r
    BY DEF Token, Words
  <2>2. ASSUME NEW i \in 1 .. k PROVE b[i] \in Token /\ b[i].r = r /\ b[i].k = "body"
    <3> DEFINE e == [k |-> "body", r |-> r, n |-> i]
    <3>1. e \in Token /\ e.r = r /\ e.k = "body"
      BY DEF Token, Words
    <3> HIDE DEF e
    <3>2. b[i] = e
      BY DEF e
    <3> QED
      BY <3>1, <3>2
  <2> HIDE DEF head
  <2>3. a \in Seq(Token) /\ Len(a) = 1 /\ a[1] = head
    BY <2>1
  <2>4. b \in Seq(Token) /\ Len(b) = k
    <3>1. DOMAIN b = 1 .. k /\ b = [i \in 1 .. k |-> b[i]]
      OBVIOUS
    <3> HIDE DEF b
    <3>2. b \in [1 .. k -> Token]
      BY <2>2, <3>1
    <3> QED
      BY <3>1, <3>2
  <2> HIDE DEF a, b
  <2>5. /\ a \o b \in Seq(Token) /\ DOMAIN (a \o b) = 1 .. Len(a) + Len(b)
        /\ \A i \in 1 .. Len(a) : (a \o b)[i] = a[i]
        /\ \A i \in Len(a) + 1 .. Len(a) + Len(b) : (a \o b)[i] = b[i - Len(a)]
    <3>1. a \in Seq(Token) /\ b \in Seq(Token)
      BY <2>3, <2>4
    <3> QED
      BY <3>1, ConcatFacts
  <2>6. Of(n, k) = a \o b
    BY DEF a, b, head
  <2> DEFINE c == a \o b
  <2> HIDE DEF c
  <2>7. ASSUME NEW i \in DOMAIN c PROVE c[i].r = r /\ (i > 1 => c[i].k # "head")
    <3>1. CASE i = 1
      BY <2>1, <2>3, <2>5, <3>1 DEF c
    <3>2. CASE i # 1
      <4>1. i \in Len(a) + 1 .. Len(a) + Len(b) /\ i - 1 \in 1 .. k
        BY <2>3, <2>4, <2>5, <3>2 DEF c
      <4>2. c[i] = b[i - 1]
        BY <2>3, <2>5, <4>1 DEF c
      <4> QED
        BY <2>2, <4>1, <4>2
    <3> QED
      BY <3>1, <3>2
  <2> HIDE DEF Of
  <2> QED
    BY <2>5, <2>6, <2>7 DEF c
<1> HIDE DEF Of
<1>3. s \in Seq(Token) /\ \A i \in DOMAIN s : s[i].r = r /\ (i > 1 => s[i].k # "head")
  BY <1>1, <1>2
<1> QED
  BY <1>3

------------------------------------------------------------------------------
(***************************************************************************)
(* The network under every step                                            *)
(***************************************************************************)
\* A step of a command that leaves the network alone.
Aside ==
    \/ IdlePoll \/ net_resolve_gateway \/ dns_resolve \/ dns_wait
    \/ HttpGet \/ HttpReturns \/ IrcConnect \/ IrcQuit \/ QuitSent \/ Forget \/ IrcLogin
    \/ IrcJoinPart \/ IrcRead \/ IrcPoll \/ PongSent

LEMMA AsideNet ==
    ASSUME Aside
    PROVE  UNCHANGED netVars
<1>1. CASE IdlePoll
  BY <1>1 DEF IdlePoll, vars
<1>2. CASE net_resolve_gateway \/ dns_resolve \/ dns_wait
  BY <1>2 DEF net_resolve_gateway, dns_resolve, dns_wait
<1>3. CASE HttpGet \/ HttpReturns
  BY <1>3 DEF HttpGet, HttpReturns
<1>4. CASE IrcConnect \/ IrcQuit \/ QuitSent \/ Forget
  BY <1>4 DEF IrcConnect, IrcQuit, QuitSent, Forget
<1>5. CASE IrcLogin \/ IrcJoinPart \/ IrcRead \/ IrcPoll \/ PongSent
  BY <1>5 DEF IrcLogin, IrcJoinPart, IrcRead, IrcPoll, PongSent
<1> QED
  BY <1>1, <1>2, <1>3, <1>4, <1>5 DEF Aside

\* What the client does to a connection.
LEMMA EditsFacts ==
    ASSUME NetTypes, NEW c \in Conns, NEW rx \in Seq(Token), NEW err \in BOOLEAN, NEW shut \in BOOLEAN,
           conn' = [conn EXCEPT ![c] = [@ EXCEPT !.rx = rx, !.err = err, !.closed = shut]],
           UNCHANGED <<ring, gateway, nested, slots, port, peer, taken>>
    PROVE  /\ Edits(c) /\ conn'[c].rx = rx /\ conn'[c].port = conn[c].port
           /\ \A d \in Conns : d # c => conn'[d] = conn[d]
<1>1. conn[c] \in ConnType
  BY DEF NetTypes
<1> DEFINE k == [conn[c] EXCEPT !.rx = rx, !.err = err, !.closed = shut]
<1>2. /\ k \in ConnType /\ k.port = conn[c].port /\ k.est = conn[c].est /\ k.rxseq = conn[c].rxseq
      /\ k.rx = rx
  BY <1>1 DEF ConnType
<1>3. conn' = [conn EXCEPT ![c] = k]
  OBVIOUS
<1> HIDE DEF k
<1> QED
  BY <1>2, <1>3 DEF Edits, NetTypes

LEMMA HttpAnswerNet ==
    ASSUME NetTypes, PageTypes, PageInv, HttpAnswer
    PROVE  /\ Edits("http") /\ conn'["irc"] = conn["irc"] /\ conn'["http"].port = conn["http"].port
           /\ \/ conn'["http"].rx = HttpPass(conn["http"].rx).rest
              \/ conn'["http"].rx = <<>> /\ HttpPass(conn["http"].rx).page.head
<1> DEFINE rx == conn["http"].rx
           pass == HttpPass(rx)
           p == pass.page
           complete == p.head /\ Len(p.got) >= p.need
           cut == ~complete /\ p.head /\ Len(p.got) = p.cap /\ pass.rest # <<>>
           full == ~p.head /\ Len(conn["http"].rx) >= RxCap
           over == p.close \/ ~Usable("http") \/ full
           new == IF cut /\ ~over THEN <<>> ELSE pass.rest
           err == conn["http"].err \/ full
<1>1. conn["http"] \in ConnType /\ "http" \in Conns /\ "irc" \in Conns /\ rx \in Seq(Token)
  BY NetAssumption DEF NetTypes, ConnType
<1>2. conn' = [conn EXCEPT !["http"].rx = new, !["http"].err = err]
  BY DEF HttpAnswer
<1>3. UNCHANGED <<ring, gateway, nested, slots, port, peer, taken>>
  BY DEF HttpAnswer
<1>4. pass.rest \in Seq(Token)
  BY <1>1, PassFacts DEF PageInv, Passes
<1>5. err \in BOOLEAN /\ new \in Seq(Token) /\ (new = pass.rest \/ (new = <<>> /\ p.head))
  BY <1>4
<1> HIDE DEF new, err
<1> DEFINE shut == conn["http"].closed
<1>6. shut \in BOOLEAN
  BY <1>1 DEF ConnType
<1>7. conn' = [conn EXCEPT !["http"] = [@ EXCEPT !.rx = new, !.err = err, !.closed = shut]]
  BY <1>1, <1>2 DEF NetTypes, ConnType
<1> HIDE DEF shut
<1>8. /\ Edits("http") /\ conn'["http"].rx = new /\ conn'["http"].port = conn["http"].port
      /\ \A d \in Conns : d # "http" => conn'[d] = conn[d]
  BY <1>1, <1>3, <1>5, <1>6, <1>7, EditsFacts
<1> QED
  BY <1>1, <1>5, <1>8

LEMMA ClientConns ==
    ASSUME NetTypes
    PROVE  /\ "http" \in Conns /\ "irc" \in Conns /\ Conns = {"http", "irc"} /\ "http" # "irc"
           /\ \A c \in Conns : /\ conn[c] \in ConnType /\ conn[c].rx \in Seq(Token)
                               /\ conn[c].err \in BOOLEAN /\ conn[c].closed \in BOOLEAN
           /\ NoConn \notin Conns
BY NetAssumption, TcpAssumption DEF NetTypes, ConnType

LEMMA HttpGivesUpNet ==
    ASSUME NetTypes, HttpGivesUp
    PROVE  /\ Edits("http") /\ conn'["irc"] = conn["irc"] /\ conn'["http"].port = conn["http"].port
           /\ conn'["http"].rx = <<>>
<1> DEFINE new == <<>>
           err == conn["http"].err
           shut == conn["http"].closed
<1>1. conn["http"] \in ConnType /\ "http" \in Conns /\ "irc" \in Conns /\ "irc" # "http"
  BY ClientConns
<1>2. conn' = [conn EXCEPT !["http"].rx = new]
  BY DEF HttpGivesUp
<1>3. UNCHANGED <<ring, gateway, nested, slots, port, peer, taken>>
  BY DEF HttpGivesUp
<1>4. err \in BOOLEAN /\ shut \in BOOLEAN /\ new \in Seq(Token)
  BY <1>1 DEF ConnType
<1> HIDE DEF new
<1>5. conn' = [conn EXCEPT !["http"] = [@ EXCEPT !.rx = new, !.err = err, !.closed = shut]]
  BY <1>1, <1>2 DEF NetTypes, ConnType
<1> HIDE DEF err, shut
<1> QED
  BY <1>1, <1>3, <1>4, <1>5, EditsFacts DEF new

LEMMA IrcTokenNet ==
    ASSUME NetTypes, IrcToken
    PROVE  /\ UNCHANGED netVars \/ Edits("irc")
           /\ conn'["http"] = conn["http"] /\ conn'["irc"].port = conn["irc"].port
           /\ conn'["irc"].rx = conn["irc"].rx
           /\ UNCHANGED <<ring, gateway, nested, slots, port, peer, taken>>
<1>1. UNCHANGED <<ring, gateway, nested, slots, port, peer, taken>>
  BY DEF IrcToken
<1>2. CASE UNCHANGED conn
  BY <1>1, <1>2 DEF netVars
<1>3. CASE ~UNCHANGED conn
  <2> DEFINE line == Append(chat.parse, Head(left))
             rx == conn["irc"].rx
             err == conn["irc"].err
             shut == conn["irc"].closed \/ line[1].k = "error"
  <2>1. conn["irc"] \in ConnType /\ "http" \in Conns /\ "irc" \in Conns /\ "irc" # "http"
    BY ClientConns
  <2>2. conn' = [conn EXCEPT !["irc"].closed = shut]
    BY <1>3 DEF IrcToken
  <2>3. err \in BOOLEAN /\ shut \in BOOLEAN /\ rx \in Seq(Token)
    BY <2>1 DEF ConnType
  <2> HIDE DEF shut
  <2>4. conn' = [conn EXCEPT !["irc"] = [@ EXCEPT !.rx = rx, !.err = err, !.closed = shut]]
    BY <2>1, <2>2 DEF NetTypes, ConnType
  <2> HIDE DEF err, rx
  <2>5. /\ Edits("irc") /\ conn'["irc"].rx = rx /\ conn'["irc"].port = conn["irc"].port
        /\ \A d \in Conns : d # "irc" => conn'[d] = conn[d]
    BY <1>1, <2>1, <2>3, <2>4, EditsFacts
  <2> QED
    BY <1>1, <2>1, <2>5 DEF rx
<1> QED
  BY <1>2, <1>3

LEMMA IrcParsedNet ==
    ASSUME NetTypes, IrcParsed
    PROVE  /\ Edits("irc") /\ conn'["http"] = conn["http"] /\ conn'["irc"].port = conn["irc"].port
           /\ conn'["irc"].rx = <<>>
<1> DEFINE new == <<>>
           err == conn["irc"].err
           shut == conn["irc"].closed
<1>1. conn["irc"] \in ConnType /\ "http" \in Conns /\ "irc" \in Conns /\ "irc" # "http"
  BY ClientConns
<1>2. conn' = [conn EXCEPT !["irc"].rx = new]
  BY DEF IrcParsed
<1>3. UNCHANGED <<ring, gateway, nested, slots, port, peer, taken>>
  BY DEF IrcParsed
<1>4. err \in BOOLEAN /\ shut \in BOOLEAN /\ new \in Seq(Token)
  BY <1>1 DEF ConnType
<1> HIDE DEF new
<1>5. conn' = [conn EXCEPT !["irc"] = [@ EXCEPT !.rx = new, !.err = err, !.closed = shut]]
  BY <1>1, <1>2 DEF NetTypes, ConnType
<1> HIDE DEF err, shut
<1> QED
  BY <1>1, <1>3, <1>4, <1>5, EditsFacts DEF new

LEMMA AppendIsConcat ==
    ASSUME NEW T, NEW s \in Seq(T), NEW e \in T
    PROVE  Append(s, e) = s \o <<e>>
<1> DEFINE a == Append(s, e)
           b == s \o <<e>>
<1>1. a \in Seq(T) /\ Len(a) = Len(s) + 1 /\ \A i \in 1 .. Len(s) + 1 : a[i] = IF i <= Len(s) THEN s[i] ELSE e
  OBVIOUS
<1>2. b \in Seq(T) /\ Len(b) = Len(s) + 1 /\ \A i \in 1 .. Len(s) + 1 : b[i] = IF i <= Len(s) THEN s[i] ELSE e
  OBVIOUS
<1> HIDE DEF a, b
<1>3. a = b
  BY <1>1, <1>2
<1> QED
  BY <1>3 DEF a, b

\* The server of the IRC client says one token more.
LEMMA IrcServerNet ==
    ASSUME NetInv, IrcServer
    PROVE  \E t \in Token : /\ t.r = conn["irc"].port /\ conn["irc"].port \in Ports
                            /\ Says(conn["irc"].port, <<t>>)
<1> DEFINE p == conn["irc"].port
<1>1. /\ p # 0 /\ peer[p].st = "open"
      /\ UNCHANGED <<ring, gateway, nested, conn, slots, port, taken>>
  BY DEF IrcServer
<1>2. PICK k \in {"half", "line", "ping", "error"} :
          peer' = [peer EXCEPT ![p].sent = Append(@, [k |-> k, r |-> p, n |-> Len(@) + 1])]
  BY DEF IrcServer
<1>3. p \in Ports /\ p \in Nat /\ peer[p].sent \in Seq(Token)
  <2>1. NetTypes /\ "irc" \in Conns
    BY ClientConns DEF NetInv
  <2>2. p \in Ports /\ peer[p] \in PeerType
    BY <1>1, <2>1, PortFacts
  <2> QED
    BY <2>2, TcpAssumption DEF Ports, PeerType
<1> DEFINE n == Len(peer[p].sent) + 1
           t == [k |-> k, r |-> p, n |-> n]
<1>4. n \in Nat
  BY <1>3
<1>5. peer' = [peer EXCEPT ![p].sent = Append(@, t)]
  BY <1>2
<1> HIDE DEF n
<1>6. t \in Token /\ t.r = p
  BY <1>3, <1>4 DEF Token, Words
<1> HIDE DEF t
<1>7. Append(peer[p].sent, t) = peer[p].sent \o <<t>>
  BY <1>3, <1>6, AppendIsConcat
<1>8. Says(p, <<t>>)
  BY <1>1, <1>5, <1>7 DEF Says
<1> QED
  BY <1>3, <1>6, <1>8

LEMMA HttpRequestNet ==
    ASSUME NetInv, PageTypes, HttpRequest
    PROVE  \/ UNCHANGED netVars
           \/ \E s \in Response(page.r) \cup {<<>>} :
                 /\ s \in Seq(Token) /\ Says(conn["http"].port, s)
                 /\ conn["http"].port \in Ports /\ Do(<<"answer">>)
<1> DEFINE p == conn["http"].port
<1>1. UNCHANGED <<ring, gateway, nested, conn, slots, port, taken>>
  BY DEF HttpRequest
<1>2. CASE UNCHANGED peer
  BY <1>1, <1>2 DEF netVars
<1>3. CASE ~UNCHANGED peer
  <2>1. CanSend("http") /\ Do(<<"answer">>) /\ peer[p].st = "open"
    BY <1>3 DEF HttpRequest
  <2>2. PICK s \in Response(page.r) \cup {<<>>} : peer' = [peer EXCEPT ![p].sent = @ \o s]
    BY <1>3, <2>1 DEF HttpRequest
  <2>3. p \in Ports
    <3>1. NetTypes /\ "http" \in Conns
      BY ClientConns DEF NetInv
    <3>2. p # 0
      BY <2>1, <3>1 DEF NetInv, PortsInv, CanSend
    <3> QED
      BY <3>1, <3>2, PortFacts
  <2>4. s \in Seq(Token)
    <3>1. page.r \in Nat
      BY DEF PageTypes, PageType
    <3>2. CASE s = <<>>
      BY <3>2
    <3>3. CASE s \in Response(page.r)
      BY <3>1, <3>3, ResponseFacts
    <3> QED
      BY <3>2, <3>3
  <2>5. Says(p, s)
    BY <1>1, <2>1, <2>2 DEF Says
  <2> QED
    BY <2>1, <2>3, <2>4, <2>5
<1> QED
  BY <1>2, <1>3

LEMMA RepliesNet ==
    ASSUME NetInv, ScriptInv, DnsInv, ArpReply \/ DnsReply
    PROVE  \E f \in FrameType : /\ Brings(f)
                                /\ f.kind = "dns" => f.tok.n \in asked /\ f.port = f.tok.n % IdMod
<1>1. CASE ArpReply
  <2> DEFINE f == Frame("arp", 0, 0, NoTok)
  <2>1. f \in FrameType /\ f.kind = "arp"
    BY NoTokIsToken DEF Frame, FrameType
  <2>2. Arrive(f) /\ UNCHANGED <<gateway, nested, conn, slots, port, peer, taken>>
    BY <1>1 DEF ArpReply
  <2> HIDE DEF f
  <2> QED
    BY <2>1, <2>2 DEF Arrive, Brings
<1>2. CASE DnsReply
  <2>1. PICK q \in asked : Arrive(Frame("dns", q % IdMod, 0, [NoTok EXCEPT !.n = q]))
    BY <1>2 DEF DnsReply
  <2>2. q \in Nat /\ q % IdMod \in Nat
    <3>1. q \in Nat /\ IdMod \in Nat /\ IdMod > 0
      BY NetAssumption DEF DnsInv, ScriptInv
    <3> QED
      BY <3>1
  <2> DEFINE t == [NoTok EXCEPT !.n = q]
             id == q % IdMod
             f == Frame("dns", id, 0, t)
  <2>3. t \in Token /\ t.n = q
    BY <2>2, NoTokIsToken DEF Token
  <2>4. Arrive(f) /\ UNCHANGED <<gateway, nested, conn, slots, port, peer, taken>>
    BY <1>2, <2>1 DEF DnsReply
  <2>5. id = q % IdMod /\ id \in Nat
    BY <2>2
  <2> HIDE DEF t, id
  <2>6. f \in FrameType /\ f.kind = "dns" /\ f.tok = t /\ f.port = id
    BY <2>3, <2>5 DEF Frame, FrameType
  <2>7. gateway
    BY <2>1 DEF DnsInv
  <2> HIDE DEF f
  <2>8. Brings(f)
    BY <2>4, <2>6, <2>7 DEF Arrive, Brings
  <2> QED
    BY <2>1, <2>3, <2>5, <2>6, <2>8
<1> QED
  BY <1>1, <1>2

LEMMA PollNet ==
    ASSUME NetTypes, Poll
    PROVE  Handles
<1>1. Head(ring) \in FrameType
  BY PopFacts DEF Poll
<1>2. Head(ring).kind \in Segments \cup {"arp", "dns"}
  BY <1>1 DEF FrameType
<1> QED
  BY <1>2 DEF Poll, Handles, Segments

LEMMA LeavesNet ==
    ASSUME Connected \/ Closes
    PROVE  \/ UNCHANGED netVars
           \/ \E c \in Conns : Leaves(c)
<1>1. CASE Connected
  <2>1. PICK c \in Conns : At(Waits(c)) /\ tcp_connected(c) /\ UNCHANGED <<ring, gateway, nested, conn, port>>
    BY <1>1 DEF Connected
  <2> QED
    BY <2>1 DEF At, tcp_connected, Leaves, netVars
<1>2. CASE Closes
  <2>1. PICK c \in Conns : At(Close(c)) /\ Leave(c) /\ UNCHANGED <<ring, gateway, nested, conn, port>>
    BY <1>2 DEF Closes
  <2> QED
    BY <2>1 DEF At, Leaves
<1> QED
  BY <1>1, <1>2

LEMMA NextNet ==
    ASSUME Inv, Next
    PROVE  NetStep
<1>1. NetInv /\ NetTypes /\ ScriptInv /\ DnsInv /\ PageTypes /\ PageInv
  BY DEF Inv, NetInv
<1>2. "http" \in Conns /\ "irc" \in Conns
  BY <1>1, ClientConns
<1>3. CASE Aside
  BY <1>3, AsideNet DEF NetStep
<1>4. CASE Poll
  BY <1>1, <1>4, PollNet DEF NetStep
<1>5. CASE World
  <2>1. CASE Wire
    BY <2>1 DEF NetStep
  <2>2. CASE ArpReply \/ DnsReply
    BY <1>1, <2>2, RepliesNet DEF NetStep
  <2>3. CASE IrcServer
    <3>1. PICK t \in Token : conn["irc"].port \in Ports /\ Says(conn["irc"].port, <<t>>)
      BY <1>1, <2>3, IrcServerNet
    <3>2. <<t>> \in Seq(Token)
      OBVIOUS
    <3> QED
      BY <3>1, <3>2 DEF NetStep
  <2> QED
    BY <1>5, <2>1, <2>2, <2>3 DEF World
<1>6. CASE Connected \/ Closes
  BY <1>6, LeavesNet DEF NetStep
<1>7. CASE HttpPool
  <2>1. UNCHANGED netVars \/ Opens("http")
    BY <1>7 DEF HttpPool, Opens, At
  <2> QED
    BY <1>2, <2>1 DEF NetStep
<1>8. CASE HttpRequest
  BY <1>1, <1>8, HttpRequestNet DEF NetStep
<1>9. CASE HttpAnswer \/ HttpGivesUp
  BY <1>1, <1>2, <1>9, HttpAnswerNet, HttpGivesUpNet DEF NetStep
<1>10. CASE IrcCalls
  <2>1. UNCHANGED netVars \/ Opens("irc")
    BY <1>10 DEF IrcCalls, Opens, At
  <2> QED
    BY <1>2, <2>1 DEF NetStep
<1>11. CASE IrcToken \/ IrcParsed
  BY <1>1, <1>2, <1>11, IrcTokenNet, IrcParsedNet DEF NetStep
<1> QED
  BY <1>3, <1>4, <1>5, <1>6, <1>7, <1>8, <1>9, <1>10, <1>11 DEF Next, Aside

------------------------------------------------------------------------------
(***************************************************************************)
(* The scripts of the commands                                             *)
(***************************************************************************)
\* The script moves on: its first step is replaced by other steps.
Moves(s) ==
    /\ script # <<>> /\ Ahead(s) /\ Do(s)
    /\ s = <<>> \/ script[1] # "close_http"

LEMMA AtFacts ==
    ASSUME Tidy(script), NEW step, At(step)
    PROVE  script # <<>> /\ script[1] = step /\ First(step) /\ ring = <<>>
<1>1. script \in Seq(Steps)
  BY DEF Tidy
<1> QED
  BY <1>1, TailFacts DEF At, First

LEMMA TeardownAhead == Ahead(Teardown) /\ Begins(Teardown) /\ ~Resolves(Teardown) /\ Teardown # <<>>
BY AheadFacts, BeginFacts DEF Teardown

LEMMA MovesKeep ==
    ASSUME ScriptInv, NEW s, Moves(s), UNCHANGED <<calls, dns>>
    PROVE  ScriptInv'
<1>1. Tidy(script') /\ (Resolves(script') => Resolves(script))
  BY DoFacts DEF ScriptInv, Moves
<1> QED
  BY <1>1 DEF ScriptInv

LEMMA BeginsKeep ==
    ASSUME ScriptInv, Begins(script'), ~Resolves(script'), UNCHANGED <<calls, dns>>
    PROVE  ScriptInv'
BY BeginShape DEF ScriptInv

LEMMA CommandKeeps ==
    ASSUME ScriptInv, NEW s, Begins(s), Command(s), UNCHANGED dns
    PROVE  ScriptInv' /\ Begins(script')
<1>1. Begins(script') /\ Tidy(script')
  BY CommandFacts, BeginShape
<1>2. calls < MaxCalls /\ calls' = calls + 1 /\ MaxCalls \in Nat /\ calls \in 0 .. MaxCalls
  BY NetAssumption DEF Command, ScriptInv
<1>3. calls' \in 0 .. MaxCalls
  BY <1>2
<1>4. dns \in [n : 0 .. calls, done : BOOLEAN, answer : Nat]
  BY DEF ScriptInv
<1>5. dns \in [n : 0 .. calls', done : BOOLEAN, answer : Nat] /\ dns.n < calls'
  <2>1. 0 .. calls \subseteq 0 .. calls'
    BY <1>2
  <2>2. dns.n \in 0 .. calls
    BY <1>4
  <2>3. dns.n < calls'
    BY <1>2, <2>2
  <2>4. [n : 0 .. calls, done : BOOLEAN, answer : Nat] \subseteq [n : 0 .. calls', done : BOOLEAN, answer : Nat]
    BY <2>1
  <2> QED
    BY <1>4, <2>3, <2>4
<1> QED
  BY <1>1, <1>3, <1>5 DEF ScriptInv

\* The steps of a command to a host.
LEMMA HostedFacts ==
    ASSUME NEW c, NEW steps, Begins(steps), ~Resolves(steps), NEW s \in Hosted(c, steps)
    PROVE  Begins(s)
<1>1. s = steps \/ s = <<"dns">> \o steps
  BY DEF Hosted
<1> QED
  BY <1>1, BeginFacts, BeginsFacts

\* The commands.
LEMMA CommandsBegin ==
    ASSUME HttpGet \/ IrcConnect \/ IrcQuit \/ IrcJoinPart
    PROVE  /\ Idle /\ UNCHANGED <<dns, netVars>>
           /\ \E s : Begins(s) /\ Command(s)
<1>1. CASE HttpGet
  <2>1. PICK cap \in Caps : \E steps \in Hosted("http", <<"pool">>) : Command(steps)
    BY <1>1 DEF HttpGet
  <2>2. PICK steps \in Hosted("http", <<"pool">>) : Command(steps)
    BY <2>1
  <2>3. Begins(steps)
    BY <2>2, BeginFacts, HostedFacts
  <2> QED
    BY <1>1, <2>2, <2>3 DEF HttpGet, Command
<1>2. CASE IrcConnect
  <2> DEFINE first == IF chat.active THEN Teardown ELSE <<>>
  <2>1. PICK steps \in Hosted("irc", <<"call">>) : Command(first \o steps)
    BY <1>2 DEF IrcConnect
  <2>2. Begins(steps)
    BY <2>1, BeginFacts, HostedFacts
  <2>3. Begins(first) /\ ~Resolves(first)
    BY TeardownAhead, BeginFacts
  <2> HIDE DEF first
  <2>4. Begins(first \o steps)
    BY <2>2, <2>3, BeginsFacts
  <2> QED
    BY <1>2, <2>1, <2>4 DEF IrcConnect, Command, clientVars
<1>3. CASE IrcQuit
  <2> DEFINE s == IF irc_is_connected THEN <<"quit">> ELSE Teardown
  <2>1. Command(s)
    BY <1>3 DEF IrcQuit
  <2>2. Begins(s)
    BY TeardownAhead, BeginFacts
  <2> HIDE DEF s
  <2> QED
    BY <1>3, <2>1, <2>2 DEF IrcQuit, Command, clientVars
<1>4. CASE IrcJoinPart
  <2>1. Command(<<>>)
    BY <1>4 DEF IrcJoinPart
  <2> QED
    BY <1>4, <2>1, BeginFacts DEF IrcJoinPart, Command
<1> QED
  BY <1>1, <1>2, <1>3, <1>4

\* No request is in hand: none waits for its connection, for its answer or to
\* return with it.
Quiet == ~First("wait_http") /\ ~First("answer") /\ ~Returning /\ ~First("return")

LEMMA FirstFacts ==
    ASSUME Tidy(script)
    PROVE  /\ \A a, b : First(a) /\ First(b) => a = b
           /\ \A a : First(a) => script # <<>> /\ script[1] = a
           /\ \A a : First(a) /\ a \notin {"wait_http", "answer", "close_http", "return"} => Quiet
           /\ script = <<>> => Quiet
<1>1. script \in Seq(Steps) /\ (script # <<>> => Head(script) = script[1])
  BY DEF Tidy
<1> QED
  BY <1>1 DEF First, Quiet, Returning

LEMMA BeginsQuiet ==
    ASSUME Begins(script') \/ script' = <<>>
    PROVE  Quiet'
<1>1. Begins(script')
  BY BeginFacts
<1> QED
  BY <1>1, BeginShape DEF Quiet

\* A step that is no step of a request is followed by none of a request.
LEMMA MovesQuiet ==
    ASSUME Tidy(script), NEW s, Moves(s), Quiet,
           s # <<>> => s[1] \notin {"wait_http", "answer", "return"} /\ ~(Len(s) >= 2 /\ s[2] = "return")
    PROVE  Quiet'
<1>1. /\ s = <<>> => /\ ~First("wait_http")' /\ ~First("answer")' /\ ~Returning'
                     /\ First("return")' => Returning
      /\ s # <<>> => /\ \A step : First(step)' <=> s[1] = step
                     /\ Returning' <=> s[1] = "close_http" /\ Len(s) >= 2 /\ s[2] = "return"
  BY DoShape DEF Moves
<1> QED
  BY <1>1 DEF Quiet

\* What the steps of the commands leave to do.
LEMMA AsideMoves ==
    ASSUME Tidy(script)
    PROVE  /\ net_resolve_gateway => First("arp") /\ Moves(<<>>)
           /\ dns_resolve => First("dns") /\ (Moves(<<"dns_wait">>) \/ script' = <<>>)
           /\ dns_wait => First("dns_wait") /\ (Moves(<<>>) \/ script' = <<>>)
           /\ QuitSent => First("quit") /\ Moves(Teardown)
           /\ Forget => First("forget") /\ Moves(<<>>)
           /\ IrcCalls => First("call") /\ (Moves(<<"wait_irc", "login">>) \/ script' = <<>>)
           /\ IrcLogin => First("login") /\ Moves(<<>>)
           /\ PongSent => First("pong") /\ Moves(<<>>)
           /\ HttpReturns => First("return") /\ Moves(<<>>)
<1>1. net_resolve_gateway => First("arp") /\ Moves(<<>>)
  BY AtFacts, AheadFacts DEF net_resolve_gateway, Moves
<1>2. dns_resolve => First("dns") /\ (Moves(<<"dns_wait">>) \/ script' = <<>>)
  BY AtFacts, AheadFacts DEF dns_resolve, Moves, Fail
<1>3. dns_wait => First("dns_wait") /\ (Moves(<<>>) \/ script' = <<>>)
  BY AtFacts, AheadFacts DEF dns_wait, Moves, Fail
<1>4. QuitSent => First("quit") /\ Moves(Teardown)
  <2> SUFFICES ASSUME QuitSent PROVE First("quit") /\ Moves(Teardown)
    OBVIOUS
  <2>1. First("quit") /\ script # <<>> /\ script[1] = "quit"
    BY AtFacts DEF QuitSent
  <2> QED
    BY <2>1, TeardownAhead DEF QuitSent, Moves
<1>5. Forget => First("forget") /\ Moves(<<>>)
  BY AtFacts, AheadFacts DEF Forget, Moves
<1>6. IrcCalls => First("call") /\ (Moves(<<"wait_irc", "login">>) \/ script' = <<>>)
  BY AtFacts, AheadFacts DEF IrcCalls, Moves, Fail
<1>7. IrcLogin => First("login") /\ Moves(<<>>)
  BY AtFacts, AheadFacts DEF IrcLogin, Moves
<1>8. PongSent => First("pong") /\ Moves(<<>>)
  BY AtFacts, AheadFacts DEF PongSent, Moves
<1>9. HttpReturns => First("return") /\ Moves(<<>>)
  BY AtFacts, AheadFacts DEF HttpReturns, Moves
<1> QED
  BY <1>1, <1>2, <1>3, <1>4, <1>5, <1>6, <1>7, <1>8, <1>9

\* The IRC client's parsing.
LEMMA ParseScripts ==
    ASSUME Tidy(script), IrcPoll \/ IrcToken \/ IrcParsed
    PROVE  /\ script \in {<<>>, <<"irc">>}
           /\ script' \in {<<>>, <<"irc">>, <<"pong", "irc">>}
           /\ left' # <<>> => script' \in {<<"irc">>, <<"pong", "irc">>} \/ (script = <<>> /\ left' = left)
<1>1. CASE IrcPoll
  BY <1>1 DEF IrcPoll, Idle
<1>2. CASE IrcToken
  BY <1>2 DEF IrcToken
<1>3. CASE IrcParsed
  BY <1>3 DEF IrcParsed
<1> QED
  BY <1>1, <1>2, <1>3

LEMMA ParseBegins ==
    ASSUME NEW s \in {<<>>, <<"irc">>, <<"pong", "irc">>}
    PROVE  Begins(s) /\ ~Resolves(s)
<1>1. Begins(<<"irc">>) /\ ~Resolves(<<"irc">>)
  BY DEF Begins, Resolves, Steps
<1>2. Begins(<<"pong", "irc">>) /\ ~Resolves(<<"pong", "irc">>)
  BY DEF Begins, Resolves, Steps
<1> QED
  BY <1>1, <1>2, BeginFacts

LEMMA AsideQuiet ==
    ASSUME Tidy(script), (Aside /\ ~HttpReturns) \/ IrcCalls \/ IrcToken \/ IrcParsed
    PROVE  Quiet /\ Quiet'
<1>1. CASE IdlePoll \/ IrcRead
  <2>1. script = <<>> /\ script' = <<>>
    BY <1>1 DEF IdlePoll, IrcRead, Idle, vars
  <2> QED
    BY <2>1, FirstFacts, BeginsQuiet
<1>2. CASE net_resolve_gateway \/ dns_wait \/ Forget \/ IrcLogin \/ PongSent
  <2>1. Quiet /\ (Moves(<<>>) \/ script' = <<>>)
    BY <1>2, AsideMoves, FirstFacts
  <2> QED
    BY <2>1, MovesQuiet, BeginsQuiet
<1>3. CASE dns_resolve
  <2>1. Quiet /\ (Moves(<<"dns_wait">>) \/ script' = <<>>)
    BY <1>3, AsideMoves, FirstFacts
  <2> QED
    BY <2>1, MovesQuiet, BeginsQuiet
<1>4. CASE QuitSent
  <2>1. Quiet /\ Moves(Teardown)
    BY <1>4, AsideMoves, FirstFacts
  <2>2. Teardown[1] \notin {"wait_http", "answer", "return"} /\ ~(Len(Teardown) >= 2 /\ Teardown[2] = "return")
    BY DEF Teardown
  <2> QED
    BY <2>1, <2>2, MovesQuiet
<1>5. CASE IrcCalls
  <2>1. Quiet /\ (Moves(<<"wait_irc", "login">>) \/ script' = <<>>)
    BY <1>5, AsideMoves, FirstFacts
  <2> QED
    BY <2>1, MovesQuiet, BeginsQuiet
<1>6. CASE HttpGet \/ IrcConnect \/ IrcQuit \/ IrcJoinPart
  <2>1. Idle /\ \E s : Begins(s) /\ Command(s)
    BY <1>6, CommandsBegin
  <2>2. Begins(script') /\ script = <<>>
    BY <2>1, CommandFacts DEF Idle
  <2> QED
    BY <2>2, FirstFacts, BeginsQuiet
<1>7. CASE IrcPoll \/ IrcToken \/ IrcParsed
  <2>1. script \in {<<>>, <<"irc">>} /\ script' \in {<<>>, <<"irc">>, <<"pong", "irc">>}
    BY <1>7, ParseScripts
  <2>2. Begins(script')
    BY <2>1, ParseBegins
  <2>3. Quiet
    <3>1. CASE script = <<>>
      BY <3>1, FirstFacts
    <3>2. CASE script = <<"irc">>
      BY <3>2 DEF Quiet, First, Returning
    <3> QED
      BY <2>1, <3>1, <3>2
  <2> QED
    BY <2>2, <2>3, BeginsQuiet
<1> QED
  BY <1>1, <1>2, <1>3, <1>4, <1>5, <1>6, <1>7 DEF Aside

\* What the steps of the HTTP client and of the connections leave to do.
LEMMA HttpMoves ==
    ASSUME Tidy(script)
    PROVE  /\ HttpPool =>
                /\ First("pool") /\ UNCHANGED <<calls, clientVars>>
                /\ \/ Moves(<<"request">>) /\ pool.active /\ UNCHANGED netVars
                   \/ Moves(<<"close_http", "pool">>) /\ pool.active /\ UNCHANGED netVars
                   \/ Moves(<<"wait_http", "request">>) /\ ~pool.active /\ Opens("http")
                   \/ script' = <<>> /\ ~pool.active /\ UNCHANGED netVars
           /\ HttpRequest =>
                /\ First("request") /\ UNCHANGED <<calls, clientVars>>
                /\ Moves(<<"answer">>) \/ (Moves(<<"close_http">>) /\ UNCHANGED netVars)
           /\ HttpAnswer \/ HttpGivesUp =>
                /\ First("answer") /\ UNCHANGED <<calls, dns>>
                /\ Moves(<<"close_http", "return">>) \/ Moves(<<"return">>) \/ UNCHANGED script
<1>1. ASSUME HttpPool
      PROVE  /\ First("pool") /\ UNCHANGED <<calls, clientVars>>
             /\ \/ Moves(<<"request">>) /\ pool.active /\ UNCHANGED netVars
                \/ Moves(<<"close_http", "pool">>) /\ pool.active /\ UNCHANGED netVars
                \/ Moves(<<"wait_http", "request">>) /\ ~pool.active /\ Opens("http")
                \/ script' = <<>> /\ ~pool.active /\ UNCHANGED netVars
  <2>1. At("pool") /\ UNCHANGED <<calls, clientVars>>
    BY <1>1 DEF HttpPool
  <2>2. First("pool") /\ script # <<>> /\ script[1] = "pool" /\ ring = <<>>
    BY <2>1, AtFacts
  <2>3. CASE pool.active
    <3>1. UNCHANGED netVars /\ \E same \in BOOLEAN :
              Do(IF same /\ Usable("http") THEN <<"request">> ELSE <<"close_http", "pool">>)
      BY <1>1, <2>3 DEF HttpPool
    <3>2. Do(<<"request">>) \/ Do(<<"close_http", "pool">>)
      BY <3>1
    <3> QED
      BY <2>1, <2>2, <2>3, <3>1, <3>2, AheadFacts DEF Moves
  <2>4. CASE ~pool.active /\ ~NoSlot
    <3>1. OpenConn("http") /\ Do(<<"wait_http", "request">>)
      BY <1>1, <2>4 DEF HttpPool
    <3> QED
      BY <2>1, <2>2, <2>4, <3>1, AheadFacts DEF Moves, Opens
  <2>5. CASE ~pool.active /\ NoSlot
    <3>1. Fail /\ UNCHANGED netVars
      BY <1>1, <2>5 DEF HttpPool
    <3> QED
      BY <2>1, <2>2, <2>5, <3>1 DEF Fail
  <2> QED
    BY <2>3, <2>4, <2>5
<1>2. ASSUME HttpRequest
      PROVE  /\ First("request") /\ UNCHANGED <<calls, clientVars>>
             /\ Moves(<<"answer">>) \/ (Moves(<<"close_http">>) /\ UNCHANGED netVars)
  <2>1. At("request") /\ UNCHANGED <<ring, gateway, nested, conn, slots, port, taken, calls, clientVars>>
    BY <1>2 DEF HttpRequest
  <2>2. First("request") /\ script # <<>> /\ script[1] = "request"
    BY <2>1, AtFacts
  <2>3. Do(<<"answer">>) \/ (Do(<<"close_http">>) /\ UNCHANGED peer)
    BY <1>2 DEF HttpRequest
  <2> QED
    BY <2>1, <2>2, <2>3, AheadFacts DEF Moves, netVars
<1>3. ASSUME HttpAnswer
      PROVE  /\ First("answer") /\ UNCHANGED <<calls, dns>>
             /\ Moves(<<"close_http", "return">>) \/ Moves(<<"return">>) \/ UNCHANGED script
  <2>1. At("answer") /\ UNCHANGED <<calls, dns>>
    BY <1>3 DEF HttpAnswer
  <2>2. First("answer") /\ script # <<>> /\ script[1] = "answer"
    BY <2>1, AtFacts
  <2>3. Do(<<"close_http", "return">>) \/ Do(<<"return">>) \/ UNCHANGED script
    BY <1>3 DEF HttpAnswer
  <2> QED
    BY <2>1, <2>2, <2>3, AheadFacts DEF Moves
<1>4. ASSUME HttpGivesUp
      PROVE  /\ First("answer") /\ UNCHANGED <<calls, dns>>
             /\ Moves(<<"close_http", "return">>) \/ Moves(<<"return">>)
  <2>1. At("answer") /\ UNCHANGED <<calls, dns>>
    BY <1>4 DEF HttpGivesUp
  <2>2. First("answer") /\ script # <<>> /\ script[1] = "answer"
    BY <2>1, AtFacts
  <2>3. Do(<<"close_http", "return">>) \/ Do(<<"return">>)
    BY <1>4 DEF HttpGivesUp
  <2> QED
    BY <2>1, <2>2, <2>3, AheadFacts DEF Moves
<1> QED
  BY <1>1, <1>2, <1>3, <1>4

LEMMA ConnMoves ==
    ASSUME Tidy(script), Connected \/ Closes
    PROVE  /\ UNCHANGED <<calls, page, chat, left, fresh, dns, asked>>
           /\ \E c \in Conns :
                \/ /\ First(Waits(c)) /\ conn[c].est /\ Moves(<<>>) /\ UNCHANGED netVars
                   /\ pool' = IF c = "http" THEN [active |-> TRUE, abandoned |-> FALSE] ELSE pool
                \/ First(Waits(c)) /\ script' = <<>> /\ Leaves(c) /\ pool' = pool
                \/ /\ First(Close(c)) /\ Moves(<<>>) /\ Leaves(c)
                   /\ pool' = IF c = "http" THEN [pool EXCEPT !.active = FALSE] ELSE pool
<1>1. CASE Connected
  <2>1. PICK c \in Conns :
            /\ At(Waits(c)) /\ tcp_connected(c)
            /\ pool' = IF c = "http" /\ conn[c].est THEN [active |-> TRUE, abandoned |-> FALSE] ELSE pool
            /\ UNCHANGED <<ring, gateway, nested, conn, port, calls, page, chat, left, fresh, dns, asked>>
    BY <1>1 DEF Connected
  <2>2. First(Waits(c)) /\ script # <<>> /\ ring = <<>>
    BY <2>1, AtFacts
  <2>3. CASE conn[c].est
    <3>1. Do(<<>>) /\ UNCHANGED <<slots, peer, taken>>
      BY <2>1, <2>3 DEF tcp_connected
    <3> QED
      BY <2>1, <2>2, <2>3, <3>1, AheadFacts DEF Moves, netVars
  <2>4. CASE ~conn[c].est
    <3>1. Fail /\ Leave(c)
      BY <2>1, <2>4 DEF tcp_connected
    <3> QED
      BY <2>1, <2>2, <2>4, <3>1 DEF Fail, Leaves
  <2> QED
    BY <2>3, <2>4
<1>2. CASE Closes
  <2>1. PICK c \in Conns :
            /\ At(Close(c)) /\ Leave(c) /\ Do(<<>>)
            /\ pool' = IF c = "http" THEN [pool EXCEPT !.active = FALSE] ELSE pool
            /\ UNCHANGED <<ring, gateway, nested, conn, port, calls, page, chat, left, fresh, dns, asked>>
    BY <1>2 DEF Closes
  <2>2. First(Close(c)) /\ script # <<>> /\ ring = <<>>
    BY <2>1, AtFacts
  <2> QED
    BY <2>1, <2>2, AheadFacts DEF Moves, Leaves
<1> QED
  BY <1>1, <1>2

LEMMA ScriptKeeps ==
    ASSUME Inv, Next
    PROVE  ScriptInv'
<1>1. ScriptInv /\ Tidy(script) /\ NetTypes
  BY DEF Inv, ScriptInv, NetInv
<1>2. CASE UNCHANGED <<script, calls, dns>>
  BY <1>1, <1>2 DEF ScriptInv, Tidy, Resolves
<1>3. CASE IdlePoll \/ World \/ IrcRead
  <2>1. UNCHANGED <<script, calls, dns>>
    BY <1>3 DEF IdlePoll, World, IrcRead, ArpReply, DnsReply, IrcServer, vars, clientVars
  <2> QED
    BY <1>2, <2>1
<1>4. CASE Poll
  <2>1. UNCHANGED <<script, calls>>
    BY <1>4 DEF Poll
  <2>2. dns' \in [n : 0 .. calls, done : BOOLEAN, answer : Nat] /\ dns'.n = dns.n
    <3>1. dns \in [n : 0 .. calls, done : BOOLEAN, answer : Nat]
      BY <1>1 DEF ScriptInv
    <3> DEFINE a == Head(ring).tok.n
    <3>2. a \in Nat
      <4>1. Head(ring) \in FrameType
        BY <1>1, <1>4, PopFacts DEF Poll
      <4> QED
        BY <4>1 DEF FrameType, Token
    <3>3. dns' = dns \/ dns' = [dns EXCEPT !.done = TRUE, !.answer = a]
      BY <1>4 DEF Poll, dns_input
    <3> HIDE DEF a
    <3> QED
      BY <3>1, <3>2, <3>3
  <2> QED
    BY <1>1, <2>1, <2>2 DEF ScriptInv, Tidy, Resolves
<1>5. CASE net_resolve_gateway \/ QuitSent \/ Forget \/ IrcLogin \/ PongSent \/ HttpReturns
  <2>1. UNCHANGED <<calls, dns>>
    BY <1>5 DEF net_resolve_gateway, QuitSent, Forget, IrcLogin, PongSent, HttpReturns, clientVars
  <2>2. Moves(<<>>) \/ Moves(Teardown)
    BY <1>1, <1>5, AsideMoves
  <2> QED
    BY <1>1, <2>1, <2>2, MovesKeep
<1>6. CASE HttpGet \/ IrcConnect \/ IrcQuit \/ IrcJoinPart
  <2>1. UNCHANGED dns /\ \E s : Begins(s) /\ Command(s)
    BY <1>6, CommandsBegin
  <2> QED
    BY <1>1, <2>1, CommandKeeps
<1>7. CASE IrcPoll \/ IrcToken \/ IrcParsed
  <2>1. UNCHANGED <<calls, dns>>
    BY <1>7 DEF IrcPoll, IrcToken, IrcParsed
  <2>2. Begins(script') /\ ~Resolves(script')
    BY <1>1, <1>7, ParseScripts, ParseBegins
  <2> QED
    BY <1>1, <2>1, <2>2, BeginsKeep
<1>8. CASE IrcCalls
  <2>1. UNCHANGED <<calls, dns>>
    BY <1>8 DEF IrcCalls
  <2>2. Moves(<<"wait_irc", "login">>) \/ script' = <<>>
    BY <1>1, <1>8, AsideMoves
  <2> QED
    BY <1>1, <2>1, <2>2, MovesKeep, BeginsKeep, BeginFacts
<1>9. CASE Connected \/ Closes
  <2>1. UNCHANGED <<calls, dns>> /\ (Moves(<<>>) \/ script' = <<>>)
    BY <1>1, <1>9, ConnMoves
  <2> QED
    BY <1>1, <2>1, MovesKeep, BeginsKeep, BeginFacts
<1>10. CASE HttpPool \/ HttpRequest \/ HttpAnswer \/ HttpGivesUp
  <2>1. UNCHANGED <<calls, dns>> /\ (UNCHANGED script \/ script' = <<>> \/ \E s : Moves(s))
    <3>1. CASE HttpPool \/ HttpRequest
      <4>1. UNCHANGED <<calls, dns>> /\ (script' = <<>> \/ \E s : Moves(s))
        BY <1>1, <3>1, HttpMoves DEF clientVars
      <4> QED
        BY <4>1
    <3>2. CASE HttpAnswer \/ HttpGivesUp
      BY <1>1, <3>2, HttpMoves
    <3> QED
      BY <1>10, <3>1, <3>2
  <2> QED
    BY <1>1, <1>2, <2>1, MovesKeep, BeginsKeep, BeginFacts
<1>11. CASE dns_resolve
  <2>1. First("dns") /\ script # <<>> /\ script[1] = "dns" /\ (Moves(<<"dns_wait">>) \/ script' = <<>>)
    BY <1>1, <1>11, AsideMoves, FirstFacts
  <2>2. Resolves(script)
    BY <1>1, <2>1 DEF Resolves, Tidy
  <2>3. Tidy(script') /\ ~Resolves(script')
    <3>1. CASE script' = <<>>
      BY <3>1, BeginFacts, BeginShape
    <3>2. CASE Moves(<<"dns_wait">>)
      BY <1>1, <2>1, <3>2, DoFacts DEF Moves
    <3> QED
      BY <2>1, <3>1, <3>2
  <2>4. dns' \in [n : 0 .. calls, done : BOOLEAN, answer : Nat] /\ calls' = calls
    <3> DEFINE n == dns.n + 1
    <3>1. dns' = [n |-> n, done |-> FALSE, answer |-> 0] /\ calls' = calls
      BY <1>11 DEF dns_resolve
    <3>2. n \in 0 .. calls
      BY <1>1, <2>2 DEF ScriptInv
    <3> HIDE DEF n
    <3> QED
      BY <3>1, <3>2
  <2> QED
    BY <1>1, <2>3, <2>4 DEF ScriptInv
<1>12. CASE dns_wait
  <2>1. First("dns_wait") /\ (Moves(<<>>) \/ script' = <<>>)
    BY <1>1, <1>12, AsideMoves
  <2>2. Tidy(script') /\ (Resolves(script') => Resolves(script))
    <3>1. CASE script' = <<>>
      BY <3>1, BeginFacts, BeginShape
    <3>2. CASE Moves(<<>>)
      BY <1>1, <3>2, DoFacts DEF Moves
    <3> QED
      BY <2>1, <3>1, <3>2
  <2>3. dns' \in [n : 0 .. calls, done : BOOLEAN, answer : Nat] /\ dns'.n = dns.n /\ calls' = calls
    <3> DEFINE n == dns.n
    <3>1. dns' = [NoQuery EXCEPT !.n = n] /\ calls' = calls
      BY <1>12 DEF dns_wait
    <3>2. n \in 0 .. calls
      BY <1>1 DEF ScriptInv
    <3>3. NoQuery \in [n : 0 .. calls, done : BOOLEAN, answer : Nat]
      BY <1>1 DEF NoQuery, ScriptInv
    <3> HIDE DEF n
    <3>4. dns' \in [n : 0 .. calls, done : BOOLEAN, answer : Nat] /\ dns'.n = n
      BY <3>1, <3>2, <3>3
    <3> QED
      BY <3>1, <3>4 DEF n
  <2> QED
    BY <1>1, <2>2, <2>3 DEF ScriptInv
<1> QED
  BY <1>3, <1>4, <1>5, <1>6, <1>7, <1>8, <1>9, <1>10, <1>11, <1>12 DEF Next

------------------------------------------------------------------------------
(***************************************************************************)
(* The resolver                                                            *)
(***************************************************************************)
\* What the wire brings is no answer of the resolver's server.
LEMMA WireRing ==
    ASSUME Wire
    PROVE  \E f : f.kind # "dns" /\ ring' = Append(ring, f) /\ gateway' = gateway
<1>1. \E k \in Segments : \E p, s, t : Arrive(Frame(k, p, s, t)) /\ gateway' = gateway
  <2>1. CASE PeerAnswers
    BY <2>1 DEF PeerAnswers, Segments
  <2>2. CASE Segment
    BY <2>2 DEF Segment, Segments
  <2>3. CASE FinArrives
    BY <2>3 DEF FinArrives, Segments
  <2> QED
    BY <2>1, <2>2, <2>3 DEF Wire
<1>2. PICK k \in Segments : \E p, s, t : Arrive(Frame(k, p, s, t)) /\ gateway' = gateway
  BY <1>1
<1>3. PICK p, s, t : Arrive(Frame(k, p, s, t)) /\ gateway' = gateway
  BY <1>2
<1>4. Frame(k, p, s, t).kind # "dns"
  BY DEF Frame, Segments
<1> QED
  BY <1>3, <1>4 DEF Arrive

\* The ring holds answers to queries that left.
AnswersInv(r, q) ==
    \A i \in DOMAIN r : r[i].kind = "dns" => r[i].tok.n \in q /\ r[i].port = r[i].tok.n % IdMod

\* The table's steps leave the ring alone, or pop a frame, or bring one that is
\* an answer to a query that left if it is an answer at all.
LEMMA RingSteps ==
    ASSUME Inv, Next
    PROVE  \/ ring' = ring /\ gateway' = gateway
           \/ Poll
           \/ /\ \E f : ring' = Append(ring, f) /\ AnswersInv(<<f>>, asked)
              /\ gateway' = gateway /\ UNCHANGED <<script, calls, clientVars>>
<1>1. NetInv /\ NetTypes /\ ScriptInv /\ DnsInv /\ PageTypes /\ PageInv
  BY DEF Inv, NetInv
<1>2. CASE Aside
  BY <1>2, AsideNet DEF netVars
<1>3. CASE World
  <2>1. CASE Wire /\ UNCHANGED <<script, calls, clientVars>>
    <3>1. PICK f : f.kind # "dns" /\ ring' = Append(ring, f) /\ gateway' = gateway
      BY <2>1, WireRing
    <3>2. AnswersInv(<<f>>, asked)
      BY <3>1 DEF AnswersInv
    <3> QED
      BY <2>1, <3>1, <3>2
  <2>2. CASE ArpReply \/ DnsReply
    <3>1. PICK f \in FrameType : /\ Brings(f)
                                 /\ f.kind = "dns" => f.tok.n \in asked /\ f.port = f.tok.n % IdMod
      BY <1>1, <2>2, RepliesNet
    <3>2. AnswersInv(<<f>>, asked)
      BY <3>1 DEF AnswersInv
    <3>3. UNCHANGED <<script, calls, clientVars>>
      BY <2>2 DEF ArpReply, DnsReply
    <3> QED
      BY <3>1, <3>2, <3>3 DEF Brings
  <2>3. CASE IrcServer
    BY <2>3 DEF IrcServer
  <2> QED
    BY <1>3, <2>1, <2>2, <2>3 DEF World
<1>4. CASE Connected \/ Closes
  BY <1>4, LeavesNet DEF Leaves, netVars
<1>5. CASE HttpPool \/ IrcCalls
  BY <1>5 DEF HttpPool, IrcCalls, OpenConn, netVars
<1>6. CASE HttpRequest \/ HttpAnswer \/ HttpGivesUp \/ IrcToken \/ IrcParsed
  BY <1>6 DEF HttpRequest, HttpAnswer, HttpGivesUp, IrcToken, IrcParsed
<1> QED
  BY <1>2, <1>3, <1>4, <1>5, <1>6 DEF Next, Aside

LEMMA IdFacts ==
    ASSUME ScriptInv, DnsInv
    PROVE  /\ dns.n \in Nat /\ dns.n % IdMod = dns.n
           /\ \A q \in asked : q \in Nat /\ q % IdMod = q
<1>1. /\ IdMod \in Nat /\ dns.n \in Nat /\ dns.n < IdMod
  BY NetAssumption DEF ScriptInv
<1>2. ASSUME NEW q \in Nat, q < IdMod PROVE q % IdMod = q
  BY <1>1, <1>2
<1>3. \A q \in asked : q \in Nat /\ q < IdMod
  BY <1>1 DEF DnsInv
<1> QED
  BY <1>1, <1>2, <1>3

LEMMA DnsKeeps ==
    ASSUME Inv, Next
    PROVE  DnsInv'
<1>1. NetInv /\ NetTypes /\ ScriptInv /\ DnsInv /\ Tidy(script)
  BY DEF Inv, NetInv, ScriptInv
<1>2. AnswersInv(ring, asked) /\ DnsAnswerIsOurs /\ asked \subseteq 1 .. dns.n /\ (~gateway => asked = {})
  BY <1>1 DEF DnsInv, AnswersInv
<1>3. CASE Poll
  <2>1. AnswersInv(ring', asked')
    <3>1. asked' = asked
      BY <1>3 DEF Poll
    <3>2. \A i \in DOMAIN ring' : i + 1 \in DOMAIN ring /\ ring'[i] = ring[i + 1]
      BY <1>1, <1>3, PopFacts DEF Poll
    <3> QED
      BY <1>2, <3>1, <3>2 DEF AnswersInv
  <2>2. gateway' \in {gateway, TRUE} /\ asked' = asked
    BY <1>3 DEF Poll
  <2>3. dns'.n = dns.n /\ DnsAnswerIsOurs'
    <3>1. CASE dns' = dns
      BY <1>2, <3>1 DEF DnsAnswerIsOurs
    <3>2. CASE dns' # dns
      <4> DEFINE f == Head(ring)
                 a == f.tok.n
      <4>1. f.kind = "dns" /\ f.port = dns.n % IdMod /\ dns' = [dns EXCEPT !.done = TRUE, !.answer = a]
        BY <1>3, <3>2 DEF Poll, dns_input
      <4>2. 1 \in DOMAIN ring /\ f = ring[1]
        BY <1>1, <1>3, PopFacts DEF Poll
      <4>3. a \in asked /\ f.port = a % IdMod
        BY <1>2, <4>1, <4>2 DEF AnswersInv
      <4>4. a = dns.n
        BY <1>1, <4>1, <4>3, IdFacts
      <4> HIDE DEF a
      <4>5. dns \in [n : 0 .. calls, done : BOOLEAN, answer : Nat]
        BY <1>1 DEF ScriptInv
      <4>6. dns'.n = dns.n /\ dns'.answer = a
        BY <4>1, <4>5
      <4> QED
        BY <4>4, <4>6 DEF DnsAnswerIsOurs
    <3> QED
      BY <3>1, <3>2
  <2> QED
    BY <1>2, <2>1, <2>2, <2>3 DEF DnsInv, AnswersInv
<1>4. CASE \E f : /\ ring' = Append(ring, f) /\ AnswersInv(<<f>>, asked)
                  /\ gateway' = gateway /\ UNCHANGED <<script, calls, clientVars>>
  <2>1. PICK f : ring' = Append(ring, f) /\ AnswersInv(<<f>>, asked)
    BY <1>4
  <2>2. gateway' = gateway /\ asked' = asked /\ dns' = dns
    BY <1>4 DEF clientVars
  <2>3. ASSUME NEW i \in DOMAIN ring', ring'[i].kind = "dns"
        PROVE  ring'[i].tok.n \in asked /\ ring'[i].port = ring'[i].tok.n % IdMod
    <3>1. ring \in Seq(FrameType) /\ Len(ring) \in Nat /\ DOMAIN ring = 1 .. Len(ring)
      BY <1>1 DEF NetTypes
    <3>2. (i \in DOMAIN ring /\ ring'[i] = ring[i]) \/ ring'[i] = f
      BY <2>1, <3>1
    <3>3. f.kind = "dns" => f.tok.n \in asked /\ f.port = f.tok.n % IdMod
      <4>1. 1 \in DOMAIN <<f>> /\ <<f>>[1] = f
        OBVIOUS
      <4> QED
        BY <2>1, <4>1 DEF AnswersInv
    <3> QED
      BY <1>2, <2>3, <3>2, <3>3 DEF AnswersInv
  <2> QED
    BY <1>2, <2>2, <2>3 DEF DnsInv, DnsAnswerIsOurs
<1>5. CASE ring' = ring /\ gateway' = gateway /\ UNCHANGED <<dns, asked>>
  BY <1>1, <1>5 DEF DnsInv, DnsAnswerIsOurs
<1>6. CASE dns_resolve
  <2>1. /\ dns' = [n |-> dns.n + 1, done |-> FALSE, answer |-> 0]
        /\ asked' = IF gateway THEN asked \cup {dns'.n} ELSE asked
        /\ UNCHANGED <<ring, gateway>>
    BY <1>6 DEF dns_resolve, netVars
  <2>2. dns.n \in Nat
    BY <1>1, IdFacts
  <2>3. dns'.n = dns.n + 1 /\ dns'.done = FALSE
    BY <2>1
  <2>4. asked' \subseteq 1 .. dns'.n /\ (~gateway => asked' = {}) /\ asked \subseteq asked'
    <3>1. asked \subseteq 1 .. dns.n + 1 /\ dns.n + 1 \in 1 .. dns.n + 1
      BY <1>2, <2>2
    <3> QED
      BY <1>2, <2>1, <2>3, <3>1
  <2> QED
    BY <1>2, <2>1, <2>3, <2>4 DEF DnsInv, DnsAnswerIsOurs, AnswersInv
<1>7. CASE dns_wait
  <2>1. /\ dns' = [NoQuery EXCEPT !.n = dns.n] /\ UNCHANGED <<ring, gateway, asked>>
    BY <1>7 DEF dns_wait, netVars
  <2>2. dns'.n = dns.n /\ dns'.done = FALSE
    BY <2>1 DEF NoQuery
  <2> QED
    BY <1>2, <2>1, <2>2 DEF DnsInv, DnsAnswerIsOurs, AnswersInv
<1>8. dns_resolve \/ dns_wait \/ Poll \/ UNCHANGED <<dns, asked>>
  <2>1. CASE IdlePoll \/ World
    BY <2>1 DEF IdlePoll, vars, World, ArpReply, DnsReply, IrcServer, clientVars
  <2>2. CASE net_resolve_gateway \/ HttpGet \/ HttpPool \/ HttpRequest \/ HttpAnswer \/ HttpGivesUp \/ HttpReturns
    BY <2>2 DEF net_resolve_gateway, HttpGet, HttpPool, HttpRequest, HttpAnswer, HttpGivesUp, HttpReturns, clientVars
  <2>3. CASE Connected \/ Closes
    BY <1>1, <2>3, ConnMoves
  <2>4. CASE IrcConnect \/ IrcQuit \/ QuitSent \/ Forget \/ IrcCalls \/ IrcLogin \/ IrcJoinPart
    BY <2>4 DEF IrcConnect, IrcQuit, QuitSent, Forget, IrcCalls, IrcLogin, IrcJoinPart, clientVars
  <2>5. CASE IrcRead \/ IrcPoll \/ IrcToken \/ PongSent \/ IrcParsed
    BY <2>5 DEF IrcRead, IrcPoll, IrcToken, PongSent, IrcParsed, clientVars
  <2> QED
    BY <2>1, <2>2, <2>3, <2>4, <2>5 DEF Next
<1>9. (dns_resolve \/ dns_wait \/ UNCHANGED <<dns, asked>>) /\ ring' = ring /\ gateway' = gateway => DnsInv'
  BY <1>5, <1>6, <1>7
<1> QED
  BY <1>3, <1>4, <1>8, <1>9, RingSteps

------------------------------------------------------------------------------
(***************************************************************************)
(* The pool's slot                                                         *)
(***************************************************************************)
LEMMA OpensSlots ==
    ASSUME NetTypes, NEW c \in Conns, Opens(c)
    PROVE  /\ DOMAIN slots' = DOMAIN slots
           /\ \E l \in DOMAIN slots : /\ slots[l] = NoConn /\ slots'[l] = c
                                      /\ \A i \in DOMAIN slots : i # l => slots'[i] = slots[i]
<1> DEFINE l == LowestOf(FreeSlots)
<1>1. FreeSlots # {} /\ slots' = [slots EXCEPT ![l] = c]
  BY DEF Opens, OpenConn
<1>2. FreeSlots \in SUBSET Nat /\ slots \in [1 .. TCP_MAX_CONNECTIONS -> Conns \cup {NoConn}]
  BY DEF FreeSlots, NetTypes
<1>3. l \in FreeSlots
  BY <1>1, <1>2, LowestFacts
<1> HIDE DEF l
<1>4. l \in DOMAIN slots /\ slots[l] = NoConn
  BY <1>3 DEF FreeSlots
<1> QED
  BY <1>1, <1>2, <1>4

LEMMA LeavesSlots ==
    ASSUME NetTypes, NEW c \in Conns, Leaves(c)
    PROVE  /\ DOMAIN slots' = DOMAIN slots
           /\ \/ slots' = slots /\ \A i \in DOMAIN slots : slots[i] # c
              \/ \E l \in DOMAIN slots : /\ slots[l] = c /\ slots'[l] = NoConn
                                         /\ \A i \in DOMAIN slots : i # l => slots'[i] = slots[i]
<1> DEFINE held == {i \in DOMAIN slots : slots[i] = c}
           l == LowestOf(held)
<1>1. slots' = IF held = {} THEN slots ELSE [slots EXCEPT ![l] = NoConn]
  BY DEF Leaves, Leave, unregister_conn
<1>2. held \in SUBSET Nat /\ slots \in [1 .. TCP_MAX_CONNECTIONS -> Conns \cup {NoConn}]
  BY DEF NetTypes
<1>3. CASE held = {}
  BY <1>1, <1>3
<1>4. CASE held # {}
  <2>1. l \in held
    <3> HIDE DEF held
    <3> QED
      BY <1>2, <1>4, LowestFacts
  <2>2. l \in DOMAIN slots /\ slots[l] = c
    BY <2>1
  <2>3. slots' = [slots EXCEPT ![l] = NoConn]
    BY <1>1, <1>4
  <2> HIDE DEF l
  <2> QED
    BY <1>2, <2>2, <2>3
<1> QED
  BY <1>3, <1>4

\* Nothing of the pool changes but, perhaps, that its answer is given up.
LEMMA PoolSame ==
    ASSUME PoolInv, UNCHANGED slots, First("wait_http")' <=> First("wait_http"),
           pool' = pool \/ pool' = [pool EXCEPT !.abandoned = TRUE]
    PROVE  PoolInv'
<1>1. pool' \in [active : BOOLEAN, abandoned : BOOLEAN] /\ pool'.active = pool.active
  BY DEF PoolInv
<1> QED
  BY <1>1 DEF PoolInv, Owning

\* The steps of the IRC client do not touch the pool's slot.
LEMMA PoolOther ==
    ASSUME PoolInv, NetTypes, Opens("irc") \/ Leaves("irc"), UNCHANGED pool,
           First("wait_http")' <=> First("wait_http")
    PROVE  PoolInv'
<1>1. "irc" \in Conns /\ "irc" # "http" /\ NoConn # "http" /\ NoConn # "irc"
  BY ClientConns
<1>2. /\ DOMAIN slots' = DOMAIN slots
      /\ \A i \in DOMAIN slots : slots'[i] = "http" <=> slots[i] = "http"
  BY <1>1, OpensSlots, LeavesSlots
<1> QED
  BY <1>2 DEF PoolInv, Owning

LEMMA PoolKeeps ==
    ASSUME Inv, Next
    PROVE  PoolInv'
<1>1. NetInv /\ NetTypes /\ ScriptInv /\ Tidy(script) /\ PoolInv
  BY DEF Inv, NetInv, ScriptInv
<1>2. "http" \in Conns /\ "irc" \in Conns /\ "irc" # "http" /\ NoConn # "http" /\ Conns = {"http", "irc"}
  BY <1>1, ClientConns
<1>3. CASE Poll \/ World
  <2>1. UNCHANGED <<slots, pool, script>>
    BY <1>3 DEF Poll, World, Wire, PeerAnswers, Segment, FinArrives, ArpReply, DnsReply, IrcServer, clientVars
  <2> QED
    BY <1>1, <2>1, PoolSame DEF First
<1>4. CASE Aside /\ ~HttpReturns
  <2>1. UNCHANGED slots
    BY <1>4, AsideNet DEF netVars
  <2>2. UNCHANGED pool
    BY <1>4 DEF Aside, IdlePoll, vars, net_resolve_gateway, dns_resolve, dns_wait, HttpGet, IrcConnect, IrcQuit,
                QuitSent, Forget, IrcLogin, IrcJoinPart, IrcRead, IrcPoll, PongSent, clientVars
  <2>3. Quiet /\ Quiet'
    BY <1>1, <1>4, AsideQuiet
  <2> QED
    BY <1>1, <2>1, <2>2, <2>3, PoolSame DEF Quiet
<1>5. CASE IrcToken \/ IrcParsed
  <2>1. UNCHANGED <<slots, pool>>
    BY <1>5 DEF IrcToken, IrcParsed
  <2>2. Quiet /\ Quiet'
    BY <1>1, <1>5, AsideQuiet
  <2> QED
    BY <1>1, <2>1, <2>2, PoolSame DEF Quiet
<1>6. CASE IrcCalls
  <2>1. UNCHANGED pool /\ (UNCHANGED slots \/ Opens("irc"))
    BY <1>6 DEF IrcCalls, netVars, Opens, At
  <2>2. Quiet /\ Quiet'
    BY <1>1, <1>6, AsideQuiet
  <2> QED
    BY <1>1, <2>1, <2>2, PoolSame, PoolOther DEF Quiet
<1>7. CASE HttpReturns
  <2>1. UNCHANGED <<slots, pool>>
    BY <1>7 DEF HttpReturns, netVars
  <2>2. First("return") /\ Moves(<<>>)
    BY <1>1, <1>7, AsideMoves
  <2>3. ~First("wait_http") /\ ~First("wait_http")'
    BY <1>1, <2>2, FirstFacts, DoShape DEF Moves
  <2> QED
    BY <1>1, <2>1, <2>3, PoolSame
<1>8. CASE HttpRequest
  <2>1. First("request") /\ UNCHANGED <<slots, pool>> /\ (Moves(<<"answer">>) \/ Moves(<<"close_http">>))
    BY <1>1, <1>8, HttpMoves DEF HttpRequest, clientVars
  <2>2. ~First("wait_http") /\ ~First("wait_http")'
    BY <1>1, <2>1, FirstFacts, DoShape DEF Moves
  <2> QED
    BY <1>1, <2>1, <2>2, PoolSame
<1>9. CASE HttpAnswer \/ HttpGivesUp
  <2>1. /\ First("answer")
        /\ Moves(<<"close_http", "return">>) \/ Moves(<<"return">>) \/ UNCHANGED script
    BY <1>1, <1>9, HttpMoves
  <2>2. UNCHANGED slots /\ (pool' = pool \/ pool' = [pool EXCEPT !.abandoned = TRUE])
    BY <1>9 DEF HttpAnswer, HttpGivesUp
  <2>3. ~First("wait_http")
    BY <1>1, <2>1, FirstFacts
  <2>4. ~First("wait_http")'
    <3>1. CASE Moves(<<"close_http", "return">>) \/ Moves(<<"return">>)
      BY <1>1, <3>1, DoShape DEF Moves
    <3>2. CASE UNCHANGED script
      BY <2>3, <3>2 DEF First
    <3> QED
      BY <2>1, <3>1, <3>2
  <2> QED
    BY <1>1, <2>2, <2>3, <2>4, PoolSame
<1>10. CASE HttpPool
  <2>1. First("pool") /\ UNCHANGED pool /\ ~First("wait_http") /\ Quiet
    BY <1>1, <1>10, HttpMoves, FirstFacts DEF clientVars
  <2>2. CASE UNCHANGED netVars /\ (Moves(<<"request">>) \/ Moves(<<"close_http", "pool">>) \/ script' = <<>>)
    <3>1. Quiet'
      <4>1. Moves(<<"request">>) => Quiet'
        BY <1>1, <2>1, MovesQuiet
      <4>2. Moves(<<"close_http", "pool">>) => Quiet'
        BY <1>1, <2>1, MovesQuiet
      <4> QED
        BY <2>2, <4>1, <4>2, BeginsQuiet
    <3> QED
      BY <1>1, <2>1, <2>2, <3>1, PoolSame DEF Quiet, netVars
  <2>3. CASE Moves(<<"wait_http", "request">>) /\ ~pool.active /\ Opens("http")
    <3>1. First("wait_http")'
      BY <1>1, <2>3, DoShape DEF Moves
    <3>2. \A i \in DOMAIN slots : slots[i] # "http"
      BY <1>1, <2>1, <2>3 DEF PoolInv, Owning
    <3>3. PICK l \in DOMAIN slots : /\ slots'[l] = "http"
                                    /\ \A i \in DOMAIN slots : i # l => slots'[i] = slots[i]
      BY <1>1, <1>2, <2>3, OpensSlots
    <3>4. DOMAIN slots' = DOMAIN slots
      BY <1>1, <1>2, <2>3, OpensSlots
    <3> QED
      BY <1>1, <2>1, <2>3, <3>1, <3>2, <3>3, <3>4 DEF PoolInv, Owning
  <2> QED
    BY <1>1, <1>10, <2>2, <2>3, HttpMoves
<1>11. CASE Connected \/ Closes
  <2>1. PICK c \in Conns :
            \/ /\ First(Waits(c)) /\ conn[c].est /\ Moves(<<>>) /\ UNCHANGED netVars
               /\ pool' = IF c = "http" THEN [active |-> TRUE, abandoned |-> FALSE] ELSE pool
            \/ First(Waits(c)) /\ script' = <<>> /\ Leaves(c) /\ pool' = pool
            \/ /\ First(Close(c)) /\ Moves(<<>>) /\ Leaves(c)
               /\ pool' = IF c = "http" THEN [pool EXCEPT !.active = FALSE] ELSE pool
    BY <1>1, <1>11, ConnMoves
  <2>2. ~First("wait_http")'
    <3>1. Moves(<<>>) => ~First("wait_http")'
      BY <1>1, DoShape DEF Moves
    <3> QED
      BY <2>1, <3>1, BeginsQuiet DEF Quiet
  <2>3. CASE c = "irc"
    <3>1. First("wait_irc") \/ First("close_irc")
      BY <1>2, <2>1, <2>3 DEF Waits, Close
    <3>2. ~First("wait_http")
      BY <1>1, <3>1, FirstFacts
    <3>3. pool' = pool /\ (UNCHANGED slots \/ Leaves("irc"))
      BY <1>2, <2>1, <2>3 DEF netVars
    <3> QED
      BY <1>1, <2>2, <3>2, <3>3, PoolSame, PoolOther
  <2>4. CASE c = "http" /\ UNCHANGED netVars
    <3>1. (First("wait_http") /\ pool' = [active |-> TRUE, abandoned |-> FALSE]) \/ Leaves("http")
      BY <1>2, <2>1, <2>4 DEF Waits
    <3>2. CASE First("wait_http") /\ pool' = [active |-> TRUE, abandoned |-> FALSE]
      BY <1>1, <2>2, <2>4, <3>2 DEF PoolInv, Owning, netVars
    <3>3. CASE Leaves("http") /\ ~(First("wait_http") /\ pool' = [active |-> TRUE, abandoned |-> FALSE])
      <4>1. DOMAIN slots' = DOMAIN slots /\ slots' = slots
        BY <2>4 DEF netVars
      <4>2. \A i \in DOMAIN slots : slots[i] # "http"
        BY <1>1, <1>2, <3>3, <4>1, LeavesSlots
      <4>3. ~Owning
        BY <1>1, <4>2 DEF PoolInv
      <4>4. pool' \in [active : BOOLEAN, abandoned : BOOLEAN] /\ ~pool'.active
        BY <1>1, <1>2, <2>1, <2>4, <3>3, <4>3 DEF PoolInv, Owning, Waits
      <4> QED
        BY <1>1, <2>2, <4>1, <4>2, <4>4 DEF PoolInv, Owning
    <3> QED
      BY <3>1, <3>2, <3>3
  <2>5. CASE c = "http" /\ Leaves("http")
    <3>1. /\ DOMAIN slots' = DOMAIN slots
          /\ \A i \in DOMAIN slots : slots'[i] # "http"
      BY <1>1, <1>2, <2>5, LeavesSlots DEF PoolInv
    <3>2. pool' \in [active : BOOLEAN, abandoned : BOOLEAN] /\ ~pool'.active
      <4>1. CASE First("wait_http") /\ pool' = pool
        BY <1>1, <4>1 DEF PoolInv
      <4>2. CASE pool' = [pool EXCEPT !.active = FALSE]
        BY <1>1, <4>2 DEF PoolInv
      <4>3. CASE UNCHANGED netVars /\ First("wait_http")
        <5>1. \A i \in DOMAIN slots : slots[i] # "http"
          BY <3>1, <4>3 DEF netVars
        <5> QED
          BY <1>1, <4>3, <5>1 DEF PoolInv, Owning
      <4> QED
        BY <1>2, <2>1, <2>5, <4>1, <4>2, <4>3 DEF Waits
    <3> QED
      BY <1>1, <2>2, <3>1, <3>2 DEF PoolInv, Owning
  <2> QED
    BY <1>2, <2>1, <2>3, <2>4, <2>5
<1> QED
  BY <1>3, <1>4, <1>5, <1>6, <1>7, <1>8, <1>9, <1>10, <1>11 DEF Next, Aside

------------------------------------------------------------------------------
(***************************************************************************)
(* The page                                                                *)
(***************************************************************************)
\* A request returns after its connection is closed.
LEMMA ReturnsNext ==
    ASSUME Tidy(script), Returning, Moves(<<>>)
    PROVE  First("return")'
<1>1. script \in Seq(Steps) /\ script' \in Seq(Steps) /\ Len(script) \in Nat
  BY DoFacts DEF Moves, Tidy
<1>2. /\ \A i \in DOMAIN script' : i + 1 \in DOMAIN script /\ script'[i] = script[i + 1]
      /\ \A i \in DOMAIN script : i > 1 => i - 1 \in DOMAIN script'
  BY DoFacts DEF Moves
<1>3. 2 \in DOMAIN script /\ script[2] = "return"
  BY <1>1 DEF Returning
<1>4. 1 \in DOMAIN script' /\ script'[1] = "return"
  BY <1>2, <1>3
<1> QED
  BY <1>1, <1>4 DEF First

\* The request that answers moves on to its end.
LEMMA AnswerMoves ==
    ASSUME Tidy(script), First("answer"),
           Moves(<<"close_http", "return">>) \/ Moves(<<"return">>) \/ UNCHANGED script
    PROVE  /\ Waiting' \/ First("return")'
           /\ Moves(<<"close_http", "return">>) => Waiting' /\ ~First("wait_http")'
           /\ Moves(<<"return">>) => ~Waiting' /\ ~First("wait_http")'
<1>1. Moves(<<"close_http", "return">>) => Returning' /\ ~First("wait_http")'
  BY DoShape DEF Moves
<1>2. Moves(<<"return">>) => First("return")' /\ ~First("answer")' /\ ~Returning' /\ ~First("wait_http")'
  BY DoShape DEF Moves
<1>3. UNCHANGED script => First("answer")'
  BY DEF First
<1> QED
  BY <1>1, <1>2, <1>3 DEF Waiting

LEMMA PageSame ==
    ASSUME PageTypes, PageInv, UNCHANGED page,
           Waiting \/ First("return") => Waiting' \/ First("return")'
    PROVE  PageTypes' /\ PageInv'
BY DEF PageTypes, PageInv

LEMMA PageKeeps ==
    ASSUME Inv, Next
    PROVE  PageTypes' /\ PageInv'
<1>1. NetTypes /\ ScriptInv /\ Tidy(script) /\ PageTypes /\ PageInv
  BY DEF Inv, NetInv, ScriptInv
<1>2. Quiet => ~Waiting /\ ~First("return")
  BY DEF Quiet, Waiting
<1>3. CASE Poll \/ World
  <2>1. UNCHANGED <<script, page>>
    BY <1>3 DEF Poll, World, ArpReply, DnsReply, IrcServer, clientVars
  <2>2. Waiting' = Waiting /\ First("return")' = First("return")
    BY <2>1 DEF Waiting, First, Returning
  <2> QED
    BY <1>1, <2>1, <2>2, PageSame
<1>4. CASE (Aside /\ ~HttpReturns /\ ~HttpGet) \/ IrcCalls \/ IrcToken \/ IrcParsed
  <2>1. UNCHANGED page
    BY <1>4 DEF Aside, IdlePoll, vars, net_resolve_gateway, dns_resolve, dns_wait, IrcConnect, IrcQuit, QuitSent,
                Forget, IrcLogin, IrcJoinPart, IrcRead, IrcPoll, PongSent, IrcCalls, IrcToken, IrcParsed, clientVars
  <2>2. Quiet
    BY <1>1, <1>4, AsideQuiet
  <2> QED
    BY <1>1, <1>2, <2>1, <2>2, PageSame
<1>5. CASE HttpGet
  <2>1. PICK cap \in Caps : page' = [NoPage EXCEPT !.r = calls', !.cap = cap]
    BY <1>5 DEF HttpGet
  <2>2. cap \in Nat /\ calls' \in Nat
    <3>1. calls' = calls + 1
      BY <1>5 DEF HttpGet, Command
    <3> QED
      BY <1>1, <3>1, NetAssumption DEF ScriptInv
  <2>3. NoPage \in PageType
    BY DEF NoPage, PageType
  <2>4. page' \in PageType /\ page'.head = FALSE /\ page'.got = <<>> /\ page'.cap = cap
    <3> DEFINE r == calls'
    <3>1. page' = [NoPage EXCEPT !.r = r, !.cap = cap] /\ r \in Nat
      BY <2>1, <2>2
    <3> HIDE DEF r
    <3>2. page' \in PageType
      BY <2>2, <2>3, <3>1 DEF PageType
    <3>3. page'.head = NoPage.head /\ page'.got = NoPage.got /\ page'.cap = cap
      BY <2>3, <3>1 DEF PageType
    <3> QED
      BY <3>2, <3>3 DEF NoPage
  <2> QED
    BY <2>2, <2>4 DEF PageTypes, PageInv
<1>6. CASE HttpReturns
  <2>1. page' = NoPage
    BY <1>6 DEF HttpReturns
  <2> QED
    BY <2>1 DEF PageTypes, PageInv, NoPage, PageType
<1>7. CASE HttpPool \/ HttpRequest
  <2>1. UNCHANGED page /\ Quiet
    BY <1>1, <1>7, HttpMoves, FirstFacts DEF clientVars
  <2> QED
    BY <1>1, <1>2, <2>1, PageSame
<1>8. CASE Connected \/ Closes
  <2>1. UNCHANGED page
    BY <1>1, <1>8, ConnMoves
  <2>2. Waiting \/ First("return") => First("return")'
    <3>1. PICK c \in Conns : First(Waits(c)) \/ (First(Close(c)) /\ Moves(<<>>))
      BY <1>1, <1>8, ConnMoves
    <3>2. First(Waits(c)) => ~Waiting /\ ~First("return")
      BY <1>1, FirstFacts DEF Waits, Waiting, Returning
    <3>3. First(Close(c)) => (Waiting => Returning) /\ ~First("return")
      BY <1>1, FirstFacts DEF Close, Waiting, Returning
    <3> QED
      BY <1>1, <3>1, <3>2, <3>3, ReturnsNext
  <2> QED
    BY <1>1, <2>1, <2>2, PageSame
<1>9. CASE HttpGivesUp
  <2>1. UNCHANGED page
    BY <1>9 DEF HttpGivesUp
  <2> QED
    BY <1>1, <1>9, <2>1, HttpMoves, AnswerMoves, PageSame
<1>10. CASE HttpAnswer
  <2> DEFINE rx == conn["http"].rx
  <2>1. Waiting' \/ First("return")'
    BY <1>1, <1>10, HttpMoves, AnswerMoves
  <2>2. page' = HttpPass(rx).page
    BY <1>10 DEF HttpAnswer
  <2>3. rx \in Seq(Token)
    BY <1>1, ClientConns
  <2> HIDE DEF rx
  <2>4. PICK m \in 0 .. Len(rx) : Passes(rx, HttpPass(rx).page, HttpPass(rx).rest, m)
    BY <1>1, <2>3, PassFacts DEF PageInv
  <2>5. /\ page' \in PageType /\ Len(page'.got) <= page'.cap /\ (page'.head => Len(page'.got) <= page'.need)
        /\ ~page'.head => page' = page
    BY <2>2, <2>4 DEF Passes
  <2>6. ~page'.head => page'.got = <<>>
    BY <1>1, <2>5 DEF PageInv
  <2> QED
    BY <2>1, <2>5, <2>6 DEF PageTypes, PageInv
<1> QED
  BY <1>3, <1>4, <1>5, <1>6, <1>7, <1>8, <1>9, <1>10 DEF Next, Aside

------------------------------------------------------------------------------
(***************************************************************************)
(* The responses that the HTTP client has still to read                    *)
(***************************************************************************)
LEMMA HoldsAppend ==
    ASSUME NEW x \in Seq(Token), NEW t \in Seq(Token), NEW s, NEW e \in Token,
           Holds(x, t, s), e = s[Len(t) + 1]
    PROVE  Holds(Append(x, e), Append(t, e), s) /\ Kept(Append(x, e), Append(t, e)) = Kept(x, t)
<1> DEFINE y == Append(x, e)
           u == Append(t, e)
<1>1. /\ Len(y) = Len(x) + 1 /\ DOMAIN y = 1 .. Len(x) + 1 /\ DOMAIN x = 1 .. Len(x) /\ Len(x) \in Nat
      /\ \A i \in 1 .. Len(x) : y[i] = x[i]
      /\ y[Len(x) + 1] = e
  BY AppendFacts
<1>2. Len(u) = Len(t) + 1 /\ Len(t) \in Nat
  OBVIOUS
<1> HIDE DEF y, u
<1>3. Kept(y, u) = Kept(x, t) /\ Len(x) <= Len(t) /\ Kept(x, t) + Len(x) + 1 = Len(t) + 1
  BY <1>1, <1>2 DEF Kept, Holds
<1>4. ASSUME NEW i \in DOMAIN y PROVE y[i] = s[Kept(x, t) + i]
  <2>1. CASE i \in 1 .. Len(x)
    BY <1>1, <2>1 DEF Holds
  <2>2. CASE i = Len(x) + 1
    <3>1. Kept(x, t) + i = Len(t) + 1
      BY <1>1, <1>2, <2>2 DEF Kept
    <3> QED
      BY <1>1, <2>2, <3>1
  <2> QED
    BY <1>1, <2>1, <2>2
<1> QED
  BY <1>1, <1>2, <1>3, <1>4 DEF Holds, y, u

\* y is what x holds after its first m tokens.
Drops(y, x, m) ==
    /\ y \in Seq(Token) /\ m \in 0 .. Len(x) /\ Len(y) = Len(x) - m
    /\ \A i \in DOMAIN y : y[i] = x[m + i]

LEMMA HoldsDrop ==
    ASSUME NEW x \in Seq(Token), NEW t \in Seq(Token), NEW s, Holds(x, t, s), NEW y, NEW m, Drops(y, x, m)
    PROVE  Holds(y, t, s) /\ Kept(y, t) = Kept(x, t) + m /\ Kept(x, t) \in Nat
<1>0. /\ y \in Seq(Token) /\ m \in 0 .. Len(x) /\ Len(y) = Len(x) - m
      /\ \A i \in DOMAIN y : y[i] = x[m + i]
  BY DEF Drops
<1>1. /\ DOMAIN x = 1 .. Len(x) /\ DOMAIN y = 1 .. Len(x) - m /\ Len(x) \in Nat /\ Len(t) \in Nat
      /\ Len(x) <= Len(t)
  BY <1>0 DEF Holds
<1>2. Kept(y, t) = Kept(x, t) + m /\ Kept(x, t) \in Nat
  BY <1>0, <1>1 DEF Kept
<1>3. ASSUME NEW i \in DOMAIN y PROVE y[i] = s[Kept(y, t) + i]
  <2>1. m + i \in DOMAIN x /\ Kept(x, t) + (m + i) = Kept(y, t) + i
    BY <1>0, <1>1, <1>2
  <2>2. y[i] = x[m + i]
    BY <1>0
  <2> QED
    BY <2>1, <2>2 DEF Holds
<1> QED
  BY <1>0, <1>1, <1>2, <1>3 DEF Holds

\* Nothing of a request begins or ends, but that the next token of the stream
\* may be received.
HttpStays ==
    /\ Serves' => Serves
    /\ First("wait_http")' => First("wait_http")
    /\ ~Waiting' => ~Waiting
    /\ Undisturbed("http") \/ Delivered("http")

LEMMA StreamStays ==
    ASSUME NetInv, NetInv', Undisturbed("http") \/ Delivered("http"), HttpPort # 0,
           Holds(HttpRx, HttpTaken, HttpSent)
    PROVE  /\ HttpPort' = HttpPort /\ HttpSent' = HttpSent
           /\ Holds(HttpRx, HttpTaken, HttpSent)'
           /\ Kept(HttpRx, HttpTaken)' = Kept(HttpRx, HttpTaken)
<1>1. "http" \in Conns /\ HttpRx \in Seq(Token) /\ HttpPort \in Ports /\ NetTypes /\ NetTypes'
  BY ClientConns, PortFacts DEF HttpRx, HttpPort, NetInv
<1>2. CASE Undisturbed("http")
  BY <1>2 DEF Undisturbed, Holds, Kept, HttpPort, HttpRx, HttpSent, HttpTaken
<1>3. CASE Delivered("http")
  <2>1. /\ HttpPort' = HttpPort /\ HttpSent' = HttpSent
        /\ \E t \in Token : HttpRx' = Append(HttpRx, t) /\ HttpTaken' = Append(HttpTaken, t)
    BY <1>3 DEF Delivered, HttpPort, HttpRx, HttpSent, HttpTaken
  <2>2. PICK t \in Token : HttpRx' = Append(HttpRx, t) /\ HttpTaken' = Append(HttpTaken, t)
    BY <2>1
  <2>3. HttpTaken \in Seq(Token) /\ \A i \in DOMAIN HttpTaken' : HttpTaken'[i] = HttpSent'[i]
    <3>1. HttpTaken \in Seq(Token)
      BY <1>1 DEF NetTypes, HttpTaken
    <3>2. \A p \in Ports : \A i \in DOMAIN taken'[p] : taken'[p][i] = peer'[p].sent[i]
      BY DEF NetInv, PeersInv
    <3> QED
      BY <1>1, <2>1, <3>1, <3>2 DEF HttpTaken, HttpSent
  <2>4. Len(HttpTaken) + 1 \in DOMAIN HttpTaken' /\ HttpTaken'[Len(HttpTaken) + 1] = t
    BY <2>2, <2>3, AppendFacts
  <2>5. t = HttpSent[Len(HttpTaken) + 1]
    BY <2>1, <2>3, <2>4
  <2>6. /\ Holds(HttpRx', HttpTaken', HttpSent) /\ Kept(HttpRx', HttpTaken') = Kept(HttpRx, HttpTaken)
    BY <1>1, <2>2, <2>3, <2>5, HoldsAppend
  <2> QED
    BY <2>1, <2>6
<1> QED
  BY <1>2, <1>3

LEMMA HttpSame ==
    ASSUME NetInv, NetInv', HttpInv, HttpStays, UNCHANGED page
    PROVE  HttpInv'
<1> SUFFICES ASSUME Serves'
             PROVE  (/\ HttpPort # 0
                     /\ Holds(HttpRx, HttpTaken, HttpSent)
                     /\ OursFollows(HttpSent, Kept(HttpRx, HttpTaken), page, Waiting)
                     /\ \A i \in DOMAIN page.got : page.got[i].r = page.r
                     /\ First("wait_http") => HttpSent = <<>>)'
  BY DEF HttpInv
<1>1. /\ HttpPort # 0
      /\ Holds(HttpRx, HttpTaken, HttpSent)
      /\ OursFollows(HttpSent, Kept(HttpRx, HttpTaken), page, Waiting)
      /\ \A i \in DOMAIN page.got : page.got[i].r = page.r
      /\ First("wait_http") => HttpSent = <<>>
  BY DEF HttpInv, HttpStays
<1>2. /\ HttpPort' = HttpPort /\ HttpSent' = HttpSent
      /\ Holds(HttpRx, HttpTaken, HttpSent)'
      /\ Kept(HttpRx, HttpTaken)' = Kept(HttpRx, HttpTaken)
  BY <1>1, StreamStays DEF HttpStays
<1>3. OursFollows(HttpSent', Kept(HttpRx, HttpTaken)', page', Waiting')
  BY <1>1, <1>2 DEF OursFollows, HttpStays
<1>4. \A i \in DOMAIN page'.got : page'.got[i].r = page'.r
  BY <1>1
<1>5. First("wait_http")' => HttpSent' = <<>>
  BY <1>1, <1>2 DEF HttpStays
<1> QED
  BY <1>1, <1>2, <1>3, <1>4, <1>5

\* A page that has not begun takes the place of the page of no request.
LEMMA HttpNewPage ==
    ASSUME NetInv, NetInv', HttpInv, HttpStays, ~Waiting, ~page'.head, page'.got = <<>>
    PROVE  HttpInv'
<1> SUFFICES ASSUME Serves'
             PROVE  (/\ HttpPort # 0
                     /\ Holds(HttpRx, HttpTaken, HttpSent)
                     /\ OursFollows(HttpSent, Kept(HttpRx, HttpTaken), page, Waiting)
                     /\ \A i \in DOMAIN page.got : page.got[i].r = page.r
                     /\ First("wait_http") => HttpSent = <<>>)'
  BY DEF HttpInv
<1>1. /\ HttpPort # 0
      /\ Holds(HttpRx, HttpTaken, HttpSent)
      /\ OursFollows(HttpSent, Kept(HttpRx, HttpTaken), page, Waiting)
      /\ First("wait_http") => HttpSent = <<>>
  BY DEF HttpInv, HttpStays
<1>2. /\ HttpPort' = HttpPort /\ HttpSent' = HttpSent
      /\ Holds(HttpRx, HttpTaken, HttpSent)'
      /\ Kept(HttpRx, HttpTaken)' = Kept(HttpRx, HttpTaken)
  BY <1>1, StreamStays DEF HttpStays
<1>3. OursFollows(HttpSent', Kept(HttpRx, HttpTaken)', page', Waiting')
  BY <1>1, <1>2 DEF OursFollows
<1>4. First("wait_http")' => HttpSent' = <<>>
  BY <1>1, <1>2 DEF HttpStays
<1> QED
  BY <1>1, <1>2, <1>3, <1>4

\* A connection that is made has a port that had none, and nothing to hand over.
LEMMA OpensFresh ==
    ASSUME NetInv, NEW c \in Conns, Opens(c)
    PROVE  /\ conn'[c].port # 0 /\ conn'[c].port \in Ports /\ conn'[c].rx = <<>>
           /\ peer'[conn'[c].port].sent = <<>> /\ taken'[conn'[c].port] = <<>>
<1>1. NetTypes
  BY DEF NetInv
<1>2. /\ port < PortMax /\ port' = port + 1 /\ taken' = taken
      /\ conn' = [conn EXCEPT ![c] = [Closed EXCEPT !.port = port']]
      /\ peer' = IF gateway THEN [peer EXCEPT ![port'].st = "syn"] ELSE peer
  BY DEF Opens, OpenConn
<1>3. port' \in Ports /\ port' > port /\ port' # 0
  BY <1>1, <1>2, TcpAssumption DEF NetTypes, Ports
<1>4. peer[port'] = NoPeer /\ taken[port'] = <<>>
  BY <1>3 DEF NetInv, PortsInv
<1>5. conn'[c].port = port' /\ conn'[c].rx = <<>>
  <2> DEFINE p == port'
             k == [Closed EXCEPT !.port = p]
  <2>1. p \in 0 .. PortMax
    BY <1>3, TcpAssumption DEF Ports
  <2>2. conn'[c] = k
    BY <1>1, <1>2 DEF NetTypes
  <2> HIDE DEF p
  <2>3. k.port = p /\ k.rx = <<>>
    BY <2>1 DEF Closed
  <2> QED
    BY <2>2, <2>3 DEF p
<1>6. peer'[port'].sent = <<>>
  <2>1. peer[port'].sent = <<>> /\ peer[port'] \in PeerType
    BY <1>4, FreshFacts
  <2> QED
    BY <1>1, <1>2, <1>3, <2>1 DEF NetTypes, PeerType
<1> QED
  BY <1>2, <1>3, <1>4, <1>5, <1>6

LEMMA HttpOpens ==
    ASSUME NetInv, PageInv, Opens("http"), UNCHANGED page, ~Waiting, ~First("return")
    PROVE  HttpInv'
<1>1. NetTypes /\ "http" \in Conns
  BY ClientConns DEF NetInv
<1>2. HttpPort' # 0 /\ HttpRx' = <<>> /\ HttpSent' = <<>> /\ HttpTaken' = <<>>
  BY <1>1, OpensFresh DEF HttpPort, HttpRx, HttpSent, HttpTaken
<1>3. Holds(<<>>, <<>>, <<>>)
  BY DEF Holds
<1>4. OursFollows(<<>>, Kept(<<>>, <<>>), page', Waiting')
  BY DEF OursFollows
<1>5. page'.got = <<>>
  BY DEF PageInv
<1> QED
  BY <1>2, <1>3, <1>4, <1>5 DEF HttpInv

\* The response to a request follows what was sent before, which is no head.
LEMMA HttpSays ==
    ASSUME NetInv, HttpInv, PageTypes, PageInv, UNCHANGED <<page, pool>>,
           NEW s \in Response(page.r) \cup {<<>>}, s \in Seq(Token), Says(HttpPort, s), HttpPort \in Ports,
           ~Waiting, ~First("return"), Waiting', ~First("wait_http")'
    PROVE  HttpInv'
<1>1. NetTypes /\ "http" \in Conns
  BY ClientConns DEF NetInv
<1> SUFFICES ASSUME Serves'
             PROVE  (/\ HttpPort # 0
                     /\ Holds(HttpRx, HttpTaken, HttpSent)
                     /\ OursFollows(HttpSent, Kept(HttpRx, HttpTaken), page, Waiting)
                     /\ \A i \in DOMAIN page.got : page.got[i].r = page.r
                     /\ First("wait_http") => HttpSent = <<>>)'
  BY DEF HttpInv
<1>2. /\ HttpPort # 0
      /\ Holds(HttpRx, HttpTaken, HttpSent)
      /\ OursFollows(HttpSent, Kept(HttpRx, HttpTaken), page, Waiting)
  BY DEF HttpInv, Serves
<1>3. HttpPort' = HttpPort /\ HttpRx' = HttpRx /\ HttpTaken' = HttpTaken /\ HttpSent' = HttpSent \o s
  <2>1. /\ peer' = [peer EXCEPT ![HttpPort].sent = @ \o s] /\ UNCHANGED <<conn, taken>>
    BY DEF Says
  <2>2. peer[HttpPort] \in PeerType
    BY <1>1, PortFacts
  <2> DEFINE new == HttpSent \o s
  <2>3. peer' = [peer EXCEPT ![HttpPort].sent = new]
    BY <2>1 DEF HttpSent
  <2> HIDE DEF new
  <2>4. peer'[HttpPort].sent = new
    BY <1>1, <2>2, <2>3 DEF NetTypes, PeerType
  <2> QED
    BY <2>1, <2>4 DEF new, HttpPort, HttpRx, HttpTaken, HttpSent
<1>4. HttpSent \in Seq(Token) /\ HttpTaken \in Seq(Token) /\ HttpRx \in Seq(Token)
      /\ Len(HttpTaken) <= Len(HttpSent)
  <2>1. peer[HttpPort] \in PeerType
    BY <1>1, PortFacts
  <2> QED
    BY <1>1, <2>1, ClientConns DEF NetTypes, PeerType, HttpSent, HttpTaken, HttpRx, NetInv, PeersInv
<1> DEFINE old == HttpSent
           new == HttpSent \o s
           k == Kept(HttpRx, HttpTaken)
<1>5. /\ Len(new) = Len(old) + Len(s) /\ DOMAIN new = 1 .. Len(old) + Len(s)
      /\ \A i \in 1 .. Len(old) : new[i] = old[i]
      /\ \A i \in Len(old) + 1 .. Len(old) + Len(s) : new[i] = s[i - Len(old)]
      /\ DOMAIN old = 1 .. Len(old) /\ DOMAIN s = 1 .. Len(s) /\ Len(old) \in Nat /\ Len(s) \in Nat
  BY <1>4, ConcatFacts
<1>6. ~page.head /\ page.got = <<>>
  BY DEF PageInv
<1>7. \A i \in DOMAIN s : s[i].r = page.r /\ (i > 1 => s[i].k # "head")
  <2>1. page.r \in Nat
    BY DEF PageTypes, PageType
  <2>2. CASE s = <<>>
    BY <2>2
  <2>3. CASE s \in Response(page.r)
    BY <2>1, <2>3, ResponseFacts
  <2> QED
    BY <2>2, <2>3
<1> HIDE DEF new, old, k
<1>8. Holds(HttpRx, HttpTaken, new)
  <2>1. ASSUME NEW i \in DOMAIN HttpRx PROVE Kept(HttpRx, HttpTaken) + i \in 1 .. Len(old)
    <3>1. i \in 1 .. Len(HttpRx) /\ Len(HttpRx) \in Nat /\ Len(HttpTaken) \in Nat /\ Len(HttpRx) <= Len(HttpTaken)
      BY <1>2, <1>4 DEF Holds
    <3> QED
      BY <1>4, <1>5, <3>1 DEF Kept, old
  <2> QED
    BY <1>2, <1>5, <2>1 DEF Holds, old
<1>9. \A i \in DOMAIN old : i > k => old[i].k # "head"
  BY <1>2 DEF OursFollows, old, k
<1>10. ASSUME NEW i \in DOMAIN new, i > k, new[i].k = "head"
       PROVE  i >= Len(old) + 1
  BY <1>5, <1>9, <1>10
<1>11. OursFollows(new, k, page, TRUE)
  <2>1. ASSUME NEW i \in DOMAIN new, NEW j \in DOMAIN new, i > k, j > k, new[i].k = "head", i < j
        PROVE  new[j].r = page.r /\ new[j].k # "head"
    <3>1. j \in Len(old) + 1 .. Len(old) + Len(s) /\ j - Len(old) \in DOMAIN s /\ j - Len(old) > 1
      BY <1>5, <1>10, <2>1
    <3>2. new[j] = s[j - Len(old)]
      BY <1>5, <3>1
    <3> QED
      BY <1>7, <3>1, <3>2
  <2> QED
    BY <1>6, <2>1 DEF OursFollows
<1>12. OursFollows(HttpSent', Kept(HttpRx, HttpTaken)', page', Waiting')
  BY <1>3, <1>11 DEF new, k, OursFollows
<1>13. Holds(HttpRx', HttpTaken', HttpSent')
  BY <1>3, <1>8 DEF new
<1>14. \A i \in DOMAIN page'.got : page'.got[i].r = page'.r
  <2>1. page'.got = <<>>
    BY <1>6
  <2> QED
    BY <2>1
<1>15. HttpPort' # 0
  BY <1>2, <1>3
<1> HIDE DEF Serves
<1> QED
  BY <1>12, <1>13, <1>14, <1>15

\* A pass over rx_buf, and what it leaves there.
LEMMA AnswerFacts ==
    ASSUME NetTypes, Tidy(script), PageTypes, PageInv, HttpAnswer
    PROVE  \E m \in 0 .. Len(HttpRx) : \E n \in 0 .. Len(HttpRx) :
               /\ Passes(HttpRx, page', HttpPass(HttpRx).rest, m) /\ m <= n
               /\ HttpRx' \in Seq(Token) /\ Len(HttpRx') = Len(HttpRx) - n
               /\ \A i \in DOMAIN HttpRx' : HttpRx'[i] = HttpRx[n + i]
               /\ ~page'.head => m = n /\ Waiting'
<1> DEFINE rx == HttpRx
           pass == HttpPass(rx)
           p == pass.page
           complete == p.head /\ Len(p.got) >= p.need
           cut == ~complete /\ p.head /\ Len(p.got) = p.cap /\ pass.rest # <<>>
           full == ~p.head /\ Len(HttpRx) >= RxCap
           over == p.close \/ ~Usable("http") \/ full
<1>1. rx \in Seq(Token)
  BY ClientConns DEF HttpRx
<1>2. PICK m \in 0 .. Len(rx) : Passes(rx, p, pass.rest, m)
  <2>1. \E m \in 0 .. Len(rx) : Passes(rx, HttpPass(rx).page, HttpPass(rx).rest, m)
    BY <1>1, PassFacts DEF PageInv
  <2> QED
    BY <2>1
<1>3. page' = p
  BY DEF HttpAnswer, HttpRx
<1>4. HttpRx' = pass.rest \/ (HttpRx' = <<>> /\ p.head)
  BY HttpAnswerNet DEF HttpRx
<1>5. ~p.head => Waiting'
  <2> SUFFICES ASSUME ~p.head PROVE Waiting'
    OBVIOUS
  <2>1. \/ (~Usable("http") \/ full) /\ Do(<<"close_http", "return">>)
        \/ UNCHANGED script
    <3>1. \/ /\ complete \/ cut \/ ~Usable("http") \/ full
             /\ Do(IF over THEN <<"close_http", "return">> ELSE <<"return">>)
          \/ UNCHANGED script
      BY DEF HttpAnswer, HttpRx
    <3> QED
      BY <3>1
  <2>2. First("answer") /\ script # <<>> /\ script[1] = "answer"
    BY AtFacts DEF HttpAnswer
  <2>3. Do(<<"close_http", "return">>) => Moves(<<"close_http", "return">>)
    BY <2>2, AheadFacts DEF Moves
  <2>4. UNCHANGED script => Waiting'
    BY <2>2 DEF Waiting, First
  <2> QED
    BY <2>1, <2>2, <2>3, <2>4, AnswerMoves
<1>6. /\ pass.rest \in Seq(Token) /\ Len(pass.rest) = Len(rx) - m
      /\ \A i \in DOMAIN pass.rest : pass.rest[i] = rx[m + i]
  BY <1>2 DEF Passes
<1> HIDE DEF rx, p, pass
<1>7. Passes(rx, page', pass.rest, m)
  BY <1>2, <1>3
<1>8. CASE HttpRx' = pass.rest
  BY <1>3, <1>5, <1>6, <1>7, <1>8 DEF rx, pass
<1>9. CASE HttpRx' = <<>> /\ p.head
  <2> DEFINE n == Len(rx)
  <2>1. n \in 0 .. Len(rx) /\ m <= n /\ Len(HttpRx') = Len(rx) - n /\ HttpRx' \in Seq(Token)
    BY <1>1, <1>9
  <2>2. \A i \in DOMAIN HttpRx' : HttpRx'[i] = rx[n + i]
    BY <1>9
  <2> HIDE DEF n
  <2> QED
    BY <1>3, <1>7, <1>9, <2>1, <2>2 DEF rx, pass
<1> QED
  BY <1>4, <1>8, <1>9

\* What a pass takes of the stream is a response to the request in hand.
LEMMA HttpAnswers ==
    ASSUME NetInv, NetInv', Tidy(script), HttpInv, PageTypes, PageInv, HttpAnswer
    PROVE  HttpInv'
<1>1. NetTypes /\ NetTypes' /\ "http" \in Conns
  BY ClientConns DEF NetInv
<1>2. /\ First("answer") /\ ~First("wait_http") /\ ~First("wait_http")' /\ Waiting
  <2>1. /\ First("answer")
        /\ Moves(<<"close_http", "return">>) \/ Moves(<<"return">>) \/ UNCHANGED script
    BY HttpMoves
  <2>2. ~First("wait_http")
    BY <2>1, FirstFacts
  <2> QED
    BY <2>1, <2>2, AnswerMoves DEF Waiting, First
<1>3. HttpPort' = HttpPort /\ HttpTaken' = HttpTaken /\ HttpSent' = HttpSent /\ UNCHANGED <<pool, peer, taken>>
  <2>1. UNCHANGED <<pool, peer, taken>> /\ conn'["http"].port = conn["http"].port
    BY <1>1, HttpAnswerNet DEF HttpAnswer
  <2> QED
    BY <2>1 DEF HttpPort, HttpTaken, HttpSent
<1> SUFFICES ASSUME Serves'
             PROVE  (/\ HttpPort # 0
                     /\ Holds(HttpRx, HttpTaken, HttpSent)
                     /\ OursFollows(HttpSent, Kept(HttpRx, HttpTaken), page, Waiting)
                     /\ \A i \in DOMAIN page.got : page.got[i].r = page.r
                     /\ First("wait_http") => HttpSent = <<>>)'
  BY DEF HttpInv
<1>4. /\ HttpPort # 0
      /\ Holds(HttpRx, HttpTaken, HttpSent)
      /\ OursFollows(HttpSent, Kept(HttpRx, HttpTaken), page, Waiting)
      /\ \A i \in DOMAIN page.got : page.got[i].r = page.r
  BY <1>2, <1>3 DEF HttpInv, Serves
<1>5. HttpRx \in Seq(Token) /\ HttpTaken \in Seq(Token) /\ HttpSent \in Seq(Token)
      /\ Len(HttpTaken) <= Len(HttpSent)
  <2>1. HttpPort \in Ports /\ peer[HttpPort] \in PeerType
    BY <1>1, <1>4, PortFacts DEF HttpPort
  <2> QED
    BY <1>1, <2>1, ClientConns DEF NetTypes, PeerType, HttpSent, HttpTaken, HttpRx, NetInv, PeersInv
<1>6. PICK m \in 0 .. Len(HttpRx) : \E n \in 0 .. Len(HttpRx) :
          /\ Passes(HttpRx, page', HttpPass(HttpRx).rest, m) /\ m <= n
          /\ HttpRx' \in Seq(Token) /\ Len(HttpRx') = Len(HttpRx) - n
          /\ \A i \in DOMAIN HttpRx' : HttpRx'[i] = HttpRx[n + i]
          /\ ~page'.head => m = n /\ Waiting'
  BY <1>1, AnswerFacts
<1>7. PICK n \in 0 .. Len(HttpRx) :
          /\ Passes(HttpRx, page', HttpPass(HttpRx).rest, m) /\ m <= n
          /\ HttpRx' \in Seq(Token) /\ Len(HttpRx') = Len(HttpRx) - n
          /\ \A i \in DOMAIN HttpRx' : HttpRx'[i] = HttpRx[n + i]
          /\ ~page'.head => m = n /\ Waiting'
  BY <1>6
<1> DEFINE k == Kept(HttpRx, HttpTaken)
           Unread == {i \in DOMAIN HttpSent : i > k}
<1>8. Holds(HttpRx', HttpTaken, HttpSent) /\ Kept(HttpRx', HttpTaken) = k + n /\ k \in Nat
  <2> DEFINE y == HttpRx'
             x == HttpRx
             t == HttpTaken
             s == HttpSent
  <2>1. x \in Seq(Token) /\ t \in Seq(Token) /\ Holds(x, t, s) /\ Drops(y, x, n)
    BY <1>4, <1>5, <1>7 DEF Drops
  <2> HIDE DEF y, x, t, s
  <2>2. Holds(y, t, s) /\ Kept(y, t) = Kept(x, t) + n /\ Kept(x, t) \in Nat
    BY <2>1, HoldsDrop
  <2> QED
    BY <2>2 DEF y, x, t, s
<1>9. \A j \in DOMAIN HttpRx : k + j \in Unread /\ HttpRx[j] = HttpSent[k + j]
  <2> SUFFICES ASSUME NEW j \in DOMAIN HttpRx PROVE k + j \in Unread /\ HttpRx[j] = HttpSent[k + j]
    OBVIOUS
  <2>1. /\ j \in 1 .. Len(HttpRx) /\ Len(HttpRx) \in Nat /\ Len(HttpTaken) \in Nat
        /\ Len(HttpRx) <= Len(HttpTaken) /\ DOMAIN HttpSent = 1 .. Len(HttpSent) /\ Len(HttpSent) \in Nat
    BY <1>4, <1>5 DEF Holds
  <2>2. k + j \in DOMAIN HttpSent /\ k + j > k
    BY <1>5, <2>1 DEF Kept
  <2> QED
    BY <1>4, <2>2 DEF Holds
<1>10. /\ page.head => \A i \in Unread : HttpSent[i].r = page.r /\ HttpSent[i].k # "head"
       /\ \A i, j \in Unread : HttpSent[i].k = "head" /\ i < j => HttpSent[j].r = page.r /\ HttpSent[j].k # "head"
  BY <1>4 DEF OursFollows
<1>11. /\ page'.r = page.r
       /\ \/ /\ ~page.head /\ ~page'.head /\ page' = page
             /\ \A i \in DOMAIN HttpRx : HttpRx[i].k # "head"
          \/ /\ page.head /\ page'.head
             /\ \A i \in DOMAIN page'.got : \/ i \in DOMAIN page.got /\ page'.got[i] = page.got[i]
                                            \/ \E j \in DOMAIN HttpRx : page'.got[i] = HttpRx[j]
          \/ /\ ~page.head /\ page'.head
             /\ \E h \in 1 .. m : /\ HttpRx[h].k = "head"
                                  /\ \A i \in DOMAIN page'.got : \E j \in DOMAIN HttpRx :
                                        j > h /\ page'.got[i] = HttpRx[j]
  BY <1>7 DEF Passes
<1>12. \A i \in DOMAIN HttpSent : i > k + n => i \in Unread
  BY <1>5, <1>8
<1> HIDE DEF k
<1>13. (\A i \in DOMAIN page'.got : page'.got[i].r = page'.r)
       /\ OursFollows(HttpSent, k + n, page', Waiting')
  <2>1. CASE ~page.head /\ ~page'.head /\ page' = page
    <3>1. Waiting'
      BY <1>7, <2>1
    <3> QED
      BY <1>4, <1>10, <1>12, <2>1, <3>1 DEF OursFollows
  <2>2. CASE /\ page.head /\ page'.head
             /\ \A i \in DOMAIN page'.got : \/ i \in DOMAIN page.got /\ page'.got[i] = page.got[i]
                                            \/ \E j \in DOMAIN HttpRx : page'.got[i] = HttpRx[j]
    <3>1. \A i \in DOMAIN HttpSent : i > k + n => HttpSent[i].r = page.r /\ HttpSent[i].k # "head"
      BY <1>10, <1>12, <2>2
    <3>2. \A j \in DOMAIN HttpRx : HttpRx[j].r = page.r
      BY <1>9, <1>10, <2>2
    <3>3. \A i \in DOMAIN page'.got : page'.got[i].r = page'.r
      BY <1>4, <1>11, <2>2, <3>2
    <3> QED
      BY <1>11, <3>1, <3>3 DEF OursFollows
  <2>3. CASE \E h \in 1 .. m : /\ HttpRx[h].k = "head"
                               /\ \A i \in DOMAIN page'.got : \E j \in DOMAIN HttpRx :
                                     j > h /\ page'.got[i] = HttpRx[j]
    <3>1. PICK h \in 1 .. m : /\ HttpRx[h].k = "head"
                              /\ \A i \in DOMAIN page'.got : \E j \in DOMAIN HttpRx :
                                    j > h /\ page'.got[i] = HttpRx[j]
      BY <2>3
    <3>2. h \in DOMAIN HttpRx /\ h \in Nat /\ m \in Nat /\ n \in Nat /\ h <= n
      BY <1>5, <1>7
    <3>3. k + h \in Unread /\ HttpSent[k + h].k = "head"
      BY <1>9, <3>1, <3>2
    <3>4. \A j \in Unread : k + h < j => HttpSent[j].r = page.r /\ HttpSent[j].k # "head"
      BY <1>10, <3>3
    <3>5. \A i \in DOMAIN HttpSent : i > k + n => HttpSent[i].r = page.r /\ HttpSent[i].k # "head"
      BY <1>5, <1>8, <1>12, <3>2, <3>4
    <3>6. \A j \in DOMAIN HttpRx : j > h => HttpRx[j].r = page.r
      BY <1>5, <1>8, <1>9, <3>2, <3>4
    <3>7. \A i \in DOMAIN page'.got : page'.got[i].r = page'.r
      BY <1>11, <3>1, <3>6
    <3> QED
      BY <1>11, <3>5, <3>7 DEF OursFollows
  <2> QED
    BY <1>11, <2>1, <2>2, <2>3
<1>14. /\ Holds(HttpRx', HttpTaken', HttpSent')
       /\ OursFollows(HttpSent', Kept(HttpRx', HttpTaken'), page', Waiting')
       /\ HttpPort' # 0
  BY <1>3, <1>4, <1>8, <1>13
<1> HIDE DEF Serves
<1> QED
  BY <1>2, <1>13, <1>14

\* Every step of the clients and of the network.
LEMMA HttpKeeps ==
    ASSUME Inv, Next, NetInv'
    PROVE  HttpInv'
<1>1. NetInv /\ NetTypes /\ ScriptInv /\ Tidy(script) /\ PoolInv /\ PageTypes /\ PageInv /\ HttpInv /\ DnsInv
  BY DEF Inv, NetInv, ScriptInv
<1>2. "http" \in Conns /\ "irc" \in Conns /\ "irc" # "http" /\ Conns = {"http", "irc"}
  BY <1>1, ClientConns
<1>3. Quiet => ~Waiting /\ ~First("wait_http") /\ ~First("return")
  BY DEF Quiet, Waiting
<1>4. ASSUME UNCHANGED <<script, pool, page>>, Undisturbed("http") \/ Delivered("http")
      PROVE  HttpInv'
  <2>1. HttpStays
    BY <1>4 DEF HttpStays, Serves, First, Waiting, Returning
  <2> QED
    BY <1>1, <1>4, <2>1, HttpSame
<1>5. ASSUME Quiet, ~First("wait_http")', UNCHANGED pool, Undisturbed("http")
      PROVE  HttpStays /\ ~Waiting
  BY <1>3, <1>5 DEF HttpStays, Serves
<1>6. ASSUME UNCHANGED netVars PROVE Undisturbed("http")
  BY <1>1, <1>2, <1>6, WireUndisturbed
<1>7. CASE Poll
  BY <1>1, <1>2, <1>4, <1>7, PollNet, HandlesDelivers DEF Poll
<1>8. CASE World
  <2>1. UNCHANGED <<script, pool, page>>
    BY <1>8 DEF World, ArpReply, DnsReply, IrcServer, clientVars
  <2>2. Undisturbed("http")
    <3>1. CASE Wire
      BY <1>1, <1>2, <3>1, WireUndisturbed
    <3>2. CASE ArpReply \/ DnsReply
      BY <3>2 DEF ArpReply, DnsReply, Undisturbed
    <3>3. CASE IrcServer
      <4> DEFINE p == conn["irc"].port
      <4>1. PICK t \in Token : p \in Ports /\ Says(p, <<t>>)
        BY <1>1, <3>3, IrcServerNet
      <4> DEFINE new == peer[p].sent \o <<t>>
      <4>2. peer' = [peer EXCEPT ![p].sent = new] /\ UNCHANGED <<conn, taken>>
        BY <4>1 DEF Says
      <4>3. conn["http"].port # 0 => conn["http"].port # p
        BY <1>1, <1>2 DEF NetInv, PortsInv
      <4> HIDE DEF p, new
      <4>4. \A q : q # p => peer'[q] = peer[q] \/ q \notin Ports
        BY <1>1, <4>2 DEF NetTypes
      <4>5. conn["http"].port # 0 => conn["http"].port \in Ports
        BY <1>1, <1>2, PortFacts
      <4> QED
        BY <4>2, <4>3, <4>4, <4>5 DEF Undisturbed
    <3> QED
      BY <1>8, <3>1, <3>2, <3>3 DEF World
  <2> QED
    BY <1>4, <2>1, <2>2
<1>9. CASE Aside /\ ~HttpReturns
  <2>1. Quiet /\ Quiet' /\ Undisturbed("http")
    BY <1>1, <1>6, <1>9, AsideQuiet, AsideNet
  <2>2. UNCHANGED pool
    BY <1>9 DEF Aside, IdlePoll, vars, net_resolve_gateway, dns_resolve, dns_wait, HttpGet, IrcConnect, IrcQuit,
                QuitSent, Forget, IrcLogin, IrcJoinPart, IrcRead, IrcPoll, PongSent, clientVars
  <2>3. UNCHANGED page \/ (~page'.head /\ page'.got = <<>>)
    <3>1. CASE HttpGet
      <4>1. PICK cap \in Caps : page' = [NoPage EXCEPT !.r = calls', !.cap = cap]
        BY <3>1 DEF HttpGet
      <4> DEFINE r == calls'
      <4>2. page' = [NoPage EXCEPT !.r = r, !.cap = cap]
        BY <4>1
      <4> HIDE DEF r
      <4>3. page'.head = FALSE /\ page'.got = <<>>
        BY <4>2 DEF NoPage
      <4> QED
        BY <4>3
    <3>2. CASE ~HttpGet
      BY <1>9, <3>2 DEF Aside, IdlePoll, vars, net_resolve_gateway, dns_resolve, dns_wait, IrcConnect, IrcQuit,
                QuitSent, Forget, IrcLogin, IrcJoinPart, IrcRead, IrcPoll, PongSent, clientVars
    <3> QED
      BY <3>1, <3>2
  <2>4. HttpStays /\ ~Waiting
    BY <1>5, <2>1, <2>2 DEF Quiet
  <2> QED
    BY <1>1, <2>3, <2>4, HttpSame, HttpNewPage
<1>10. CASE IrcToken \/ IrcParsed
  <2>1. UNCHANGED <<pool, page, peer, taken>> /\ conn'["http"] = conn["http"]
    BY <1>1, <1>10, IrcTokenNet, IrcParsedNet DEF IrcToken, IrcParsed
  <2>2. Quiet /\ Quiet' /\ Undisturbed("http")
    BY <1>1, <1>10, <2>1, AsideQuiet DEF Undisturbed
  <2>3. HttpStays
    BY <1>5, <2>1, <2>2 DEF Quiet
  <2> QED
    BY <1>1, <2>1, <2>3, HttpSame
<1>11. CASE IrcCalls
  <2>1. UNCHANGED <<pool, page>> /\ (UNCHANGED netVars \/ Opens("irc"))
    BY <1>11 DEF IrcCalls, Opens, At
  <2>2. Quiet /\ Quiet' /\ Undisturbed("http")
    BY <1>1, <1>2, <1>6, <1>11, <2>1, AsideQuiet, AwayUndisturbed
  <2>3. HttpStays
    BY <1>5, <2>1, <2>2 DEF Quiet
  <2> QED
    BY <1>1, <2>1, <2>3, HttpSame
<1>12. CASE HttpReturns
  <2>1. page' = NoPage /\ UNCHANGED <<netVars, pool>>
    BY <1>12 DEF HttpReturns
  <2>2. First("return") /\ Moves(<<>>)
    BY <1>1, <1>12, AsideMoves
  <2>3. ~Waiting /\ ~First("wait_http") /\ ~First("wait_http")'
    BY <1>1, <2>2, FirstFacts, DoShape DEF Moves, Waiting, Returning
  <2>4. HttpStays
    BY <1>6, <2>1, <2>3 DEF HttpStays, Serves
  <2>5. ~page'.head /\ page'.got = <<>>
    BY <2>1 DEF NoPage
  <2> QED
    BY <1>1, <2>3, <2>4, <2>5, HttpNewPage
<1>13. CASE HttpPool
  <2>1. First("pool") /\ UNCHANGED <<pool, page>> /\ Quiet
    BY <1>1, <1>13, HttpMoves, FirstFacts DEF clientVars
  <2>2. CASE UNCHANGED netVars /\ (Moves(<<"request">>) \/ Moves(<<"close_http", "pool">>) \/ script' = <<>>)
    <3>1. ~First("wait_http")'
      BY <1>1, <2>2, DoShape, BeginsQuiet DEF Moves, Quiet
    <3>2. HttpStays
      BY <1>5, <1>6, <2>1, <2>2, <3>1
    <3> QED
      BY <1>1, <2>1, <3>2, HttpSame
  <2>3. CASE Opens("http")
    BY <1>1, <1>3, <2>1, <2>3, HttpOpens
  <2> QED
    BY <1>1, <1>13, <2>2, <2>3, HttpMoves
<1>14. CASE HttpRequest
  <2>1. First("request") /\ UNCHANGED <<pool, page>> /\ Quiet
    BY <1>1, <1>14, HttpMoves, FirstFacts DEF clientVars
  <2>2. Moves(<<"answer">>) \/ Moves(<<"close_http">>)
    BY <1>1, <1>14, HttpMoves
  <2>3. ~First("wait_http")'
    BY <1>1, <2>2, DoShape DEF Moves
  <2>4. CASE UNCHANGED netVars
    BY <1>1, <1>5, <1>6, <2>1, <2>3, <2>4, HttpSame
  <2>5. CASE ~UNCHANGED netVars
    <3>1. PICK s \in Response(page.r) \cup {<<>>} :
              /\ s \in Seq(Token) /\ Says(HttpPort, s)
              /\ HttpPort \in Ports /\ Do(<<"answer">>)
      BY <1>1, <1>14, <2>5, HttpRequestNet DEF HttpPort
    <3>2. Moves(<<"answer">>)
      BY <1>1, <1>14, <2>5, HttpMoves
    <3>3. Waiting'
      BY <1>1, <3>2, DoShape DEF Moves, Waiting
    <3> QED
      BY <1>1, <1>3, <2>1, <2>3, <3>1, <3>3, HttpSays
  <2> QED
    BY <2>4, <2>5
<1>15. CASE HttpAnswer
  BY <1>1, <1>15, HttpAnswers
<1>16. CASE HttpGivesUp
  <2>1. /\ First("answer") /\ pool' = [pool EXCEPT !.abandoned = TRUE]
        /\ Moves(<<"close_http", "return">>) \/ Moves(<<"return">>) \/ UNCHANGED script
    BY <1>1, <1>16, HttpMoves DEF HttpGivesUp
  <2>2. ~First("wait_http")'
    <3>1. ~First("wait_http")
      BY <1>1, <2>1, FirstFacts
    <3> QED
      BY <1>1, <2>1, <3>1, AnswerMoves DEF First
  <2>3. pool'.abandoned
    BY <1>1, <2>1 DEF PoolInv
  <2> QED
    BY <2>2, <2>3 DEF HttpInv, Serves
<1>17. CASE Connected \/ Closes
  <2>1. UNCHANGED page
    BY <1>1, <1>17, ConnMoves
  <2>2. PICK c \in Conns :
            \/ /\ First(Waits(c)) /\ conn[c].est /\ Moves(<<>>) /\ UNCHANGED netVars
               /\ pool' = IF c = "http" THEN [active |-> TRUE, abandoned |-> FALSE] ELSE pool
            \/ First(Waits(c)) /\ script' = <<>> /\ Leaves(c) /\ pool' = pool
            \/ /\ First(Close(c)) /\ Moves(<<>>) /\ Leaves(c)
               /\ pool' = IF c = "http" THEN [pool EXCEPT !.active = FALSE] ELSE pool
    BY <1>1, <1>17, ConnMoves
  <2>3. ~First("wait_http")'
    <3>1. Moves(<<>>) => ~First("wait_http")'
      BY <1>1, DoShape DEF Moves
    <3> QED
      BY <2>2, <3>1, BeginsQuiet DEF Quiet
  <2>4. CASE c = "irc"
    <3>1. First("wait_irc") \/ First("close_irc")
      BY <1>2, <2>2, <2>4 DEF Waits, Close
    <3>2. Quiet
      BY <1>1, <3>1, FirstFacts
    <3>3. UNCHANGED pool /\ (UNCHANGED netVars \/ Leaves("irc"))
      BY <1>2, <2>2, <2>4
    <3>4. Undisturbed("http")
      BY <1>1, <1>2, <1>6, <3>3, AwayUndisturbed
    <3> QED
      BY <1>1, <1>5, <2>1, <2>3, <3>2, <3>3, <3>4, HttpSame
  <2>5. CASE c = "http"
    <3>1. CASE First("wait_http") /\ UNCHANGED netVars
      <4>1. ~Waiting
        BY <1>1, <3>1, FirstFacts DEF Waiting, Returning
      <4>2. HttpStays
        BY <1>6, <2>3, <3>1, <4>1 DEF HttpStays, Serves
      <4> QED
        BY <1>1, <2>1, <4>2, HttpSame
    <3>2. CASE First("wait_http") /\ pool' = pool
      BY <1>1, <2>3, <3>2 DEF PoolInv, HttpInv, Serves
    <3>3. CASE pool' = [pool EXCEPT !.active = FALSE]
      <4>1. ~pool'.active
        BY <1>1, <3>3 DEF PoolInv
      <4> QED
        BY <2>3, <4>1 DEF HttpInv, Serves
    <3> QED
      BY <2>2, <2>5, <3>1, <3>2, <3>3 DEF Waits
  <2> QED
    BY <1>2, <2>4, <2>5
<1> QED
  BY <1>7, <1>8, <1>9, <1>10, <1>11, <1>12, <1>13, <1>14, <1>15, <1>16, <1>17 DEF Next, Aside

------------------------------------------------------------------------------
(***************************************************************************)
(* The lines of the IRC client                                             *)
(***************************************************************************)
\* The k-th line after the oldest, which is at h; the index goes round once at
\* most.
Place(h, k) == (h + k) % IRC_QUEUE_SIZE

LEMMA PlaceFacts ==
    ASSUME NEW h \in 0 .. IRC_QUEUE_SIZE - 1, NEW k \in 0 .. IRC_QUEUE_SIZE
    PROVE  Place(h, k) = IF h + k < IRC_QUEUE_SIZE THEN h + k ELSE h + k - IRC_QUEUE_SIZE
<1>1. IRC_QUEUE_SIZE \in Nat \ {0}
  BY NetAssumption
<1> DEFINE Q == IRC_QUEUE_SIZE
<1>2. ASSUME NEW r \in 0 .. Q - 1 PROVE r % Q = r /\ (r + Q) % Q = r
  <2>1. r % Q = r
    BY <1>1
  <2>2. (r + Q) % Q = r
    BY <1>1
  <2> QED
    BY <2>1, <2>2
<1>3. CASE h + k < Q
  BY <1>1, <1>2, <1>3 DEF Place
<1>4. CASE ~(h + k < Q)
  <2>1. h + k - Q \in 0 .. Q - 1 /\ (h + k - Q) + Q = h + k
    BY <1>1, <1>4
  <2> QED
    BY <1>2, <1>4, <2>1 DEF Place
<1> QED
  BY <1>3, <1>4

\* The lines of the queue are at places of their own.
LEMMA PlaceApart ==
    ASSUME NEW h \in 0 .. IRC_QUEUE_SIZE - 1, NEW i \in 0 .. IRC_QUEUE_SIZE - 1, NEW j \in 0 .. IRC_QUEUE_SIZE - 1
    PROVE  Place(h, i) \in 0 .. IRC_QUEUE_SIZE - 1 /\ (i # j => Place(h, i) # Place(h, j))
<1> DEFINE Q == IRC_QUEUE_SIZE
<1>1. Q \in Nat \ {0} /\ i \in 0 .. Q /\ j \in 0 .. Q
  BY NetAssumption
<1>2. Place(h, i) = IF h + i < Q THEN h + i ELSE h + i - Q
  BY <1>1, PlaceFacts
<1>3. Place(h, j) = IF h + j < Q THEN h + j ELSE h + j - Q
  BY <1>1, PlaceFacts
<1> QED
  BY <1>1, <1>2, <1>3

\* When the oldest line goes, the second takes its rank, and its place becomes
\* that of the newest.
LEMMA PlaceRound ==
    ASSUME NEW h \in 0 .. IRC_QUEUE_SIZE - 1
    PROVE  /\ Place(h, 1) \in 0 .. IRC_QUEUE_SIZE - 1
           /\ Place(Place(h, 1), IRC_QUEUE_SIZE - 1) = h
           /\ \A i \in 0 .. IRC_QUEUE_SIZE - 2 : Place(Place(h, 1), i) = Place(h, i + 1)
<1> DEFINE Q == IRC_QUEUE_SIZE
           g == Place(h, 1)
<1>1. Q \in Nat \ {0} /\ 1 \in 0 .. Q /\ Q - 1 \in 0 .. Q
  BY NetAssumption
<1>2. g = IF h + 1 < Q THEN h + 1 ELSE h + 1 - Q
  BY <1>1, PlaceFacts
<1>3. g \in 0 .. Q - 1
  BY <1>1, <1>2
<1> HIDE DEF g
<1>4. Place(g, Q - 1) = IF g + (Q - 1) < Q THEN g + (Q - 1) ELSE g + (Q - 1) - Q
  BY <1>1, <1>3, PlaceFacts
<1>5. Place(g, Q - 1) = h
  BY <1>1, <1>2, <1>3, <1>4
<1>6. ASSUME NEW i \in 0 .. Q - 2 PROVE Place(g, i) = Place(h, i + 1)
  <2>1. i \in 0 .. Q /\ i + 1 \in 0 .. Q
    BY <1>1
  <2>2. Place(g, i) = IF g + i < Q THEN g + i ELSE g + i - Q
    BY <1>3, <2>1, PlaceFacts
  <2>3. Place(h, i + 1) = IF h + (i + 1) < Q THEN h + (i + 1) ELSE h + (i + 1) - Q
    BY <2>1, PlaceFacts
  <2> QED
    BY <1>1, <1>2, <1>3, <2>1, <2>2, <2>3
<1> QED
  BY <1>3, <1>5, <1>6 DEF g

LEMMA LowestOfTwo ==
    ASSUME NEW a \in Nat, NEW b \in Nat
    PROVE  LowestOf({a, b}) = IF a <= b THEN a ELSE b
<1> DEFINE S == {a, b}
<1>1. S \in SUBSET Nat /\ S # {} /\ a \in S /\ b \in S
  OBVIOUS
<1> HIDE DEF S
<1>2. LowestOf(S) \in S /\ \A j \in S : LowestOf(S) <= j
  BY <1>1, LowestFacts
<1> QED
  BY <1>1, <1>2 DEF S

\* The queue c holds the newest lines of f.
Newest(c, f) ==
    LET n == LowestOf({IRC_QUEUE_SIZE, Len(f)})
    IN  /\ c.count = n
        /\ \A i \in 1 .. n : c.q[Place(c.head, i - 1)] = f[Len(f) - n + i]

\* What the lines, the line being received and the channels are of.
LinesOf(c, f, here) ==
    /\ \A i \in DOMAIN f : \A j \in DOMAIN f[i] : f[i][j].r = here
    /\ \A j \in DOMAIN c.parse : c.parse[j].r = here
    /\ \A i \in DOMAIN c.chans : c.chans[i][2] = here

Chatting(c, f, here) == c \in ChatType /\ f \in Seq(Seq(Token)) /\ Newest(c, f) /\ LinesOf(c, f, here)

\* enqueue_line: the line takes the place of the oldest when there is no other.
Enqueued(c, line, d) ==
    LET full == c.count = IRC_QUEUE_SIZE
        head == IF full THEN Place(c.head, 1) ELSE c.head
        count == IF full THEN c.count - 1 ELSE c.count
    IN  /\ d \in ChatType /\ d.chans = c.chans /\ d.parse = c.parse
        /\ d.head = head /\ d.count = count + 1
        /\ d.q = [c.q EXCEPT ![Place(head, count)] = line]

LEMMA EnqueueFacts ==
    ASSUME NEW c \in ChatType, NEW line \in Seq(Token), NEW on \in BOOLEAN
    PROVE  /\ Enqueued(c, line, enqueue_line(c, line))
           /\ Enqueued(c, line, [enqueue_line(c, line) EXCEPT !.active = on])
<1> DEFINE Q == IRC_QUEUE_SIZE
           full == c.count = Q
           head == IF full THEN Place(c.head, 1) ELSE c.head
           count == IF full THEN c.count - 1 ELSE c.count
           more == count + 1
           at == Place(head, count)
           queue == [c.q EXCEPT ![at] = line]
           d == [c EXCEPT !.head = head, !.count = more, !.q = queue]
<1>1. /\ Q \in Nat \ {0} /\ c.head \in 0 .. Q - 1 /\ c.count \in 0 .. Q
      /\ c.q \in [0 .. Q - 1 -> Seq(Token)]
  BY NetAssumption DEF ChatType
<1>2. c.count >= Q <=> full
  BY <1>1
<1>3. head \in 0 .. Q - 1 /\ more \in 0 .. Q
  <2>1. Place(c.head, 1) \in 0 .. Q - 1
    <3>1. 1 \in 0 .. Q
      BY <1>1
    <3>2. Place(c.head, 1) = IF c.head + 1 < Q THEN c.head + 1 ELSE c.head + 1 - Q
      BY <1>1, <3>1, PlaceFacts
    <3> QED
      BY <1>1, <3>2
  <2> QED
    BY <1>1, <2>1
<1>4. queue \in [0 .. Q - 1 -> Seq(Token)]
  BY <1>1
<1>5. enqueue_line(c, line) = [c EXCEPT !.head = head, !.count = more, !.q[at] = line]
  BY <1>2 DEF enqueue_line, Place
<1> HIDE DEF head, more, at
<1>6. enqueue_line(c, line) = d
  BY <1>5 DEF ChatType
<1> HIDE DEF queue
<1>7. d \in ChatType /\ d.head = head /\ d.count = more /\ d.q = queue /\ d.chans = c.chans /\ d.parse = c.parse
  BY <1>3, <1>4 DEF ChatType
<1> HIDE DEF d
<1> DEFINE e == [d EXCEPT !.active = on]
<1>8. e \in ChatType /\ e.head = d.head /\ e.count = d.count /\ e.q = d.q /\ e.chans = d.chans /\ e.parse = d.parse
  BY <1>7 DEF ChatType
<1> HIDE DEF e
<1>9. Enqueued(c, line, d) /\ Enqueued(c, line, e)
  BY <1>7, <1>8 DEF Enqueued, queue, at, head, more
<1> QED
  BY <1>6, <1>9 DEF e

LEMMA NewestEnqueued ==
    ASSUME NEW c \in ChatType, NEW f \in Seq(Seq(Token)), Newest(c, f),
           NEW line \in Seq(Token), NEW d, Enqueued(c, line, d)
    PROVE  Newest(d, Append(f, line))
<1> DEFINE Q == IRC_QUEUE_SIZE
           g == Append(f, line)
           L == Len(f)
           h == c.head
<1>1. /\ Q \in Nat \ {0} /\ h \in 0 .. Q - 1 /\ c.count \in 0 .. Q
      /\ L \in Nat
  BY NetAssumption DEF ChatType
<1>2. /\ Len(g) = L + 1 /\ g[L + 1] = line /\ \A i \in 1 .. L : g[i] = f[i]
  BY AppendFacts
<1>3. LowestOf({Q, L}) = (IF Q <= L THEN Q ELSE L) /\ LowestOf({Q, L + 1}) = (IF Q <= L + 1 THEN Q ELSE L + 1)
  <2>1. Q \in Nat /\ L \in Nat /\ L + 1 \in Nat
    BY <1>1
  <2> QED
    BY <2>1, LowestOfTwo
<1>4. /\ c.count = IF Q <= L THEN Q ELSE L
      /\ \A i \in 1 .. c.count : c.q[Place(h, i - 1)] = f[L - c.count + i]
  BY <1>3 DEF Newest
<1>5. c.q \in [0 .. Q - 1 -> Seq(Token)]
  BY DEF ChatType
<1>6. CASE c.count = Q
  <2> DEFINE b == Place(h, 1)
  <2>1. /\ b \in 0 .. Q - 1 /\ Place(b, Q - 1) = h
        /\ \A i \in 0 .. Q - 2 : Place(b, i) = Place(h, i + 1)
    BY <1>1, PlaceRound
  <2>2. d.head = b /\ d.count = Q /\ d.q = [c.q EXCEPT ![Place(b, Q - 1)] = line]
    <3>1. d.head = b /\ d.count = (c.count - 1) + 1 /\ d.q = [c.q EXCEPT ![Place(b, c.count - 1)] = line]
      BY <1>6 DEF Enqueued
    <3> QED
      BY <1>1, <1>6, <3>1
  <2>3. d.q[h] = line /\ \A k \in 0 .. Q - 1 : k # h => d.q[k] = c.q[k]
    BY <1>1, <1>5, <2>1, <2>2
  <2> HIDE DEF b
  <2>4. ASSUME NEW i \in 1 .. Q PROVE d.q[Place(b, i - 1)] = g[(L + 1) - Q + i]
    <3>1. CASE i = Q
      <4>1. i - 1 = Q - 1 /\ (L + 1) - Q + i = L + 1
        BY <1>1, <3>1
      <4>2. Place(b, i - 1) = h
        BY <2>1, <4>1
      <4> QED
        BY <1>2, <2>3, <4>1, <4>2
    <3>2. CASE i # Q
      <4>1. /\ i - 1 \in 0 .. Q - 2 /\ (i - 1) + 1 = i /\ i \in 0 .. Q - 1 /\ 0 \in 0 .. Q - 1 /\ i # 0 /\ 0 \in 0 .. Q
            /\ i + 1 \in 1 .. Q /\ (i + 1) - 1 = i
        BY <1>1, <3>2
      <4>2. Place(b, i - 1) = Place(h, i)
        BY <2>1, <4>1
      <4>3. Place(h, i) \in 0 .. Q - 1 /\ Place(h, i) # Place(h, 0)
        BY <1>1, <4>1, PlaceApart
      <4>4. Place(h, 0) = h
        BY <1>1, <4>1, PlaceFacts
      <4>5. c.q[Place(h, i)] = f[L - Q + (i + 1)]
        <5>1. c.q[Place(h, (i + 1) - 1)] = f[L - c.count + (i + 1)]
          BY <1>4, <1>6, <4>1
        <5> QED
          BY <1>6, <4>1, <5>1
      <4>6. L - Q + (i + 1) \in 1 .. L /\ (L + 1) - Q + i = L - Q + (i + 1)
        BY <1>1, <1>4, <1>6, <3>2
      <4>7. d.q[Place(h, i)] = c.q[Place(h, i)]
        BY <2>3, <4>3, <4>4
      <4> QED
        BY <1>2, <4>2, <4>5, <4>6, <4>7
    <3> QED
      BY <3>1, <3>2
  <2>5. LowestOf({Q, L + 1}) = Q
    BY <1>1, <1>3, <1>4, <1>6
  <2>6. LowestOf({Q, Len(g)}) = Q /\ Len(g) = L + 1
    BY <1>2, <2>5
  <2> HIDE DEF g
  <2> QED
    BY <2>2, <2>4, <2>6 DEF Newest, g
<1>7. CASE c.count # Q
  <2>1. c.count = L /\ L < Q /\ L \in 0 .. Q - 1
    BY <1>1, <1>4, <1>7
  <2>2. d.head = h /\ d.count = L + 1 /\ d.q = [c.q EXCEPT ![Place(h, L)] = line]
    BY <1>7, <2>1 DEF Enqueued
  <2>3. ASSUME NEW i \in 1 .. L + 1 PROVE d.q[Place(h, i - 1)] = g[i]
    <3>1. i - 1 \in 0 .. Q - 1
      BY <1>1, <2>1
    <3>2. Place(h, L) \in 0 .. Q - 1 /\ Place(h, i - 1) \in 0 .. Q - 1
      BY <1>1, <2>1, <3>1, PlaceApart
    <3>3. CASE i = L + 1
      <4>1. i - 1 = L
        BY <1>1, <3>3
      <4>2. Place(h, i - 1) = Place(h, L)
        BY <4>1
      <4>3. d.q[Place(h, L)] = line
        BY <1>5, <2>2, <3>2
      <4> QED
        BY <1>2, <3>3, <4>2, <4>3
    <3>4. CASE i # L + 1
      <4>1. i \in 1 .. L /\ i - 1 # L /\ L - L + i = i
        BY <1>1, <3>4
      <4>2. Place(h, L) # Place(h, i - 1)
        BY <1>1, <2>1, <3>1, <4>1, PlaceApart
      <4>3. c.q[Place(h, i - 1)] = f[L - L + i]
        BY <1>4, <2>1, <4>1
      <4>4. d.q[Place(h, i - 1)] = c.q[Place(h, i - 1)]
        BY <1>5, <2>2, <3>2, <4>2
      <4> QED
        BY <1>2, <4>1, <4>3, <4>4
    <3> QED
      BY <3>3, <3>4
  <2>4. LowestOf({Q, L + 1}) = L + 1
    BY <1>1, <1>3, <2>1
  <2>5. LowestOf({Q, Len(g)}) = L + 1 /\ Len(g) = L + 1
    BY <1>2, <2>4
  <2>6. \A i \in 1 .. L + 1 : d.q[Place(d.head, i - 1)] = g[Len(g) - (L + 1) + i]
    <3> SUFFICES ASSUME NEW i \in 1 .. L + 1 PROVE d.q[Place(d.head, i - 1)] = g[Len(g) - (L + 1) + i]
      OBVIOUS
    <3>1. Len(g) - (L + 1) + i = i
      BY <1>1, <2>5
    <3> QED
      BY <2>2, <2>3, <3>1
  <2> HIDE DEF g, L
  <2> QED
    BY <2>2, <2>5, <2>6 DEF Newest, g
<1> QED
  BY <1>6, <1>7

\* irc_read takes the oldest line.
LEMMA NewestRead ==
    ASSUME NEW c \in ChatType, NEW f \in Seq(Seq(Token)), Newest(c, f), c.count > 0,
           NEW d \in ChatType, d.q = c.q, d.head = Place(c.head, 1), d.count = c.count - 1
    PROVE  /\ SubSeq(f, Len(f) - d.count + 1, Len(f)) \in Seq(Seq(Token))
           /\ Newest(d, SubSeq(f, Len(f) - d.count + 1, Len(f)))
           /\ \A i \in DOMAIN SubSeq(f, Len(f) - d.count + 1, Len(f)) :
                 \E j \in DOMAIN f : SubSeq(f, Len(f) - d.count + 1, Len(f))[i] = f[j]
<1> DEFINE Q == IRC_QUEUE_SIZE
           L == Len(f)
           h == c.head
           n == c.count
           a == L - d.count + 1
           g == SubSeq(f, a, L)
<1>1. Q \in Nat \ {0} /\ h \in 0 .. Q - 1 /\ n \in 1 .. Q /\ L \in Nat
  BY NetAssumption DEF ChatType
<1>2. LowestOf({Q, L}) = (IF Q <= L THEN Q ELSE L) /\ LowestOf({Q, n - 1}) = n - 1
  <2>1. Q \in Nat /\ L \in Nat /\ n - 1 \in Nat /\ ~(Q <= n - 1)
    BY <1>1
  <2> QED
    BY <2>1, LowestOfTwo
<1>a. n = LowestOf({Q, L}) /\ \A i \in 1 .. LowestOf({Q, L}) : c.q[Place(h, i - 1)] = f[L - LowestOf({Q, L}) + i]
  BY DEF Newest
<1>b. \A i \in 1 .. n : c.q[Place(h, i - 1)] = f[L - n + i]
  BY <1>a
<1>3. n <= L
  <2> HIDE DEF L, Q, n
  <2> QED
    BY <1>1, <1>2, <1>a
<1>c. d.count = n - 1
  OBVIOUS
<1>4. a \in 1 .. L + 1 /\ L \in a - 1 .. L /\ L - a + 1 = n - 1 /\ a = L - n + 2
  <2> HIDE DEF L, Q, n
  <2> QED
    BY <1>1, <1>3, <1>c
<1>5. /\ g \in Seq(Seq(Token)) /\ Len(g) = n - 1
      /\ \A i \in 1 .. n - 1 : g[i] = f[a + i - 1]
      /\ DOMAIN g = 1 .. n - 1
  <2> HIDE DEF a
  <2>1. /\ SubSeq(f, a, L) \in Seq(Seq(Token)) /\ Len(SubSeq(f, a, L)) = L - a + 1
        /\ \A i \in 1 .. L - a + 1 : SubSeq(f, a, L)[i] = f[a + i - 1]
        /\ DOMAIN SubSeq(f, a, L) = 1 .. L - a + 1
    BY <1>4, SubSeqFacts
  <2> QED
    BY <1>4, <2>1
<1> HIDE DEF g, a
<1>6. ASSUME NEW i \in 1 .. n - 1
      PROVE  /\ d.q[Place(d.head, i - 1)] = g[Len(g) - (n - 1) + i]
             /\ \E j \in DOMAIN f : g[i] = f[j]
  <2>1. /\ i + 1 \in 1 .. n /\ (i + 1) - 1 = i /\ i - 1 \in 0 .. Q - 2 /\ (i - 1) + 1 = i
        /\ Len(g) - (n - 1) + i = i /\ a + i - 1 = L - n + (i + 1) /\ a + i - 1 \in 1 .. L
    <3>1. Len(g) = n - 1 /\ n \in Nat /\ L \in Nat
      BY <1>1, <1>5
    <3> HIDE DEF L, Q, n
    <3> QED
      BY <1>1, <1>3, <1>4, <3>1
  <2>2. Place(d.head, i - 1) = Place(h, (i - 1) + 1)
    BY <1>1, <2>1, PlaceRound
  <2>3. c.q[Place(h, (i + 1) - 1)] = f[L - n + (i + 1)]
    BY <1>b, <2>1
  <2>4. g[i] = f[a + i - 1]
    BY <1>5
  <2>5. a + i - 1 \in DOMAIN f
    BY <2>1
  <2> QED
    BY <2>1, <2>2, <2>3, <2>4, <2>5
<1>7. LowestOf({Q, Len(g)}) = n - 1
  BY <1>2, <1>5
<1>8. Newest(d, g)
  BY <1>6, <1>7 DEF Newest
<1> QED
  BY <1>5, <1>6, <1>8 DEF g, a

\* The queue as QueueIsNewest has it.
LEMMA NewestIs ==
    ASSUME NEW c \in ChatType, NEW f \in Seq(Seq(Token))
    PROVE  Newest(c, f) <=>
               LET n == LowestOf({IRC_QUEUE_SIZE, Len(f)})
               IN  /\ c.count = n
                   /\ \A i \in 1 .. n :
                         c.q[(c.head + i - 1) % IRC_QUEUE_SIZE] = f[Len(f) - n + i]
<1> DEFINE n == LowestOf({IRC_QUEUE_SIZE, Len(f)})
<1>1. n \in Nat
  <2>1. IRC_QUEUE_SIZE \in Nat /\ Len(f) \in Nat
    BY NetAssumption
  <2> QED
    BY <2>1, LowestOfTwo
<1> HIDE DEF n
<1>2. ASSUME NEW i \in 1 .. n PROVE Place(c.head, i - 1) = (c.head + i - 1) % IRC_QUEUE_SIZE
  <2>1. c.head + (i - 1) = c.head + i - 1
    BY <1>1 DEF ChatType
  <2> QED
    BY <2>1 DEF Place
<1> QED
  BY <1>2 DEF Newest, n

\* The client's own steps keep what is told of its lines.
LEMMA ChattingFresh ==
    ASSUME NEW here
    PROVE  Chatting(NoChat, <<>>, here)
<1> DEFINE Q == IRC_QUEUE_SIZE
           nothing == <<>>
<1>1. Q \in Nat \ {0} /\ 0 \in 0 .. Q - 1 /\ 0 \in 0 .. Q
  BY NetAssumption
<1>2. EmptyQueue \in [0 .. Q - 1 -> Seq(Token)]
  <2>1. nothing \in Seq(Token) /\ EmptyQueue = [i \in 0 .. Q - 1 |-> nothing]
    BY DEF EmptyQueue
  <2> HIDE DEF nothing
  <2> QED
    BY <2>1
<1>3. NoChat \in ChatType /\ NoChat.count = 0 /\ NoChat.parse = <<>> /\ NoChat.chans = <<>>
  <2>1. <<>> \in Seq(Token) /\ <<>> \in Seq(Channels \X Nat)
    OBVIOUS
  <2> QED
    BY <1>1, <1>2, <2>1 DEF NoChat, ChatType
<1>4. nothing \in Seq(Seq(Token)) /\ Len(nothing) = 0 /\ DOMAIN nothing = {}
  OBVIOUS
<1>5. LowestOf({Q, Len(nothing)}) = 0
  <2>1. LowestOf({Q, 0}) = 0
    BY <1>1, LowestOfTwo
  <2> QED
    BY <1>4, <2>1
<1>6. LinesOf(NoChat, nothing, here)
  BY <1>3, <1>4 DEF LinesOf
<1> HIDE DEF nothing
<1>7. Newest(NoChat, nothing)
  <2>1. \A i : i \notin 1 .. 0
    OBVIOUS
  <2> QED
    BY <1>3, <1>5, <2>1 DEF Newest
<1>8. Chatting(NoChat, nothing, here)
  BY <1>3, <1>4, <1>6, <1>7 DEF Chatting
<1> QED
  BY <1>8 DEF nothing

LEMMA ChattingLine ==
    ASSUME NEW c, NEW f, NEW here, Chatting(c, f, here),
           NEW line \in Seq(Token), \A j \in DOMAIN line : line[j].r = here,
           NEW d, Enqueued(c, line, d)
    PROVE  Chatting(d, Append(f, line), here)
<1>1. c \in ChatType /\ f \in Seq(Seq(Token)) /\ Newest(c, f) /\ LinesOf(c, f, here)
  BY DEF Chatting
<1> DEFINE g == Append(f, line)
<1>2. /\ g \in Seq(Seq(Token)) /\ DOMAIN g = 1 .. Len(f) + 1 /\ DOMAIN f = 1 .. Len(f) /\ Len(f) \in Nat
      /\ g[Len(f) + 1] = line /\ \A i \in 1 .. Len(f) : g[i] = f[i]
  BY <1>1, AppendFacts
<1>3. Newest(d, g)
  BY <1>1, NewestEnqueued
<1> HIDE DEF g
<1>4. d \in ChatType /\ d.parse = c.parse /\ d.chans = c.chans
  BY DEF Enqueued
<1>5. \A i \in DOMAIN g : g[i] = line \/ (i \in DOMAIN f /\ g[i] = f[i])
  BY <1>2
<1>6. LinesOf(d, g, here)
  BY <1>1, <1>4, <1>5 DEF LinesOf
<1> QED
  BY <1>2, <1>3, <1>4, <1>6 DEF Chatting, g

LEMMA ChattingEdit ==
    ASSUME NEW c, NEW f, NEW here, Chatting(c, f, here), NEW d \in ChatType,
           d.q = c.q, d.head = c.head, d.count = c.count,
           d.parse = c.parse \/ (\A j \in DOMAIN d.parse : d.parse[j].r = here),
           d.chans = c.chans \/ (\A i \in DOMAIN d.chans : d.chans[i][2] = here)
    PROVE  Chatting(d, f, here)
BY DEF Chatting, Newest, LinesOf

LEMMA RemoveAtFacts ==
    ASSUME NEW T, NEW s \in Seq(T), NEW l \in DOMAIN s
    PROVE  /\ RemoveAt(s, l) \in Seq(T)
           /\ \A i \in DOMAIN RemoveAt(s, l) : \E j \in DOMAIN s : RemoveAt(s, l)[i] = s[j]
<1> DEFINE a == SubSeq(s, 1, l - 1)
           b == SubSeq(s, l + 1, Len(s))
<1>1. /\ DOMAIN s = 1 .. Len(s) /\ Len(s) \in Nat /\ l \in 1 .. Len(s)
      /\ 1 \in 1 .. Len(s) + 1 /\ l - 1 \in 1 - 1 .. Len(s)
      /\ l + 1 \in 1 .. Len(s) + 1 /\ Len(s) \in (l + 1) - 1 .. Len(s)
  OBVIOUS
<1>2. /\ a \in Seq(T) /\ Len(a) = (l - 1) - 1 + 1 /\ DOMAIN a = 1 .. (l - 1) - 1 + 1
      /\ \A i \in 1 .. (l - 1) - 1 + 1 : a[i] = s[1 + i - 1]
  BY <1>1, SubSeqFacts
<1>3. /\ b \in Seq(T) /\ Len(b) = Len(s) - (l + 1) + 1 /\ DOMAIN b = 1 .. Len(s) - (l + 1) + 1
      /\ \A i \in 1 .. Len(s) - (l + 1) + 1 : b[i] = s[(l + 1) + i - 1]
  BY <1>1, SubSeqFacts
<1> HIDE DEF a, b
<1>4. \A i \in DOMAIN a : \E j \in DOMAIN s : a[i] = s[j]
  <2> SUFFICES ASSUME NEW i \in DOMAIN a PROVE \E j \in DOMAIN s : a[i] = s[j]
    OBVIOUS
  <2>1. i \in 1 .. (l - 1) - 1 + 1 /\ 1 + i - 1 \in DOMAIN s
    BY <1>1, <1>2
  <2> QED
    BY <1>2, <2>1
<1>5. \A i \in DOMAIN b : \E j \in DOMAIN s : b[i] = s[j]
  <2> SUFFICES ASSUME NEW i \in DOMAIN b PROVE \E j \in DOMAIN s : b[i] = s[j]
    OBVIOUS
  <2>1. i \in 1 .. Len(s) - (l + 1) + 1 /\ (l + 1) + i - 1 \in DOMAIN s
    BY <1>1, <1>3
  <2> QED
    BY <1>3, <2>1
<1>6. /\ a \o b \in Seq(T) /\ DOMAIN (a \o b) = 1 .. Len(a) + Len(b)
      /\ \A i \in 1 .. Len(a) : (a \o b)[i] = a[i]
      /\ \A i \in Len(a) + 1 .. Len(a) + Len(b) : (a \o b)[i] = b[i - Len(a)]
      /\ DOMAIN a = 1 .. Len(a) /\ DOMAIN b = 1 .. Len(b) /\ Len(a) \in Nat /\ Len(b) \in Nat
  <2>1. a \in Seq(T) /\ b \in Seq(T)
    BY <1>2, <1>3
  <2> QED
    BY <2>1, ConcatFacts
<1>7. ASSUME NEW i \in DOMAIN (a \o b) PROVE \E j \in DOMAIN s : (a \o b)[i] = s[j]
  <2>1. CASE i \in 1 .. Len(a)
    BY <1>4, <1>6, <2>1
  <2>2. CASE i \in Len(a) + 1 .. Len(a) + Len(b)
    <3>1. i - Len(a) \in DOMAIN b
      BY <1>6, <2>2
    <3> QED
      BY <1>5, <1>6, <2>2, <3>1
  <2> QED
    BY <1>6, <2>1, <2>2
<1> QED
  BY <1>6, <1>7 DEF RemoveAt, a, b

\* What the invariant says of the lines, now and after a step.
LEMMA ChattingIs ==
    ASSUME ChatTypes, QueueIsNewest, LinesOfThisSession
    PROVE  Chatting(chat, fresh, IrcPort)
<1>1. chat \in ChatType /\ fresh \in Seq(Seq(Token))
  BY DEF ChatTypes
<1>2. Newest(chat, fresh)
  BY <1>1, NewestIs DEF QueueIsNewest
<1>3. LinesOf(chat, fresh, IrcPort)
  BY DEF LinesOf, LinesOfThisSession, IrcPort
<1> QED
  BY <1>1, <1>2, <1>3 DEF Chatting

LEMMA ChattingNext ==
    ASSUME Chatting(chat', fresh', IrcPort')
    PROVE  /\ chat' \in ChatType /\ fresh' \in Seq(Seq(Token))
           /\ QueueIsNewest' /\ LinesOfThisSession'
<1>1. chat' \in ChatType /\ fresh' \in Seq(Seq(Token)) /\ Newest(chat', fresh') /\ LinesOf(chat', fresh', IrcPort')
  BY DEF Chatting
<1>2. QueueIsNewest'
  BY <1>1, NewestIs DEF QueueIsNewest
<1>3. LinesOfThisSession'
  BY <1>1 DEF LinesOf, LinesOfThisSession, IrcPort
<1> QED
  BY <1>1, <1>2, <1>3

\* What the client says itself is of this session.
LEMMA NoticeFacts ==
    ASSUME NetTypes, NEW text \in {"connected", "disconnected"}
    PROVE  Notice(text) \in Seq(Token) /\ \A j \in DOMAIN Notice(text) : Notice(text)[j].r = IrcPort
<1> DEFINE p == conn["irc"].port
<1>1. p \in Nat
  BY ClientConns, TcpAssumption DEF ConnType
<1> HIDE DEF p
<1> DEFINE t == [k |-> text, r |-> p, n |-> 0]
<1>2. t \in Token /\ t.r = p
  BY <1>1 DEF Token, Words
<1> HIDE DEF t
<1>3. <<t>> \in Seq(Token) /\ \A j \in DOMAIN <<t>> : <<t>>[j].r = p
  BY <1>2
<1> QED
  BY <1>3 DEF Notice, t, p, IrcPort

\* irc_login, and irc_poll when the connection has ended.
LEMMA ChattingNotice ==
    ASSUME NetTypes, Chatting(chat, fresh, IrcPort), NEW text \in {"connected", "disconnected"}, NEW on \in BOOLEAN
    PROVE  Chatting([enqueue_line(chat, Notice(text)) EXCEPT !.active = on], Append(fresh, Notice(text)), IrcPort)
<1> DEFINE line == Notice(text)
           d == [enqueue_line(chat, line) EXCEPT !.active = on]
<1>1. line \in Seq(Token) /\ \A j \in DOMAIN line : line[j].r = IrcPort
  BY NoticeFacts
<1>2. chat \in ChatType
  BY DEF Chatting
<1> HIDE DEF line
<1>3. Enqueued(chat, line, d)
  BY <1>1, <1>2, EnqueueFacts
<1> HIDE DEF d
<1>4. Chatting(d, Append(fresh, line), IrcPort)
  BY <1>1, <1>3, ChattingLine
<1> QED
  BY <1>4 DEF d, line

\* process_rx_bytes on one token.
LEMMA ChattingToken ==
    ASSUME Chatting(chat, fresh, IrcPort), left \in Seq(Token), OfHere(left), IrcToken
    PROVE  Chatting(chat', fresh', IrcPort)
<1> DEFINE t == Head(left)
           line == Append(chat.parse, t)
           nothing == <<>>
           parsed == [chat EXCEPT !.parse = nothing]
           begun == [chat EXCEPT !.parse = line]
<1>1. chat \in ChatType /\ chat.parse \in Seq(Token) /\ \A j \in DOMAIN chat.parse : chat.parse[j].r = IrcPort
  BY DEF Chatting, ChatType, LinesOf
<1>2. left # <<>> /\ t \in Token /\ t.r = IrcPort
  BY TailFacts DEF IrcToken, OfHere
<1>3. nothing \in Seq(Token) /\ DOMAIN nothing = {}
  OBVIOUS
<1>4. \/ chat' = begun /\ fresh' = fresh
      \/ chat' = parsed /\ fresh' = fresh
      \/ chat' = enqueue_line(parsed, line) /\ fresh' = Append(fresh, line)
  BY DEF IrcToken
<1> HIDE DEF t, nothing
<1>5. line \in Seq(Token) /\ \A j \in DOMAIN line : line[j].r = IrcPort
  <2>1. /\ line \in Seq(Token) /\ Len(line) = Len(chat.parse) + 1
        /\ \A j \in 1 .. Len(chat.parse) : line[j] = chat.parse[j]
        /\ line[Len(chat.parse) + 1] = t
        /\ DOMAIN line = 1 .. Len(chat.parse) + 1 /\ DOMAIN chat.parse = 1 .. Len(chat.parse)
    BY <1>1, <1>2, AppendFacts
  <2>2. \A j \in DOMAIN line : j \in DOMAIN chat.parse \/ j = Len(chat.parse) + 1
    BY <1>1, <2>1
  <2> QED
    BY <1>1, <1>2, <2>1, <2>2
<1> HIDE DEF line
<1>6. /\ parsed \in ChatType /\ parsed.parse = nothing
      /\ parsed.q = chat.q /\ parsed.head = chat.head /\ parsed.count = chat.count /\ parsed.chans = chat.chans
  BY <1>1, <1>3 DEF ChatType
<1>7. /\ begun \in ChatType /\ begun.parse = line
      /\ begun.q = chat.q /\ begun.head = chat.head /\ begun.count = chat.count /\ begun.chans = chat.chans
  BY <1>1, <1>5 DEF ChatType
<1> HIDE DEF parsed, begun
<1>8. Chatting(begun, fresh, IrcPort)
  BY <1>5, <1>7, ChattingEdit
<1>9. Chatting(parsed, fresh, IrcPort)
  BY <1>3, <1>6, ChattingEdit
<1>10. Chatting(enqueue_line(parsed, line), Append(fresh, line), IrcPort)
  <2> DEFINE d == enqueue_line(parsed, line)
  <2>1. Enqueued(parsed, line, d)
    BY <1>5, <1>6, EnqueueFacts
  <2> HIDE DEF d
  <2>2. Chatting(d, Append(fresh, line), IrcPort)
    BY <1>5, <1>9, <2>1, ChattingLine
  <2> QED
    BY <2>2 DEF d
<1> QED
  BY <1>4, <1>8, <1>9, <1>10

\* /join and /part.
LEMMA ChattingChannel ==
    ASSUME NetTypes, Chatting(chat, fresh, IrcPort), NEW ch \in Channels
    PROVE  Chatting(remember_channel(ch), fresh, IrcPort) /\ Chatting(forget_channel(ch), fresh, IrcPort)
<1> DEFINE s == chat.chans
           p == conn["irc"].port
           known == {i \in DOMAIN s : s[i][1] = ch}
<1>1. chat \in ChatType /\ s \in Seq(Channels \X Nat) /\ \A i \in DOMAIN s : s[i][2] = IrcPort
  BY DEF Chatting, ChatType, LinesOf
<1>2. p \in Nat /\ p = IrcPort
  BY ClientConns, TcpAssumption DEF ConnType, IrcPort
<1> HIDE DEF p
<1>3. ASSUME NEW x \in Seq(Channels \X Nat), \A i \in DOMAIN x : x[i][2] = IrcPort
      PROVE  Chatting([chat EXCEPT !.chans = x], fresh, IrcPort)
  <2> DEFINE d == [chat EXCEPT !.chans = x]
  <2>1. /\ d \in ChatType /\ d.chans = x /\ d.parse = chat.parse
        /\ d.q = chat.q /\ d.head = chat.head /\ d.count = chat.count
    BY <1>1, <1>3 DEF ChatType
  <2> HIDE DEF d
  <2>2. Chatting(d, fresh, IrcPort)
    BY <1>3, <2>1, ChattingEdit
  <2> QED
    BY <2>2 DEF d
<1>4. Chatting(remember_channel(ch), fresh, IrcPort)
  <2> DEFINE e == <<ch, p>>
             x == Append(s, e)
  <2>1. e \in Channels \X Nat /\ e[2] = IrcPort
    BY <1>2
  <2> HIDE DEF e
  <2>2. x \in Seq(Channels \X Nat) /\ \A i \in DOMAIN x : x[i][2] = IrcPort
    <3>1. /\ x \in Seq(Channels \X Nat) /\ \A j \in 1 .. Len(s) : x[j] = s[j]
          /\ x[Len(s) + 1] = e /\ DOMAIN x = 1 .. Len(s) + 1 /\ DOMAIN s = 1 .. Len(s)
      BY <1>1, <2>1, AppendFacts
    <3>2. \A j \in DOMAIN x : j \in DOMAIN s \/ j = Len(s) + 1
      BY <1>1, <3>1
    <3> QED
      BY <1>1, <2>1, <3>1, <3>2
  <2> HIDE DEF x
  <2>3. Chatting([chat EXCEPT !.chans = x], fresh, IrcPort)
    BY <1>3, <2>2
  <2> QED
    BY <2>3 DEF remember_channel, x, e, p
<1>5. Chatting(forget_channel(ch), fresh, IrcPort)
  <2>1. CASE known = {}
    BY <2>1 DEF forget_channel
  <2>2. CASE known # {}
    <3> DEFINE l == LowestOf(known)
               x == RemoveAt(s, l)
    <3>1. known \in SUBSET Nat
      BY <1>1
    <3>2. l \in DOMAIN s
      BY <2>2, <3>1, LowestFacts
    <3>3. x \in Seq(Channels \X Nat) /\ \A i \in DOMAIN x : \E j \in DOMAIN s : x[i] = s[j]
      <4> HIDE DEF l
      <4> QED
        BY <1>1, <3>2, RemoveAtFacts
    <3>4. \A i \in DOMAIN x : x[i][2] = IrcPort
      <4> HIDE DEF x
      <4> QED
        BY <1>1, <3>3
    <3> HIDE DEF x
    <3>5. Chatting([chat EXCEPT !.chans = x], fresh, IrcPort)
      BY <1>3, <3>3, <3>4
    <3> QED
      BY <2>2, <3>5 DEF forget_channel, x
  <2> QED
    BY <2>1, <2>2
<1> QED
  BY <1>4, <1>5

\* irc_read.
LEMMA ChattingRead ==
    ASSUME Chatting(chat, fresh, IrcPort), IrcRead
    PROVE  Chatting(chat', fresh', IrcPort)
<1> DEFINE head == Place(chat.head, 1)
           count == chat.count - 1
           d == [chat EXCEPT !.head = head, !.count = count]
           g == SubSeq(fresh, Len(fresh) - d.count + 1, Len(fresh))
<1>1. /\ chat \in ChatType /\ chat.head \in 0 .. IRC_QUEUE_SIZE - 1 /\ chat.count \in 0 .. IRC_QUEUE_SIZE
      /\ fresh \in Seq(Seq(Token)) /\ Newest(chat, fresh) /\ LinesOf(chat, fresh, IrcPort)
  BY DEF Chatting, ChatType
<1>2. chat.count > 0 /\ chat' = [chat EXCEPT !.head = (@ + 1) % IRC_QUEUE_SIZE, !.count = @ - 1]
  BY DEF IrcRead
<1>3. fresh' = SubSeq(fresh, Len(fresh) - chat'.count + 1, Len(fresh))
  BY DEF IrcRead
<1>4. chat' = d
  BY <1>1, <1>2 DEF Place, ChatType
<1>5. head \in 0 .. IRC_QUEUE_SIZE - 1
  BY <1>1, PlaceRound
<1>6. count \in 0 .. IRC_QUEUE_SIZE
  BY <1>1, <1>2, NetAssumption
<1> HIDE DEF head, count
<1>7. /\ d \in ChatType /\ d.q = chat.q /\ d.head = head /\ d.count = count
      /\ d.parse = chat.parse /\ d.chans = chat.chans
  BY <1>1, <1>5, <1>6 DEF ChatType
<1> HIDE DEF d
<1>8. d.head = Place(chat.head, 1) /\ d.count = chat.count - 1
  BY <1>7 DEF head, count
<1>9. g \in Seq(Seq(Token)) /\ Newest(d, g) /\ \A i \in DOMAIN g : \E j \in DOMAIN fresh : g[i] = fresh[j]
  BY <1>1, <1>2, <1>7, <1>8, NewestRead
<1>10. fresh' = g
  BY <1>3, <1>4
<1> HIDE DEF g
<1>11. LinesOf(d, g, IrcPort)
  BY <1>1, <1>7, <1>9 DEF LinesOf
<1> QED
  BY <1>4, <1>7, <1>9, <1>10, <1>11 DEF Chatting

\* But for irc_connect, every step keeps what is told of the lines.
LEMMA ChattingKeeps ==
    ASSUME Inv, Next
    PROVE  IF IrcCalls THEN chat' = NoChat /\ fresh' = <<>> ELSE Chatting(chat', fresh', IrcPort)
<1>1. NetTypes /\ Chatting(chat, fresh, IrcPort) /\ left \in Seq(Token) /\ OfHere(left)
  BY ChattingIs DEF Inv, NetInv, SessionInv, ChatTypes
<1>2. CASE UNCHANGED <<chat, fresh>> /\ ~IrcCalls
  BY <1>1, <1>2
<1>3. CASE IrcCalls
  BY <1>3 DEF IrcCalls, FreshChat
<1>4. CASE Forget
  BY <1>4, ChattingFresh, <1>3 DEF Forget
<1>5. CASE IrcLogin
  <2>1. Chatting([enqueue_line(chat, Notice("connected")) EXCEPT !.active = TRUE],
                 Append(fresh, Notice("connected")), IrcPort)
    BY <1>1, ChattingNotice
  <2> QED
    BY <1>3, <1>5, <2>1 DEF IrcLogin
<1>6. CASE IrcPoll \/ IrcParsed
  <2>1. Chatting([enqueue_line(chat, Notice("disconnected")) EXCEPT !.active = FALSE],
                 Append(fresh, Notice("disconnected")), IrcPort)
    BY <1>1, ChattingNotice
  <2> QED
    BY <1>2, <1>3, <1>6, <2>1 DEF IrcPoll, IrcParsed, Disconnected
<1>7. CASE IrcToken
  BY <1>1, <1>3, <1>7, ChattingToken
<1>8. CASE IrcJoinPart
  <2>1. PICK ch \in Channels : chat' \in {remember_channel(ch), forget_channel(ch)}
    BY <1>8 DEF IrcJoinPart
  <2>2. fresh' = fresh
    BY <1>8 DEF IrcJoinPart
  <2> QED
    BY <1>1, <1>3, <2>1, <2>2, ChattingChannel
<1>9. CASE IrcRead
  BY <1>1, <1>3, <1>9, ChattingRead
<1>10. CASE Poll \/ IdlePoll \/ World
  BY <1>2, <1>3, <1>10 DEF Poll, IdlePoll, World, ArpReply, DnsReply, IrcServer, vars, clientVars
<1>11. CASE net_resolve_gateway \/ dns_resolve \/ dns_wait \/ Connected \/ Closes
  BY <1>2, <1>3, <1>11 DEF net_resolve_gateway, dns_resolve, dns_wait, Connected, Closes, clientVars
<1>12. CASE HttpGet \/ HttpPool \/ HttpRequest \/ HttpAnswer \/ HttpGivesUp \/ HttpReturns
  BY <1>2, <1>3, <1>12 DEF HttpGet, HttpPool, HttpRequest, HttpAnswer, HttpGivesUp, HttpReturns, clientVars
<1>13. CASE IrcConnect \/ IrcQuit \/ QuitSent \/ PongSent
  BY <1>2, <1>3, <1>13 DEF IrcConnect, IrcQuit, QuitSent, PongSent, clientVars
<1> QED
  BY <1>3, <1>4, <1>5, <1>6, <1>7, <1>8, <1>9, <1>10, <1>11, <1>12, <1>13 DEF Next

\* What a step does to the IRC connection.
LEMMA IrcStream ==
    ASSUME Inv, Next
    PROVE  Undisturbed("irc") \/ Delivered("irc") \/ Leaves("irc") \/ IrcServer \/ IrcCalls \/ IrcParsed
<1>1. NetInv /\ NetTypes /\ PageTypes /\ PageInv /\ ScriptInv /\ DnsInv
  BY DEF Inv, NetInv
<1>2. "http" \in Conns /\ "irc" \in Conns /\ "irc" # "http" /\ Conns = {"http", "irc"}
  BY <1>1, ClientConns
<1>3. CASE UNCHANGED netVars
  BY <1>1, <1>2, <1>3, WireUndisturbed
<1>4. CASE Aside
  BY <1>3, <1>4, AsideNet
<1>5. CASE Poll
  BY <1>1, <1>2, <1>5, PollNet, HandlesDelivers
<1>6. CASE World
  <2>1. CASE Wire
    BY <1>1, <1>2, <2>1, WireUndisturbed
  <2>2. CASE ArpReply \/ DnsReply
    BY <2>2 DEF ArpReply, DnsReply, Undisturbed
  <2> QED
    BY <1>6, <2>1, <2>2 DEF World
<1>7. CASE Connected \/ Closes
  <2>1. ASSUME Leaves("http") PROVE Undisturbed("irc")
    BY <1>1, <1>2, <2>1, AwayUndisturbed
  <2> QED
    BY <1>2, <1>3, <1>7, <2>1, LeavesNet
<1>8. CASE HttpPool
  <2>1. UNCHANGED netVars \/ Opens("http")
    BY <1>8 DEF HttpPool, Opens, At
  <2>2. ASSUME Opens("http") PROVE Undisturbed("irc")
    BY <1>1, <1>2, <2>2, AwayUndisturbed
  <2> QED
    BY <1>3, <2>1, <2>2
<1>9. CASE HttpRequest /\ ~UNCHANGED netVars
  <2> DEFINE p == conn["http"].port
  <2>1. PICK s \in Response(page.r) \cup {<<>>} : p \in Ports /\ Says(p, s)
    BY <1>1, <1>9, HttpRequestNet
  <2> DEFINE new == peer[p].sent \o s
  <2>2. peer' = [peer EXCEPT ![p].sent = new] /\ UNCHANGED <<conn, taken>>
    BY <2>1 DEF Says
  <2>3. conn["irc"].port # 0 => conn["irc"].port # p /\ conn["irc"].port \in Ports
    BY <1>1, <1>2, PortFacts DEF NetInv, PortsInv
  <2> HIDE DEF p, new
  <2>4. \A q \in Ports : q # p => peer'[q] = peer[q]
    BY <1>1, <2>2 DEF NetTypes
  <2> QED
    BY <2>2, <2>3, <2>4 DEF Undisturbed
<1>10. CASE HttpAnswer \/ HttpGivesUp
  <2>1. Edits("http")
    BY <1>1, <1>10, HttpAnswerNet, HttpGivesUpNet
  <2> QED
    BY <1>1, <1>2, <2>1, AwayUndisturbed
<1>11. CASE IrcToken
  BY <1>1, <1>11, IrcTokenNet DEF Undisturbed
<1> QED
  BY <1>3, <1>4, <1>5, <1>6, <1>7, <1>8, <1>9, <1>10, <1>11 DEF Next, Aside

\* A sequence of tokens of one connection, and one more.
LEMMA OfOneAppend ==
    ASSUME NEW s \in Seq(Token), NEW t \in Token, NEW p, t.r = p, \A i \in DOMAIN s : s[i].r = p
    PROVE  \A i \in DOMAIN Append(s, t) : Append(s, t)[i].r = p
<1> DEFINE new == Append(s, t)
<1>1. /\ DOMAIN new = 1 .. Len(s) + 1 /\ DOMAIN s = 1 .. Len(s) /\ Len(s) \in Nat
      /\ new[Len(s) + 1] = t /\ \A i \in 1 .. Len(s) : new[i] = s[i]
  BY AppendFacts
<1> HIDE DEF new
<1>2. \A i \in DOMAIN new : i \in DOMAIN s \/ i = Len(s) + 1
  BY <1>1
<1>3. \A i \in DOMAIN new : new[i].r = p
  BY <1>1, <1>2
<1> QED
  BY <1>3 DEF new

\* All that comes from the server is of this connection, also after a step.
LEMMA StreamKeeps ==
    ASSUME Inv, Next, NetInv'
    PROVE  /\ IrcCalls \/ IrcPort' = IrcPort
           /\ IrcPort' # 0 => \A i \in DOMAIN peer'[IrcPort'].sent : peer'[IrcPort'].sent[i].r = IrcPort'
           /\ \A i \in DOMAIN conn'["irc"].rx : conn'["irc"].rx[i].r = IrcPort'
<1> DEFINE p == conn["irc"].port
           rx == conn["irc"].rx
           s == peer[p].sent
<1>1. NetInv /\ NetTypes /\ NetTypes' /\ "irc" \in Conns /\ rx \in Seq(Token)
  BY ClientConns DEF Inv, NetInv
<1>2. (p # 0 => p \in Ports /\ \A i \in DOMAIN s : s[i].r = p) /\ \A i \in DOMAIN rx : rx[i].r = p
  BY <1>1, PortFacts DEF Inv, SessionInv, OfHere, IrcPort
<1>3. CASE Undisturbed("irc")
  BY <1>2, <1>3 DEF Undisturbed, IrcPort
<1>4. CASE Delivered("irc")
  <2>1. p \in Ports /\ conn'["irc"].port = p /\ peer'[p].sent = s
    BY <1>2, <1>4 DEF Delivered
  <2>2. PICK t \in Token : conn'["irc"].rx = Append(rx, t) /\ taken'[p] = Append(taken[p], t)
    BY <1>4 DEF Delivered
  <2>3. taken[p] \in Seq(Token) /\ taken'[p] \in Seq(Token)
    BY <1>1, <2>1 DEF NetTypes
  <2>4. Len(taken[p]) + 1 \in DOMAIN taken'[p] /\ taken'[p][Len(taken[p]) + 1] = t
    BY <2>2, <2>3, AppendFacts
  <2>5. Len(taken'[p]) <= Len(s) /\ \A i \in DOMAIN taken'[p] : taken'[p][i] = s[i]
    BY <2>1 DEF NetInv, PeersInv
  <2>6. s \in Seq(Token)
    BY <1>1, <2>1 DEF NetTypes, PeerType
  <2>7. Len(taken[p]) + 1 \in DOMAIN s
    BY <2>3, <2>4, <2>5, <2>6
  <2>8. t.r = p
    BY <1>2, <2>1, <2>4, <2>5, <2>7, TcpAssumption DEF Ports
  <2>9. \A i \in DOMAIN Append(rx, t) : Append(rx, t)[i].r = p
    <3>1. rx \in Seq(Token) /\ t \in Token /\ t.r = p /\ \A i \in DOMAIN rx : rx[i].r = p
      BY <1>1, <1>2, <2>8
    <3> HIDE DEF rx, p
    <3> QED
      BY <3>1, OfOneAppend
  <2> QED
    BY <1>2, <2>1, <2>2, <2>9 DEF IrcPort
<1>5. CASE Leaves("irc")
  <2>1. conn' = conn /\ peer' = [peer EXCEPT ![p] = NoPeer]
    BY <1>5 DEF Leaves, Leave
  <2>2. p # 0 => peer'[p].sent = <<>>
    BY <1>1, <1>2, <2>1 DEF NetTypes, NoPeer
  <2> QED
    BY <1>2, <2>1, <2>2 DEF IrcPort
<1>6. CASE IrcServer
  <2>1. PICK t \in Token : t.r = p /\ p \in Ports /\ Says(p, <<t>>)
    BY <1>1, <1>6, IrcServerNet
  <2> DEFINE new == s \o <<t>>
  <2>2. peer' = [peer EXCEPT ![p].sent = new] /\ conn' = conn
    BY <2>1 DEF Says
  <2>3. s \in Seq(Token) /\ peer[p] \in PeerType
    BY <1>1, <2>1 DEF NetTypes, PeerType
  <2>4. p # 0 /\ t.r = p /\ \A i \in DOMAIN s : s[i].r = p
    BY <1>2, <2>1, TcpAssumption DEF Ports
  <2>5. \A i \in DOMAIN new : new[i].r = p
    <3> HIDE DEF s, p
    <3>1. new = Append(s, t)
      BY <2>3, AppendIsConcat
    <3> HIDE DEF new
    <3> QED
      BY <2>3, <2>4, <3>1, OfOneAppend
  <2> HIDE DEF new
  <2>6. peer'[p].sent = new
    BY <1>1, <2>1, <2>2, <2>3 DEF NetTypes, PeerType
  <2> QED
    BY <1>2, <2>2, <2>5, <2>6 DEF IrcPort
<1>7. CASE IrcCalls
  <2>1. UNCHANGED netVars \/ Opens("irc")
    BY <1>7 DEF IrcCalls, Opens, At
  <2>2. CASE UNCHANGED netVars
    BY <1>1, <1>3, <2>2, WireUndisturbed
  <2>3. CASE Opens("irc")
    <3>1. /\ conn'["irc"].port # 0 /\ conn'["irc"].rx = <<>>
          /\ peer'[conn'["irc"].port].sent = <<>>
      BY <1>1, <2>3, OpensFresh
    <3> QED
      BY <1>7, <3>1 DEF IrcPort
  <2> QED
    BY <2>1, <2>2, <2>3
<1>8. CASE IrcParsed
  <2>1. conn'["irc"].port = p /\ conn'["irc"].rx = <<>> /\ peer' = peer
    BY <1>1, <1>8, IrcParsedNet DEF IrcParsed
  <2> QED
    BY <1>2, <2>1 DEF IrcPort
<1> QED
  BY <1>3, <1>4, <1>5, <1>6, <1>7, <1>8, IrcStream

\* Tokens that are left are parsed before anything else is done.
LEMMA LeftKeeps ==
    ASSUME Inv, Next
    PROVE  /\ left' \in Seq(Token)
           /\ left' # <<>> => script' \in {<<"irc">>, <<"pong", "irc">>}
           /\ IrcCalls => left' = <<>>
           /\ \A i \in DOMAIN left' : left'[i].r = IrcPort
<1>1. /\ NetTypes /\ ScriptInv /\ Tidy(script) /\ left \in Seq(Token)
      /\ \A i \in DOMAIN left : left[i].r = IrcPort
      /\ left # <<>> => script \in {<<"irc">>, <<"pong", "irc">>}
      /\ \A i \in DOMAIN conn["irc"].rx : conn["irc"].rx[i].r = IrcPort
      /\ conn["irc"].rx \in Seq(Token)
  BY ClientConns DEF Inv, NetInv, ScriptInv, ChatTypes, SessionInv, OfHere
<1>2. script = <<"irc">> => First("irc") /\ Tail(script) = <<>>
  BY DEF First
<1>3. script = <<"pong", "irc">> => First("pong") /\ Tail(script) = <<"irc">>
  BY DEF First
<1>4. script = <<>> \/ (\E step : step \notin {"irc", "pong"} /\ First(step)) => left = <<>>
  BY <1>1, <1>2, <1>3, FirstFacts DEF First
<1>5. CASE left' = left /\ (script = <<>> \/ (\E step : step \notin {"irc", "pong"} /\ First(step)))
  BY <1>1, <1>4, <1>5
<1>6. CASE left' = left /\ script' = script /\ ~IrcCalls
  BY <1>1, <1>6
<1>7. ASSUME NEW step, step \notin {"irc", "pong"}, At(step) PROVE \E s : s \notin {"irc", "pong"} /\ First(s)
  BY <1>7 DEF At, First
<1>8. CASE Poll \/ IdlePoll \/ World
  <2>1. left' = left /\ script' = script
    BY <1>8 DEF Poll, IdlePoll, World, ArpReply, DnsReply, IrcServer, vars, clientVars
  <2>2. ~IrcCalls \/ First("call")
    BY DEF IrcCalls, At, First
  <2> QED
    BY <1>5, <1>6, <2>1, <2>2
<1>9. CASE net_resolve_gateway \/ dns_resolve \/ dns_wait \/ Connected \/ Closes
  <2>1. left' = left
    BY <1>9 DEF net_resolve_gateway, dns_resolve, dns_wait, Connected, Closes, clientVars
  <2>2. At("arp") \/ At("dns") \/ At("dns_wait") \/ \E c \in Conns : At(Waits(c)) \/ At(Close(c))
    BY <1>9 DEF net_resolve_gateway, dns_resolve, dns_wait, Connected, Closes
  <2>3. \A c : Waits(c) \notin {"irc", "pong"} /\ Close(c) \notin {"irc", "pong"}
    BY DEF Waits, Close
  <2> QED
    BY <1>5, <1>7, <2>1, <2>2, <2>3
<1>10. CASE HttpPool \/ HttpRequest \/ HttpAnswer \/ HttpGivesUp \/ HttpReturns
  <2>1. left' = left
    BY <1>10 DEF HttpPool, HttpRequest, HttpAnswer, HttpGivesUp, HttpReturns, clientVars
  <2>2. At("pool") \/ At("request") \/ At("answer") \/ At("return")
    BY <1>10 DEF HttpPool, HttpRequest, HttpAnswer, HttpGivesUp, HttpReturns
  <2> QED
    BY <1>5, <1>7, <2>1, <2>2
<1>11. CASE QuitSent \/ Forget \/ IrcCalls \/ IrcLogin
  <2>1. left' = left
    BY <1>11 DEF QuitSent, Forget, IrcCalls, IrcLogin, clientVars
  <2>2. At("quit") \/ At("forget") \/ At("call") \/ At("login")
    BY <1>11 DEF QuitSent, Forget, IrcCalls, IrcLogin
  <2> QED
    BY <1>5, <1>7, <2>1, <2>2
<1>12. CASE HttpGet \/ IrcConnect \/ IrcQuit \/ IrcJoinPart \/ IrcRead
  <2>1. left' = left
    BY <1>12 DEF HttpGet, IrcConnect, IrcQuit, IrcJoinPart, IrcRead, clientVars
  <2>2. script = <<>>
    BY <1>12 DEF HttpGet, IrcConnect, IrcQuit, IrcJoinPart, IrcRead, Command, Idle
  <2> QED
    BY <1>5, <2>1, <2>2
<1>13. ASSUME IrcPoll \/ IrcToken \/ IrcParsed \/ PongSent PROVE ~IrcCalls
  <2>1. script = <<>> \/ script = <<"irc">> \/ First("pong")
    BY <1>13 DEF IrcPoll, IrcToken, IrcParsed, PongSent, Idle, At, First
  <2>2. IrcCalls => First("call") /\ script # <<>>
    BY DEF IrcCalls, At, First
  <2> QED
    BY <1>1, <1>2, <2>1, <2>2, FirstFacts
<1>14. CASE IrcPoll
  <2>1. script = <<>>
    BY <1>14 DEF IrcPoll, Idle
  <2> QED
    BY <1>1, <1>5, <1>13, <1>14, <2>1 DEF IrcPoll
<1>15. CASE IrcToken
  <2>1. left # <<>> /\ left' = Tail(left) /\ script' \in {<<"irc">>, <<"pong", "irc">>}
    BY <1>15 DEF IrcToken
  <2>2. Tail(left) \in Seq(Token) /\ \A i \in DOMAIN Tail(left) : Tail(left)[i].r = IrcPort
    <3> DEFINE t == Tail(left)
    <3>1. /\ t \in Seq(Token) /\ DOMAIN t = 1 .. Len(left) - 1 /\ DOMAIN left = 1 .. Len(left)
          /\ \A i \in 1 .. Len(left) - 1 : t[i] = left[i + 1]
      BY <1>1, <2>1, TailFacts
    <3> HIDE DEF t
    <3>2. \A i \in DOMAIN t : i + 1 \in DOMAIN left
      BY <1>1, <3>1
    <3>3. \A i \in DOMAIN t : t[i].r = IrcPort
      BY <1>1, <3>1, <3>2
    <3> QED
      BY <3>1, <3>3 DEF t
  <2> QED
    BY <1>13, <1>15, <2>1, <2>2
<1>16. CASE IrcParsed
  <2>1. left = <<>> /\ left' = left
    BY <1>16 DEF IrcParsed
  <2> QED
    BY <1>1, <1>13, <1>16, <2>1
<1>17. CASE PongSent
  <2>1. left' = left /\ First("pong") /\ script' = <<>> \o Tail(script)
    BY <1>17 DEF PongSent, At, First, Do, clientVars
  <2>2. left # <<>> => script = <<"pong", "irc">>
    BY <1>1, <1>2, <2>1, FirstFacts
  <2>3. script = <<"pong", "irc">> => script' = <<"irc">>
    BY <1>3, <2>1
  <2> QED
    BY <1>1, <1>13, <1>17, <2>1, <2>2, <2>3
<1> QED
  BY <1>8, <1>9, <1>10, <1>11, <1>12, <1>14, <1>15, <1>16, <1>17 DEF Next

LEMMA SessionKeeps ==
    ASSUME Inv, Next, NetInv'
    PROVE  ChatTypes' /\ SessionInv' /\ QueueIsNewest'
<1>1. Chatting(chat', fresh', IrcPort')
  <2>1. CASE IrcCalls
    <3>1. Chatting(NoChat, <<>>, IrcPort')
      BY ChattingFresh
    <3> QED
      BY <2>1, <3>1, ChattingKeeps
  <2>2. CASE ~IrcCalls
    BY <2>2, ChattingKeeps, StreamKeeps
  <2> QED
    BY <2>1, <2>2
<1>2. /\ chat' \in ChatType /\ fresh' \in Seq(Seq(Token))
      /\ QueueIsNewest' /\ LinesOfThisSession'
  BY <1>1, ChattingNext
<1>3. ChatTypes'
  BY <1>2, LeftKeeps DEF ChatTypes
<1>4. \A i \in DOMAIN left' : left'[i].r = IrcPort'
  BY LeftKeeps, StreamKeeps
<1>5. (left # <<>> => script \in {<<"irc">>, <<"pong", "irc">>})'
  BY LeftKeeps
<1>6. OfHere(left)' /\ OfHere(conn["irc"].rx)' /\ (IrcPort # 0 => OfHere(peer[IrcPort].sent))'
  BY <1>4, StreamKeeps DEF OfHere
<1>7. SessionInv'
  BY <1>2, <1>5, <1>6 DEF SessionInv
<1> QED
  BY <1>2, <1>3, <1>7

------------------------------------------------------------------------------
(***************************************************************************)
(* The theorems                                                            *)
(***************************************************************************)
LEMMA InitInv ==
    ASSUME Init
    PROVE  Inv
<1>1. NetInv
  BY TcpInitFacts DEF Init
<1>2. ring = <<>> /\ script = <<>> /\ calls = 0 /\ dns = NoQuery /\ asked = {} /\ left = <<>>
      /\ fresh = <<>> /\ page = NoPage /\ chat = NoChat /\ pool = [active |-> FALSE, abandoned |-> FALSE]
      /\ conn = [c \in Conns |-> Closed] /\ slots = [i \in 1 .. TCP_MAX_CONNECTIONS |-> NoConn]
  BY DEF Init, TcpInit
<1>3. ScriptInv
  <2>1. Tidy(script) /\ ~Resolves(script)
    BY <1>2 DEF Tidy, Resolves
  <2>2. calls \in 0 .. MaxCalls /\ dns \in [n : 0 .. calls, done : BOOLEAN, answer : Nat]
    BY <1>2, NetAssumption DEF NoQuery
  <2> QED
    BY <2>1, <2>2 DEF ScriptInv
<1>4. DnsInv
  BY <1>2 DEF DnsInv, DnsAnswerIsOurs, NoQuery
<1>5. \A step : ~First(step)
  BY <1>2 DEF First
<1>6. PoolInv
  <2>1. \A i \in DOMAIN slots : slots[i] # "http"
    BY <1>1, <1>2, ClientConns DEF NetInv
  <2> QED
    BY <1>2, <1>5, <2>1 DEF PoolInv, Owning
<1>7. PageTypes /\ PageInv
  <2>1. <<>> \in Seq(Token)
    OBVIOUS
  <2> QED
    BY <1>2, <2>1 DEF PageTypes, PageType, PageInv, NoPage
<1>8. HttpInv
  BY <1>2, <1>5 DEF HttpInv, Serves
<1>9. Chatting(chat, fresh, IrcPort)
  BY <1>2, ChattingFresh
<1>10. /\ chat \in ChatType /\ fresh \in Seq(Seq(Token)) /\ Newest(chat, fresh) /\ LinesOf(chat, fresh, IrcPort)
  BY <1>9 DEF Chatting
<1>11. ChatTypes /\ QueueIsNewest /\ LinesOfThisSession
  <2>1. QueueIsNewest
    BY <1>10, NewestIs DEF QueueIsNewest
  <2> QED
    BY <1>2, <1>10, <2>1 DEF ChatTypes, LinesOf, LinesOfThisSession, IrcPort
<1>12. SessionInv
  <2>1. conn["irc"].port = 0 /\ conn["irc"].rx = <<>>
    BY <1>1, <1>2, ClientConns DEF NetInv, Closed
  <2> QED
    BY <1>2, <1>11, <2>1 DEF SessionInv, OfHere, IrcPort
<1> QED
  BY <1>1, <1>3, <1>4, <1>6, <1>7, <1>8, <1>11, <1>12 DEF Inv

LEMMA InvStutters ==
    ASSUME Inv, UNCHANGED vars
    PROVE  Inv'
<1>1. /\ UNCHANGED <<ring, gateway, nested, conn, slots, port, peer, taken>>
      /\ UNCHANGED <<script, calls, pool, page, chat, left, fresh, dns, asked>>
  BY DEF vars, netVars, clientVars
<1>2. NetInv'
  <2>1. NetInv /\ NetStep
    BY DEF Inv, vars, NetStep
  <2> QED
    BY <2>1, NetKeeps
<1>3. ScriptInv' /\ DnsInv' /\ PoolInv'
  BY <1>1 DEF Inv, ScriptInv, Tidy, Resolves, DnsInv, DnsAnswerIsOurs, PoolInv, Owning, First
<1>4. PageTypes' /\ PageInv'
  BY <1>1 DEF Inv, PageTypes, PageInv, Waiting, Returning, First
<1>5. HttpInv'
  <2>1. Undisturbed("http")
    BY ClientConns, WireUndisturbed DEF Inv, NetInv, vars
  <2>2. HttpStays
    BY <1>1, <2>1 DEF HttpStays, Serves, Waiting, Returning, First
  <2> QED
    BY <1>1, <1>2, <2>2, HttpSame DEF Inv
<1>6. ChatTypes' /\ QueueIsNewest' /\ LinesOfThisSession'
  BY <1>1 DEF Inv, ChatTypes, QueueIsNewest, SessionInv, LinesOfThisSession
<1>7. SessionInv'
  <2>1. (left # <<>> => script \in {<<"irc">>, <<"pong", "irc">>})'
    BY <1>1 DEF Inv, SessionInv
  <2>2. OfHere(left)' /\ OfHere(conn["irc"].rx)' /\ (IrcPort # 0 => OfHere(peer[IrcPort].sent))'
    BY <1>1 DEF Inv, SessionInv, OfHere, IrcPort
  <2> QED
    BY <1>6, <2>1, <2>2 DEF SessionInv
<1> QED
  BY <1>2, <1>3, <1>4, <1>5, <1>6, <1>7 DEF Inv

\* The inductive invariant holds in every state of the clients and the table.
THEOREM NetInvariance == Spec => []Inv
<1>1. Init => Inv
  BY InitInv
<1>2. Inv /\ [Next]_vars => Inv'
  <2>1. ASSUME Inv, Next PROVE Inv'
    <3>1. NetInv'
      BY <2>1, NextNet, NetKeeps DEF Inv
    <3>2. ScriptInv' /\ DnsInv' /\ PoolInv'
      BY <2>1, ScriptKeeps, DnsKeeps, PoolKeeps
    <3>3. PageTypes' /\ PageInv' /\ HttpInv'
      BY <2>1, <3>1, PageKeeps, HttpKeeps
    <3>4. ChatTypes' /\ SessionInv' /\ QueueIsNewest'
      BY <2>1, <3>1, SessionKeeps
    <3> QED
      BY <3>1, <3>2, <3>3, <3>4 DEF Inv
  <2> QED
    BY <2>1, InvStutters
<1> QED
  BY <1>1, <1>2, PTL DEF Spec

\* What a connection delivers is a beginning of what its peer sent, however the
\* wire loses, repeats and reorders segments (tcp_input, src/kernel/tcp.c).
THEOREM StreamInOrderHolds == Spec => []StreamInOrder
<1>1. Inv => StreamInOrder
  BY NetInvImplies DEF Inv
<1> QED
  BY <1>1, NetInvariance, PTL

\* No frame is handled twice: what a handler sends does not have to resolve the
\* gateway, so that it polls no ring whose frame is not yet taken (net_poll,
\* src/kernel/net.c).
THEOREM NoNestedPollHolds == Spec => []NoNestedPoll
<1>1. Inv => NoNestedPoll
  BY NetInvImplies DEF Inv
<1> QED
  BY <1>1, NetInvariance, PTL

\* A page is made of the response to its own request, on a connection whose
\* requests were all awaited (http_request, src/kernel/http.c), and a name is
\* resolved to its own address (dns_input, src/kernel/dns.c).
THEOREM AnswersAreOursHolds == Spec => []AnswersAreOurs
<1>1. Inv => AnswersAreOurs
  <2> SUFFICES ASSUME Inv PROVE AnswersAreOurs
    OBVIOUS
  <2>1. DnsAnswerIsOurs
    BY DEF Inv, DnsInv
  <2>2. HttpAnswerIsOurs
    BY DEF Inv, PageInv, HttpInv, Serves, HttpAnswerIsOurs
  <2> QED
    BY <2>1, <2>2 DEF AnswersAreOurs
<1> QED
  BY <1>1, NetInvariance, PTL

\* Between commands the kept-alive connection has one slot of the table, and
\* none when the pool is empty, whatever requests failed (g_http_pool in
\* src/kernel/http.c; register_conn and unregister_conn in src/kernel/tcp.c).
THEOREM PoolOwnsSlotHolds == Spec => []PoolOwnsSlot
<1>1. Inv => PoolOwnsSlot
  <2> SUFFICES ASSUME Inv, script = <<>>
               PROVE  LET held == {i \in DOMAIN slots : slots[i] = "http"}
                      IN  Cardinality(held) = IF pool.active THEN 1 ELSE 0
    BY DEF PoolOwnsSlot
  <2> DEFINE held == {i \in DOMAIN slots : slots[i] = "http"}
  <2>1. /\ \A i, j \in held : i = j
        /\ held # {} <=> pool.active
        /\ pool.active \in BOOLEAN
    BY DEF Inv, PoolInv, Owning, First
  <2> HIDE DEF held
  <2>2. held = {} => Cardinality(held) = 0 /\ ~pool.active
    BY <2>1, FS_EmptySet
  <2>3. held # {} => Cardinality(held) = 1 /\ pool.active
    <3> SUFFICES ASSUME held # {} PROVE Cardinality(held) = 1 /\ pool.active
      OBVIOUS
    <3>1. PICK i \in held : held = {i}
      BY <2>1
    <3>2. Cardinality({i}) = 1
      BY FS_Singleton
    <3> QED
      BY <2>1, <3>1, <3>2
  <2>4. Cardinality(held) = IF pool.active THEN 1 ELSE 0
    BY <2>2, <2>3
  <2> QED
    BY <2>4 DEF held
<1> QED
  BY <1>1, NetInvariance, PTL

\* The ring of lines holds the newest lines that were not read, oldest first
\* (enqueue_line and irc_read, src/kernel/irc.c).
THEOREM QueueIsNewestHolds == Spec => []QueueIsNewest
<1>1. Inv => QueueIsNewest
  BY DEF Inv
<1> QED
  BY <1>1, NetInvariance, PTL

\* No line and no channel of an earlier session is shown in this one
\* (irc_connect, process_rx_bytes and irc_poll, src/kernel/irc.c).
THEOREM LinesOfThisSessionHolds == Spec => []LinesOfThisSession
<1>1. Inv => LinesOfThisSession
  BY DEF Inv, SessionInv
<1> QED
  BY <1>1, NetInvariance, PTL
==============================================================================
