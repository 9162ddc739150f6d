------------------------------ MODULE TcpTable ------------------------------
(***************************************************************************)
(* The network below the clients: received frames (src/kernel/net.c), the  *)
(* connection table (src/kernel/tcp.c), and the peers and the wire.        *)
(*                                                                         *)
(* A stream is a sequence of tokens; a token takes two sequence numbers    *)
(* and a FIN one, so that a FIN received before missing data leaves the    *)
(* receiver between two tokens.  The wire delivers what a peer sent in any *)
(* order, any number of times or never; a SYN-ACK is repeated only while   *)
(* nothing of the stream is under way or accepted (a later one sets rx_seq *)
(* back), and a FIN never.                                                 *)
(***************************************************************************)
EXTENDS Integers, Sequences, SequencesExt

CONSTANTS
    Conns,          \* the static tcp_conn_t of the clients
    TCP_MAX_CONNECTIONS,
    NoConn,         \* a free slot
    PortMax,        \* bound: connections made, in all
    RingSize,       \* NET_RING_SIZE: frames the device can deliver ahead
    RxCap           \* tokens that fit in rx_buf

ASSUME TcpAssumption ==
    /\ NoConn \notin Conns
    /\ TCP_MAX_CONNECTIONS \in Nat \ {0}
    /\ PortMax \in Nat /\ RingSize \in Nat \ {0} /\ RxCap \in Nat \ {0}

VARIABLES
    ring,       \* frames received and not yet handled
    gateway,    \* net.gateway_resolved
    nested,     \* a handler had to poll: the frame it handles comes again
    conn,       \* the connections
    slots,      \* conn_slots
    port,       \* next_local_port, counted from 0xC000
    peer,       \* port -> the other end
    taken       \* history: port -> the tokens put in rx_buf, in order

netVars == <<ring, gateway, nested, conn, slots, port, peer, taken>>

Ports == 1..PortMax
Closed == [port |-> 0, est |-> FALSE, closed |-> FALSE, err |-> FALSE, rx |-> <<>>, rxseq |-> 0]
NoPeer == [st |-> "none", sent |-> <<>>, fin |-> FALSE]

TcpInit ==
    /\ ring = <<>>
    /\ gateway = FALSE
    /\ nested = FALSE
    /\ conn = [c \in Conns |-> Closed]
    /\ slots = [i \in 1..TCP_MAX_CONNECTIONS |-> NoConn]
    /\ port = 0
    /\ peer = [p \in Ports |-> NoPeer]
    /\ taken = [p \in Ports |-> <<>>]

-----------------------------------------------------------------------------
(* The table.                                                              *)
FreeSlots == {i \in DOMAIN slots : slots[i] = NoConn}
LowestOf(S) == CHOOSE i \in S : \A j \in S : i <= j

(* unregister_conn: the first slot that holds the connection.              *)
unregister_conn(c) ==
    LET held == {i \in DOMAIN slots : slots[i] = c}
    IN  slots' = IF held = {} THEN slots ELSE [slots EXCEPT ![LowestOf(held)] = NoConn]

(* Nothing more is heard of a connection that has left the table: its end  *)
(* of the wire and its history are forgotten with it.                      *)
Leave(c) ==
    /\ unregister_conn(c)
    /\ peer' = [peer EXCEPT ![conn[c].port] = NoPeer]
    /\ taken' = [taken EXCEPT ![conn[c].port] = <<>>]

lookup_conn(p) ==
    LET here == {i \in DOMAIN slots : slots[i] # NoConn /\ conn[slots[i]].port = p}
    IN  IF here = {} THEN NoConn ELSE slots[LowestOf(here)]

(* Mutant: the SYN leaves although the gateway is not known.               *)
OpenConnBlind(c) ==
    /\ FreeSlots # {} /\ port < PortMax
    /\ slots' = [slots EXCEPT ![LowestOf(FreeSlots)] = c]
    /\ port' = port + 1
    /\ conn' = [conn EXCEPT ![c] = [Closed EXCEPT !.port = port']]
    /\ peer' = [peer EXCEPT ![port'].st = "syn"]
    /\ UNCHANGED <<ring, gateway, nested, taken>>

(* tcp_connect up to its first poll; the SYN leaves if the gateway is      *)
(* known.                                                                  *)
OpenConn(c) ==
    /\ FreeSlots # {} /\ port < PortMax
    /\ slots' = [slots EXCEPT ![LowestOf(FreeSlots)] = c]
    /\ port' = port + 1
    /\ conn' = [conn EXCEPT ![c] = [Closed EXCEPT !.port = port']]
    /\ peer' = IF gateway THEN [peer EXCEPT ![port'].st = "syn"] ELSE peer
    /\ UNCHANGED <<ring, gateway, nested, taken>>

CanSend(c) == conn[c].est /\ ~conn[c].closed

(* Mutant: the sequence number is not compared.                            *)
ReceivedAnyOrder(c, f) ==
    IF f.kind = "data" /\ Len(conn[c].rx) < RxCap
    THEN [conn[c] EXCEPT !.rx = Append(@, f.tok), !.rxseq = f.seq + 2]
    ELSE [conn[c] EXCEPT !.closed = f.kind \in {"rst", "fin"} \/ @,
                         !.est = f.kind = "synack" \/ @]

(* tcp_input on a connection of the table.                                 *)
Received(c, f) ==
    LET k == conn[c]
        seq == IF k.rxseq = 0 THEN f.seq ELSE k.rxseq
    IN CASE f.kind = "rst" -> [k EXCEPT !.closed = TRUE, !.err = TRUE]
         [] f.kind = "synack" -> [k EXCEPT !.est = TRUE, !.rxseq = 1]
         [] f.kind = "data" ->
              IF f.seq # seq THEN k
              ELSE IF Len(k.rx) < RxCap
              THEN [k EXCEPT !.rx = Append(@, f.tok), !.rxseq = seq + 2]
              ELSE [k EXCEPT !.err = TRUE, !.rxseq = seq]
         [] f.kind = "fin" -> [k EXCEPT !.closed = TRUE, !.rxseq = @ + 1]

tcp_input(f) ==
    LET c == lookup_conn(f.port)
        k == Received(c, f)
    IN  IF c = NoConn THEN UNCHANGED <<nested, conn, peer, taken>>
        ELSE /\ conn' = [conn EXCEPT ![c] = k]
             /\ taken' = IF Len(k.rx) > Len(conn[c].rx)
                         THEN [taken EXCEPT ![f.port] = Append(@, f.tok)] ELSE taken
             /\ peer' = IF f.kind = "synack" THEN [peer EXCEPT ![f.port].st = "open"] ELSE
                        IF f.kind = "fin" THEN [peer EXCEPT ![f.port].st = "gone"] ELSE peer
             (* every answer is an IP packet, and needs the gateway.       *)
             /\ nested' = (nested \/ (f.kind # "rst" /\ ~gateway))

-----------------------------------------------------------------------------
(* The peers and the wire.  A frame for a connection that is not in the    *)
(* table changes nothing, and is left out.                                 *)
Frame(k, p, s, t) == [kind |-> k, port |-> p, seq |-> s, tok |-> t]
NoTok == [k |-> "none", r |-> 0, n |-> 0]

Arrive(f) ==
    /\ Len(ring) < RingSize
    /\ ring' = Append(ring, f)

Heard == {p \in Ports : lookup_conn(p) # NoConn}

(* Nothing of the stream of p is under way.                                *)
StreamIdle(p) == \A i \in DOMAIN ring : ring[i].kind \in {"data", "fin"} => ring[i].port # p

PeerAnswers ==
    \E p \in Heard :
        /\ \/ /\ peer[p].st = "syn"
              /\ \E k \in {"synack", "rst"} :
                    /\ Arrive(Frame(k, p, 0, NoTok))
                    /\ peer' = [peer EXCEPT ![p].st = IF k = "rst" THEN "gone" ELSE "acked"]
           \/ /\ peer[p].st = "open" /\ conn[lookup_conn(p)].rxseq = 1 /\ StreamIdle(p)
              /\ Arrive(Frame("synack", p, 0, NoTok))
              /\ UNCHANGED peer
        /\ UNCHANGED <<gateway, nested, conn, slots, port, taken>>

(* A data segment, for the first time or again.                            *)
Segment ==
    \E p \in Heard : \E i \in 1..Len(peer[p].sent) :
        /\ Arrive(Frame("data", p, 2 * i - 1, peer[p].sent[i]))
        /\ UNCHANGED <<gateway, nested, conn, slots, port, peer, taken>>

(* The peer has closed, after all it sent; its FIN may overtake data.      *)
FinArrives ==
    \E p \in Heard :
        /\ peer[p].st = "open" /\ ~peer[p].fin
        /\ Arrive(Frame("fin", p, 2 * Len(peer[p].sent) + 1, NoTok))
        /\ peer' = [peer EXCEPT ![p].fin = TRUE]
        /\ UNCHANGED <<gateway, nested, conn, slots, port, taken>>

Wire == PeerAnswers \/ Segment \/ FinArrives

-----------------------------------------------------------------------------
(* What a connection delivers is a beginning of what its peer sent: no     *)
(* token is missing, repeated or out of order, however the wire treats the *)
(* segments.                                                               *)
StreamInOrder == \A p \in Ports : IsPrefix(taken[p], peer[p].sent)

(* net_poll advances rx_last_used only after a frame is handled, and what  *)
(* a handler sends polls again while the gateway is unknown; but no frame  *)
(* that is answered comes before the gateway is known, so no frame is      *)
(* handled twice.                                                          *)
NoNestedPoll == ~nested
==============================================================================
