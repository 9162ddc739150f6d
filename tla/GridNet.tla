------------------------------- MODULE GridNet -------------------------------
(***************************************************************************)
(* The clients of the network: the resolver (src/kernel/dns.c), the HTTP   *)
(* client (src/kernel/http.c) and the IRC client (src/kernel/irc.c), on    *)
(* the connection table.  One thread runs them; it waits by polling, so    *)
(* every frame is handled inside some wait, or by the idle loop of the     *)
(* console.  `script' is what the running command has still to do.         *)
(*                                                                         *)
(* A wait may end at any moment the ring is empty: every loop that polls   *)
(* has a bound, and a poll empties the ring.                               *)
(***************************************************************************)
EXTENDS TcpTable, FiniteSets

CONSTANTS
    IRC_QUEUE_SIZE,
    IRC_MAX_CHANNELS,
    Channels,
    Named,              \* bound: the clients that may be given a host name
    IdMod,              \* transaction numbers of the resolver
    Caps,               \* tokens that fit in a caller's buffer
    MaxCalls,           \* bound: commands
    MaxLines            \* bound: tokens an IRC server sends in a session

ASSUME NetAssumption ==
    /\ Conns = {"http", "irc"}
    /\ IRC_QUEUE_SIZE \in Nat \ {0} /\ IRC_MAX_CHANNELS \in Nat
    /\ MaxCalls \in Nat /\ MaxLines \in Nat
    /\ IdMod \in Nat /\ IdMod > MaxCalls
    /\ Caps \subseteq Nat

VARIABLES
    script, calls,
    pool,       \* g_http_pool; given up: an answer to it may be still to come
    page,       \* the HTTP request that runs, or ran last
    chat,       \* g_irc
    left,       \* received tokens that irc_poll has still to parse
    fresh,      \* history: the lines put in the queue and not read
    dns,        \* the resolver
    asked       \* history: the queries that left

clientVars == <<pool, page, chat, left, fresh, dns, asked>>
vars == <<netVars, script, calls, clientVars>>

EmptyQueue == [i \in 0..IRC_QUEUE_SIZE - 1 |-> <<>>]
NoChat == [active |-> FALSE, chans |-> <<>>, parse |-> <<>>,
           q |-> EmptyQueue, head |-> 0, count |-> 0]
NoQuery == [n |-> 0, done |-> FALSE, answer |-> 0]
NoPage == [r |-> 0, cap |-> 0, head |-> FALSE, need |-> 0, close |-> FALSE, got |-> <<>>]

Init ==
    /\ TcpInit
    /\ script = <<>> /\ calls = 0
    /\ pool = [active |-> FALSE, abandoned |-> FALSE]
    /\ page = NoPage
    /\ chat = NoChat /\ left = <<>> /\ fresh = <<>>
    /\ dns = NoQuery
    /\ asked = {}

At(step) == script # <<>> /\ Head(script) = step /\ ring = <<>>
Idle == script = <<>> /\ ring = <<>>
Do(steps) == script' = steps \o Tail(script)
Fail == script' = <<>>

(* Every command that sends resolves the gateway first, once.              *)
Command(steps) ==
    /\ Idle /\ calls < MaxCalls
    /\ calls' = calls + 1
    /\ script' = (IF gateway THEN <<>> ELSE <<"arp">>) \o steps

(* net_resolve_host: an address or a known name, or a query.               *)
Hosted(c, steps) == {steps} \cup (IF c \in Named THEN {<<"dns">> \o steps} ELSE {})

-----------------------------------------------------------------------------
(* Received frames.                                                        *)
dns_input(f) ==
    dns' = IF f.port = dns.n % IdMod THEN [dns EXCEPT !.done = TRUE, !.answer = f.tok.n] ELSE dns

(* net_poll, one frame.  While irc_poll parses, nothing polls.             *)
Poll ==
    /\ ring # <<>>
    /\ script # <<"irc">>
    /\ ring' = Tail(ring)
    /\ LET f == Head(ring)
       IN \/ /\ f.kind = "arp"
             /\ gateway' = TRUE
             /\ UNCHANGED <<nested, conn, peer, taken, dns>>
          \/ /\ f.kind = "dns"
             /\ dns_input(f)
             /\ UNCHANGED <<gateway, nested, conn, peer, taken>>
          \/ /\ f.kind \notin {"arp", "dns"}
             /\ tcp_input(f)
             /\ UNCHANGED <<gateway, dns>>
    /\ UNCHANGED <<slots, port, script, calls, pool, page, chat, left, fresh, asked>>

(* The idle loop of the console polls an empty ring.                       *)
IdlePoll == Idle /\ UNCHANGED vars

(* net_resolve_gateway: its answer, or none.                               *)
ArpReply ==
    /\ script # <<>> /\ Head(script) = "arp"
    /\ Arrive(Frame("arp", 0, 0, NoTok))
    /\ UNCHANGED <<gateway, nested, conn, slots, port, peer, taken, script, calls, clientVars>>

net_resolve_gateway ==
    /\ At("arp")
    /\ Do(<<>>)
    /\ UNCHANGED <<netVars, calls, clientVars>>

-----------------------------------------------------------------------------
(* The resolver.  Each query asks for a name of its own.                   *)
dns_resolve ==
    /\ At("dns")
    /\ dns' = [n |-> dns.n + 1, done |-> FALSE, answer |-> 0]
    /\ asked' = IF gateway THEN asked \cup {dns'.n} ELSE asked
    /\ IF gateway THEN Do(<<"dns_wait">>) ELSE Fail
    /\ UNCHANGED <<netVars, calls, pool, page, chat, left, fresh>>

dns_wait ==
    /\ At("dns_wait")
    /\ IF dns.done THEN Do(<<>>) ELSE Fail
    /\ dns' = [NoQuery EXCEPT !.n = dns.n]
    /\ UNCHANGED <<netVars, calls, pool, page, chat, left, fresh, asked>>

(* The server answers late, twice, or not at all; what comes while nobody  *)
(* waits is cleared by the next query, and left out.                       *)
DnsReply ==
    /\ script # <<>> /\ Head(script) = "dns_wait"
    /\ \E q \in asked : Arrive(Frame("dns", q % IdMod, 0, [NoTok EXCEPT !.n = q]))
    /\ UNCHANGED <<gateway, nested, conn, slots, port, peer, taken, script, calls, clientVars>>

-----------------------------------------------------------------------------
(* Connections.                                                            *)
NoSlot == FreeSlots = {} \/ port = PortMax
Waits(c) == IF c = "http" THEN "wait_http" ELSE "wait_irc"
Close(c) == IF c = "http" THEN "close_http" ELSE "close_irc"

(* Mutant: a connection that is refused keeps its slot.                    *)
tcp_connected_keep(c) ==
    /\ IF conn[c].est THEN Do(<<>>) ELSE Fail
    /\ UNCHANGED <<slots, peer, taken>>

(* The end of tcp_connect: established, or refused or not answered.        *)
tcp_connected(c) ==
    IF conn[c].est
    THEN Do(<<>>) /\ UNCHANGED <<slots, peer, taken>>
    ELSE Fail /\ Leave(c)

Connected ==
    \E c \in Conns :
        /\ At(Waits(c))
        /\ tcp_connected(c)
        /\ pool' = IF c = "http" /\ conn[c].est
                   THEN [active |-> TRUE, abandoned |-> FALSE] ELSE pool
        /\ UNCHANGED <<ring, gateway, nested, conn, port, calls,
                       page, chat, left, fresh, dns, asked>>

(* tcp_close, when its wait is over.                                       *)
Closes ==
    \E c \in Conns :
        /\ At(Close(c))
        /\ Leave(c)
        /\ Do(<<>>)
        /\ pool' = IF c = "http" THEN [pool EXCEPT !.active = FALSE] ELSE pool
        /\ UNCHANGED <<ring, gateway, nested, conn, port, calls,
                       page, chat, left, fresh, dns, asked>>

-----------------------------------------------------------------------------
(* The HTTP client.  A response is a head, which says how many tokens of   *)
(* body follow or that the connection ends with them, and the body.        *)
Usable(c) == conn[c].est /\ ~conn[c].closed /\ ~conn[c].err
Endless == RxCap + 1

HttpGet ==
    /\ \E cap \in Caps, steps \in Hosted("http", <<"pool">>) :
          /\ Command(steps)
          /\ page' = [NoPage EXCEPT !.r = calls', !.cap = cap]
    /\ UNCHANGED <<netVars, pool, chat, left, fresh, dns, asked>>

HttpPool ==
    /\ At("pool")
    /\ \/ /\ pool.active
          /\ \E same \in BOOLEAN :    \* the request goes to the pool's server
                Do(IF same /\ Usable("http") THEN <<"request">> ELSE <<"close_http", "pool">>)
          /\ UNCHANGED netVars
       \/ /\ ~pool.active /\ ~NoSlot
          /\ OpenConn("http")
          /\ Do(<<"wait_http", "request">>)
       \/ /\ ~pool.active /\ NoSlot
          /\ Fail
          /\ UNCHANGED netVars
    /\ UNCHANGED <<calls, clientVars>>

(* The request leaves; the server answers what reaches it.                 *)
Response(r) ==
    LET Of(n, k) == <<[k |-> "head", r |-> r, n |-> n]>>
                    \o [i \in 1..k |-> [k |-> "body", r |-> r, n |-> i]]
    IN  {Of(1, 1), Of(3, 3), Of(Endless, 1)}

HttpRequest ==
    /\ At("request")
    /\ \/ /\ CanSend("http")
          /\ \E s \in Response(page.r) \cup {<<>>} :
                peer' = IF peer[conn["http"].port].st = "open"
                        THEN [peer EXCEPT ![conn["http"].port].sent = @ \o s] ELSE peer
          /\ Do(<<"answer">>)
       \/ /\ ~CanSend("http")
          /\ Do(<<"close_http">>)
          /\ UNCHANGED peer
    /\ UNCHANGED <<ring, gateway, nested, conn, slots, port, taken, calls, clientVars>>

(* Mutant: the pass begins at the first byte, head or not.                 *)
HttpPassFromStart(rx) ==
    LET bytes == IF page.head THEN rx ELSE SelectSeq(rx, LAMBDA t : t.k # "head")
        k == LowestOf({page.cap - Len(page.got), Len(bytes)})
    IN  [page |-> [page EXCEPT !.head = rx # <<>> \/ @, !.need = 2,
                               !.got = @ \o SubSeq(bytes, 1, k)],
         rest |-> SubSeq(bytes, k + 1, Len(bytes))]

(* One pass over rx_buf: what comes before a head is skipped.              *)
HttpPass(rx) ==
    LET heads == {i \in DOMAIN rx : rx[i].k = "head"}
        h == LowestOf(heads)
        begun == page.head \/ heads # {}
        body == IF page.head THEN rx ELSE SubSeq(rx, h + 1, Len(rx))
        p == IF page.head \/ ~begun THEN page
             ELSE [page EXCEPT !.head = TRUE, !.need = rx[h].n, !.close = rx[h].n = Endless]
        k == LowestOf({p.need - Len(p.got), p.cap - Len(p.got), Len(body)})
    IN  IF ~begun THEN [page |-> page, rest |-> rx]
        ELSE [page |-> [p EXCEPT !.got = @ \o SubSeq(body, 1, k)],
              rest |-> SubSeq(body, k + 1, Len(body))]

(* http_request after a poll: the page is complete, or cut off because the *)
(* caller's buffer is full, or the connection ended, or it waits on.       *)
HttpAnswer ==
    /\ At("answer")
    /\ LET pass == HttpPass(conn["http"].rx)
           p == pass.page
           complete == p.head /\ Len(p.got) >= p.need
           cut == ~complete /\ p.head /\ Len(p.got) = p.cap /\ pass.rest # <<>>
           full == ~p.head /\ Len(conn["http"].rx) >= RxCap
           over == p.close \/ ~Usable("http") \/ full
       IN  /\ page' = p
           /\ conn' = [conn EXCEPT !["http"].rx = IF cut /\ ~over THEN <<>> ELSE pass.rest,
                                   !["http"].err = @ \/ full]
           /\ \/ /\ complete \/ cut \/ ~Usable("http") \/ full
                 /\ Do(IF over THEN <<"close_http", "return">> ELSE <<"return">>)
              \/ /\ ~(complete \/ cut \/ ~Usable("http") \/ full)
                 /\ pass.page # page \/ pass.rest # conn["http"].rx
                 /\ UNCHANGED script
    /\ UNCHANGED <<ring, gateway, nested, slots, port, peer, taken, calls,
                   pool, chat, left, fresh, dns, asked>>

(* All tries are used up: the connection stays in the pool.                *)
HttpGivesUp ==
    /\ At("answer") /\ Usable("http")
    /\ HttpPass(conn["http"].rx) = [page |-> page, rest |-> conn["http"].rx]
    /\ Len(conn["http"].rx) < RxCap
    /\ conn' = [conn EXCEPT !["http"].rx = <<>>]
    /\ pool' = [pool EXCEPT !.abandoned = TRUE]
    /\ Do(IF page.close THEN <<"close_http", "return">> ELSE <<"return">>)
    /\ UNCHANGED <<ring, gateway, nested, slots, port, peer, taken, calls,
                   page, chat, left, fresh, dns, asked>>

HttpReturns ==
    /\ At("return")
    /\ page' = NoPage
    /\ Do(<<>>)
    /\ UNCHANGED <<netVars, calls, pool, chat, left, fresh, dns, asked>>

(* Mutant: the oldest line is overwritten but stays the head.              *)
enqueue_line_over(c, line) ==
    [c EXCEPT !.q[(c.head + c.count) % IRC_QUEUE_SIZE] = line,
              !.count = IF @ < IRC_QUEUE_SIZE THEN @ + 1 ELSE @]

-----------------------------------------------------------------------------
(* The IRC client.                                                         *)
enqueue_line(c, line) ==
    LET full == c.count >= IRC_QUEUE_SIZE
        head == IF full THEN (c.head + 1) % IRC_QUEUE_SIZE ELSE c.head
        count == IF full THEN c.count - 1 ELSE c.count
    IN  [c EXCEPT !.head = head, !.count = count + 1,
                  !.q[(head + count) % IRC_QUEUE_SIZE] = line]

irc_is_connected == chat.active /\ Usable("irc")

(* teardown closes a connection only while the server has not.             *)
Teardown == IF CanSend("irc") THEN <<"close_irc", "forget">> ELSE <<"forget">>

IrcConnect ==
    /\ \E steps \in Hosted("irc", <<"call">>) :
          Command((IF chat.active THEN Teardown ELSE <<>>) \o steps)
    /\ UNCHANGED <<netVars, clientVars>>

IrcQuit ==
    /\ chat.active
    /\ Command(IF irc_is_connected THEN <<"quit">> ELSE Teardown)
    /\ UNCHANGED <<netVars, clientVars>>

(* The QUIT line has left.                                                 *)
QuitSent ==
    /\ At("quit")
    /\ Do(Teardown)
    /\ UNCHANGED <<netVars, calls, clientVars>>

Forget ==
    /\ At("forget")
    /\ chat' = NoChat /\ fresh' = <<>>
    /\ Do(<<>>)
    /\ UNCHANGED <<netVars, calls, pool, page, left, dns, asked>>

(* Mutant: the line that was being received is kept.                       *)
FreshChatKeepsParse == [NoChat EXCEPT !.parse = chat.parse]

FreshChat == NoChat

IrcCalls ==
    /\ At("call")
    /\ chat' = FreshChat /\ fresh' = <<>>
    /\ \/ /\ ~NoSlot
          /\ OpenConn("irc")
          /\ Do(<<"wait_irc", "login">>)
       \/ /\ NoSlot
          /\ Fail
          /\ UNCHANGED netVars
    /\ UNCHANGED <<calls, pool, page, left, dns, asked>>

Notice(text) == << [k |-> text, r |-> conn["irc"].port, n |-> 0] >>

IrcLogin ==
    /\ At("login")
    /\ chat' = [enqueue_line(chat, Notice("connected")) EXCEPT !.active = TRUE]
    /\ fresh' = Append(fresh, Notice("connected"))
    /\ Do(<<>>)
    /\ UNCHANGED <<netVars, calls, pool, page, left, dns, asked>>

remember_channel(ch) ==
    IF \E i \in DOMAIN chat.chans : chat.chans[i][1] = ch \/ Len(chat.chans) >= IRC_MAX_CHANNELS
    THEN chat ELSE [chat EXCEPT !.chans = Append(@, <<ch, conn["irc"].port>>)]

forget_channel(ch) ==
    LET known == {i \in DOMAIN chat.chans : chat.chans[i][1] = ch}
    IN  IF known = {} THEN chat
        ELSE [chat EXCEPT !.chans = RemoveAt(@, LowestOf(known))]

IrcJoinPart ==
    /\ irc_is_connected
    /\ Command(<<>>)
    /\ \E ch \in Channels : chat' \in {remember_channel(ch), forget_channel(ch)}
    /\ UNCHANGED <<netVars, pool, page, left, fresh, dns, asked>>

(* irc_read takes the oldest line.                                         *)
IrcRead ==
    /\ Idle /\ chat.count > 0
    /\ chat' = [chat EXCEPT !.head = (@ + 1) % IRC_QUEUE_SIZE, !.count = @ - 1]
    /\ fresh' = SubSeq(fresh, Len(fresh) - chat'.count + 1, Len(fresh))
    /\ UNCHANGED <<netVars, script, calls, pool, page, left, dns, asked>>

(* irc_poll, called by the idle loop.                                      *)
Disconnected(c) == [enqueue_line(c, Notice("disconnected")) EXCEPT !.active = FALSE]

IrcPoll ==
    /\ Idle /\ chat.active
    /\ \/ /\ ~(conn["irc"].closed \/ conn["irc"].err)
          /\ conn["irc"].rx # <<>>
          /\ left' = conn["irc"].rx
          /\ script' = <<"irc">>
          /\ UNCHANGED <<chat, fresh>>
       \/ /\ conn["irc"].closed \/ conn["irc"].err
          /\ chat' = Disconnected(chat)
          /\ fresh' = Append(fresh, Notice("disconnected"))
          /\ UNCHANGED <<left, script>>
    /\ UNCHANGED <<netVars, calls, pool, page, dns, asked>>

(* process_rx_bytes, one token: a "half" begins a line, the others end     *)
(* one.  To answer a PING is to send, and to send is to poll.              *)
IrcToken ==
    /\ script = <<"irc">> /\ left # <<>>
    /\ left' = Tail(left)
    /\ LET line == Append(chat.parse, Head(left))
           parsed == [chat EXCEPT !.parse = <<>>]
       IN \/ /\ Head(left).k = "half"
             /\ chat' = [chat EXCEPT !.parse = line]
             /\ UNCHANGED <<conn, script, fresh>>
          \/ /\ Head(left).k # "half" /\ line[1].k = "ping"
             /\ chat' = parsed
             /\ script' = IF CanSend("irc") THEN <<"pong", "irc">> ELSE <<"irc">>
             /\ UNCHANGED <<conn, fresh>>
          \/ /\ Head(left).k # "half" /\ line[1].k # "ping"
             /\ chat' = enqueue_line(parsed, line)
             /\ fresh' = Append(fresh, line)
             /\ conn' = [conn EXCEPT !["irc"].closed = @ \/ line[1].k = "error"]
             /\ UNCHANGED script
    /\ UNCHANGED <<ring, gateway, nested, slots, port, peer, taken, calls, pool, page, dns, asked>>

PongSent ==
    /\ At("pong")
    /\ Do(<<>>)
    /\ UNCHANGED <<netVars, calls, clientVars>>

(* What came while lines were handled is dropped with them.                *)
IrcParsed ==
    /\ script = <<"irc">> /\ left = <<>>
    /\ script' = <<>>
    /\ conn' = [conn EXCEPT !["irc"].rx = <<>>]
    /\ \/ /\ conn["irc"].closed \/ conn["irc"].err
          /\ chat' = Disconnected(chat)
          /\ fresh' = Append(fresh, Notice("disconnected"))
       \/ /\ ~(conn["irc"].closed \/ conn["irc"].err)
          /\ UNCHANGED <<chat, fresh>>
    /\ UNCHANGED <<ring, gateway, nested, slots, port, peer, taken, calls,
                   pool, page, left, dns, asked>>

IrcServer ==
    LET p == conn["irc"].port IN
    /\ p # 0 /\ peer[p].st = "open" /\ ~peer[p].fin
    /\ Len(peer[p].sent) < MaxLines
    /\ \E k \in {"half", "line", "ping", "error"} :
          /\ peer[p].sent # <<>> /\ Last(peer[p].sent).k = "half" => k = "line"
          /\ peer' = [peer EXCEPT ![p].sent =
                        Append(@, [k |-> k, r |-> p, n |-> Len(@) + 1])]
    /\ UNCHANGED <<ring, gateway, nested, conn, slots, port, taken, script, calls, clientVars>>

-----------------------------------------------------------------------------
(* The wire carries frames while the thread runs a command.                *)
World ==
    \/ (Wire /\ UNCHANGED <<script, calls, clientVars>>)
    \/ ArpReply \/ DnsReply \/ IrcServer

Next ==
    \/ Poll \/ IdlePoll \/ World
    \/ net_resolve_gateway \/ dns_resolve \/ dns_wait
    \/ Connected \/ Closes
    \/ HttpGet \/ HttpPool \/ HttpRequest \/ HttpAnswer \/ HttpGivesUp \/ HttpReturns
    \/ IrcConnect \/ IrcQuit \/ QuitSent \/ Forget \/ IrcCalls \/ IrcLogin \/ IrcJoinPart
    \/ IrcRead \/ IrcPoll \/ IrcToken \/ PongSent \/ IrcParsed

Spec == Init /\ [][Next]_vars

-----------------------------------------------------------------------------
(* An HTTP page is made of one response, the one to its own request,       *)
(* though responses share a connection and a page may be cut off with the  *)
(* rest of it still to come; unless a request on this connection was       *)
(* given up, whose response may come later.  A name is resolved to its own *)
(* address, although answers to earlier queries come late and repeated.    *)
HttpAnswerIsOurs ==
    pool.active /\ ~pool.abandoned =>
        Len(page.got) <= page.cap /\ \A i \in DOMAIN page.got : page.got[i].r = page.r

DnsAnswerIsOurs == dns.done => dns.answer = dns.n

AnswersAreOurs == HttpAnswerIsOurs /\ DnsAnswerIsOurs

(* The kept-alive connection and the table agree: between commands the     *)
(* pool's connection has one slot, and none when the pool is empty.        *)
PoolOwnsSlot ==
    script = <<>> =>
        Cardinality({i \in DOMAIN slots : slots[i] = "http"}) = IF pool.active THEN 1 ELSE 0

(* The queue holds the newest lines that were not read, oldest first.      *)
QueueIsNewest ==
    LET n == LowestOf({IRC_QUEUE_SIZE, Len(fresh)})
    IN  /\ chat.count = n
        /\ \A i \in 1..n :
              chat.q[(chat.head + i - 1) % IRC_QUEUE_SIZE] = fresh[Len(fresh) - n + i]

(* No line and no channel of an earlier session is shown in this one, even *)
(* when the earlier one ended in the middle of a line.                     *)
LinesOfThisSession ==
    LET here == conn["irc"].port
    IN  /\ \A i \in DOMAIN fresh : \A j \in DOMAIN fresh[i] : fresh[i][j].r = here
        /\ \A j \in DOMAIN chat.parse : chat.parse[j].r = here
        /\ \A i \in DOMAIN chat.chans : chat.chans[i][2] = here
==============================================================================
