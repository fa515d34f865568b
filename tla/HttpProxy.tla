----------------------------- MODULE HttpProxy -----------------------------
(***************************************************************************)
(* src/proxy_server/http_proxy.c: one thread handles one client: receive   *)
(* the request, find the target in its URL, connect, forward the request,  *)
(* relay the response.                                                     *)
(*                                                                         *)
(* A request is a sequence of pieces, each a stretch of text that recv may *)
(* cut the request at: a prefix of the sequence is what one recv can       *)
(* return.  A response is a sequence of bytes, told apart by their         *)
(* positions.  An uninitialised array may hold any text.                   *)
(***************************************************************************)
EXTENDS Integers, Sequences, SequencesExt

CONSTANTS Requests,       \* the requests a client may send
          ResponseLength, \* how many bytes the target answers with
          BUFFER_SIZE,    \* how many of them a buffer holds
          MaxAddresses,   \* how many addresses getaddrinfo may find
          MaxInterrupts,  \* bound: how often a signal interrupts recv or send
          NONE            \* no value

\* The pieces of  METHOD http://host:port/path PROTOCOL headers ; the host name
\* has two pieces, because a cut may leave a different host name.
Host == {"ho", "st"}
Authority == Host \cup {":", "port"}
UrlPieces == {"http://", "https://", "/path"} \cup Authority
Order == <<"method", "http://", "https://", "ho", "st", ":", "port", "/path",
           "protocol", "headers">>
Pieces == UrlPieces \cup {"method", "protocol", "headers"}

\* A request is well formed: its pieces are in that order, so that a part of it is
\* given by which pieces it has; the URL has one scheme at most, a host name is
\* whole, and a port follows a colon and a host name.
WellFormed(r) ==
    /\ r = SelectSeq(Order, LAMBDA p : Contains(r, p))
    /\ \A p \in {"method", "protocol", "headers"} : Contains(r, p)
    /\ \E p \in UrlPieces : Contains(r, p)
    /\ ~(Contains(r, "http://") /\ Contains(r, "https://"))
    /\ Contains(r, "ho") <=> Contains(r, "st")
    /\ Contains(r, ":") <=> Contains(r, "port")
    /\ Contains(r, ":") => Contains(r, "st")

ASSUME HttpAssumption ==
    /\ \A r \in Requests : r \in Seq(Pieces) /\ Len(r) > 0 /\ WellFormed(r)
    /\ ResponseLength \in Nat
    /\ BUFFER_SIZE \in Nat \ {0}
    /\ MaxAddresses \in Nat \ {0}
    /\ MaxInterrupts \in Nat

VARIABLES pc,           \* where handle_client_request is
          request,      \* what the client sends
          buffer,       \* what recv returned of it
          target,       \* <<hostname, port>>, or NONE
          addresses,    \* how many addresses of res are left to try
          client_open,  \* the client's socket is open
          targets_open, \* how many sockets to targets are open
          forwarded,    \* what the target was sent, or NONE
          produced,     \* how many bytes the target has sent
          finished,     \* the target has closed its end
          chunk,        \* the bytes in forward_response's buffer
          received,     \* how many bytes recv has returned
          delivered,    \* the bytes sent to the client
          gone,         \* the client has closed its end
          error,        \* some call of the handler failed
          interrupts

vars == <<pc, request, buffer, target, addresses, client_open, targets_open,
          forwarded, produced, finished, chunk, received, delivered, gone,
          error, interrupts>>

frontVars == <<request, buffer, target, addresses>>
relayVars == <<chunk, received, delivered>>
sockets   == <<client_open, targets_open>>
outcome   == <<error, interrupts>>
peerVars  == <<produced, finished, gone>>

Labels == {"recv", "parse", "resolve", "connect", "forward", "relay_recv",
           "relay_send", "close_target", "close_client", "returned", "killed"}

Ended == pc \in {"returned", "killed"}

Init ==
    /\ pc = "recv"
    /\ request \in Requests
    /\ buffer = << >>
    /\ target = NONE
    /\ addresses = 0
    /\ client_open = TRUE
    /\ targets_open = 0
    /\ forwarded = NONE
    /\ produced = 0
    /\ finished = FALSE
    /\ chunk = << >>
    /\ received = 0
    /\ delivered = << >>
    /\ gone = FALSE
    /\ error = FALSE
    /\ interrupts = 0

Goto(from, to) == pc = from /\ pc' = to

Interrupt == interrupts < MaxInterrupts /\ interrupts' = interrupts + 1

----------------------------------------------------------------------------
(* receive_client_request *)

\* One recv: the whole request, or the part of it that has arrived.
receive_client_request ==
    /\ Goto("recv", "parse")
    /\ \E k \in 1..Len(request) : buffer' = SubSeq(request, 1, k)
    /\ UNCHANGED <<sockets, relayVars, peerVars, outcome, request, target,
                   addresses, forwarded>>

\* recv returns 0, because the client closed, or -1.
ReceiveFails ==
    /\ \/ gone /\ UNCHANGED interrupts
       \/ Interrupt
    /\ Goto("recv", "returned")
    /\ error' = TRUE
    /\ UNCHANGED <<frontVars, sockets, relayVars, peerVars, forwarded>>

----------------------------------------------------------------------------
(* parse_http_request *)

\* The URL in a text: what follows the method, up to the protocol, as the set of
\* its pieces.
Url(text) == {p \in UrlPieces : Contains(text, p)}

\* sscanf stores a URL only if there is one; otherwise the array is what it was.
UrlRead(text) == IF Url(text) # {} THEN {Url(text)}
                 ELSE {Url(r) : r \in Requests} \cup {{"/path"}}

IsHttp(url) == "http://" \in url
Default == "80"

\* Mutant: the port of the URL is overwritten by the default.
HostAndPortDefault(url) ==
    IF url \cap Host # {} /\ {":", "port"} \subseteq url
    THEN <<url \cap Host, Default>>
    ELSE <<url \cap Authority, Default>>

\* The two sscanf patterns: host:number, or else everything up to a slash.
HostAndPort(url) ==
    IF url \cap Host # {} /\ {":", "port"} \subseteq url
    THEN <<url \cap Host, "port">>
    ELSE <<url \cap Authority, Default>>

Parsed(url) == IsHttp(url) /\ HostAndPort(url)[1] # {}

parse_http_request ==
    /\ pc = "parse"
    /\ \E url \in UrlRead(buffer) :
          IF Parsed(url)
          THEN pc' = "resolve" /\ target' = HostAndPort(url) /\ UNCHANGED error
          ELSE pc' = "returned" /\ error' = TRUE /\ UNCHANGED target
    /\ UNCHANGED <<sockets, relayVars, peerVars, request, buffer, addresses,
                   forwarded, interrupts>>

----------------------------------------------------------------------------
(* connect_to_target_server *)

\* getaddrinfo fails, or finds some addresses.
Resolve ==
    /\ \/ /\ \E n \in 1..MaxAddresses : addresses' = n
          /\ Goto("resolve", "connect")
          /\ UNCHANGED error
       \/ /\ Goto("resolve", "returned")
          /\ error' = TRUE
          /\ UNCHANGED addresses
    /\ UNCHANGED <<sockets, relayVars, peerVars, request, buffer, target,
                   forwarded, interrupts>>

\* socket and connect succeed for the next address.
Connect ==
    /\ addresses > 0
    /\ Goto("connect", "forward")
    /\ targets_open' = targets_open + 1
    /\ UNCHANGED <<frontVars, relayVars, peerVars, outcome, client_open,
                   forwarded>>

\* Mutant: the socket of a failed connect stays open.
ConnectFailsLeaks ==
    /\ addresses > 0
    /\ Goto("connect", "connect")
    /\ addresses' = addresses - 1
    /\ targets_open' \in {targets_open, targets_open + 1}
    /\ UNCHANGED <<relayVars, peerVars, outcome, request, buffer, target,
                   client_open, forwarded>>

\* socket fails, or connect fails and the socket is closed again: next address.
ConnectFails ==
    /\ addresses > 0
    /\ Goto("connect", "connect")
    /\ addresses' = addresses - 1
    /\ UNCHANGED <<sockets, relayVars, peerVars, outcome, request, buffer,
                   target, forwarded>>

NoAddressLeft ==
    /\ addresses = 0
    /\ Goto("connect", "returned")
    /\ error' = TRUE
    /\ UNCHANGED <<frontVars, sockets, relayVars, peerVars, forwarded,
                   interrupts>>

connect_to_target_server == Resolve \/ Connect \/ ConnectFails \/ NoAddressLeft

----------------------------------------------------------------------------
(* forward_request *)

\* A piece that may be missing from a text.
Found(text, p) == IF Contains(text, p) THEN <<p>> ELSE << >>

\* Mutant: the URL is forwarded as the client sent it.
RewrittenNot(text, url) == text

\* The rewritten request: the path in place of the URL, a slash if it has none,
\* and for a missing protocol whatever the array held.
Rewritten(text, url) ==
    Found(text, "method")
    \o <<IF "/path" \in url THEN "/path" ELSE "/",
         IF Contains(text, "protocol") THEN "protocol" ELSE "garbage">>
    \o Found(text, "headers")

\* NONE is no text that the proxy may forward, nor a part of one.
ASSUME NoneAssumption ==
    \A r \in Requests : \A k \in 1..Len(r) : \A url \in UrlRead(SubSeq(r, 1, k)) :
        LET text == Rewritten(SubSeq(r, 1, k), url)
        IN  text # NONE /\ \A j \in 1..(Len(text) - 1) : SubSeq(text, 1, j) # NONE

\* The URL is read again.  send's result is looked at only for its message: when
\* a signal interrupts it, it has sent nothing, or a part that nobody completes.
forward_request ==
    /\ Goto("forward", "relay_recv")
    /\ \E url \in UrlRead(buffer) :
          IF IsHttp(url)
          THEN \/ forwarded' = Rewritten(buffer, url) /\ UNCHANGED <<error, interrupts>>
               \/ Interrupt /\ error' = TRUE /\ UNCHANGED forwarded
               \/ /\ Interrupt /\ UNCHANGED error
                  /\ \E k \in 1..(Len(Rewritten(buffer, url)) - 1) :
                        forwarded' = SubSeq(Rewritten(buffer, url), 1, k)
          ELSE error' = TRUE /\ UNCHANGED <<forwarded, interrupts>>
    /\ UNCHANGED <<frontVars, sockets, relayVars, peerVars>>

----------------------------------------------------------------------------
(* forward_response *)

\* recv returns between 1 and BUFFER_SIZE of the bytes that are there.
RelayReceive ==
    /\ Goto("relay_recv", "relay_send")
    /\ \E k \in 1..BUFFER_SIZE :
          /\ received + k <= produced
          /\ chunk' = [j \in 1..k |-> received + j]
          /\ received' = received + k
    /\ UNCHANGED <<frontVars, sockets, peerVars, outcome, forwarded, delivered>>

\* Mutant: the loop goes on while recv returns at least 0.
RelayEndIgnored ==
    /\ finished
    /\ received = produced
    /\ Goto("relay_recv", "relay_send")
    /\ UNCHANGED <<frontVars, sockets, relayVars, peerVars, outcome, forwarded>>

\* recv returns 0: the target has closed and everything was read.
RelayEnd ==
    /\ finished
    /\ received = produced
    /\ Goto("relay_recv", "close_target")
    /\ UNCHANGED <<frontVars, sockets, relayVars, peerVars, outcome, forwarded>>

RelayReceiveFails ==
    /\ Interrupt
    /\ Goto("relay_recv", "close_target")
    /\ error' = TRUE
    /\ UNCHANGED <<frontVars, sockets, relayVars, peerVars, forwarded>>

\* Mutant: send is given the whole buffer instead of bytes_received bytes.
RelaySendWholeBuffer ==
    /\ Goto("relay_send", "relay_recv")
    /\ delivered' = delivered \o chunk
                       \o [j \in 1..(BUFFER_SIZE - Len(chunk)) |-> 0]
    /\ chunk' = << >>
    /\ UNCHANGED <<frontVars, sockets, peerVars, outcome, forwarded, received>>

\* send accepts the whole chunk, also on the first call after the client has
\* closed.
RelaySend ==
    /\ Goto("relay_send", "relay_recv")
    /\ delivered' = delivered \o chunk
    /\ chunk' = << >>
    /\ UNCHANGED <<frontVars, sockets, peerVars, outcome, forwarded, received>>

\* A signal interrupts send: after some bytes it returns their number, and the
\* code takes that for success; before the first it returns -1.
RelaySendShort ==
    /\ Interrupt
    /\ Goto("relay_send", "relay_recv")
    /\ \E k \in 1..(Len(chunk) - 1) : delivered' = delivered \o SubSeq(chunk, 1, k)
    /\ chunk' = << >>
    /\ UNCHANGED <<frontVars, sockets, peerVars, forwarded, received, error>>

RelaySendFails ==
    /\ \/ Interrupt
       \/ gone /\ UNCHANGED interrupts
    /\ Goto("relay_send", "close_target")
    /\ chunk' = << >>
    /\ error' = TRUE
    /\ UNCHANGED <<frontVars, sockets, peerVars, forwarded, received, delivered>>

\* The client's end is closed and send has no MSG_NOSIGNAL: SIGPIPE ends the
\* whole process.
RelaySendKilled ==
    /\ gone
    /\ Goto("relay_send", "killed")
    /\ UNCHANGED <<frontVars, sockets, relayVars, peerVars, outcome, forwarded>>

forward_response ==
    \/ RelayReceive \/ RelayEnd \/ RelayReceiveFails
    \/ RelaySend \/ RelaySendShort \/ RelaySendFails \/ RelaySendKilled

----------------------------------------------------------------------------
CloseTarget ==
    /\ Goto("close_target", "close_client")
    /\ targets_open' = targets_open - 1
    /\ UNCHANGED <<frontVars, relayVars, peerVars, outcome, client_open,
                   forwarded>>

CloseClient ==
    /\ Goto("close_client", "returned")
    /\ client_open' = FALSE
    /\ UNCHANGED <<frontVars, relayVars, peerVars, outcome, targets_open,
                   forwarded>>

handle_client_request ==
    \/ receive_client_request \/ ReceiveFails
    \/ parse_http_request
    \/ connect_to_target_server
    \/ forward_request
    \/ forward_response
    \/ CloseTarget \/ CloseClient

----------------------------------------------------------------------------
(* The peers *)

\* A request the target can answer: the header block has arrived.
Complete == forwarded # NONE /\ Contains(forwarded, "headers")

TargetSends ==
    /\ pc \in {"relay_recv", "relay_send"}
    /\ Complete /\ ~finished /\ produced < ResponseLength
    /\ produced' = produced + 1
    /\ UNCHANGED <<frontVars, sockets, relayVars, outcome, pc, forwarded,
                   finished, gone>>

\* The target closes after its response; it also closes a connection that stays
\* silent, but it waits for the rest of a request that has begun.
TargetCloses ==
    /\ pc \in {"relay_recv", "relay_send"}
    /\ ~finished
    /\ produced = ResponseLength \/ forwarded = NONE
    /\ finished' = TRUE
    /\ UNCHANGED <<frontVars, sockets, relayVars, outcome, pc, forwarded,
                   produced, gone>>

ClientCloses ==
    /\ ~gone /\ ~Ended
    /\ gone' = TRUE
    /\ UNCHANGED <<frontVars, sockets, relayVars, outcome, pc, forwarded,
                   produced, finished>>

Next == handle_client_request \/ TargetSends \/ TargetCloses \/ ClientCloses

\* No call of the handler has a timeout: recv waits until the client sends or
\* closes, send until it reads or closes, the relay's recv until the target sends
\* or closes.
Waiting ==
    \/ pc \in {"recv", "relay_send"} /\ ~gone
    \/ pc = "relay_recv" /\ ~finished /\ received = produced

\* The handler's thread keeps running unless it waits.  The peers may stay silent
\* for ever.
Spec == Init /\ [][Next]_vars /\ WF_vars(~Waiting /\ handle_client_request)

----------------------------------------------------------------------------
(* Properties *)

Bytes(n) == [j \in 1..n |-> j]

TypeOK ==
    /\ pc \in Labels
    /\ request \in Requests
    /\ buffer \in Seq(Pieces)
    /\ addresses \in 0..MaxAddresses
    /\ targets_open \in Nat
    /\ produced \in 0..ResponseLength
    /\ received \in 0..produced
    /\ chunk \in Seq(Nat) /\ Len(chunk) <= BUFFER_SIZE
    /\ delivered \in Seq(Nat)
    /\ client_open \in BOOLEAN /\ finished \in BOOLEAN
    /\ gone \in BOOLEAN /\ error \in BOOLEAN
    /\ interrupts \in 0..MaxInterrupts

\* Every socket that connect_to_target_server opened is closed when the handler
\* returns, however many addresses failed and whatever path it took; the client's
\* is left open exactly if no target was connected to, which is what the three
\* early returns of handle_client_request have in common.
SocketsAtReturn ==
    pc = "returned" => targets_open = 0 /\ (client_open <=> addresses = 0)

\* The client gets bytes of the target's response in their order, none twice and
\* none that recv did not return, whatever is interrupted.  Without interrupted
\* calls it gets them without a gap, and when the handler closes a connection on
\* which nothing failed it has got them all.
ResponseIntact ==
    /\ \A j \in 1..Len(delivered) : delivered[j] \in 1..received
    /\ \A j \in 2..Len(delivered) : delivered[j - 1] < delivered[j]
    /\ interrupts = 0 =>
          /\ delivered = Bytes(Len(delivered))
          /\ pc \in {"close_target", "close_client"} /\ ~error
                => Len(delivered) = ResponseLength

\* If recv returned the whole request, the proxy connects to the host and the
\* port that the URL names, port 80 if it names none, whatever the shape of the
\* URL, and to nobody if it names no host or is no http URL.
NamedTarget ==
    target # NONE =>
        /\ target[1] \subseteq Authority /\ target[2] \in {"port", Default}
        /\ buffer = request =>
              /\ target[1] = {"ho", "st"} /\ Contains(request, "http://")
              /\ Contains(request, "st")
              /\ target[2] = IF Contains(request, "port") THEN "port" ELSE Default

\* The peers do their part: the client sends and reads, and a target that has a
\* whole header block answers and closes.
PeersAct ==
    /\ WF_vars(receive_client_request) /\ WF_vars(RelaySend)
    /\ WF_vars(TargetSends \/ TargetCloses)

\* The handler returns, SIGPIPE kills the process, which needs a client that has
\* closed its connection, or one of its three calls without a timeout waits for a
\* peer for ever (http_proxy.c:114, :197, :198): it never loops.  If the peers do
\* their part it can be left waiting in one place only, for the answer to a request
\* of which it has sent a part.
HandlerEnds ==
    /\ <>(pc = "returned" \/ (pc = "killed" /\ gone)) \/ <>[]Waiting
    /\ PeersAct => <>(Ended \/ (pc = "relay_recv" /\ forwarded # NONE /\ ~Complete))

\* What the target is sent: of a request that recv returned whole, the method,
\* the path or a slash, the protocol and the headers, nothing of the scheme, the
\* host or the port and nothing uninitialised; all of it, or the beginning that an
\* interrupted send let through.  Of a request that arrived in parts, no piece but
\* those of the first part.
OriginForm(r) == <<"method", IF Contains(r, "/path") THEN "/path" ELSE "/",
                   "protocol", "headers">>
ForwardsPath ==
    forwarded # NONE =>
        /\ buffer = request =>
              /\ \E k \in 1..4 : forwarded = SubSeq(OriginForm(request), 1, k)
              /\ interrupts = 0 => forwarded = OriginForm(request)
        /\ \A p \in {"method", "headers"} : Contains(forwarded, p) => Contains(buffer, p)

\* Where the handler is, and what it holds there: the buffer a part of the
\* request, one socket to a target from connect to close, an address left over
\* from the moment one was connected to, the client's socket until the end.
Connected == {"forward", "relay_recv", "relay_send", "close_target", "killed"}

SocketsKept ==
    /\ buffer = << >> \/ \E k \in 1..Len(request) : buffer = SubSeq(request, 1, k)
    /\ buffer = << >> => pc \in {"recv", "returned"}
    /\ targets_open = IF pc \in Connected THEN 1 ELSE 0
    /\ client_open <=> ~(pc = "returned" /\ addresses > 0)
    /\ pc \in {"recv", "parse", "resolve"} => addresses = 0
    /\ pc \in Connected \cup {"close_client"} => addresses > 0

\* The relay's bookkeeping: its buffer holds the last bytes received, and what
\* the client got comes before them; all of it, unless a call was interrupted
\* or the relay was given up.  It ends without an error only when the target
\* has closed and every byte was read, and the target closes early only on a
\* handler that has seen an error.
RelayBytes ==
    /\ Len(chunk) <= received
    /\ \A j \in 1..Len(chunk) : chunk[j] = received - Len(chunk) + j
    /\ chunk # << >> => pc \in {"relay_send", "killed"}
    /\ \A j \in 1..Len(delivered) : delivered[j] \in 1..(received - Len(chunk))
    /\ \A j, k \in 1..Len(delivered) : j < k => delivered[j] < delivered[k]
    /\ interrupts = 0 => \A j \in 1..Len(delivered) : delivered[j] = j

RelayWhole == interrupts = 0 => Len(delivered) = received - Len(chunk)

RelayEnds ==
    /\ RelayWhole \/ (error /\ pc \in {"close_target", "close_client", "returned"})
    /\ finished => produced = ResponseLength \/ forwarded = NONE
    /\ finished => pc \notin {"recv", "parse", "resolve", "connect", "forward"}
    /\ pc \in {"relay_recv", "relay_send", "close_target", "close_client"}
          /\ forwarded = NONE => error
    /\ pc \in {"close_target", "close_client"} /\ ~error
          => finished /\ received = produced

RelayKept == RelayBytes /\ RelayEnds

\* Sockets: none to a target is left open when the handler returns, and the
\* client's only if no target was connected to; with what this takes at every
\* step before.
HandlerInv == TypeOK /\ SocketsAtReturn /\ SocketsKept /\ RelayKept

\* The request reaches the target its URL names, with the path it names.
RequestIntact == NamedTarget /\ ForwardsPath
=============================================================================
