----------------------------- MODULE LegacyTcp -----------------------------
(***************************************************************************)
(* The network clients of lib.rs that do not go through fetch: one request *)
(* each on the one TCP_CONNECTION, by polling.  They share the connection  *)
(* set-up and differ in how they wait for the answer and what they make of *)
(* it:                                                                     *)
(*                                                                         *)
(*   get       send_get, the browser's page (and send_get_auth)            *)
(*   chat      chat_request, with retries                                  *)
(*   discord   discord_request, with retries and a rate limit              *)
(*   download  parse_and_download                                          *)
(*   api       http_send, by tcp_receive_data                              *)
(*   ntfy      rust_ntfy_post_complete, with a handshake of its own        *)
(*   dns       dns_query                                                   *)
(*   ping      rust_ping                                                   *)
(*                                                                         *)
(* The peers and the network are external: what a peer has sent for a      *)
(* connection may arrive late, repeatedly, in any order or never, and      *)
(* other traffic with it.  The card is the queue of Nic.  A frame is what  *)
(* the receive loops look at; a loop copies bytes without regard to        *)
(* sequence numbers, to the frame's own length or to where one frame ends  *)
(* and the next begins, so the bytes received are a sequence of frames.    *)
(* A loop ends at a limit, and a limit may pass at any moment (late,       *)
(* quiet).  Most are counts of the loop's turns; the two that go by the    *)
(* clock need not pass, because the clock stands still while a command     *)
(* runs with interrupts off.                                               *)
(***************************************************************************)
EXTENDS Naturals, Sequences, SequencesExt, FiniteSetsExt

CONSTANTS
    Clients,       \* the kinds of request the user makes
    Retry,         \* the retry argument of chat_request and discord_request
    NumPorts,      \* the range of local ports
    PORT_TRIES,    \* attempts of get_unique_port
    PING_COUNT,    \* echo requests of one ping
    RingFrames,    \* frames the card can hold
    ResponseFrames,\* frames RX_RESPONSE_BUFFER holds
    HttpFrames,    \* frames' worth of HTTP_RECEIVE_BUFFER
    UsedBefore,    \* sets of port slots that earlier commands may have used
    MaxRequests,   \* bound on requests made
    MaxArrivals    \* bound on frames off the wire

ASSUME LegacyAssumption ==
    /\ Clients \subseteq {"get", "chat", "discord", "download", "api", "ntfy", "dns", "ping"}
    /\ NumPorts \in Nat \ {0} /\ PORT_TRIES \in Nat
    /\ ResponseFrames \in Nat \ {0} /\ HttpFrames \in Nat \ {0}
    /\ \A ports \in UsedBefore : 2 \in ports   \* get_unique_port gave the page's

VARIABLES
    client,    \* the request being made
    at,        \* where it is
    attempt,   \* the retry loop's counter
    tcp,       \* TCP_CONNECTION: [state, port]
    cid,       \* the exchange it belongs to: an index of peer (0 at first)
    ring,      \* frames in the card's ring
    rx,        \* RX_RESPONSE_BUFFER
    http,      \* HTTP_RECEIVE_BUFFER up to HTTP_RECEIVE_LEN
    fresh,     \* frames of http received by this request
    line,      \* the status in bytes 9..11 of HTTP_RECEIVE_BUFFER, or "none"
    late,      \* the hard limit has passed
    quiet,     \* the idle limit has passed since the last data
    outcome,   \* what the last request returned
    last_port, \* LAST_USED_PORT
    in_use,    \* port slots used in the last 3000 ticks
    rl,        \* DISCORD_RL_REMAINING, as "some" or "none"
    peer,      \* for every exchange on the wire, what the peer did
    requests,  \* how many requests were made
    arrivals   \* how many frames came off the wire

cardVars == <<ring, arrivals>>
portVars == <<last_port, in_use>>
loopVars == <<rx, http, fresh, line, late, quiet>>
legacyVars == <<client, at, attempt, tcp, cid, cardVars, loopVars, outcome,
                portVars, rl, peer, requests>>

Tcps    == {"get", "chat", "discord", "download", "api"}
Retried == {"chat", "discord"}

\* A frame off the wire: for which exchange, and what it carries.  seg 1 is a
\* reply's status line and headers, seg 2 its body.  A frame without data is
\* padded to the minimum, and the padding is copied as if it were data.
OnWire(c, what, seg) == [cid |-> c, what |-> what, seg |-> seg]
Foreign == OnWire(0, "other", 0)

\* How a reply says where it ends (a length after a blank or without one,
\* chunks, or only the end of the connection), and its status: 2xx, 429, another
\* 4xx, 5xx.  Each as far as the client tells them apart.
Forms(k)    == {"close"} \cup CASE k = "get" -> {"chunked", "tight"}
                               [] k = "api" -> {}
                               [] OTHER -> {"spaced"}
Statuses(k) == {"ok"} \cup CASE k = "discord" -> {"limited", "refused", "failed"}
                             [] k = "chat" -> {"failed"}
                             [] OTHER -> {}
Lines == {"none", "ok", "limited", "refused", "failed"}

\* What the peer of exchange c may have put on the wire by now.
SentBy(c) ==
    LET p == peer[c]
    IN  CASE p.did = "nothing" -> {}
          [] p.did = "refused" -> {OnWire(c, "rst", 0)}
          [] p.did = "accepted" -> {OnWire(c, "synack", 0)}
          [] p.did = "answered" -> {OnWire(c, p.client, 0)}
          [] p.did = "served" -> {OnWire(c, "synack", 0), OnWire(c, "data", 1),
                                  OnWire(c, "data", 2), OnWire(c, "fin", 0)}

Closed == [state |-> "Closed", port |-> 0]

\* An exchange on the wire.
Exchange(k, port) == [client |-> k, port |-> port, did |-> "nothing",
                      asked |-> FALSE, form |-> "close", status |-> "ok"]

\* A page was fetched before with send_get, which leaves its connection open and
\* its answer in HTTP_RECEIVE_BUFFER; its peer may repeat what it sent.
LegacyInit ==
    /\ client = "get" /\ at = "idle" /\ attempt = 0 /\ outcome = "ok"
    /\ last_port = 2 /\ in_use \in UsedBefore
    /\ tcp = [state |-> "Established", port |-> last_port] /\ cid = 1
    /\ peer = <<[Exchange("get", last_port) EXCEPT !.did = "served", !.asked = TRUE]>>
    /\ ring = <<>> /\ rx = <<>> /\ fresh = 2 /\ line = "ok"
    /\ http = <<OnWire(1, "data", 1), OnWire(1, "data", 2)>>
    /\ late = FALSE /\ quiet = FALSE
    /\ rl = "some" /\ requests = 0 /\ arrivals = 0

-----------------------------------------------------------------------------
(* The wire (external).                                                    *)

peer_accepts(c) ==
    /\ peer[c].did = "nothing" /\ peer[c].client \notin {"dns", "ping"}
    /\ \E what \in {"accepted", "refused"} : peer' = [peer EXCEPT ![c].did = what]
    /\ UNCHANGED <<client, at, attempt, tcp, cid, cardVars, loopVars, outcome,
                   portVars, rl, requests>>

peer_serves(c) ==
    /\ \/ /\ peer[c].did = "accepted" /\ peer[c].asked
          /\ \E f \in Forms(peer[c].client), s \in Statuses(peer[c].client) :
               peer' = [peer EXCEPT ![c].did = "served", ![c].form = f,
                                    ![c].status = s]
       \/ /\ peer[c].did = "nothing" /\ peer[c].client \in {"dns", "ping"}
          /\ peer' = [peer EXCEPT ![c].did = "answered"]
    /\ UNCHANGED <<client, at, attempt, tcp, cid, cardVars, loopVars, outcome,
                   portVars, rl, requests>>

frame_arrives ==
    /\ arrivals < MaxArrivals /\ Len(ring) < RingFrames
    /\ \E f \in {Foreign} \cup UNION {SentBy(c) : c \in DOMAIN peer} :
         ring' = Append(ring, f)
    /\ arrivals' = arrivals + 1
    /\ UNCHANGED <<client, at, attempt, tcp, cid, peer, loopVars, outcome,
                   portVars, rl, requests>>

-----------------------------------------------------------------------------
(* Helpers of the clients.                                                 *)

\* rust_rtl8139_receive and rtl8139_receive_one: frames that do not fit in the
\* buffer are taken off the ring and lost.
Received(n) == rx \o SubSeq(ring, 1, Min({n, ResponseFrames - Len(rx)}))

\* get_unique_port.  A slot stays in use: nothing here lasts 3000 ticks.
PortAfter(n) == 1 + ((last_port - 1 + n) % NumPorts)
get_unique_port ==
    LET unused == {n \in 1 .. PORT_TRIES : PortAfter(n) \notin in_use}
    IN  PortAfter(IF unused # {} THEN Min(unused) ELSE PORT_TRIES + 1)

\* The peer's port and ours in the frame's header (fetch::native::tcp_packet
\* also compares the addresses).  Only the first frame of a batch is looked at.
\* Mutant: any TCP frame will do.
Ours_any(f) == f.cid # 0 /\ tcp.port > 0
Ours(f) == f.cid # 0 /\ peer[f.cid].port = tcp.port

HeadAt(s) == {i \in DOMAIN s : s[i].seg = 1}
FormOf(s) == peer[s[Min(HeadAt(s))].cid].form

\* The end of the headers is found, and after it as much as they announce.
\* send_get reads a length only when no blank precedes it, and finds the last
\* chunk; the others know a length with a blank and nothing of chunks.
\* n is how much was received: all of s, except that parse_and_download counts
\* from where this request started.
Announced(s) == /\ HeadAt(s) # {}
                /\ FormOf(s) = IF client = "get" THEN "tight" ELSE "spaced"
Complete(s, n) ==
    \/ Announced(s) /\ n > Min(HeadAt(s))
    \/ /\ client = "get" /\ HeadAt(s) # {} /\ FormOf(s) = "chunked"
       /\ \E i \in DOMAIN s : i > Min(HeadAt(s)) /\ s[i].seg = 2

-----------------------------------------------------------------------------
(* Starting, retrying and ending a request.                                *)

Resets == /\ tcp' = Closed /\ rx' = <<>>         \* tcp_reset_state

Ends(what) == /\ at' = "idle" /\ outcome' = what
              /\ UNCHANGED <<client, attempt, rl>>

\* continue in the retry loop; a client without one gives up.
GivesUpOrRetries ==
    IF client \in Retried /\ attempt < Retry
    THEN /\ at' = "connect" /\ attempt' = attempt + 1 /\ UNCHANGED <<client, outcome>>
    ELSE /\ at' = "idle" /\ outcome' = "fail" /\ UNCHANGED <<client, attempt>>

\* The user's command.  discord_wait_rate_limit waits a limit out first.
request(k) ==
    /\ at = "idle" /\ requests < MaxRequests
    /\ client' = k /\ at' = "connect" /\ attempt' = 0 /\ outcome' = "none"
    /\ requests' = requests + 1
    /\ rl' = IF k = "discord" THEN "some" ELSE rl
    /\ fresh' = 0
    /\ UNCHANGED <<tcp, cid, cardVars, rx, http, line, late, quiet, portVars, peer>>

\* tcp_connect_timeout up to the SYN: state reset, a port, the ring drained.
tcp_connect ==
    /\ at = "connect" /\ client \in Tcps
    /\ ring' = <<>> /\ rx' = <<>>
    /\ last_port' = get_unique_port
    /\ in_use' = in_use \cup {get_unique_port}
    /\ late' = FALSE /\ quiet' = FALSE
    /\ \/ /\ tcp' = [state |-> "SynSent", port |-> get_unique_port]
          /\ peer' = Append(peer, Exchange(client, get_unique_port))
          /\ cid' = Len(peer) + 1
          /\ at' = "syn"
          /\ UNCHANGED <<client, attempt, outcome>>
       \/ /\ tcp' = [state |-> "Closed", port |-> get_unique_port]
          /\ GivesUpOrRetries                       \* the SYN was not sent
          /\ UNCHANGED <<peer, cid>>
    /\ UNCHANGED <<http, fresh, line, rl, requests, arrivals>>

\* The SYN-ACK is from the peer's port to ours and acknowledges this SYN.
\* Mutant: the flags are enough, as they are for rust_ntfy_post_complete.
Opens_flags(f) == f.what = "synack"
Opens(f) == f.what = "synack" /\ Ours(f) /\ f.cid = cid

\* One turn of the 'synack loop, one frame at a time.
syn_waits ==
    /\ at = "syn" /\ client \in Tcps /\ ~late /\ ring # <<>>
    /\ ring' = Tail(ring) /\ rx' = <<>>
    /\ LET f == Head(ring)
       IN  CASE Ours(f) /\ f.what = "rst" ->
                  /\ tcp' = [tcp EXCEPT !.state = "Closed"]
                  /\ GivesUpOrRetries
             [] Opens(f) ->
                  /\ tcp' = [tcp EXCEPT !.state = "Established"]
                  /\ at' = "send" /\ UNCHANGED <<client, attempt, outcome>>
             [] OTHER -> UNCHANGED <<tcp, at, client, attempt, outcome>>
    /\ UNCHANGED <<cid, http, fresh, line, late, quiet, portVars, rl, peer, requests,
                   arrivals>>

syn_timeout ==
    /\ at = "syn" /\ client \in Tcps /\ late
    /\ tcp' = [tcp EXCEPT !.state = "Closed"]
    /\ GivesUpOrRetries
    /\ UNCHANGED <<cid, cardVars, loopVars, portVars, rl, peer, requests>>

\* tcp_send_data, and what is reset before the answer is waited for: the chat
\* clients throw away whatever has come in the meantime, and only the download
\* goes on from where HTTP_RECEIVE_LEN stands.
\* Mutant: no client starts from an empty buffer.
HttpAtStart_kept == http
HttpAtStart == IF client = "download" THEN http ELSE <<>>

tcp_send_data ==
    /\ at = "send" /\ client \in Tcps
    /\ \/ /\ peer' = [peer EXCEPT ![cid].asked = TRUE]
          /\ at' = "recv"
          /\ http' = HttpAtStart /\ fresh' = 0 /\ rx' = <<>>
          /\ ring' = IF client \in Retried THEN <<>> ELSE ring
          /\ late' = FALSE /\ quiet' = FALSE
          /\ UNCHANGED <<tcp, client, attempt, outcome>>
       \/ /\ Resets /\ GivesUpOrRetries             \* send failed: tcp_close
          /\ UNCHANGED <<peer, http, fresh, ring, late, quiet>>
    /\ UNCHANGED <<cid, line, portVars, rl, requests, arrivals>>

-----------------------------------------------------------------------------
(* The receive loops.                                                      *)

\* One turn that finds frames: the whole batch is appended when the first frame
\* is ours.  tcp_receive_data drops a batch that does not fit.
Appended(batch) ==
    LET room == HttpFrames - Len(http)
    IN  IF client = "api"
        THEN IF Len(batch) < room THEN http \o batch ELSE http
        ELSE http \o SubSeq(batch, 1, Min({Len(batch), room}))

Fin(f) == f.what = "fin"
Batch  == Received(Len(ring))
All    == Appended(Batch)
Count  == fresh + Len(All) - Len(http)

\* A poll that finds frames.
Polled ==
    /\ at = "recv" /\ ~late /\ ring # <<>>
    /\ ring' = <<>>
    /\ UNCHANGED <<client, attempt, cid, late, outcome, portVars, rl, peer, requests,
                   arrivals>>

\* What bytes 9..11 of the buffer hold after a batch is appended: a status line's
\* status only if the line starts the buffer, anything at all under a body, and
\* what an earlier answer left there under a frame without data that is all
\* there is (6 bytes of padding after a SYN-ACK's option; 10 after a bare header,
\* the last of them a byte of the checksum).
AllPadding(s) == Len(s) = 1 /\ s[1].seg = 0
Short(s)      == AllPadding(s) /\ s[1].what = "synack"

LineAfter(batch) ==
    CASE batch[1].seg = 2                         -> Lines
      [] http = <<>> /\ batch[1].seg = 1          -> {peer[batch[1].cid].status}
      [] http = <<>> /\ Short(batch)              -> {line}
      [] http = <<>> /\ AllPadding(batch) /\ line # "none" -> Lines
      [] OTHER                                    -> {"none"}

\* A batch of ours is taken; a FIN, or what the client takes for the end, ends
\* the loop.
Takes(is_complete) ==
    IF Ours(Head(Batch))
    THEN /\ http' = All /\ fresh' = Count /\ quiet' = FALSE
         /\ IF All # http /\ (http = <<>> \/ Short(http))
            THEN line' \in LineAfter(Batch) ELSE UNCHANGED line
         /\ at' = IF Fin(Head(Batch)) \/ is_complete THEN "close" ELSE "recv"
    ELSE UNCHANGED <<http, fresh, line, quiet, at>>

send_get_receives ==
    /\ client = "get" /\ Polled
    /\ Takes(Complete(All, Count)) /\ rx' = <<>> /\ UNCHANGED tcp

download_receives ==
    /\ client = "download" /\ Polled
    /\ Takes(Complete(All, Count)) /\ rx' = <<>> /\ UNCHANGED tcp

\* These two look at what they have before they poll.
MayPoll == ~(http # <<>> /\ quiet) /\ ~Complete(http, Len(http))

chat_receives ==
    /\ client = "chat" /\ MayPoll /\ Polled
    /\ Takes(FALSE) /\ rx' = <<>> /\ UNCHANGED tcp

discord_receives ==
    /\ client = "discord" /\ MayPoll /\ Polled
    /\ Takes(FALSE) /\ rx' = <<>> /\ UNCHANGED tcp

\* A FIN is acknowledged and closes the connection, without the frame's removal.
tcp_receive_data ==
    /\ client = "api" /\ Polled /\ Takes(FALSE)
    /\ IF Ours(Head(Batch)) /\ Fin(Head(Batch))
       THEN tcp' = [tcp EXCEPT !.state = "Closed"] /\ rx' = Batch
       ELSE rx' = <<>> /\ UNCHANGED tcp

\* The ends of the loops other than a frame.
\* Mutant: the download's loop has no limit of its own.
HardLimit_kept == late /\ client # "download"
HardLimit == late

IdleLimit ==
    CASE client \in Retried   -> quiet /\ http # <<>>
      [] client = "get"       -> quiet
      [] client = "download"  -> /\ quiet /\ fresh > 0
                                 /\ Announced(http) => Complete(http, fresh)
      [] OTHER                -> FALSE

receive_ends ==
    /\ at = "recv" /\ client \in Tcps
    /\ \/ HardLimit \/ IdleLimit
       \/ client \in Retried /\ Complete(http, Len(http))
    /\ at' = IF HardLimit /\ client = "download" THEN "abort" ELSE "close"
    /\ UNCHANGED <<client, attempt, tcp, cid, cardVars, loopVars, outcome,
                   portVars, rl, peer, requests>>

\* The download's idle clock starts again while a length is not reached.
download_waits_on ==
    /\ at = "recv" /\ client = "download" /\ quiet /\ ~IdleLimit /\ ~late
    /\ quiet' = FALSE
    /\ UNCHANGED <<client, at, attempt, tcp, cid, cardVars, rx, http, fresh, line, late,
                   outcome, portVars, rl, peer, requests>>

-----------------------------------------------------------------------------
(* What a client makes of the answer.                                      *)

\* There is something behind the end of the headers.
HasBody(s)  == HeadAt(s) # {} /\ Min(HeadAt(s)) < Len(s)

\* tcp_close unless the client is send_get, which leaves the connection open.
CloseUnlessGet == IF client = "get" \/ tcp.state = "Closed"
                  THEN UNCHANGED <<tcp, rx>> ELSE Resets

get_returns ==
    /\ at = "close" /\ client = "get"
    /\ CloseUnlessGet
    /\ Ends(IF http = <<>> THEN "fail" ELSE "ok")
    /\ UNCHANGED <<cid, cardVars, http, fresh, line, late, quiet, portVars, peer, requests>>

api_returns ==
    /\ at = "close" /\ client = "api"
    /\ CloseUnlessGet
    /\ Ends(IF http = <<>> THEN "fail" ELSE "ok")
    /\ UNCHANGED <<cid, cardVars, http, fresh, line, late, quiet, portVars, peer, requests>>

\* Without headers chat_request takes the body to start at 0.  It reads the three
\* bytes of the status however little it received; discord_request wants a body,
\* and with it more bytes than those.
chat_returns ==
    /\ at = "close" /\ client = "chat"
    /\ CloseUnlessGet
    /\ IF /\ http # <<>> /\ (HeadAt(http) # {} => HasBody(http))
          /\ line = "ok"
       THEN Ends("ok") ELSE GivesUpOrRetries /\ UNCHANGED rl
    /\ UNCHANGED <<cid, cardVars, http, fresh, line, late, quiet, portVars, peer, requests>>

discord_returns ==
    /\ at = "close" /\ client = "discord"
    /\ CloseUnlessGet
    /\ LET s == IF HasBody(http) THEN line ELSE "none"
       IN  CASE s = "ok"      -> Ends("ok")
             [] s = "refused" -> Ends("refused")
             [] s = "limited" -> rl' = "none" /\ GivesUpOrRetries
             [] OTHER         -> GivesUpOrRetries /\ UNCHANGED rl
    /\ UNCHANGED <<cid, cardVars, http, fresh, line, late, quiet, portVars, peer, requests>>

\* The saved file is HTTP_RECEIVE_BUFFER from the headers it found to as many
\* bytes as it counted; see Packages for the disk.
download_returns ==
    /\ at \in {"close", "abort"} /\ client = "download"
    /\ CloseUnlessGet
    /\ Ends(IF \/ at = "abort" \/ fresh = 0
               \/ Announced(http) /\ ~Complete(http, fresh)
               \/ HeadAt(http) # {} /\ fresh <= Min(HeadAt(http))
            THEN "fail" ELSE "ok")
    /\ UNCHANGED <<cid, cardVars, http, fresh, line, late, quiet, portVars, peer, requests>>

-----------------------------------------------------------------------------
(* The clients without a connection, and ntfy with one of its own.         *)

\* A query, an echo request or a SYN is sent, or not.
ProbeSent ==
    /\ peer' = Append(peer, Exchange(client, 0)) /\ cid' = Len(peer) + 1
    /\ at' = "wait" /\ rx' = <<>>
    /\ UNCHANGED <<client, attempt, outcome>>
ProbeFails ==
    /\ at' = "idle" /\ outcome' = "fail"
    /\ UNCHANGED <<client, attempt, rx, peer, cid>>
ProbeStarts ==
    /\ at = "connect" /\ late' = FALSE /\ quiet' = FALSE
    /\ UNCHANGED <<tcp, cardVars, http, fresh, line, portVars, rl, requests>>

dns_query   == client = "dns" /\ ProbeStarts /\ (ProbeSent \/ ProbeFails)
ntfy_syn    == client = "ntfy" /\ ProbeStarts /\ (ProbeSent \/ ProbeFails)
\* rust_ping does not look at what became of its request.
ping_sends  == client = "ping" /\ ProbeStarts /\ ProbeSent

\* rust_ping sends PING_COUNT requests and wants that many replies (fresh).
ping_next(replies) ==
    /\ fresh' = replies /\ attempt' = attempt + 1
    /\ IF attempt + 1 < PING_COUNT
       THEN at' = "connect" /\ UNCHANGED outcome
       ELSE /\ at' = "idle"
            /\ outcome' = IF replies = PING_COUNT THEN "ok" ELSE "fail"
    /\ UNCHANGED <<client, rl>>

ProbePolled ==
    /\ at = "wait" /\ ring # <<>> /\ ~late
    /\ ring' = <<>>
    /\ UNCHANGED <<tcp, cid, http, line, late, quiet, portVars, peer, requests, arrivals>>
WaitsOn == UNCHANGED <<at, client, attempt, outcome, rl, fresh>>

\* The first frame is UDP to the query's port.
AnswersQuery(f) == f.what = "dns" /\ f.cid = cid

dns_receives ==
    /\ client = "dns" /\ ProbePolled
    /\ IF AnswersQuery(Head(Batch))
       THEN rx' = Batch /\ Ends("ok") /\ UNCHANGED fresh
       ELSE rx' = <<>> /\ WaitsOn

\* Any echo reply counts.
ping_receives ==
    /\ client = "ping" /\ ProbePolled
    /\ IF Head(Batch).what = "ping"
       THEN rx' = Batch /\ ping_next(fresh + 1)
       ELSE rx' = <<>> /\ WaitsOn

\* The buffer is not emptied: a SYN-ACK behind another frame is never seen.
ntfy_receives ==
    /\ client = "ntfy" /\ ProbePolled
    /\ IF Head(Batch).what = "synack"
       THEN /\ rx' = <<>> /\ at' = "post"
            /\ UNCHANGED <<client, attempt, outcome, rl, fresh>>
       ELSE rx' = Batch /\ WaitsOn

probe_timeout ==
    /\ at = "wait" /\ late
    /\ IF client = "ping" THEN ping_next(fresh) ELSE Ends("fail") /\ UNCHANGED fresh
    /\ UNCHANGED <<tcp, cid, cardVars, rx, http, line, late, quiet, portVars, peer,
                   requests>>

\* ntfy sends its POST and is content with any frame, or with none.
ntfy_posts ==
    /\ at = "post"
    /\ \/ /\ peer' = [peer EXCEPT ![cid].asked = TRUE] /\ Ends("ok")
       \/ /\ Ends("fail") /\ UNCHANGED peer
    /\ ring' = <<>> /\ rx' = <<>>
    /\ UNCHANGED <<tcp, cid, http, fresh, line, late, quiet, portVars, requests, arrivals>>

-----------------------------------------------------------------------------
\* A loop's limit is a number of turns, except that tcp_connect_timeout and
\* tcp_receive_data compare get_ticks() with where it stood.
ByClock == at = "syn" \/ (at = "recv" /\ client = "api")
ByTurns == at = "wait" \/ (at = "recv" /\ client # "api")

LimitPasses ==
    /\ ~late /\ late' = TRUE
    /\ UNCHANGED <<client, at, attempt, tcp, cid, cardVars, rx, http, fresh, line, quiet,
                   outcome, portVars, rl, peer, requests>>

turn_limit_passes == ByTurns /\ LimitPasses
tick_limit_passes == ByClock /\ LimitPasses

idle_limit_passes ==
    /\ at = "recv" /\ ~quiet /\ ~late /\ quiet' = TRUE
    /\ CASE client = "get" -> TRUE
         [] client \in Retried -> http # <<>>
         [] client = "download" -> fresh > 0
         [] OTHER -> FALSE
    /\ UNCHANGED <<client, at, attempt, tcp, cid, cardVars, rx, http, fresh, line, late,
                   outcome, portVars, rl, peer, requests>>

Turn ==
    \/ tcp_connect \/ syn_waits \/ syn_timeout \/ tcp_send_data
    \/ send_get_receives \/ download_receives \/ chat_receives \/ discord_receives
    \/ tcp_receive_data \/ receive_ends \/ download_waits_on
    \/ get_returns \/ api_returns \/ chat_returns \/ discord_returns
    \/ download_returns
    \/ dns_query \/ ntfy_syn \/ ping_sends
    \/ dns_receives \/ ntfy_receives \/ ping_receives \/ probe_timeout \/ ntfy_posts

LegacyNext ==
    \/ \E k \in Clients : request(k)
    \/ Turn
    \/ turn_limit_passes \/ tick_limit_passes \/ idle_limit_passes
    \/ \E c \in DOMAIN peer : peer_accepts(c) \/ peer_serves(c)
    \/ frame_arrives

\* The machine goes on polling, and a limit in turns is reached by polling.  The
\* clock is counted by the timer interrupt (handle_interrupt), and a command
\* runs inside one with interrupts off, so nothing makes a limit in ticks pass;
\* and the peer, the network and the user owe nothing.
LegacyFairness == WF_legacyVars(Turn) /\ WF_legacyVars(turn_limit_passes)

LegacySpec == LegacyInit /\ [][LegacyNext]_legacyVars /\ LegacyFairness

-----------------------------------------------------------------------------
\* A client gets past the handshake only if its peer accepted this very SYN: replies
\* to earlier attempts that are still about never open a later connection.
HandshakeFresh ==
    client \in Tcps /\ at \in {"send", "recv", "close", "abort"}
        => peer[cid].did \in {"accepted", "served"}

\* What a client takes for the answer starts with a frame of the exchange it
\* made for this request, whatever earlier requests left in the ring, in the
\* response buffer or in HTTP_RECEIVE_BUFFER (the download's own part starts
\* there, behind what was left).  A chat or Discord request that succeeds was
\* served by its own peer, and one that is given up as refused (4xx) too, unless
\* padding is all it received; the status it goes by is that peer's if the
\* peer's status line came first.  Every handshake was with that peer.
AnswersAreOwn ==
    /\ HandshakeFresh
    /\ at = "idle" =>
        /\ outcome = "ok" /\ client \in Tcps \ {"download"} => http[1].cid = cid
        /\ outcome = "ok" /\ client = "download" => http[Len(http) - fresh + 1].cid = cid
        /\ outcome = "ok" /\ client = "dns" => rx[1].cid = cid
        /\ client \in Retried /\ outcome \in {"ok", "refused"} =>
              /\ AllPadding(http) \/ peer[cid].did = "served"
              /\ http[1].seg = 1 => peer[cid].status = outcome

\* Refuted: the "Success" of chat_request is its peer's.  The status it reads may
\* be left from an earlier answer, or be no status at all.
ChatIsServed ==
    at = "idle" /\ client = "chat" /\ outcome = "ok"
        => peer[cid].did = "served" /\ peer[cid].status = "ok"

\* Refuted: what the download saves starts with its own answer.
\* parse_and_download goes on from where HTTP_RECEIVE_LEN stands, behind the
\* answer to an earlier request.
DownloadIsOwn ==
    at = "idle" /\ client = "download" /\ outcome = "ok" => http[1].cid = cid

\* Every request ends, however little the network delivers, unless it comes to
\* wait by the clock for good.
RequestsEnd == at # "idle" ~> (at = "idle" \/ []ByClock)

\* Refuted: the limit of 5000 ms that tcp_connect puts on the handshake ends it.
\* With the clock standing still a SYN that is not answered holds the machine.
EveryRequestEnds == at # "idle" ~> at = "idle"
=============================================================================
