------------------------------- MODULE FetchTcp -------------------------------
(***************************************************************************)
(* The TCP client of the fetch command and of rChat: struct Tcp of         *)
(* rust_lib/src/fetch/native.rs over the single TCP_CONNECTION of          *)
(* rust_lib/src/lib.rs.  One connection: connect, the writes and reads of  *)
(* its caller, drop.                                                       *)
(*                                                                         *)
(* The client polls the card; nothing here runs in an interrupt except the *)
(* timer's tick.  The network loses, duplicates and reorders segments in   *)
(* both directions: what the client sends stays on the wire, to be taken   *)
(* any number of times or never, and the server may send any part of its   *)
(* stream at any time, with any acknowledgement it ever gave.              *)
(*                                                                         *)
(* A byte is its position in its stream.  Sequence numbers and ticks are   *)
(* u32 in the code and wrap at WORD here.                                  *)
(***************************************************************************)
EXTENDS Integers, Sequences

CONSTANTS
  WORD,        \* 2^32 in the code
  CHUNK,       \* bytes write puts into one segment, 1200
  TRIES,       \* transmissions of one chunk, 4
  RETRY,       \* ticks to wait for an acknowledgement, 1000
  BUFFER,      \* bytes that may wait for read, 65536
  TIMEOUT,     \* the deadline of the connection, in ticks
  StartTicks,  \* what the tick counter may show when fetch starts
  SERVER_ISS,  \* the server's initial sequence number
  MSS,         \* bytes in one segment of the server
  REQUEST_LEN, \* bytes the caller writes
  RESPONSE_LEN \* bytes the server sends before it closes

\* The two streams fit in half of the sequence space, as a request and a
\* response of the size fetch allows do.
ASSUME FetchAssumption ==
  /\ {CHUNK, TRIES, RETRY, BUFFER, TIMEOUT, MSS} \subseteq Nat \ {0}
  /\ {REQUEST_LEN, RESPONSE_LEN} \subseteq Nat
  /\ WORD \in Nat /\ WORD % 2 = 0
  /\ REQUEST_LEN + 2 < WORD \div 2 /\ RESPONSE_LEN + 2 < WORD \div 2
  /\ TIMEOUT + 1 < WORD
  /\ StartTicks \subseteq 0 .. WORD - 1 /\ SERVER_ISS \in 0 .. WORD - 1

VARIABLES
  ticks,         \* the timer's counter
  phase,         \* what the client is doing
  started,       \* tick at which the connection was asked for
  wait_start,    \* tick at which the current wait began
  wait_len,      \* ticks it may last
  tries,         \* transmissions of the current chunk
  call_end,      \* bytes written when the current write returns
  state,         \* TCP_CONNECTION.state
  seq_num,       \* TCP_CONNECTION.seq_num
  ack_num,       \* TCP_CONNECTION.ack_num
  acknowledged,  \* Tcp.acknowledged
  pending,       \* Tcp.pending from offset on
  closed,        \* Tcp.closed
  written,       \* bytes write has seen acknowledged
  delivered,     \* bytes read has returned
  eof,           \* read has returned 0
  wire,          \* the segments the client has sent
  s_rcv,         \* the server's next expected sequence number, or NoSeq
  got            \* the bytes the server has taken

timeVars == <<started, wait_start, wait_len>>
connVars == <<state, seq_num, ack_num>>
callVars == <<tries, call_end, written, delivered, eof>>
serverVars == <<s_rcv, got>>
fetchVars == <<ticks, phase, timeVars, connVars, acknowledged, pending, closed,
               callVars, wire, serverVars>>

NoSeq == -1
Request == [i \in 1 .. REQUEST_LEN |-> i]
Response == [i \in 1 .. RESPONSE_LEN |-> i]
Phases == {"start", "resolve", "syn", "idle", "send", "await", "read", "done", "failed"}
Over == phase \in {"done", "failed"}

Plus(a, n) == (a + n) % WORD
\* a - b, as wrapping_sub gives it.
Minus(a, b) == (a - b) % WORD
\* (a.wrapping_sub(b) as i32) > 0
Ahead(a, b) == Minus(a, b) \in 1 .. WORD \div 2 - 1

Late_no_wrap == ticks >= started + TIMEOUT     \* Mutant: plain addition.

\* check_deadline fails.
Late == Minus(ticks, started) >= TIMEOUT

WaitOver == Minus(ticks, wait_start) >= wait_len

Least(a, b) == IF a < b THEN a ELSE b

\* saturating_sub
SatMinus(a, b) == IF a < b THEN 0 ELSE a - b

FetchInit ==
  /\ ticks \in StartTicks
  /\ phase = "start"
  /\ started = 0 /\ wait_start = 0 /\ wait_len = 0
  /\ tries = 0 /\ call_end = 0
  /\ state = "Closed" /\ seq_num = 0 /\ ack_num = 0
  /\ acknowledged = 0 /\ pending = <<>> /\ closed = FALSE
  /\ written = 0 /\ delivered = <<>> /\ eof = FALSE
  /\ wire = {}
  /\ s_rcv = NoSeq /\ got = <<>>

-----------------------------------------------------------------------------
(* The server and the network (external): a TCP peer that acknowledges     *)
(* what it has taken and sends Response, then FIN; it may also reset.      *)

ServerAccept ==
  /\ s_rcv = NoSeq
  /\ \E m \in wire : "SYN" \in m.flags /\ s_rcv' = Plus(m.seq, 1)
  /\ UNCHANGED <<ticks, phase, timeVars, connVars, acknowledged, pending, closed,
                 callVars, wire, got>>

\* The fresh part of a segment that starts at or before what is expected.
ServerTake ==
  /\ s_rcv # NoSeq
  /\ \E m \in wire :
       LET skip == Minus(s_rcv, m.seq) IN
         /\ skip < Len(m.data)
         /\ got' = got \o SubSeq(m.data, skip + 1, Len(m.data))
         /\ s_rcv' = Plus(m.seq, Len(m.data))
  /\ UNCHANGED <<ticks, phase, timeVars, connVars, acknowledged, pending, closed,
                 callVars, wire>>

\* The acknowledgements the server has given.
ServerAcks == {Minus(s_rcv, k) : k \in 0 .. Len(got)}

\* Bytes p + 1 .. q of the stream; behind the last one FIN may follow.
Spans == {d \in (0 .. RESPONSE_LEN) \X (0 .. RESPONSE_LEN) : d[2] - d[1] \in 0 .. MSS}

DataSegment(d, ack, fin) ==
  [seq |-> Plus(SERVER_ISS, 1 + d[1]), ack |-> ack,
   flags |-> IF fin THEN {"ACK", "FIN"} ELSE {"ACK"},
   data |-> SubSeq(Response, d[1] + 1, d[2])]

DataSegments ==
  UNION {{DataSegment(d, a, FALSE) : d \in Spans} \cup
         {DataSegment(d, a, TRUE) : d \in {e \in Spans : e[2] = RESPONSE_LEN}} : a \in ServerAcks}

SynAck(ack) == [seq |-> SERVER_ISS, ack |-> ack, flags |-> {"SYN", "ACK"}, data |-> <<>>]

Resets ==
  {[seq |-> Plus(SERVER_ISS, 1 + p), ack |-> 0, flags |-> {"RST"}, data |-> <<>>] :
     p \in 0 .. RESPONSE_LEN + 1}

\* A SYN-ACK left over from an earlier connection on the same port.
Stray == [SynAck(seq_num) EXCEPT !.seq = Plus(SERVER_ISS, 2)]

\* What a receive may find in the ring.
Arriving ==
  {Stray} \cup Resets \cup
  (IF s_rcv = NoSeq THEN {}
   ELSE {SynAck(Minus(s_rcv, Len(got)))} \cup DataSegments)

\* The timer interrupt.  Nothing the client does takes longer than a tick
\* once its deadline is over, so ticks need not run further.
Tick ==
  /\ phase # "start" /\ ~Over
  /\ Minus(ticks, started) <= TIMEOUT
  /\ ticks' = Plus(ticks, 1)
  /\ UNCHANGED <<phase, timeVars, connVars, acknowledged, pending, closed,
                 callVars, wire, serverVars>>

-----------------------------------------------------------------------------
(* The end of the connection.                                              *)

Segment(flags, data) == [seq |-> seq_num, flags |-> flags, data |-> data]

\* One FIN if the connection is up, then tcp_reset_state.
tcp_close ==
  /\ state' = "Closed" /\ seq_num' = 0 /\ ack_num' = 0
  /\ wire' = IF state = "Established"
             THEN wire \cup {Segment({"FIN", "ACK"}, <<>>)}
             ELSE wire

\* The Tcp value goes out of scope, on success and on every error.
drop(how) ==
  /\ phase' = how
  /\ tcp_close
  /\ acknowledged' = 0 /\ pending' = <<>> /\ closed' = FALSE
  /\ UNCHANGED <<ticks, timeVars, callVars, serverVars>>

-----------------------------------------------------------------------------
(* connect.                                                                *)

connect ==
  /\ phase = "start"
  /\ phase' = "resolve"
  /\ started' = ticks
  /\ UNCHANGED <<ticks, wait_start, wait_len, connVars, acknowledged, pending, closed,
                 callVars, wire, serverVars>>

\* The name has no address, the deadline is over, or the card does not
\* take the SYN.
connect_fails == phase = "resolve" /\ drop("failed")

\* tcp_connect_timeout up to the wait: the SYN is sent once.
connect_syn ==
  /\ phase = "resolve" /\ ~Late
  /\ phase' = "syn"
  /\ wait_start' = ticks /\ wait_len' = SatMinus(TIMEOUT, Minus(ticks, started))
  /\ state' = "SynSent" /\ seq_num' = ticks /\ ack_num' = 0
  /\ wire' = wire \cup {[seq |-> ticks, flags |-> {"SYN"}, data |-> <<>>]}
  /\ UNCHANGED <<ticks, started, acknowledged, pending, closed, callVars, serverVars>>

AcksOurSyn(m) == m.ack = Plus(seq_num, 1)

connect_synack ==
  /\ phase = "syn" /\ ~WaitOver
  /\ \E m \in Arriving :
       /\ {"SYN", "ACK"} \subseteq m.flags /\ "RST" \notin m.flags /\ AcksOurSyn(m)
       /\ ack_num' = Plus(m.seq, 1)
  /\ phase' = "idle"
  /\ state' = "Established"
  /\ seq_num' = Plus(seq_num, 1) /\ acknowledged' = seq_num'
  /\ UNCHANGED <<ticks, timeVars, pending, closed, callVars, wire, serverVars>>

\* A reset, whatever it acknowledges, or no SYN-ACK in time.
connect_refused ==
  /\ phase = "syn"
  /\ WaitOver \/ \E m \in Arriving : "RST" \in m.flags
  /\ drop("failed")

-----------------------------------------------------------------------------
(* poll: one frame of the ring.  A frame that is not a valid segment of    *)
(* this connection (tcp_packet) leaves everything as it was.               *)

Ignored(m) ==
  \/ "RST" \in m.flags
  \/ "ACK" \notin m.flags \/ "SYN" \in m.flags
  \/ Ahead(m.ack, seq_num)

Kills(m) == "RST" \in m.flags /\ m.seq = ack_num

\* It starts at or before the next expected byte.
InOrder(m) == ~Ahead(m.seq, ack_num) /\ ~closed

Fresh_no_skip(m) ==     \* Mutant: a retransmitted segment is taken whole.
  IF InOrder(m) /\ Minus(ack_num, m.seq) < Len(m.data) THEN m.data ELSE <<>>

\* The bytes of m not seen yet.
Fresh(m) ==
  LET skip == Minus(ack_num, m.seq) IN
    IF InOrder(m) /\ skip < Len(m.data) THEN SubSeq(m.data, skip + 1, Len(m.data)) ELSE <<>>

Overflows(m) == Fresh(m) # <<>> /\ Len(pending) + Len(Fresh(m)) > BUFFER

\* A FIN right behind the last byte taken.
Closes(m) ==
  /\ "FIN" \in m.flags /\ InOrder(m)
  /\ Plus(m.seq, Len(m.data)) = Plus(ack_num, Len(Fresh(m)))

poll_takes(m) ==
  /\ acknowledged' = IF Ahead(m.ack, acknowledged) THEN m.ack ELSE acknowledged
  /\ pending' = pending \o Fresh(m)
  /\ ack_num' = Plus(ack_num, Len(Fresh(m)) + (IF Closes(m) THEN 1 ELSE 0))
  /\ closed' = (closed \/ Closes(m))

\* poll gives an error: the deadline, a reset in place, or no room for fresh
\* bytes, over the limit or because the allocator refuses.
poll_fails ==
  \/ Late
  \/ \E m \in Arriving :
       \/ Kills(m)
       \/ ~Ignored(m) /\ Fresh(m) # <<>>

-----------------------------------------------------------------------------
(* write: chunks, each sent until it is acknowledged.                      *)

write(n) ==
  /\ phase = "idle" /\ ~eof
  /\ written + n <= REQUEST_LEN
  /\ phase' = "send"
  /\ call_end' = written + n
  /\ tries' = 0
  /\ UNCHANGED <<ticks, timeVars, connVars, acknowledged, pending, closed,
                 written, delivered, eof, wire, serverVars>>

ChunkLen == Least(CHUNK, call_end - written)

\* The sequence number of the chunk: seq_num as it was before the first try.
ChunkSeq_drift == seq_num     \* Mutant: a retry does not go back.

ChunkSeq == IF tries = 0 THEN seq_num ELSE Minus(seq_num, ChunkLen)

\* The checks before a chunk's first transmission.
Refuses == tries = 0 /\ (Late \/ closed)

write_sends ==
  /\ phase = "send" /\ ~Refuses
  /\ wire' = wire \cup {[seq |-> ChunkSeq, flags |-> {"PSH", "ACK"},
                         data |-> SubSeq(Request, written + 1, written + ChunkLen)]}
  /\ seq_num' = Plus(ChunkSeq, ChunkLen)
  /\ tries' = tries + 1
  /\ phase' = "await"
  /\ wait_start' = ticks /\ wait_len' = RETRY
  /\ UNCHANGED <<ticks, started, state, ack_num, acknowledged, pending, closed,
                 call_end, written, delivered, eof, serverVars>>

\* Refused, or the card does not take the frame.
write_send_fails == phase = "send" /\ drop("failed")

\* The wait is over: the next try, or none is left.
write_retries ==
  /\ phase = "await" /\ WaitOver
  /\ tries < TRIES
  /\ phase' = "send"
  /\ UNCHANGED <<ticks, timeVars, connVars, acknowledged, pending, closed,
                 callVars, wire, serverVars>>

write_gives_up ==
  /\ phase = "await" /\ WaitOver
  /\ tries = TRIES
  /\ drop("failed")

ChunkAcked == acknowledged' = seq_num

write_polls ==
  /\ phase = "await" /\ ~WaitOver /\ ~Late
  /\ \E m \in Arriving : ~Ignored(m) /\ ~Overflows(m) /\ poll_takes(m)
  /\ \/ /\ ChunkAcked
        /\ written' = written + ChunkLen
        /\ phase' = IF written' = call_end THEN "idle" ELSE "send"
        /\ tries' = 0
     \/ /\ ~ChunkAcked /\ ~closed'
        /\ UNCHANGED <<written, phase, tries>>
  /\ UNCHANGED <<ticks, timeVars, state, seq_num, call_end, delivered, eof, wire, serverVars>>

\* poll fails, or the server has closed before it acknowledged the chunk.
write_fails ==
  /\ phase = "await" /\ ~WaitOver
  /\ \/ poll_fails
     \/ \E m \in Arriving : ~Ignored(m) /\ Closes(m) /\ m.ack # seq_num
  /\ drop("failed")

-----------------------------------------------------------------------------
(* read: what is pending, else poll until something is.                    *)

read ==
  /\ phase = "idle" /\ ~eof /\ ~Late
  /\ phase' = "read"
  /\ UNCHANGED <<ticks, timeVars, connVars, acknowledged, pending, closed,
                 callVars, wire, serverVars>>

read_polls ==
  /\ phase = "read" /\ pending = <<>> /\ ~closed /\ ~Late
  /\ \E m \in Arriving : ~Ignored(m) /\ ~Overflows(m) /\ poll_takes(m)
  /\ UNCHANGED <<ticks, phase, timeVars, state, seq_num, callVars, wire, serverVars>>

\* n bytes fit in the caller's buffer.
read_returns(n) ==
  /\ phase = "read" /\ pending # <<>>
  /\ LET count == Least(n, Len(pending)) IN
       /\ delivered' = delivered \o SubSeq(pending, 1, count)
       /\ pending' = SubSeq(pending, count + 1, Len(pending))
  /\ phase' = "idle"
  /\ UNCHANGED <<ticks, timeVars, connVars, acknowledged, closed, tries, call_end,
                 written, eof, wire, serverVars>>

read_end ==
  /\ phase = "read" /\ pending = <<>> /\ closed
  /\ eof' = TRUE
  /\ phase' = "idle"
  /\ UNCHANGED <<ticks, timeVars, connVars, acknowledged, pending, closed, tries,
                 call_end, written, delivered, wire, serverVars>>

read_fails ==
  /\ \/ phase = "idle" /\ ~eof /\ Late
     \/ phase = "read" /\ pending = <<>> /\ ~closed /\ poll_fails
  /\ drop("failed")

\* The caller has what it wants, or cannot use what it got.
done == phase = "idle" /\ drop("done")

-----------------------------------------------------------------------------
\* The steps the client takes without a frame from the ring.
Alone ==
  \/ connect \/ connect_fails \/ connect_syn
  \/ WaitOver /\ connect_refused
  \/ \E n \in 1 .. REQUEST_LEN : write(n)
  \/ write_sends \/ write_send_fails \/ write_retries \/ write_gives_up
  \/ Late /\ write_fails
  \/ read \/ read_end \/ done
  \/ \E n \in 1 .. RESPONSE_LEN : read_returns(n)
  \/ Late /\ read_fails

\* The steps a frame causes.
OnFrame ==
  connect_synack \/ connect_refused \/ write_polls \/ write_fails \/ read_polls \/ read_fails

\* The program has ended and stays so.
Ended == Over /\ UNCHANGED fetchVars

FetchNext == Alone \/ OnFrame \/ ServerAccept \/ ServerTake \/ Tick \/ Ended

FetchSpec == FetchInit /\ [][FetchNext]_fetchVars

\* The timer keeps ticking and the polling loop keeps turning; no frame ever
\* has to arrive.
FairFetchSpec == FetchSpec /\ WF_fetchVars(Alone) /\ WF_fetchVars(Tick)

-----------------------------------------------------------------------------
Word == 0 .. WORD - 1

FetchTypeOK ==
  /\ {ticks, started, wait_start, seq_num, ack_num, acknowledged} \subseteq Word
  /\ wait_len \in 0 .. (IF TIMEOUT > RETRY THEN TIMEOUT ELSE RETRY)
  /\ phase \in Phases
  /\ tries \in 0 .. TRIES
  /\ call_end \in 0 .. REQUEST_LEN /\ written \in 0 .. REQUEST_LEN
  /\ state \in {"Closed", "SynSent", "Established"}
  /\ pending \in Seq(1 .. RESPONSE_LEN) /\ Len(pending) <= BUFFER
  /\ delivered \in Seq(1 .. RESPONSE_LEN)
  /\ closed \in BOOLEAN /\ eof \in BOOLEAN
  /\ \A m \in wire : /\ m.seq \in Word
                     /\ m.flags \in {{"SYN"}, {"PSH", "ACK"}, {"FIN", "ACK"}}
                     /\ m.data \in Seq(1 .. REQUEST_LEN)
  /\ s_rcv \in Word \cup {NoSeq}
  /\ got \in Seq(1 .. REQUEST_LEN)

\* What the client acknowledges it holds: while the connection is up,
\* ack_num stands right behind the bytes read or pending, which are the
\* start of the server's stream with nothing missing or doubled, and a FIN
\* is acknowledged only when the whole stream is there.  The server forgets
\* what is acknowledged, so a byte acknowledged and not kept is lost.
AckedIsHeld ==
  phase \in {"idle", "send", "await", "read"} =>
    LET held == delivered \o pending IN
      /\ held = SubSeq(Response, 1, Len(held))
      /\ ack_num = Plus(SERVER_ISS, 1 + Len(held) + (IF closed THEN 1 ELSE 0))
      /\ closed => held = Response

Stream == INSTANCE ByteStream

\* Over a network that loses, repeats and reorders, with retransmissions and
\* across the wrap of the sequence numbers, the connection is the byte
\* stream its caller takes it for.
ByteStreamSpec == Stream!StreamSpec

\* A fetch ends: whatever the network and the server do, every wait is left
\* when its deadline is over.
FetchEnds == <>Over
===============================================================================
