---------------------------- MODULE FetchTcpProofs ----------------------------
(***************************************************************************)
(* The theorems of FetchTcp, for every word size, chunk, segment and       *)
(* buffer size, number of tries, timeout, and length of the two streams.   *)
(***************************************************************************)
EXTENDS FetchTcp, TLAPS

-----------------------------------------------------------------------------
(* Arithmetic modulo a word.                                               *)

LEMMA DivMod ==
  ASSUME NEW a \in Int, NEW w \in Nat, w > 0
  PROVE  a = w * (a \div w) + (a % w) /\ a % w \in 0 .. w - 1 /\ a \div w \in Int
OBVIOUS

LEMMA Multiples ==
  ASSUME NEW q \in Int, NEW p \in Int, NEW w \in Nat, w > 0
  PROVE  /\ q >= p + 1 => w * q >= w * p + w
         /\ w * (q + p) = w * q + w * p /\ w * q \in Int
<1>1. q >= p + 1 => w * q >= w * p + w
  OBVIOUS
<1>2. w * (q + p) = w * q + w * p /\ w * q \in Int
  OBVIOUS
<1>. QED  BY <1>1, <1>2

LEMMA OneRemainder ==
  ASSUME NEW w \in Nat, w > 0, NEW q \in Int, NEW p \in Int,
         NEW r \in 0 .. w - 1, NEW s \in 0 .. w - 1, w * q + r = w * p + s
  PROVE  r = s
<1>1. w * q \in Int /\ w * p \in Int
  OBVIOUS
<1>2. ~(q >= p + 1)
  <2>. SUFFICES ASSUME q >= p + 1 PROVE FALSE
    OBVIOUS
  <2>1. w * q >= w * p + w
    BY Multiples
  <2>. QED  BY <1>1, <2>1
<1>3. ~(p >= q + 1)
  <2>. SUFFICES ASSUME p >= q + 1 PROVE FALSE
    OBVIOUS
  <2>1. w * p >= w * q + w
    BY Multiples
  <2>. QED  BY <1>1, <2>1
<1>4. q = p
  BY <1>2, <1>3
<1>. QED  BY <1>1, <1>4

LEMMA SameRemainder ==
  ASSUME NEW a \in Int, NEW b \in Int, NEW k \in Int, NEW w \in Nat, w > 0, a = b + w * k
  PROVE  a % w = b % w
<1>1. PICK q \in Int, r \in 0 .. w - 1 : r = a % w /\ a = w * q + r
  BY DivMod
<1>2. PICK p \in Int, s \in 0 .. w - 1 : s = b % w /\ b = w * p + s
  BY DivMod
<1>3. w * (p + k) = w * p + w * k /\ w * p \in Int /\ w * k \in Int /\ p + k \in Int
  BY Multiples
<1>4. w * q + r = w * (p + k) + s
  BY <1>1, <1>2, <1>3
<1>5. r = s
  BY <1>3, <1>4, OneRemainder
<1>. QED  BY <1>1, <1>2, <1>5

LEMMA AddRemainder ==
  ASSUME NEW s \in Int, NEW a \in Int, NEW w \in Nat, w > 0
  PROVE  ((s % w) + a) % w = (s + a) % w
<1>1. PICK q \in Int, r \in 0 .. w - 1 : r = s % w /\ s = w * q + r
  BY DivMod
<1>2. w * q \in Int /\ s + a = (r + a) + w * q
  BY <1>1
<1>. QED  BY <1>1, <1>2, SameRemainder

LEMMA SubtractRemainder ==
  ASSUME NEW s \in Int, NEW a \in Int, NEW w \in Nat, w > 0
  PROVE  (a - (s % w)) % w = (a - s) % w
<1>1. PICK q \in Int, r \in 0 .. w - 1 : r = s % w /\ s = w * q + r
  BY DivMod
<1>2. w * q \in Int /\ a - r = (a - s) + w * q
  BY <1>1
<1>. QED  BY <1>1, <1>2, SameRemainder

\* The bounds of the streams against the sequence space.
LEMMA Bounds ==
  /\ WORD \in Nat /\ WORD > 0 /\ REQUEST_LEN \in Nat /\ RESPONSE_LEN \in Nat
  /\ SERVER_ISS \in Int /\ TRIES \in Nat /\ TRIES > 0 /\ CHUNK \in Nat /\ CHUNK > 0
  /\ \E half \in Nat : /\ half = WORD \div 2 /\ 2 * half <= WORD
                       /\ REQUEST_LEN + 2 < half /\ RESPONSE_LEN + 2 < half
<1>1. /\ WORD \in Nat /\ REQUEST_LEN \in Nat /\ RESPONSE_LEN \in Nat /\ SERVER_ISS \in Int
      /\ TRIES \in Nat /\ TRIES > 0 /\ CHUNK \in Nat /\ CHUNK > 0
  BY FetchAssumption
<1>2. PICK half \in Nat : half = WORD \div 2 /\ 2 * half <= WORD
  BY <1>1
<1>3. REQUEST_LEN + 2 < half /\ RESPONSE_LEN + 2 < half
  BY <1>2, FetchAssumption
<1>4. WORD > 0
  BY <1>1, <1>2, <1>3
<1>. QED  BY <1>1, <1>2, <1>3, <1>4

LEMMA Shifts ==
  ASSUME NEW s \in Int, NEW a \in Int, NEW b \in Int
  PROVE  /\ Plus(Plus(s, a), b) = Plus(s, a + b)
         /\ Minus(Plus(s, a), b) = Plus(s, a - b)
         /\ Minus(Plus(s, a), Plus(s, b)) = (a - b) % WORD
         /\ Plus(s, a) \in Word /\ Minus(s, a) \in Word
<1>0. PICK w \in Nat : w > 0 /\ w = WORD
  BY Bounds
<1>1. w > 0
  BY <1>0
<1>2. PICK x \in Int, y \in Int, n \in Int :
        x = s + a /\ y = s + b /\ n = 0 - b /\ x + b = s + (a + b) /\ x + n = s + (a - b) /\ x - y = a - b
  OBVIOUS
<1>3. PICK r \in 0 .. w - 1 : r = x % w
  BY <1>1, DivMod
<1>4. PICK t \in 0 .. w - 1 : t = y % w
  BY <1>1, DivMod
<1>5. (r + b) % w = (s + (a + b)) % w
  <2>1. ((x % w) + b) % w = (x + b) % w
    BY <1>1, AddRemainder
  <2>. QED  BY <1>2, <1>3, <2>1
<1>6. (r - b) % w = (s + (a - b)) % w
  <2>1. ((x % w) + n) % w = (x + n) % w
    BY <1>1, AddRemainder
  <2>2. r + n = r - b
    BY <1>2
  <2>. QED  BY <1>2, <1>3, <2>1, <2>2
<1>7. (r - t) % w = (a - b) % w
  <2>1. (r - (y % w)) % w = (r - y) % w
    BY <1>1, SubtractRemainder
  <2>2. PICK m \in Int : m = 0 - y /\ r + m = r - y /\ x + m = x - y
    OBVIOUS
  <2>3. ((x % w) + m) % w = (x + m) % w
    BY <1>1, AddRemainder
  <2>. QED  BY <1>2, <1>3, <1>4, <2>1, <2>2, <2>3
<1>8. (s - a) % w \in 0 .. w - 1
  <2>1. s - a \in Int
    OBVIOUS
  <2>. QED  BY <1>1, <2>1, DivMod
<1>. QED  BY <1>0, <1>2, <1>3, <1>4, <1>5, <1>6, <1>7, <1>8 DEF Plus, Minus, Word

LEMMA Remainder ==
  ASSUME NEW w \in Nat, NEW x \in Int
  PROVE  /\ 0 <= x /\ x < w => x % w = x
         /\ x < 0 /\ x + w >= 0 => x % w = x + w
<1>1. ASSUME 0 <= x, x < w PROVE x % w = x
  <2>0. w > 0 /\ x \in 0 .. w - 1 /\ w * 0 = 0
    BY <1>1
  <2>1. PICK q \in Int, r \in 0 .. w - 1 : r = x % w /\ x = w * q + r
    BY <2>0, DivMod
  <2>2. w * q + r = w * 0 + x
    BY <2>0, <2>1
  <2>3. r = x
    BY <2>0, <2>2, OneRemainder
  <2>. QED  BY <2>1, <2>3
<1>2. ASSUME x < 0, x + w >= 0 PROVE x % w = x + w
  <2>1. w > 0 /\ x + w \in 0 .. w - 1
    BY <1>2
  <2>2. PICK q \in Int, r \in 0 .. w - 1 : r = x % w /\ x = w * q + r
    BY <2>1, DivMod
  <2>3. w * q + r = w * (-1) + (x + w)
    BY <2>2
  <2>4. r = x + w
    BY <2>1, <2>3, OneRemainder
  <2>. QED  BY <2>2, <2>4
<1>. QED  BY <1>1, <1>2

\* Two positions in a stream compare as their sequence numbers do.
LEMMA Compares ==
  ASSUME NEW s \in Int, NEW a \in Nat, NEW b \in Nat, a < WORD \div 2, b < WORD \div 2
  PROVE  /\ Ahead(Plus(s, a), Plus(s, b)) <=> a > b
         /\ a >= b => Minus(Plus(s, a), Plus(s, b)) = a - b
         /\ a < b => Minus(Plus(s, a), Plus(s, b)) > WORD \div 2
         /\ Plus(s, a) = Plus(s, b) => a = b
<1>1. PICK w \in Nat, half \in Nat : w = WORD /\ half = WORD \div 2 /\ 2 * half <= w
  BY Bounds
<1>2. a < half /\ b < half
  BY <1>1
<1>3. \A x, y \in Nat : Minus(Plus(s, x), Plus(s, y)) = (x - y) % w
  BY <1>1, Shifts
<1>4. ASSUME a >= b PROVE (a - b) % w = a - b
  BY <1>1, <1>2, <1>4, Remainder
<1>5. ASSUME a < b PROVE (a - b) % w = a - b + w /\ a - b + w > half
  <2>1. a - b \in Int /\ a - b < 0 /\ (a - b) + w >= 0 /\ a - b + w > half
    BY <1>1, <1>2, <1>5
  <2>. QED  BY <2>1, Remainder
<1>6. Ahead(Plus(s, a), Plus(s, b)) <=> (a - b) % w \in 1 .. half - 1
  BY <1>1, <1>3 DEF Ahead
<1>7. Ahead(Plus(s, a), Plus(s, b)) <=> a > b
  <2>1. CASE a >= b
    BY <1>2, <1>4, <1>6, <2>1
  <2>2. CASE a < b
    BY <1>2, <1>5, <1>6, <2>2
  <2>. QED  BY <2>1, <2>2
<1>8. ASSUME Plus(s, a) = Plus(s, b) PROVE a = b
  <2>1. (a - b) % w = (b - b) % w
    BY <1>3, <1>8
  <2>2. (b - b) % w = 0
    <3>1. b - b = 0 /\ 0 <= 0 /\ 0 < w
      BY <1>1, <1>2
    <3>. QED  BY <3>1, Remainder
  <2>3. CASE a >= b
    BY <1>4, <2>1, <2>2, <2>3
  <2>4. CASE a < b
    BY <1>2, <1>5, <2>1, <2>2, <2>4
  <2>. QED  BY <2>3, <2>4
<1>. QED  BY <1>1, <1>3, <1>4, <1>5, <1>7, <1>8

-----------------------------------------------------------------------------
(* Stretches of a stream.  A byte is its position, so the bytes a + 1 .. b *)
(* of either stream are the same sequence.                                 *)

Run(a, b) == [i \in 1 .. b - a |-> a + i]

LEMMA RunIs ==
  ASSUME NEW a \in Nat, NEW b \in Nat, a <= b
  PROVE  /\ Run(a, b) \in Seq(a + 1 .. b) /\ Len(Run(a, b)) = b - a
         /\ Run(a, b) = <<>> <=> a = b
<1>1. Run(a, b) \in Seq(a + 1 .. b) /\ Len(Run(a, b)) = b - a
  BY DEF Run
<1>2. Run(a, b) = <<>> => a = b
  BY <1>1
<1>3. a = b => Run(a, b) = <<>>
  BY <1>1
<1>. QED  BY <1>1, <1>2, <1>3

LEMMA RunJoins ==
  ASSUME NEW a \in Nat, NEW b \in Nat, NEW c \in Nat, a <= b, b <= c
  PROVE  Run(a, b) \o Run(b, c) = Run(a, c)
BY DEF Run

LEMMA RunCut ==
  ASSUME NEW a \in Nat, NEW b \in Nat, NEW c \in Nat, a <= c, c <= b
  PROVE  /\ SubSeq(Run(a, b), 1, c - a) = Run(a, c)
         /\ SubSeq(Run(a, b), (c - a) + 1, b - a) = Run(c, b)
<1>1. SubSeq(Run(a, b), 1, c - a) = Run(a, c)
  BY DEF Run
<1>2. SubSeq(Run(a, b), (c - a) + 1, b - a) = Run(c, b)
  BY DEF Run
<1>. QED  BY <1>1, <1>2

LEMMA RunOfStream ==
  ASSUME NEW a \in Nat, NEW b \in Nat, a <= b
  PROVE  /\ b <= RESPONSE_LEN => SubSeq(Response, a + 1, b) = Run(a, b)
         /\ b <= REQUEST_LEN => SubSeq(Request, a + 1, b) = Run(a, b)
         /\ Response = Run(0, RESPONSE_LEN) /\ Request = Run(0, REQUEST_LEN)
         /\ Len(Response) = RESPONSE_LEN /\ Len(Request) = REQUEST_LEN
<1>1. RESPONSE_LEN \in Nat /\ REQUEST_LEN \in Nat
  BY Bounds
<1>2. ASSUME NEW n \in Nat, b <= n PROVE SubSeq([i \in 1 .. n |-> i], a + 1, b) = Run(a, b)
  BY <1>2 DEF Run
<1>3. ASSUME NEW n \in Nat PROVE [i \in 1 .. n |-> i] = Run(0, n) /\ Len([i \in 1 .. n |-> i]) = n
  BY DEF Run
<1>. QED  BY <1>1, <1>2, <1>3 DEF Response, Request

-----------------------------------------------------------------------------
(* The inductive invariant.                                                *)

Up == phase \in {"idle", "send", "await", "read"}

\* What the caller has read and what waits for it are the start of the
\* server's stream, cut at d; while the connection is up ack_num stands
\* behind it, and behind the FIN if that was taken.
Received(d, n) ==
  /\ d <= n /\ n <= RESPONSE_LEN
  /\ delivered = Run(0, d) /\ pending = Run(d, n)
  /\ Up => /\ ack_num = Plus(SERVER_ISS, 1 + n + (IF closed THEN 1 ELSE 0))
           /\ closed => n = RESPONSE_LEN
  /\ ~Up => d = n /\ ~closed
  /\ phase \in {"start", "resolve", "syn"} => n = 0
  /\ phase = "read" => ~eof

\* The progress of the caller's writes.
Calls ==
  /\ phase \in Phases /\ closed \in BOOLEAN /\ eof \in BOOLEAN
  /\ tries \in 0 .. TRIES /\ written \in Nat /\ call_end \in Nat
  /\ written <= call_end /\ call_end <= REQUEST_LEN
  /\ phase \in {"send", "await"} => written < call_end
  /\ phase = "await" => tries > 0
  /\ phase = "send" => tries < TRIES
  /\ phase \notin {"send", "await", "done", "failed"} => tries = 0

SegmentOK(m) ==
  /\ m.seq \in Word
  /\ m.flags \in {{"SYN"}, {"PSH", "ACK"}, {"FIN", "ACK"}}
  /\ m.data \in Seq(1 .. REQUEST_LEN)

\* What FetchTypeOK says of the rest.
Types ==
  /\ {ticks, started, wait_start, seq_num, ack_num, acknowledged} \subseteq Word
  /\ wait_len \in 0 .. (IF TIMEOUT > RETRY THEN TIMEOUT ELSE RETRY)
  /\ state \in {"Closed", "SynSent", "Established"}
  /\ Len(pending) <= BUFFER
  /\ \A m \in wire : SegmentOK(m)
  /\ s_rcv \in Word \cup {NoSeq}
  /\ got \in Seq(1 .. REQUEST_LEN)

ReceiveInv == Types /\ Calls /\ \E d, n \in Nat : Received(d, n)

-----------------------------------------------------------------------------
(* The steps.                                                              *)

\* Every way the connection ends is a drop; the other steps are these.
Moves ==
  \/ \E how \in {"done", "failed"} : drop(how)
  \/ connect \/ connect_syn \/ connect_synack
  \/ \E n \in 1 .. REQUEST_LEN : write(n)
  \/ write_sends \/ write_retries \/ write_polls
  \/ read \/ read_polls \/ read_end
  \/ \E n \in 1 .. RESPONSE_LEN : read_returns(n)
  \/ ServerAccept \/ ServerTake \/ Tick
  \/ UNCHANGED fetchVars

LEMMA NextMoves ==
  ASSUME [FetchNext]_fetchVars
  PROVE  Moves
<1>1. CASE UNCHANGED fetchVars
  BY <1>1 DEF Moves
<1>2. CASE Alone
  BY <1>2 DEF Alone, Moves, connect_fails, connect_refused, write_send_fails, write_gives_up,
              write_fails, read_fails, done
<1>3. CASE OnFrame
  BY <1>3 DEF OnFrame, Moves, connect_refused, write_fails, read_fails
<1>4. CASE ServerAccept \/ ServerTake \/ Tick \/ Ended
  BY <1>4 DEF Moves, Ended
<1>. QED  BY <1>1, <1>2, <1>3, <1>4 DEF FetchNext

\* A step that leaves alone what the server sent and whether the connection
\* is up.
LEMMA StreamKept ==
  ASSUME NEW d \in Nat, NEW n \in Nat, Received(d, n), UNCHANGED <<delivered, pending, closed, eof>>,
         Up' <=> Up, Up => ack_num' = ack_num,
         phase' \in {"start", "resolve", "syn"} => phase \in {"start", "resolve", "syn"},
         phase' = "read" => ~eof
  PROVE  Received(d, n)'
BY DEF Received

\* A segment that poll takes is a stretch of the server's stream.
LEMMA TakenIsData ==
  ASSUME NEW m \in Arriving, ~Ignored(m)
  PROVE  /\ s_rcv # NoSeq /\ m.ack \in ServerAcks
         /\ \E a, b \in Nat : /\ a <= b /\ b <= RESPONSE_LEN
                              /\ m.seq = Plus(SERVER_ISS, 1 + a) /\ m.data = Run(a, b)
                              /\ "FIN" \in m.flags => b = RESPONSE_LEN
<1>1. "ACK" \in m.flags /\ "SYN" \notin m.flags /\ "RST" \notin m.flags
  BY DEF Ignored
<1>2. m # Stray
  <2>1. "SYN" \in Stray.flags
    BY DEF Stray, SynAck
  <2>. QED  BY <1>1, <2>1
<1>3. m \notin Resets
  <2>1. \A r \in Resets : "RST" \in r.flags
    BY DEF Resets
  <2>. QED  BY <1>1, <2>1
<1>4. \A x : m # SynAck(x)
  <2>1. \A x : "SYN" \in SynAck(x).flags
    BY DEF SynAck
  <2>. QED  BY <1>1, <2>1
<1>5. s_rcv # NoSeq /\ m \in DataSegments
  BY <1>2, <1>3, <1>4 DEF Arriving
<1>6. PICK e \in Spans, k \in ServerAcks :
        \/ m = DataSegment(e, k, FALSE)
        \/ m = DataSegment(e, k, TRUE) /\ e[2] = RESPONSE_LEN
  <2>1. PICK k \in ServerAcks :
          m \in {DataSegment(e, k, FALSE) : e \in Spans} \cup
                {DataSegment(e, k, TRUE) : e \in {f \in Spans : f[2] = RESPONSE_LEN}}
    BY <1>5 DEF DataSegments
  <2>. QED  BY <2>1
<1>7. PICK a \in Nat, b \in Nat : a = e[1] /\ b = e[2] /\ a <= b /\ b <= RESPONSE_LEN
  <2>1. RESPONSE_LEN \in Nat /\ MSS \in Nat
    BY FetchAssumption
  <2>2. e \in (0 .. RESPONSE_LEN) \X (0 .. RESPONSE_LEN) /\ e[2] - e[1] \in 0 .. MSS
    BY DEF Spans
  <2>3. e[1] \in 0 .. RESPONSE_LEN /\ e[2] \in 0 .. RESPONSE_LEN
    BY <2>2
  <2>4. e[1] \in Nat /\ e[2] \in Nat /\ e[1] <= e[2] /\ e[2] <= RESPONSE_LEN
    BY <2>1, <2>2, <2>3
  <2>. QED  BY <2>4
<1>8. /\ m.seq = Plus(SERVER_ISS, 1 + a) /\ m.ack = k
      /\ m.data = SubSeq(Response, a + 1, b)
      /\ m.flags = {"ACK"} \/ e[2] = RESPONSE_LEN
  BY <1>6, <1>7 DEF DataSegment
<1>9. m.data = Run(a, b)
  BY <1>7, <1>8, RunOfStream
<1>10. "FIN" \in m.flags => b = RESPONSE_LEN
  BY <1>6, <1>7, <1>8
<1>. QED  BY <1>5, <1>7, <1>8, <1>9, <1>10

\* What poll takes of a segment goes on where the stream was cut.
LEMMA FreshIs ==
  ASSUME NEW n \in Nat, n <= RESPONSE_LEN, closed \in BOOLEAN,
         ack_num = Plus(SERVER_ISS, 1 + n + (IF closed THEN 1 ELSE 0)),
         NEW m \in Arriving, ~Ignored(m)
  PROVE  \E e \in Nat : /\ n <= e /\ e <= RESPONSE_LEN /\ Fresh(m) = Run(n, e)
                        /\ Closes(m) => e = RESPONSE_LEN /\ ~closed
                        /\ closed => e = n
<1>1. PICK a \in Nat, b \in Nat : /\ a <= b /\ b <= RESPONSE_LEN
                                  /\ m.seq = Plus(SERVER_ISS, 1 + a) /\ m.data = Run(a, b)
                                  /\ "FIN" \in m.flags => b = RESPONSE_LEN
  BY TakenIsData
<1>2. PICK half \in Nat : half = WORD \div 2 /\ RESPONSE_LEN + 2 < half
  BY Bounds
<1>3. RESPONSE_LEN \in Nat /\ SERVER_ISS \in Int
  BY Bounds
<1>4. Run(n, n) = <<>> /\ n <= n
  BY RunIs
<1>5. CASE ~InOrder(m)
  <2>1. Fresh(m) = <<>> /\ ~Closes(m)
    BY <1>5 DEF Fresh, Closes
  <2>. QED  BY <1>4, <2>1
<1>6. CASE InOrder(m)
  <2>1. ~closed /\ ~Ahead(m.seq, ack_num)
    BY <1>6 DEF InOrder
  <2>2. PICK x \in Nat, y \in Nat : x = 1 + a /\ y = 1 + n
    OBVIOUS
  <2>3. ack_num = Plus(SERVER_ISS, y) /\ m.seq = Plus(SERVER_ISS, x)
    <3>1. 1 + n + (IF closed THEN 1 ELSE 0) = y
      BY <2>1, <2>2
    <3>. QED  BY <1>1, <2>2, <3>1
  <2>4. x < WORD \div 2 /\ y < WORD \div 2
    BY <1>1, <1>2, <1>3, <2>2
  <2>5. ~(x > y)
    BY <1>3, <2>1, <2>3, <2>4, Compares
  <2>6. Minus(ack_num, m.seq) = y - x
    BY <1>3, <2>3, <2>4, <2>5, Compares
  <2>7. a <= n /\ y - x = n - a
    BY <2>2, <2>5
  <2>8. Len(m.data) = b - a
    BY <1>1, RunIs
  <2>9. CASE n < b
    <3>1. Fresh(m) = SubSeq(m.data, (n - a) + 1, b - a)
      <4>1. n - a < b - a
        BY <2>9
      <4>. QED  BY <1>6, <2>6, <2>7, <2>8, <4>1 DEF Fresh
    <3>2. Fresh(m) = Run(n, b)
      <4>1. n <= b
        BY <2>9
      <4>2. SubSeq(Run(a, b), (n - a) + 1, b - a) = Run(n, b)
        BY ONLY a \in Nat, b \in Nat, n \in Nat, <2>7, <4>1, RunCut
      <4>. QED  BY <1>1, <3>1, <4>2
    <3>3. Closes(m) => b = RESPONSE_LEN
      BY <1>1 DEF Closes
    <3>. QED  BY <1>1, <2>1, <2>9, <3>2, <3>3
  <2>10. CASE b <= n
    <3>1. ~(n - a < b - a)
      BY <2>10
    <3>2. Fresh(m) = <<>>
      BY <2>6, <2>7, <2>8, <3>1 DEF Fresh
    <3>3. Closes(m) => n = RESPONSE_LEN
      <4>1. Closes(m) => b = RESPONSE_LEN
        BY <1>1 DEF Closes
      <4>. QED  BY <1>3, <2>10, <4>1
    <3>. QED  BY <1>4, <2>1, <3>2, <3>3
  <2>. QED  BY <2>9, <2>10
<1>. QED  BY <1>5, <1>6

LEMMA PollReceives ==
  ASSUME NEW d \in Nat, NEW n \in Nat, Received(d, n), Up, closed \in BOOLEAN,
         NEW m \in Arriving, ~Ignored(m), poll_takes(m), UNCHANGED <<delivered, eof>>,
         Up', phase' = "read" => ~eof
  PROVE  \E e \in Nat : Received(d, e)' /\ pending' = Run(d, e)
<1>1. /\ d <= n /\ n <= RESPONSE_LEN /\ delivered = Run(0, d) /\ pending = Run(d, n)
      /\ ack_num = Plus(SERVER_ISS, 1 + n + (IF closed THEN 1 ELSE 0))
      /\ closed => n = RESPONSE_LEN
  BY DEF Received
<1>2. PICK e \in Nat : /\ n <= e /\ e <= RESPONSE_LEN /\ Fresh(m) = Run(n, e)
                       /\ Closes(m) => e = RESPONSE_LEN /\ ~closed
                       /\ closed => e = n
  BY <1>1, FreshIs
<1>3. RESPONSE_LEN \in Nat /\ SERVER_ISS \in Int
  BY Bounds
<1>4. pending' = Run(d, e) /\ d <= e
  <2>1. pending' = Run(d, n) \o Run(n, e)
    BY <1>1, <1>2 DEF poll_takes
  <2>2. Run(d, n) \o Run(n, e) = Run(d, e)
    BY <1>1, <1>2, RunJoins
  <2>3. d <= e
    BY <1>1, <1>2
  <2>. QED  BY <2>1, <2>2, <2>3
<1>5. Len(Fresh(m)) = e - n
  BY <1>2, RunIs
<1>6. closed' = (closed \/ Closes(m))
  BY DEF poll_takes
<1>. DEFINE c == IF closed THEN 1 ELSE 0
            f == IF Closes(m) THEN 1 ELSE 0
            g == IF closed' THEN 1 ELSE 0
<1>7. c \in Nat /\ f \in Nat /\ g = c + f
  <2>1. CASE closed
    <3>1. ~Closes(m) /\ closed'
      BY <1>2, <1>6, <2>1
    <3>. QED  BY <2>1, <3>1
  <2>2. CASE ~closed /\ Closes(m)
    <3>1. closed' = TRUE
      BY <1>6, <2>2
    <3>. QED  BY <2>2, <3>1
  <2>3. CASE ~closed /\ ~Closes(m)
    <3>1. closed' = FALSE
      BY <1>6, <2>3
    <3>. QED  BY <2>3, <3>1
  <2>. QED  BY <2>1, <2>2, <2>3
<1>8. ack_num' = Plus(ack_num, (e - n) + f)
  BY <1>5 DEF poll_takes
<1>9. ack_num = Plus(SERVER_ISS, 1 + n + c)
  BY <1>1
<1>. HIDE DEF c, f, g
<1>10. ack_num' = Plus(SERVER_ISS, 1 + e + g)
  <2>1. PICK x \in Int, y \in Int : x = 1 + n + c /\ y = (e - n) + f
    BY <1>7
  <2>2. Plus(Plus(SERVER_ISS, x), y) = Plus(SERVER_ISS, x + y)
    BY <1>3, Shifts
  <2>3. x + y = 1 + e + g
    BY <1>7, <2>1
  <2>. QED  BY <1>8, <1>9, <2>1, <2>2, <2>3
<1>11. closed' => e = RESPONSE_LEN
  BY <1>1, <1>2, <1>6
<1>12. /\ delivered' = Run(0, d) /\ eof' = eof
  BY <1>1
<1>13. Received(d, e)'
  <2>1. ack_num' = Plus(SERVER_ISS, 1 + e + (IF closed' THEN 1 ELSE 0))
    BY <1>10 DEF g
  <2>2. phase' \notin {"start", "resolve", "syn"}
    BY DEF Up
  <2>. QED  BY <1>2, <1>4, <1>11, <1>12, <2>1, <2>2 DEF Received
<1>. QED  BY <1>4, <1>13

LEMMA ChunkIs ==
  ASSUME Calls, phase \in {"send", "await"}
  PROVE  ChunkLen \in Nat /\ ChunkLen > 0 /\ written + ChunkLen <= call_end
<1>1. written \in Nat /\ call_end \in Nat /\ written < call_end /\ CHUNK \in Nat /\ CHUNK > 0
  BY Bounds DEF Calls
<1>. QED  BY <1>1 DEF ChunkLen, Least

LEMMA CallsStep ==
  ASSUME Calls, Moves
  PROVE  Calls'
<1>. USE DEF Calls
<1>0. TRIES \in Nat /\ TRIES > 0 /\ REQUEST_LEN \in Nat
  BY Bounds
<1>1. ASSUME NEW how \in {"done", "failed"}, drop(how) PROVE Calls'
  BY <1>1 DEF drop, callVars, Phases
<1>2. CASE connect \/ connect_syn \/ connect_synack
  BY <1>2 DEF connect, connect_syn, connect_synack, callVars, Phases
<1>3. ASSUME NEW n \in 1 .. REQUEST_LEN, write(n) PROVE Calls'
  <2>1. /\ phase' = "send" /\ call_end' = written + n /\ tries' = 0 /\ written + n <= REQUEST_LEN
        /\ UNCHANGED <<closed, eof, written>>
    BY <1>3 DEF write
  <2>2. written + n \in Nat /\ written < written + n /\ written <= written + n
    BY <1>0
  <2>. QED  BY <1>0, <2>1, <2>2 DEF Phases
<1>4. CASE write_sends
  <2>1. /\ phase = "send" /\ phase' = "await" /\ tries' = tries + 1
        /\ UNCHANGED <<closed, eof, written, call_end>>
    BY <1>4 DEF write_sends
  <2>. QED  BY <1>0, <2>1 DEF Phases
<1>5. CASE write_retries
  BY <1>5 DEF write_retries, callVars, Phases
<1>6. CASE write_polls
  <2>1. phase = "await" /\ UNCHANGED <<call_end, eof>>
    BY <1>6 DEF write_polls
  <2>2. closed' \in BOOLEAN
    BY <1>6 DEF write_polls, poll_takes
  <2>3. ChunkLen \in Nat /\ ChunkLen > 0 /\ written + ChunkLen <= call_end
    BY <2>1, ChunkIs
  <2>4. CASE /\ written' = written + ChunkLen
             /\ phase' = IF written' = call_end THEN "idle" ELSE "send"
             /\ tries' = 0
    <3>1. written' \in Nat /\ written' <= call_end
      BY <2>3, <2>4
    <3>2. CASE written' = call_end
      BY <1>0, <2>1, <2>2, <2>4, <3>1, <3>2 DEF Phases
    <3>3. CASE written' # call_end
      <4>1. written' < call_end /\ phase' = "send"
        BY <2>4, <3>1, <3>3
      <4>. QED  BY <1>0, <2>1, <2>2, <2>4, <3>1, <4>1 DEF Phases
    <3>. QED  BY <3>2, <3>3
  <2>5. CASE UNCHANGED <<written, phase, tries>>
    BY <2>1, <2>2, <2>5
  <2>. QED  BY <1>6, <2>4, <2>5 DEF write_polls
<1>7. CASE read \/ read_end
  BY <1>7 DEF read, read_end, callVars, Phases
<1>8. CASE read_polls
  <2>1. closed' \in BOOLEAN /\ UNCHANGED <<phase, callVars>>
    BY <1>8 DEF read_polls, poll_takes
  <2>. QED  BY <2>1 DEF callVars
<1>9. ASSUME NEW n \in 1 .. RESPONSE_LEN, read_returns(n) PROVE Calls'
  BY <1>9 DEF read_returns, Phases
<1>10. CASE ServerAccept \/ ServerTake \/ Tick \/ UNCHANGED fetchVars
  <2>1. UNCHANGED <<closed, phase, callVars>>
    BY <1>10 DEF ServerAccept, ServerTake, Tick, fetchVars
  <2>. QED  BY <2>1 DEF callVars
<1>. QED  BY <1>1, <1>2, <1>3, <1>4, <1>5, <1>6, <1>7, <1>8, <1>9, <1>10 DEF Moves

\* The SYN-ACK that opens the connection is the server's, not a stray one:
\* what it acknowledges is one more than seq_num.
LEMMA SynAckIs ==
  ASSUME seq_num \in Word, NEW m \in Arriving, {"SYN", "ACK"} \subseteq m.flags, AcksOurSyn(m)
  PROVE  m = SynAck(Minus(s_rcv, Len(got))) /\ s_rcv # NoSeq
<1>1. seq_num \in Int /\ seq_num = Plus(seq_num, 0)
  <2>1. PICK w \in Nat : w = WORD
    BY Bounds
  <2>2. seq_num + 0 = seq_num /\ 0 <= seq_num /\ seq_num < w /\ seq_num \in Int
    BY <2>1 DEF Word
  <2>. QED  BY <2>1, <2>2, Remainder DEF Plus
<1>2. Plus(seq_num, 1) # Plus(seq_num, 0)
  <2>1. 0 \in Nat /\ 1 \in Nat /\ 0 < WORD \div 2 /\ 1 < WORD \div 2 /\ 0 # 1
    BY Bounds
  <2>. QED  BY <1>1, <2>1, Compares
<1>3. m # Stray
  <2>1. Stray.ack = seq_num
    BY DEF Stray, SynAck
  <2>. QED  BY <1>1, <1>2, <2>1 DEF AcksOurSyn
<1>4. m \notin Resets
  <2>1. \A r \in Resets : r.flags = {"RST"}
    BY DEF Resets
  <2>. QED  BY <2>1
<1>5. m \notin DataSegments
  <2>1. \A e, k : "SYN" \notin DataSegment(e, k, FALSE).flags /\ "SYN" \notin DataSegment(e, k, TRUE).flags
    BY DEF DataSegment
  <2>. QED  BY <2>1 DEF DataSegments
<1>. QED  BY <1>3, <1>4, <1>5 DEF Arriving

\* read moves the front of what waits to the end of what the caller has.
LEMMA ReadReturns ==
  ASSUME NEW d \in Nat, NEW n \in Nat, Received(d, n), NEW k \in 1 .. RESPONSE_LEN, read_returns(k)
  PROVE  \E e \in Nat : Received(e, n)' /\ delivered' = Run(0, e) /\ d < e /\ e <= n
<1>0. RESPONSE_LEN \in Nat /\ d <= n /\ n <= RESPONSE_LEN
  BY Bounds DEF Received
<1>1. /\ Up /\ Up' /\ phase' = "idle" /\ UNCHANGED <<closed, ack_num, eof>> /\ pending # <<>>
  BY DEF read_returns, connVars, Up
<1>2. pending = Run(d, n) /\ delivered = Run(0, d)
  BY DEF Received
<1>3. Len(pending) = n - d /\ n - d \in Nat /\ n > d
  <2>1. Len(Run(d, n)) = n - d /\ (Run(d, n) = <<>> <=> d = n)
    BY <1>0, RunIs
  <2>2. d # n
    BY <1>1, <1>2, <2>1
  <2>. QED  BY <1>0, <1>2, <2>1, <2>2
<1>4. PICK c \in Nat : c = Least(k, Len(pending)) /\ c > 0 /\ c <= n - d
  <2>1. PICK l \in Nat : l = Len(pending) /\ l > 0 /\ l = n - d
    BY <1>3
  <2>2. Least(k, l) \in Nat /\ Least(k, l) > 0 /\ Least(k, l) <= l
    BY <1>0, <2>1 DEF Least
  <2>. QED  BY <2>1, <2>2
<1>5. PICK e \in Nat : d <= e /\ d < e /\ e <= n /\ e - d = c
  <2>1. d + c \in Nat /\ d <= d + c /\ d < d + c /\ d + c <= n /\ (d + c) - d = c
    BY <1>0, <1>4
  <2>. QED  BY <2>1
<1>6. /\ delivered' = delivered \o SubSeq(pending, 1, c)
      /\ pending' = SubSeq(pending, c + 1, n - d)
  BY <1>3, <1>4 DEF read_returns
<1>7. d <= e /\ e <= n
  BY <1>5
<1>8. /\ SubSeq(Run(d, n), 1, e - d) = Run(d, e)
      /\ SubSeq(Run(d, n), (e - d) + 1, n - d) = Run(e, n)
  BY ONLY <1>7, d \in Nat, e \in Nat, n \in Nat, RunCut
<1>10. Run(0, d) \o Run(d, e) = Run(0, e)
  <2>1. 0 <= d /\ 0 \in Nat
    OBVIOUS
  <2>. QED  BY ONLY <1>7, <2>1, d \in Nat, e \in Nat, RunJoins
<1>11. delivered' = Run(0, e) /\ pending' = Run(e, n)
  BY <1>2, <1>5, <1>6, <1>8, <1>10
<1>12. Received(e, n)'
  BY <1>1, <1>5, <1>11 DEF Received
<1>. QED  BY <1>5, <1>11, <1>12

LEMMA ReceiveStep ==
  ASSUME Types, Calls, NEW d \in Nat, NEW n \in Nat, Received(d, n), Moves
  PROVE  \E e, k \in Nat : Received(e, k)'
<1>0. RESPONSE_LEN \in Nat /\ SERVER_ISS \in Int /\ closed \in BOOLEAN /\ d <= n /\ n <= RESPONSE_LEN
  BY Bounds DEF Calls, Received
<1>00. Run(d, d) = <<>> /\ d <= d
  BY RunIs
<1>1. ASSUME NEW how \in {"done", "failed"}, drop(how) PROVE Received(d, d)'
  <2>1. phase' = how /\ pending' = <<>> /\ closed' = FALSE /\ delivered' = delivered
    BY <1>1 DEF drop, callVars
  <2>2. ~Up' /\ phase' \notin {"start", "resolve", "syn", "read"}
    BY <2>1 DEF Up
  <2>3. d <= RESPONSE_LEN
    BY <1>0
  <2>. QED  BY <1>00, <2>1, <2>2, <2>3 DEF Received
<1>2. CASE connect \/ connect_syn
  <2>1. UNCHANGED <<delivered, pending, closed, eof>> /\ ~Up /\ ~Up'
        /\ phase \in {"start", "resolve", "syn"} /\ phase' # "read"
    BY <1>2 DEF connect, connect_syn, callVars, Up
  <2>. QED  BY <2>1, StreamKept
<1>3. CASE connect_synack
  <2>1. PICK m \in Arriving :
          /\ {"SYN", "ACK"} \subseteq m.flags /\ "RST" \notin m.flags /\ AcksOurSyn(m)
          /\ ack_num' = Plus(m.seq, 1)
    BY <1>3 DEF connect_synack
  <2>2. /\ phase = "syn" /\ phase' = "idle" /\ UNCHANGED <<delivered, pending, closed, eof>>
    BY <1>3 DEF connect_synack, callVars
  <2>3. m.seq = SERVER_ISS
    <3>1. seq_num \in Word
      BY DEF Types
    <3>2. m = SynAck(Minus(s_rcv, Len(got)))
      BY <2>1, <3>1, SynAckIs
    <3>. QED  BY <3>2 DEF SynAck
  <2>4. n = 0 /\ ~closed /\ ~Up /\ Up'
    BY <2>2 DEF Received, Up
  <2>5. ack_num' = Plus(SERVER_ISS, 1 + n + (IF closed' THEN 1 ELSE 0))
    <3>1. 1 + n + (IF closed' THEN 1 ELSE 0) = 1
      BY <2>2, <2>4
    <3>. QED  BY <2>1, <2>3, <3>1
  <2>6. Received(d, n)'
    BY <2>2, <2>4, <2>5 DEF Received
  <2>. QED  BY <2>6
<1>4. ASSUME NEW k \in 1 .. REQUEST_LEN, write(k) PROVE Received(d, n)'
  <2>1. UNCHANGED <<delivered, pending, closed, eof, ack_num>> /\ Up /\ Up' /\ phase' = "send"
    BY <1>4 DEF write, connVars, Up
  <2>. QED  BY <2>1, StreamKept
<1>5. CASE write_sends \/ write_retries
  <2>1. UNCHANGED <<delivered, pending, closed, eof, ack_num>> /\ Up /\ Up' /\ phase' \in {"send", "await"}
    BY <1>5 DEF write_sends, write_retries, connVars, callVars, Up
  <2>. QED  BY <2>1, StreamKept
<1>6. CASE write_polls
  <2>1. PICK m \in Arriving : ~Ignored(m) /\ poll_takes(m)
    BY <1>6 DEF write_polls
  <2>2. UNCHANGED <<delivered, eof>> /\ Up /\ Up' /\ phase' # "read"
    BY <1>6 DEF write_polls, Up
  <2>. QED  BY <1>0, <2>1, <2>2, PollReceives
<1>7. CASE read
  <2>1. UNCHANGED <<delivered, pending, closed, eof, ack_num>> /\ Up /\ Up' /\ phase' = "read" /\ ~eof
    BY <1>7 DEF read, connVars, callVars, Up
  <2>. QED  BY <2>1, StreamKept
<1>8. CASE read_polls
  <2>1. PICK m \in Arriving : ~Ignored(m) /\ poll_takes(m)
    BY <1>8 DEF read_polls
  <2>2. UNCHANGED <<delivered, eof>> /\ Up /\ Up' /\ phase = "read"
    BY <1>8 DEF read_polls, callVars, Up
  <2>3. ~eof
    BY <2>2 DEF Received
  <2>. QED  BY <1>0, <2>1, <2>2, <2>3, PollReceives
<1>9. CASE read_end
  <2>1. UNCHANGED <<delivered, pending, closed, ack_num>> /\ Up /\ Up' /\ phase' = "idle"
    BY <1>9 DEF read_end, connVars, Up
  <2>. QED  BY <2>1 DEF Received
<1>10. ASSUME NEW k \in 1 .. RESPONSE_LEN, read_returns(k) PROVE \E e \in Nat : Received(e, n)'
  BY <1>10, ReadReturns
<1>11. CASE ServerAccept \/ ServerTake \/ Tick \/ UNCHANGED fetchVars
  <2>1. UNCHANGED <<phase, delivered, pending, closed, eof, ack_num>>
    BY <1>11 DEF ServerAccept, ServerTake, Tick, fetchVars, connVars, callVars
  <2>. QED  BY <2>1 DEF Received, Up
<1>. QED  BY <1>1, <1>2, <1>3, <1>4, <1>5, <1>6, <1>7, <1>8, <1>9, <1>10, <1>11 DEF Moves

\* What poll leaves: numbers that are words and no more than fits.
LEMMA PollTypes ==
  ASSUME Types, Calls, NEW d \in Nat, NEW n \in Nat, Received(d, n), Up,
         NEW m \in Arriving, ~Ignored(m), ~Overflows(m), poll_takes(m)
  PROVE  acknowledged' \in Word /\ ack_num' \in Word /\ Len(pending') <= BUFFER
<1>1. /\ d <= n /\ n <= RESPONSE_LEN /\ pending = Run(d, n) /\ closed \in BOOLEAN
      /\ ack_num = Plus(SERVER_ISS, 1 + n + (IF closed THEN 1 ELSE 0))
  BY DEF Received, Calls
<1>2. PICK e \in Nat : n <= e /\ e <= RESPONSE_LEN /\ Fresh(m) = Run(n, e)
  BY <1>1, FreshIs
<1>3. Len(pending) = n - d /\ Len(Fresh(m)) = e - n /\ (Fresh(m) = <<>> <=> n = e)
  BY <1>1, <1>2, RunIs
<1>4. ack_num' \in Word
  <2>1. PICK x \in Int : x = Len(Fresh(m)) + (IF Closes(m) THEN 1 ELSE 0)
    BY <1>2, <1>3
  <2>2. ack_num \in Int
    BY Bounds DEF Types, Word
  <2>3. Plus(ack_num, x) \in Word
    BY <2>2, Shifts
  <2>. QED  BY <2>1, <2>3 DEF poll_takes
<1>5. acknowledged' \in Word
  <2>1. m.ack \in Word
    <3>1. s_rcv # NoSeq /\ m.ack \in ServerAcks
      BY TakenIsData
    <3>2. PICK k \in 0 .. Len(got) : m.ack = Minus(s_rcv, k)
      BY <3>1 DEF ServerAcks
    <3>3. s_rcv \in Int /\ k \in Int
      BY <3>1, Bounds DEF Types, Word
    <3>. QED  BY <3>2, <3>3, Shifts
  <2>. QED  BY <2>1 DEF poll_takes, Types
<1>6. Len(pending') <= BUFFER
  <2>1. Run(d, n) \o Run(n, e) = Run(d, e) /\ d <= e
    <3>1. d <= e
      BY <1>1, <1>2
    <3>. QED  BY <1>1, <1>2, <3>1, RunJoins
  <2>2. pending' = Run(d, e)
    BY <1>1, <1>2, <2>1 DEF poll_takes
  <2>3. Len(pending') = e - d
    BY <2>1, <2>2, RunIs
  <2>4. BUFFER \in Nat
    BY FetchAssumption
  <2>5. CASE n = e
    BY <1>3, <2>3, <2>5 DEF Types
  <2>6. CASE n # e
    <3>1. ~(Len(pending) + Len(Fresh(m)) > BUFFER)
      BY <1>3, <2>6 DEF Overflows
    <3>. QED  BY <1>3, <2>3, <2>4, <3>1
  <2>. QED  BY <2>5, <2>6
<1>. QED  BY <1>4, <1>5, <1>6

LEMMA SegmentMade ==
  ASSUME NEW q \in Word, NEW f \in {{"SYN"}, {"PSH", "ACK"}, {"FIN", "ACK"}},
         NEW b \in Seq(1 .. REQUEST_LEN)
  PROVE  SegmentOK([seq |-> q, flags |-> f, data |-> b])
BY DEF SegmentOK

LEMMA Suffix ==
  ASSUME NEW S, NEW b \in Seq(S), NEW x \in Nat, x < Len(b)
  PROVE  SubSeq(b, x + 1, Len(b)) \in Seq(S)
<1>1. PICK l \in Nat : l = Len(b) /\ l - x \in Nat /\ (\A i \in 1 .. l - x : i + x \in 1 .. l)
  OBVIOUS
<1>2. SubSeq(b, x + 1, l) = [i \in 1 .. l - x |-> b[i + x]]
  BY <1>1
<1>3. \A i \in 1 .. l - x : b[i + x] \in S
  BY <1>1
<1>. QED  BY <1>1, <1>2, <1>3

LEMMA WordsAreNumbers == Word \subseteq Nat /\ Word \subseteq Int
BY Bounds DEF Word

LEMMA TypesStep ==
  ASSUME Types, Calls, NEW d \in Nat, NEW n \in Nat, Received(d, n), Moves
  PROVE  Types'
<1>0. /\ ticks \in Int /\ started \in Int /\ seq_num \in Int /\ 0 \in Word
      /\ TIMEOUT \in Nat /\ RETRY \in Nat /\ REQUEST_LEN \in Nat /\ BUFFER \in Nat
  BY Bounds, FetchAssumption DEF Types, Word
<1>1. ASSUME NEW how \in {"done", "failed"}, drop(how) PROVE Types'
  <2>1. /\ UNCHANGED <<ticks, started, wait_start, wait_len, s_rcv, got>>
        /\ seq_num' = 0 /\ ack_num' = 0 /\ acknowledged' = 0 /\ state' = "Closed" /\ pending' = <<>>
        /\ wire' = wire \/ wire' = wire \cup {Segment({"FIN", "ACK"}, <<>>)}
    BY <1>1 DEF drop, tcp_close, timeVars, serverVars
  <2>2. SegmentOK(Segment({"FIN", "ACK"}, <<>>))
    <3>1. seq_num \in Word /\ <<>> \in Seq(1 .. REQUEST_LEN)
      BY DEF Types
    <3>. QED  BY <3>1, SegmentMade DEF Segment
  <2>3. \A m \in wire' : SegmentOK(m)
    BY <2>1, <2>2 DEF Types
  <2>4. Len(pending') <= BUFFER
    BY <1>0, <2>1
  <2>. QED  BY <1>0, <2>1, <2>3, <2>4 DEF Types
<1>2. CASE connect
  BY <1>2 DEF connect, connVars, serverVars, Types
<1>3. CASE connect_syn
  <2>1. /\ UNCHANGED <<ticks, started, acknowledged, pending, s_rcv, got>>
        /\ wait_start' = ticks /\ wait_len' = SatMinus(TIMEOUT, Minus(ticks, started))
        /\ state' = "SynSent" /\ seq_num' = ticks /\ ack_num' = 0
        /\ wire' = wire \cup {[seq |-> ticks, flags |-> {"SYN"}, data |-> <<>>]}
    BY <1>3 DEF connect_syn, serverVars
  <2>2. wait_len' \in 0 .. (IF TIMEOUT > RETRY THEN TIMEOUT ELSE RETRY)
    <3>1. PICK x \in Nat : x = Minus(ticks, started)
      <4>1. Minus(ticks, started) \in Word
        BY <1>0, Shifts
      <4>. QED  BY <4>1, Bounds DEF Word
    <3>2. SatMinus(TIMEOUT, x) \in 0 .. (IF TIMEOUT > RETRY THEN TIMEOUT ELSE RETRY)
      BY <1>0 DEF SatMinus
    <3>. QED  BY <2>1, <3>1, <3>2
  <2>3. SegmentOK([seq |-> ticks, flags |-> {"SYN"}, data |-> <<>>])
    <3>1. ticks \in Word /\ <<>> \in Seq(1 .. REQUEST_LEN)
      BY DEF Types
    <3>. QED  BY <3>1, SegmentMade
  <2>4. \A m \in wire' : SegmentOK(m)
    BY <2>1, <2>3 DEF Types
  <2>. QED  BY <1>0, <2>1, <2>2, <2>4 DEF Types
<1>4. CASE connect_synack
  <2>1. PICK m \in Arriving :
          {"SYN", "ACK"} \subseteq m.flags /\ AcksOurSyn(m) /\ ack_num' = Plus(m.seq, 1)
    BY <1>4 DEF connect_synack
  <2>2. /\ UNCHANGED <<ticks, started, wait_start, wait_len, pending, wire, s_rcv, got>>
        /\ state' = "Established" /\ seq_num' = Plus(seq_num, 1) /\ acknowledged' = seq_num'
    BY <1>4 DEF connect_synack, timeVars, serverVars
  <2>3. m.seq = SERVER_ISS
    <3>1. seq_num \in Word
      BY DEF Types
    <3>2. m = SynAck(Minus(s_rcv, Len(got)))
      BY <2>1, <3>1, SynAckIs
    <3>. QED  BY <3>2 DEF SynAck
  <2>4. Plus(seq_num, 1) \in Word
    BY <1>0, Shifts
  <2>5. Plus(SERVER_ISS, 1) \in Word
    BY Bounds, Shifts
  <2>. QED  BY <2>1, <2>2, <2>3, <2>4, <2>5 DEF Types
<1>5. ASSUME NEW k \in 1 .. REQUEST_LEN, write(k) PROVE Types'
  BY <1>5 DEF write, timeVars, connVars, serverVars, Types
<1>6. CASE write_sends
  <2>1. PICK l \in Nat : l = ChunkLen /\ written + l <= REQUEST_LEN
    <3>1. ChunkLen \in Nat /\ written + ChunkLen <= call_end
      BY <1>6, ChunkIs DEF write_sends
    <3>2. call_end \in Nat /\ call_end <= REQUEST_LEN /\ written \in Nat
      BY DEF Calls
    <3>. QED  BY <1>0, <3>1, <3>2
  <2>2. ChunkSeq \in Word
    <3>1. Minus(seq_num, l) \in Word
      BY <1>0, Shifts
    <3>. QED  BY <2>1, <3>1 DEF ChunkSeq, Types
  <2>3. /\ UNCHANGED <<ticks, started, state, ack_num, acknowledged, pending, s_rcv, got>>
        /\ wait_start' = ticks /\ wait_len' = RETRY /\ seq_num' = Plus(ChunkSeq, ChunkLen)
        /\ wire' = wire \cup {[seq |-> ChunkSeq, flags |-> {"PSH", "ACK"},
                               data |-> SubSeq(Request, written + 1, written + ChunkLen)]}
    BY <1>6 DEF write_sends, serverVars
  <2>4. SubSeq(Request, written + 1, written + ChunkLen) \in Seq(1 .. REQUEST_LEN)
    <3>1. PICK v \in Nat, e \in Nat : v = written /\ e = written + l /\ v <= e /\ e <= REQUEST_LEN
      BY <2>1 DEF Calls
    <3>2. SubSeq(Request, v + 1, e) = Run(v, e)
      BY <3>1, RunOfStream
    <3>3. Run(v, e) \in Seq(1 .. REQUEST_LEN)
      BY <1>0, <3>1 DEF Run
    <3>. QED  BY <2>1, <3>1, <3>2, <3>3
  <2>5. SegmentOK([seq |-> ChunkSeq, flags |-> {"PSH", "ACK"},
                   data |-> SubSeq(Request, written + 1, written + ChunkLen)])
    BY <2>2, <2>4, SegmentMade
  <2>6. \A m \in wire' : SegmentOK(m)
    BY <2>3, <2>5 DEF Types
  <2>7. seq_num' \in Word
    <3>1. ChunkSeq \in Int
      BY <2>2, Bounds DEF Word
    <3>2. Plus(ChunkSeq, l) \in Word
      BY <3>1, Shifts
    <3>. QED  BY <2>1, <2>3, <3>2
  <2>8. RETRY \in 0 .. (IF TIMEOUT > RETRY THEN TIMEOUT ELSE RETRY)
    BY <1>0
  <2>. QED  BY <2>3, <2>6, <2>7, <2>8 DEF Types
<1>7. CASE write_polls
  <2>1. PICK m \in Arriving : ~Ignored(m) /\ ~Overflows(m) /\ poll_takes(m)
    BY <1>7 DEF write_polls
  <2>2. Up /\ UNCHANGED <<ticks, started, wait_start, wait_len, state, seq_num, wire, s_rcv, got>>
    BY <1>7 DEF write_polls, Up, timeVars, serverVars
  <2>3. acknowledged' \in Word /\ ack_num' \in Word /\ Len(pending') <= BUFFER
    BY <2>1, <2>2, PollTypes
  <2>. QED  BY <2>2, <2>3 DEF Types
<1>8. CASE read_polls
  <2>1. PICK m \in Arriving : ~Ignored(m) /\ ~Overflows(m) /\ poll_takes(m)
    BY <1>8 DEF read_polls
  <2>2. Up /\ UNCHANGED <<ticks, started, wait_start, wait_len, state, seq_num, wire, s_rcv, got>>
    BY <1>8 DEF read_polls, Up, timeVars, serverVars
  <2>3. acknowledged' \in Word /\ ack_num' \in Word /\ Len(pending') <= BUFFER
    BY <2>1, <2>2, PollTypes
  <2>. QED  BY <2>2, <2>3 DEF Types
<1>9. ASSUME NEW k \in 1 .. RESPONSE_LEN, read_returns(k) PROVE Types'
  <2>1. UNCHANGED <<ticks, started, wait_start, wait_len, state, seq_num, ack_num, acknowledged,
                    wire, s_rcv, got>>
    BY <1>9 DEF read_returns, timeVars, connVars, serverVars
  <2>2. PICK l \in Nat : l = Len(pending) /\ l <= BUFFER
    <3>1. d <= n /\ pending = Run(d, n)
      BY DEF Received
    <3>2. Len(Run(d, n)) = n - d
      BY <3>1, RunIs
    <3>3. n - d \in Nat
      BY <3>1
    <3>. QED  BY <3>1, <3>2, <3>3 DEF Types
  <2>3. PICK c \in Nat : pending' = SubSeq(pending, c + 1, l) /\ c <= l
    <3>1. Least(k, l) \in Nat /\ Least(k, l) <= l
      <4>1. k \in Nat
        BY Bounds
      <4>. QED  BY <4>1 DEF Least
    <3>. QED  BY <1>9, <2>2, <3>1 DEF read_returns
  <2>4. Len(pending') <= BUFFER
    <3>1. Len(SubSeq(pending, c + 1, l)) = l - c
      <4>1. pending \in Seq(Nat)
        <5>1. Run(d, n) \in Seq(Nat)
          BY DEF Received, Run
        <5>. QED  BY <5>1 DEF Received
      <4>. QED  BY <2>2, <2>3, <4>1
    <3>. QED  BY <1>0, <2>2, <2>3, <3>1
  <2>. QED  BY <2>1, <2>4 DEF Types
<1>10. CASE ServerAccept
  <2>1. PICK m \in wire : s_rcv' = Plus(m.seq, 1)
    BY <1>10 DEF ServerAccept
  <2>2. s_rcv' \in Word
    <3>1. m.seq \in Word
      BY DEF Types, SegmentOK
    <3>2. m.seq \in Int
      BY <3>1, WordsAreNumbers
    <3>3. Plus(m.seq, 1) \in Word
      BY ONLY <3>2, 1 \in Int, Shifts
    <3>. QED  BY <2>1, <3>3
  <2>3. UNCHANGED <<ticks, started, wait_start, wait_len, state, seq_num, ack_num, acknowledged,
                    pending, wire, got>>
    BY <1>10 DEF ServerAccept, timeVars, connVars
  <2>. QED  BY <2>2, <2>3 DEF Types
<1>11. CASE ServerTake
  <2>1. PICK m \in wire :
          /\ got' = got \o SubSeq(m.data, Minus(s_rcv, m.seq) + 1, Len(m.data))
          /\ s_rcv' = Plus(m.seq, Len(m.data)) /\ s_rcv # NoSeq
          /\ Minus(s_rcv, m.seq) < Len(m.data)
    BY <1>11 DEF ServerTake
  <2>2. m.seq \in Int /\ m.data \in Seq(1 .. REQUEST_LEN) /\ Len(m.data) \in Nat /\ s_rcv \in Int
    <3>1. m.seq \in Word /\ m.data \in Seq(1 .. REQUEST_LEN) /\ s_rcv \in Word
      BY <2>1 DEF Types, SegmentOK
    <3>2. Len(m.data) \in Nat
      BY <3>1
    <3>. QED  BY <3>1, <3>2, WordsAreNumbers
  <2>3. s_rcv' \in Word
    <3>1. m.seq \in Int /\ Len(m.data) \in Int
      BY <2>2
    <3>2. Plus(m.seq, Len(m.data)) \in Word
      BY ONLY <3>1, Shifts
    <3>. QED  BY <2>1, <3>2
  <2>4. got' \in Seq(1 .. REQUEST_LEN)
    <3>1. PICK x \in Nat : x = Minus(s_rcv, m.seq)
      <4>1. Minus(s_rcv, m.seq) \in Word
        BY <2>2, Shifts
      <4>. QED  BY <4>1, WordsAreNumbers
    <3>2. SubSeq(m.data, x + 1, Len(m.data)) \in Seq(1 .. REQUEST_LEN)
      <4>1. x < Len(m.data) /\ m.data \in Seq(1 .. REQUEST_LEN)
        BY <2>1, <2>2, <3>1
      <4>. QED  BY ONLY <4>1, x \in Nat, Suffix
    <3>. QED  BY <2>1, <3>1, <3>2 DEF Types
  <2>5. UNCHANGED <<ticks, started, wait_start, wait_len, state, seq_num, ack_num, acknowledged,
                    pending, wire>>
    BY <1>11 DEF ServerTake, timeVars, connVars
  <2>. QED  BY <2>3, <2>4, <2>5 DEF Types
<1>12. CASE Tick
  <2>1. Plus(ticks, 1) \in Word
    BY <1>0, Shifts
  <2>. QED  BY <1>12, <2>1 DEF Tick, timeVars, connVars, serverVars, Types
<1>13. CASE write_retries \/ read \/ read_end \/ UNCHANGED fetchVars
  BY <1>13 DEF write_retries, read, read_end, fetchVars, timeVars, connVars, serverVars, Types
<1>. QED  BY <1>1, <1>2, <1>3, <1>4, <1>5, <1>6, <1>7, <1>8, <1>9, <1>10, <1>11, <1>12, <1>13 DEF Moves

LEMMA ReceiveInvInit == FetchInit => ReceiveInv
<1>. SUFFICES ASSUME FetchInit PROVE ReceiveInv
  OBVIOUS
<1>0. /\ WORD \in Nat /\ WORD > 0 /\ REQUEST_LEN \in Nat /\ RESPONSE_LEN \in Nat /\ TRIES \in Nat
      /\ TIMEOUT \in Nat /\ RETRY \in Nat /\ BUFFER \in Nat /\ StartTicks \subseteq Word
  BY Bounds, FetchAssumption DEF Word
<1>1. 0 \in Word /\ ticks \in Word /\ Len(<<>>) = 0
  BY <1>0 DEF FetchInit, Word
<1>2. Types
  BY <1>0, <1>1 DEF FetchInit, Types
<1>3. Calls
  <2>1. phase = "start" /\ phase \in Phases
    BY DEF FetchInit, Phases
  <2>2. 0 \in 0 .. TRIES /\ 0 \in Nat /\ 0 <= 0 /\ 0 <= REQUEST_LEN
    BY <1>0
  <2>. QED  BY <2>1, <2>2 DEF FetchInit, Calls
<1>4. Received(0, 0)
  <2>1. Run(0, 0) = <<>>
    BY RunIs
  <2>. QED  BY <1>0, <2>1 DEF FetchInit, Received, Up
<1>. QED  BY <1>2, <1>3, <1>4 DEF ReceiveInv

LEMMA ReceiveInvNext == ReceiveInv /\ [FetchNext]_fetchVars => ReceiveInv'
<1>. SUFFICES ASSUME ReceiveInv, [FetchNext]_fetchVars PROVE ReceiveInv'
  OBVIOUS
<1>1. PICK d \in Nat, n \in Nat : Types /\ Calls /\ Received(d, n)
  BY DEF ReceiveInv
<1>2. Moves
  BY NextMoves
<1>3. Types'
  BY <1>1, <1>2, TypesStep
<1>4. Calls'
  BY <1>1, <1>2, CallsStep
<1>5. \E e, k \in Nat : Received(e, k)'
  BY <1>1, <1>2, ReceiveStep
<1>. QED  BY <1>3, <1>4, <1>5 DEF ReceiveInv

LEMMA ReceiveInvAlways == FetchSpec => []ReceiveInv
BY ReceiveInvInit, ReceiveInvNext, PTL DEF FetchSpec

-----------------------------------------------------------------------------
(* The way to the server.                                                  *)

\* A segment of the client is its SYN, a stretch of the request at its
\* place behind the initial sequence number s, or empty.
Carries(m, s) ==
  /\ "SYN" \in m.flags => m.seq = s
  /\ m.data = <<>> \/ \E w, e \in Nat : /\ w <= e /\ e <= REQUEST_LEN
                                        /\ m.seq = Plus(s, 1 + w) /\ m.data = Run(w, e)

\* How far the chunk in transmission is ahead of what is acknowledged.
InFlight == IF tries = 0 THEN 0 ELSE ChunkLen

\* The server has r bytes of the request and expects the next; the client
\* has seen k of them acknowledged.
Linked(s, k, r) ==
  /\ r <= REQUEST_LEN /\ got = Run(0, r) /\ \A m \in wire : Carries(m, s)
  /\ IF s_rcv = NoSeq THEN r = 0 ELSE s_rcv = Plus(s, 1 + r)
  /\ phase \in {"start", "resolve"} => wire = {} /\ s_rcv = NoSeq
  /\ phase \in {"start", "resolve", "syn"} => written = 0
  /\ phase = "syn" => seq_num = s
  /\ Up => /\ s_rcv # NoSeq /\ k <= r /\ acknowledged = Plus(s, 1 + k)
           /\ seq_num = Plus(s, 1 + (written + InFlight))

SendInv == \E s \in Word, k, r \in Nat : Linked(s, k, r)

\* The chunk in transmission and the acknowledgements, while the segments
\* and the server are left alone.
LEMMA LinkKept ==
  ASSUME NEW s, NEW k \in Nat, NEW j \in Nat, NEW r \in Nat, Linked(s, k, r),
         UNCHANGED <<wire, s_rcv, got>>, Up,
         phase' \notin {"start", "resolve", "syn"},
         Up' => /\ j <= r /\ acknowledged' = Plus(s, 1 + j)
                /\ seq_num' = Plus(s, 1 + (written' + InFlight'))
  PROVE  Linked(s, j, r)'
BY DEF Linked

LEMMA DropLinks ==
  ASSUME NEW s, NEW k \in Nat, NEW r \in Nat, Linked(s, k, r),
         NEW how \in {"done", "failed"}, drop(how)
  PROVE  Linked(s, k, r)'
<1>1. phase' = how /\ ~Up' /\ UNCHANGED <<s_rcv, got>>
  BY DEF drop, serverVars, Up
<1>2. Carries(Segment({"FIN", "ACK"}, <<>>), s)
  BY DEF Carries, Segment
<1>3. \A m \in wire' : Carries(m, s)
  BY <1>2 DEF drop, tcp_close, Linked
<1>. QED  BY <1>1, <1>3 DEF Linked

\* The SYN gives the stream its initial sequence number.
LEMMA SynLinks ==
  ASSUME Types, NEW s, NEW k \in Nat, NEW r \in Nat, Linked(s, k, r), connect_syn
  PROVE  Linked(ticks, k, r)' /\ ticks' = ticks /\ ticks \in Word
<1>1. /\ phase = "resolve" /\ phase' = "syn" /\ seq_num' = ticks /\ ticks' = ticks
      /\ wire' = wire \cup {[seq |-> ticks, flags |-> {"SYN"}, data |-> <<>>]}
      /\ UNCHANGED <<s_rcv, got, written>>
  BY DEF connect_syn, serverVars, callVars
<1>2. wire = {} /\ s_rcv = NoSeq /\ r = 0 /\ written = 0 /\ got = Run(0, r) /\ r <= REQUEST_LEN
  BY <1>1 DEF Linked
<1>3. Carries([seq |-> ticks, flags |-> {"SYN"}, data |-> <<>>], ticks)
  BY DEF Carries
<1>4. \A m \in wire' : Carries(m, ticks)
  BY <1>1, <1>2, <1>3
<1>. QED  BY <1>1, <1>2, <1>4 DEF Linked, Up, Types

LEMMA SynAckLinks ==
  ASSUME Types, Calls, NEW s \in Word, NEW k \in Nat, NEW r \in Nat, Linked(s, k, r), connect_synack
  PROVE  Linked(s, 0, r)'
<1>1. /\ phase = "syn" /\ phase' = "idle" /\ seq_num' = Plus(seq_num, 1) /\ acknowledged' = seq_num'
      /\ UNCHANGED <<wire, s_rcv, got, written, tries>>
  BY DEF connect_synack, callVars, serverVars
<1>2. s_rcv # NoSeq
  <2>1. PICK m \in Arriving : {"SYN", "ACK"} \subseteq m.flags /\ AcksOurSyn(m)
    BY DEF connect_synack
  <2>2. seq_num \in Word
    BY DEF Types
  <2>. QED  BY <2>1, <2>2, SynAckIs
<1>3. seq_num = s /\ written = 0 /\ tries = 0
  BY <1>1 DEF Linked, Calls
<1>4. InFlight' = 0
  BY <1>1, <1>3 DEF InFlight
<1>5. 1 + 0 = 1 /\ 1 + (written' + InFlight') = 1 /\ 0 <= r
  BY <1>1, <1>3, <1>4
<1>. QED  BY <1>1, <1>2, <1>3, <1>5 DEF Linked

LEMMA WriteLinks ==
  ASSUME Types, Calls, NEW s \in Word, NEW k \in Nat, NEW r \in Nat, Linked(s, k, r), write_sends
  PROVE  Linked(s, k, r)'
<1>1. /\ phase = "send" /\ phase' = "await" /\ Up /\ tries' = tries + 1 /\ tries \in Nat
      /\ UNCHANGED <<s_rcv, got, written, call_end, acknowledged>>
      /\ seq_num' = Plus(ChunkSeq, ChunkLen)
      /\ wire' = wire \cup {[seq |-> ChunkSeq, flags |-> {"PSH", "ACK"},
                             data |-> SubSeq(Request, written + 1, written + ChunkLen)]}
  BY DEF write_sends, serverVars, Up, Calls
<1>2. PICK l \in Nat, w \in Nat, e \in Nat :
        l = ChunkLen /\ w = written /\ e = w + l /\ w <= e /\ e <= REQUEST_LEN
  <2>1. ChunkLen \in Nat /\ written + ChunkLen <= call_end
    BY <1>1, ChunkIs
  <2>2. call_end \in Nat /\ call_end <= REQUEST_LEN /\ written \in Nat /\ REQUEST_LEN \in Nat
    BY Bounds DEF Calls
  <2>3. written + ChunkLen \in Nat /\ written <= written + ChunkLen /\ written + ChunkLen <= REQUEST_LEN
    BY <2>1, <2>2
  <2>. QED  BY <2>1, <2>2, <2>3
<1>3. seq_num = Plus(s, 1 + (w + InFlight)) /\ s \in Int
  BY <1>1, <1>2, WordsAreNumbers DEF Linked
<1>4. ChunkSeq = Plus(s, 1 + w)
  <2>1. CASE tries = 0
    <3>1. InFlight = 0
      BY <2>1 DEF InFlight
    <3>2. 1 + (w + InFlight) = 1 + w
      BY <3>1
    <3>. QED  BY <1>3, <2>1, <3>2 DEF ChunkSeq
  <2>2. CASE tries # 0
    <3>1. seq_num = Plus(s, 1 + (w + l)) /\ ChunkSeq = Minus(seq_num, l)
      BY <1>2, <1>3, <2>2 DEF InFlight, ChunkSeq
    <3>2. PICK x \in Int : x = 1 + (w + l) /\ x - l = 1 + w
      OBVIOUS
    <3>3. Minus(Plus(s, x), l) = Plus(s, x - l)
      BY <1>3, Shifts
    <3>. QED  BY <3>1, <3>2, <3>3
  <2>. QED  BY <2>1, <2>2
<1>5. Carries([seq |-> ChunkSeq, flags |-> {"PSH", "ACK"},
               data |-> SubSeq(Request, written + 1, written + ChunkLen)], s)
  <2>1. SubSeq(Request, w + 1, e) = Run(w, e)
    BY <1>2, RunOfStream
  <2>2. SubSeq(Request, written + 1, written + ChunkLen) = Run(w, e)
    BY <1>2, <2>1
  <2>. QED  BY <1>2, <1>4, <2>2 DEF Carries
<1>6. \A m \in wire' : Carries(m, s)
  BY <1>1, <1>5 DEF Linked
<1>7. seq_num' = Plus(s, 1 + (written' + InFlight'))
  <2>1. InFlight' = l
    <3>1. tries' # 0 /\ ChunkLen' = ChunkLen
      BY <1>1 DEF ChunkLen
    <3>. QED  BY <1>2, <3>1 DEF InFlight
  <2>2. PICK x \in Int : x = 1 + w /\ x + l = 1 + (w + l)
    OBVIOUS
  <2>3. Plus(Plus(s, x), l) = Plus(s, x + l)
    BY <1>3, Shifts
  <2>. QED  BY <1>1, <1>2, <1>4, <2>1, <2>2, <2>3
<1>. QED  BY <1>1, <1>6, <1>7 DEF Linked

\* An acknowledgement moves the client up to what it acknowledges, and no
\* further than the server has got.
LEMMA AckMoves ==
  ASSUME NEW s \in Word, NEW k \in Nat, NEW r \in Nat, Linked(s, k, r), Up,
         NEW m \in Arriving, ~Ignored(m), poll_takes(m)
  PROVE  \E j \in Nat : k <= j /\ j <= r /\ acknowledged' = Plus(s, 1 + j)
<1>1. /\ s_rcv = Plus(s, 1 + r) /\ acknowledged = Plus(s, 1 + k) /\ k <= r /\ r <= REQUEST_LEN
      /\ got = Run(0, r) /\ s_rcv # NoSeq
  BY DEF Linked
<1>2. s \in Int /\ REQUEST_LEN \in Nat /\ 0 <= r /\ r - 0 = r
  BY WordsAreNumbers, Bounds
<1>3. Len(got) = r
  <2>1. Len(Run(0, r)) = r - 0
    BY <1>2, RunIs
  <2>. QED  BY <1>1, <1>2, <2>1
<1>4. PICK i \in Nat : i <= r /\ m.ack = Plus(s, 1 + i)
  <2>1. m.ack \in ServerAcks
    BY TakenIsData
  <2>2. PICK x \in 0 .. r : m.ack = Minus(s_rcv, x)
    BY <1>3, <2>1 DEF ServerAcks
  <2>3. PICK y \in Int, i \in Nat : y = 1 + r /\ i = r - x /\ y - x = 1 + i /\ i <= r
    OBVIOUS
  <2>4. Minus(Plus(s, y), x) = Plus(s, y - x)
    BY <1>2, Shifts
  <2>. QED  BY <1>1, <2>2, <2>3, <2>4
<1>5. PICK x \in Nat, y \in Nat : /\ x = 1 + i /\ y = 1 + k /\ (x > y <=> i > k)
                                  /\ x < WORD \div 2 /\ y < WORD \div 2
  <2>1. PICK half \in Nat : half = WORD \div 2 /\ REQUEST_LEN + 2 < half
    BY Bounds
  <2>2. 1 + i < half /\ 1 + k < half /\ (1 + i > 1 + k <=> i > k)
    BY <1>1, <1>2, <1>4, <2>1
  <2>. QED  BY <2>1, <2>2
<1>6. Ahead(m.ack, acknowledged) <=> i > k
  <2>1. Ahead(Plus(s, x), Plus(s, y)) <=> x > y
    BY <1>2, <1>5, Compares
  <2>. QED  BY <1>1, <1>4, <1>5, <2>1
<1>7. CASE i > k
  BY <1>4, <1>6, <1>7 DEF poll_takes
<1>8. CASE ~(i > k)
  BY <1>1, <1>6, <1>8 DEF poll_takes
<1>. QED  BY <1>7, <1>8

\* A chunk is reported written when the server has it.
LEMMA ConfirmLinks ==
  ASSUME Types, Calls, NEW s \in Word, NEW k \in Nat, NEW r \in Nat, Linked(s, k, r), write_polls
  PROVE  /\ \E j \in Nat : Linked(s, j, r)'
         /\ \/ written' = written
            \/ written' \in written + 1 .. r
<1>1. PICK m \in Arriving : ~Ignored(m) /\ poll_takes(m)
  BY DEF write_polls
<1>2. /\ Up /\ Up' /\ phase' \in {"idle", "send", "await"} /\ phase = "await"
      /\ UNCHANGED <<wire, s_rcv, got, seq_num, call_end>>
  BY DEF write_polls, Up, serverVars
<1>3. PICK j \in Nat : k <= j /\ j <= r /\ acknowledged' = Plus(s, 1 + j)
  BY <1>1, <1>2, AckMoves
<1>4. seq_num = Plus(s, 1 + (written + InFlight))
  BY <1>2 DEF Linked
<1>5. PICK l \in Nat, w \in Nat : l = ChunkLen /\ l > 0 /\ w = written /\ w + l <= REQUEST_LEN
  <2>1. ChunkLen \in Nat /\ ChunkLen > 0 /\ written + ChunkLen <= call_end
    BY <1>2, ChunkIs
  <2>2. call_end \in Nat /\ call_end <= REQUEST_LEN /\ written \in Nat /\ REQUEST_LEN \in Nat
    BY Bounds DEF Calls
  <2>. QED  BY <2>1, <2>2
<1>6. InFlight = l
  <2>1. tries # 0
    BY <1>2 DEF Calls
  <2>. QED  BY <1>5, <2>1 DEF InFlight
<1>7. CASE ChunkAcked /\ written' = written + ChunkLen /\ tries' = 0
  <2>1. j = w + l
    <3>1. Plus(s, 1 + j) = Plus(s, 1 + (w + l))
      BY <1>2, <1>3, <1>4, <1>5, <1>6, <1>7 DEF ChunkAcked
    <3>2. PICK x \in Nat, y \in Nat : /\ x = 1 + j /\ y = 1 + (w + l) /\ (x = y => j = w + l)
                                      /\ x < WORD \div 2 /\ y < WORD \div 2
      <4>1. PICK half \in Nat : half = WORD \div 2 /\ REQUEST_LEN + 2 < half
        BY Bounds
      <4>2. r <= REQUEST_LEN /\ REQUEST_LEN \in Nat
        BY Bounds DEF Linked
      <4>3. 1 + j < half /\ 1 + (w + l) < half
        BY <1>3, <1>5, <4>1, <4>2
      <4>. QED  BY <4>1, <4>3
    <3>3. s \in Int
      BY WordsAreNumbers
    <3>4. x = y
      BY <3>1, <3>2, <3>3, Compares
    <3>. QED  BY <3>2, <3>4
  <2>2. written' = w + l /\ InFlight' = 0
    BY <1>5, <1>7 DEF InFlight
  <2>3. 1 + (written' + InFlight') = 1 + (w + l)
    BY <2>2
  <2>4. seq_num' = Plus(s, 1 + (written' + InFlight'))
    BY <1>2, <1>4, <1>5, <1>6, <2>3
  <2>5. Linked(s, j, r)'
    BY <1>2, <1>3, <2>4, LinkKept
  <2>6. written' \in written + 1 .. r
    BY <1>3, <1>5, <2>1, <2>2
  <2>. QED  BY <2>5, <2>6
<1>8. CASE UNCHANGED <<written, phase, tries>>
  <2>1. InFlight' = InFlight
    BY <1>2, <1>8 DEF InFlight, ChunkLen
  <2>2. seq_num' = Plus(s, 1 + (written' + InFlight'))
    BY <1>2, <1>4, <1>8, <2>1
  <2>3. Linked(s, j, r)'
    BY <1>2, <1>3, <2>2, LinkKept
  <2>. QED  BY <1>8, <2>3
<1>. QED  BY <1>7, <1>8 DEF write_polls

LEMMA AcceptLinks ==
  ASSUME Types, NEW s \in Word, NEW k \in Nat, NEW r \in Nat, Linked(s, k, r), ServerAccept
  PROVE  Linked(s, k, r)'
<1>1. PICK m \in wire : "SYN" \in m.flags /\ s_rcv' = Plus(m.seq, 1)
  BY DEF ServerAccept
<1>2. /\ s_rcv = NoSeq /\ ~Up /\ r = 0 /\ m.seq = s
      /\ phase \notin {"start", "resolve"}
  BY <1>1 DEF ServerAccept, Linked, Carries
<1>3. UNCHANGED <<phase, got, wire, written, seq_num>>
  BY DEF ServerAccept, connVars, callVars
<1>4. s_rcv' = Plus(s, 1 + r) /\ ~Up'
  <2>1. 1 + r = 1
    BY <1>2
  <2>. QED  BY <1>1, <1>2, <1>3, <2>1 DEF Up
<1>. QED  BY <1>2, <1>3, <1>4 DEF Linked

\* What the server takes goes on where it was, whatever was sent again.
LEMMA TakeLinks ==
  ASSUME Types, Calls, NEW s \in Word, NEW k \in Nat, NEW r \in Nat, Linked(s, k, r), ServerTake
  PROVE  \E e \in Nat : Linked(s, k, e)' /\ r < e /\ e <= REQUEST_LEN
<1>1. PICK m \in wire :
        /\ s_rcv # NoSeq /\ Minus(s_rcv, m.seq) < Len(m.data)
        /\ got' = got \o SubSeq(m.data, Minus(s_rcv, m.seq) + 1, Len(m.data))
        /\ s_rcv' = Plus(m.seq, Len(m.data))
  BY DEF ServerTake
<1>2. Carries(m, s) /\ s_rcv = Plus(s, 1 + r) /\ got = Run(0, r) /\ r <= REQUEST_LEN
  BY <1>1 DEF Linked
<1>3. s \in Int /\ REQUEST_LEN \in Nat
  BY WordsAreNumbers, Bounds
<1>4. PICK half \in Nat : half = WORD \div 2 /\ REQUEST_LEN + 2 < half
  BY Bounds
<1>5. m.data # <<>>
  <2>. SUFFICES ASSUME m.data = <<>> PROVE FALSE
    OBVIOUS
  <2>1. Len(m.data) = 0
    OBVIOUS
  <2>2. m.seq \in Int /\ s_rcv \in Int
    <3>1. m.seq \in Word /\ s_rcv \in Word
      BY <1>1 DEF Types, SegmentOK
    <3>. QED  BY <3>1, WordsAreNumbers
  <2>3. Minus(s_rcv, m.seq) \in Nat
    BY <2>2, Shifts, WordsAreNumbers
  <2>. QED  BY <1>1, <2>1, <2>3
<1>6. PICK w \in Nat, e \in Nat : /\ w <= e /\ e <= REQUEST_LEN
                                  /\ m.seq = Plus(s, 1 + w) /\ m.data = Run(w, e)
  BY <1>2, <1>5 DEF Carries
<1>7. Len(m.data) = e - w
  BY <1>6, RunIs
<1>8. PICK x \in Nat, y \in Nat : /\ x = 1 + r /\ y = 1 + w /\ x < WORD \div 2 /\ y < WORD \div 2
                                  /\ x - y = r - w
  BY <1>2, <1>3, <1>4, <1>6
<1>9. w <= r /\ Minus(s_rcv, m.seq) = r - w
  <2>1. ~(x < y)
    <3>. SUFFICES ASSUME x < y PROVE FALSE
      OBVIOUS
    <3>1. Minus(Plus(s, x), Plus(s, y)) > WORD \div 2
      BY <1>3, <1>8, Compares
    <3>2. PICK z : z = Minus(Plus(s, x), Plus(s, y))
      OBVIOUS
    <3>3. z > half /\ z < e - w
      BY <1>1, <1>2, <1>4, <1>6, <1>7, <1>8, <3>1, <3>2
    <3>4. z \in Nat
      <4>1. Minus(Plus(s, x), Plus(s, y)) = (x - y) % WORD
        BY <1>3, Shifts
      <4>2. x - y \in Int /\ WORD \in Nat /\ WORD > 0
        BY Bounds
      <4>. QED  BY <3>2, <4>1, <4>2, DivMod
    <3>. QED  BY <1>3, <1>4, <1>6, <3>3, <3>4
  <2>2. Minus(Plus(s, x), Plus(s, y)) = x - y
    BY <1>3, <1>8, <2>1, Compares
  <2>. QED  BY <1>2, <1>6, <1>8, <2>1, <2>2
<1>10. r < e /\ r <= e
  BY <1>1, <1>7, <1>9
<1>11. got' = Run(0, e)
  <2>1. SubSeq(Run(w, e), (r - w) + 1, e - w) = Run(r, e)
    <3>1. w <= r /\ r <= e
      BY <1>9, <1>10
    <3>. QED  BY ONLY <3>1, w \in Nat, e \in Nat, r \in Nat, RunCut
  <2>2. got' = Run(0, r) \o Run(r, e)
    BY <1>1, <1>2, <1>6, <1>7, <1>9, <2>1
  <2>3. 0 <= r /\ 0 \in Nat
    OBVIOUS
  <2>. QED  BY <1>10, <2>2, <2>3, RunJoins
<1>12. s_rcv' = Plus(s, 1 + e) /\ s_rcv' # NoSeq
  <2>1. PICK z \in Int, l \in Int : z = 1 + w /\ l = e - w /\ z + l = 1 + e
    OBVIOUS
  <2>2. Plus(Plus(s, z), l) = Plus(s, z + l) /\ Plus(s, z + l) \in Word
    <3>1. z + l \in Int
      BY <2>1
    <3>. QED  BY ONLY <1>3, <3>1, z \in Int, l \in Int, Shifts
  <2>3. NoSeq \notin Word
    BY WordsAreNumbers DEF NoSeq
  <2>. QED  BY <1>1, <1>6, <1>7, <2>1, <2>2, <2>3
<1>13. UNCHANGED <<phase, wire, written, tries, call_end, seq_num, acknowledged>>
  BY DEF ServerTake, connVars, callVars
<1>14. Up' => k <= e /\ acknowledged' = Plus(s, 1 + k) /\ seq_num' = Plus(s, 1 + (written' + InFlight'))
  <2>1. InFlight' = InFlight /\ (Up' <=> Up)
    BY <1>13 DEF InFlight, ChunkLen, Up
  <2>2. Up => k <= e
    BY <1>10 DEF Linked
  <2>. QED  BY <1>13, <2>1, <2>2 DEF Linked
<1>15. phase' \notin {"start", "resolve"} /\ (\A v \in wire' : Carries(v, s))
  BY <1>1, <1>13 DEF Linked
<1>16. Linked(s, k, e)'
  BY <1>6, <1>11, <1>12, <1>13, <1>14, <1>15 DEF Linked
<1>. QED  BY <1>6, <1>10, <1>16

LEMMA SendStep ==
  ASSUME Types, Calls, NEW s \in Word, NEW k \in Nat, NEW r \in Nat, Linked(s, k, r), Moves
  PROVE  SendInv'
<1>0. ASSUME NEW t \in Word, NEW j \in Nat, NEW q \in Nat, Linked(t, j, q)' PROVE SendInv'
  BY <1>0 DEF SendInv, Word
<1>1. ASSUME NEW how \in {"done", "failed"}, drop(how) PROVE SendInv'
  BY <1>0, <1>1, DropLinks
<1>2. CASE connect
  <2>1. /\ phase = "start" /\ phase' = "resolve" /\ UNCHANGED <<wire, s_rcv, got, written>>
    BY <1>2 DEF connect, serverVars, callVars
  <2>2. Linked(s, k, r)'
    BY <2>1 DEF Linked, Up
  <2>. QED  BY <1>0, <2>2
<1>3. CASE connect_syn
  <2>1. ticks \in Word /\ Linked(ticks, k, r)' /\ ticks' = ticks
    BY <1>3, SynLinks
  <2>. QED  BY <1>0, <2>1
<1>4. CASE connect_synack
  BY <1>0, <1>4, SynAckLinks
<1>5. ASSUME NEW n \in 1 .. REQUEST_LEN, write(n) PROVE SendInv'
  <2>1. /\ Up /\ phase = "idle" /\ phase' = "send" /\ tries' = 0
        /\ UNCHANGED <<wire, s_rcv, got, written, seq_num, acknowledged>>
    BY <1>5 DEF write, serverVars, connVars, Up
  <2>2. InFlight = 0 /\ InFlight' = 0
    BY <2>1 DEF InFlight, Calls
  <2>3. k <= r /\ acknowledged' = Plus(s, 1 + k) /\ seq_num' = Plus(s, 1 + (written' + InFlight'))
    BY <2>1, <2>2 DEF Linked
  <2>4. Linked(s, k, r)'
    BY <2>1, <2>3, LinkKept
  <2>. QED  BY <1>0, <2>4
<1>6. CASE write_sends
  BY <1>0, <1>6, WriteLinks
<1>7. CASE write_retries \/ read \/ read_polls \/ read_end \/ \E n \in 1 .. RESPONSE_LEN : read_returns(n)
  <2>1. Up /\ phase' \notin {"start", "resolve", "syn"}
    BY <1>7 DEF write_retries, read, read_polls, read_end, read_returns, Up
  <2>2. UNCHANGED <<wire, s_rcv, got, written, tries, call_end, seq_num>>
    BY <1>7 DEF write_retries, read, read_polls, read_end, read_returns, connVars, callVars, serverVars
  <2>3. InFlight' = InFlight
    BY <2>2 DEF InFlight, ChunkLen
  <2>4. seq_num' = Plus(s, 1 + (written' + InFlight'))
    BY <2>1, <2>2, <2>3 DEF Linked
  <2>5. CASE read_polls
    <3>1. PICK m \in Arriving : ~Ignored(m) /\ poll_takes(m)
      BY <2>5 DEF read_polls
    <3>2. PICK j \in Nat : j <= r /\ acknowledged' = Plus(s, 1 + j)
      BY <2>1, <3>1, AckMoves
    <3>3. Linked(s, j, r)'
      BY <2>1, <2>2, <2>4, <3>2, LinkKept
    <3>. QED  BY <1>0, <3>3
  <2>6. CASE acknowledged' = acknowledged
    <3>1. k <= r /\ acknowledged' = Plus(s, 1 + k)
      BY <2>1, <2>6 DEF Linked
    <3>2. Linked(s, k, r)'
      BY <2>1, <2>2, <2>4, <3>1, LinkKept
    <3>. QED  BY <1>0, <3>2
  <2>. QED  BY <1>7, <2>5, <2>6 DEF write_retries, read, read_end, read_returns
<1>8. CASE write_polls
  BY <1>0, <1>8, ConfirmLinks
<1>9. CASE ServerAccept
  BY <1>0, <1>9, AcceptLinks
<1>10. CASE ServerTake
  BY <1>0, <1>10, TakeLinks
<1>11. CASE Tick \/ UNCHANGED fetchVars
  <2>1. UNCHANGED <<phase, wire, s_rcv, got, written, tries, call_end, seq_num, acknowledged>>
    BY <1>11 DEF Tick, fetchVars, connVars, callVars, serverVars
  <2>2. Linked(s, k, r)'
    BY <2>1 DEF Linked, Up, InFlight, ChunkLen
  <2>. QED  BY <1>0, <2>2
<1>. QED  BY <1>1, <1>2, <1>3, <1>4, <1>5, <1>6, <1>7, <1>8, <1>9, <1>10, <1>11 DEF Moves

LEMMA SendInvInit == FetchInit => SendInv
<1>. SUFFICES ASSUME FetchInit PROVE SendInv
  OBVIOUS
<1>1. Run(0, 0) = <<>> /\ 0 \in Word /\ 0 <= REQUEST_LEN
  <2>1. 0 <= 0 /\ 0 \in Nat
    OBVIOUS
  <2>. QED  BY <2>1, RunIs, Bounds DEF Word
<1>2. Linked(0, 0, 0)
  BY <1>1 DEF FetchInit, Linked, Up
<1>. QED  BY <1>1, <1>2 DEF SendInv

-----------------------------------------------------------------------------
(* Every step is one of the byte stream's.                                 *)

LEMMA StreamStep ==
  ASSUME ReceiveInv, SendInv, [FetchNext]_fetchVars
  PROVE  [Stream!StreamNext]_(Stream!streamVars)
<1>0. Moves
  BY NextMoves
<1>. USE DEF Stream!StreamNext, Stream!streamVars
<1>1. PICK d \in Nat, n \in Nat : Types /\ Calls /\ Received(d, n)
  BY DEF ReceiveInv
<1>2. PICK s \in Word, k \in Nat, r \in Nat : Linked(s, k, r)
  BY DEF SendInv
<1>3. d <= n /\ n <= RESPONSE_LEN /\ delivered = Run(0, d) /\ pending = Run(d, n)
  BY <1>1 DEF Received
<1>4. got = Run(0, r) /\ Len(got) = r
  <2>1. 0 <= r /\ r - 0 = r
    OBVIOUS
  <2>2. Len(Run(0, r)) = r - 0
    BY <2>1, RunIs
  <2>. QED  BY <1>2, <2>1, <2>2 DEF Linked
<1>5. CASE ServerTake
  <2>1. PICK e \in Nat : Linked(s, k, e)' /\ r < e /\ e <= REQUEST_LEN
    BY <1>1, <1>2, <1>5, TakeLinks
  <2>2. got' = SubSeq(Request, 1, e)
    <3>1. 0 <= e /\ 0 + 1 = 1
      OBVIOUS
    <3>2. SubSeq(Request, 0 + 1, e) = Run(0, e)
      BY <2>1, <3>1, RunOfStream
    <3>. QED  BY <2>1, <3>1, <3>2 DEF Linked
  <2>3. e \in Len(got) + 1 .. Len(Request)
    <3>1. Len(Request) = REQUEST_LEN /\ REQUEST_LEN \in Nat
      BY RunOfStream, Bounds
    <3>. QED  BY <1>4, <2>1, <3>1
  <2>4. UNCHANGED <<written, delivered, eof>>
    BY <1>5 DEF ServerTake, callVars
  <2>. QED  BY <2>2, <2>3, <2>4 DEF Stream!Arrive
<1>6. CASE write_polls
  <2>1. UNCHANGED <<got, delivered, eof>>
    BY <1>6 DEF write_polls, serverVars
  <2>2. written' = written \/ written' \in written + 1 .. Len(got)
    BY <1>1, <1>2, <1>4, <1>6, ConfirmLinks
  <2>. QED  BY <2>1, <2>2 DEF Stream!Confirm
<1>7. ASSUME NEW c \in 1 .. RESPONSE_LEN, read_returns(c)
      PROVE  Stream!Read
  <2>1. PICK e \in Nat : d < e /\ e <= n /\ delivered' = Run(0, e)
    BY <1>1, <1>7, ReadReturns
  <2>2. ~eof /\ UNCHANGED <<got, written, eof>>
    BY <1>1, <1>7 DEF read_returns, Received, serverVars
  <2>3. delivered' = SubSeq(Response, 1, e)
    <3>1. 0 <= e /\ 0 + 1 = 1 /\ e <= RESPONSE_LEN
      BY <1>3, <2>1, Bounds
    <3>2. SubSeq(Response, 0 + 1, e) = Run(0, e)
      BY <3>1, RunOfStream
    <3>. QED  BY <2>1, <3>1, <3>2
  <2>4. e \in Len(delivered) + 1 .. Len(Response)
    <3>1. Len(Response) = RESPONSE_LEN /\ RESPONSE_LEN \in Nat
      BY RunOfStream, Bounds
    <3>2. 0 <= d /\ d - 0 = d
      OBVIOUS
    <3>3. Len(delivered) = d
      BY <1>3, <3>2, RunIs
    <3>. QED  BY <1>3, <2>1, <3>1, <3>3
  <2>. QED  BY <2>2, <2>3, <2>4 DEF Stream!Read
<1>8. CASE read_end
  <2>1. phase = "read" /\ pending = <<>> /\ closed /\ eof' = TRUE /\ UNCHANGED <<got, written, delivered>>
    BY <1>8 DEF read_end, serverVars
  <2>2. n = RESPONSE_LEN /\ d = n
    <3>1. Run(d, n) = <<>> => d = n
      BY <1>3, RunIs
    <3>. QED  BY <1>1, <1>3, <2>1, <3>1 DEF Received, Up
  <2>3. delivered = Response
    <3>1. Response = Run(0, RESPONSE_LEN)
      <4>1. 0 <= 0 /\ 0 \in Nat
        OBVIOUS
      <4>. QED  BY <4>1, RunOfStream
    <3>. QED  BY <1>3, <2>2, <3>1
  <2>. QED  BY <2>1, <2>3 DEF Stream!ReadEnd
<1>9. ASSUME NEW how \in {"done", "failed"}, drop(how) PROVE UNCHANGED <<got, written, delivered, eof>>
  BY <1>9 DEF drop, callVars, serverVars
<1>10. CASE connect \/ connect_syn \/ connect_synack \/ \E c \in 1 .. REQUEST_LEN : write(c)
  BY <1>10 DEF connect, connect_syn, connect_synack, write, callVars, serverVars
<1>11. CASE write_sends \/ write_retries \/ read \/ read_polls
  BY <1>11 DEF write_sends, write_retries, read, read_polls, callVars, serverVars
<1>12. CASE ServerAccept \/ Tick \/ UNCHANGED fetchVars
  BY <1>12 DEF ServerAccept, Tick, fetchVars, callVars, serverVars
<1>. QED  BY <1>0, <1>5, <1>6, <1>7, <1>8, <1>9, <1>10, <1>11, <1>12 DEF Moves

-----------------------------------------------------------------------------
(* The theorems.                                                           *)

\* No handler leaves a number outside its word, a chunk transmitted more
\* often than TRIES, more bytes waiting than BUFFER, or a byte read that the
\* server did not send.
THEOREM FetchTypeCorrect == FetchSpec => []FetchTypeOK
<1>1. ReceiveInv => FetchTypeOK
  <2>. SUFFICES ASSUME ReceiveInv PROVE FetchTypeOK
    OBVIOUS
  <2>1. PICK d \in Nat, n \in Nat : Types /\ Calls /\ Received(d, n)
    BY DEF ReceiveInv
  <2>2. d <= n /\ n <= RESPONSE_LEN /\ delivered = Run(0, d) /\ pending = Run(d, n)
    BY <2>1 DEF Received
  <2>3. pending \in Seq(1 .. RESPONSE_LEN) /\ delivered \in Seq(1 .. RESPONSE_LEN)
    <3>1. RESPONSE_LEN \in Nat
      BY Bounds
    <3>2. Run(0, d) \in Seq(1 .. RESPONSE_LEN) /\ Run(d, n) \in Seq(1 .. RESPONSE_LEN)
      BY <2>2, <3>1 DEF Run
    <3>. QED  BY <2>2, <3>2
  <2>4. call_end \in 0 .. REQUEST_LEN /\ written \in 0 .. REQUEST_LEN
    BY <2>1, Bounds DEF Calls
  <2>5. \A m \in wire : /\ m.seq \in Word
                        /\ m.flags \in {{"SYN"}, {"PSH", "ACK"}, {"FIN", "ACK"}}
                        /\ m.data \in Seq(1 .. REQUEST_LEN)
    BY <2>1 DEF Types, SegmentOK
  <2>. QED  BY <2>1, <2>3, <2>4, <2>5 DEF FetchTypeOK, Types, Calls
<1>. QED  BY <1>1, ReceiveInvAlways, PTL

\* However the network loses, repeats and reorders, what the client has
\* acknowledged is read or waits to be read, in order and without a gap.
THEOREM AcknowledgedIsHeld == FetchSpec => []AckedIsHeld
<1>1. ReceiveInv => AckedIsHeld
  <2>. SUFFICES ASSUME ReceiveInv, phase \in {"idle", "send", "await", "read"}
       PROVE  LET held == delivered \o pending IN
                /\ held = SubSeq(Response, 1, Len(held))
                /\ ack_num = Plus(SERVER_ISS, 1 + Len(held) + (IF closed THEN 1 ELSE 0))
                /\ closed => held = Response
    BY DEF AckedIsHeld
  <2>1. PICK d \in Nat, n \in Nat : Received(d, n)
    BY DEF ReceiveInv
  <2>2. /\ d <= n /\ n <= RESPONSE_LEN /\ delivered = Run(0, d) /\ pending = Run(d, n)
        /\ ack_num = Plus(SERVER_ISS, 1 + n + (IF closed THEN 1 ELSE 0))
        /\ closed => n = RESPONSE_LEN
    BY <2>1 DEF Received, Up
  <2>3. delivered \o pending = Run(0, n)
    <3>1. 0 <= d /\ 0 \in Nat
      OBVIOUS
    <3>. QED  BY <2>2, <3>1, RunJoins
  <2>4. Len(Run(0, n)) = n
    <3>1. 0 <= n /\ n - 0 = n
      OBVIOUS
    <3>. QED  BY <3>1, RunIs
  <2>5. SubSeq(Response, 1, n) = Run(0, n) /\ Response = Run(0, RESPONSE_LEN)
    <3>1. 0 <= n /\ 0 + 1 = 1
      OBVIOUS
    <3>. QED  BY <2>2, <3>1, RunOfStream
  <2>. QED  BY <2>2, <2>3, <2>4, <2>5
<1>. QED  BY <1>1, ReceiveInvAlways, PTL

\* The connection is the byte stream its caller takes it for: a chunk is
\* reported written when the server has it, once and in order; what read
\* returns is the response without gap or repetition, and its end is
\* reported behind its last byte.
THEOREM ConnectionIsByteStream == FetchSpec => ByteStreamSpec
<1>1. FetchInit => ReceiveInv /\ SendInv
  BY ReceiveInvInit, SendInvInit
<1>2. ReceiveInv /\ SendInv /\ [FetchNext]_fetchVars => ReceiveInv' /\ SendInv'
  <2>. SUFFICES ASSUME ReceiveInv, SendInv, [FetchNext]_fetchVars PROVE ReceiveInv' /\ SendInv'
    OBVIOUS
  <2>1. PICK d \in Nat, n \in Nat : Types /\ Calls /\ Received(d, n)
    BY DEF ReceiveInv
  <2>2. PICK s \in Word, k \in Nat, r \in Nat : Linked(s, k, r)
    BY DEF SendInv
  <2>3. Moves
    BY NextMoves
  <2>4. SendInv'
    BY <2>1, <2>2, <2>3, SendStep
  <2>. QED  BY <2>4, ReceiveInvNext
<1>3. FetchInit => Stream!StreamInit
  BY DEF FetchInit, Stream!StreamInit
<1>4. ReceiveInv /\ SendInv /\ [FetchNext]_fetchVars => [Stream!StreamNext]_(Stream!streamVars)
  BY StreamStep
<1>. QED  BY <1>1, <1>2, <1>3, <1>4, PTL DEF FetchSpec, ByteStreamSpec, Stream!StreamSpec
===============================================================================
