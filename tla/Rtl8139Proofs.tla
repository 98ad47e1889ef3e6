--------------------------- MODULE Rtl8139Proofs ---------------------------
(***************************************************************************)
(* Proof that the driver and the card never lose each other in the receive *)
(* ring (RingInSync), and that they implement the two queues of Nic, for   *)
(* every ring size, number of descriptors and set of frame lengths.        *)
(***************************************************************************)
EXTENDS Rtl8139, TLAPS

(* How far the card's write position is ahead of x. *)
Behind(x) == (write_at - x) % RingSize

Position == {p \in 0 .. RingSize - 1 : p % 4 = 0}

(* Two positions of a ring of r bytes: the sum and the difference wrap at  *)
(* most once.                                                              *)
LEMMA WrapSum ==
  ASSUME NEW r \in Nat \ {0}, NEW a \in 0 .. r - 1, NEW e \in 0 .. r - 1
  PROVE  (a + e) % r = IF a + e < r THEN a + e ELSE a + e - r
<1>1. CASE a + e < r
  BY <1>1
<1>2. CASE a + e >= r
  <2>1. a + e = r * 1 + (a + e - r) /\ a + e - r \in 0 .. r - 1
    BY <1>2
  <2> QED  BY <2>1, <1>2
<1> QED  BY <1>1, <1>2

LEMMA WrapDifference ==
  ASSUME NEW r \in Nat \ {0}, NEW a \in 0 .. r - 1, NEW b \in 0 .. r - 1
  PROVE  (a - b) % r = IF a >= b THEN a - b ELSE a - b + r
<1>1. CASE a >= b
  <2>1. a - b \in 0 .. r - 1
    BY <1>1
  <2> QED  BY <2>1, <1>1
<1>2. CASE a < b
  <2>1. a - b = r * (-1) + (a - b + r) /\ a - b + r \in 0 .. r - 1
    BY <1>2
  <2> QED  BY <2>1, <1>2
<1> QED  BY <1>1, <1>2

(* A frame takes up a multiple of four bytes, and rounding the position    *)
(* behind it, as the driver does, is rounding its length, as the card does. *)
LEMMA Alignment ==
  ASSUME NEW f \in Nat \ {0}, NEW p \in Nat, p % 4 = 0
  PROVE  /\ Extent(f) \in Nat /\ Extent(f) > 0 /\ Extent(f) % 4 = 0
         /\ Aligned(p + f + 4) = p + Extent(f)
BY DEF Extent, Aligned

(* What the card writes moves it away from every position by as much.      *)
LEMMA Ahead ==
  ASSUME NEW r \in Nat \ {0}, NEW w \in 0 .. r - 1, NEW x \in 0 .. r - 1,
         NEW e \in Nat, ((w - x) % r) + e < r
  PROVE  /\ (w + e) % r \in 0 .. r - 1
         /\ (((w + e) % r) - x) % r = ((w - x) % r) + e
<1>1. (w - x) % r = IF w >= x THEN w - x ELSE w - x + r
  BY WrapDifference
<1>2. e \in 0 .. r - 1
  BY <1>1
<1>3. (w + e) % r = IF w + e < r THEN w + e ELSE w + e - r
  BY <1>2, WrapSum
<1>4. (w + e) % r \in 0 .. r - 1
  BY <1>2, <1>3
<1>5. (((w + e) % r) - x) % r = IF ((w + e) % r) >= x THEN ((w + e) % r) - x ELSE ((w + e) % r) - x + r
  BY <1>4, WrapDifference
<1> QED  BY <1>1, <1>2, <1>3, <1>4, <1>5

(* What the driver passes over brings it nearer to the card by as much.    *)
LEMMA Nearer ==
  ASSUME NEW r \in Nat \ {0}, NEW w \in 0 .. r - 1, NEW x \in 0 .. r - 1,
         NEW e \in Nat, e <= (w - x) % r
  PROVE  (w - ((x + e) % r)) % r = ((w - x) % r) - e
<1>1. (w - x) % r = IF w >= x THEN w - x ELSE w - x + r
  BY WrapDifference
<1>2. e \in 0 .. r - 1
  BY <1>1
<1>3. (x + e) % r = IF x + e < r THEN x + e ELSE x + e - r
  BY <1>2, WrapSum
<1> DEFINE y == (x + e) % r
<1>4. y \in 0 .. r - 1
  BY <1>2, <1>3
<1>5. (w - y) % r = IF w >= y THEN w - y ELSE w - y + r
  <2> HIDE DEF y
  <2> QED  BY <1>4, WrapDifference
<1> QED  BY <1>1, <1>2, <1>3, <1>4, <1>5

(* A position stays a multiple of four when it moves by one. *)
LEMMA Moves ==
  ASSUME NEW p \in Position, NEW e \in 0 .. RingSize - 1, e % 4 = 0
  PROVE  (p + e) % RingSize \in Position
<1>1. (p + e) % RingSize = IF p + e < RingSize THEN p + e ELSE p + e - RingSize
  BY RingAssumption, WrapSum DEF Position
<1>2. CASE p + e < RingSize
  <2>1. p % 4 = 0 /\ p \in Nat
    BY RingAssumption DEF Position
  <2>2. (p + e) % 4 = 0 /\ p + e \in Nat
    BY <2>1
  <2>3. p + e \in 0 .. RingSize - 1
    BY <1>2, <2>2, RingAssumption
  <2>4. p + e \in Position
    BY <2>2, <2>3 DEF Position
  <2> QED  BY <1>1, <1>2, <2>4
<1>3. CASE p + e >= RingSize
  <2>1. p % 4 = 0 /\ RingSize % 4 = 0 /\ p \in Nat /\ RingSize \in Nat
    BY RingAssumption DEF Position
  <2>2. (p + e - RingSize) % 4 = 0
    BY <2>1
  <2> QED  BY <1>1, <1>3, <2>1, <2>2 DEF Position
<1>4. p + e < RingSize \/ p + e >= RingSize
  BY RingAssumption DEF Position
<1> QED  BY <1>2, <1>3, <1>4, Zenon

-----------------------------------------------------------------------------
(* The frame after the i-th starts where the i-th ends; the last one ends  *)
(* where the card writes.                                                  *)
NextAt(i) == IF i = Len(stored) THEN write_at ELSE stored[i + 1].at

Entry == [at : Position, frame : Frame]

RingType ==
  /\ current_packet \in Position /\ write_at \in Position
  /\ stored \in Seq(Entry)

(* The stored frames are a chain from the driver's position to the card's, *)
(* and none is longer than what lies between it and the card's position:   *)
(* without that, a ring filled to the last byte would look empty.          *)
Chain ==
  /\ stored = <<>> => write_at = current_packet
  /\ stored # <<>> => stored[1].at = current_packet
  /\ \A i \in 1 .. Len(stored) :
       /\ NextAt(i) = After(stored[i].at, stored[i].frame)
       /\ Extent(stored[i].frame) <= Behind(stored[i].at)
       /\ Behind(stored[i].at) <= Behind(current_packet)
  /\ \A i, j \in 1 .. Len(stored) : i <= j => Behind(stored[j].at) <= Behind(stored[i].at)

RingInv == RingType /\ Chain

LEMMA BehindType ==
  ASSUME write_at \in Position
  PROVE  \A x \in Position : /\ Behind(x) \in 0 .. RingSize - 1
                             /\ Behind(x) = 0 <=> write_at = x
<1> TAKE x \in Position
<1>1. /\ RingSize \in Nat \ {0}
      /\ write_at \in 0 .. RingSize - 1 /\ x \in 0 .. RingSize - 1
  BY RingAssumption DEF Position
<1>2. Behind(x) = IF write_at >= x THEN write_at - x ELSE write_at - x + RingSize
  BY <1>1, WrapDifference DEF Behind
<1> QED  BY <1>1, <1>2

LEMMA AppendAt ==
  ASSUME NEW S, NEW s \in Seq(S), NEW x \in S
  PROVE  /\ Len(Append(s, x)) = Len(s) + 1
         /\ Append(s, x)[Len(s) + 1] = x
         /\ \A i \in 1 .. Len(s) : Append(s, x)[i] = s[i] /\ s[i] \in S
OBVIOUS

LEMMA RingInvInit == RtlInit => RingInv
BY RingAssumption DEF RtlInit, RingInv, RingType, Chain, Position

(* The card appends a frame where it writes. *)
LEMMA CardReceives ==
  ASSUME RingInv, NEW f \in Frame, card_receives(f)
  PROVE  RingInv'
<1> DEFINE e == Extent(f)
           w == After(write_at, f)
           n == Len(stored)
<1>1. /\ f \in Nat \ {0} /\ RingSize \in Nat \ {0}
      /\ stored \in Seq(Entry) /\ n \in Nat
      /\ current_packet \in Position /\ write_at \in Position
      /\ Position \subseteq 0 .. RingSize - 1
  BY RingAssumption DEF RingInv, RingType, Position
<1>2. e \in Nat /\ e > 0 /\ e % 4 = 0
  <2>1. 0 \in Nat /\ 0 % 4 = 0
    OBVIOUS
  <2> QED  BY <1>1, <2>1, Alignment
<1>3. /\ Behind(current_packet) + e < RingSize
      /\ stored' = Append(stored, [at |-> write_at, frame |-> f])
      /\ write_at' = w /\ current_packet' = current_packet
  BY DEF card_receives, InRing, Behind
<1>4. Behind(current_packet) \in Nat
  BY <1>1, BehindType
<1>5. e \in 0 .. RingSize - 1
  BY <1>1, <1>2, <1>3, <1>4
<1>6. w \in Position
  BY <1>1, <1>2, <1>5, Moves DEF After
<1>7. ASSUME NEW x \in Position, Behind(x) + e < RingSize
      PROVE  (w - x) % RingSize = Behind(x) + e
  <2>1. ((write_at - x) % RingSize) + e < RingSize
    BY <1>7 DEF Behind
  <2>2. write_at \in 0 .. RingSize - 1 /\ x \in 0 .. RingSize - 1
    BY <1>1
  <2>3. ((((write_at + e) % RingSize) - x) % RingSize) = ((write_at - x) % RingSize) + e
    <3>1. PICK r \in Nat \ {0} : r = RingSize
      BY <1>1
    <3>2. /\ write_at \in 0 .. r - 1 /\ x \in 0 .. r - 1 /\ e \in Nat
          /\ ((write_at - x) % r) + e < r
      BY <1>2, <2>1, <2>2, <3>1
    <3>. HIDE DEF e
    <3>3. ((((write_at + e) % r) - x) % r) = ((write_at - x) % r) + e
      BY ONLY <3>1, <3>2, Ahead
    <3>. QED  BY <3>1, <3>3
  <2> QED  BY <2>3 DEF After, Behind
<1>8. RingType'
  <2>1. [at |-> write_at, frame |-> f] \in Entry
    BY <1>1 DEF Entry
  <2>2. stored' \in Seq(Entry)
    BY <1>1, <1>3, <2>1
  <2> QED  BY <1>1, <1>3, <1>6, <2>2 DEF RingType, Position
<1>9. /\ Len(stored') = n + 1
      /\ stored'[n + 1].at = write_at /\ stored'[n + 1].frame = f
      /\ \A i \in 1 .. n : stored'[i] = stored[i] /\ stored[i] \in Entry
  <2> DEFINE x == [at |-> write_at, frame |-> f]
  <2>1. x \in Entry
    BY <1>1 DEF Entry
  <2>2. stored \in Seq(Entry)
    BY <1>1
  <2>3. /\ Len(Append(stored, x)) = Len(stored) + 1
        /\ Append(stored, x)[Len(stored) + 1] = x
        /\ \A i \in 1 .. Len(stored) : Append(stored, x)[i] = stored[i] /\ stored[i] \in Entry
    <3> HIDE DEF x
    <3> QED  BY <2>1, <2>2, AppendAt
  <2>4. stored' = Append(stored, x)
    BY <1>3
  <2>5. stored'[n + 1] = x /\ x.at = write_at /\ x.frame = f
    BY <2>3, <2>4
  <2> QED  BY <2>3, <2>4, <2>5, Zenon
<1>10. Behind(write_at) = 0
  BY <1>1, BehindType
<1>11. /\ Behind(current_packet)' = Behind(current_packet) + e
       /\ (w - write_at) % RingSize = e
  <2>1. Behind(write_at) + e < RingSize
    BY <1>5, <1>1, <1>10
  <2>2. (w - write_at) % RingSize = Behind(write_at) + e
    BY <1>1, <1>7, <2>1
  <2> QED  BY <1>1, <1>2, <1>3, <1>7, <1>10, <2>2 DEF Behind
<1>12. ASSUME NEW i \in 1 .. n
       PROVE  /\ stored[i].at \in Position
              /\ Behind(stored[i].at) \in Nat
              /\ Behind(stored[i].at) <= Behind(current_packet)
              /\ Extent(stored[i].frame) \in Nat
              /\ Extent(stored[i].frame) <= Behind(stored[i].at)
              /\ NextAt(i) = After(stored[i].at, stored[i].frame)
              /\ Behind(stored[i].at)' = Behind(stored[i].at) + e
  <2>1. stored[i].at \in Position /\ stored[i].frame \in Nat \ {0}
    BY <1>9, RingAssumption DEF Entry
  <2>2. Behind(stored[i].at) \in Nat
    <3>1. Behind(stored[i].at) \in 0 .. RingSize - 1
      BY <1>1, <2>1, BehindType, Zenon
    <3> QED  BY <1>1, <3>1
  <2>3. Extent(stored[i].frame) \in Nat
    <3>1. 0 \in Nat /\ 0 % 4 = 0
      OBVIOUS
    <3> QED  BY <2>1, <3>1, Alignment
  <2>4. /\ NextAt(i) = After(stored[i].at, stored[i].frame)
        /\ Extent(stored[i].frame) <= Behind(stored[i].at)
        /\ Behind(stored[i].at) <= Behind(current_packet)
    BY DEF RingInv, Chain
  <2>5. Behind(stored[i].at) + e < RingSize
    BY <1>1, <1>2, <1>3, <1>4, <2>2, <2>4
  <2>6. (w - stored[i].at) % RingSize = Behind(stored[i].at) + e
    BY <1>7, <2>1, <2>5
  <2>7. Behind(stored[i].at)' = (w - stored[i].at) % RingSize
    BY <1>3, <1>9 DEF Behind
  <2> QED  BY <2>1, <2>2, <2>3, <2>4, <2>6, <2>7
<1>13. /\ \A i \in 1 .. n + 1 : i = n + 1 => NextAt(i)' = w
       /\ \A i \in 1 .. n : NextAt(i)' = NextAt(i)
  <2>1. ASSUME NEW i \in 1 .. n + 1, i = n + 1
        PROVE  NextAt(i)' = w
    BY <2>1, <1>3, <1>9 DEF NextAt
  <2>2. ASSUME NEW i \in 1 .. n
        PROVE  NextAt(i)' = NextAt(i)
    <3>1. NextAt(i)' = stored'[i + 1].at
      BY <1>1, <1>9 DEF NextAt
    <3>2. CASE i = n
      BY <1>9, <3>1, <3>2 DEF NextAt
    <3>3. CASE i # n
      <4>1. i + 1 \in 1 .. n
        BY <1>1, <3>3
      <4> QED  BY <1>9, <3>1, <3>3, <4>1 DEF NextAt
    <3> QED  BY <3>2, <3>3
  <2> QED  BY <2>1, <2>2
<1>14. stored' # <<>> /\ stored'[1].at = current_packet
  <2>0. stored' # <<>>
    BY <1>1, <1>9
  <2>1. CASE n = 0
    <3>1. stored = <<>> /\ stored'[1].at = write_at
      BY <1>1, <1>9, <2>1
    <3>2. write_at = current_packet
      BY <3>1 DEF RingInv, Chain
    <3> QED  BY <2>0, <3>1, <3>2
  <2>2. CASE n # 0
    <3>1. stored # <<>> /\ 1 \in 1 .. n
      BY <1>1, <2>2
    <3>2. stored[1].at = current_packet
      BY <3>1 DEF RingInv, Chain
    <3> QED  BY <1>9, <2>0, <3>1, <3>2
  <2> QED  BY <2>1, <2>2
<1>15. ASSUME NEW i \in 1 .. n + 1
       PROVE  /\ NextAt(i)' = After(stored'[i].at, stored'[i].frame)
              /\ Extent(stored'[i].frame) <= Behind(stored[i].at)'
              /\ Behind(stored[i].at)' <= Behind(current_packet)'
  <2>1. CASE i = n + 1
    <3>1. Behind(stored[i].at)' = e
      BY <1>3, <1>9, <1>11, <2>1 DEF Behind
    <3>2. stored'[i].at = write_at /\ stored'[i].frame = f /\ NextAt(i)' = w
      BY <1>9, <1>13, <2>1
    <3>3. Behind(current_packet)' >= e
      BY <1>2, <1>4, <1>11
    <3> QED  BY <1>2, <3>1, <3>2, <3>3
  <2>2. CASE i # n + 1
    <3>1. i \in 1 .. n
      BY <1>1, <2>2
    <3>2. stored'[i] = stored[i] /\ NextAt(i)' = NextAt(i)
      BY <1>9, <1>13, <3>1
    <3>3. /\ Behind(stored[i].at) \in Nat /\ Extent(stored[i].frame) \in Nat
          /\ Extent(stored[i].frame) <= Behind(stored[i].at)
          /\ Behind(stored[i].at)' = Behind(stored[i].at) + e
          /\ Behind(stored[i].at) <= Behind(current_packet)
          /\ NextAt(i) = After(stored[i].at, stored[i].frame)
      BY <1>12, <3>1
    <3>4. Extent(stored[i].frame) <= Behind(stored[i].at)'
      BY <1>2, <3>3
    <3>5. Behind(stored[i].at)' <= Behind(current_packet)'
      BY <1>2, <1>4, <1>11, <3>3
    <3> QED  BY <3>2, <3>3, <3>4, <3>5
  <2> QED  BY <2>1, <2>2
<1>16. ASSUME NEW i \in 1 .. n + 1, NEW j \in 1 .. n + 1, i <= j
       PROVE  Behind(stored[j].at)' <= Behind(stored[i].at)'
  <2>1. CASE j = n + 1 /\ i = n + 1
    <3>1. Behind(stored[j].at)' = e /\ Behind(stored[i].at)' = e
      BY <1>3, <1>9, <1>11, <2>1 DEF Behind
    <3> QED  BY <1>2, <3>1
  <2>2. CASE j = n + 1 /\ i # n + 1
    <3>1. i \in 1 .. n
      BY <1>1, <2>2
    <3>2. Behind(stored[j].at)' = e
      BY <1>3, <1>9, <1>11, <2>2 DEF Behind
    <3> QED  BY <1>2, <1>12, <3>1, <3>2
  <2>3. CASE j # n + 1
    <3>1. i \in 1 .. n /\ j \in 1 .. n
      BY <1>1, <1>16, <2>3
    <3>2. Behind(stored[j].at) <= Behind(stored[i].at)
      BY <1>16, <3>1 DEF RingInv, Chain
    <3> QED  BY <1>2, <1>12, <3>1, <3>2
  <2> QED  BY <2>1, <2>2, <2>3
<1>17. Chain'
  BY <1>1, <1>3, <1>9, <1>14, <1>15, <1>16 DEF Chain
<1> QED  BY <1>8, <1>17 DEF RingInv

LEMMA TailAt ==
  ASSUME NEW S, NEW s \in Seq(S), s # <<>>
  PROVE  /\ Tail(s) \in Seq(S) /\ Len(Tail(s)) = Len(s) - 1
         /\ \A i \in 1 .. Len(s) - 1 : Tail(s)[i] = s[i + 1]
OBVIOUS

(* The chain, frame by frame: behind the i-th the driver is nearer to the  *)
(* card by the extent of the i-th.                                         *)
LEMMA ChainFacts ==
  ASSUME RingInv
  PROVE  /\ RingSize \in Nat \ {0}
         /\ stored \in Seq(Entry) /\ Len(stored) \in Nat
         /\ current_packet \in Position /\ write_at \in Position
         /\ Position \subseteq 0 .. RingSize - 1
         /\ \A i \in 1 .. Len(stored) :
              /\ stored[i] \in Entry /\ stored[i].at \in Position
              /\ stored[i].frame \in Nat \ {0}
         /\ \A i \in 1 .. Len(stored) :
              /\ Behind(stored[i].at) \in Nat /\ Behind(stored[i].at) < RingSize
              /\ Extent(stored[i].frame) \in Nat /\ Extent(stored[i].frame) > 0
              /\ Extent(stored[i].frame) % 4 = 0
              /\ Extent(stored[i].frame) <= Behind(stored[i].at)
              /\ NextAt(i) = After(stored[i].at, stored[i].frame)
              /\ (write_at - NextAt(i)) % RingSize
                   = Behind(stored[i].at) - Extent(stored[i].frame)
<1> DEFINE n == Len(stored)
<1>1. /\ RingSize \in Nat \ {0}
      /\ stored \in Seq(Entry) /\ n \in Nat
      /\ current_packet \in Position /\ write_at \in Position
      /\ Position \subseteq 0 .. RingSize - 1
      /\ \A i \in 1 .. n : /\ stored[i] \in Entry /\ stored[i].at \in Position
                           /\ stored[i].frame \in Nat \ {0}
  <2>1. /\ RingSize \in Nat \ {0}
        /\ stored \in Seq(Entry) /\ n \in Nat
        /\ current_packet \in Position /\ write_at \in Position
    BY RingAssumption DEF RingInv, RingType
  <2>2. Position \subseteq 0 .. RingSize - 1
    BY DEF Position
  <2>3. ASSUME NEW i \in 1 .. n
        PROVE  /\ stored[i] \in Entry /\ stored[i].at \in Position
               /\ stored[i].frame \in Nat \ {0}
    <3>1. stored[i] \in Entry
      BY <2>1
    <3> QED  BY <3>1, RingAssumption DEF Entry
  <2> QED  BY <2>1, <2>2, <2>3
<1>2. ASSUME NEW i \in 1 .. n
      PROVE  /\ Behind(stored[i].at) \in Nat /\ Behind(stored[i].at) < RingSize
             /\ Extent(stored[i].frame) \in Nat /\ Extent(stored[i].frame) > 0
             /\ Extent(stored[i].frame) % 4 = 0
             /\ Extent(stored[i].frame) <= Behind(stored[i].at)
             /\ NextAt(i) = After(stored[i].at, stored[i].frame)
  <2>1. Behind(stored[i].at) \in 0 .. RingSize - 1
    BY <1>1, BehindType, Zenon
  <2>2. 0 \in Nat /\ 0 % 4 = 0
    OBVIOUS
  <2>3. /\ Extent(stored[i].frame) \in Nat /\ Extent(stored[i].frame) > 0
        /\ Extent(stored[i].frame) % 4 = 0
    BY <1>1, <2>2, Alignment
  <2>4. /\ Extent(stored[i].frame) <= Behind(stored[i].at)
        /\ NextAt(i) = After(stored[i].at, stored[i].frame)
    BY DEF RingInv, Chain
  <2> QED  BY <1>1, <2>1, <2>3, <2>4
<1>3. ASSUME NEW i \in 1 .. n
      PROVE  (write_at - NextAt(i)) % RingSize
               = Behind(stored[i].at) - Extent(stored[i].frame)
  <2> DEFINE x == stored[i].at
             e == Extent(stored[i].frame)
  <2>1. /\ write_at \in 0 .. RingSize - 1 /\ x \in 0 .. RingSize - 1
        /\ e \in Nat /\ e <= (write_at - x) % RingSize
    BY <1>1, <1>2 DEF Behind
  <2>2. (write_at - ((x + e) % RingSize)) % RingSize = ((write_at - x) % RingSize) - e
    <3> HIDE DEF x, e
    <3> QED  BY <1>1, <2>1, Nearer
  <2>3. NextAt(i) = (x + e) % RingSize
    BY <1>2 DEF After
  <2> QED  BY <2>2, <2>3 DEF Behind
<1> QED  BY <1>1, <1>2, <1>3

(* The frame the driver finds at its position is the first of the chain,   *)
(* since each lies nearer to the card than the one before it.              *)
LEMMA OldestFound ==
  ASSUME RingInv, NEW k \in Found
  PROVE  k = 1 /\ stored # <<>> /\ 1 \in 1 .. Len(stored) /\ stored[1].at = current_packet
<1> DEFINE n == Len(stored)
<1>1. n \in Nat /\ stored \in Seq(Entry)
  BY ChainFacts
<1>3. k \in 1 .. n /\ stored[k].at = current_packet
  BY <1>1 DEF Found
<1>4. stored # <<>> /\ 1 \in 1 .. n /\ stored[1].at = current_packet
  BY <1>1, <1>3 DEF RingInv, Chain
<1>5. /\ Behind(stored[1].at) \in Nat
      /\ Extent(stored[1].frame) \in Nat /\ Extent(stored[1].frame) > 0
      /\ (write_at - NextAt(1)) % RingSize = Behind(stored[1].at) - Extent(stored[1].frame)
  BY <1>4, ChainFacts
<1>7. k = 1
  <2>1. ASSUME k # 1 PROVE FALSE
    <3>1. 2 \in 1 .. n /\ 2 <= k /\ n # 1
      BY <1>1, <1>3, <2>1
    <3>2. NextAt(1) = stored[2].at
      BY <1>1, <3>1 DEF NextAt
    <3>3. Behind(stored[2].at) = Behind(stored[1].at) - Extent(stored[1].frame)
      BY <1>5, <3>2 DEF Behind
    <3>4. Behind(stored[k].at) <= Behind(stored[2].at)
      BY <1>3, <3>1 DEF RingInv, Chain
    <3>5. Behind(stored[k].at) = Behind(stored[1].at)
      BY <1>3, <1>4
    <3> QED  BY <1>5, <3>3, <3>4, <3>5
  <2> QED  BY <2>1
<1> QED  BY <1>4, <1>7

(* The driver takes the oldest frame off the chain.                        *)
LEMMA DriverReceives ==
  ASSUME RingInv, rtl8139_receive
  PROVE  RingInv'
<1> DEFINE n == Len(stored)
<1>1. /\ RingSize \in Nat \ {0}
      /\ stored \in Seq(Entry) /\ n \in Nat
      /\ current_packet \in Position /\ write_at \in Position
      /\ Position \subseteq 0 .. RingSize - 1
      /\ \A i \in 1 .. n : /\ stored[i] \in Entry /\ stored[i].at \in Position
                           /\ stored[i].frame \in Nat \ {0}
  BY ChainFacts
<1>2. PICK k \in Found :
        /\ current_packet' = NewPosition(stored[k].frame)
        /\ stored' = Tail(stored)
        /\ write_at' = write_at
  BY DEF rtl8139_receive
<1>4. stored # <<>> /\ 1 \in 1 .. n /\ stored[1].at = current_packet
  BY OldestFound
<1>5. ASSUME NEW i \in 1 .. n
      PROVE  /\ Behind(stored[i].at) \in Nat /\ Behind(stored[i].at) < RingSize
             /\ Extent(stored[i].frame) \in Nat /\ Extent(stored[i].frame) > 0
             /\ Extent(stored[i].frame) % 4 = 0
             /\ Extent(stored[i].frame) <= Behind(stored[i].at)
             /\ NextAt(i) = After(stored[i].at, stored[i].frame)
  BY ChainFacts
<1>7. k = 1
  BY OldestFound
<1>8. current_packet' = NextAt(1)
  <2> DEFINE f == stored[1].frame
  <2>1. f \in Nat \ {0} /\ current_packet \in Nat /\ current_packet % 4 = 0
    BY <1>1, <1>4 DEF Position
  <2>2. Aligned(current_packet + f + 4) = current_packet + Extent(f)
    <3> HIDE DEF f
    <3> QED  BY <2>1, Alignment
  <2>3. current_packet' = (current_packet + Extent(f)) % RingSize
    BY <1>2, <1>7, <2>2 DEF NewPosition
  <2>4. NextAt(1) = (current_packet + Extent(f)) % RingSize
    BY <1>4, <1>5 DEF After
  <2> QED  BY <2>3, <2>4
<1>9. /\ stored' \in Seq(Entry) /\ Len(stored') = n - 1
      /\ \A i \in 1 .. n - 1 : stored'[i] = stored[i + 1]
  BY <1>1, <1>2, <1>4, TailAt
<1>10. NextAt(1) \in Position
  <2>1. CASE n = 1
    BY <1>1, <2>1 DEF NextAt
  <2>2. CASE n # 1
    <3>1. n \in Nat /\ n >= 1 /\ n # 1
      BY <1>1, <1>4, <2>2
    <3>2. 2 \in 1 .. n
      <4> HIDE DEF n
      <4> QED  BY <3>1
    <3> QED  BY <1>1, <2>2, <3>2 DEF NextAt
  <2> QED  BY <2>1, <2>2
<1>11. RingType'
  <2>1. Position' = Position /\ Entry' = Entry
    BY DEF Position, Entry
  <2> QED  BY <1>1, <1>2, <1>8, <1>9, <1>10, <2>1 DEF RingType
<1>12. ASSUME stored' = <<>>
       PROVE  write_at' = current_packet'
  <2>1. n = 1
    BY <1>1, <1>4, <1>9, <1>12
  <2> QED  BY <1>2, <1>8, <2>1 DEF NextAt
<1>13. ASSUME NEW i \in 1 .. n - 1
       PROVE  /\ i + 1 \in 1 .. n /\ 2 \in 1 .. n /\ 2 <= i + 1
              /\ current_packet' = stored[2].at
              /\ Behind(current_packet)' = Behind(stored[2].at)
              /\ Behind(stored[i].at)' = Behind(stored[i + 1].at)
              /\ NextAt(i)' = NextAt(i + 1)
  <2>1. i + 1 \in 1 .. n /\ 2 \in 1 .. n /\ 2 <= i + 1 /\ n # 1
    BY <1>1
  <2>2. current_packet' = stored[2].at
    BY <1>8, <2>1 DEF NextAt
  <2>3. stored'[i] = stored[i + 1]
    BY <1>9
  <2>4. NextAt(i)' = NextAt(i + 1)
    <3>1. CASE i = n - 1
      BY <1>1, <1>2, <1>9, <3>1 DEF NextAt
    <3>2. CASE i # n - 1
      <4>1. i + 1 \in 1 .. n - 1 /\ i + 1 # n /\ i # n - 1
        BY <1>1, <3>2
      <4>2. NextAt(i)' = stored'[i + 1].at
        BY <1>9, <4>1 DEF NextAt
      <4>3. NextAt(i + 1) = stored[i + 2].at
        BY <1>1, <4>1 DEF NextAt
      <4>4. stored'[i + 1] = stored[i + 2]
        BY <1>1, <1>9, <4>1
      <4> QED  BY <4>2, <4>3, <4>4
    <3> QED  BY <3>1, <3>2
  <2> QED  BY <1>2, <2>1, <2>2, <2>3, <2>4 DEF Behind
<1>14. ASSUME stored' # <<>>
       PROVE  stored'[1].at = current_packet'
  <2>1. 1 \in 1 .. n - 1
    BY <1>1, <1>4, <1>9, <1>14
  <2>2. stored'[1] = stored[2]
    BY <1>9, <2>1
  <2> QED  BY <1>13, <2>1, <2>2
<1>15. ASSUME NEW i \in 1 .. n - 1
       PROVE  /\ NextAt(i)' = After(stored'[i].at, stored'[i].frame)
              /\ Extent(stored'[i].frame) <= Behind(stored[i].at)'
              /\ Behind(stored[i].at)' <= Behind(current_packet)'
  <2>1. stored'[i] = stored[i + 1] /\ i + 1 \in 1 .. n
    BY <1>9, <1>13
  <2>2. Behind(stored[i + 1].at) <= Behind(stored[2].at)
    BY <1>13 DEF RingInv, Chain
  <2> QED  BY <1>5, <1>13, <2>1, <2>2
<1>16. ASSUME NEW i \in 1 .. n - 1, NEW j \in 1 .. n - 1, i <= j
       PROVE  Behind(stored[j].at)' <= Behind(stored[i].at)'
  <2>1. Behind(stored[j + 1].at) <= Behind(stored[i + 1].at)
    <3>1. i + 1 \in 1 .. n /\ j + 1 \in 1 .. n /\ i + 1 <= j + 1
      BY <1>1, <1>16
    <3> QED  BY <3>1 DEF RingInv, Chain
  <2> QED  BY <1>13, <2>1
<1>17. Chain'
  BY <1>1, <1>9, <1>12, <1>14, <1>15, <1>16 DEF Chain
<1> QED  BY <1>11, <1>17 DEF RingInv

LEMMA RingInvNext == RingInv /\ [RtlNext]_rtlVars => RingInv'
<1> SUFFICES ASSUME RingInv, [RtlNext]_rtlVars PROVE RingInv'
  OBVIOUS
<1>1. ASSUME UNCHANGED <<current_packet, write_at, stored>>
      PROVE  RingInv'
  BY <1>1 DEF RingInv, RingType, Chain, Behind, NextAt, Position, Entry
<1>2. ASSUME NEW f \in Frame, card_receives(f) PROVE RingInv'
  BY <1>2, CardReceives
<1>3. ASSUME NEW f \in Frame, rust_rtl8139_send(f) PROVE RingInv'
  BY <1>1, <1>3 DEF rust_rtl8139_send, rxVars
<1>4. CASE card_sends
  BY <1>1, <1>4 DEF card_sends, rxVars
<1>5. ASSUME NEW resets \in BOOLEAN, rust_init_rtl8139(resets) PROVE RingInv'
  BY <1>1, <1>5 DEF rust_init_rtl8139, rxVars
<1>6. CASE rtl8139_receive
  BY <1>6, DriverReceives
<1>7. CASE clear_response
  BY <1>1, <1>7 DEF clear_response
<1>8. CASE UNCHANGED rtlVars
  BY <1>1, <1>8 DEF rtlVars, rxVars
<1> QED  BY <1>2, <1>3, <1>4, <1>5, <1>6, <1>7, <1>8 DEF RtlNext

LEMMA RingInvImplies == RingInv => RingInSync
<1> SUFFICES ASSUME RingInv PROVE RingInSync
  OBVIOUS
<1>1. stored # <<>> => stored[1].at = current_packet
  BY DEF RingInv, Chain
<1>2. ASSUME stored # <<>> PROVE write_at # current_packet
  <2>1. /\ 1 \in 1 .. Len(stored) /\ stored[1] \in Entry
        /\ write_at \in Position /\ RingSize \in Nat
    BY <1>2, RingAssumption DEF RingInv, RingType
  <2>2. stored[1].at \in Position /\ stored[1].frame \in Nat \ {0}
    BY <2>1, RingAssumption DEF Entry
  <2>3. 0 \in Nat /\ 0 % 4 = 0
    OBVIOUS
  <2>4. Extent(stored[1].frame) \in Nat /\ Extent(stored[1].frame) > 0
    BY <2>2, <2>3, Alignment
  <2>5. Extent(stored[1].frame) <= Behind(stored[1].at)
    BY <2>1 DEF RingInv, Chain
  <2>6. /\ Behind(stored[1].at) \in 0 .. RingSize - 1
        /\ Behind(stored[1].at) = 0 <=> write_at = stored[1].at
    BY <2>1, <2>2, BehindType, Zenon
  <2>7. Behind(stored[1].at) # 0
    BY <2>1, <2>4, <2>5, <2>6
  <2> QED  BY <1>1, <1>2, <2>6, <2>7
<1>3. stored = <<>> => write_at = current_packet
  BY DEF RingInv, Chain
<1> QED  BY <1>1, <1>2, <1>3 DEF RingInSync

(* The driver's position and the card's never part: the driver reads next  *)
(* the oldest frame the card stored, and sees an empty ring exactly when   *)
(* nothing is stored, for every size of the ring and every frame length,   *)
(* whichever frames run over the ring's end (rtl8139_receive).             *)
THEOREM DriverInSync == RtlSpec => []RingInSync
<1>1. RtlInit => RingInv
  BY RingInvInit
<1>2. RingInv /\ [RtlNext]_rtlVars => RingInv'
  BY RingInvNext
<1>3. RingInv => RingInSync
  BY RingInvImplies
<1> QED  BY <1>1, <1>2, <1>3, PTL DEF RtlSpec

-----------------------------------------------------------------------------
(* The way out: the card owns the descriptors from next_out up to the one  *)
(* the driver fills next; all or none when the two are equal.              *)

Waits ==
  ((tx_curr - next_out) % Descriptors)
    + (IF tx_curr = next_out /\ owned # {} THEN Descriptors ELSE 0)

(* How many descriptors the card sends before d. *)
Dist(d) == (d - next_out) % Descriptors

TxInv ==
  /\ tx_curr \in Slots /\ next_out \in Slots
  /\ buffers \in [Slots -> Frame \cup {NoFrame}]
  /\ owned = {d \in Slots : Dist(d) < Waits}

LEMMA DistIs ==
  ASSUME next_out \in Slots, NEW d \in Slots
  PROVE  /\ Dist(d) = IF d >= next_out THEN d - next_out ELSE d - next_out + Descriptors
         /\ Dist(d) \in 0 .. Descriptors - 1
<1>1. Descriptors \in Nat \ {0} /\ next_out \in 0 .. Descriptors - 1 /\ d \in 0 .. Descriptors - 1
  BY RingAssumption DEF Slots
<1>2. Dist(d) = IF d >= next_out THEN d - next_out ELSE d - next_out + Descriptors
  BY <1>1, WrapDifference DEF Dist
<1> QED  BY <1>1, <1>2

(* The next descriptor. *)
LEMMA Successor ==
  ASSUME NEW r \in Nat \ {0}, NEW a \in 0 .. r - 1
  PROVE  (a + 1) % r = IF a + 1 < r THEN a + 1 ELSE 0
<1>1. CASE a + 1 < r
  BY <1>1
<1>2. CASE a + 1 >= r
  <2>1. a + 1 = r * 1 + 0 /\ 0 \in 0 .. r - 1
    BY <1>2
  <2> QED  BY <1>2, <2>1
<1> QED  BY <1>1, <1>2

(* The i-th frame to leave lies i - 1 descriptors behind next_out. *)
LEMMA PlaceIs ==
  ASSUME next_out \in Slots, NEW i \in 1 .. Descriptors
  PROVE  /\ (next_out + i - 1) % Descriptors
              = IF next_out + i - 1 < Descriptors THEN next_out + i - 1
                ELSE next_out + i - 1 - Descriptors
         /\ (next_out + i - 1) % Descriptors \in Slots
<1>1. Descriptors \in Nat \ {0} /\ next_out \in 0 .. Descriptors - 1 /\ i - 1 \in 0 .. Descriptors - 1
  BY RingAssumption DEF Slots
<1>2. (next_out + (i - 1)) % Descriptors
        = IF next_out + (i - 1) < Descriptors THEN next_out + (i - 1)
          ELSE next_out + (i - 1) - Descriptors
  BY <1>1, WrapSum
<1>3. next_out + (i - 1) = next_out + i - 1
  BY <1>1
<1> QED  BY <1>1, <1>2, <1>3 DEF Slots

LEMMA OutgoingIs ==
  ASSUME TxInv
  PROVE  /\ Descriptors \in Nat \ {0} /\ Slots = 0 .. Descriptors - 1
         /\ Waits \in 0 .. Descriptors
         /\ Outgoing = [i \in 1 .. Waits |-> buffers[(next_out + i - 1) % Descriptors]]
         /\ Outgoing \in Seq(Frame \cup {NoFrame})
         /\ Len(Outgoing) = Waits
<1>1. Descriptors \in Nat \ {0} /\ Slots = 0 .. Descriptors - 1
  BY RingAssumption DEF Slots
<1>2. Dist(tx_curr) \in 0 .. Descriptors - 1 /\ (tx_curr = next_out => Dist(tx_curr) = 0)
  BY <1>1, DistIs DEF TxInv
<1>3. Waits \in 0 .. Descriptors
  BY <1>1, <1>2 DEF Waits, Dist
<1>4. Outgoing = [i \in 1 .. Waits |-> buffers[(next_out + i - 1) % Descriptors]]
  BY DEF Outgoing, Waits
<1>5. \A i \in 1 .. Waits : buffers[(next_out + i - 1) % Descriptors] \in Frame \cup {NoFrame}
  <2> TAKE i \in 1 .. Waits
  <2>1. i \in 1 .. Descriptors
    BY <1>1, <1>3
  <2>2. (next_out + i - 1) % Descriptors \in Slots
    BY <2>1, PlaceIs DEF TxInv
  <2> QED  BY <2>2 DEF TxInv
<1> HIDE DEF Waits
<1>6. Outgoing \in Seq(Frame \cup {NoFrame}) /\ Len(Outgoing) = Waits
  BY <1>3, <1>4, <1>5
<1> QED  BY <1>1, <1>3, <1>4, <1>6

(* Nothing is filled twice: the descriptor the driver waits for is the one *)
(* behind all those the card still owns.                                   *)
LEMMA SendQueues ==
  ASSUME TxInv, NEW f \in Frame, rust_rtl8139_send(f)
  PROVE  TxInv' /\ Waits < Descriptors /\ Outgoing' = Append(Outgoing, f)
<1> DEFINE D == Descriptors
<1>1. /\ D \in Nat \ {0} /\ Slots = 0 .. D - 1
      /\ tx_curr \in Slots /\ next_out \in Slots /\ buffers \in [Slots -> Frame \cup {NoFrame}]
      /\ Waits \in 0 .. D
  BY OutgoingIs DEF TxInv
<1>2. /\ tx_curr \notin owned /\ next_out' = next_out
      /\ buffers' = [buffers EXCEPT ![tx_curr] = f]
      /\ owned' = owned \cup {tx_curr}
      /\ tx_curr' = (tx_curr + 1) % D
  BY DEF rust_rtl8139_send, SlotFree
<1>3. \A d \in Slots : /\ Dist(d) = IF d >= next_out THEN d - next_out ELSE d - next_out + D
                       /\ Dist(d) \in 0 .. D - 1
  BY <1>1, DistIs
<1>4. tx_curr' = IF tx_curr + 1 < D THEN tx_curr + 1 ELSE 0
  BY <1>1, <1>2, Successor
<1>5. tx_curr' \in Slots
  BY <1>1, <1>4
<1>6. ~(Dist(tx_curr) < Waits)
  BY <1>1, <1>2 DEF TxInv
<1>7. Waits = Dist(tx_curr) /\ Waits < D
  <2>1. CASE tx_curr = next_out /\ owned # {}
    <3>1. Waits = Dist(tx_curr) + D
      BY <2>1 DEF Waits, Dist
    <3> QED  BY <1>1, <1>3, <1>6, <3>1
  <2>2. CASE ~(tx_curr = next_out /\ owned # {})
    <3>1. Waits = Dist(tx_curr) + 0
      BY <2>2 DEF Waits, Dist
    <3> QED  BY <1>1, <1>3, <3>1
  <2> QED  BY <2>1, <2>2
<1>8. ASSUME NEW d \in Slots PROVE Dist(d) = Dist(tx_curr) <=> d = tx_curr
  <2>1. /\ Dist(tx_curr) = IF tx_curr >= next_out THEN tx_curr - next_out ELSE tx_curr - next_out + D
        /\ Dist(d) = IF d >= next_out THEN d - next_out ELSE d - next_out + D
    BY <1>1, <1>3
  <2> HIDE DEF Dist
  <2> QED  BY <1>1, <2>1
<1>9. Waits' = Waits + 1
  <2>1. Waits' = Dist(tx_curr') + (IF tx_curr' = next_out THEN D ELSE 0)
    BY <1>2 DEF Waits, Dist
  <2>2. /\ Dist(tx_curr) = IF tx_curr >= next_out THEN tx_curr - next_out ELSE tx_curr - next_out + D
        /\ Dist(tx_curr') = IF tx_curr' >= next_out THEN tx_curr' - next_out ELSE tx_curr' - next_out + D
    BY <1>1, <1>3, <1>5
  <2>3. Dist(tx_curr') + (IF tx_curr' = next_out THEN D ELSE 0) = Dist(tx_curr) + 1
    <3> HIDE DEF Dist
    <3> QED  BY <1>1, <1>4, <2>2
  <2> QED  BY <1>7, <2>1, <2>3
<1>10. owned' = {d \in Slots : Dist(d) < Waits + 1}
  <2>1. \A d \in Slots : Dist(d) = Waits <=> d = tx_curr
    BY <1>7, <1>8
  <2>2. owned = {d \in Slots : Dist(d) < Waits}
    BY DEF TxInv
  <2>3. ASSUME NEW d \in Slots
        PROVE  Dist(d) < Waits + 1 <=> (Dist(d) < Waits \/ d = tx_curr)
    <3>1. Dist(d) \in 0 .. D - 1 /\ (Dist(d) = Waits <=> d = tx_curr)
      BY <1>3, <2>1
    <3> HIDE DEF Waits, Dist
    <3> QED  BY <1>1, <3>1
  <2> QED  BY <1>1, <1>2, <2>2, <2>3
<1>11. TxInv'
  <2>1. buffers' \in [Slots -> Frame \cup {NoFrame}]
    BY <1>1, <1>2
  <2>2. \A d \in Slots : Dist(d)' = Dist(d)
    BY <1>2 DEF Dist
  <2>3. Slots' = Slots
    BY DEF Slots
  <2> QED  BY <1>1, <1>2, <1>5, <1>9, <1>10, <2>1, <2>2, <2>3 DEF TxInv
<1>12. Outgoing' = Append(Outgoing, f)
  <2>1. /\ Outgoing = [i \in 1 .. Waits |-> buffers[(next_out + i - 1) % D]]
        /\ Outgoing \in Seq(Frame \cup {NoFrame}) /\ Len(Outgoing) = Waits
    BY OutgoingIs
  <2>2. Outgoing' = [i \in 1 .. Waits + 1 |-> buffers'[(next_out + i - 1) % D]]
    <3>1. Outgoing' = [i \in 1 .. Waits' |-> buffers'[(next_out' + i - 1) % D]]
      BY DEF Outgoing, Waits
    <3> QED  BY <1>2, <1>9, <3>1
  <2>3. ASSUME NEW i \in 1 .. Waits + 1
        PROVE  buffers'[(next_out + i - 1) % D] = IF i = Waits + 1 THEN f ELSE Outgoing[i]
    <3> DEFINE d == (next_out + i - 1) % D
    <3>1. i \in 1 .. D
      BY <1>1, <1>7
    <3>2. d \in Slots /\ d = IF next_out + i - 1 < D THEN next_out + i - 1 ELSE next_out + i - 1 - D
      BY <1>1, <3>1, PlaceIs
    <3> HIDE DEF d
    <3>3. Dist(d) = i - 1
      BY <1>1, <1>3, <3>1, <3>2
    <3>4. CASE i = Waits + 1
      <4>1. d = tx_curr
        BY <1>1, <1>7, <1>8, <3>2, <3>3, <3>4
      <4> QED  BY <1>1, <1>2, <3>4, <4>1 DEF d
    <3>5. CASE i # Waits + 1
      <4>1. d # tx_curr /\ i \in 1 .. Waits
        <5>1. Dist(d) # Waits /\ i \in 1 .. Waits
          <6> HIDE DEF Waits, Dist
          <6> QED  BY <1>1, <3>3, <3>5
        <5> QED  BY <1>7, <5>1
      <4>2. buffers'[d] = buffers[d]
        BY <1>1, <1>2, <3>2, <4>1
      <4> QED  BY <2>1, <3>5, <4>1, <4>2 DEF d
    <3> QED  BY <3>4, <3>5
  <2>4. Append(Outgoing, f) = [i \in 1 .. Waits + 1 |-> IF i = Waits + 1 THEN f ELSE Outgoing[i]]
    <3> HIDE DEF Waits, Outgoing
    <3> QED  BY <1>1, <2>1
  <2> QED  BY <2>2, <2>3, <2>4
<1> QED  BY <1>7, <1>11, <1>12

LEMMA EmptyLength == Len(<<>>) = 0
OBVIOUS

(* The descriptor the card gives back holds the frame that leaves. *)
LEMMA SendLeaves ==
  ASSUME TxInv, card_sends
  PROVE  TxInv' /\ Outgoing # <<>> /\ Outgoing' = Tail(Outgoing)
<1> DEFINE D == Descriptors
<1>1. /\ D \in Nat \ {0} /\ Slots = 0 .. D - 1
      /\ tx_curr \in Slots /\ next_out \in Slots /\ buffers \in [Slots -> Frame \cup {NoFrame}]
      /\ Waits \in 0 .. D
  BY OutgoingIs DEF TxInv
<1>2. /\ next_out \in owned /\ owned' = owned \ {next_out}
      /\ next_out' = (next_out + 1) % D
      /\ UNCHANGED <<tx_curr, buffers>>
  BY DEF card_sends
<1>3. next_out' = (IF next_out + 1 < D THEN next_out + 1 ELSE 0) /\ next_out' \in Slots
  <2>1. next_out' = IF next_out + 1 < D THEN next_out + 1 ELSE 0
    BY <1>1, <1>2, Successor
  <2> QED  BY <1>1, <2>1
<1>4. \A d \in Slots : /\ Dist(d) = IF d >= next_out THEN d - next_out ELSE d - next_out + D
                       /\ Dist(d) \in 0 .. D - 1
  BY <1>1, DistIs
<1>5. \A d \in Slots : Dist(d)' = IF d >= next_out' THEN d - next_out' ELSE d - next_out' + D
  <2> TAKE d \in Slots
  <2>1. D \in Nat \ {0} /\ next_out' \in 0 .. D - 1 /\ d \in 0 .. D - 1
    BY <1>1, <1>3
  <2>2. (d - next_out') % D = IF d >= next_out' THEN d - next_out' ELSE d - next_out' + D
    BY <2>1, WrapDifference
  <2> QED  BY <2>2 DEF Dist
<1>6. ASSUME NEW d \in Slots
      PROVE  Dist(d)' = IF d = next_out THEN D - 1 ELSE Dist(d) - 1
  <2>1. /\ Dist(d) = IF d >= next_out THEN d - next_out ELSE d - next_out + D
        /\ Dist(d)' = IF d >= next_out' THEN d - next_out' ELSE d - next_out' + D
    BY <1>4, <1>5
  <2>2. d \in 0 .. D - 1 /\ next_out \in 0 .. D - 1
    BY <1>1
  <2> HIDE DEF Dist
  <2> QED  BY <1>1, <1>3, <2>1, <2>2
<1>7. Dist(next_out) = 0 /\ Waits > 0
  <2>1. Dist(next_out) = 0
    BY <1>1, <1>4
  <2>2. Dist(next_out) < Waits
    BY <1>1, <1>2 DEF TxInv
  <2> QED  BY <2>1, <2>2
<1>8. Waits = Dist(tx_curr) + (IF tx_curr = next_out THEN D ELSE 0)
  BY <1>2 DEF Waits, Dist
<1>9. owned' = {d \in Slots : Dist(d)' < Waits - 1}
  <2>1. owned = {d \in Slots : Dist(d) < Waits}
    BY DEF TxInv
  <2>2. ASSUME NEW d \in Slots
        PROVE  Dist(d)' < Waits - 1 <=> (Dist(d) < Waits /\ d # next_out)
    <3>1. /\ Dist(d)' = IF d = next_out THEN D - 1 ELSE Dist(d) - 1
          /\ Dist(d) \in 0 .. D - 1
      BY <1>4, <1>6
    <3> HIDE DEF Dist, Waits
    <3> QED  BY <1>1, <3>1
  <2> QED  BY <1>2, <2>1, <2>2
<1>10. Waits' = Waits - 1
  <2>1. PICK t \in Slots : t = tx_curr
    BY <1>1
  <2>2. Waits = Dist(t) + (IF t = next_out THEN D ELSE 0)
    BY <1>8, <2>1
  <2>3. /\ Waits' = Dist(t)' + (IF t = next_out' /\ owned' # {} THEN D ELSE 0)
        /\ Dist(t)' = IF t = next_out THEN D - 1 ELSE Dist(t) - 1
        /\ Dist(t) \in 0 .. D - 1
        /\ Dist(t) = IF t >= next_out THEN t - next_out ELSE t - next_out + D
    <3>1. Waits' = Dist(t)' + (IF t = next_out' /\ owned' # {} THEN D ELSE 0)
      BY <1>2, <2>1 DEF Waits, Dist
    <3> QED  BY <1>1, <1>4, <1>6, <3>1
  <2>4. t \in 0 .. D - 1 /\ next_out \in 0 .. D - 1
    BY <1>1
  <2>5. CASE t = next_out' /\ D # 1
    <3>1. t # next_out /\ Dist(t) = 1
      <4> HIDE DEF Dist
      <4> QED  BY <1>1, <1>3, <2>3, <2>4, <2>5
    <3>2. Waits = 1
      BY <2>2, <3>1
    <3>3. owned' = {}
      <4>1. \A d \in Slots : ~(Dist(d)' < 0)
        <5> TAKE d \in Slots
        <5>1. /\ Dist(d)' = IF d = next_out THEN D - 1 ELSE Dist(d) - 1
              /\ Dist(d) \in 0 .. D - 1
              /\ Dist(d) = IF d >= next_out THEN d - next_out ELSE d - next_out + D
          BY <1>4, <1>6
        <5>2. d \in 0 .. D - 1
          BY <1>1
        <5> HIDE DEF Dist
        <5> QED  BY <1>1, <2>4, <5>1, <5>2
      <4> QED  BY <1>9, <3>2, <4>1
    <3> QED  BY <2>3, <3>1, <3>2, <3>3
  <2>6. CASE D = 1
    <3>1. t = 0 /\ next_out = 0 /\ next_out' = 0 /\ Slots = {0}
      BY <1>1, <1>3, <2>4, <2>6
    <3>2. owned' = {} /\ Waits = 1
      BY <1>2, <1>7, <2>2, <2>6, <3>1 DEF TxInv
    <3> QED  BY <1>7, <2>3, <2>6, <3>1, <3>2
  <2>7. CASE t # next_out'
    <3> HIDE DEF Dist, Waits
    <3> QED  BY <1>1, <2>2, <2>3, <2>4, <2>7
  <2> QED  BY <2>5, <2>6, <2>7
<1>11. TxInv'
  <2>1. Slots' = Slots
    BY DEF Slots
  <2> QED  BY <1>1, <1>2, <1>3, <1>9, <1>10, <2>1 DEF TxInv
<1>12. /\ Outgoing = [i \in 1 .. Waits |-> buffers[(next_out + i - 1) % D]]
       /\ Outgoing \in Seq(Frame \cup {NoFrame}) /\ Len(Outgoing) = Waits
  BY OutgoingIs
<1>13. Outgoing # <<>>
  <2>1. Len(Outgoing) \in Nat /\ Len(Outgoing) > 0
    BY <1>1, <1>7, <1>12
  <2> HIDE DEF Outgoing
  <2> QED  BY <2>1, EmptyLength
<1>14. Outgoing' = Tail(Outgoing)
  <2>1. Outgoing' = [i \in 1 .. Waits - 1 |-> buffers[(next_out' + i - 1) % D]]
    <3>1. Outgoing' = [i \in 1 .. Waits' |-> buffers'[(next_out' + i - 1) % D]]
      BY DEF Outgoing, Waits
    <3> QED  BY <1>2, <1>10, <3>1
  <2>2. ASSUME NEW i \in 1 .. Waits - 1
        PROVE  buffers[(next_out' + i - 1) % D] = Outgoing[i + 1]
    <3>1. i \in Nat /\ i - 1 \in 0 .. D - 1 /\ i + 1 \in 1 .. D /\ i + 1 \in 1 .. Waits /\ i >= 1
      <4> HIDE DEF Waits
      <4> QED  BY <1>1
    <3>2. (next_out' + (i - 1)) % D = IF next_out' + (i - 1) < D THEN next_out' + (i - 1)
                                      ELSE next_out' + (i - 1) - D
      BY <1>1, <1>3, <3>1, WrapSum
    <3>3. (next_out + (i + 1) - 1) % D
            = IF next_out + (i + 1) - 1 < D THEN next_out + (i + 1) - 1
              ELSE next_out + (i + 1) - 1 - D
      BY <1>1, <3>1, PlaceIs
    <3>4. next_out' + (i - 1) = next_out' + i - 1
      BY <1>1, <1>3, <3>1
    <3>5. (next_out' + i - 1) % D = (next_out + (i + 1) - 1) % D
      BY <1>1, <1>3, <3>1, <3>2, <3>3, <3>4
    <3> QED  BY <1>12, <3>1, <3>5
  <2>3. Tail(Outgoing) = [i \in 1 .. Waits - 1 |-> Outgoing[i + 1]]
    <3> HIDE DEF Waits, Outgoing
    <3> QED  BY <1>1, <1>7, <1>12
  <2> QED  BY <2>1, <2>2, <2>3
<1> QED  BY <1>11, <1>13, <1>14

-----------------------------------------------------------------------------
(* The refinement.  The way in is the chain of stored frames, the way out  *)
(* the descriptors the card owns.                                          *)

Incoming == [i \in DOMAIN stored |-> stored[i].frame]

LEMMA IncomingIs ==
  ASSUME NEW s \in Seq(Entry)
  PROVE  /\ [i \in DOMAIN s |-> s[i].frame] \in Seq(Frame)
         /\ Len([i \in DOMAIN s |-> s[i].frame]) = Len(s)
<1>1. Len(s) \in Nat /\ DOMAIN s = 1 .. Len(s)
  OBVIOUS
<1>2. \A i \in 1 .. Len(s) : s[i].frame \in Frame
  <2> TAKE i \in 1 .. Len(s)
  <2>1. s[i] \in Entry
    OBVIOUS
  <2> QED  BY <2>1 DEF Entry
<1> HIDE DEF Entry
<1> QED  BY <1>1, <1>2

LEMMA ReceiveArrives ==
  ASSUME RingInv, NEW f \in Frame, card_receives(f)
  PROVE  Incoming' = Append(Incoming, f)
<1>1. stored \in Seq(Entry) /\ write_at \in Position /\ Len(stored) \in Nat
  BY DEF RingInv, RingType
<1>2. PICK e \in Entry : e.frame = f /\ stored' = Append(stored, e)
  BY <1>1 DEF card_receives, Entry
<1>3. /\ stored' \in Seq(Entry) /\ Len(stored') = Len(stored) + 1
      /\ stored'[Len(stored) + 1] = e
      /\ \A i \in 1 .. Len(stored) : stored'[i] = stored[i]
  BY <1>1, <1>2, AppendAt
<1>4. /\ Incoming \in Seq(Frame) /\ Len(Incoming) = Len(stored)
      /\ Incoming = [i \in 1 .. Len(stored) |-> stored[i].frame]
      /\ Incoming' = [i \in 1 .. Len(stored) + 1 |-> stored'[i].frame]
  <2>1. DOMAIN stored = 1 .. Len(stored) /\ DOMAIN stored' = 1 .. Len(stored) + 1
    BY <1>1, <1>3
  <2> QED  BY <1>1, <2>1, IncomingIs DEF Incoming
<1>5. Append(Incoming, f) = [i \in 1 .. Len(stored) + 1 |-> IF i = Len(stored) + 1 THEN f ELSE Incoming[i]]
  <2> HIDE DEF Incoming
  <2> QED  BY <1>1, <1>4
<1>6. ASSUME NEW i \in 1 .. Len(stored) + 1
      PROVE  stored'[i].frame = IF i = Len(stored) + 1 THEN f ELSE Incoming[i]
  <2>1. CASE i = Len(stored) + 1
    BY <1>2, <1>3, <2>1
  <2>2. CASE i # Len(stored) + 1
    <3>1. i \in 1 .. Len(stored)
      BY <1>1, <2>2
    <3> QED  BY <1>3, <1>4, <2>2, <3>1
  <2> QED  BY <2>1, <2>2
<1> QED  BY <1>4, <1>5, <1>6

LEMMA ReceiveHands ==
  ASSUME RingInv, rtl8139_receive
  PROVE  /\ Incoming # <<>> /\ Incoming' = Tail(Incoming)
         /\ response' \in {response, Append(response, Head(Incoming))}
<1>1. stored \in Seq(Entry) /\ Len(stored) \in Nat
  BY DEF RingInv, RingType
<1>2. PICK k \in Found :
        /\ response' \in {response, Append(response, stored[k].frame)}
        /\ stored' = Tail(stored)
  BY DEF rtl8139_receive
<1>3. k = 1 /\ stored # <<>> /\ 1 \in 1 .. Len(stored)
  BY OldestFound
<1>4. /\ stored' \in Seq(Entry) /\ Len(stored') = Len(stored) - 1
      /\ \A i \in 1 .. Len(stored) - 1 : stored'[i] = stored[i + 1]
  BY <1>1, <1>2, <1>3, TailAt
<1>5. /\ Incoming \in Seq(Frame) /\ Len(Incoming) = Len(stored)
      /\ Incoming = [i \in 1 .. Len(stored) |-> stored[i].frame]
      /\ Incoming' = [i \in 1 .. Len(stored) - 1 |-> stored'[i].frame]
  <2>1. DOMAIN stored = 1 .. Len(stored) /\ DOMAIN stored' = 1 .. Len(stored) - 1
    BY <1>1, <1>4
  <2> QED  BY <1>1, <2>1, IncomingIs DEF Incoming
<1>6. Incoming # <<>>
  <2>1. Len(Incoming) \in Nat /\ Len(Incoming) > 0
    BY <1>1, <1>3, <1>5
  <2> HIDE DEF Incoming
  <2> QED  BY <2>1, EmptyLength
<1>7. Tail(Incoming) = [i \in 1 .. Len(stored) - 1 |-> Incoming[i + 1]]
  <2> HIDE DEF Incoming
  <2> QED  BY <1>1, <1>5, <1>6
<1>8. Incoming' = Tail(Incoming)
  <2>1. ASSUME NEW i \in 1 .. Len(stored) - 1 PROVE stored'[i].frame = Incoming[i + 1]
    <3>1. i + 1 \in 1 .. Len(stored)
      BY <1>1
    <3> QED  BY <1>4, <1>5, <3>1
  <2> QED  BY <1>5, <1>7, <2>1
<1>9. Head(Incoming) = stored[1].frame
  <2>1. Incoming[1] = stored[1].frame
    BY <1>3, <1>5
  <2> HIDE DEF Incoming
  <2> QED  BY <1>5, <1>6, <2>1
<1> QED  BY <1>2, <1>3, <1>6, <1>8, <1>9

LEMMA TxInvInit == RtlInit => TxInv /\ Outgoing = <<>>
<1> SUFFICES ASSUME RtlInit PROVE TxInv /\ Outgoing = <<>>
  OBVIOUS
<1>1. /\ tx_curr = 0 /\ next_out = 0 /\ owned = {} /\ 0 \in Slots
      /\ Descriptors \in Nat \ {0} /\ 0 \in 0 .. Descriptors - 1
      /\ buffers \in [Slots -> Frame \cup {NoFrame}]
  BY RingAssumption DEF RtlInit, Slots
<1>2. (0 - 0) % Descriptors = 0
  <2>1. (0 - 0) % Descriptors = IF 0 >= 0 THEN 0 - 0 ELSE 0 - 0 + Descriptors
    BY <1>1, WrapDifference
  <2> QED  BY <2>1
<1>3. Waits = 0
  BY <1>1, <1>2 DEF Waits
<1>4. \A d \in Slots : ~(Dist(d) < 0)
  BY <1>1, DistIs
<1>5. TxInv
  BY <1>1, <1>3, <1>4 DEF TxInv
<1>6. Outgoing \in Seq(Frame \cup {NoFrame}) /\ Len(Outgoing) = 0
  BY <1>3, <1>5, OutgoingIs
<1>7. Outgoing = <<>>
  <2> HIDE DEF Outgoing
  <2> QED  BY <1>6
<1> QED  BY <1>5, <1>7

LEMMA TxAlone ==
  ASSUME TxInv, UNCHANGED txVars
  PROVE  TxInv' /\ Outgoing' = Outgoing
BY DEF TxInv, txVars, Waits, Dist, Slots, Outgoing

(* Every step of the driver and the card is one of the two queues'.        *)
LEMMA NicStep ==
  ASSUME RingInv, TxInv, [RtlNext]_rtlVars
  PROVE  TxInv' /\ [N!NicNext]_(N!nicVars)
<1> USE DEF N!NicNext, N!nicVars
<1>1. ASSUME NEW f \in Frame, card_receives(f) PROVE TxInv' /\ N!NicNext
  <2>1. TxInv' /\ Outgoing' = Outgoing /\ response' = response
    BY <1>1, TxAlone DEF card_receives
  <2>2. Incoming' = Append(Incoming, f)
    BY <1>1, ReceiveArrives
  <2> QED  BY <2>1, <2>2 DEF N!Arrive, Incoming
<1>2. ASSUME NEW f \in Frame, rust_rtl8139_send(f) PROVE TxInv' /\ N!NicNext
  <2>1. TxInv' /\ Waits < Descriptors /\ Outgoing' = Append(Outgoing, f) /\ Len(Outgoing) = Waits
    BY <1>2, SendQueues, OutgoingIs
  <2>2. Incoming' = Incoming /\ response' = response
    BY <1>2 DEF rust_rtl8139_send, rxVars, Incoming
  <2> QED  BY <2>1, <2>2 DEF N!Queue, Incoming
<1>3. CASE card_sends
  <2>1. TxInv' /\ Outgoing # <<>> /\ Outgoing' = Tail(Outgoing)
    BY <1>3, SendLeaves
  <2>2. Incoming' = Incoming /\ response' = response
    BY <1>3 DEF card_sends, rxVars, Incoming
  <2> QED  BY <2>1, <2>2 DEF N!Leave, Incoming
<1>4. CASE \E resets \in BOOLEAN : rust_init_rtl8139(resets)
  <2>1. TxInv' /\ Outgoing' = Outgoing
    BY <1>4, TxAlone DEF rust_init_rtl8139
  <2>2. Incoming' = Incoming /\ response' = response
    BY <1>4 DEF rust_init_rtl8139, rxVars, Incoming
  <2> QED  BY <2>1, <2>2 DEF Incoming
<1>5. CASE rtl8139_receive
  <2>1. TxInv' /\ Outgoing' = Outgoing
    BY <1>5, TxAlone DEF rtl8139_receive
  <2>2. /\ Incoming # <<>> /\ Incoming' = Tail(Incoming)
        /\ response' \in {response, Append(response, Head(Incoming))}
    BY <1>5, ReceiveHands
  <2> QED  BY <2>1, <2>2 DEF N!Hand, Incoming
<1>6. CASE clear_response
  <2>1. TxInv' /\ Outgoing' = Outgoing
    BY <1>6, TxAlone DEF clear_response
  <2>2. Incoming' = Incoming /\ response' = <<>>
    BY <1>6 DEF clear_response, Incoming
  <2> QED  BY <2>1, <2>2 DEF N!Clear, Incoming
<1>7. CASE UNCHANGED rtlVars
  <2>1. TxInv' /\ Outgoing' = Outgoing
    BY <1>7, TxAlone DEF rtlVars
  <2>2. Incoming' = Incoming /\ response' = response
    BY <1>7 DEF rtlVars, rxVars, Incoming
  <2> QED  BY <2>1, <2>2 DEF Incoming
<1> QED  BY <1>1, <1>2, <1>3, <1>4, <1>5, <1>6, <1>7 DEF RtlNext

(* The driver and the card are two queues: no frame the card accepted is   *)
(* lost, repeated or reordered on the way to the response buffer           *)
(* (rtl8139_receive), and none given to rust_rtl8139_send is overwritten   *)
(* before it has left, for every ring, frame length and number of          *)
(* descriptors.                                                            *)
THEOREM DriverImplementsNic == RtlSpec => NicSpec
<1>1. RtlInit => RingInv /\ TxInv
  BY RingInvInit, TxInvInit
<1>2. RingInv /\ TxInv /\ [RtlNext]_rtlVars => RingInv' /\ TxInv'
  BY RingInvNext, NicStep
<1>3. RtlInit => N!NicInit
  <2> SUFFICES ASSUME RtlInit PROVE N!NicInit
    OBVIOUS
  <2>1. Outgoing = <<>> /\ response = <<>> /\ stored = <<>>
    BY TxInvInit DEF RtlInit
  <2>2. [i \in DOMAIN stored |-> stored[i].frame] = <<>>
    BY <2>1
  <2> QED  BY <2>1, <2>2 DEF N!NicInit
<1>4. RingInv /\ TxInv /\ [RtlNext]_rtlVars => [N!NicNext]_(N!nicVars)
  BY NicStep
<1> QED  BY <1>1, <1>2, <1>3, <1>4, PTL DEF RtlSpec, NicSpec, N!NicSpec
=============================================================================
