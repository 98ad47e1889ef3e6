------------------------------ MODULE Rtl8139 ------------------------------
(***************************************************************************)
(* The polled RTL8139 driver of lib.rs and the card it drives.  The card   *)
(* writes frames into a ring of RingSize bytes, each behind a header of    *)
(* four bytes and starting on a multiple of four; a frame that starts      *)
(* before the end of the ring runs on into a spill area (RCR_NO_WRAP).     *)
(* The driver keeps its own idea of where the next frame starts.           *)
(* Outgoing frames take the card's four descriptors in turn.               *)
(*                                                                         *)
(* A frame is the number of bytes the card reports for it (the CRC         *)
(* included).  Short and damaged frames are not in Frame: RCR does not let *)
(* the card accept them.                                                   *)
(***************************************************************************)
EXTENDS Integers, Sequences

CONSTANTS
    Frame,         \* the lengths of frames
    RingSize,      \* RX_RING_SIZE
    Descriptors,   \* four
    ResponseSize   \* sizeof RX_RESPONSE_BUFFER

ASSUME RingAssumption ==
    /\ Frame \subseteq Nat \ {0}
    /\ RingSize \in Nat \ {0} /\ RingSize % 4 = 0
    /\ Descriptors \in Nat \ {0}
    /\ ResponseSize \in Nat

VARIABLES
    ready,           \* RTL8139_DEVICE is Some
    current_packet,  \* where the driver expects the next frame
    response,        \* the frames copied to RX_RESPONSE_BUFFER
    response_length, \* RX_RESPONSE_LENGTH
    tx_curr,         \* the descriptor the driver fills next
    write_at,        \* the card's write offset (CBR)
    stored,          \* the frames in the ring, oldest first: [at, frame]
    owned,           \* descriptors the card owns (OWN clear): a set
    buffers,         \* the frame in each descriptor's buffer
    next_out         \* the descriptor the card sends next

rxVars == <<current_packet, response, response_length, write_at, stored>>
txVars == <<tx_curr, owned, buffers, next_out>>
rtlVars == <<ready, rxVars, txVars>>

Slots == 0 .. Descriptors - 1
NoFrame == 0

RtlInit ==
    /\ ready = FALSE
    /\ current_packet = 0 /\ response = <<>> /\ response_length = 0
    /\ tx_curr = 0
    /\ write_at = 0 /\ stored = <<>>
    /\ owned = {} /\ next_out = 0
    /\ buffers = [d \in Slots |-> NoFrame]

(* (n + 3) & !3 *)
Aligned(n) == ((n + 3) \div 4) * 4

(* The bytes a frame takes up in the ring. *)
Extent(f) == Aligned(f + 4)

-----------------------------------------------------------------------------
(* The card. *)

After(at, f) == (at + Extent(f)) % RingSize

InRing == (write_at - current_packet) % RingSize

(* A frame that would fill the ring is dropped: equal pointers mean empty. *)
card_receives(f) ==
    /\ ready
    /\ InRing + Extent(f) < RingSize
    /\ stored' = Append(stored, [at |-> write_at, frame |-> f])
    /\ write_at' = After(write_at, f)
    /\ UNCHANGED <<ready, current_packet, response, response_length, txVars>>

(* DMA of a descriptor is over: the card gives it back and goes on to the  *)
(* next one.                                                               *)
card_sends ==
    /\ next_out \in owned
    /\ owned' = owned \ {next_out}
    /\ next_out' = (next_out + 1) % Descriptors
    /\ UNCHANGED <<ready, tx_curr, buffers, rxVars>>

-----------------------------------------------------------------------------
(* rust_init_rtl8139: a second call finds the device; a reset that does    *)
(* not end (or memory that runs out) leaves none.                          *)
rust_init_rtl8139(resets) ==
    /\ ready' = (ready \/ resets)
    /\ UNCHANGED <<rxVars, txVars>>

\* Mutant: the descriptor is not waited for.
SlotFree_unchecked == TRUE

(* rust_rtl8139_send: the descriptor is waited for, filled and given to    *)
(* the card.                                                               *)
SlotFree == tx_curr \notin owned

rust_rtl8139_send(f) ==
    /\ ready
    /\ SlotFree
    /\ buffers' = [buffers EXCEPT ![tx_curr] = f]
    /\ owned' = owned \cup {tx_curr}
    /\ tx_curr' = (tx_curr + 1) % Descriptors
    /\ UNCHANGED <<ready, next_out, rxVars>>

Copied(f) == response_length = 0 \/ response_length + f <= ResponseSize

\* Mutant: the next position is not rounded up.
NewPosition_unaligned(f) == (current_packet + f + 4) % RingSize

NewPosition(f) == Aligned(current_packet + f + 4) % RingSize

(* The frame the driver finds where it looks. *)
Found == {i \in DOMAIN stored : stored[i].at = current_packet}

(* rtl8139_receive, one turn of its loop: CMD_BUFFER_EMPTY is clear, the   *)
(* frame at current_packet is copied if it fits and passed over if not,    *)
(* and the card is told (CAPR) how far the driver has read.                *)
rtl8139_receive ==
    /\ ready
    /\ write_at # current_packet
    /\ \E i \in Found :
         LET f == stored[i].frame
         IN /\ IF Copied(f)
               THEN /\ response' = Append(response, f)
                    /\ response_length' = response_length + f
               ELSE UNCHANGED <<response, response_length>>
            /\ current_packet' = NewPosition(f)
            /\ stored' = Tail(stored)
    /\ UNCHANGED <<ready, write_at, txVars>>

(* RX_RESPONSE_LENGTH = 0, as every caller does between frames. *)
clear_response ==
    /\ response_length # 0
    /\ response' = <<>> /\ response_length' = 0
    /\ UNCHANGED <<ready, current_packet, write_at, stored, txVars>>

RtlNext ==
    \/ \E f \in Frame : card_receives(f) \/ rust_rtl8139_send(f)
    \/ card_sends
    \/ \E resets \in BOOLEAN : rust_init_rtl8139(resets)
    \/ rtl8139_receive
    \/ clear_response

RtlSpec == RtlInit /\ [][RtlNext]_rtlVars

-----------------------------------------------------------------------------
(* The driver never loses the ring: what it reads next is the oldest frame *)
(* the card stored, and "empty" to the one is empty to the other, wherever *)
(* the frames lie and however they are aligned or run over the ring's end. *)
RingInSync ==
    /\ stored # <<>> => stored[1].at = current_packet
    /\ (write_at = current_packet) <=> (stored = <<>>)

(* The frames in the card's descriptors, in the order it sends them. *)
Outgoing ==
    [i \in 1 .. ((tx_curr - next_out) % Descriptors)
               + (IF tx_curr = next_out /\ owned # {} THEN Descriptors ELSE 0)
        |-> buffers[(next_out + i - 1) % Descriptors]]

(* The driver and the card implement the two queues the network stack is   *)
(* written for: no frame the card accepted is lost, repeated or reordered  *)
(* on the way in, and none that was sent is overwritten on the way out.    *)
N == INSTANCE Nic WITH
        Depth <- Descriptors,
        in_queue <- [i \in DOMAIN stored |-> stored[i].frame],
        out_queue <- Outgoing,
        handed <- response

NicSpec == N!NicSpec

=============================================================================
