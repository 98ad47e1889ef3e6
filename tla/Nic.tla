-------------------------------- MODULE Nic --------------------------------
(***************************************************************************)
(* What the network stack may assume of the network card: two queues.      *)
(* Frames come off the wire in order into in_queue, from where they are    *)
(* handed over one by one (into the response buffer, or past it when it is *)
(* full); frames to send wait in out_queue, at most Depth of them, until   *)
(* they leave in order.  A frame off the wire may be lost before it is     *)
(* queued, never after.                                                    *)
(***************************************************************************)
EXTENDS Naturals, Sequences

CONSTANTS Frame, Depth

VARIABLES in_queue, out_queue, handed

nicVars == <<in_queue, out_queue, handed>>

NicInit == in_queue = <<>> /\ out_queue = <<>> /\ handed = <<>>

Arrive == /\ \E f \in Frame : in_queue' = Append(in_queue, f)
          /\ UNCHANGED <<out_queue, handed>>

(* The oldest frame is handed over, or passed over when the buffer is full. *)
Hand == /\ in_queue # <<>>
        /\ in_queue' = Tail(in_queue)
        /\ handed' \in {handed, Append(handed, Head(in_queue))}
        /\ UNCHANGED out_queue

Clear == handed' = <<>> /\ UNCHANGED <<in_queue, out_queue>>

Queue == /\ Len(out_queue) < Depth
         /\ \E f \in Frame : out_queue' = Append(out_queue, f)
         /\ UNCHANGED <<in_queue, handed>>

Leave == /\ out_queue # <<>>
         /\ out_queue' = Tail(out_queue)
         /\ UNCHANGED <<in_queue, handed>>

NicNext == Arrive \/ Hand \/ Clear \/ Queue \/ Leave

NicSpec == NicInit /\ [][NicNext]_nicVars
=============================================================================
