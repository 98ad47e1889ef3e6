------------------------------ MODULE ByteStream ------------------------------
(***************************************************************************)
(* What the Transport of rust_lib/src/fetch promises its caller (an HTTP   *)
(* or a TLS exchange) about one connection, with no segment, no sequence   *)
(* number and no clock: the server's response is read in order and without *)
(* gaps, the end of the stream is reported only behind its last byte, and  *)
(* what write reports as sent has reached the server, once and in order.   *)
(***************************************************************************)
EXTENDS Naturals, Sequences

CONSTANTS
  Request,    \* the bytes the caller has to write
  Response    \* the bytes the server sends before it closes

VARIABLES
  got,        \* the bytes the server has taken off the connection
  written,    \* how many bytes write has reported as delivered
  delivered,  \* the bytes read has returned
  eof         \* read has returned 0: the end of the stream

streamVars == <<got, written, delivered, eof>>

StreamInit ==
  /\ got = <<>>
  /\ written = 0
  /\ delivered = <<>>
  /\ eof = FALSE

Arrive ==
  /\ \E n \in Len(got) + 1 .. Len(Request) : got' = SubSeq(Request, 1, n)
  /\ UNCHANGED <<written, delivered, eof>>

Confirm ==
  /\ written' \in written + 1 .. Len(got)
  /\ UNCHANGED <<got, delivered, eof>>

Read ==
  /\ ~eof
  /\ \E n \in Len(delivered) + 1 .. Len(Response) : delivered' = SubSeq(Response, 1, n)
  /\ UNCHANGED <<got, written, eof>>

ReadEnd ==
  /\ delivered = Response
  /\ eof' = TRUE
  /\ UNCHANGED <<got, written, delivered>>

StreamNext == Arrive \/ Confirm \/ Read \/ ReadEnd

StreamSpec == StreamInit /\ [][StreamNext]_streamVars
===============================================================================
