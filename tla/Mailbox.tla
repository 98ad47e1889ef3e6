------------------------------- MODULE Mailbox -------------------------------
(***************************************************************************)
(* What a bounded message box promises its clients: a post is accepted     *)
(* exactly while fewer than Capacity messages are waiting, an accepted     *)
(* message waits until it is taken, and the reader takes everything that   *)
(* is waiting at once.  No order of delivery is promised.                  *)
(* IpcQueue is shown to implement this under the calls the kernel's own    *)
(* tasks make.                                                             *)
(***************************************************************************)
EXTENDS Integers, FiniteSets

CONSTANT Capacity

VARIABLES
  waiting,   \* the messages accepted and not yet taken, by number
  accepted,  \* how many posts were accepted so far: the next message's number
  refused    \* how many posts were refused so far

mailVars == <<waiting, accepted, refused>>

MailInit ==
  /\ waiting = {}
  /\ accepted = 0
  /\ refused = 0

Accept ==
  /\ Cardinality(waiting) < Capacity
  /\ waiting' = waiting \union {accepted}
  /\ accepted' = accepted + 1
  /\ UNCHANGED refused

Refuse ==
  /\ Cardinality(waiting) = Capacity
  /\ refused' = refused + 1
  /\ UNCHANGED <<waiting, accepted>>

TakeAll ==
  /\ waiting' = {}
  /\ UNCHANGED <<accepted, refused>>

MailNext == Accept \/ Refuse \/ TakeAll

MailSpec == MailInit /\ [][MailNext]_mailVars
=============================================================================
