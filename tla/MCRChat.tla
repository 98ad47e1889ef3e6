------------------------------- MODULE MCRChat --------------------------------
(* RChat with small mailboxes.                                             *)
EXTENDS RChat

CONSTANTS a, b     \* two senders

From(c) == [from |-> c, good |-> TRUE]

Twice == <<From(a), From(a)>>
BadFirst == <<[from |-> b, good |-> FALSE], From(a)>>
===============================================================================
