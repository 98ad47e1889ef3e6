-------------------------------- MODULE RChat ---------------------------------
(***************************************************************************)
(* The rChat client: the window of src/commands/tui.c over the profiles    *)
(* and requests of rust_lib/src/rchat.rs.                                  *)
(*                                                                         *)
(* A refresh polls the server for one message at a time, stores it, and    *)
(* acknowledges it; one request is one step.  A request can fail before    *)
(* the server sees it or after it has acted on it, with the same result    *)
(* for the client; the session it runs in (ensure_session) is part of it.  *)
(* The C side keeps the contacts, their histories and ack_pending, the     *)
(* Rust side the cursor and the message not acknowledged yet.  All of it   *)
(* is in memory only.                                                      *)
(*                                                                         *)
(* A message is its position in the server's mailbox; Bad ones do not      *)
(* verify.                                                                 *)
(***************************************************************************)
EXTENDS Naturals, Sequences, FiniteSets, Functions

CONSTANTS
  Servers,        \* the server addresses the user knows
  Senders,        \* the people who write
  MAX_PROFILES,   \* server profiles, 4 on both sides
  CONTACTS_MAX,   \* RCHAT_CONTACTS_MAX, 4
  HISTORY_MAX,    \* RCHAT_HISTORY_MAX, 8
  Mail,           \* bound: the mail a server may hold in the end
  SENDS_MAX,      \* bound: messages the user writes
  None            \* no server

ASSUME RChatAssumption ==
  /\ None \notin Servers
  /\ {MAX_PROFILES, CONTACTS_MAX, HISTORY_MAX} \subseteq Nat \ {0}
  /\ Mail \in Seq([from : Senders, good : BOOLEAN])
  /\ SENDS_MAX \in Nat

VARIABLES
  active,          \* state.active_server
  known,           \* state.servers
  contacts,        \* for each server the client ids of its contacts
  history,         \* for each server and sender the messages kept
  ack_pending,     \* per server: a stored message is not acknowledged
  screen,          \* "home", or "error" until the user dismisses it
  phase,           \* the step the current refresh is at
  turns,           \* turns of its loop
  r_active,        \* ACTIVE_PROFILE
  r_known,         \* PROFILES
  enrolled,        \* the profiles with enrolled set
  cursor,          \* Profile.cursor, 0 when empty
  pending,         \* Profile.pending_server_message_id, 0 when empty
  pending_cursor,  \* Profile.pending_cursor
  arrived,         \* server: how much of Mail has arrived
  acked,           \* server: the messages acknowledged
  accepted,        \* server: the user's messages it has taken
  sends,           \* messages the user has tried to send
  shown            \* history: every received message put into a history

uiVars == <<active, known, contacts, history, ack_pending, screen, shown>>
loopVars == <<phase, turns>>
rustVars == <<r_active, r_known, enrolled, cursor, pending, pending_cursor>>
serverVars == <<arrived, acked, accepted, sends>>
rchatVars == <<uiVars, loopVars, rustVars, serverVars>>

Sent(id) == [me |-> TRUE, id |-> id]
Got(m) == [me |-> FALSE, id |-> m]

RChatInit ==
  /\ active = None /\ known = {}
  /\ contacts = [s \in Servers |-> {}]
  /\ history = [s \in Servers |-> [c \in Senders |-> <<>>]]
  /\ ack_pending = [s \in Servers |-> FALSE]
  /\ screen = "home" /\ phase = "ui" /\ turns = 0
  /\ r_active = None /\ r_known = {} /\ enrolled = {}
  /\ cursor = [s \in Servers |-> 0]
  /\ pending = [s \in Servers |-> 0]
  /\ pending_cursor = [s \in Servers |-> 0]
  /\ arrived = [s \in Servers |-> 0]
  /\ acked = [s \in Servers |-> {}]
  /\ accepted = [s \in Servers |-> {}]
  /\ sends = 0
  /\ shown = [s \in Servers |-> <<>>]

-----------------------------------------------------------------------------
(* The server (external): mail arrives in order; a page starts behind the  *)
(* cursor and leaves out what is acknowledged.                             *)

mail_arrives(s) ==
  /\ s \in enrolled           \* nobody writes to an unknown identity
  /\ arrived[s] < Len(Mail)
  /\ arrived' = [arrived EXCEPT ![s] = @ + 1]
  /\ UNCHANGED <<uiVars, loopVars, rustVars, acked, accepted, sends>>

Waiting(s) == {m \in 1 .. arrived[s] : m > cursor[s] /\ m \notin acked[s]}

FirstWaiting(s) == CHOOSE m \in Waiting(s) : \A n \in Waiting(s) : m <= n

-----------------------------------------------------------------------------
(* Servers, identities and contacts.                                       *)

AtWindow == phase = "ui" /\ screen = "home"

\* edit_server with an address the Rust side knows or has room for: it
\* selects the profile first, then the C side does.
edit_server(s) ==
  /\ AtWindow
  /\ s \in r_known \/ Cardinality(r_known) < MAX_PROFILES
  /\ r_known' = r_known \cup {s} /\ r_active' = s
  /\ LET listed == s \in known \/ Cardinality(known) < MAX_PROFILES IN
       /\ known' = IF listed THEN known \cup {s} ELSE known
       /\ active' = IF listed THEN s ELSE active
       /\ screen' = IF listed THEN "home" ELSE "error"
  /\ UNCHANGED <<contacts, history, ack_pending, shown, loopVars, enrolled,
                 cursor, pending, pending_cursor, serverVars>>

edit_server_switches(s) ==     \* Mutant: the Rust side switches when it is full.
  /\ AtWindow
  /\ s \notin r_known /\ Cardinality(r_known) = MAX_PROFILES
  /\ screen' = "error"
  /\ r_active' = s
  /\ UNCHANGED <<active, known, contacts, history, ack_pending, shown, loopVars,
                 r_known, enrolled, cursor, pending, pending_cursor, serverVars>>

\* Neither side has room.
edit_server_full(s) ==
  /\ AtWindow
  /\ s \notin r_known /\ Cardinality(r_known) = MAX_PROFILES
  /\ screen' = "error"
  /\ UNCHANGED <<active, known, contacts, history, ack_pending, shown, loopVars,
                 rustVars, serverVars>>

\* enroll_identity and rust_rchat_enroll, when the server agrees.
enroll_identity ==
  /\ AtWindow /\ active # None /\ r_active \notin enrolled
  /\ r_active' = active
  /\ enrolled' = enrolled \cup {active}
  /\ UNCHANGED <<uiVars, loopVars, r_known, cursor, pending, pending_cursor, serverVars>>

IsEnrolled == active # None /\ r_active \in enrolled

\* add_person, once the lookup has verified the keys.
add_person(c) ==
  /\ AtWindow /\ IsEnrolled
  /\ Cardinality(contacts[active]) < CONTACTS_MAX
  /\ c \notin contacts[active]
  /\ contacts' = [contacts EXCEPT ![active] = @ \cup {c}]
  /\ UNCHANGED <<active, known, history, ack_pending, screen, shown, loopVars,
                 rustVars, serverVars>>

\* The user leaves the error screen.
dismiss ==
  /\ screen = "error"
  /\ screen' = "home"
  /\ UNCHANGED <<active, known, contacts, history, ack_pending, shown, loopVars,
                 rustVars, serverVars>>

\* A full history loses its oldest entry.
append_message(h, e) ==
  IF Len(h) = HISTORY_MAX THEN Append(Tail(h), e) ELSE Append(h, e)

\* write_message: the message is shown when the server has answered 200 or
\* 201; an error may hide that it was taken.
write_message_ok(c) ==
  /\ AtWindow /\ IsEnrolled /\ c \in contacts[active] /\ sends < SENDS_MAX
  /\ r_active' = active
  /\ sends' = sends + 1
  /\ accepted' = [accepted EXCEPT ![active] = @ \cup {sends'}]
  /\ history' = [history EXCEPT ![active][c] = append_message(@, Sent(sends'))]
  /\ UNCHANGED <<active, known, contacts, ack_pending, screen, shown, loopVars,
                 r_known, enrolled, cursor, pending, pending_cursor, arrived, acked>>

write_message_fails_shown(c) ==     \* Mutant: shown before the answer is in.
  /\ AtWindow /\ IsEnrolled /\ c \in contacts[active] /\ sends < SENDS_MAX
  /\ r_active' = active
  /\ sends' = sends + 1
  /\ history' = [history EXCEPT ![active][c] = append_message(@, Sent(sends'))]
  /\ screen' = "error"
  /\ UNCHANGED <<active, known, contacts, ack_pending, shown, loopVars, r_known,
                 enrolled, cursor, pending, pending_cursor, arrived, acked, accepted>>

write_message_fails(c) ==
  /\ AtWindow /\ IsEnrolled /\ c \in contacts[active] /\ sends < SENDS_MAX
  /\ r_active' = active
  /\ sends' = sends + 1
  /\ accepted' \in {accepted, [accepted EXCEPT ![active] = @ \cup {sends'}]}
  /\ screen' = "error"
  /\ UNCHANGED <<active, known, contacts, history, ack_pending, shown, loopVars,
                 r_known, enrolled, cursor, pending, pending_cursor, arrived, acked>>

-----------------------------------------------------------------------------
(* refresh_messages.                                                       *)

\* The refresh timer or the R key; an old acknowledgement goes first.
refresh ==
  /\ AtWindow /\ IsEnrolled
  /\ turns' = 0
  /\ phase' = IF ack_pending[active] THEN "old_ack" ELSE "poll"
  /\ r_active' = IF ack_pending[active] THEN r_active ELSE active
  /\ UNCHANGED <<uiVars, r_known, enrolled, cursor, pending, pending_cursor, serverVars>>

\* acknowledge_pending for profile p: nothing to do, or the request succeeds.
acknowledge_pending(p) ==
  IF pending[p] = 0
  THEN UNCHANGED <<acked, cursor, pending, pending_cursor>>
  ELSE /\ acked' = [acked EXCEPT ![p] = @ \cup {pending[p]}]
       /\ cursor' = [cursor EXCEPT ![p] = pending_cursor[p]]
       /\ pending' = [pending EXCEPT ![p] = 0]
       /\ pending_cursor' = [pending_cursor EXCEPT ![p] = 0]

acknowledge_fails_cleared(p) ==     \* Mutant: the id is taken before the request.
  /\ pending[p] # 0
  /\ acked' \in {acked, [acked EXCEPT ![p] = @ \cup {pending[p]}]}
  /\ pending' = [pending EXCEPT ![p] = 0]
  /\ UNCHANGED <<cursor, pending_cursor>>

\* The request fails, before or after the server has done its part.
acknowledge_fails(p) ==
  /\ pending[p] # 0
  /\ acked' \in {acked, [acked EXCEPT ![p] = @ \cup {pending[p]}]}
  /\ UNCHANGED <<cursor, pending, pending_cursor>>

old_ack_ok ==
  /\ phase = "old_ack"
  /\ acknowledge_pending(r_active)
  /\ ack_pending' = [ack_pending EXCEPT ![active] = FALSE]
  /\ phase' = "poll"
  /\ r_active' = active
  /\ UNCHANGED <<active, known, contacts, history, screen, shown, turns, r_known,
                 enrolled, arrived, accepted, sends>>

old_ack_fails ==
  /\ phase = "old_ack"
  /\ acknowledge_fails(r_active)
  /\ phase' = "ui" /\ screen' = "error"
  /\ UNCHANGED <<active, known, contacts, history, ack_pending, shown, turns, r_active,
                 r_known, enrolled, arrived, accepted, sends>>

\* rust_rchat_poll finds no message.
poll_empty ==
  /\ phase = "poll" /\ pending[r_active] = 0 /\ Waiting(r_active) = {}
  /\ cursor' = [cursor EXCEPT ![r_active] = arrived[r_active]]
  /\ phase' = "ui"
  /\ UNCHANGED <<uiVars, turns, r_active, r_known, enrolled, pending, pending_cursor,
                 serverVars>>

\* It finds one that verifies, and keeps its id until it is acknowledged.
PollTakes(m) ==
  /\ phase = "poll" /\ pending[r_active] = 0 /\ Waiting(r_active) # {}
  /\ m = FirstWaiting(r_active) /\ Mail[m].good
  /\ pending' = [pending EXCEPT ![r_active] = m]
  /\ pending_cursor' = [pending_cursor EXCEPT ![r_active] = m]
  /\ UNCHANGED <<active, known, turns, r_active, r_known, enrolled, cursor, serverVars>>

HasRoom(c) == c \in contacts[active] \/ Cardinality(contacts[active]) < CONTACTS_MAX

\* The sender is a contact or becomes one, and the message is stored.
poll_stores(m) ==
  /\ PollTakes(m)
  /\ HasRoom(Mail[m].from)
  /\ contacts' = [contacts EXCEPT ![active] = @ \cup {Mail[m].from}]
  /\ history' = [history EXCEPT ![active][Mail[m].from] = append_message(@, Got(m))]
  /\ shown' = [shown EXCEPT ![active] = Append(@, m)]
  /\ ack_pending' = [ack_pending EXCEPT ![active] = TRUE]
  /\ phase' = "ack"
  /\ UNCHANGED screen

poll_full_acked(m) ==     \* Mutant: a message without a place is acknowledged.
  /\ PollTakes(m)
  /\ ~HasRoom(Mail[m].from)
  /\ ack_pending' = [ack_pending EXCEPT ![active] = TRUE]
  /\ phase' = "ui" /\ screen' = "error"
  /\ UNCHANGED <<contacts, history, shown>>

\* The contact list is full.
poll_full(m) ==
  /\ PollTakes(m)
  /\ ~HasRoom(Mail[m].from)
  /\ phase' = "ui" /\ screen' = "error"
  /\ UNCHANGED <<contacts, history, ack_pending, shown>>

\* A request fails (a quiet refresh does not say so), the message does not
\* verify, or an earlier one has not been acknowledged.
poll_fails ==
  /\ phase = "poll"
  /\ phase' = "ui"
  /\ \/ pending[r_active] = 0 /\ screen' \in {"home", "error"}
     \/ pending[r_active] # 0 /\ screen' = "error"
  /\ UNCHANGED <<active, known, contacts, history, ack_pending, shown, turns, rustVars,
                 serverVars>>

ack_ok ==
  /\ phase = "ack"
  /\ acknowledge_pending(r_active)
  /\ ack_pending' = [ack_pending EXCEPT ![active] = FALSE]
  /\ turns' = turns + 1
  /\ phase' = IF turns' = HISTORY_MAX THEN "ui" ELSE "poll"
  /\ UNCHANGED <<active, known, contacts, history, screen, shown, r_active, r_known,
                 enrolled, arrived, accepted, sends>>

ack_fails_forgotten ==     \* Mutant: the failed acknowledgement is not kept.
  /\ phase = "ack"
  /\ acknowledge_fails(r_active)
  /\ ack_pending' = [ack_pending EXCEPT ![active] = FALSE]
  /\ phase' = "ui" /\ screen' = "error"
  /\ UNCHANGED <<active, known, contacts, history, shown, turns, r_active, r_known,
                 enrolled, arrived, accepted, sends>>

ack_fails ==
  /\ phase = "ack"
  /\ acknowledge_fails(r_active)
  /\ phase' = "ui" /\ screen' = "error"
  /\ UNCHANGED <<active, known, contacts, history, ack_pending, shown, turns, r_active,
                 r_known, enrolled, arrived, accepted, sends>>

-----------------------------------------------------------------------------
Messages == 1 .. Len(Mail)

User ==
  \/ \E s \in Servers : edit_server(s) \/ edit_server_full(s)
  \/ enroll_identity
  \/ \E c \in Senders : add_person(c) \/ write_message_ok(c) \/ write_message_fails(c)
  \/ dismiss

Answered ==
  \/ old_ack_ok \/ ack_ok \/ poll_empty
  \/ \E m \in Messages : poll_stores(m) \/ poll_full(m)

Unanswered == old_ack_fails \/ poll_fails \/ ack_fails

RChatNext ==
  \/ \E s \in Servers : mail_arrives(s)
  \/ User \/ refresh \/ Answered \/ Unanswered

RChatSpec == RChatInit /\ [][RChatNext]_rchatVars

\* The window refreshes after 15 seconds without a key, and the user leaves
\* the keyboard alone that long again and again (SF); every request returns by
\* its timeout; the user leaves error screens; the network does not fail every
\* request for ever.
FairRChatSpec ==
  /\ RChatSpec
  /\ SF_rchatVars(refresh) /\ WF_rchatVars(dismiss)
  /\ WF_rchatVars(Answered \/ Unanswered)
  /\ SF_rchatVars(old_ack_ok) /\ SF_rchatVars(ack_ok)
  /\ SF_rchatVars(poll_empty \/ \E m \in Messages : poll_stores(m) \/ poll_full(m))

-----------------------------------------------------------------------------
Entries == [me : BOOLEAN, id : Nat]

RChatTypeOK ==
  /\ active \in Servers \cup {None} /\ r_active \in Servers \cup {None}
  /\ known \subseteq Servers /\ r_known \subseteq Servers /\ enrolled \subseteq Servers
  /\ contacts \in [Servers -> SUBSET Senders]
  /\ history \in [Servers -> [Senders -> Seq(Entries)]]
  /\ \A s \in Servers :
       /\ IsFiniteSet(contacts[s]) /\ Cardinality(contacts[s]) <= CONTACTS_MAX
       /\ \A c \in Senders : Len(history[s][c]) <= HISTORY_MAX
  /\ {cursor, pending, pending_cursor, arrived} \subseteq [Servers -> 0 .. Len(Mail)]
  /\ acked \in [Servers -> SUBSET Messages] /\ shown \in [Servers -> Seq(Messages)]
  /\ ack_pending \in [Servers -> BOOLEAN]
  /\ accepted \in [Servers -> SUBSET (1 .. SENDS_MAX)] /\ sends \in 0 .. SENDS_MAX
  /\ screen \in {"home", "error"}
  /\ phase \in {"ui", "old_ack", "poll", "ack"} /\ turns \in 0 .. HISTORY_MAX

\* A message the server may forget has been stored: an acknowledgement, and
\* the cursor, never get ahead of what the window has put into a history,
\* whichever requests fail and wherever the user switches in between.
AckedIsStored ==
  \A s \in Servers : (acked[s] \cup (1 .. cursor[s])) \subseteq Range(shown[s])

\* No message is stored twice or out of order, although an acknowledgement
\* that got lost is sent again.
ShownOnce ==
  \A s \in Servers : \A i, j \in DOMAIN shown[s] : i < j => shown[s][i] < shown[s][j]

\* Both sides have the same servers and the same one selected, however the
\* user adds and switches them: otherwise a stored message would be
\* acknowledged to the wrong server.
SidesAgree == active = r_active /\ known = r_known

\* What the history shows as sent, the server has taken.
SentIsAccepted ==
  \A s \in Servers, c \in Senders :
    \A e \in Range(history[s][c]) : e.me => e.id \in accepted[s]

\* The history the user reads is what happened, through lost answers, retries
\* and switches of the server: nothing received twice or out of order, and
\* nothing shown as sent that the server has not taken.
HistoryHonest == ShownOnce /\ SentIsAccepted

\* Mail for an enrolled identity on the server the user stays with is shown
\* in the end, through lost requests and error screens, if its sender and the
\* senders of the mail before it are in the contact list.
ContactsAreHeard ==
  \A s \in Servers :
    <>[](active = s)
      => \A m \in Messages :
           (s \in enrolled /\ arrived[s] >= m /\ \A k \in 1..m : Mail[k].from \in contacts[s])
             ~> m \in Range(shown[s])
===============================================================================
