------------------------------ MODULE RChatProofs ------------------------------
(***************************************************************************)
(* The theorems of RChat, for every set of servers and senders, every      *)
(* mailbox and every size of the lists.                                    *)
(***************************************************************************)
EXTENDS RChat, FiniteSetTheorems, SequenceTheorems, TLAPS

-----------------------------------------------------------------------------
(* The inductive invariant.                                                *)

\* What the window has stored of a mailbox is its beginning, in order.  Of
\* that, only the message kept in pending may lie behind the cursor and not be
\* acknowledged, so the next one polled is the first not stored.  A message is
\* acknowledged only while ack_pending is set: it is the last one stored.  (One
\* that finds the contact list full stays pending without being stored, and
\* without ack_pending.)
StoredFirst(s) ==
  /\ Len(shown[s]) <= arrived[s]
  /\ \A i \in 1 .. Len(shown[s]) : shown[s][i] = i
  /\ acked[s] \subseteq 1 .. Len(shown[s])
  /\ cursor[s] <= Len(shown[s])
  /\ \A m \in 1 .. Len(shown[s]) : (m > cursor[s] /\ m \notin acked[s]) => m = pending[s]
  /\ pending_cursor[s] = pending[s]
  /\ ack_pending[s] => pending[s] = Len(shown[s]) /\ pending[s] > 0

\* A refresh runs for the selected server, and its acknowledgements only for
\* a stored message; the loop is left after HISTORY_MAX turns.
RefreshIsSelected ==
  /\ phase # "ui" => active # None
  /\ phase \in {"old_ack", "ack"} => ack_pending[active]
  /\ phase # "ui" => turns < HISTORY_MAX

RChatInv ==
  /\ RChatTypeOK
  /\ SidesAgree
  /\ \A s \in Servers : StoredFirst(s)
  /\ RefreshIsSelected
  /\ SentIsAccepted

-----------------------------------------------------------------------------
(* Facts about the operators.                                              *)

LEMMA Constants ==
  /\ Len(Mail) \in Nat
  /\ HISTORY_MAX \in Nat /\ HISTORY_MAX > 0
  /\ CONTACTS_MAX \in Nat /\ CONTACTS_MAX > 0
  /\ SENDS_MAX \in Nat
  /\ \A m \in Messages : Mail[m] \in [from : Senders, good : BOOLEAN]
<1>. DEFINE Letter == [from : Senders, good : BOOLEAN]
<1>1. Mail \in Seq(Letter)
  BY RChatAssumption
<1>. HIDE DEF Letter
<1>2. Len(Mail) \in Nat /\ \A m \in 1 .. Len(Mail) : Mail[m] \in Letter
  BY <1>1
<1>3. /\ HISTORY_MAX \in Nat \ {0} /\ CONTACTS_MAX \in Nat \ {0} /\ SENDS_MAX \in Nat
  BY RChatAssumption
<1>. QED  BY <1>2, <1>3 DEF Messages, Letter

\* An entry is added at the end, at the cost of the oldest one at most.
LEMMA AppendMessage ==
  ASSUME NEW h \in Seq(Entries), Len(h) <= HISTORY_MAX, NEW e \in Entries
  PROVE  /\ append_message(h, e) \in Seq(Entries)
         /\ Len(append_message(h, e)) <= HISTORY_MAX
         /\ Range(append_message(h, e)) \subseteq Range(h) \cup {e}
<1>1. Len(h) \in Nat
  OBVIOUS
<1>2. CASE Len(h) = HISTORY_MAX
  <2>1. h # <<>>
    BY <1>2, Constants
  <2>2. /\ Tail(h) \in Seq(Entries)
        /\ Len(Tail(h)) = Len(h) - 1
        /\ \A i \in 1 .. Len(Tail(h)) : Tail(h)[i] = h[i + 1]
    BY <2>1, HeadTailProperties
  <2>. DEFINE t == Tail(h)
  <2>. HIDE DEF t
  <2>3. /\ Append(t, e) \in Seq(Entries)
        /\ Len(Append(t, e)) = Len(t) + 1
        /\ \A i \in 1 .. Len(t) : Append(t, e)[i] = t[i]
        /\ Append(t, e)[Len(t) + 1] = e
        /\ DOMAIN Append(t, e) = 1 .. Len(t) + 1
    BY <2>2 DEF t
  <2>4. \A i \in 1 .. Len(t) : t[i] \in Range(h)
    BY <1>1, <2>2 DEF t, Range
  <2>5. Range(Append(t, e)) \subseteq Range(h) \cup {e}
    BY <1>1, <2>2, <2>3, <2>4 DEF t, Range
  <2>. QED  BY <1>1, <1>2, <2>2, <2>3, <2>5 DEF append_message, t
<1>3. CASE Len(h) # HISTORY_MAX
  <2>1. /\ Append(h, e) \in Seq(Entries)
        /\ Len(Append(h, e)) = Len(h) + 1
        /\ \A i \in 1 .. Len(h) : Append(h, e)[i] = h[i]
        /\ Append(h, e)[Len(h) + 1] = e
        /\ DOMAIN Append(h, e) = 1 .. Len(h) + 1
    OBVIOUS
  <2>2. Range(Append(h, e)) \subseteq Range(h) \cup {e}
    BY <1>1, <2>1 DEF Range
  <2>. QED  BY <1>1, <1>3, <2>1, <2>2, Constants DEF append_message
<1>. QED  BY <1>2, <1>3

\* The types of one server's part of the mailbox, for the steps below.
LEMMA MailboxTyped ==
  ASSUME RChatTypeOK, NEW s \in Servers
  PROVE  /\ cursor[s] \in Nat /\ pending[s] \in Nat /\ pending_cursor[s] \in Nat
         /\ arrived[s] \in 0 .. Len(Mail)
         /\ shown[s] \in Seq(Messages) /\ Len(shown[s]) \in Nat
         /\ acked[s] \subseteq Messages
<1>1. /\ cursor[s] \in 0 .. Len(Mail) /\ pending[s] \in 0 .. Len(Mail)
      /\ pending_cursor[s] \in 0 .. Len(Mail) /\ arrived[s] \in 0 .. Len(Mail)
  BY DEF RChatTypeOK
<1>2. shown[s] \in Seq(Messages) /\ acked[s] \in SUBSET Messages
  BY DEF RChatTypeOK
<1>. QED  BY <1>1, <1>2, Constants

\* With nothing pending, the page starts with the first message not stored.
LEMMA NextIsFirstWaiting ==
  ASSUME RChatTypeOK, NEW s \in Servers, StoredFirst(s), pending[s] = 0
  PROVE  /\ Waiting(s) = {m \in 1 .. arrived[s] : m > Len(shown[s])}
         /\ Waiting(s) # {} => /\ FirstWaiting(s) = Len(shown[s]) + 1
                               /\ FirstWaiting(s) <= arrived[s]
<1>1. /\ cursor[s] \in Nat /\ arrived[s] \in Nat /\ Len(shown[s]) \in Nat
  BY MailboxTyped, Constants
<1>2. Waiting(s) = {m \in 1 .. arrived[s] : m > Len(shown[s])}
  BY <1>1 DEF Waiting, StoredFirst
<1>3. ASSUME Waiting(s) # {}
      PROVE  FirstWaiting(s) = Len(shown[s]) + 1 /\ FirstWaiting(s) <= arrived[s]
  <2>. DEFINE n == Len(shown[s]) + 1
  <2>1. n \in Waiting(s) /\ (\A k \in Waiting(s) : n <= k) /\ n <= arrived[s]
    BY <1>1, <1>2, <1>3
  <2>2. ASSUME NEW m \in Waiting(s), \A k \in Waiting(s) : m <= k
        PROVE  m = n
    BY <1>1, <1>2, <2>1, <2>2
  <2>. HIDE DEF n
  <2>3. FirstWaiting(s) = n
    BY <2>1, <2>2 DEF FirstWaiting
  <2>. QED  BY <2>1, <2>3 DEF n
<1>. QED  BY <1>2, <1>3

-----------------------------------------------------------------------------
LEMMA RChatInitInv == RChatInit => RChatInv
<1>. SUFFICES ASSUME RChatInit PROVE RChatInv
  OBVIOUS
<1>. USE DEF RChatInit
<1>1. RChatTypeOK
  <2>1. contacts \in [Servers -> SUBSET Senders] /\ history \in [Servers -> [Senders -> Seq(Entries)]]
    OBVIOUS
  <2>2. \A s \in Servers :
          /\ IsFiniteSet(contacts[s]) /\ Cardinality(contacts[s]) <= CONTACTS_MAX
          /\ \A c \in Senders : Len(history[s][c]) <= HISTORY_MAX
    <3>1. IsFiniteSet({}) /\ Cardinality({}) = 0
      BY FS_EmptySet
    <3>. QED  BY <3>1, Constants
  <2>3. {cursor, pending, pending_cursor, arrived} \subseteq [Servers -> 0 .. Len(Mail)]
    BY Constants
  <2>4. acked \in [Servers -> SUBSET Messages] /\ shown \in [Servers -> Seq(Messages)]
    OBVIOUS
  <2>5. ack_pending \in [Servers -> BOOLEAN]
    BY Zenon
  <2>6. accepted \in [Servers -> SUBSET (1 .. SENDS_MAX)] /\ sends \in 0 .. SENDS_MAX
    BY Constants
  <2>. QED  BY <2>1, <2>2, <2>3, <2>4, <2>5, <2>6, Constants DEF RChatTypeOK
<1>2. SidesAgree /\ RefreshIsSelected
  BY Constants DEF SidesAgree, RefreshIsSelected
<1>3. \A s \in Servers : StoredFirst(s)
  BY DEF StoredFirst
<1>4. SentIsAccepted
  BY DEF SentIsAccepted, Range
<1>. QED  BY <1>1, <1>2, <1>3, <1>4 DEF RChatInv

-----------------------------------------------------------------------------
(* The steps.  Those of the user leave the mailboxes alone.                *)

mailboxVars == <<arrived, acked, cursor, pending, pending_cursor, ack_pending, shown>>

LEMMA MailboxAlone ==
  ASSUME RChatInv, UNCHANGED mailboxVars
  PROVE  \A s \in Servers : StoredFirst(s)'
  BY DEF RChatInv, StoredFirst, mailboxVars

LEMMA HistoryAlone ==
  ASSUME RChatInv, UNCHANGED <<history, accepted>>
  PROVE  SentIsAccepted'
  BY DEF RChatInv, SentIsAccepted

\* The selection: servers are added and chosen on both sides at once.
LEMMA SelectKeeps ==
  ASSUME RChatInv,
         \/ \E s \in Servers : edit_server(s) \/ edit_server_full(s)
         \/ enroll_identity \/ dismiss
  PROVE  RChatInv'
<1>. USE DEF edit_server, edit_server_full, enroll_identity, dismiss, AtWindow
<1>1. UNCHANGED <<mailboxVars, history, accepted, contacts, sends, phase, turns>>
  BY DEF mailboxVars, uiVars, loopVars, rustVars, serverVars
<1>2. (\A s \in Servers : StoredFirst(s)') /\ SentIsAccepted'
  BY <1>1, MailboxAlone, HistoryAlone
<1>3. SidesAgree'
  BY DEF RChatInv, SidesAgree, uiVars, rustVars
<1>4. /\ active' \in Servers \cup {None} /\ r_active' \in Servers \cup {None}
      /\ known' \subseteq Servers /\ r_known' \subseteq Servers /\ enrolled' \subseteq Servers
      /\ screen' \in {"home", "error"}
  BY DEF RChatInv, RChatTypeOK, uiVars, rustVars
<1>5. RChatTypeOK'
  BY <1>1, <1>4 DEF RChatInv, RChatTypeOK, mailboxVars
<1>6. RefreshIsSelected'
  <2>1. phase = "ui" \/ UNCHANGED <<active, ack_pending>>
    BY DEF uiVars
  <2>. QED  BY <1>1, <2>1 DEF RChatInv, RefreshIsSelected
<1>. QED  BY <1>2, <1>3, <1>5, <1>6 DEF RChatInv

\* A contact is added only while there is a place.
LEMMA AddKeeps ==
  ASSUME RChatInv, NEW c \in Senders, add_person(c)
  PROVE  RChatInv'
<1>1. /\ UNCHANGED <<mailboxVars, history, accepted, sends, phase, turns, active, known,
                     screen, r_active, r_known, enrolled>>
      /\ active \in Servers
      /\ phase = "ui"
  BY DEF add_person, IsEnrolled, AtWindow, mailboxVars, loopVars, rustVars, serverVars, RChatInv, RChatTypeOK
<1>2. (\A s \in Servers : StoredFirst(s)') /\ SentIsAccepted'
  BY <1>1, MailboxAlone, HistoryAlone
<1>3. RChatTypeOK'
  <2>1. /\ contacts \in [Servers -> SUBSET Senders]
        /\ contacts' = [contacts EXCEPT ![active] = @ \cup {c}]
        /\ contacts' \in [Servers -> SUBSET Senders]
    BY <1>1 DEF RChatInv, RChatTypeOK, add_person
  <2>2. ASSUME NEW s \in Servers
        PROVE  IsFiniteSet(contacts'[s]) /\ Cardinality(contacts'[s]) <= CONTACTS_MAX
    <3>1. CASE s # active
      BY <2>1, <3>1 DEF RChatInv, RChatTypeOK
    <3>2. CASE s = active
      <4>1. /\ IsFiniteSet(contacts[s]) /\ Cardinality(contacts[s]) < CONTACTS_MAX
            /\ contacts'[s] = contacts[s] \cup {c} /\ c \notin contacts[s]
        BY <1>1, <2>1, <3>2 DEF RChatInv, RChatTypeOK, add_person
      <4>2. Cardinality(contacts'[s]) = Cardinality(contacts[s]) + 1 /\ IsFiniteSet(contacts'[s])
        BY <4>1, FS_AddElement
      <4>3. Cardinality(contacts[s]) \in Nat
        BY <4>1, FS_CardinalityType
      <4>. QED  BY <4>1, <4>2, <4>3, Constants
    <3>. QED  BY <3>1, <3>2
  <2>. QED  BY <1>1, <2>1, <2>2 DEF RChatInv, RChatTypeOK, mailboxVars
<1>4. SidesAgree' /\ RefreshIsSelected'
  BY <1>1 DEF RChatInv, SidesAgree, RefreshIsSelected
<1>. QED  BY <1>2, <1>3, <1>4 DEF RChatInv

\* An entry put into one history of the server: what the other histories
\* and the types make of it.
LEMMA HistoryGrows ==
  ASSUME RChatInv, NEW s \in Servers, NEW c \in Senders, NEW e \in Entries,
         history' = [history EXCEPT ![s][c] = append_message(@, e)],
         \A x \in Servers : accepted[x] \subseteq accepted'[x],
         e.me => e.id \in accepted'[s]
  PROVE  /\ history' \in [Servers -> [Senders -> Seq(Entries)]]
         /\ \A x \in Servers, d \in Senders : Len(history'[x][d]) <= HISTORY_MAX
         /\ SentIsAccepted'
<1>. DEFINE g == append_message(history[s][c], e)
<1>1. /\ history \in [Servers -> [Senders -> Seq(Entries)]]
      /\ \A x \in Servers, d \in Senders : Len(history[x][d]) <= HISTORY_MAX
  BY DEF RChatInv, RChatTypeOK
<1>2. /\ g \in Seq(Entries) /\ Len(g) <= HISTORY_MAX
      /\ Range(g) \subseteq Range(history[s][c]) \cup {e}
  BY <1>1, AppendMessage
<1>. HIDE DEF g
<1>3. history' = [history EXCEPT ![s] = [history[s] EXCEPT ![c] = g]]
  BY <1>1 DEF g
<1>4. history' \in [Servers -> [Senders -> Seq(Entries)]]
  BY <1>1, <1>2, <1>3
<1>5. \A x \in Servers, d \in Senders : history'[x][d] = IF x = s /\ d = c THEN g ELSE history[x][d]
  BY <1>1, <1>3
<1>6. \A x \in Servers, d \in Senders : Len(history'[x][d]) <= HISTORY_MAX
  BY <1>1, <1>2, <1>5
<1>7. SentIsAccepted'
  <2>1. \A x \in Servers, d \in Senders : \A y \in Range(history[x][d]) : y.me => y.id \in accepted[x]
    BY DEF RChatInv, SentIsAccepted
  <2>2. ASSUME NEW x \in Servers, NEW d \in Senders, NEW y \in Range(history'[x][d]), y.me
        PROVE  y.id \in accepted'[x]
    <3>1. CASE x = s /\ d = c
      <4>1. y \in Range(history[s][c]) \cup {e}
        BY <1>2, <1>5, <3>1
      <4>. QED  BY <2>1, <2>2, <3>1, <4>1
    <3>2. CASE ~(x = s /\ d = c)
      BY <1>5, <2>1, <2>2, <3>2
    <3>. QED  BY <3>1, <3>2
  <2>. QED  BY <2>2 DEF SentIsAccepted
<1>. QED  BY <1>4, <1>6, <1>7

\* A message the user writes is shown only when the server has taken it.
LEMMA WriteKeeps ==
  ASSUME RChatInv, NEW c \in Senders, write_message_ok(c) \/ write_message_fails(c)
  PROVE  RChatInv'
<1>1. /\ UNCHANGED <<mailboxVars, phase, turns, active, known, contacts, r_known, enrolled>>
      /\ active \in Servers /\ phase = "ui" /\ r_active' = active
      /\ sends' = sends + 1 /\ sends < SENDS_MAX
      /\ screen' \in {"home", "error"}
  BY DEF write_message_ok, write_message_fails, IsEnrolled, AtWindow, mailboxVars, loopVars,
     RChatInv, RChatTypeOK
<1>2. /\ sends' \in 1 .. SENDS_MAX
      /\ accepted' \in {accepted, [accepted EXCEPT ![active] = @ \cup {sends'}]}
      /\ accepted \in [Servers -> SUBSET (1 .. SENDS_MAX)]
  <2>1. sends \in 0 .. SENDS_MAX /\ accepted \in [Servers -> SUBSET (1 .. SENDS_MAX)]
    BY DEF RChatInv, RChatTypeOK
  <2>2. accepted' \in {accepted, [accepted EXCEPT ![active] = @ \cup {sends'}]}
    BY <1>1 DEF write_message_ok, write_message_fails
  <2>. QED  BY <1>1, <2>1, <2>2, Constants
<1>3. /\ accepted' \in [Servers -> SUBSET (1 .. SENDS_MAX)]
      /\ \A x \in Servers : accepted[x] \subseteq accepted'[x]
  BY <1>1, <1>2
<1>4. \A s \in Servers : StoredFirst(s)'
  BY <1>1, MailboxAlone
<1>5. SidesAgree' /\ RefreshIsSelected'
  BY <1>1 DEF RChatInv, SidesAgree, RefreshIsSelected
<1>6. /\ history' \in [Servers -> [Senders -> Seq(Entries)]]
      /\ \A x \in Servers, d \in Senders : Len(history'[x][d]) <= HISTORY_MAX
      /\ SentIsAccepted'
  <2>1. CASE write_message_ok(c)
    <3>1. PICK e : e = Sent(sends')
      OBVIOUS
    <3>4. e \in Entries /\ e.id = sends'
      BY <1>2, <3>1, Constants DEF Sent, Entries
    <3>2. sends' \in accepted'[active]
      BY <1>1, <1>2, <2>1 DEF write_message_ok
    <3>3. history' = [history EXCEPT ![active][c] = append_message(@, e)]
      BY <2>1, <3>1 DEF write_message_ok
    <3>5. PICK s \in Servers : s = active
      BY <1>1
    <3>6. /\ history' = [history EXCEPT ![s][c] = append_message(@, e)]
          /\ e.me => e.id \in accepted'[s]
      BY <3>2, <3>3, <3>4, <3>5
    <3>7. \A x \in Servers : accepted[x] \subseteq accepted'[x]
      BY <1>3
    <3>. QED  BY <3>4, <3>6, <3>7, HistoryGrows
  <2>2. CASE write_message_fails(c)
    <3>1. history' = history
      BY <2>2 DEF write_message_fails
    <3>. QED  BY <1>3, <3>1 DEF RChatInv, RChatTypeOK, SentIsAccepted
  <2>. QED  BY <2>1, <2>2
<1>7. RChatTypeOK'
  <2>1. sends' \in 0 .. SENDS_MAX
    BY <1>2, Constants
  <2>. QED  BY <1>1, <1>3, <1>6, <2>1 DEF RChatInv, RChatTypeOK, mailboxVars
<1>. QED  BY <1>4, <1>5, <1>6, <1>7 DEF RChatInv

LEMMA RefreshKeeps == ASSUME RChatInv, refresh PROVE RChatInv'
<1>1. /\ UNCHANGED <<mailboxVars, active, known, contacts, history, screen, r_known,
                     enrolled, accepted, sends>>
      /\ active \in Servers /\ r_active' = active
      /\ turns' = 0 /\ phase' = IF ack_pending[active] THEN "old_ack" ELSE "poll"
  BY DEF refresh, IsEnrolled, SidesAgree, mailboxVars, uiVars, serverVars, RChatInv, RChatTypeOK
<1>2. (\A s \in Servers : StoredFirst(s)') /\ SentIsAccepted'
  BY <1>1, MailboxAlone, HistoryAlone
<1>3. RChatTypeOK' 
  <2>1. /\ active' \in Servers \cup {None} /\ r_active' \in Servers \cup {None}
        /\ known' \subseteq Servers /\ r_known' \subseteq Servers /\ enrolled' \subseteq Servers
        /\ screen' \in {"home", "error"}
        /\ phase' \in {"ui", "old_ack", "poll", "ack"} /\ turns' \in 0 .. HISTORY_MAX
    BY <1>1, Constants DEF RChatInv, RChatTypeOK, mailboxVars
  <2>2. /\ contacts' \in [Servers -> SUBSET Senders]
        /\ history' \in [Servers -> [Senders -> Seq(Entries)]]
        /\ \A s \in Servers :
             /\ IsFiniteSet(contacts'[s]) /\ Cardinality(contacts'[s]) <= CONTACTS_MAX
             /\ \A c \in Senders : Len(history'[s][c]) <= HISTORY_MAX
    <3>1. contacts' = contacts /\ history' = history
      BY <1>1
    <3>. QED  BY <3>1 DEF RChatInv, RChatTypeOK
  <2>3. {cursor', pending', pending_cursor', arrived'} \subseteq [Servers -> 0 .. Len(Mail)]
    BY <1>1, Constants DEF RChatInv, RChatTypeOK, mailboxVars
  <2>4. /\ acked' \in [Servers -> SUBSET Messages] /\ shown' \in [Servers -> Seq(Messages)]
        /\ ack_pending' \in [Servers -> BOOLEAN]
        /\ accepted' \in [Servers -> SUBSET (1 .. SENDS_MAX)] /\ sends' \in 0 .. SENDS_MAX
    BY <1>1, Constants DEF RChatInv, RChatTypeOK, mailboxVars
  <2>. QED  BY <2>1, <2>2, <2>3, <2>4 DEF RChatTypeOK
<1>4. SidesAgree'
  BY <1>1 DEF RChatInv, SidesAgree
<1>5. RefreshIsSelected'
  BY <1>1, Constants, RChatAssumption DEF RefreshIsSelected, mailboxVars
<1>. QED  BY <1>2, <1>3, <1>4, <1>5 DEF RChatInv

LEMMA MailKeeps == ASSUME RChatInv, NEW x \in Servers, mail_arrives(x) PROVE RChatInv'
<1>1. /\ UNCHANGED <<active, known, contacts, history, ack_pending, screen, shown, phase, turns,
                     r_active, r_known, enrolled, cursor, pending, pending_cursor,
                     acked, accepted, sends>>
      /\ arrived[x] < Len(Mail) /\ arrived' = [arrived EXCEPT ![x] = @ + 1]
  BY DEF mail_arrives, uiVars, loopVars, rustVars
<1>2. arrived \in [Servers -> 0 .. Len(Mail)]
  BY DEF RChatInv, RChatTypeOK
<1>3. /\ arrived' \in [Servers -> 0 .. Len(Mail)]
      /\ \A s \in Servers : arrived'[s] \in Nat /\ arrived[s] \in Nat /\ arrived'[s] >= arrived[s]
  BY <1>1, <1>2, Constants
<1>4. RChatTypeOK'
  <2>1. /\ active' \in Servers \cup {None} /\ r_active' \in Servers \cup {None}
        /\ known' \subseteq Servers /\ r_known' \subseteq Servers /\ enrolled' \subseteq Servers
        /\ screen' \in {"home", "error"}
        /\ phase' \in {"ui", "old_ack", "poll", "ack"} /\ turns' \in 0 .. HISTORY_MAX
    BY <1>1, <1>3 DEF RChatInv, RChatTypeOK
  <2>2. /\ contacts' \in [Servers -> SUBSET Senders]
        /\ history' \in [Servers -> [Senders -> Seq(Entries)]]
        /\ \A s \in Servers :
             /\ IsFiniteSet(contacts'[s]) /\ Cardinality(contacts'[s]) <= CONTACTS_MAX
             /\ \A c \in Senders : Len(history'[s][c]) <= HISTORY_MAX
    <3>1. contacts' = contacts /\ history' = history
      BY <1>1
    <3>. QED  BY <3>1 DEF RChatInv, RChatTypeOK
  <2>3. {cursor', pending', pending_cursor', arrived'} \subseteq [Servers -> 0 .. Len(Mail)]
    <3>1. {cursor, pending, pending_cursor, arrived} \subseteq [Servers -> 0 .. Len(Mail)]
      BY DEF RChatInv, RChatTypeOK
    <3>. QED  BY <1>1, <1>3, <3>1
  <2>4. /\ acked' \in [Servers -> SUBSET Messages] /\ shown' \in [Servers -> Seq(Messages)]
        /\ ack_pending' \in [Servers -> BOOLEAN]
        /\ accepted' \in [Servers -> SUBSET (1 .. SENDS_MAX)] /\ sends' \in 0 .. SENDS_MAX
    BY <1>1, <1>3 DEF RChatInv, RChatTypeOK
  <2>. QED  BY <2>1, <2>2, <2>3, <2>4 DEF RChatTypeOK
<1>5. ASSUME NEW s \in Servers PROVE StoredFirst(s)'
  <2>1. StoredFirst(s) /\ Len(shown[s]) \in Nat
    BY MailboxTyped DEF RChatInv
  <2>. QED  BY <1>1, <1>3, <2>1 DEF StoredFirst
<1>6. SidesAgree' /\ RefreshIsSelected' /\ SentIsAccepted'
  BY <1>1 DEF RChatInv, SidesAgree, RefreshIsSelected, SentIsAccepted
<1>. QED  BY <1>4, <1>5, <1>6 DEF RChatInv

\* The acknowledgement of the stored message of server p, or its failure.
LEMMA Acknowledged ==
  ASSUME RChatInv, NEW p \in Servers, ack_pending[p],
         UNCHANGED <<shown, arrived>>,
         ack_pending' \in [Servers -> BOOLEAN],
         \A s \in Servers : s # p => ack_pending'[s] = ack_pending[s],
         \/ acknowledge_pending(p) /\ ~ack_pending'[p]
         \/ acknowledge_fails(p)
  PROVE  /\ \A s \in Servers : StoredFirst(s)'
         /\ {cursor', pending', pending_cursor'} \subseteq [Servers -> 0 .. Len(Mail)]
         /\ acked' \in [Servers -> SUBSET Messages]
<1>. DEFINE n == Len(shown[p])
<1>1. /\ StoredFirst(p) /\ RChatTypeOK
      /\ n \in Nat /\ pending[p] = n /\ n > 0 /\ pending_cursor[p] = pending[p]
      /\ n <= Len(Mail) /\ pending[p] \in Messages /\ pending[p] \in Nat
  <2>1. StoredFirst(p) /\ RChatTypeOK
    BY DEF RChatInv
  <2>2. n \in Nat /\ arrived[p] \in 0 .. Len(Mail)
    BY <2>1, MailboxTyped
  <2>. QED  BY <2>1, <2>2, Constants DEF StoredFirst, Messages
<1>2. /\ cursor \in [Servers -> 0 .. Len(Mail)] /\ pending \in [Servers -> 0 .. Len(Mail)]
      /\ pending_cursor \in [Servers -> 0 .. Len(Mail)] /\ acked \in [Servers -> SUBSET Messages]
  BY <1>1 DEF RChatTypeOK
<1>. HIDE DEF n
<1>3. CASE acknowledge_pending(p) /\ ~ack_pending'[p]
  <2>1. /\ acked' = [acked EXCEPT ![p] = @ \cup {pending[p]}]
        /\ cursor' = [cursor EXCEPT ![p] = pending[p]]
        /\ pending' = [pending EXCEPT ![p] = 0]
        /\ pending_cursor' = [pending_cursor EXCEPT ![p] = 0]
    BY <1>1, <1>3 DEF acknowledge_pending
  <2>2. /\ {cursor', pending', pending_cursor'} \subseteq [Servers -> 0 .. Len(Mail)]
        /\ acked' \in [Servers -> SUBSET Messages]
    BY <1>1, <1>2, <2>1, Constants
  <2>3. /\ acked'[p] = acked[p] \cup {pending[p]} /\ cursor'[p] = pending[p]
        /\ pending'[p] = 0 /\ pending_cursor'[p] = 0
    BY <1>2, <2>1
  <2>4. StoredFirst(p)'
    BY <1>1, <1>3, <2>3 DEF StoredFirst, n
  <2>5. ASSUME NEW s \in Servers, s # p PROVE StoredFirst(s)'
    <3>1. /\ acked'[s] = acked[s] /\ cursor'[s] = cursor[s] /\ pending'[s] = pending[s]
          /\ pending_cursor'[s] = pending_cursor[s] /\ ack_pending'[s] = ack_pending[s]
      BY <1>2, <2>1, <2>5
    <3>. QED  BY <3>1 DEF RChatInv, StoredFirst
  <2>. QED  BY <2>2, <2>4, <2>5
<1>4. CASE acknowledge_fails(p)
  <2>1. /\ acked' \in {acked, [acked EXCEPT ![p] = @ \cup {pending[p]}]}
        /\ UNCHANGED <<cursor, pending, pending_cursor>>
    BY <1>4 DEF acknowledge_fails
  <2>2. /\ {cursor', pending', pending_cursor'} \subseteq [Servers -> 0 .. Len(Mail)]
        /\ acked' \in [Servers -> SUBSET Messages]
    BY <1>1, <1>2, <2>1
  <2>3. acked[p] \subseteq acked'[p] /\ acked'[p] \subseteq acked[p] \cup {pending[p]}
    BY <1>2, <2>1
  <2>4. StoredFirst(p)'
    BY <1>1, <2>1, <2>3 DEF StoredFirst, n
  <2>5. ASSUME NEW s \in Servers, s # p PROVE StoredFirst(s)'
    <3>1. acked'[s] = acked[s] /\ ack_pending'[s] = ack_pending[s]
      BY <1>2, <2>1, <2>5
    <3>. QED  BY <2>1, <3>1 DEF RChatInv, StoredFirst
  <2>. QED  BY <2>2, <2>4, <2>5
<1>. QED  BY <1>3, <1>4

LEMMA AckKeeps ==
  ASSUME RChatInv, old_ack_ok \/ old_ack_fails \/ ack_ok \/ ack_fails
  PROVE  RChatInv'
<1>1. /\ phase \in {"old_ack", "ack"}
      /\ active \in Servers /\ ack_pending[active] /\ r_active = active /\ r_active' = active
      /\ turns \in Nat /\ turns < HISTORY_MAX
  BY DEF RChatInv, RChatTypeOK, RefreshIsSelected, SidesAgree, old_ack_ok, old_ack_fails, ack_ok, ack_fails
<1>2. /\ UNCHANGED <<active, known, contacts, history, shown, r_known, enrolled, arrived,
                     accepted, sends>>
      /\ \/ screen' = screen
         \/ screen' = "error"
  BY DEF old_ack_ok, old_ack_fails, ack_ok, ack_fails
<1>3. /\ \/ acknowledge_pending(active) /\ ack_pending' = [ack_pending EXCEPT ![active] = FALSE]
         \/ acknowledge_fails(active) /\ ack_pending' = ack_pending
      /\ phase' \in {"ui", "poll"}
      /\ turns' \in 0 .. HISTORY_MAX
      /\ phase' # "ui" => turns' < HISTORY_MAX
  BY <1>1, Constants DEF old_ack_ok, old_ack_fails, ack_ok, ack_fails
<1>4. ack_pending \in [Servers -> BOOLEAN]
  BY DEF RChatInv, RChatTypeOK
<1>5. /\ ack_pending' \in [Servers -> BOOLEAN]
      /\ \A s \in Servers : s # active => ack_pending'[s] = ack_pending[s]
      /\ \/ acknowledge_pending(active) /\ ~ack_pending'[active]
         \/ acknowledge_fails(active)
  BY <1>1, <1>3, <1>4
<1>6. /\ \A s \in Servers : StoredFirst(s)'
      /\ {cursor', pending', pending_cursor'} \subseteq [Servers -> 0 .. Len(Mail)]
      /\ acked' \in [Servers -> SUBSET Messages]
  BY <1>1, <1>2, <1>5, Acknowledged
<1>7. RChatTypeOK'
  BY <1>1, <1>2, <1>3, <1>5, <1>6 DEF RChatInv, RChatTypeOK
<1>8. SidesAgree' /\ RefreshIsSelected' /\ SentIsAccepted'
  BY <1>1, <1>2, <1>3, RChatAssumption DEF RChatInv, SidesAgree, RefreshIsSelected, SentIsAccepted
<1>. QED  BY <1>6, <1>7, <1>8 DEF RChatInv

LEMMA PollEmptyKeeps == ASSUME RChatInv, poll_empty PROVE RChatInv'
<1>1. PICK p \in Servers : p = active /\ p = r_active
  BY DEF RChatInv, RChatTypeOK, RefreshIsSelected, SidesAgree, poll_empty
<1>2. /\ UNCHANGED <<active, known, contacts, history, ack_pending, screen, shown, turns,
                     r_active, r_known, enrolled, pending, pending_cursor,
                     arrived, acked, accepted, sends>>
      /\ pending[p] = 0 /\ Waiting(p) = {}
      /\ cursor' = [cursor EXCEPT ![p] = arrived[p]]
      /\ phase' = "ui"
  BY <1>1 DEF poll_empty, uiVars, serverVars
<1>3. RChatTypeOK /\ StoredFirst(p)
  BY DEF RChatInv
<1>4. /\ arrived[p] \in 0 .. Len(Mail) /\ arrived[p] \in Nat /\ Len(shown[p]) \in Nat
      /\ cursor \in [Servers -> 0 .. Len(Mail)]
  <2>1. arrived[p] \in 0 .. Len(Mail) /\ Len(shown[p]) \in Nat
    BY <1>3, MailboxTyped
  <2>2. cursor \in [Servers -> 0 .. Len(Mail)]
    BY <1>3 DEF RChatTypeOK
  <2>. QED  BY <2>1, <2>2, Constants
<1>5. cursor' \in [Servers -> 0 .. Len(Mail)] /\ cursor'[p] = arrived[p]
  BY <1>2, <1>4
<1>6. RChatTypeOK'
  <2>1. /\ active' \in Servers \cup {None} /\ r_active' \in Servers \cup {None}
        /\ known' \subseteq Servers /\ r_known' \subseteq Servers /\ enrolled' \subseteq Servers
        /\ screen' \in {"home", "error"}
        /\ phase' \in {"ui", "old_ack", "poll", "ack"} /\ turns' \in 0 .. HISTORY_MAX
    BY <1>2, <1>5 DEF RChatInv, RChatTypeOK
  <2>2. /\ contacts' \in [Servers -> SUBSET Senders]
        /\ history' \in [Servers -> [Senders -> Seq(Entries)]]
        /\ \A s \in Servers :
             /\ IsFiniteSet(contacts'[s]) /\ Cardinality(contacts'[s]) <= CONTACTS_MAX
             /\ \A c \in Senders : Len(history'[s][c]) <= HISTORY_MAX
    <3>1. contacts' = contacts /\ history' = history
      BY <1>2
    <3>. QED  BY <3>1 DEF RChatInv, RChatTypeOK
  <2>3. {cursor', pending', pending_cursor', arrived'} \subseteq [Servers -> 0 .. Len(Mail)]
    <3>1. {cursor, pending, pending_cursor, arrived} \subseteq [Servers -> 0 .. Len(Mail)]
      BY DEF RChatInv, RChatTypeOK
    <3>. QED  BY <1>2, <1>5, <3>1
  <2>4. /\ acked' \in [Servers -> SUBSET Messages] /\ shown' \in [Servers -> Seq(Messages)]
        /\ ack_pending' \in [Servers -> BOOLEAN]
        /\ accepted' \in [Servers -> SUBSET (1 .. SENDS_MAX)] /\ sends' \in 0 .. SENDS_MAX
    BY <1>2, <1>5 DEF RChatInv, RChatTypeOK
  <2>. QED  BY <2>1, <2>2, <2>3, <2>4 DEF RChatTypeOK
<1>7. StoredFirst(p)'
  <2>1. Len(shown[p]) = arrived[p]
    <3>1. Waiting(p) = {m \in 1 .. arrived[p] : m > Len(shown[p])}
      BY <1>2, <1>3, NextIsFirstWaiting
    <3>2. ~(Len(shown[p]) < arrived[p])
      BY <1>2, <1>4, <3>1
    <3>. QED  BY <1>3, <1>4, <3>2 DEF StoredFirst
  <2>. QED  BY <1>2, <1>3, <1>4, <1>5, <2>1 DEF StoredFirst
<1>8. ASSUME NEW s \in Servers, s # p PROVE StoredFirst(s)'
  <2>1. cursor'[s] = cursor[s]
    BY <1>2, <1>4, <1>8
  <2>. QED  BY <1>2, <2>1 DEF RChatInv, StoredFirst
<1>9. SidesAgree' /\ RefreshIsSelected' /\ SentIsAccepted'
  BY <1>2 DEF RChatInv, SidesAgree, RefreshIsSelected, SentIsAccepted
<1>. QED  BY <1>6, <1>7, <1>8, <1>9 DEF RChatInv

LEMMA PollFailsKeeps == ASSUME RChatInv, poll_fails PROVE RChatInv'
<1>1. /\ UNCHANGED <<mailboxVars, active, known, contacts, history, turns, r_active, r_known,
                     enrolled, accepted, sends>>
      /\ screen' \in {"home", "error"} /\ phase' = "ui"
  BY DEF poll_fails, mailboxVars, rustVars, serverVars
<1>2. (\A s \in Servers : StoredFirst(s)') /\ SentIsAccepted'
  BY <1>1, MailboxAlone, HistoryAlone
<1>3. RChatTypeOK' /\ SidesAgree' /\ RefreshIsSelected'
  BY <1>1 DEF RChatInv, RChatTypeOK, SidesAgree, RefreshIsSelected, mailboxVars
<1>. QED  BY <1>2, <1>3 DEF RChatInv

\* What taking a message from the page does on the Rust side.
LEMMA Taken ==
  ASSUME RChatInv, NEW m \in Messages, PollTakes(m), NEW p \in Servers, p = r_active
  PROVE  /\ m = Len(shown[p]) + 1 /\ m <= arrived[p] /\ Len(shown[p]) \in Nat
         /\ pending[p] = 0 /\ pending'[p] = m /\ pending_cursor'[p] = m
         /\ {pending', pending_cursor'} \subseteq [Servers -> 0 .. Len(Mail)]
         /\ \A s \in Servers : s # p => /\ pending'[s] = pending[s]
                                        /\ pending_cursor'[s] = pending_cursor[s]
         /\ UNCHANGED <<active, known, turns, r_active, r_known, enrolled, cursor, arrived, acked,
                        accepted, sends>>
         /\ phase = "poll"
<1>1. /\ RChatTypeOK /\ StoredFirst(p) /\ pending[p] = 0 /\ Waiting(p) # {} /\ m = FirstWaiting(p)
      /\ pending' = [pending EXCEPT ![p] = m]
      /\ pending_cursor' = [pending_cursor EXCEPT ![p] = m]
      /\ UNCHANGED <<active, known, turns, r_active, r_known, enrolled, cursor, arrived, acked,
                     accepted, sends>>
      /\ phase = "poll"
  BY DEF RChatInv, PollTakes, serverVars
<1>2. m = Len(shown[p]) + 1 /\ m <= arrived[p] /\ Len(shown[p]) \in Nat
  BY <1>1, NextIsFirstWaiting, MailboxTyped
<1>3. /\ pending \in [Servers -> 0 .. Len(Mail)] /\ pending_cursor \in [Servers -> 0 .. Len(Mail)]
      /\ m \in 0 .. Len(Mail)
  BY <1>1, Constants DEF RChatTypeOK, Messages
<1>. QED  BY <1>1, <1>2, <1>3

\* A message without a place for its sender stays pending, not stored.
LEMMA PollFullKeeps ==
  ASSUME RChatInv, NEW m \in Messages, poll_full(m)
  PROVE  RChatInv'
<1>1. PICK p \in Servers : p = active /\ p = r_active
  BY DEF RChatInv, RChatTypeOK, RefreshIsSelected, SidesAgree, poll_full, PollTakes
<1>2. /\ PollTakes(m) /\ UNCHANGED <<contacts, history, ack_pending, shown>>
      /\ phase' = "ui" /\ screen' = "error"
  BY DEF poll_full
<1>3. /\ m = Len(shown[p]) + 1 /\ Len(shown[p]) \in Nat
      /\ pending[p] = 0 /\ pending'[p] = m /\ pending_cursor'[p] = m
      /\ {pending', pending_cursor'} \subseteq [Servers -> 0 .. Len(Mail)]
      /\ \A s \in Servers : s # p => /\ pending'[s] = pending[s]
                                     /\ pending_cursor'[s] = pending_cursor[s]
      /\ UNCHANGED <<active, known, turns, r_active, r_known, enrolled, cursor, arrived, acked,
                     accepted, sends>>
  BY <1>1, <1>2, Taken
<1>4. RChatTypeOK'
  BY <1>2, <1>3 DEF RChatInv, RChatTypeOK
<1>5. StoredFirst(p)'
  <2>1. StoredFirst(p) /\ ~ack_pending[p]
    BY <1>3 DEF RChatInv, StoredFirst
  <2>2. \A k \in 1 .. Len(shown[p]) : ~(k > cursor[p] /\ k \notin acked[p])
    BY <1>3, <2>1 DEF StoredFirst
  <2>. QED  BY <1>2, <1>3, <2>1, <2>2 DEF StoredFirst
<1>6. ASSUME NEW s \in Servers, s # p PROVE StoredFirst(s)'
  BY <1>2, <1>3, <1>6 DEF RChatInv, StoredFirst
<1>7. SidesAgree' /\ RefreshIsSelected' /\ SentIsAccepted'
  BY <1>2, <1>3 DEF RChatInv, SidesAgree, RefreshIsSelected, SentIsAccepted
<1>. QED  BY <1>4, <1>5, <1>6, <1>7 DEF RChatInv

\* A message is stored, and only then is there something to acknowledge.
LEMMA PollStoresKeeps ==
  ASSUME RChatInv, NEW m \in Messages, poll_stores(m)
  PROVE  RChatInv'
<1>1. PICK p \in Servers : p = active /\ p = r_active
  BY DEF RChatInv, RChatTypeOK, RefreshIsSelected, SidesAgree, poll_stores, PollTakes
<1>2. PICK c \in Senders : c = Mail[m].from
  BY Constants
<1>3. PICK e : e = Got(m)
  OBVIOUS
<1>4. /\ PollTakes(m)
      /\ c \in contacts[p] \/ Cardinality(contacts[p]) < CONTACTS_MAX
      /\ contacts' = [contacts EXCEPT ![p] = @ \cup {c}]
      /\ history' = [history EXCEPT ![p][c] = append_message(@, e)]
      /\ shown' = [shown EXCEPT ![p] = Append(@, m)]
      /\ ack_pending' = [ack_pending EXCEPT ![p] = TRUE]
      /\ phase' = "ack" /\ screen' = screen
  BY <1>1, <1>2, <1>3 DEF poll_stores, HasRoom
<1>5. /\ m = Len(shown[p]) + 1 /\ m <= arrived[p] /\ Len(shown[p]) \in Nat
      /\ pending[p] = 0 /\ pending'[p] = m /\ pending_cursor'[p] = m
      /\ {pending', pending_cursor'} \subseteq [Servers -> 0 .. Len(Mail)]
      /\ \A s \in Servers : s # p => /\ pending'[s] = pending[s]
                                     /\ pending_cursor'[s] = pending_cursor[s]
      /\ UNCHANGED <<active, known, turns, r_active, r_known, enrolled, cursor, arrived, acked,
                     accepted, sends>>
      /\ phase = "poll"
  BY <1>1, <1>4, Taken
<1>6. /\ contacts \in [Servers -> SUBSET Senders] /\ shown \in [Servers -> Seq(Messages)]
      /\ ack_pending \in [Servers -> BOOLEAN]
  BY DEF RChatInv, RChatTypeOK
<1>7. /\ history' \in [Servers -> [Senders -> Seq(Entries)]]
      /\ \A x \in Servers, d \in Senders : Len(history'[x][d]) <= HISTORY_MAX
      /\ SentIsAccepted'
  <2>1. e \in Entries /\ ~e.me
    BY <1>3, Constants DEF Got, Entries, Messages
  <2>2. \A x \in Servers : accepted[x] \subseteq accepted'[x]
    BY <1>5
  <2>. QED  BY <1>4, <2>1, <2>2, HistoryGrows
<1>8. /\ contacts' \in [Servers -> SUBSET Senders]
      /\ \A s \in Servers : IsFiniteSet(contacts'[s]) /\ Cardinality(contacts'[s]) <= CONTACTS_MAX
  <2>1. contacts' \in [Servers -> SUBSET Senders]
    BY <1>4, <1>6
  <2>2. ASSUME NEW s \in Servers
        PROVE  IsFiniteSet(contacts'[s]) /\ Cardinality(contacts'[s]) <= CONTACTS_MAX
    <3>1. IsFiniteSet(contacts[s]) /\ Cardinality(contacts[s]) <= CONTACTS_MAX
      BY DEF RChatInv, RChatTypeOK
    <3>2. CASE s # p \/ c \in contacts[p]
      <4>1. contacts'[s] = contacts[s]
        BY <1>4, <1>6, <3>2
      <4>. QED  BY <3>1, <4>1
    <3>3. CASE s = p /\ c \notin contacts[p]
      <4>1. contacts'[s] = contacts[s] \cup {c} /\ c \notin contacts[s]
        BY <1>4, <1>6, <3>3
      <4>2. Cardinality(contacts'[s]) = Cardinality(contacts[s]) + 1 /\ IsFiniteSet(contacts'[s])
        BY <3>1, <4>1, FS_AddElement
      <4>3. Cardinality(contacts[s]) \in Nat /\ Cardinality(contacts[s]) < CONTACTS_MAX
        BY <1>4, <3>1, <3>3, FS_CardinalityType
      <4>. QED  BY <4>2, <4>3, Constants
    <3>. QED  BY <3>2, <3>3
  <2>. QED  BY <2>1, <2>2
<1>9. /\ shown' \in [Servers -> Seq(Messages)] /\ ack_pending' \in [Servers -> BOOLEAN]
      /\ shown'[p] = Append(shown[p], m) /\ ack_pending'[p]
      /\ \A s \in Servers : s # p => shown'[s] = shown[s] /\ ack_pending'[s] = ack_pending[s]
  <2>1. Append(shown[p], m) \in Seq(Messages)
    BY <1>6
  <2>2. TRUE \in BOOLEAN
    OBVIOUS
  <2>. QED  BY <1>4, <1>6, <2>1, <2>2
<1>10. RChatTypeOK'
  <2>. USE DEF RChatInv, RChatTypeOK
  <2>1. /\ active' \in Servers \cup {None} /\ r_active' \in Servers \cup {None}
        /\ known' \subseteq Servers /\ r_known' \subseteq Servers /\ enrolled' \subseteq Servers
        /\ screen' \in {"home", "error"} /\ turns' \in 0 .. HISTORY_MAX
    BY <1>4, <1>5
  <2>2. {cursor', pending', pending_cursor', arrived'} \subseteq [Servers -> 0 .. Len(Mail)]
    BY <1>5
  <2>3. /\ acked' \in [Servers -> SUBSET Messages]
        /\ accepted' \in [Servers -> SUBSET (1 .. SENDS_MAX)] /\ sends' \in 0 .. SENDS_MAX
    BY <1>5
  <2>. QED  BY <1>4, <1>7, <1>8, <1>9, <2>1, <2>2, <2>3
<1>11. StoredFirst(p)'
  <2>1. StoredFirst(p)
    BY DEF RChatInv
  <2>2. /\ Len(shown'[p]) = m /\ shown'[p][m] = m
        /\ \A i \in 1 .. Len(shown[p]) : shown'[p][i] = shown[p][i]
    BY <1>5, <1>6, <1>9
  <2>3. cursor[p] \in Nat /\ arrived[p] \in Nat
    BY MailboxTyped, Constants DEF RChatInv
  <2>4. ASSUME NEW i \in 1 .. m PROVE shown'[p][i] = i
    <3>1. CASE i = m
      BY <2>2, <3>1
    <3>2. CASE i \in 1 .. Len(shown[p])
      BY <2>1, <2>2, <3>2 DEF StoredFirst
    <3>. QED  BY <1>5, <3>1, <3>2
  <2>5. \A k \in 1 .. m : (k > cursor[p] /\ k \notin acked[p]) => k = m
    <3>. SUFFICES ASSUME NEW k \in 1 .. m, k > cursor[p], k \notin acked[p], k # m
                  PROVE  FALSE
      OBVIOUS
    <3>1. k \in 1 .. Len(shown[p]) /\ k # 0
      BY <1>5
    <3>2. k = pending[p]
      BY <2>1, <3>1 DEF StoredFirst
    <3>. QED  BY <1>5, <3>1, <3>2
  <2>. QED  BY <1>5, <1>9, <2>1, <2>2, <2>3, <2>4, <2>5 DEF StoredFirst
<1>12. ASSUME NEW s \in Servers, s # p PROVE StoredFirst(s)'
  <2>1. StoredFirst(s)
    BY <1>12 DEF RChatInv
  <2>2. /\ shown'[s] = shown[s] /\ ack_pending'[s] = ack_pending[s]
        /\ pending'[s] = pending[s] /\ pending_cursor'[s] = pending_cursor[s]
        /\ UNCHANGED <<cursor, arrived, acked>>
    BY <1>5, <1>9, <1>12
  <2>. QED  BY <2>1, <2>2 DEF StoredFirst
<1>13. SidesAgree' /\ RefreshIsSelected'
  BY <1>1, <1>4, <1>5, <1>9 DEF RChatInv, SidesAgree, RefreshIsSelected
<1>. QED  BY <1>7, <1>10, <1>11, <1>12, <1>13 DEF RChatInv

-----------------------------------------------------------------------------
LEMMA RChatStep == RChatInv /\ [RChatNext]_rchatVars => RChatInv'
<1>. SUFFICES ASSUME RChatInv, [RChatNext]_rchatVars PROVE RChatInv'
  OBVIOUS
<1>1. CASE \E s \in Servers : mail_arrives(s)
  BY <1>1, MailKeeps
<1>2. CASE User
  BY <1>2, SelectKeeps, AddKeeps, WriteKeeps DEF User
<1>3. CASE refresh
  BY <1>3, RefreshKeeps
<1>4. CASE Answered \/ Unanswered
  BY <1>4, AckKeeps, PollEmptyKeeps, PollFailsKeeps, PollStoresKeeps, PollFullKeeps
  DEF Answered, Unanswered
<1>5. CASE UNCHANGED rchatVars
  <2>1. UNCHANGED mailboxVars /\ UNCHANGED <<history, accepted>>
    BY <1>5 DEF rchatVars, uiVars, loopVars, rustVars, serverVars, mailboxVars
  <2>2. (\A s \in Servers : StoredFirst(s)') /\ SentIsAccepted'
    BY <2>1, MailboxAlone, HistoryAlone
  <2>. QED
    BY <1>5, <2>2 DEF RChatInv, RChatTypeOK, SidesAgree, RefreshIsSelected, rchatVars, uiVars,
       loopVars, rustVars, serverVars
<1>. QED  BY <1>1, <1>2, <1>3, <1>4, <1>5 DEF RChatNext

LEMMA RChatAlways == RChatSpec => []RChatInv
  BY RChatInitInv, RChatStep, PTL DEF RChatSpec

\* Every variable keeps its type; the contact lists, the histories and the
\* refresh loop keep to their limits.
THEOREM RChatTypeCorrect == RChatSpec => []RChatTypeOK
<1>1. RChatInv => RChatTypeOK
  BY DEF RChatInv
<1>. QED  BY <1>1, RChatAlways, PTL

\* The window and the Rust side have the same servers and the same one
\* selected in every state (edit_server and rust_rchat_select).
THEOREM SidesAlwaysAgree == RChatSpec => []SidesAgree
<1>1. RChatInv => SidesAgree
  BY DEF RChatInv
<1>. QED  BY <1>1, RChatAlways, PTL

\* Whichever requests fail, before or after the server has acted, what is
\* acknowledged or passed by the cursor is in a history (refresh_messages,
\* rust_rchat_poll and rust_rchat_ack).
THEOREM NothingLostByAck == RChatSpec => []AckedIsStored
<1>1. ASSUME RChatInv PROVE AckedIsStored
  <2>1. ASSUME NEW s \in Servers PROVE (acked[s] \cup (1 .. cursor[s])) \subseteq Range(shown[s])
    <3>1. StoredFirst(s) /\ cursor[s] \in Nat /\ Len(shown[s]) \in Nat /\ shown[s] \in Seq(Messages)
      BY <1>1, MailboxTyped DEF RChatInv
    <3>2. \A i \in 1 .. Len(shown[s]) : i \in Range(shown[s])
      <4>1. DOMAIN shown[s] = 1 .. Len(shown[s])
        BY <3>1
      <4>. QED  BY <3>1, <4>1 DEF StoredFirst, Range
    <3>. QED  BY <3>1, <3>2 DEF StoredFirst
  <2>. QED  BY <2>1 DEF AckedIsStored
<1>. QED  BY <1>1, RChatAlways, PTL

\* Received messages are stored once and in order although acknowledgements
\* are repeated, and a message shown as sent has been taken by the server
\* (append_message, write_message).
THEOREM HistoryIsHonest == RChatSpec => []HistoryHonest
<1>1. ASSUME RChatInv PROVE HistoryHonest
  <2>1. ASSUME NEW s \in Servers, NEW i \in DOMAIN shown[s], NEW j \in DOMAIN shown[s], i < j
        PROVE  shown[s][i] < shown[s][j]
    <3>1. StoredFirst(s) /\ shown[s] \in Seq(Messages)
      BY <1>1, MailboxTyped DEF RChatInv
    <3>2. DOMAIN shown[s] = 1 .. Len(shown[s])
      BY <3>1
    <3>. QED  BY <2>1, <3>1, <3>2 DEF StoredFirst
  <2>. QED  BY <1>1, <2>1 DEF RChatInv, HistoryHonest, ShownOnce
<1>. QED  BY <1>1, RChatAlways, PTL
===============================================================================
