------------------------------- MODULE Discord -------------------------------
(***************************************************************************)
(* The Discord client of lib.rs above discord_request: the table of        *)
(* modules, what running each kind of module does, the auto-reply loop and *)
(* the message cache.                                                      *)
(*                                                                         *)
(* The service is external.  A request may reach it or not, its answer may *)
(* come back or not, and discord_request repeats a request whose answer    *)
(* did not come: a post that succeeds leaves one or more copies, one that  *)
(* fails none or more.  Others post to the channel at any time.            *)
(***************************************************************************)
EXTENDS Naturals, Sequences, SequencesExt, FiniteSets

CONSTANTS
    ModuleNames,    \* names a module may be given
    NameSets,       \* the names one user makes use of: sets of names
    KindOf,         \* the kind each name asks for; "none" if it has no known part
    MAX_MODULES,
    MSG_CACHE_SIZE,
    MessageValues,  \* slots of JSON_VALUES that a message of an answer takes
    Copies,         \* how many copies of a post may arrive: 0, 1, ...
    MaxMessages     \* bound on messages ever posted

ASSUME DiscordAssumption ==
    /\ Copies \subseteq Nat /\ MSG_CACHE_SIZE \in Nat \ {0} /\ MessageValues \in Nat \ {0}
    /\ \A s \in NameSets : s \subseteq ModuleNames

VARIABLES
    names,      \* the names this user makes use of
    modules,    \* MODULES up to MODULE_COUNT: [name, kind, configured, set]
    given,      \* for each name, the parameters the user gave (history)
    channel,    \* the channel's messages, oldest first: [id, trigger, own]
    posted,     \* messages ever posted: the last id
    auto,       \* the auto-reply loop: [on, last, reply]
    says,       \* its reply contains its own trigger
    replied,    \* ids of the messages it decided to reply to, in order
    deleted,    \* a message was deleted
    cache,      \* MSG_CACHE
    head,       \* MSG_CACHE_HEAD
    cached,     \* MSG_CACHE_LEN
    pushes,     \* the last pushes to the cache (history)
    returned    \* what the last command returned

tableVars == <<names, modules, given>>
channelVars == <<channel, posted, deleted>>
autoVars == <<auto, says, replied>>
cacheVars == <<cache, head, cached, pushes>>
discordVars == <<tableVars, channelVars, autoVars, cacheVars, returned>>

Off == [on |-> FALSE, last |-> 0, reply |-> 0]
Quiet == ~auto.on        \* no module is running: the command line is free

DiscordInit ==
    /\ names \in NameSets
    /\ modules = <<>> /\ given = [n \in ModuleNames |-> {}]
    /\ channel = <<>> /\ posted = 0 /\ deleted = FALSE
    /\ auto = Off /\ says \in BOOLEAN /\ replied = <<>>
    /\ cache = [i \in 0 .. MSG_CACHE_SIZE - 1 |-> 0] /\ head = 0 /\ cached = 0
    /\ pushes = <<>> /\ returned = 0

-----------------------------------------------------------------------------
(* The module table.                                                       *)

\* What module_run insists on, of the parameters of module_init_params.
Required(kind) ==
    CASE kind = "send-emoji"    -> {"channel_id", "message_id", "emoji"}
      [] kind = "send-message"  -> {"channel_id", "message"}
      [] kind = "send-embed"    -> {"channel_id"}
      [] kind = "fetch"         -> {"channel_id"}
      [] kind = "delete"        -> {"channel_id", "message_id"}
      [] kind = "react"         -> {"channel_id", "message_id", "emoji"}
      [] kind = "auto-reply"    -> {"channel_id", "trigger", "reply"}

\* module_find; 0 is None.
module_find(name) ==
    IF \E i \in DOMAIN modules : modules[i].name = name
    THEN CHOOSE i \in DOMAIN modules : modules[i].name = name ELSE 0

Returns(n) == returned' = n

rust_discord_set_module(name) ==
    /\ Quiet
    /\ IF module_find(name) # 0
       THEN Returns(0) /\ UNCHANGED tableVars
       ELSE IF Len(modules) >= MAX_MODULES \/ KindOf[name] = "none"
       THEN Returns(1) /\ UNCHANGED tableVars
       ELSE /\ modules' = Append(modules, [name |-> name, kind |-> KindOf[name],
                                           configured |-> FALSE, set |-> {}])
            /\ given' = [given EXCEPT ![name] = {}]
            /\ UNCHANGED names
            /\ Returns(0)
    /\ UNCHANGED <<channelVars, autoVars, cacheVars>>

\* module_interactive_config: Enter keeps a parameter, and so does Esc; either
\* way the module counts as configured at the end.
rust_discord_config_module(name) ==
    /\ Quiet /\ module_find(name) # 0
    /\ LET i == module_find(name)
       IN  \E more \in {{}, Required(modules[i].kind)} :
             /\ modules' = [modules EXCEPT ![i].configured = TRUE, ![i].set = @ \cup more]
             /\ given' = [given EXCEPT ![name] = @ \cup more]
    /\ Returns(0)
    /\ UNCHANGED <<names, channelVars, autoVars, cacheVars>>

\* The modules behind the one removed move down by one.
\* Mutant: the last one does not.
WithoutModule_short(i) ==
    [j \in 1 .. Len(modules) - 1 |->
        IF j < i \/ j = Len(modules) - 1 THEN modules[j] ELSE modules[j + 1]]
WithoutModule(i) ==
    [j \in 1 .. Len(modules) - 1 |-> IF j < i THEN modules[j] ELSE modules[j + 1]]

rust_discord_remove_module(name) ==
    /\ Quiet /\ module_find(name) # 0
    /\ modules' = WithoutModule(module_find(name))
    /\ given' = [given EXCEPT ![name] = {}]
    /\ Returns(0)
    /\ UNCHANGED <<names, channelVars, autoVars, cacheVars>>

-----------------------------------------------------------------------------
(* The channel.                                                            *)

\* n more messages of ours or of others.
Post(n, own, trigger) ==
    /\ posted + n <= MaxMessages
    /\ posted' = posted + n
    /\ channel' = channel \o [j \in 1 .. n |-> [id |-> posted + j, trigger |-> trigger,
                                                own |-> own]]

others_post ==
    /\ \E t \in BOOLEAN : Post(1, FALSE, t)
    /\ UNCHANGED <<tableVars, deleted, autoVars, cacheVars, returned>>

\* A request that posts: it succeeds only if a copy arrived.
Posts(own_trigger, code) ==
    \E n \in Copies, ok \in BOOLEAN :
        /\ ok => n > 0
        /\ Post(n, TRUE, own_trigger)
        /\ Returns(code[ok])

Plain == [ok \in BOOLEAN |-> IF ok THEN 0 ELSE 1]

\* cache_push_message for the entries of an answer, the last one first.
Latest(s) == SubSeq(s, IF Len(s) > MSG_CACHE_SIZE THEN Len(s) - MSG_CACHE_SIZE + 1
                       ELSE 1, Len(s))

\* Mutant: the head goes on from where the cache is full.
CacheSlot_full(k) == IF cached + k < MSG_CACHE_SIZE THEN cached + k ELSE MSG_CACHE_SIZE - 1
CacheSlot(k) == (head + k) % MSG_CACHE_SIZE

PushesOnto(slot, ids) == {k \in DOMAIN ids : CacheSlot(k - 1) = slot}

\* A slot keeps the last message pushed onto it.
CachePushes(ids) ==
    /\ cache' = [i \in DOMAIN cache |->
                   IF PushesOnto(i, ids) = {} THEN cache[i] ELSE ids[Max(PushesOnto(i, ids))]]
    /\ head' = (head + Len(ids)) % MSG_CACHE_SIZE
    /\ cached' = IF cached + Len(ids) < MSG_CACHE_SIZE THEN cached + Len(ids)
                 ELSE MSG_CACHE_SIZE
    /\ pushes' = Latest(pushes \o ids)

LastOf(s, n) == SubSeq(s, IF Len(s) > n THEN Len(s) - n + 1 ELSE 1, Len(s))

\* json_array_get(root, i) of an answer with the messages s, the newest first, and
\* the id found in it.  What it gives is the i-th value behind the array's own, and
\* that is a message only where one begins; the values in between (a message's
\* texts, its lists, its author) have no id that can be read, and 0 is an empty one.
ArrayElement(s, i) ==
    IF i % MessageValues = 0 THEN s[Len(s) - i \div MessageValues].id ELSE 0

\* What is pushed for each of them, oldest first.
Entries(s) == [d \in DOMAIN s |-> ArrayElement(s, Len(s) - d)]

\* rust_discord_get_channel_messages: also called by the shell.
rust_discord_get_channel_messages(limit) ==
    \/ CachePushes(Entries(LastOf(channel, limit))) /\ Returns(0)
    \/ Returns(1) /\ UNCHANGED cacheVars

\* rust_discord_delete_message: the message may be gone and the answer lost.
rust_discord_delete_message ==
    \/ /\ channel # <<>>
       /\ \E i \in DOMAIN channel : channel' = RemoveAt(channel, i)
       /\ deleted' = TRUE
       /\ Returns(0) \/ Returns(1)
    \/ Returns(1) /\ UNCHANGED <<channel, deleted>>

-----------------------------------------------------------------------------
(* rust_discord_run_module and module_run.                                 *)

Runnable(i, kind) ==
    /\ Quiet /\ i # 0 /\ modules[i].kind = kind
    /\ modules[i].configured /\ Required(kind) \subseteq modules[i].set

\* No such module, not configured, or a parameter missing.
run_refused(name) ==
    /\ Quiet
    /\ LET i == module_find(name)
       IN  i # 0 => ~Runnable(i, modules[i].kind)
    /\ Returns(1)
    /\ UNCHANGED <<tableVars, channelVars, autoVars, cacheVars>>

\* The reactions leave the channel as it is; a follow-up is a post.  Both may
\* fail without the module failing.
run_send_emoji(name) ==
    /\ Runnable(module_find(name), "send-emoji")
    /\ \/ Posts(FALSE, [ok \in BOOLEAN |-> 0])
       \/ Returns(0) /\ UNCHANGED <<channel, posted>>
    /\ UNCHANGED <<tableVars, deleted, autoVars, cacheVars>>

run_send(name) ==
    /\ \E kind \in {"send-message", "send-embed"} : Runnable(module_find(name), kind)
    /\ Posts(FALSE, Plain)
    /\ UNCHANGED <<tableVars, deleted, autoVars, cacheVars>>

run_fetch(name, limit) ==
    /\ Runnable(module_find(name), "fetch")
    /\ rust_discord_get_channel_messages(limit)
    /\ UNCHANGED <<tableVars, channelVars, autoVars>>

run_delete(name) ==
    /\ Runnable(module_find(name), "delete")
    /\ rust_discord_delete_message
    /\ UNCHANGED <<tableVars, posted, autoVars, cacheVars>>

run_react(name) ==
    /\ Runnable(module_find(name), "react")
    /\ Returns(0) \/ Returns(1)
    /\ UNCHANGED <<tableVars, channelVars, autoVars, cacheVars>>

\* AutoReply: from here on only the loop runs, until Q.
run_auto_reply(name) ==
    /\ Runnable(module_find(name), "auto-reply")
    /\ auto' = [Off EXCEPT !.on = TRUE]
    /\ replied' = <<>>
    /\ UNCHANGED <<tableVars, channelVars, says, cacheVars, returned>>

\* One turn that finds a message: the newest one, unless it was the newest one
\* the last time as well.  A turn whose request or answer fails changes nothing.
auto_poll ==
    /\ auto.on /\ auto.reply = 0 /\ channel # <<>>
    /\ LET m == Last(channel)
       IN  /\ m.id # auto.last
           /\ IF m.trigger
              THEN /\ auto' = [auto EXCEPT !.reply = m.id]
                   /\ replied' = Append(replied, m.id)
              ELSE /\ auto' = [auto EXCEPT !.last = m.id] /\ UNCHANGED replied
    /\ UNCHANGED <<tableVars, channelVars, says, cacheVars, returned>>

\* Mutant: a reply that failed is tried again on the next turn.
LastSeen_sent(n) == IF n > 0 THEN auto.reply ELSE auto.last
LastSeen(n) == auto.reply + 0 * n

\* The reply, sent or not; the message counts as seen.
auto_reply ==
    /\ auto.on /\ auto.reply # 0
    /\ \E n \in Copies : /\ Post(n, TRUE, says)
                         /\ auto' = [auto EXCEPT !.last = LastSeen(n), !.reply = 0]
    /\ UNCHANGED <<tableVars, deleted, says, replied, cacheVars, returned>>

auto_stops ==
    /\ auto.on /\ auto.reply = 0
    /\ auto' = Off /\ replied' = <<>>
    /\ Returns(0)
    /\ UNCHANGED <<tableVars, channelVars, says, cacheVars>>

-----------------------------------------------------------------------------
DiscordNext ==
    \/ \E n \in names :
         \/ rust_discord_set_module(n) \/ rust_discord_config_module(n)
         \/ rust_discord_remove_module(n)
         \/ run_refused(n) \/ run_send_emoji(n) \/ run_send(n) \/ run_delete(n)
         \/ run_react(n) \/ run_auto_reply(n)
         \/ \E limit \in 1 .. MaxMessages : run_fetch(n, limit)
    \/ others_post
    \/ auto_poll \/ auto_reply \/ auto_stops

DiscordSpec == DiscordInit /\ [][DiscordNext]_discordVars

-----------------------------------------------------------------------------
\* The two tables hold what was put in: every module is listed once and with
\* the parameters its user gave it, whatever was removed in front of it, and the
\* cache holds the entries pushed last, in the order they were pushed in and from
\* the head on once it is full.  (That these are messages is refuted below.)
TablesIntact ==
    /\ \A i, j \in DOMAIN modules : modules[i].name = modules[j].name => i = j
    /\ \A i \in DOMAIN modules : modules[i].set = given[modules[i].name]
    /\ \A n \in ModuleNames : given[n] # {} => module_find(n) # 0
    /\ cached = Len(pushes)
    /\ \A k \in 1 .. cached :
           cache[IF cached < MSG_CACHE_SIZE THEN k - 1
                 ELSE (head + k - 1) % MSG_CACHE_SIZE] = pushes[k]

\* A run of the auto-reply module decides to reply to a message once, however
\* often it polls and whether or not the reply gets through, as long as nothing
\* is deleted; and only to messages with the trigger.
RepliesOnce ==
    ~deleted => /\ IsInjective(replied)
                /\ \A i \in DOMAIN channel :
                       channel[i].id \in Range(replied) => channel[i].trigger

\* Refuted: a fetch puts messages in the cache.  Of an answer with several, the
\* entries but one (or one in as many as a message has values) are empty.
CacheHasMessages ==
    \A k \in 0 .. cached - 1 : cache[k] # 0

\* Refuted: the reply is taken for a message like any other.
RepliesToOthers ==
    \A i \in DOMAIN channel : channel[i].id \in Range(replied) => ~channel[i].own
=============================================================================
