------------------------------- MODULE MCNet -------------------------------
(***************************************************************************)
(* The network side of lib.rs for TLC: the card's driver, the clients on   *)
(* the wire and the programs that use them.  They are layers of one stack, *)
(* each modelled over the outcomes the layer below can have, so a          *)
(* behaviour exercises one of them (session) and the others rest: the      *)
(* state space is the sum of theirs and not the product.                   *)
(***************************************************************************)
EXTENDS Rtl8139, LegacyTcp, WebClients, Packages, Discord

VARIABLE session

netVars == <<session, rtlVars, legacyVars, webVars, pkgVars, discordVars>>

Sessions == {"card", "clients", "rbr", "browser", "packages", "modules"}

NetInit ==
    /\ session \in Sessions
    /\ RtlInit /\ LegacyInit /\ WebInit
    /\ PkgInit /\ (session # "packages" => \A f \in Names : disk[f] # "old")
    /\ DiscordInit
    /\ (session # "modules" => names = {} /\ says)

RtlTurn     == RtlNext /\ UNCHANGED <<legacyVars, webVars, pkgVars, discordVars>>
LegacyTurn  == LegacyNext /\ UNCHANGED <<rtlVars, webVars, pkgVars, discordVars>>
RbrTurn     == RbrNext /\ UNCHANGED <<rtlVars, legacyVars, pkgVars, discordVars>>
BrowserTurn == BrowserNext /\ UNCHANGED <<rtlVars, legacyVars, pkgVars, discordVars>>
PkgTurn     == PkgNext /\ UNCHANGED <<rtlVars, legacyVars, webVars, discordVars>>
DiscordTurn == DiscordNext /\ UNCHANGED <<rtlVars, legacyVars, webVars, pkgVars>>

NetNext ==
    /\ UNCHANGED session
    /\ \/ session = "card" /\ RtlTurn
       \/ session = "clients" /\ LegacyTurn
       \/ session = "rbr" /\ RbrTurn
       \/ session = "browser" /\ BrowserTurn
       \/ session = "packages" /\ PkgTurn
       \/ session = "modules" /\ DiscordTurn

NetSpec == NetInit /\ [][NetNext]_netVars /\ LegacyFairness

-----------------------------------------------------------------------------
(* Values of the constants.                                                *)

Tag(el, href) == [k |-> "tag", el |-> el, href |-> href]
Txt(n)        == [k |-> "text", n |-> n]
Br            == [k |-> "br"]
Close         == [k |-> "close"]

\* A short page, and a long one whose text before the first tag, line break and
\* long link text bring out what the parser does with them.
ShortPage == <<Tag("p", 0), Txt(3), Close, Tag("a", 1), Txt(2)>>
LongPage  == <<Txt(1), Tag("h1", 0), Txt(4), Br, Txt(2), Tag("a", 2), Txt(20), Close,
               Tag("li", 0), Txt(9)>>

Url(scheme, path) == [scheme |-> scheme, host |-> "a", path |-> path]
TypedUrls == {Url("http", "/"), Url("http", "x"), Url("https", "/"), Url("file", "/"),
              Url("none", "/")}
SitePages == [u \in [scheme : {"http", "https", "file", "none"}, host : {"a"},
                     path : {"/", "x", "text"}]
                |-> IF u.path = "/" THEN LongPage ELSE ShortPage]

\* All pages of up to four of these pieces.
Pieces == {Tag("p", 0), Tag("a", 2), Tag("img", 1), Txt(1), Txt(5), Br, Close}
Pages  == UNION {[1 .. n -> Pieces] : n \in 0 .. 4}

IndexLists  == {<<"p", "q">>, <<"q", "p", "q">>, <<>>}
TargetLists == {<<"p">>, <<"q", "d">>}

ModuleKinds == "reply" :> "auto-reply" @@ "fetch" :> "fetch" @@ "emoji" :> "send-emoji"
            @@ "odd" :> "none" @@ "delete" :> "delete" @@ "react" :> "react"
            @@ "send" :> "send-message"
NamesUsed   == {{}, {"fetch", "send"}, {"reply", "delete"}, {"emoji", "odd", "react"}}

-----------------------------------------------------------------------------
\* TextsInOrder of every page of Pages.  (The parser keeps no state between
\* pages, so one state is enough.)
OncePerTab == session = "browser" /\ b = NewTab /\ call = Idle

PagesParse == OncePerTab => \A p \in Pages : TextsInOrder(p)

\* TextsComplete of every page of Pages: refuted.
PagesComplete == OncePerTab => \A p \in Pages : TextsComplete(p)

\* Both browsers show the page that was asked for, and its texts in order
\* (rbr_open_internal, do_navigate, parse_html).
PagesShown == ShownIsAsked /\ PagesParse
=============================================================================
