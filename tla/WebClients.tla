----------------------------- MODULE WebClients -----------------------------
(***************************************************************************)
(* The programs of lib.rs that fetch pages: the table of HTTP request and  *)
(* response handles and its three users (RBR the text browser, the http    *)
(* command, the registration of the device), and the graphical browser.    *)
(* What happens on the wire is LegacyTcp's; here a request has one of the  *)
(* outcomes it can have there.                                             *)
(*                                                                         *)
(* A program holds the machine while it runs.  Between building a request, *)
(* having its answer and using it, the screen and the tables can be looked *)
(* at: these are the stages of a call.                                     *)
(***************************************************************************)
EXTENDS Html

CONSTANTS
    Handles,       \* HTTP_MAX_HANDLES
    MAX_HISTORY,   \* RBR_MAX_HISTORY
    PAGE_ROWS,     \* RBR_PAGE_ROWS
    CONTENT_H,     \* the height of the graphical browser's window
    Typed,         \* addresses the user types: [scheme, host, path]
    Site,          \* the page at each address
    Retries        \* values of the retry argument of radium_register_device

VARIABLES
    req,      \* HTTP_REQUESTS: the address each slot is for, or Free
    resp,     \* HTTP_RESPONSES: [of, ok, body], or Free
    call,     \* the call in progress: [app, stage, h, url, record, left]
    rbr,      \* RBR's document: [url, of, lines, links, scroll]
    history,  \* RBR_HISTORY
    pos,      \* RBR_HISTORY_POS
    b         \* the graphical browser: [url, of, loading, loaded, scroll, page_h]

webVars == <<req, resp, call, rbr, history, pos, b>>

NoUrl   == [scheme |-> "none", host |-> "none", path |-> "none"]
Free    == [of |-> NoUrl]
Slot    == 1 .. Handles
Idle    == [app |-> "none", stage |-> "idle", h |-> 0, url |-> NoUrl,
            record |-> FALSE, left |-> 0]
NoPage  == [url |-> NoUrl, of |-> NoUrl, lines |-> 0, links |-> <<>>, scroll |-> 0]
NewTab  == [url |-> NoUrl, of |-> NoUrl, loading |-> FALSE, loaded |-> FALSE,
            scroll |-> 0, page_h |-> 0]

ASSUME WebAssumption ==
    /\ {Handles, MAX_HISTORY} \subseteq Nat
    /\ NoUrl \notin Typed

WebInit ==
    /\ req = [i \in Slot |-> Free] /\ resp = [i \in Slot |-> Free]
    /\ call = Idle
    /\ rbr = NoPage /\ history = [i \in 1 .. MAX_HISTORY |-> NoUrl] /\ pos = 0
    /\ b = NewTab

\* The first slot that is not in use; 0 stands for the -1 of the code.
FirstFree(t) == IF \E i \in Slot : t[i] = Free
                THEN CHOOSE i \in Slot : /\ t[i] = Free
                                         /\ \A j \in 1 .. i - 1 : t[j] # Free
                ELSE 0

-----------------------------------------------------------------------------
(* The handles.                                                            *)

\* http_new and the setters, of http() or called one by one.
http_request(app, url, record, left) ==
    LET h == FirstFree(req)
    IN  /\ call' = [app |-> app, stage |-> "made", h |-> h, url |-> url,
                    record |-> record, left |-> left]
        /\ req' = IF h = 0 THEN req ELSE [req EXCEPT ![h] = [of |-> url]]
        /\ UNCHANGED resp

http_parse_url(url) == url.scheme # "https"

\* http_parse_response: without an end of the headers there is no status, no
\* body, and the answer is not ok.
Answers == {[ok |-> FALSE, body |-> FALSE], [ok |-> TRUE, body |-> FALSE],
            [ok |-> TRUE, body |-> TRUE]}
http_parse_response(url, a) == [of |-> url, ok |-> a.ok, body |-> a.body]

\* http_go: http_send and http_free.  Nothing is sent for a handle or an
\* address that is no good; nothing may come back; and an answer is lost when
\* no response slot is free.
NoAnswer == [call EXCEPT !.stage = "answered", !.h = 0]

http_go ==
    /\ call.stage = "made"
    /\ req' = IF call.h = 0 THEN req ELSE [req EXCEPT ![call.h] = Free]
    /\ \/ call' = NoAnswer /\ UNCHANGED resp
       \/ /\ call.h # 0 /\ http_parse_url(req[call.h].of) /\ FirstFree(resp) # 0
          /\ \E a \in Answers :
               resp' = [resp EXCEPT ![FirstFree(resp)] =
                            http_parse_response(req[call.h].of, a)]
          /\ call' = [call EXCEPT !.stage = "answered", !.h = FirstFree(resp)]
    /\ UNCHANGED <<rbr, history, pos, b>>

\* http_free_response; a negative handle is ignored.
\* Mutant: only a good answer is given back.
Released_ok == IF call.h = 0 \/ ~resp[call.h].ok THEN resp
               ELSE [resp EXCEPT ![call.h] = Free]
Released == IF call.h = 0 THEN resp ELSE [resp EXCEPT ![call.h] = Free]

Answered(app) == call.stage = "answered" /\ call.app = app
Good == call.h # 0 /\ resp[call.h].ok

-----------------------------------------------------------------------------
(* RBR.                                                                    *)

\* rbr_open_internal up to the request: the address is the current one at once.
rbr_open_internal(url, record) ==
    /\ call = Idle
    /\ rbr' = [rbr EXCEPT !.url = url]
    /\ http_request("rbr", url, record, 0)
    /\ UNCHANGED b

rbr_open(url) == rbr_open_internal(url, TRUE) /\ UNCHANGED <<history, pos>>

\* A link is what the text buffer held at the offset of the href.  Text that
\* starts like an address is one; other text is read as a path of the current
\* host, and so is nothing, which leads to "/".
IsAbsolute(url) == url.scheme \in {"http", "https"}
Resolved(link) == [scheme |-> "http", host |-> rbr.url.host,
                   path |-> IF link = <<>> THEN "/" ELSE "text"]

rbr_follow(i) ==
    /\ i \in DOMAIN rbr.links
    /\ \/ /\ rbr.links[i] # <<>>
          /\ \E u \in Typed : IsAbsolute(u) /\ rbr_open_internal(u, TRUE)
       \/ /\ http_parse_url(rbr.url)
          /\ rbr_open_internal(Resolved(rbr.links[i]), TRUE)
    /\ UNCHANGED <<history, pos>>

\* The page is opened without being recorded, so pos stays one short.
rbr_back ==
    /\ pos >= 2 /\ pos' = pos - 2
    /\ rbr_open_internal(history[pos - 1], FALSE)
    /\ UNCHANGED history

\* rbr_history_push: the oldest goes when the table is full.
rbr_history_push(url) ==
    IF pos < MAX_HISTORY
    THEN history' = [history EXCEPT ![pos + 1] = url] /\ pos' = pos + 1
    ELSE /\ history' = [i \in 1 .. MAX_HISTORY |->
                            IF i = MAX_HISTORY THEN url ELSE history[i + 1]]
         /\ UNCHANGED pos

\* rbr_reset_document
\* Mutant: the links and the position of the last page stay.
Emptied_kept == [rbr EXCEPT !.of = NoUrl, !.lines = 0]
Emptied == [rbr EXCEPT !.of = NoUrl, !.lines = 0, !.links = <<>>, !.scroll = 0]

\* The rest of rbr_open_internal: one line of error, or the document.
rbr_loads ==
    /\ Answered("rbr")
    /\ LET doc == rbr_build_document(IF resp[call.h].body THEN Site[call.url] ELSE <<>>)
       IN  rbr' = IF Good
                  THEN [Emptied EXCEPT !.of = resp[call.h].of, !.lines = doc.lines,
                                       !.links = doc.links]
                  ELSE [Emptied EXCEPT !.lines = 1]
    /\ IF Good /\ call.record THEN rbr_history_push(call.url)
       ELSE UNCHANGED <<history, pos>>
    /\ resp' = Released
    /\ call' = Idle
    /\ UNCHANGED <<req, b>>

LastScroll == IF rbr.lines > PAGE_ROWS THEN rbr.lines - PAGE_ROWS ELSE 0

\* The keys j, k, space and u of rbr_run.
Scrolled(key) ==
    CASE key = "down"  -> IF rbr.scroll + PAGE_ROWS < rbr.lines THEN rbr.scroll + 1
                          ELSE rbr.scroll
      [] key = "up"    -> IF rbr.scroll > 0 THEN rbr.scroll - 1 ELSE 0
      [] key = "page"  -> Least(rbr.scroll + PAGE_ROWS, LastScroll)
      [] key = "pageup" -> IF rbr.scroll > PAGE_ROWS THEN rbr.scroll - PAGE_ROWS ELSE 0

rbr_scroll(key) ==
    /\ call = Idle
    /\ rbr' = [rbr EXCEPT !.scroll = Scrolled(key)]
    /\ UNCHANGED <<req, resp, call, history, pos, b>>

-----------------------------------------------------------------------------
(* The other users of the handles.                                         *)

\* The http command: one page, printed if the status is 200.
httpShit ==
    /\ call = Idle
    /\ http_request("page", [scheme |-> "http", host |-> "example", path |-> "/"], FALSE, 0)
    /\ UNCHANGED <<rbr, history, pos, b>>

page_prints ==
    /\ Answered("page")
    /\ resp' = Released /\ call' = Idle
    /\ UNCHANGED <<req, rbr, history, pos, b>>

\* radium_register_device: max(1, retry) attempts, until there is a body.
DeviceUrl == [scheme |-> "http", host |-> "device", path |-> "/"]

radium_register_device(retry) ==
    /\ call = Idle
    /\ http_request("register", DeviceUrl, FALSE, (IF retry = 0 THEN 1 ELSE retry) - 1)
    /\ UNCHANGED <<rbr, history, pos, b>>

register_reads ==
    /\ Answered("register")
    /\ resp' = Released
    /\ call' = IF (call.h # 0 /\ resp[call.h].body) \/ call.left = 0 THEN Idle
               ELSE [call EXCEPT !.stage = "again"]
    /\ UNCHANGED <<req, rbr, history, pos, b>>

register_again ==
    /\ call.stage = "again"                     \* after sleep_ms(8000)
    /\ http_request("register", DeviceUrl, FALSE, call.left - 1)
    /\ UNCHANGED <<rbr, history, pos, b>>

-----------------------------------------------------------------------------
(* The graphical browser.                                                  *)

handleVars == <<req, resp, rbr, history, pos>>

\* graphical_browser starts from a new tab, whatever was there before.
graphical_browser ==
    /\ call = Idle /\ b # NewTab /\ b' = NewTab
    /\ UNCHANGED <<call, handleVars>>

\* Enter: b_navigate after the address was typed.
b_navigate(url) ==
    /\ call = Idle
    /\ IF url.scheme \in {"file", "http", "https"}
       THEN /\ b' = [b EXCEPT !.url = url, !.loading = TRUE, !.loaded = FALSE]
            /\ call' = [Idle EXCEPT !.app = url.scheme, !.stage = "loading", !.url = url]
       ELSE /\ b' = [b EXCEPT !.url = url, !.loading = FALSE, !.loaded = FALSE]
            /\ UNCHANGED call
    /\ UNCHANGED handleVars

\* The page is parsed and laid out, and shown from its top.
\* Mutant: a new page is shown where the last one was left.
Shown_scrolled(height) == [b EXCEPT !.of = call.url, !.page_h = height,
                                    !.loaded = TRUE, !.loading = FALSE]
Shown(height) == [b EXCEPT !.of = call.url, !.page_h = height, !.loaded = TRUE,
                           !.scroll = 0, !.loading = FALSE]

\* process_response: no data, no end of the headers and no body leave nothing
\* shown.
NotShown == [b EXCEPT !.loading = FALSE]

\* do_navigate's fetch_via_proxy or fetch_direct, and process_response.
do_navigate ==
    /\ call.stage = "loading" /\ call.app \in {"http", "https"}
    /\ b' \in {Shown(do_layout(Site[call.url])), NotShown}
    /\ call' = Idle
    /\ UNCHANGED handleVars

\* b_load_local: what is not a page is one preformatted element; a file that
\* is not there has a page of its own (b_render_error_page).
PlainHeight == 8 + TextHeight(PER_LINE, PER_LINE) + 8 + 24
ErrorPage   == <<[k |-> "tag", el |-> "h1", href |-> 0], [k |-> "text", n |-> 14],
                 [k |-> "tag", el |-> "p", href |-> 0], [k |-> "text", n |-> 16]>>

b_load_local ==
    /\ call.stage = "loading" /\ call.app = "file"
    /\ b' \in {Shown(do_layout(Site[call.url])), Shown(PlainHeight),
               Shown(do_layout(ErrorPage)), NotShown}
    /\ call' = Idle
    /\ UNCHANGED handleVars

MaxScroll == IF b.page_h > CONTENT_H THEN b.page_h - CONTENT_H ELSE 0
BackBy(n) == IF b.scroll > n THEN b.scroll - n ELSE 0

\* The arrow keys and the page keys.
b_scroll(key) ==
    /\ call = Idle
    /\ b' = [b EXCEPT !.scroll =
                CASE key = "up"     -> BackBy(30)
                  [] key = "down"   -> Least(@ + 30, MaxScroll)
                  [] key = "pageup" -> BackBy(CONTENT_H - 20)
                  [] key = "page"   -> Least(@ + CONTENT_H - 20, MaxScroll)]
    /\ UNCHANGED <<call, handleVars>>

-----------------------------------------------------------------------------
Keys == {"up", "down", "pageup", "page"}

RbrNext ==
    \/ http_go
    \/ \E u \in Typed : rbr_open(u)
    \/ \E i \in DOMAIN rbr.links : rbr_follow(i)
    \/ rbr_back \/ rbr_loads
    \/ \E k \in Keys : rbr_scroll(k)
    \/ httpShit \/ page_prints
    \/ \E n \in Retries : radium_register_device(n)
    \/ register_reads \/ register_again

BrowserNext ==
    \/ \E u \in Typed : b_navigate(u)
    \/ \E k \in Keys : b_scroll(k)
    \/ graphical_browser \/ do_navigate \/ b_load_local

WebNext == RbrNext \/ BrowserNext

WebSpec == WebInit /\ [][WebNext]_webVars

-----------------------------------------------------------------------------
\* No handle is lost and none is shared: a slot of either table is in use only
\* while the call in progress holds it, for its own address, whichever way the
\* calls before it ended.  (A slot lost on an error path would be missed only
\* four errors later, when every request fails.)
HandlesBalanced ==
    /\ {i \in Slot : req[i] # Free} =
           IF call.stage = "made" THEN {call.h} \ {0} ELSE {}
    /\ {i \in Slot : resp[i] # Free} =
           IF call.stage = "answered" THEN {call.h} \ {0} ELSE {}
    /\ call.stage = "answered" /\ call.h # 0 => resp[call.h].of = call.url

\* Between two commands each browser shows the page of the address it gives, or
\* says that there is none, and is scrolled to a place inside that page.  RBR's
\* lines and links are the ones it made of that page and none are left of another,
\* so that a relative link is taken relative to the page it was read from.  (What
\* a link says is not the page's address for it: LinksAreThePages.)
ShownIsAsked ==
    call = Idle =>
        /\ rbr.of \in {rbr.url, NoUrl}
        /\ IF rbr.of = NoUrl THEN rbr.links = <<>> /\ rbr.lines <= 1
           ELSE \E page \in {Site[rbr.of], <<>>} :
                    LET doc == rbr_build_document(page)
                    IN  rbr.links = doc.links /\ rbr.lines = doc.lines
        /\ rbr.scroll <= LastScroll
        /\ ~b.loading
        /\ b.loaded => b.of = b.url /\ b.scroll <= MaxScroll

\* Refuted: a link that can be followed is an address of the page it is shown on.
\* What is read for it is text of the page, or nothing (an address would consist of
\* bytes of its tag).
LinksAreThePages ==
    rbr.of # NoUrl =>
        LET html  == parse_html(Site[rbr.of])
            El(k) == html.els[LinksOf(html)[k]]
        IN  \A k \in DOMAIN rbr.links : rbr.links[k] = [j \in 1 .. El(k).href_len |-> El(k).of]

\* What rbr_back's comment promises and pos does not keep: the page shown is
\* the last one of the history, so that back goes one page back.
HistoryAtPage ==
    call = Idle /\ rbr.of # NoUrl /\ pos > 0 => history[pos] = rbr.url
=============================================================================
