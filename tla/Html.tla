-------------------------------- MODULE Html --------------------------------
(***************************************************************************)
(* The HTML parser of lib.rs and what its two users make of the elements:  *)
(* the lines and links of RBR's document, and the height of the graphical  *)
(* browser's page.  A page is a sequence of tokens:                        *)
(*                                                                         *)
(*   [k |-> "text", n |-> number of characters]                            *)
(*   [k |-> "tag", el |-> element, href |-> length of href, src or alt]    *)
(*   [k |-> "br"], [k |-> "close"]   a line break or rule; a closing tag   *)
(*                                                                         *)
(* The text buffer is the sequence of the tokens its characters are from,  *)
(* so that a property can tell whose text an element shows.  Elements that *)
(* are treated alike have one name: li stands for blockquote as well, p    *)
(* for div, h3 for h3 to h6 and span for the inline and the remaining ones. *)
(***************************************************************************)
EXTENDS Naturals, Sequences, SequencesExt

CONSTANTS
    MAX_ELEMENTS,  \* HTML_ELEMENTS
    TEXT_SIZE,     \* HTML_TEXT_BUFFER
    LINE_LEN,      \* RBR_LINE_LEN
    MAX_LINES,     \* RBR_MAX_LINES
    MAX_LINKS,     \* RBR_MAX_LINKS
    MAX_PELEMS,    \* elements laid out
    PER_LINE       \* characters across the graphical page

Least(a, b) == IF a < b THEN a ELSE b
Wrapped(n, per) == (n + per - 1) \div per

\* How many bytes of the page a token takes up: "<el", " href=", the quotes and
\* the value, ">".
Width(t) == CASE t.k = "text"  -> t.n
              [] t.k = "tag"   -> IF t.href = 0 THEN 3 ELSE 10 + t.href
              [] OTHER         -> 4

-----------------------------------------------------------------------------
(* parse_html *)

Blank == [els |-> <<>>, text |-> <<>>, at |-> 0]

\* push_char for every character of a run.
Pushed(text, i, n) ==
    text \o [j \in 1 .. Least(n, TEXT_SIZE - Len(text)) |-> i]

\* Mutant: an element's text is as long as all the text so far.
RunLength_total(before, after) == Len(after) + 0 * Len(before)
RunLength(before, after) == Len(after) - Len(before)

\* A run of text sets the length of the last element's text, not its start.
Text(s, i, n) ==
    LET after == Pushed(s.text, i, n)
        last  == Len(s.els)
    IN  [s EXCEPT !.text = after,
                  !.els  = IF last = 0 THEN @
                           ELSE [@ EXCEPT ![last].len = RunLength(s.text, after)]]

\* href is where the attribute's value lies in the page, not in the text.
Element(s, i, t) ==
    [el |-> t.el, of |-> i, start |-> Len(s.text), len |-> 0,
     href |-> IF t.href = 0 THEN 0 ELSE s.at + 9, href_len |-> t.href]

\* The loop ends when the element table is full.
Parsed(s, i, t) ==
    IF Len(s.els) >= MAX_ELEMENTS THEN s
    ELSE [CASE t.k = "text"  -> Text(s, i, t.n)
            [] t.k = "br"    -> [s EXCEPT !.text = Pushed(@, i, 1)]
            [] t.k = "tag"   -> [s EXCEPT !.els = Append(@, Element(s, i, t))]
            [] t.k = "close" -> s
          EXCEPT !.at = @ + Width(t)]

parse_html(page) ==
    FoldLeft(LAMBDA s, i : Parsed(s, i, page[i]), Blank,
             [i \in DOMAIN page |-> i])

\* get_text: what is not wholly in the buffer reads as nothing.
get_text(html, start, len) ==
    IF start + len <= Len(html.text) THEN SubSeq(html.text, start + 1, start + len)
    ELSE <<>>

-----------------------------------------------------------------------------
(* rbr_build_document: the lines each element adds, and the links.         *)

\* The elements that become links: those with text and an href, as long as
\* there is room in the table.
LinksOf(html) ==
    LET all == SelectSeq([i \in DOMAIN html.els |-> i],
                         LAMBDA i : /\ html.els[i].el = "a"
                                    /\ html.els[i].href_len > 0
                                    /\ html.els[i].len > 0)
    IN  SubSeq(all, 1, Least(Len(all), MAX_LINKS))

\* rbr_push_line wraps at LINE_LEN - 1, and an empty line counts as one.
\* Headers and list items are cut to fit on a line of their own.
LinesOf(html, i) ==
    LET e == html.els[i]
    IN  CASE e.len = 0               -> 0
          [] e.el \in {"h1", "h2"}   -> 2
          [] e.el \in {"h3", "li"}   -> 1
          [] i \in Range(LinksOf(html)) ->
                 Wrapped(Least(4 + e.len, LINE_LEN), LINE_LEN - 1)
          [] e.el = "p"              -> Wrapped(e.len, LINE_LEN - 1) + 1
          [] OTHER                   -> Wrapped(e.len, LINE_LEN - 1)

\* The links are read with get_text, as if href pointed into the text.
LinkOf(html, e) == get_text(html, e.href, e.href_len)

rbr_build_document(page) ==
    LET html  == parse_html(page)
        links == LinksOf(html)
        Add(n, i) == n + LinesOf(html, i)
    IN  [lines |-> Least(MAX_LINES, FoldLeft(Add, 0, [i \in DOMAIN html.els |-> i])),
         links |-> [i \in DOMAIN links |-> LinkOf(html, html.els[links[i]])]]

-----------------------------------------------------------------------------
(* do_layout: the height of the page and how many elements were placed.    *)

TextHeight(n, per) == 13 * (IF n = 0 THEN 1 ELSE Wrapped(n, per))   \* wrap_height

\* <<elements placed, height>>
Placed(e) ==
    LET per == PER_LINE
    IN  CASE e.el = "img"            -> IF e.href_len > 0 THEN <<1, 14>> ELSE <<0, 0>>
          [] e.el = "tr"             -> <<0, 4>>
          [] e.el = "p" /\ e.len = 0 -> <<0, 6>>
          [] e.len = 0               -> <<0, 0>>
          [] e.el = "h1"             -> <<2, 32>>
          [] e.el = "h2"             -> <<1, 22>>
          [] e.el = "h3"             -> <<1, 18>>
          [] e.el = "a"              -> <<1, 16>>
          [] e.el = "li"             -> <<1, TextHeight(e.len, per - 2) + 4>>
          [] OTHER                   -> <<1, TextHeight(e.len, per) + 4>>

LaidOut(s, e) ==
    IF s[1] >= MAX_PELEMS THEN s
    ELSE <<Least(MAX_PELEMS, s[1] + Placed(e)[1]), s[2] + Placed(e)[2]>>

do_layout(page) ==
    FoldLeft(LaidOut, <<0, 8>>, parse_html(page).els)[2] + 24

-----------------------------------------------------------------------------
\* However the tags and runs of text follow each other, and also when a table
\* is full: every element's text lies in the buffer behind the text of the
\* elements before it, and starts with the first run after its own tag.
TextsInOrder(page) ==
    LET html == parse_html(page)
    IN  \A i \in DOMAIN html.els :
            LET e == html.els[i]
            IN  /\ e.start + e.len <= Len(html.text)
                /\ i < Len(html.els) => e.start + e.len <= html.els[i + 1].start
                /\ e.len > 0 => html.text[e.start + 1] > e.of

\* What the page's author may expect and the parser does not do: an element
\* shows all text up to the next element.
TextsComplete(page) ==
    LET html == parse_html(page)
        End(i) == IF i = Len(html.els) THEN Len(html.text) ELSE html.els[i + 1].start
    IN  \A i \in DOMAIN html.els :
            html.els[i].start + html.els[i].len = End(i)
=============================================================================
