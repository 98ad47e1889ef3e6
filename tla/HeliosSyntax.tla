---------------------------- MODULE HeliosSyntax ----------------------------
(***************************************************************************)
(* The front end of the Helios compiler (rust_lib/src/helios.rs, sections  *)
(* 4 to 6): the lexer, the recursive-descent parser with its diagnostics,  *)
(* and the static checks on the finished program.                          *)
(*                                                                         *)
(* A source is a TLA+ string.  A token is [t, n, s]: its kind (the text    *)
(* itself for keywords and punctuation), its number, its name or text.     *)
(* Positions and wording of diagnostics are left out: a diagnostic is its  *)
(* code, an error below 100 and a warning above.                           *)
(***************************************************************************)
EXTENDS Integers, Sequences, FiniteSets, SequencesExt

CONSTANTS WORD   \* values of the machine are 0 - WORD .. WORD - 1

Wrap(n) == ((n + WORD) % (2 * WORD)) - WORD

---------------------------------------------------------------------------
(* Lexer.                                                                  *)

CharsOf(text) == {SubSeq(text, i, i) : i \in 1..Len(text)}
Digits        == CharsOf("0123456789")
HexDigits     == Digits \cup CharsOf("abcdefABCDEF")
Letters       == CharsOf("abcdefghijklmnopqrstuvwxyzABCDEFGHIJKLMNOPQRSTUVWXYZ")
Blanks        == {" ", "\n", "\t"}

(* The character at a position; "" is the zero the lexer sees at the end.  *)
Peek(src, i) == IF i \in 1..Len(src) THEN SubSeq(src, i, i) ELSE ""

Least(S) == CHOOSE i \in S : \A j \in S : i <= j

(* The first position from i on whose character is, or is not, in S.       *)
FirstIn(src, i, S)    == Least({j \in i..Len(src) : Peek(src, j) \in S}
                               \cup {IF i > Len(src) THEN i ELSE Len(src) + 1})
FirstNotIn(src, i, S) == Least({j \in i..Len(src) : Peek(src, j) \notin S}
                               \cup {IF i > Len(src) THEN i ELSE Len(src) + 1})

RECURSIVE SkipWs(_, _)
SkipWs(src, i) ==
  LET j    == FirstNotIn(src, i, Blanks)
      open == SubSeq(src, j, IF j < Len(src) THEN j + 1 ELSE Len(src))
  IN  IF open = "//" THEN SkipWs(src, FirstIn(src, j, {"\n"}))
      ELSE IF open = "/*"
      THEN SkipWs(src, Least({k + 2 : k \in {m \in j + 2..Len(src) - 1 :
                                 SubSeq(src, m, m + 1) = "*/"}}
                             \cup {Len(src) + 1}))
      ELSE j

Token(t)      == [t |-> t, n |-> 0, s |-> ""]
IntToken(n)   == [t |-> "INT", n |-> n, s |-> ""]
TextToken(t, s) == [t |-> t, n |-> 0, s |-> s]

(* The code of a character.  TLA+ strings have neither a NUL nor a grave   *)
(* accent: a form feed and a question mark keep their place, the question  *)
(* mark also that of the characters above 126.                             *)
NUL == "\f"
Ascii == " !\"#$%&'()*+,-./0123456789:;<=>?@ABCDEFGHIJKLMNOPQRSTUVWXYZ[\\]^_?abcdefghijklmnopqrstuvwxyz{|}~"
CodeOf(c) == IF c \in CharsOf(Ascii)
             THEN 31 + Least({i \in 1..Len(Ascii) : SubSeq(Ascii, i, i) = c})
             ELSE CASE c = "\n" -> 10 [] c = "\t" -> 9 [] c = "\r" -> 13
                    [] OTHER -> 0
CharOf(code) == CASE code \in 32..126 -> SubSeq(Ascii, code - 31, code - 31)
                  [] code = 10 -> "\n" [] code = 9 -> "\t" [] code = 13 -> "\r"
                  [] code = 0 -> NUL [] OTHER -> "?"

DigitValue(c) == CHOOSE d \in 0..15 :
                   c \in {SubSeq("0123456789abcdef", d + 1, d + 1),
                          SubSeq("0123456789ABCDEF", d + 1, d + 1)}

(* The number its digits i..j-1 spell in the given base, wrapped.          *)
RECURSIVE ValueOf(_, _, _, _, _)
ValueOf(src, i, j, base, n) ==
  IF i >= j THEN n
  ELSE ValueOf(src, i + 1, j, base, Wrap(n * base + DigitValue(Peek(src, i))))

(* What the backslash before position i and what follows it stand for:     *)
(* \xHH and \uHHHH are taken to have hexadecimal digits, and an unknown    *)
(* escape is kept as it is written.                                        *)
Escape(src, i) ==
  LET c      == Peek(src, i)
      Is(t)  == [s |-> t, i |-> i + 1]
      Hex(n) == [s |-> CharOf(ValueOf(src, i + 1, i + 1 + n, 16, 0)), i |-> i + 1 + n]
  IN  CASE c = "n" -> Is("\n") [] c = "t" -> Is("\t") [] c = "r" -> Is("\r")
        [] c = "\\" -> Is("\\") [] c = "\"" -> Is("\"") [] c = "0" -> Is(NUL)
        [] c = "x" -> Hex(2) [] c = "u" -> Hex(4)
        [] OTHER -> Is("\\" \o c)

(* The text of a string literal from i on and where it ends: a backslash   *)
(* takes what follows it along; a NUL or the end of the source closes it.  *)
RECURSIVE LexStr(_, _, _)
LexStr(src, i, text) ==
  CASE Peek(src, i) \in {"\"", "", NUL} ->
         [tok |-> TextToken("STR", text), i |-> i + 1]
    [] Peek(src, i) = "\\" ->
         LET e == Escape(src, i + 1) IN LexStr(src, e.i, text \o e.s)
    [] OTHER -> LexStr(src, i + 1, text \o Peek(src, i))

(* A character literal is the code of its character; an escape that is     *)
(* none stands for the character itself, and a missing closing quote is    *)
(* not reported.                                                           *)
LexChar(src, i) ==
  LET c     == Peek(src, i + 1)
      To(n, j) == [n |-> n, i |-> j]
      v     == IF Peek(src, i) # "\\" THEN To(CodeOf(Peek(src, i)), i + 1)
               ELSE IF c = "x" THEN To(ValueOf(src, i + 2, i + 4, 16, 0), i + 4)
               ELSE To(CodeOf(IF c \in {"n", "t", "r", "0"} THEN Escape(src, i + 1).s
                              ELSE c), i + 2)
  IN  [tok |-> IntToken(v.n), i |-> IF Peek(src, v.i) = "'" THEN v.i + 1 ELSE v.i]

(* A sign belongs to the literal.  Letters after a decimal literal are a   *)
(* type suffix and are dropped.                                            *)
LexNum(src, from) ==
  LET neg  == Peek(src, from) = "-"
      i    == IF neg THEN from + 1 ELSE from
      two  == Peek(src, i + 1)
      hex  == Peek(src, i) = "0" /\ two \in {"x", "X"}
      bin  == Peek(src, i) = "0" /\ two \in {"b", "B"}
      d    == IF hex \/ bin THEN i + 2 ELSE i
      j    == FirstNotIn(src, d, CASE hex -> HexDigits [] bin -> {"0", "1"}
                                   [] OTHER -> Digits)
      n    == ValueOf(src, d, j, CASE hex -> 16 [] bin -> 2 [] OTHER -> 10, 0)
  IN  [tok |-> IntToken(IF neg THEN Wrap(-n) ELSE n),
       i   |-> IF hex \/ bin THEN j ELSE FirstNotIn(src, j, Letters \cup {"_"})]

Keywords ==
  {"fn", "let", "mut", "return", "if", "else", "for", "while", "loop", "in",
   "break", "continue", "match", "struct", "new", "unsafe", "step", "using",
   "print", "input", "asm", "const", "assert", "int", "str", "bool", "void",
   "ptr", "as", "_"}

LexIdent(src, i) ==
  LET j == FirstNotIn(src, i, Letters \cup Digits \cup {"_"})
      s == SubSeq(src, i, j - 1)
  IN  [tok |-> IF s \in Keywords THEN Token(s)
               ELSE IF s \in {"true", "false"}
               THEN [t |-> "BOOL", n |-> IF s = "true" THEN 1 ELSE 0, s |-> ""]
               ELSE TextToken("IDENT", s),
       i   |-> j]

LongPunctuation ==
  {"+=", "-=", "->", "*=", "/=", "%=", "&&", "&=", "||", "|=", "^=", "!=",
   "==", "=>", "<<", "<=", ">>", ">=", "..", "::"}
Punctuation == CharsOf("+-*/%&|^~!=<>.:{}()[];,")

(* One token.  A minus sign directly before a digit is always read as part *)
(* of a number; characters outside the language are skipped.               *)
RECURSIVE NextToken(_, _)
TokenAt(src, i) ==
  LET c   == Peek(src, i)
      two == SubSeq(src, i, i + 1)
  IN  CASE c \in {"", NUL} -> [tok |-> Token("EOF"), i |-> i]
        [] c = "\"" -> LexStr(src, i + 1, "")
        [] c = "'" -> LexChar(src, i + 1)
        [] c \in Digits \/ (c = "-" /\ Peek(src, i + 1) \in Digits) ->
             LexNum(src, i)
        [] c \in Letters \cup {"_"} -> LexIdent(src, i)
        [] c \notin {"", NUL, "\"", "'", "_"} \cup Digits \cup Letters \cup Punctuation ->
             NextToken(src, i + 1)
        [] OTHER ->
             IF i < Len(src) /\ two \in LongPunctuation
             THEN IF two = ".." /\ Peek(src, i + 2) = "="
                  THEN [tok |-> Token("..="), i |-> i + 3]
                  ELSE [tok |-> Token(two), i |-> i + 2]
             ELSE [tok |-> Token(c), i |-> i + 1]
NextToken(src, from) == TokenAt(src, SkipWs(src, from))

RECURSIVE TokensFrom(_, _, _)
TokensFrom(src, acc, r) ==
  IF r.tok.t = "EOF" THEN Append(acc, r.tok)
  ELSE TokensFrom(src, Append(acc, r.tok), NextToken(src, r.i))

Tokenise(src) == TokensFrom(src, << >>, NextToken(src, 1))

---------------------------------------------------------------------------
(* Parser.  Its state p: the tokens, the position, the diagnostic codes,   *)
(* the nesting of loops, unsafe blocks and blocks, the imports, and hang:  *)
(* a loop of the parser that consumes nothing and never ends.  A parsing   *)
(* operator returns [p, v]: the state after it and what it parsed; Then    *)
(* goes on from there.                                                     *)

(* An expression is [k, s, n, a]: kind, name or operator, number, operands.*)
Expr(k, s, n, a) == [k |-> k, s |-> s, n |-> n, a |-> a]
IntLit(n)        == Expr("int", "", n, << >>)

(* A statement is [k, s, e, b, m]: kind, name or operator, expressions,    *)
(* blocks, and the patterns of a match.                                    *)
Stmt(k, s, e, b) == [k |-> k, s |-> s, e |-> e, b |-> b, m |-> << >>]

R(p, v)     == [p |-> p, v |-> v]
Then(r, After(_, _)) == After(r.p, r.v)
K(p)        == p.ts[p.pos].t
Tok(p)      == p.ts[p.pos]
Advance(p)  == IF p.pos < Len(p.ts) THEN [p EXCEPT !.pos = @ + 1] ELSE p
Diag(p, c)  == [p EXCEPT !.dg = @ \cup {c}]
Expect(p, k) == IF K(p) = k THEN Advance(p) ELSE Diag(p, 5)
EatSemi(p)   == IF K(p) = ";" THEN Advance(p) ELSE Diag(p, 6)
Skip(p, k)   == IF K(p) = k THEN Advance(p) ELSE p
EatIdent(p)  == IF K(p) = "IDENT" THEN R(Advance(p), Tok(p).s)
                ELSE R(Diag(p, 10), "<error>")

Types == {"int", "str", "bool", "void", "ptr"}
SkipType(p) == IF K(p) \in Types THEN Advance(p) ELSE p

RECURSIVE ParseExpr(_), ParsePrimary(_), ParseArgs(_, _), ParseItems(_, _),
          ParseInits(_, _), ParsePostfix(_, _), ParseLevel(_, _),
          ParseLevelRest(_, _, _), ParseCasts(_, _)

(* Arguments up to the closing parenthesis; commas between are optional.   *)
ParseArgs(p, acc) ==
  IF K(p) \in {")", "EOF"} THEN R(Expect(p, ")"), acc)
  ELSE Then(ParseExpr(p), LAMBDA q, e : ParseArgs(Skip(q, ","), Append(acc, e)))

(* The rest of [a, b, c].                                                  *)
ParseItems(p, acc) ==
  IF K(p) # "," \/ K(Advance(p)) = "]"
  THEN R(Expect(Skip(p, ","), "]"), acc)
  ELSE Then(ParseExpr(Advance(p)), LAMBDA q, e : ParseItems(q, Append(acc, e)))

(* The fields of new S { f: e, ... }: their order is their index.          *)
ParseInits(p, acc) ==
  IF K(p) \in {"}", "EOF"} THEN R(Expect(p, "}"), acc)
  ELSE Then(ParseExpr(Expect(EatIdent(p).p, ":")),
            LAMBDA q, e : ParseInits(Skip(q, ","), Append(acc, e)))

ParseUnOp(p, k, s) ==
  Then(ParsePrimary(Advance(p)), LAMBDA q, e : R(q, Expr(k, s, 0, <<e>>)))

AsmText(p) == R(Expect(Skip(p, "STR"), ")"), IF K(p) = "STR" THEN Tok(p).s ELSE "")
ParseAsmText(p) == AsmText(Expect(Expect(Advance(p), "!"), "("))

ArrayRest(p, first) ==
  IF K(p) = ";"
  THEN LET q == Advance(p)
       IN  R(Expect(Skip(q, "INT"), "]"),
             Expr("fill", "", IF K(q) = "INT" THEN Tok(q).n ELSE 0, <<first>>))
  ELSE Then(ParseItems(p, <<first>>), LAMBDA q, es : R(q, Expr("array", "", 0, es)))
ParseArray(p) == Then(ParseExpr(Advance(p)), ArrayRest)

ParsePrimary(p) ==
  LET t == Tok(p)
      q == Advance(p)
  IN  CASE t.t = "INT"   -> R(q, IntLit(t.n))
        [] t.t = "STR"   -> R(q, Expr("str", t.s, 0, << >>))
        [] t.t = "BOOL"  -> R(q, Expr("bool", "", t.n, << >>))
        [] t.t = "IDENT" -> IF K(q) # "(" THEN R(q, Expr("var", t.s, 0, << >>))
                            ELSE Then(ParseArgs(Advance(q), << >>),
                                      LAMBDA r, es : R(r, Expr("call", t.s, 0, es)))
        [] t.t = "input" -> R(IF K(q) = "(" THEN Expect(Advance(q), ")") ELSE q,
                              Expr("input", "", 0, << >>))
        [] t.t = "("     -> Then(ParseExpr(q), LAMBDA r, e : R(Expect(r, ")"), e))
        [] t.t = "["     -> ParseArray(p)
        [] t.t = "*"     -> ParseUnOp(p, "deref", "")
        [] t.t = "&"     -> Then(EatIdent(q),
                                 LAMBDA r, nm : R(r, Expr("addr", nm, 0, << >>)))
        [] t.t \in {"-", "!", "~"} -> ParseUnOp(p, "un", t.t)
        [] t.t = "asm"   -> Then(ParseAsmText(p),
                                 LAMBDA r, a : R(r, Expr("asm", a, 0, << >>)))
        [] t.t = "new"   -> Then(ParseInits(Expect(EatIdent(q).p, "{"), << >>),
                                 LAMBDA r, es : R(r, Expr("array", "", 0, es)))
        [] OTHER         -> R(Advance(Diag(p, 7)), IntLit(0))

(* Indexing and field access, left to right; a.b.c is b, then c.           *)
ParsePostfix(p, e) ==
  CASE K(p) = "[" -> Then(ParseExpr(Advance(p)), LAMBDA q, i :
                       ParsePostfix(Expect(q, "]"), Expr("index", "", 0, <<e, i>>)))
    [] K(p) = "." -> Then(EatIdent(Advance(p)), LAMBDA q, f :
                       ParsePostfix(q, Expr("field", f, 0, <<e>>)))
    [] OTHER      -> R(p, e)

(* A prefix operator applies to the postfix expression after it.           *)
ParseUnary(p) ==
  LET pre == K(p) \in {"-", "!", "~", "*"}
  IN  Then(Then(ParsePrimary(IF pre THEN Advance(p) ELSE p), ParsePostfix),
           LAMBDA q, e : R(q, IF ~pre THEN e
                              ELSE IF K(p) = "*" THEN Expr("deref", "", 0, <<e>>)
                              ELSE Expr("un", K(p), 0, <<e>>)))

(* The binary operators, tightest first, all left-associative.             *)
Levels == <<{"*", "/", "%"}, {"+", "-"}, {"<<", ">>"}, {"&"}, {"^"}, {"|"},
            {"==", "!=", "<", "<=", ">", ">="}, {"&&", "||"}>>

ParseLevel(p, n) ==
  IF n = 0 THEN ParseUnary(p)
  ELSE Then(ParseLevel(p, n - 1), LAMBDA q, l : ParseLevelRest(q, n, l))

ParseLevelRest(p, n, l) ==
  IF K(p) \notin Levels[n] THEN R(p, l)
  ELSE Then(ParseLevel(Advance(p), n - 1), LAMBDA q, r :
         ParseLevelRest(q, n, Expr("bin", K(p), 0, <<l, r>>)))

(* Casts bind weakest; an unknown type is taken for int.                   *)
ParseCasts(p, e) ==
  IF K(p) # "as" THEN R(p, e)
  ELSE ParseCasts(Advance(Advance(p)),
                  Expr("cast", IF K(Advance(p)) = "bool" THEN "bool" ELSE "int",
                       0, <<e>>))

ParseExpr(p) == Then(ParseLevel(p, Len(Levels)), ParseCasts)

---------------------------------------------------------------------------
(* Statements.                                                             *)

RECURSIVE ParseStmt(_), ParseStmts(_, _, _), ParseArms(_, _, _), SkipToSemi(_)

BodyHasBreak(body) == \E i \in DOMAIN body : body[i].k \in {"break", "breakval"}

(* Statements up to the closing brace; after is whether a return has been  *)
(* seen among them.                                                        *)
ParseStmts(p, acc, after) ==
  IF K(p) \in {"}", "EOF"} THEN R(Expect(p, "}"), acc)
  ELSE Then(ParseStmt(IF after THEN Diag(p, 302) ELSE p), LAMBDA q, s :
         ParseStmts(q, Append(acc, s), after \/ s.k = "return"))

Deeper(p) == IF p.depth >= 5 THEN Diag(p, 301) ELSE p
InBlock(p) == Then(ParseStmts(IF K(p) = "}" THEN Diag(p, 303) ELSE p, << >>, FALSE),
                   LAMBDA q, b : R([q EXCEPT !.depth = @ - 1], b))
ParseBlock(p) == InBlock(Deeper([Expect(p, "{") EXCEPT !.depth = @ + 1]))

ParseLoopBody(p) ==
  Then(ParseBlock([p EXCEPT !.loop = @ + 1]),
       LAMBDA q, b : R([q EXCEPT !.loop = @ - 1], b))

SkipToSemi(p) == IF K(p) \in {";", "EOF"} THEN p ELSE SkipToSemi(Advance(p))

LetValue(p, name, k) ==
  Then(ParseExpr(Expect(p, "=")), LAMBDA q, e :
    R(EatSemi(q), Stmt(k, name, <<e>>, << >>)))
ParseLet(p) ==
  Then(EatIdent(SkipType(Skip(Advance(p), "mut"))), LAMBDA q, name :
    CASE name = "<error>" ->
           R(EatSemi(SkipToSemi(q)), Stmt("let", name, <<IntLit(0)>>, << >>))
      [] name # "<error>" /\ K(q) = "[" ->
           LetValue(Expect(Skip(Advance(q), "INT"), "]"), name, "letarr")
      [] OTHER -> LetValue(q, name, "let"))

ParseReturn(p) ==
  IF K(Advance(p)) = ";"
  THEN R(Advance(Advance(p)), Stmt("return", "", <<IntLit(0)>>, << >>))
  ELSE Then(ParseExpr(Advance(p)), LAMBDA q, e :
         R(EatSemi(q), Stmt("return", "", <<e>>, << >>)))

(* A condition's opening parenthesis is taken off before its expression is *)
(* parsed, and the closing one expected after it.                          *)
ParseCond(p) ==
  Then(ParseExpr(Skip(p, "(")), LAMBDA q, e :
    R(IF K(p) = "(" THEN Expect(q, ")") ELSE q, e))

Constant(e) == e.k = "bool" \/ (e.k = "int" /\ e.n \in {0, 1})
ParseElse(p, cond, then) ==
  Then(CASE K(p) # "else"          -> R(p, << >>)
         [] K(Advance(p)) = "if"   -> Then(ParseStmt(Advance(p)), LAMBDA q, s : R(q, <<s>>))
         [] OTHER                  -> ParseBlock(Advance(p)),
       LAMBDA q, other : R(q, Stmt("if", "", <<cond>>, <<then, other>>)))
ParseIf(p) ==
  Then(ParseCond(Advance(p)), LAMBDA q, c :
    Then(ParseBlock(IF Constant(c) THEN Diag(q, 201) ELSE q), LAMBDA r, then :
      ParseElse(r, c, then)))

ParseWhile(p) ==
  Then(ParseCond(Advance(p)), LAMBDA q, c :
    Then(ParseLoopBody(q), LAMBDA r, b : R(r, Stmt("while", "", <<c>>, <<b>>))))

ParseLoop(p) ==
  Then(ParseLoopBody(Advance(p)), LAMBDA q, b :
    R(IF BodyHasBreak(b) THEN q ELSE Diag(q, 202), Stmt("loop", "", << >>, <<b>>)))

ParseStep(p) == IF K(p) = "step" THEN ParseExpr(Advance(p)) ELSE R(p, IntLit(1))
ForRange(p, name, start) ==
  Then(ParseExpr(IF K(p) \in {"..", "..="} THEN Advance(p) ELSE Diag(p, 22)), LAMBDA q, end :
    Then(ParseStep(q), LAMBDA r, step :
      Then(ParseLoopBody(r), LAMBDA s, b :
        R(s, [Stmt("for", name, <<start, end, step>>, <<b>>)
               EXCEPT !.m = <<IF K(p) = "..=" THEN "<=" ELSE "<">>]))))
ForStart(p, name) ==
  Then(ParseExpr(IF K(p) = "in" THEN Advance(p) ELSE Diag(p, 21)), LAMBDA q, start :
    ForRange(q, name, start))
ParseFor(p) ==
  Then(EatIdent(Advance(p)), LAMBDA q, name :
    ForStart(IF name = "<error>" THEN Diag(q, 20) ELSE q, name))

OutsideLoop(p, code) == IF p.loop = 0 THEN Diag(Advance(p), code) ELSE Advance(p)
BreakValue(p) ==
  IF K(p) = ";" THEN R(EatSemi(p), Stmt("break", "", << >>, << >>))
  ELSE Then(ParseExpr(p), LAMBDA q, e : R(EatSemi(q), Stmt("breakval", "", <<e>>, << >>)))
ParseBreak(p) == BreakValue(OutsideLoop(p, 50))

ParseContinue(p) == R(EatSemi(OutsideLoop(p, 51)), Stmt("continue", "", << >>, << >>))

ParsePrint(p) ==
  Then(ParseExpr(Expect(Advance(p), "(")), LAMBDA q, e :
    LET r == EatSemi(Expect(q, ")"))
    IN  R(IF e.k \in {"int", "bool"} THEN Diag(r, 101) ELSE r,
          Stmt("print", "", <<e>>, << >>)))

(* The arms of a match: patterns [k, s, n]; any other token is a wildcard. *)
ParseArms(p, pats, bodies) ==
  IF K(p) \in {"}", "EOF"}
  THEN R(Expect(p, "}"), [pats |-> pats, bodies |-> bodies])
  ELSE Then(ParseBlock(Expect(Advance(p), "=>")), LAMBDA q, b :
         ParseArms(Skip(q, ","),
                   Append(pats, IF K(p) \in {"INT", "STR"} THEN Tok(p) ELSE Token("_")),
                   Append(bodies, b)))

ParseMatch(p) ==
  Then(ParseExpr(Advance(p)), LAMBDA q, e :
    Then(ParseArms(Expect(q, "{"), << >>, << >>), LAMBDA r, arms :
      R(r, [Stmt("match", "", <<e>>, arms.bodies) EXCEPT !.m = arms.pats])))

ParseUnsafe(p) ==
  Then(ParseBlock([Advance(p) EXCEPT !.unsafe = @ + 1]), LAMBDA q, b :
    LET r == [q EXCEPT !.unsafe = @ - 1]
    IN  R(IF \E i \in DOMAIN b : b[i].k = "asm" THEN r ELSE Diag(r, 603),
          Stmt("unsafe", "", << >>, <<b>>)))

ParseAsm(p) ==
  Then(ParseAsmText(IF p.unsafe = 0 THEN Diag(p, 604) ELSE p), LAMBDA q, a :
    R(EatSemi(q), Stmt("asm", a, << >>, << >>)))

AssertText(p, cond) ==
  LET q   == Advance(p)
      msg == K(p) = "," /\ K(q) = "STR"
  IN  R(EatSemi(Expect(IF K(p) = "," THEN Skip(q, "STR") ELSE p, ")")),
        Stmt("assert", IF msg THEN Tok(q).s ELSE "assertion failed", <<cond>>, << >>))
ParseAssert(p) == Then(ParseExpr(Expect(Expect(Advance(p), "!"), "(")), AssertText)

CompoundOps == [op \in {"+=", "-=", "*=", "/=", "%=", "&=", "|=", "^="} |->
                  SubSeq(op, 1, 1)]

(* An assignment or an expression statement.  What cannot be assigned to   *)
(* is dropped without a diagnostic.                                        *)
Assigned(target, e) ==
  CASE target.k = "var" -> Stmt("assign", target.s, <<e>>, << >>)
    [] target.k = "index" /\ target.a[1].k = "var" ->
         Stmt("assignidx", target.a[1].s, <<target.a[2], e>>, << >>)
    [] target.k = "index" -> Stmt("expr", "", <<IntLit(0)>>, << >>)
    [] OTHER -> Stmt("expr", "", <<e>>, << >>)
Compounded(target, op, e) ==
  IF target.k = "var"
  THEN [Stmt("compound", target.s, <<e>>, << >>) EXCEPT !.m = <<CompoundOps[op]>>]
  ELSE Stmt("expr", "", <<e>>, << >>)
ParseExprStmt(p) ==
  Then(ParseExpr(p), LAMBDA q, v :
    IF K(q) = "=" \/ K(q) \in DOMAIN CompoundOps
    THEN Then(ParseExpr(Advance(q)), LAMBDA r, e :
           R(EatSemi(r), IF K(q) = "=" THEN Assigned(v, e) ELSE Compounded(v, K(q), e)))
    ELSE R(EatSemi(IF v.k \in {"int", "bool", "str", "var"} THEN Diag(q, 101) ELSE q),
           Stmt("expr", "", <<v>>, << >>)))

ParseStmt(p) ==
  CASE K(p) = "let"      -> ParseLet(p)
    [] K(p) = "return"   -> ParseReturn(p)
    [] K(p) = "if"       -> ParseIf(p)
    [] K(p) = "while"    -> ParseWhile(p)
    [] K(p) = "loop"     -> ParseLoop(p)
    [] K(p) = "for"      -> ParseFor(p)
    [] K(p) = "break"    -> ParseBreak(p)
    [] K(p) = "continue" -> ParseContinue(p)
    [] K(p) = "print"    -> ParsePrint(p)
    [] K(p) = "match"    -> ParseMatch(p)
    [] K(p) = "unsafe"   -> ParseUnsafe(p)
    [] K(p) = "asm"      -> ParseAsm(p)
    [] K(p) = "assert"   -> ParseAssert(p)
    [] OTHER             -> ParseExprStmt(p)

---------------------------------------------------------------------------
(* Definitions and the whole program.                                      *)

RECURSIVE ParseParams(_, _), ParseFields(_, _), ParseImports(_, _),
          ParseItemsOf(_, _), HasReturn(_), StmtExprs(_), ExprNodes(_), LetsOf(_)

HasReturn(body) ==
  \E i \in DOMAIN body :
    \/ body[i].k = "return"
    \/ /\ body[i].k \in {"if", "loop", "while", "unsafe"}
       /\ \A j \in DOMAIN body[i].b : HasReturn(body[i].b[j])

(* A parameter is `int a', `a' or `a: int'; one that consumes no token is  *)
(* skipped over.                                                           *)
ParseParams(p, acc) ==
  IF K(p) \in {")", "EOF"} THEN R(Expect(p, ")"), acc)
  ELSE Then(EatIdent(SkipType(p)), LAMBDA q, name :
         LET typed == IF K(p) \in Types \/ K(q) # ":" THEN q
                      ELSE IF K(Advance(q)) \in Types THEN Advance(Advance(q))
                      ELSE Diag(Advance(q), 10)
             r     == Skip(typed, ",")
         IN  ParseParams(IF r.pos = p.pos THEN Advance(r) ELSE r, Append(acc, name)))

FnBody(p, name, params) ==
  LET arrow == K(p) = "->"
      void  == ~arrow \/ K(Advance(p)) = "void"
  IN  Then(ParseBlock(IF arrow THEN Advance(Advance(p)) ELSE p), LAMBDA q, b :
        R(IF void \/ HasReturn(b) THEN q ELSE Diag(q, 401),
          [name |-> name, params |-> params, void |-> void, body |-> b]))
ParseFn(p) ==
  Then(EatIdent(Advance(p)), LAMBDA q, name :
    Then(ParseParams(Expect(IF name = "<error>" THEN Diag(q, 30) ELSE q, "("), << >>),
         LAMBDA r, params : FnBody(r, name, params)))

(* A field is a name with or without a type before it.  A token that is    *)
(* neither is not consumed: the loop then runs for ever.                   *)
ParseFields(p, acc) ==
  IF K(p) \in {"}", "EOF"} THEN R(Expect(p, "}"), acc)
  ELSE Then(EatIdent(SkipType(p)), LAMBDA q, f :
         IF Skip(q, ",").pos = p.pos THEN R([Skip(q, ",") EXCEPT !.hang = TRUE], acc)
         ELSE ParseFields(Skip(q, ","), Append(acc, f)))

ParseStruct(p) ==
  Then(EatIdent(Advance(p)), LAMBDA q, name :
    Then(ParseFields(Expect(q, "{"), << >>), LAMBDA r, fields :
      R(r, [name |-> name, fields |-> fields])))

PrpCalls   == {"random_bytes", "sha256_file", "seal_file", "open_file",
               "seal_text", "fingerprint", "keygen", "sign", "verify",
               "seal_file_pub", "open_file_prv", "seal_text_pub", "selftest"}
FetchCalls == {"get", "https_get", "active", "test_https"}
CallsOf(ns) == CASE ns = "prp" -> PrpCalls [] ns = "fetch" -> FetchCalls
                 [] OTHER -> {}

Import(p, ns, name) ==
  IF name # "*" /\ name \notin CallsOf(ns) THEN Diag(p, 14)
  ELSE [p EXCEPT !.imp = @ \cup {<<ns, name>>}]
MoreImports(p, ns) == IF K(p) = "," THEN ParseImports(Advance(p), ns) ELSE Skip(p, ";")
ParseImports(p, ns) ==
  Then(IF K(p) = "*" THEN R(Advance(p), "*") ELSE EatIdent(p), LAMBDA q, name :
    MoreImports(Import(q, ns, name), ns))

UsingCalls(p, ns) == IF K(p) # "::" THEN Expect(p, "::") ELSE ParseImports(Advance(p), ns)
ParseUsing(p) ==
  IF K(Advance(p)) # "::" THEN Expect(Advance(p), "::")
  ELSE Then(EatIdent(Advance(Advance(p))), LAMBDA q, ns :
         UsingCalls(IF ns \in {"prp", "fetch"} THEN q ELSE Diag(q, 14), ns))

ConstValue(p, name) ==
  R(EatSemi(Skip(p, "INT")), [name |-> name, value |-> IF K(p) = "INT" THEN Tok(p).n ELSE 0])
ParseConst(p) ==
  Then(EatIdent(Advance(p)), LAMBDA q, name :
    ConstValue(Expect(IF K(q) = ":" THEN Advance(Advance(q)) ELSE q, "="), name))

(* A definition whose name is taken is reported and dropped.               *)
AddDef(r, defs, code) ==
  IF \E i \in DOMAIN defs : defs[i].name = r.v.name
  THEN R(Diag(r.p, code), defs) ELSE R(r.p, Append(defs, r.v))

ParseItemsOf(p, prog) ==
  CASE K(p) = "EOF" \/ p.hang -> R(p, prog)
    [] K(p) = "const"  -> Then(AddDef(ParseConst(p), prog.consts, 13), LAMBDA q, ds :
                            ParseItemsOf(q, [prog EXCEPT !.consts = ds]))
    [] K(p) = "fn"     -> Then(AddDef(ParseFn(p), prog.fns, 3), LAMBDA q, ds :
                            ParseItemsOf(q, [prog EXCEPT !.fns = ds]))
    [] K(p) = "struct" -> Then(AddDef(ParseStruct(p), prog.structs, 4), LAMBDA q, ds :
                            ParseItemsOf(q, [prog EXCEPT !.structs = ds]))
    [] K(p) = "using"  -> ParseItemsOf(ParseUsing(p), prog)
    [] OTHER           -> ParseItemsOf(Advance(Diag(p, 1)), prog)

---------------------------------------------------------------------------
(* Checks on the finished program.                                         *)

(* An expression with everything below it.                                 *)
ExprNodes(e) == {e} \cup UNION {ExprNodes(e.a[i]) : i \in DOMAIN e.a}

(* The expressions in which calls and reads are looked for, by statement:  *)
(* the ones of an indexed assignment, an array definition and an assert    *)
(* are not among them.                                                     *)
StmtExprs(s) ==
  IF s.k \in {"assignidx", "letarr", "assert"} THEN {}
  ELSE UNION {ExprNodes(s.e[i]) : i \in DOMAIN s.e}
       \cup UNION {UNION {StmtExprs(s.b[i][j]) : j \in DOMAIN s.b[i]} :
                   i \in DOMAIN s.b}

BodyExprs(body)       == UNION {StmtExprs(body[i]) : i \in DOMAIN body}
BodyCalls(body, name) == \E e \in BodyExprs(body) : e.k = "call" /\ e.s = name
BodyReads(body, name) == \E e \in BodyExprs(body) :
                            e.k \in {"var", "addr"} /\ e.s = name

LetsOf(body) ==
  UNION {IF body[i].k \in {"let", "letarr"} THEN {body[i].s}
         ELSE UNION {LetsOf(body[i].b[j]) : j \in DOMAIN body[i].b} :
         i \in DOMAIN body}

Intrinsics ==
  {"in8", "in16", "in32", "out8", "out16", "out32", "get_ticks", "sleep_ms",
   "pit_set_hz", "poll_scancode", "print_char", "print_str", "print_hex",
   "cpuid", "peek", "peek8", "peek16", "peek32", "poke", "poke8", "poke16",
   "poke32", "malloc", "alloc", "free", "memcpy", "memset", "strlen",
   "strsub", "stoi", "char_code", "ord"}

Imported(imp, ns, name) == <<ns, "*">> \in imp \/ <<ns, name>> \in imp

(* E009: a name directly before a parenthesis, anywhere in the tokens,     *)
(* that is no function.  E014, E015: a call of a library function whose    *)
(* namespace is not imported.  E002: no main.  W501, W502: what is unused. *)
CheckCodes(p, prog) ==
  LET ts      == p.ts
      names   == {prog.fns[i].name : i \in DOMAIN prog.fns}
      bodies  == {prog.fns[i].body : i \in DOMAIN prog.fns}
      known(n) == \/ n \in names \cup Intrinsics
                  \/ \E ns \in {"prp", "fetch"} :
                        n \in CallsOf(ns) /\ Imported(p.imp, ns, n)
      missing(ns) == \E n \in CallsOf(ns), b \in bodies :
                        BodyCalls(b, n) /\ ~Imported(p.imp, ns, n)
      has(c, code) == IF c THEN {code} ELSE {}
  IN  has(\E i \in 1..Len(ts) - 1 : /\ ts[i].t = "IDENT" /\ ts[i + 1].t = "("
                                     /\ ~known(ts[i].s), 9)
      \cup has(missing("prp"), 14) \cup has(missing("fetch"), 15)
      \cup has("main" \notin names, 2)
      \cup has(\E n \in names \ {"main"} : \A b \in bodies : ~BodyCalls(b, n), 501)
      \cup has(\E b \in bodies : \E v \in LetsOf(b) :
                  /\ v # "<error>" /\ SubSeq(v, 1, 1) # "_"
                  /\ ~BodyReads(b, v), 502)

ParserStart(ts) ==
  [ts |-> ts, pos |-> 1, dg |-> {}, loop |-> 0, unsafe |-> 0,
   depth |-> 0, imp |-> {}, hang |-> FALSE]

(* What the parser makes of the tokens: the definitions, the imports, the  *)
(* diagnostics, and whether it ever comes back.                            *)
Checked(p, prog) ==
  [prog |-> prog, imp |-> p.imp, hang |-> p.hang,
   dg |-> IF p.hang THEN p.dg ELSE p.dg \cup CheckCodes(p, prog)]
ParseTokens(ts) ==
  Then(ParseItemsOf(ParserStart(ts),
                    [consts |-> << >>, fns |-> << >>, structs |-> << >>]), Checked)

ParseProgram(src) == ParseTokens(Tokenise(src))

Errors(dg) == {c \in dg : c < 100}
============================================================================
