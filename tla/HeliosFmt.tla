------------------------------ MODULE HeliosFmt -----------------------------
(***************************************************************************)
(* helios fmt (rust_lib/src/helios.rs, section 13): a parsed program       *)
(* printed as source again.  Line ends and indentation are single blanks.  *)
(* Constants and imports are not printed.                                  *)
(***************************************************************************)
EXTENDS HeliosCode

(* A text is printed as the characters it has, whatever they are.          *)
Quoted(text) == "\"" \o text \o "\""

Grouped_bare(text) == text
Grouped(text)      == "(" \o text \o ")"

RECURSIVE FmtExpr(_), FmtStmt(_), FmtArms(_)

Listed(texts) == IF texts = << >> THEN ""
                 ELSE FoldLeft(LAMBDA acc, t : acc \o ", " \o t, Head(texts), Tail(texts))

(* Only binary operations are put in parentheses.                          *)
FmtExpr(e) ==
  LET arg(i) == FmtExpr(e.a[i])
      Args   == Listed([i \in DOMAIN e.a |-> arg(i)])
  IN  CASE e.k = "int"   -> ToString(e.n)
        [] e.k = "bool"  -> IF e.n = 1 THEN "true" ELSE "false"
        [] e.k = "str"   -> Quoted(e.s)
        [] e.k = "var"   -> e.s
        [] e.k = "addr"  -> "&" \o e.s
        [] e.k = "deref" -> "*" \o arg(1)
        [] e.k = "input" -> "input()"
        [] e.k = "asm"   -> "asm!(" \o Quoted(e.s) \o ")"
        [] e.k = "cast"  -> arg(1) \o " as " \o e.s
        [] e.k = "call"  -> e.s \o "(" \o Args \o ")"
        [] e.k = "bin"   -> Grouped(arg(1) \o " " \o e.s \o " " \o arg(2))
        [] e.k = "un"    -> e.s \o arg(1)
        [] e.k = "index" -> arg(1) \o "[" \o arg(2) \o "]"
        [] e.k = "field" -> arg(1) \o "." \o e.s
        [] e.k = "array" -> "[" \o Args \o "]"
        [] e.k = "fill"  -> "[" \o arg(1) \o "; " \o ToString(e.n) \o "]"

FmtBlock(body) ==
  " { " \o FoldLeft(LAMBDA acc, s : acc \o FmtStmt(s), "", body) \o "} "

FmtPattern(pat) == CASE pat.t = "INT" -> ToString(pat.n) [] pat.t = "STR" -> Quoted(pat.s)
                     [] OTHER -> "_"
FmtArms(s) ==
  FoldLeft(LAMBDA acc, i : acc \o FmtPattern(s.m[i]) \o " =>" \o FmtBlock(s.b[i]) \o ", ",
           "", [i \in DOMAIN s.m |-> i])

(* The length in brackets of an array definition is not kept: the parser   *)
(* does not look at it.                                                    *)
FmtStmt(s) ==
  LET e(i)  == FmtExpr(s.e[i])
      b(i)  == FmtBlock(s.b[i])
      in(t) == "(" \o t \o ")"
      set   == s.s \o " = " \o e(1)
  IN  CASE s.k = "let"       -> "let " \o set \o "; "
        [] s.k = "letarr"    -> "let " \o s.s \o "[0] = " \o e(1) \o "; "
        [] s.k = "assign"    -> set \o "; "
        [] s.k = "assignidx" -> s.s \o "[" \o e(1) \o "] = " \o e(2) \o "; "
        [] s.k = "compound"  -> s.s \o " " \o s.m[1] \o "= " \o e(1) \o "; "
        [] s.k = "return"    -> "return " \o e(1) \o "; "
        [] s.k = "print"     -> "print" \o in(e(1)) \o "; "
        [] s.k \in {"break", "continue"} -> s.k \o "; "
        [] s.k = "breakval"  -> "break " \o e(1) \o "; "
        [] s.k = "asm"       -> "asm!" \o in(Quoted(s.s)) \o "; "
        [] s.k = "expr"      -> e(1) \o "; "
        [] s.k = "unsafe"    -> "unsafe" \o b(1)
        [] s.k = "if"        -> "if " \o in(e(1)) \o b(1)
                                \o (IF s.b[2] = << >> THEN "" ELSE "else" \o b(2))
        [] s.k = "while"     -> "while " \o in(e(1)) \o b(1)
        [] s.k = "loop"      -> "loop" \o b(1)
        [] s.k = "for"       -> "for " \o s.s \o " in " \o e(1)
                                \o (IF s.m[1] = "<" THEN ".." ELSE "..=") \o e(2)
                                \o " step " \o e(3) \o b(1)
        [] s.k = "match"     -> "match " \o e(1) \o " { " \o FmtArms(s) \o "} "
        [] s.k = "assert"    -> "assert!" \o in(e(1) \o ", " \o Quoted(s.s)) \o "; "

FmtParams(names) == Listed([i \in DOMAIN names |-> "int " \o names[i]])
FmtStruct(s) == "struct " \o s.name \o " { " \o FmtParams(s.fields) \o " } "
FmtFn(f)     == "fn " \o f.name \o "(" \o FmtParams(f.params) \o ") -> "
                \o (IF f.void THEN "void" ELSE "int") \o FmtBlock(f.body)

FmtProgram(prog) ==
  FoldLeft(LAMBDA acc, s : acc \o FmtStruct(s), "", prog.structs)
  \o FoldLeft(LAMBDA acc, f : acc \o FmtFn(f), "", prog.fns)
============================================================================
