--------------------------- MODULE HeliosMeaning ----------------------------
(***************************************************************************)
(* What a Helios program means, read off its syntax tree: variables belong *)
(* to the call that uses them, operands are evaluated left to right, loops *)
(* and matches are what helios.md says of them.  No code, no stack.  This  *)
(* is the reference the compiled programs are compared with.               *)
(*                                                                         *)
(* st is the run so far: what was printed, the array cells, the next       *)
(* array's address, the texts met, the fuel left, and how the run ended    *)
(* ("" while it goes on).  sig is how a statement left: next, break,       *)
(* continue or return.                                                     *)
(***************************************************************************)
EXTENDS HeliosVm

MeaningStart(fuel) ==
  [out |-> << >>, cells |-> << >>, at |-> HEAP_BASE, lits |-> << >>,
   fuel |-> fuel, end |-> ""]

V(v, st)         == [v |-> v, st |-> st]
X(sig, v, env, st) == [sig |-> sig, v |-> v, env |-> env, st |-> st]
End(st, how)     == IF st.end = "" THEN [st EXCEPT !.end = how] ELSE st
Burn(st)         == IF st.fuel = 0 THEN End(st, "timeout")
                    ELSE [st EXCEPT !.fuel = @ - 1]
Writes(st, kind, v) == IF st.end = "" THEN [st EXCEPT !.out = Append(@, <<kind, v>>)]
                       ELSE st
TextOf(st, v) == IF v < 0 /\ v + WORD < Len(st.lits) THEN st.lits[v + WORD + 1] ELSE ""

RECURSIVE Eval(_, _, _, _), EvalAll(_, _, _, _, _), Exec(_, _, _, _),
          ExecAll(_, _, _, _), Rounds(_, _, _, _), FillArray(_, _, _, _, _, _)

(* The values of a list of expressions, in order.                          *)
WithValue(prog, es, env, r, acc) == EvalAll(prog, es, env, r.st, Append(acc, r.v))
EvalAll(prog, es, env, st, acc) ==
  IF es = << >> THEN V(acc, st)
  ELSE WithValue(prog, Tail(es), env, Eval(prog, Head(es), env, st), acc)

WithCell(prog, es, env, r, at, i) ==
  FillArray(prog, es, env, [r.st EXCEPT !.cells = ((at + 4 * i) :> r.v) @@ @], at, i + 1)
FillArray(prog, es, env, st, at, i) ==
  IF es = << >> THEN st
  ELSE WithCell(prog, Tail(es), env, Eval(prog, Head(es), env, st), at, i)

EvalArray(prog, es, env, st) ==
  V(st.at, FillArray(prog, es, env, [st EXCEPT !.at = @ + 4 * Len(es) + 4], st.at, 0))

CellOf(st, base, i) == IF base + 4 * i \in DOMAIN st.cells
                       THEN st.cells[base + 4 * i] ELSE 0

Held(env, x) == IF x \in DOMAIN env THEN env[x] ELSE 0

(* A call of f: its parameters are bound to the arguments there are.       *)
Returned(r) == V(IF r.sig = "return" THEN r.v ELSE 0, r.st)
CallOf(prog, f, args) ==
  LET bound == {i \in DOMAIN f.params : i <= Len(args.v)}
      env   == [x \in {f.params[i] : i \in bound} |->
                  args.v[CHOOSE i \in bound : f.params[i] = x]]
  IN  Returned(ExecAll(prog, f.body, env, Burn(args.st)))

EvalCall(prog, e, args) ==
  LET S == {i \in DOMAIN prog.fns : prog.fns[i].name = e.s}
  IN  CASE e.s = "strlen"    -> V(Len(TextOf(args.st, args.v[1])), args.st)
        [] e.s = "print_str" -> V(0, Writes(args.st, "text", TextOf(args.st, args.v[1])))
        [] e.s = "print_hex" -> V(0, Writes(args.st, "hex", U(args.v[1])))
        [] S = {}            -> V(0, End(args.st, "halted"))
        [] OTHER             -> CallOf(prog, prog.fns[Least(S)], args)

(* An expression whose operands have the values as.v.                      *)
EvalOn(prog, e, as) ==
  CASE e.k = "cast"  -> V(IF e.s = "bool" THEN Bool(as.v[1] # 0) ELSE as.v[1], as.st)
    [] e.k = "un"    -> V(Unary(UnOpcode[e.s], as.v[1]), as.st)
    [] e.k = "bin"   -> IF Overflows(BinOpcode[e.s], as.v[1], as.v[2])
                        THEN V(0, End(as.st, "panic"))
                        ELSE V(Binary(BinOpcode[e.s], as.v[1], as.v[2]), as.st)
    [] e.k = "index" -> V(CellOf(as.st, as.v[1], as.v[2]), as.st)
    [] e.k = "field" -> V(CellOf(as.st, as.v[1], FieldIndex(prog.structs, e.s)), as.st)
    [] e.k = "call"  -> EvalCall(prog, e, as)

Eval(prog, e, env, st) ==
  LET c == {i \in DOMAIN prog.consts : prog.consts[i].name = e.s}
  IN  CASE st.end # "" -> V(0, st)
        [] e.k \in {"int", "bool"} -> V(e.n, st)
        [] e.k = "str" -> V(IndexIn(st.lits, e.s) - WORD, [st EXCEPT !.lits = AddTo(@, e.s)])
        [] e.k = "var" -> V(IF c # {} THEN prog.consts[Least(c)].value
                            ELSE Held(env, e.s), st)
        [] e.k = "array" -> EvalArray(prog, e.a, env, st)
        [] e.k = "fill"  -> EvalArray(prog, [i \in 1..e.n |-> e.a[1]], env, st)
        [] OTHER -> EvalOn(prog, e, EvalAll(prog, e.a, env, st, << >>))

(* The rest of a block, after a statement that left as r.                  *)
Onward(prog, rest, r) == IF r.sig # "next" THEN r ELSE ExecAll(prog, rest, r.env, r.st)
ExecAll(prog, body, env, st) ==
  IF body = << >> \/ st.end # "" THEN X("next", 0, env, st)
  ELSE Onward(prog, Tail(body), Exec(prog, Head(body), env, st))

(* A loop: its test, its body, and the step after it; s.e[2] and s.e[3]    *)
(* are a for loop's bound and step.                                        *)
Reaches(s, env, b) == V(Binary(BinOpcode[s.m[1]], env[s.s], b.v), b.st)
Test(prog, s, env, st) ==
  CASE s.k = "loop"  -> V(1, st)
    [] s.k = "while" -> Eval(prog, s.e[1], env, st)
    [] s.k = "for"   -> Reaches(s, env, Eval(prog, s.e[2], env, st))

Stepped(prog, s, env, step) ==
  Rounds(prog, s, (s.s :> Wrap(env[s.s] + step.v)) @@ env, step.st)
AfterRound(prog, s, r) ==
  IF r.sig = "return" \/ r.st.end # "" THEN r
  ELSE IF r.sig = "break" THEN X("next", 0, r.env, r.st)
  ELSE IF s.k # "for" THEN Rounds(prog, s, r.env, r.st)
  ELSE Stepped(prog, s, r.env, Eval(prog, s.e[3], r.env, r.st))
Round(prog, s, env, t) ==
  IF t.v = 0 \/ t.st.end # "" THEN X("next", 0, env, t.st)
  ELSE AfterRound(prog, s, ExecAll(prog, s.b[1], env, Burn(t.st)))
Rounds(prog, s, env, st) == Round(prog, s, env, Test(prog, s, env, st))

(* The arms of a match whose pattern fits.                                 *)
ArmsFor(s, v, st) ==
  {i \in DOMAIN s.m : \/ s.m[i].t = "_" \/ (s.m[i].t = "INT" /\ s.m[i].n = v)
                      \/ (s.m[i].t = "STR" /\ s.m[i].s = TextOf(st, v))}

(* A statement whose expression has the value r.v.  A match takes the      *)
(* first arm that fits.                                                    *)
ExecOn(prog, s, env, r) ==
  LET arms == ArmsFor(s, r.v, r.st)
      go(x) == X("next", 0, env, x)
      op == BinOpcode[s.m[1]]
  IN  CASE s.k \in {"let", "assign", "letarr"} -> X("next", 0, (s.s :> r.v) @@ env, r.st)
        [] s.k = "compound" ->
             IF Overflows(op, Held(env, s.s), r.v) THEN go(End(r.st, "panic"))
             ELSE X("next", 0, (s.s :> Binary(op, Held(env, s.s), r.v)) @@ env, r.st)
        [] s.k = "print" -> go(IF s.e[1].k = "str" THEN Writes(r.st, "text", s.e[1].s)
                               ELSE Writes(r.st, "num", r.v))
        [] s.k = "return" -> X("return", r.v, env, r.st)
        [] s.k = "expr"   -> go(r.st)
        [] s.k = "assert" -> go(IF r.v # 0 \/ r.st.end # "" THEN r.st
                                ELSE End(Writes(r.st, "assert", s.s), "halted"))
        [] s.k = "if"     -> ExecAll(prog, s.b[IF r.v # 0 THEN 1 ELSE 2], env, r.st)
        [] s.k = "for"    -> Rounds(prog, s, (s.s :> r.v) @@ env, r.st)
        [] s.k = "match"  -> IF arms = {} \/ r.st.end # "" THEN go(r.st)
                             ELSE ExecAll(prog, s.b[Least(arms)], env, r.st)

(* a[i] = e, with the values of e and i, evaluated in that order.          *)
CellSet(s, env, as) ==
  X("next", 0, env, [as.st EXCEPT !.cells =
                       ((Held(env, s.s) + 4 * as.v[2]) :> as.v[1]) @@ @])

Exec(prog, s, env, st) ==
  CASE s.k = "assignidx" ->
         CellSet(s, env, EvalAll(prog, <<s.e[2], s.e[1]>>, env, st, << >>))
    [] s.k = "unsafe" -> ExecAll(prog, s.b[1], env, st)
    [] s.k = "asm"    -> X("next", 0, env, st)
    [] s.k \in {"while", "loop"} -> Rounds(prog, s, env, st)
    [] s.k \in {"break", "breakval"} -> X("break", 0, env, st)
    [] s.k = "continue" -> X("continue", 0, env, st)
    [] OTHER -> ExecOn(prog, s, env, Eval(prog, s.e[1], env, st))

(* The run of a source's main.                                             *)
RunOfMain(prog, fuel) ==
  LET m == CHOOSE i \in DOMAIN prog.fns : prog.fns[i].name = "main"
  IN  End(ExecAll(prog, prog.fns[m].body, << >>, MeaningStart(fuel)).st, "halted")
Meaning(source, fuel) == RunOfMain(ParseProgram(source).prog, fuel)
============================================================================
