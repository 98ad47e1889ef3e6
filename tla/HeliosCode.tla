----------------------------- MODULE HeliosCode -----------------------------
(***************************************************************************)
(* The back end of the Helios compiler (rust_lib/src/helios.rs, sections 7 *)
(* and 8): bytecode for a parsed program, the RXE image around it, and     *)
(* where a disassembler finds the instructions.                            *)
(*                                                                         *)
(* Code is a sequence of cells, one per byte: the opcode's cell [op, v]    *)
(* holds its operand, the operand's bytes follow as Filler.  An address is *)
(* the number of cells before it.                                          *)
(***************************************************************************)
EXTENDS HeliosSyntax

ImmBytes(op) ==
  CASE op \in {"Push", "LoadLocal", "StoreLocal", "Jmp", "Jz", "Jnz", "Call"} -> 4
    [] op = "PushStr" -> 2
    [] op \in {"LoadReg", "StoreReg", "AsmInt", "Library"} -> 1
    [] OTHER -> 0

Filler == [op |-> "..", v |-> 0]

---------------------------------------------------------------------------
(* Emitter state em: the code, the string pool, the names of the current   *)
(* function's locals, the functions' addresses, the calls to patch, and    *)
(* the enclosing loops with the jumps that leave or continue each.         *)

EmitterStart == [code |-> << >>, pool |-> << >>, locals |-> << >>,
                 fns |-> << >>, calls |-> {}, loops |-> << >>]

Addr(em)          == Len(em.code)
EmitOp(em, op, v) == [em EXCEPT !.code = @ \o <<[op |-> op, v |-> v]>>
                                           \o [i \in 1..ImmBytes(op) |-> Filler]]
Emit(em, op)      == EmitOp(em, op, 0)
Patch(em, at, v)  == [em EXCEPT !.code[at + 1].v = v]
PatchAll(em, S, v) ==
  [em EXCEPT !.code = [i \in DOMAIN @ |-> IF i - 1 \in S
                                          THEN [@[i] EXCEPT !.v = v] ELSE @[i]]]

IndexIn(seq, x) == IF Contains(seq, x)
                   THEN (CHOOSE i \in DOMAIN seq : seq[i] = x) - 1 ELSE Len(seq)
AddTo(seq, x)   == IF Contains(seq, x) THEN seq ELSE Append(seq, x)

(* add_const: a text is pooled once.                                       *)
EmitStr(em, text) ==
  EmitOp([em EXCEPT !.pool = AddTo(@, text)], "PushStr", IndexIn(em.pool, text))

(* local: a name has one slot in its function, given at its first mention, *)
(* whatever block that is in.                                              *)
EmitLocal(em, op, name) ==
  EmitOp([em EXCEPT !.locals = AddTo(@, name)], op, IndexIn(em.locals, name))

(* The index of a field is its place in the first struct that has one of   *)
(* that name; an unknown field is the first.                               *)
FieldIndex(structs, field) ==
  LET having == {i \in DOMAIN structs : Contains(structs[i].fields, field)}
  IN  IF having = {} THEN 0 ELSE IndexIn(structs[Least(having)].fields, field)

BinOpcode ==
  "+" :> "Add" @@ "-" :> "Sub" @@ "*" :> "Mul" @@ "/" :> "Div" @@ "%" :> "Mod"
  @@ "==" :> "CmpEq" @@ "!=" :> "CmpNe" @@ "<" :> "CmpLt" @@ "<=" :> "CmpLe"
  @@ ">" :> "CmpGt" @@ ">=" :> "CmpGe" @@ "&&" :> "And" @@ "||" :> "Or"
  @@ "&" :> "BAnd" @@ "|" :> "BOr" @@ "^" :> "BXor" @@ "<<" :> "Shl" @@ ">>" :> "Shr"
UnOpcode == "-" :> "Neg" @@ "!" :> "Not" @@ "~" :> "BNot"

AsmOpcode ==
  "cli" :> "AsmCli" @@ "sti" :> "AsmSti" @@ "nop" :> "AsmNop" @@ "hlt" :> "AsmHlt"
  @@ "pushfd" :> "AsmPushfd" @@ "popfd" :> "AsmPopfd" @@ "lidt" :> "AsmLidt"
  @@ "lgdt" :> "AsmLgdt" @@ "wbinvd" :> "AsmWbinvd" @@ "invlpg" :> "AsmInvlpg"
  @@ "get_cr2" :> "GetCr2" @@ "clts" :> "AsmClts"

(* An unknown instruction is a nop; the number of an int is left out.      *)
EmitAsm(em, text) ==
  IF text \in DOMAIN AsmOpcode THEN Emit(em, AsmOpcode[text])
  ELSE IF Len(text) > 4 /\ SubSeq(text, 1, 4) = "int " THEN Emit(em, "AsmInt")
  ELSE Emit(em, "AsmNop")

(* The intrinsics by name and number of arguments; a name with another     *)
(* number is a call like any other.  The effects need a value after them.  *)
ValueIntrinsics ==
  <<"peek8", 1>> :> "Peek8" @@ <<"peek16", 1>> :> "Peek16"
  @@ <<"peek32", 1>> :> "Peek32" @@ <<"strlen", 1>> :> "StrLen"
  @@ <<"strsub", 3>> :> "StrSub" @@ <<"stoi", 1>> :> "StrToInt"
  @@ <<"char_code", 1>> :> "StrByte" @@ <<"ord", 1>> :> "StrByte"
  @@ <<"malloc", 1>> :> "HeapAlloc" @@ <<"alloc", 1>> :> "HeapAlloc"
  @@ <<"in8", 1>> :> "In8" @@ <<"in16", 1>> :> "In16" @@ <<"in32", 1>> :> "In32"
  @@ <<"get_ticks", 0>> :> "GetTicks" @@ <<"poll_scancode", 0>> :> "PollScancode"
EffectIntrinsics ==
  <<"poke8", 2>> :> "Poke8" @@ <<"poke16", 2>> :> "Poke16"
  @@ <<"poke32", 2>> :> "Poke32" @@ <<"free", 1>> :> "HeapFree"
  @@ <<"out8", 2>> :> "Out8" @@ <<"out16", 2>> :> "Out16"
  @@ <<"out32", 2>> :> "Out32" @@ <<"sleep_ms", 1>> :> "SleepMs"
  @@ <<"pit_set_hz", 1>> :> "PitSetHz" @@ <<"print_char", 1>> :> "PrintChar"
  @@ <<"print_str", 1>> :> "PrintStr" @@ <<"memcpy", 3>> :> "MemCpy"
  @@ <<"memset", 3>> :> "MemSet" @@ <<"print_hex", 1>> :> "PrintHex"

(* peek(a, 32) and poke(a, v, 32) name their width by a literal.           *)
SizedIntrinsic(e) ==
  LET n == Len(e.a)
      w == e.a[n].n
  IN  IF \/ <<e.s, n>> \notin {<<"peek", 2>>, <<"poke", 3>>}
         \/ e.a[n].k # "int" \/ w \notin {8, 16, 32}
      THEN "" ELSE (IF e.s = "peek" THEN "Peek" ELSE "Poke")
                   \o CASE w = 8 -> "8" [] w = 16 -> "16" [] w = 32 -> "32"

(* The calls of the prp and fetch libraries by their number of arguments.  *)
LibraryArgs ==
  "get" :> {1} @@ "https_get" :> {1} @@ "active" :> {0} @@ "test_https" :> {0}
  @@ "selftest" :> {0} @@ "random_bytes" :> {2} @@ "sha256_file" :> {2}
  @@ "seal_file" :> {3} @@ "open_file" :> {3} @@ "seal_text" :> {3}
  @@ "fingerprint" :> {2} @@ "keygen" :> {1} @@ "sign" :> {2} @@ "verify" :> {1, 2}
  @@ "seal_file_pub" :> {3} @@ "open_file_prv" :> {3} @@ "seal_text_pub" :> {3}

IsLibraryCall(prog, e) ==
  /\ e.s \in DOMAIN LibraryArgs /\ Len(e.a) \in LibraryArgs[e.s]
  /\ \E ns \in {"prp", "fetch"} : e.s \in CallsOf(ns) /\ Imported(prog.imp, ns, e.s)

RECURSIVE EmitExpr(_, _, _), EmitExprs(_, _, _), EmitStores(_, _, _, _)

EmitExprs(em, prog, es) ==
  IF es = << >> THEN em ELSE EmitExprs(EmitExpr(em, prog, Head(es)), prog, Tail(es))

(* Array elements from index i on, under the array's address.              *)
EmitStores(em, prog, es, i) ==
  IF es = << >> THEN em
  ELSE LET val == EmitExpr(Emit(em, "Dup"), prog, Head(es))
       IN  EmitStores(Emit(EmitOp(val, "Push", i), "ArrStore"), prog, Tail(es), i + 1)

EmitArray(em, prog, es) ==
  EmitStores(Emit(EmitOp(em, "Push", Len(es) * 4), "HeapAlloc"), prog, es, 0)

(* emit_intrinsic_call, and the call of a function of the program.         *)
EmitCall(em, prog, e) ==
  LET key   == <<e.s, Len(e.a)>>
      sized == SizedIntrinsic(e)
      args  == EmitExprs(em, prog, e.a)
      fewer == EmitExprs(em, prog, Front(e.a))
      spop(x) == Emit(Emit(x, "Swap"), "Pop")
      push  == EmitOp(args, "Push", Len(e.a))
  IN  CASE IsLibraryCall(prog, e) -> EmitOp(args, "Library", Len(e.a))
        [] key \in DOMAIN ValueIntrinsics  -> Emit(args, ValueIntrinsics[key])
        [] key \in DOMAIN EffectIntrinsics ->
             EmitOp(Emit(args, EffectIntrinsics[key]), "Push", 0)
        [] e.s = "peek" /\ sized # "" -> Emit(fewer, sized)
        [] e.s = "poke" /\ sized # "" -> EmitOp(Emit(fewer, sized), "Push", 0)
        [] key = <<"cpuid", 1>> -> spop(spop(spop(Emit(args, "Cpuid"))))
        [] OTHER -> [EmitOp(push, "Call", 0) EXCEPT !.calls = @ \cup {<<Addr(push), e.s>>}]

EmitExpr(em, prog, e) ==
  LET sub(i) == EmitExpr(em, prog, e.a[i])
      const  == {i \in DOMAIN prog.consts : prog.consts[i].name = e.s}
  IN  CASE e.k \in {"int", "bool"} -> EmitOp(em, "Push", e.n)
        [] e.k = "str"   -> EmitStr(em, e.s)
        [] e.k = "var"   -> IF const # {}
                            THEN EmitOp(em, "Push", prog.consts[Least(const)].value)
                            ELSE EmitLocal(em, "LoadLocal", e.s)
        [] e.k = "addr"  -> EmitLocal(em, "Push", e.s)
        [] e.k = "deref" -> Emit(sub(1), "Peek32")
        [] e.k = "input" -> Emit(em, "Input")
        [] e.k = "asm"   -> EmitOp(EmitAsm(em, e.s), "Push", 0)
        [] e.k = "cast"  -> Emit(sub(1), IF e.s = "bool" THEN "CastBool" ELSE "CastInt")
        [] e.k = "array" -> EmitArray(em, prog, e.a)
        [] e.k = "fill"  -> EmitArray(em, prog, [i \in 1..e.n |-> e.a[1]])
        [] e.k = "index" -> Emit(EmitExprs(em, prog, e.a), "ArrLoad")
        [] e.k = "field" ->
             Emit(EmitOp(sub(1), "Push", FieldIndex(prog.structs, e.s)), "ArrLoad")
        [] e.k = "un"    -> Emit(sub(1), UnOpcode[e.s])
        [] e.k = "bin"   -> Emit(EmitExprs(em, prog, e.a), BinOpcode[e.s])
        [] e.k = "call"  -> EmitCall(em, prog, e)

---------------------------------------------------------------------------
(* Statements.                                                             *)

RECURSIVE EmitStmt(_, _, _), EmitStmts(_, _, _), EmitArms(_, _, _, _, _)

EmitStmts(em, prog, body) ==
  IF body = << >> THEN em
  ELSE EmitStmts(EmitStmt(em, prog, Head(body)), prog, Tail(body))

LoopPush(em) == [em EXCEPT !.loops = Append(@, [brk |-> {}, cont |-> {}])]

(* loop_pop: breaks go after the loop, continues to the given address.     *)
LoopPop(em, cont) ==
  LET l == Last(em.loops)
  IN  PatchAll(PatchAll([em EXCEPT !.loops = Front(@)], l.brk, Addr(em)), l.cont, cont)

(* A jump to be patched when its loop ends; outside a loop nobody does.    *)
EmitLeave(em, which) ==
  LET j == Emit(em, "Jmp")
      n == Len(em.loops)
  IN  IF n = 0 THEN j ELSE [j EXCEPT !.loops[n][which] = @ \cup {Addr(em)}]

EmitIf(em, prog, s) ==
  LET c    == EmitExpr(em, prog, s.e[1])
      then == EmitStmts(Emit(c, "Jz"), prog, s.b[1])
      jmp  == Emit(then, "Jmp")
      else == EmitStmts(Patch(jmp, Addr(c), Addr(jmp)), prog, s.b[2])
  IN  Patch(else, Addr(then), Addr(else))

EmitWhile(em, prog, s) ==
  LET c    == EmitExpr(LoopPush(em), prog, s.e[1])
      body == EmitStmts(Emit(c, "Jz"), prog, s.b[1])
      back == EmitOp(body, "Jmp", Addr(em))
  IN  LoopPop(Patch(back, Addr(c), Addr(back)), Addr(body))

EmitLoop(em, prog, s) ==
  LET body == EmitStmts(LoopPush(em), prog, s.b[1])
  IN  LoopPop(EmitOp(body, "Jmp", Addr(em)), Addr(body))

EmitFor_continue_tests(em, prog, s) ==
  LET init == EmitLocal(EmitExpr(em, prog, s.e[1]), "StoreLocal", s.s)
      test == Emit(EmitExpr(EmitLocal(LoopPush(init), "LoadLocal", s.s), prog, s.e[2]),
                   BinOpcode[s.m[1]])
      body == EmitStmts(Emit(test, "Jz"), prog, s.b[1])
      bump == Emit(EmitExpr(EmitLocal(body, "LoadLocal", s.s), prog, s.e[3]), "Add")
      back == EmitOp(EmitLocal(bump, "StoreLocal", s.s), "Jmp", Addr(init))
  IN  LoopPop(Patch(back, Addr(test), Addr(back)), Addr(init))

(* The bound and the step are evaluated again in every round.              *)
EmitFor(em, prog, s) ==
  LET init == EmitLocal(EmitExpr(em, prog, s.e[1]), "StoreLocal", s.s)
      test == Emit(EmitExpr(EmitLocal(LoopPush(init), "LoadLocal", s.s), prog, s.e[2]),
                   BinOpcode[s.m[1]])
      body == EmitStmts(Emit(test, "Jz"), prog, s.b[1])
      bump == Emit(EmitExpr(EmitLocal(body, "LoadLocal", s.s), prog, s.e[3]), "Add")
      back == EmitOp(EmitLocal(bump, "StoreLocal", s.s), "Jmp", Addr(init))
  IN  LoopPop(Patch(back, Addr(test), Addr(back)), Addr(body))

(* The arms from the i-th on.  miss: the jump of the last tested arm, or   *)
(* -1; ends: the jumps out of the arms taken.  A wildcard arm has none and *)
(* runs on into the arm after it.                                          *)
EmitArms(em, prog, s, i, st) ==
  LET here  == IF st.miss < 0 THEN em ELSE Patch(em, st.miss, Addr(em))
      pat   == s.m[i]
      dup   == Emit(here, "Dup")
      test  == IF pat.t = "INT" THEN Emit(EmitOp(dup, "Push", pat.n), "CmpEq")
               ELSE Emit(EmitStr(dup, pat.s), "StrCmp")
      taken == EmitStmts(Emit(Emit(test, "Jz"), "Pop"), prog, s.b[i])
      wild  == EmitStmts(Emit(here, "Pop"), prog, s.b[i])
      miss  == Emit(here, "Pop")
      done  == IF st.miss < 0 THEN em ELSE miss
  IN  CASE i > Len(s.m) -> PatchAll(done, st.ends, Addr(done))
        [] pat.t = "_" -> EmitArms(wild, prog, s, i + 1, [st EXCEPT !.miss = -1])
        [] OTHER -> EmitArms(Emit(taken, "Jmp"), prog, s, i + 1,
                             [miss |-> Addr(test), ends |-> st.ends \cup {Addr(taken)}])

EmitStmt(em, prog, s) ==
  LET e1 == EmitExpr(em, prog, s.e[1])
  IN  CASE s.k \in {"let", "assign", "letarr"} -> EmitLocal(e1, "StoreLocal", s.s)
        [] s.k = "assignidx" ->
             Emit(EmitExprs(EmitLocal(em, "LoadLocal", s.s), prog, <<s.e[2], s.e[1]>>),
                  "ArrStore")
        [] s.k = "compound" ->
             EmitLocal(Emit(EmitExpr(EmitLocal(em, "LoadLocal", s.s), prog, s.e[1]),
                            BinOpcode[s.m[1]]), "StoreLocal", s.s)
        [] s.k = "print"  -> Emit(e1, IF s.e[1].k = "str" THEN "Print" ELSE "PrintNum")
        [] s.k = "return" -> Emit(e1, "Ret")
        [] s.k = "expr"   -> Emit(e1, "Pop")
        [] s.k = "asm"    -> EmitAsm(em, s.s)
        [] s.k = "unsafe" -> EmitStmts(em, prog, s.b[1])
        [] s.k = "assert" -> Emit(EmitStr(e1, s.s), "Assert")
        [] s.k = "if"     -> EmitIf(em, prog, s)
        [] s.k = "while"  -> EmitWhile(em, prog, s)
        [] s.k = "loop"   -> EmitLoop(em, prog, s)
        [] s.k = "for"    -> EmitFor(em, prog, s)
        [] s.k = "match"  -> EmitArms(e1, prog, s, 1, [miss |-> -1, ends |-> {}])
        [] s.k = "break"    -> EmitLeave(em, "brk")
        [] s.k = "breakval" -> EmitLeave(e1, "brk")
        [] s.k = "continue" -> EmitLeave(em, "cont")

(* The parameters are the first locals; every function ends in return 0.   *)
EmitFn(em, prog, f) ==
  LET start == [em EXCEPT !.locals = FoldLeft(AddTo, << >>, f.params),
                          !.fns = Append(@, [name |-> f.name, addr |-> Addr(em)])]
  IN  Emit(EmitOp(EmitStmts(start, prog, f.body), "Push", 0), "Ret")

RECURSIVE EmitFns(_, _, _)
EmitFns(em, prog, fns) ==
  IF fns = << >> THEN em ELSE EmitFns(EmitFn(em, prog, Head(fns)), prog, Tail(fns))

(* patch_calls: a name without an address calls the largest one.           *)
AddressOf(fns, name) ==
  LET S == {i \in DOMAIN fns : fns[i].name = name}
  IN  IF S = {} THEN WORD ELSE fns[Least(S)].addr

Linked(em) ==
  LET call(i) == {c \in em.calls : c[1] = i - 1}
  IN  [code  |-> [i \in DOMAIN em.code |->
                    IF call(i) = {} THEN em.code[i]
                    ELSE [em.code[i] EXCEPT
                            !.v = AddressOf(em.fns, (CHOOSE c \in call(i) : TRUE)[2])]],
       pool  |-> em.pool,
       fns   |-> em.fns,
       entry |-> LET a == AddressOf(em.fns, "main") IN IF a = WORD THEN 0 ELSE a]
EmitProgram(prog) == Linked(EmitFns(EmitterStart, prog, prog.fns))

---------------------------------------------------------------------------
(* RXE images: a header and tagged sections, of which the last may be cut  *)
(* short.                                                                  *)

RXE_VERSION == 6

PackRxe(image) ==
  [magic |-> TRUE, version |-> RXE_VERSION, arch |-> TRUE, entry |-> image.entry,
   sections |-> <<[tag |-> "code", whole |-> TRUE, body |-> image.code],
                  [tag |-> "data", whole |-> TRUE, body |-> image.pool],
                  [tag |-> "end",  whole |-> TRUE, body |-> << >>]>>]

RxeValidate(rxe) == rxe.magic /\ rxe.version \in {5, RXE_VERSION} /\ rxe.arch

LoadRxe_all(rxe) ==
  LET body(t) == LET S == {i \in DOMAIN rxe.sections : rxe.sections[i].tag = t}
                 IN  IF S = {} THEN << >>
                     ELSE rxe.sections[CHOOSE i \in S : \A j \in S : j <= i].body
  IN  [code |-> body("code"), pool |-> body("data"), entry |-> rxe.entry]

(* The section scan stops at the end tag or at a section cut short; what   *)
(* was not met is empty.                                                   *)
LoadRxe(rxe) ==
  LET stop   == Least({i \in DOMAIN rxe.sections :
                         rxe.sections[i].tag = "end" \/ ~rxe.sections[i].whole}
                      \cup {Len(rxe.sections) + 1})
      body(t) == LET S == {i \in 1..stop - 1 : rxe.sections[i].tag = t}
                 IN  IF S = {} THEN << >>
                     ELSE rxe.sections[CHOOSE i \in S : \A j \in S : j <= i].body
  IN  [code |-> body("code"), pool |-> body("data"), entry |-> rxe.entry]

(* disasm_rxe: where the instructions begin, read from the start.          *)
RECURSIVE DisasmFrom(_, _)
DisasmFrom(code, pc) ==
  IF pc >= Len(code) THEN {}
  ELSE {pc} \cup DisasmFrom(code, pc + 1 + ImmBytes(code[pc + 1].op))
Disasm(code) == DisasmFrom(code, 0)

(* helios_compile: an image, or none when the parser reported an error.    *)
CompileParsed(r) ==
  IF r.hang \/ Errors(r.dg) # {} THEN << >>
  ELSE <<PackRxe(EmitProgram([consts |-> r.prog.consts, fns |-> r.prog.fns,
                              structs |-> r.prog.structs, imp |-> r.imp]))>>
Compile(src) == CompileParsed(ParseProgram(src))
============================================================================
