------------------------------ MODULE MCHelios ------------------------------
(* Helios programs for model checking: one or more per construct of the    *)
(* language, and the repository's own test programs.                       *)
EXTENDS HeliosShell

(* Programs whose meaning is given by HeliosMeaning: no devices, no input. *)
PureSnippets ==
  {"let x = 2; x += 3 * 4; print(x - 1);",
   "let i = 0; while (i < 3) { i += 1; if (i == 2) { continue; } print(i); }",
   "for i in 0..4 step 2 { for j in i..=3 { if (j == 2) { continue; } if (j == 1) { break; } print(j); } }",
   "let a = [5, 6, 7]; a[1] = a[0] * a[2]; let b[2] = [1; 2]; print(a[1] + b[1]);",
   "let s = \"hi\"; match s { \"no\" => { print(0); } \"hi\" => { print(1); } } print(strlen(s));",
   "for i in 0..3 { match i { 0 => { print(10); } 2 => { let k = i * 7; print(k); } _ => { print(9); } } }",
   "let i = 0; loop { i += 1; if (i > 2) { break; } else { print(i); } } print(\"end\");",
   "let x = -7 / 2; print(x); print(-7 % 3); print(!x); print(~x); print((5 as bool) && true);",
   "let x = 32767; x += 1; print(x); print(x / -1); print(1);",
   "assert!(1 < 2, \"no\"); let y = 1 << 3 | 2; print(y ^ 3 & 6); assert!(y == 0, \"bad\"); print(0);",
   "loop { let x = 1; }"}

PurePrograms ==
  {"fn fib(n: int) -> int { if (n < 2) { return n; } return fib(n + -1) + fib(n + -2); } fn main() { print(fib(3)); }",
   "const K: int = 3; struct P { int x, int y } fn sum(p: int) -> int { return p.x + p.y; } fn main() { let p = new P { x: K, y: 4 }; print(sum(p)); }",
   "fn add(int a, int b) -> int { let c = a; c += b; return c; } fn twice(int a) { print(a); print(a * 2); } fn main() { let t = add(add(1, 2), 3); twice(t); print(t); }"}

(* Devices, memory, input, libraries, and how a run fails.                 *)
HardSnippets ==
  {"let p = malloc(8); poke32(p, 70000); print(peek8(p)); free(p); print(peek32(p));",
   "let v = input(); print_str(v); print(stoi(v)); print(ord(\"A\")); print_str(strsub(\"hello\", 1, 9));",
   "let k = poll_scancode(); out8(96, k); print_char(in8(96)); sleep_ms(1); assert!(k == 0);",
   "unsafe { asm!(\"pushfd\"); asm!(\"popfd\"); asm!(\"int 3\"); } print_hex(cpuid(0) + get_ticks());",
   "let a = 1; let p = &a; memset(p, 0, 4); memcpy(p, p, 4); poke(p, 5, 16); print(*p); print(peek(p, 16));"}

HardPrograms ==
  {"using::fetch::*; fn main() { let b = active(); print(b); }",
   "fn f(int n) -> int { return f(n + 1); } fn main() { print(f(0)); }",
   "fn main() { malloc(1, 2); print(1); }"}

MCComparable == PureSnippets \cup PurePrograms
MCSnippets == PureSnippets \cup PurePrograms \cup HardSnippets \cup HardPrograms

(* The files: a program with an include, its library, one that includes    *)
(* itself.                                                                 *)
LibText  == "fn inc(int a) -> int { return a + 1; }"
MCFiles  == "a.hls" :> <<Include("lib.hls"), Line("fn main() { print(inc(1)); print(inc(5)); }")>>
            @@ "b.hls" :> <<Line("fn main() { print(2); }")>>
            @@ "c.hls" :> <<Line("struct P { int x } fn main() { let p = new P { x: 3 }; let c[2] = [0; 2]; c[1] = -p.x; for i in 0..=2 step 2 { match i { 0 => { continue; } _ => { p += 1; break; } } } return -p; }")>>
            @@ "d.hls" :> <<Line("fn main() { let p = input(); if (!(p[1] == ~1 - 5 * 2) && true) { unsafe { asm!(\"nop\"); } } else if (*p > 0) { loop { break 1; } } }")>>
            @@ "e.hls" :> <<Line("fn main() { let b = 1 + 2 as bool; while (b < 0) { print_hex(&b); } assert!(b == 1, \"no b\"); }")>>
            @@ "f.hls" :> <<Line("fn f(int a, int b) { print(a - (b - -3)); print(-a * !~-b); } fn main() { f(-(1 + 2), 2); }")>>
            @@ "h.hls" :> <<Line("fn main() { let b = 1; let c = [--4, (&b)[0]]; c[1] -= *c[1]; print(c); }")>>
            @@ "g.hls" :> <<Line("fn main() { let b = 0x7f as bool; match b { -1 => { print(\"a\tb // c\"); } \"it's\" => { return '\\x41'; } } }")>>
            @@ "lib.hls" :> <<Line(LibText)>>
            @@ "self.hls" :> <<Include("self.hls"), Include("gone.hls"), Line("fn main() { }")>>
(* What helios fmt does not print as it was: operands of casts, prefixes   *)
(* below an index, escaped texts, and constants.                           *)
KnownFiles ==
  "cast.hls" :> <<Line("fn main() { print((5 as bool) && true); }")>>
  @@ "deref.hls" :> <<Line("fn main() { let p = [1]; print((*p)[0]); }")>>
  @@ "text.hls" :> <<Line("fn main() { print(\"say \\\"hi\\\"\"); }")>>
  @@ "const.hls" :> <<Line("const K: int = 3; fn main() { print(K); }")>>

NoFiles    == << >>
MCOutputs  == "a.hls" :> "x.rxe" @@ "b.hls" :> "x.rxe"
MCStripped == "x.rxe" :> "x_stripped.rxe"

Case(label, fails, source, ops) ==
  [label |-> label, fails |-> fails, clean |-> SubSeq(label, 1, 2) = "OK",
   source |-> source, ops |-> ops]

(* DIAG_TESTS: label, whether an error is expected, source, opcodes.       *)
DiagTests ==
  {Case("E001 - top-level code", TRUE,
        "let x = 5;", {}),
   Case("E002 - no main", TRUE,
        "fn helper() -> void { }", {}),
   Case("E003 - duplicate function", TRUE,
        "fn main() -> void { } fn main() -> void { }", {}),
   Case("E004 - duplicate struct", TRUE,
        "struct Vec2 { int x, int y } struct Vec2 { int a } fn main() -> void { }", {}),
   Case("E005 - unexpected token", TRUE,
        "fn main() -> void { if true { } }", {}),
   Case("E006 - missing semicolon", TRUE,
        "fn main() -> void { let x = 1 }", {}),
   Case("E007 - unexpected token in expr", TRUE,
        "fn main() -> void { let x = }; }", {}),
   Case("E009 - undefined function", TRUE,
        "fn main() { missing_helper(); }", {}),
   Case("E010 - missing variable name", TRUE,
        "fn main() -> void { let = 5; }", {}),
   Case("E020 - missing loop variable", TRUE,
        "fn main() -> void { for in 0..5 { } }", {}),
   Case("E021 - missing 'in' keyword", TRUE,
        "fn main() -> void { for i 0..5 { } }", {}),
   Case("E022 - missing range operator", TRUE,
        "fn main() -> void { for i in 0 5 { } }", {}),
   Case("E050 - break outside loop", TRUE,
        "fn main() -> void { break; }", {}),
   Case("E051 - continue outside loop", TRUE,
        "fn main() -> void { continue; }", {}),
   Case("W101 - side-effect-free expression", FALSE,
        "fn main() -> void { 42; }", {}),
   Case("W201 - constant condition", FALSE,
        "fn main() -> void { if (true) { } }", {}),
   Case("W202 - loop without break", FALSE,
        "fn main() -> void { loop { let x = 1; } }", {}),
   Case("W301 - deep nesting", FALSE,
        "fn main() -> void { if (1==1) { if (1==1) { if (1==1) { if (1==1) { if (1==1) { let x = 0; } } } } } }", {}),
   Case("W302 - unreachable code after return", FALSE,
        "fn main() -> void { return 0; let dead = 1; }", {}),
   Case("W303 - empty block", FALSE,
        "fn main() -> void { if (1==1) { } }", {}),
   Case("W401 - non-void fn without return", FALSE,
        "fn add(int a, int b) -> int { let c = a; }  fn main() -> void { }", {}),
   Case("W501 - unused function", FALSE,
        "fn unused_helper() -> void { let x = 1; }  fn main() -> void { }", {}),
   Case("W502 - unused variable", FALSE,
        "fn main() -> void { let unused = 99; }", {}),
   Case("W601 - large array literal", FALSE,
        "fn main() -> void { let big = [1; 300]; }", {}),
   Case("OK  - let mut accepted", FALSE,
        "fn main() -> void { let mut x = 5; x += 1; }", {}),
   Case("OK  - char literal", FALSE,
        "fn main() -> void { let c = 'A'; print(c); }", {}),
   Case("OK  - for step", FALSE,
        "fn main() -> void { for i in 0..10 step 2 { print(i); } }", {}),
   Case("OK  - match str arm", FALSE,
        "fn main() -> void { let s = \"hello\"; match s { \"hello\" => { print(1); } _ => { print(0); } } }", {}),
   Case("OK  - struct + field access", FALSE,
        "struct Vec2 { int x, int y }  fn main() -> void { let v = new Vec2 { x: 3, y: 4 }; print(v.x); }", {}),
   Case("OK  - omit -> void", FALSE,
        "fn greet() { print(42); } fn main() { greet(); }", {}),
   Case("OK  - colon-typed parameters", FALSE,
        "fn draw(x: int, y: int) { print(x); print(y); } fn main() { draw(1, 2); }", {}),
   Case("OK  - memory intrinsic lowering", FALSE,
        "fn main() { let value = peek32(0xB8000); poke8(0xB8000, value); let word = peek(0xB8000, 16); poke(0xB8000, word, 16); memcpy(0x2000, 0x3000, 4); memset(0x2000, 0, 4); print_hex(value); let letter = char_code(\"A\"); print(letter); }", {"Peek32", "Poke8", "Peek16", "Poke16", "MemCpy", "MemSet", "PrintHex", "StrByte"}),
   Case("OK  - hardware and input intrinsics", FALSE,
        "fn main() { let status = in8(0x64); out8(0x60, status); let ticks = get_ticks(); sleep_ms(1); pit_set_hz(100); let cpuid_leaf = cpuid(0); print_char(cpuid_leaf); print_str(input()); let key = poll_scancode(); }", {"In8", "Out8", "GetTicks", "SleepMs", "PitSetHz", "Cpuid", "PrintChar", "PrintStr", "Input", "PollScancode"}),
   Case("OK  - PRP individual import", FALSE,
        "using::prp::keygen; fn main() { let result = keygen(\"/tmp/helios_key\"); print(result); }", {"Library"}),
   Case("OK  - PRP wildcard import", FALSE,
        "using::prp::*; fn main() { let result = selftest(); print(result); }", {"Library"}),
   Case("OK  - fetch individual import", FALSE,
        "using::fetch::get; fn main() { let status = get(\"https://example.com/\"); print(status); }", {"Library"}),
   Case("OK  - fetch wildcard import", FALSE,
        "using::fetch::*; fn main() { let busy = active(); print(busy); }", {"Library"}),
   Case("OK  - VGA text renderer syntax", FALSE,
        "const VGA_MEM: int = 0xB8000; const ROWS: int = 50; fn make_cell(ch: int, color: int) -> int { return ch | (color << 8); } fn write_vga(x: int, y: int, cell: int) { let addr = VGA_MEM + ((y * 80 + x) * 2); unsafe { poke16(addr, cell); } } fn clear_screen(bg: int) { let blank = make_cell(32, bg); for y in 0..ROWS { for x in 0..80 { write_vga(x, y, blank); } } } fn main() { clear_screen(7); }", {}),
   Case("OK  - const definition", FALSE,
        "const MAX: int = 100; fn main() -> void { print(MAX); }", {}),
   Case("OK  - assert passes", FALSE,
        "fn main() -> void { assert!(1 == 1); }", {}),
   Case("OK  - assert with msg", FALSE,
        "fn main() -> void { assert!(1 > 0, \"should be positive\"); }", {}),
   Case("E013 - duplicate const", TRUE,
        "const X: int = 1; const X: int = 2; fn main() -> void { }", {}),
   Case("W603 - useless unsafe block", FALSE,
        "fn main() -> void { unsafe { let x = 5; } }", {}),
   Case("W604 - asm outside unsafe", FALSE,
        "fn main() -> void { asm!(\"nop\"); }", {})}

(* The ones a run of the other commands includes.                          *)
FewTests == {t \in DiagTests : SubSeq(t.label, 1, 3) \in {"E00", "W10"} /\ t.label # "E005 - unexpected token"}
============================================================================
