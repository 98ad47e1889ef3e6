------------------------------- MODULE MCRsh -------------------------------
(***************************************************************************)
(* Scripts for TLC: each file is a short program that drives a group of    *)
(* the interpreter's paths against each other.                             *)
(***************************************************************************)
EXTENDS Rsh

L(op)          == [op |-> op]
Set(n, v)      == [op |-> "set", name |-> n, val |-> v]
Unset(n)       == [op |-> "unset", name |-> n]
For(n)         == [op |-> "for", name |-> n]
With(m)        == [op |-> "with", map |-> m]
Def(kw, n)     == [op |-> kw, name |-> n]
Call(n, args)  == [op |-> "call", name |-> n, args |-> args]
Named(n)       == [op |-> "named", name |-> n, args |-> << >>]
Drop(n)        == [op |-> "drop", name |-> n]
Once(t, l)     == [op |-> "once", tag |-> t, cmd |-> l]
Repeat(l)      == [op |-> "repeat", cmd |-> l]
Either(l, m)   == [op |-> "inline", cmd |-> l, alt |-> m]
Exit(c)        == [op |-> "exit", code |-> c]
Include(f)     == [op |-> "include", file |-> f]

(* Nested loops left by break, continue, return and failing lines.         *)
Loops1 == <<L("while"),
              For("i"), Either(L("break"), L("continue")), L("endfor"),
              With("m"), Either(L("break"), L("fails")), L("endwith"),
              L("if"), Either(L("continue"), Exit(Ok)), L("endif"),
            L("endwhile"),
            Repeat(Either(L("continue"), L("quiet")))>>

(* main calls functions that loop, fail, exit and call each other.         *)
Calls1 == <<L("entrypoint"),
            Def("function", "main"),
              Set("a", "x"), Call("f", <<"x">>), For("i"), Named("g"),
              L("endfor"),
            L("endfunction"),
            Def("function", "f"),
              Either(Named("g"), Named("f")), L("allowedRecursive"),
            L("endfunction"),
            Def("ont", "g"), Either(L("break"), Exit(Fail)), L("endfunction")>>

(* Definitions in the middle of a run, drops and redefinitions.            *)
Defs1 == <<Def("def", "f"), Set("b", "y"), L("quiet"), L("enddef"),
           Named("f"),
           Def("function", "f"), Named("g"), L("endfunction"),
           Def("function", "g"), L("quiet"), L("quiet"), L("endfunction"),
           Either(Drop("f"), Drop("g")),
           Once("t", Named("f")), Once("u", Unset("b")), Call("g", << >>)>>

(* Arms that break, and words of the language where they do not belong.    *)
Switch1 == <<For("i"),
               L("switch"),
                 L("case"), L("quiet"), L("break"), L("endcase"),
                 L("quiet"),
                 L("default"), L("continue"), L("endcase"),
                 L("case"), L("return"), L("endcase"),
               L("endswitch"),
             L("endfor"),
             L("if"), L("quiet"), L("else"), L("quiet"), L("endif"),
             L("default")>>

(* A continue kept by a repeat that then returns, and an arm that is not   *)
(* closed after a default that breaks: the loop is left with flags set.    *)
Leaks1 == <<L("while"), Repeat(Either(L("continue"), L("return"))), L("endwhile")>>
Leaks2 == <<L("while"),
              L("switch"), L("default"), L("break"), L("endcase"), L("case"),
              L("endswitch"),
            L("endwhile")>>

(* Two files that include each other.                                      *)
Outer1 == <<Include("inner"), Def("function", "f"), L("quiet"),
            L("endfunction"), Set("c", "z")>>
Inner1 == <<Include("outer"), L("quiet"), Named("f")>>

(* Blocks that are not closed, an elif, a stray end, no main, and a        *)
(* function that drops itself while it runs.                               *)
Broken(k) == CASE k = "if"     -> <<L("if"), L("elif"), L("endif")>>
               [] k = "while"  -> <<L("while"), L("quiet")>>
               [] k = "switch" -> <<L("switch"), L("quiet")>>
               [] k = "case"   -> <<L("switch"), L("case"), L("endswitch")>>
               [] k = "def"    -> <<L("quiet"), Def("def", "f"), L("quiet")>>
               [] k = "nested" -> <<Def("function", "g"), Def("def", "f"),
                                    L("endfunction"), Named("g")>>
               [] k = "stray"  -> <<L("endif"), Def("function", "f"), Drop("f"),
                                    L("quiet"), L("endfunction"), Named("f")>>
               [] k = "main"   -> <<L("entrypoint")>>

MCFiles ==
  [f \in {"loops", "calls", "defs", "switch", "outer", "inner"} |->
     CASE f = "loops" -> Loops1 [] f = "calls" -> Calls1
       [] f = "defs" -> Defs1 [] f = "switch" -> Switch1
       [] f = "outer" -> Outer1 [] f = "inner" -> Inner1]
  @@ [f \in {"if", "while", "switch2", "case", "def", "nested", "stray",
         "main"} |->
     Broken(IF f = "switch2" THEN "switch" ELSE f)]
  @@ [f \in {"leaks1", "leaks2"} |-> IF f = "leaks1" THEN Leaks1 ELSE Leaks2]

MCPrompt == {L("break"), Call("g", <<"x", "x">>), Drop("main"), Set("a", "x")}

(* The lines of the files, of the prompt, and the commands inside them.    *)
Inside(lines) ==
  lines \cup {l.cmd : l \in {m \in lines : m.op \in {"inline", "once", "repeat"}}}
        \cup {l.alt : l \in {m \in lines : m.op = "inline"}}

MCLines ==
  Inside(Inside(UNION {Range(MCFiles[f]) : f \in DOMAIN MCFiles}
                \cup MCPrompt \cup {Blank}))
============================================================================
