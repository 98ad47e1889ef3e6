----------------------------- MODULE HeliosShell ----------------------------
(***************************************************************************)
(* The helios command (rust_lib/src/helios.rs, sections 10 to 16): sources *)
(* with include lines are read from the disk, compiled, written as images, *)
(* merged, formatted, and run on the machine of HeliosVm.                  *)
(*                                                                         *)
(* A source file is a sequence of lines [inc, text]: an include of the     *)
(* file inc, or text when inc is "".  No command writes to a source file:  *)
(* what is written has a name in .rxe.  What made an image is remembered   *)
(* in made, which no code reads.                                           *)
(***************************************************************************)
EXTENDS HeliosFmt, HeliosMeaning

CONSTANTS Files,          \* the source files on the disk at the start
          Outputs,        \* for each source file the name of its image
          Stripped,       \* for each image file the name of its stripped copy
          Suite,          \* the programs of helios test
          Snippets,       \* what the user types after helios eval
          Comparable,     \* those whose meaning HeliosMeaning gives
          INCLUDE_DEPTH,  \* nested includes
          BENCH_RUNS      \* runs of a benchmark

VARIABLES disk,   \* the image files
          job,    \* the command whose program is running, and rounds left
          said    \* what the last command reported

shellVars == <<disk, job, said>>
vars      == <<vmVars, shellVars>>

Line(text)   == [inc |-> "", text |-> text]
Include(f)   == [inc |-> f, text |-> "include \"" \o f \o "\";"]
Image(s, rxe) == [made |-> s, rxe |-> rxe]
NoJob        == [cmd |-> "none", left |-> 0, rxe |-> << >>]
Reply(what, v) == [what |-> what, v |-> v]

Sources == DOMAIN Files
Written == DOMAIN disk

JoinTexts(ls) == FoldLeft(LAMBDA acc, l : acc \o l.text \o "\n", "", ls)

(* helios_preprocess: include lines are replaced by the file, expanded in  *)
(* turn; below the depth limit, or without memory for a file, they stay as *)
(* they are, and the include of an empty or missing file is dropped.       *)
RECURSIVE Preprocess(_, _, _)
Preprocess(ls, depth, memory) ==
  LET expand(l) == IF l.inc = "" THEN l.text \o "\n"
                   ELSE IF l.inc \notin Sources THEN ""
                   ELSE IF ~memory THEN l.text \o "\n"
                   ELSE Preprocess(Files[l.inc], depth + 1, memory) \o "\n"
  IN  IF depth > INCLUDE_DEPTH THEN JoinTexts(ls)
      ELSE FoldLeft(LAMBDA acc, l : acc \o expand(l), "", ls)

(* helios_merge_sources.                                                   *)
MergeSources(fs, memory) ==
  FoldLeft(LAMBDA acc, f : acc \o Preprocess(Files[f], 0, memory) \o "\n", "", fs)

HasPart(text, part) == \E i \in 1..Len(text) - Len(part) + 1 :
                          SubSeq(text, i, i + Len(part) - 1) = part
StartsWith(text, part) == Len(text) >= Len(part) /\ SubSeq(text, 1, Len(part)) = part

(* helios_maybe_wrap: a snippet without a main becomes one.                *)
MaybeWrap(s) == IF \/ StartsWith(s, "fn ") \/ StartsWith(s, "struct ")
                   \/ HasPart(s, "fn main")
                THEN s ELSE "fn main() {\n" \o s \o "\n}"

ShellInit == /\ VmInit
             /\ disk = << >>
             /\ job = NoJob /\ said = Reply("", {})

---------------------------------------------------------------------------
(* Commands that end at once.                                              *)

Prompt == job.cmd = "none" /\ status \notin {"panic", "wild"}
Says(what, v) == said' = Reply(what, v)

(* read_src: no file, or no memory for it.                                 *)
Refused == Prompt /\ Says("failed", {}) /\ UNCHANGED <<vmVars, disk, job>>

(* A file by itself, as check, fmt and bench read it.                      *)
Parsed == [f \in Sources |-> ParseProgram(JoinTexts(Files[f]))]

(* check and import-check look at the file alone: includes are errors.     *)
HeliosCheck(f) ==
  /\ Prompt
  /\ Says(IF Errors(Parsed[f].dg) = {} THEN "ok" ELSE "failed", {})
  /\ UNCHANGED <<vmVars, disk, job>>

HeliosFmt_(f) ==
  /\ Prompt
  /\ IF Errors(Parsed[f].dg) = {} THEN Says("formatted", {f}) ELSE Says("failed", {})
  /\ UNCHANGED <<vmVars, disk, job>>

(* Writes an image over what is there: a longer file keeps its tail.  A    *)
(* new file is made with the image's length, and stays all zeros when only *)
(* the write fails (zeros of any length are one image: it has no header).  *)
(* The results of create and write are not looked at.                      *)
SizeOf(rxe) == Len(FoldLeft(LAMBDA acc, s : acc \o s.body, << >>, rxe.sections))
TailAfter(f, rxe) ==
  IF f \in Written /\ SizeOf(disk[f].rxe) > SizeOf(rxe)
  THEN <<Head(disk[f].rxe.sections)>> ELSE << >>
Zeros == [magic |-> FALSE, version |-> 0, arch |-> FALSE, entry |-> 0, sections |-> << >>]
WriteImage(f, s, rxe) ==
  \/ disk' = (f :> Image(s, [rxe EXCEPT !.sections = @ \o TailAfter(f, rxe)])) @@ disk
  \/ f \notin Written /\ disk' = (f :> Image("", Zeros)) @@ disk
  \/ UNCHANGED disk

(* compile of one file, build of several, as read with and without memory  *)
(* for the included files.                                                 *)
Alone  == {<<f>> : f \in DOMAIN Outputs}
Pairs  == {<<f, g>> : f, g \in DOMAIN Outputs}
Merged == [fs \in {<<f>> : f \in Sources} \cup Pairs,
           memory \in BOOLEAN |->
             IF Len(fs) = 1 THEN Preprocess(Files[fs[1]], 0, memory)
             ELSE MergeSources(fs, memory)]
CompiledFiles == [x \in DOMAIN Merged |-> Compile(Merged[x])]

Built(target, s, c) ==
  IF c = << >> THEN Says("failed", {}) /\ UNCHANGED disk
  ELSE Says("wrote", {}) /\ WriteImage(target, s, c[1])
HeliosBuild(fs) ==
  \E memory \in BOOLEAN :
    /\ Prompt
    /\ Built(Outputs[fs[1]], Merged[fs, memory], CompiledFiles[fs, memory])
    /\ UNCHANGED <<vmVars, job>>

(* build-multi: what it compiles is not written anywhere.                  *)
HeliosBuildMulti(fs) ==
  /\ Prompt
  /\ Says(IF CompiledFiles[fs, TRUE] = << >> THEN "failed" ELSE "ok", {})
  /\ UNCHANGED <<vmVars, disk, job>>

(* strip: the sections up to the end tag, without the symbols.             *)
HeliosStrip(f) ==
  LET ss   == disk[f].rxe.sections
      stop == Least({i \in DOMAIN ss : ss[i].tag = "end"} \cup {Len(ss)})
      kept == SelectSeq(SubSeq(ss, 1, stop), LAMBDA s : s.tag # "sym")
  IN  /\ Prompt /\ f \in DOMAIN Stripped
      /\ WriteImage(Stripped[f], disk[f].made, [disk[f].rxe EXCEPT !.sections = kept])
      /\ Says("wrote", {})
      /\ UNCHANGED <<vmVars, job>>

---------------------------------------------------------------------------
(* helios test: the expected diagnostics of small programs.                *)

OpsOf(images) == {cell.op : cell \in UNION {Range(c.sections[1].body) : c \in Range(images)}}
Expected(tc, r) ==
  /\ LET failed == Errors(r.dg) # {}
     IN  IF tc.fails THEN failed ELSE IF tc.clean THEN ~failed ELSE r.dg # {}
  /\ tc.ops # {} => tc.ops \subseteq OpsOf(CompileParsed(r))
TestPasses(tc) == Expected(tc, ParseProgram(tc.source))

Failing == {tc.label : tc \in {t \in Suite : ~TestPasses(t)}}
HeliosTest ==
  /\ Prompt /\ Says("tested", Failing)
  /\ UNCHANGED <<vmVars, disk, job>>

---------------------------------------------------------------------------
(* Commands that run a program.                                            *)

Starts(cmd, s, rxe) ==
  \/ /\ Loads(s, rxe) /\ Says("running", {})
     /\ job' = cmd @@ [rxe |-> IF cmd.left = 0 THEN << >> ELSE <<rxe>>]
  \/ /\ Says("failed", {}) /\ UNCHANGED <<vmVars, job>>  \* no memory for the stack

RunSource(cmd, s, c) ==
  /\ IF c = << >> THEN Says("failed", {}) /\ UNCHANGED <<vmVars, job>>
     ELSE Starts(cmd, s, c[1])
  /\ UNCHANGED disk

Once == [cmd |-> "run", left |-> 0]

(* eval, and run of what is no file; demo.                                 *)
Compiled == [s \in Snippets |-> Compile(MaybeWrap(s))]
HeliosEval(s) == Prompt /\ RunSource(Once, MaybeWrap(s), Compiled[s])

(* run and src of a source file; run of an image.                          *)
HeliosRunFile(f) ==
  /\ Prompt
  /\ \E memory \in BOOLEAN : RunSource(Once, Merged[<<f>>, memory], CompiledFiles[<<f>>, memory])
HeliosRunImage(f) ==
  Prompt /\ Starts(Once, disk[f].made, disk[f].rxe) /\ UNCHANGED disk

(* bench compiles the file as it stands, then runs it several times.       *)
CompiledAlone == [f \in Sources |-> Compile(JoinTexts(Files[f]))]
HeliosBench(f) ==
  /\ Prompt
  /\ RunSource([cmd |-> "bench", left |-> BENCH_RUNS - 1], JoinTexts(Files[f]), CompiledAlone[f])

(* The program has ended: the next round of a benchmark, or the prompt.    *)
CommandEnds ==
  /\ job.cmd # "none" /\ status \in {"halted", "timeout"}
  /\ IF job.left > 0
     THEN /\ job' = [job EXCEPT !.left = @ - 1] /\ UNCHANGED said
          /\ Loads(origin, job.rxe[1])
     ELSE job' = NoJob /\ Says("ended", {}) /\ Dropped
  /\ UNCHANGED disk

RunsProgram == Instruction /\ UNCHANGED shellVars

ShellNext ==
  \/ Refused
  \/ \E f \in Sources : \/ HeliosCheck(f) \/ HeliosFmt_(f)
                        \/ HeliosRunFile(f) \/ HeliosBench(f)
  \/ \E f \in Written : HeliosStrip(f) \/ HeliosRunImage(f)
  \/ \E fs \in Alone \cup Pairs : HeliosBuild(fs)
  \/ \E fs \in Pairs : HeliosBuildMulti(fs)
  \/ \E s \in Snippets : HeliosEval(s)
  \/ HeliosTest
  \/ CommandEnds
  \/ RunsProgram

ShellSpec == ShellInit /\ [][ShellNext]_vars /\ WF_vars(RunsProgram) /\ WF_vars(CommandEnds)

---------------------------------------------------------------------------
(* Programs HeliosMeaning gives a meaning to, as the tree it is read from: *)
(* no devices, raw memory, input or libraries, a wildcard arm only at the  *)
(* end of a match, no value after break, no call deeper than the frames.   *)
MEANING_FUEL == 12   \* calls and rounds of loops the meaning is computed for

Understood == {MaybeWrap(t) : t \in Comparable}
MeaningOf  == [s \in Understood |-> Meaning(s, MEANING_FUEL)]

(* A finished program printed what its syntax tree says and ended the way  *)
(* the tree says; one that was cut off printed as far as the tree's run    *)
(* goes: the lexer, the parser, the emitter's jump patching and slots and  *)
(* the machine agree on every construct (Emitter::emit_stmt, Vm::run).     *)
RunsAsWritten ==
  (origin \in Understood /\ ~starved) =>
    \E m \in {MeaningOf[origin]} :
      /\ status \in {"halted", "panic"} => out = m.out /\ status = m.end
      /\ status = "timeout" => m.end = "timeout" /\ IsPrefix(m.out, out)

(* The machine only ever stands at the beginning of an instruction, as the *)
(* disassembler sees them, or at the end of the code: no patched jump, call*)
(* or return lands inside an operand (Emitter::patch_u32, Vm::run).        *)
VisitsInstructions ==
  status = "running" => pc \in Disasm(img.code) \cup {Len(img.code)}

(* Saved frames lie one above the other below the current one, and each    *)
(* returns to just after a call (Vm::run, Call and Ret).                   *)
FramesNest ==
  \A i \in DOMAIN frames :
    /\ img.code[frames[i].ret - 4].op = "Call"
    /\ frames[i].fp <= (IF i < Len(frames) THEN frames[i + 1].fp ELSE fp)

(* Control never leaves the instructions and the frames: the machine       *)
(* stands at an instruction, and every return finds the frame and the call *)
(* it belongs to.                                                          *)
ControlSound == VisitsInstructions /\ FramesNest

(* Every program comes to an end, by itself or by the step limit, and the  *)
(* prompt returns: a program that never stops is cut off (VM_MAX_STEPS).   *)
ProgramsEnd == status = "running" ~> (status \in {"panic", "wild"} \/ job = NoJob)

(* An image loads as the program it was last made from, also when it was   *)
(* written over a longer one or stripped: what an older file left behind   *)
(* the end tag is never read (compile, strip, helios_exec_stack).          *)
ImagesLoad ==
  \A f \in Written :
    disk[f].rxe # Zeros =>
      LoadRxe(disk[f].rxe) = LoadRxe([disk[f].rxe EXCEPT !.sections = SubSeq(@, 1, 3)])

(* Of a definition: its statements at every depth, their expressions, and  *)
(* the texts between quotes.                                               *)
RECURSIVE StmtsIn(_)
StmtsIn(body)  == Range(body) \cup UNION {UNION {StmtsIn(s.b[i]) : i \in DOMAIN s.b} :
                                            s \in Range(body)}
StmtsOf(prog)  == UNION {StmtsIn(f.body) : f \in Range(prog.fns)}
ExprsOf(prog)  == UNION {UNION {ExprNodes(e) : e \in Range(s.e)} : s \in StmtsOf(prog)}
TextsOf(prog)  == {e.s : e \in {x \in ExprsOf(prog) : x.k \in {"str", "asm"}}}
                  \cup {s.s : s \in {x \in StmtsOf(prog) : x.k \in {"asm", "assert"}}}
                  \cup UNION {{t.s : t \in Range(s.m)} :
                                s \in {x \in StmtsOf(prog) : x.k = "match"}}

(* What fmt is known to print as something else: a quote, a backslash or a *)
(* NUL in a text, a cast as an operand, a prefix operator below an index   *)
(* or a field (by itself or below one more prefix), a minus before a       *)
(* number, and the constants and imports it leaves out.                    *)
Prefix(e)  == e.k \in {"un", "deref"}
Postfix(e) == e.k \in {"index", "field"}
LosesOperand(e) ==
  \/ e.k \in {"bin", "un", "deref"} /\ \E x \in Range(e.a) : x.k = "cast"
  \/ Postfix(e) /\ (Prefix(e.a[1]) \/ e.a[1].k = "cast")
  \/ Prefix(e) /\ Prefix(e.a[1]) /\ Postfix(e.a[1].a[1])
  \/ e.k = "un" /\ e.s = "-" /\ e.a[1].k = "int" /\ e.a[1].n >= 0
PlainSource(p) ==
  /\ \A t \in TextsOf(p.prog) : CharsOf(t) \cap {"\"", "\\", NUL} = {}
  /\ \A e \in ExprsOf(p.prog) : ~LosesOperand(e)
  /\ p.prog.consts = << >> /\ p.imp = {}

(* Whether what fmt prints of a source is read as the same program.        *)
ReadsBack(p) == LET q == ParseProgram(FmtProgram(p.prog))
                IN  Errors(q.dg) = {} /\ q.prog = p.prog /\ q.imp = p.imp
FmtKept  == [f \in Sources |-> ReadsBack(Parsed[f])]
IsPlain  == [f \in Sources |-> PlainSource(Parsed[f])]

(* Outside the named cases what helios fmt prints is a source with no      *)
(* errors that is read as the same program: the blanks, brackets, commas   *)
(* and signs it puts in are the ones the lexer, with its signed numbers,   *)
(* and the parser, with its levels, need (fmt_expr, fmt_stmts).            *)
FmtKeepsProgram == said.what = "formatted" => \A f \in said.v : IsPlain[f] => FmtKept[f]

(* The other forms of a program, the image that is loaded to run it and    *)
(* the text that fmt prints, are that program.                             *)
FormsKeepProgram == ImagesLoad /\ FmtKeepsProgram

(* Refuted: helios fmt prints a source that is the same program            *)
(* (helios.rs 56).                                                         *)
FmtIsSource == said.what = "formatted" => \A f \in said.v : FmtKept[f]

(* Refuted: helios test passes, that is, every program of the suite has    *)
(* the diagnostics its entry expects (DIAG_TESTS, run_test_suite).         *)
SuitePasses == said.what = "tested" => said.v = {}
============================================================================
