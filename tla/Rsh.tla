-------------------------------- MODULE Rsh --------------------------------
(***************************************************************************)
(* The RSH script engine (rust_lib/src/lib.rs): files read into shared     *)
(* line buffers, function bodies in one pool, a table of variables saved   *)
(* and restored around calls, and block executors that call each other.    *)
(* The native call stack of the interpreter is the variable stack, its top *)
(* first: one frame per running function of the source, and ret holds the  *)
(* value being returned into the top frame (NoRet while that frame runs).  *)
(*                                                                         *)
(* A line is a record: op is its keyword and the other fields are what the *)
(* interpreter takes from it.  Conditions, loop counts and map contents    *)
(* are data: every evaluation is a free choice.  Lines are numbered from 1 *)
(* in a file or a body.  Commands that neither move control nor touch the  *)
(* variables, the functions or the flags are the op "quiet".               *)
(***************************************************************************)
EXTENDS Naturals, Sequences, FiniteSets, SequencesExt, FiniteSetsExt

CONSTANTS
  MAX_VARS,           \* slots of the variable table (322)
  INDEX_MOD,          \* values of a saved slot index, a u8 (256)
  MAX_FUNCTIONS,      \* slots of the function table (644)
  FUNC_POOL_SIZE,     \* lines of the body pool (3072)
  MAX_CALL_STACK,     \* nested calls (16)
  MAX_INCLUDE_DEPTH,  \* nested includes (8)
  BUFFERS,            \* line buffers LINES_D0.. (4)
  MAX_WHILE_ITER,     \* iterations of a loop (100,000,000)
  MAX_ONCE_TAGS,      \* slots of the once table (32)
  COUNTS,             \* the iteration counts a for, with or repeat may ask
  FILES,              \* script files: name -> sequence of lines
  PROMPT_LINES,       \* lines given to rsh.line
  ScriptLines,        \* every line the interpreter may meet
  FuncNames,          \* names of functions
  COMMANDS            \* bound: commands given at the prompt

ASSUME RshAssumption ==
  /\ {MAX_VARS, INDEX_MOD, BUFFERS} \subseteq Nat \ {0}
  /\ {MAX_FUNCTIONS, FUNC_POOL_SIZE, MAX_CALL_STACK, MAX_INCLUDE_DEPTH,
      MAX_WHILE_ITER, MAX_ONCE_TAGS, COMMANDS} \subseteq Nat
  /\ COUNTS \subseteq 0 .. MAX_WHILE_ITER

(* ARG_COUNT and the arguments, numbered from 1, are all a callee sees; a  *)
(* line is cut into MAX_ARGS words.                                        *)
ArgNames == <<"1", "2", "3", "4", "5", "6", "7", "8", "9", "10", "11", "12",
              "13", "14", "15", "16">>

(* Lines with the fields their keyword has.  One that is missing cannot be *)
(* read, like one that is too large.                                       *)
ASSUME ScriptsAssumption ==
  /\ "main" \in FuncNames /\ FuncNames \subseteq STRING
  /\ \A f \in DOMAIN FILES : FILES[f] \in Seq(ScriptLines)
  /\ PROMPT_LINES \cup {[op |-> "blank"]} \subseteq ScriptLines
  /\ \A l \in ScriptLines :
       /\ l.op \in {"function", "ont", "def", "call", "named", "drop"} => l.name \in FuncNames
       /\ l.op \in {"set", "unset", "for"} => l.name \in STRING
       /\ l.op = "set" => l.val \in STRING
       /\ l.op \in {"call", "named"} => l.args \in Seq(STRING) /\ Len(l.args) <= Len(ArgNames)
       /\ l.op = "with" => l.map \in STRING
       /\ l.op = "include" => l.file \in DOMAIN FILES
       /\ l.op \in {"inline", "once", "repeat"} => l.cmd \in ScriptLines
       /\ l.op = "inline" => l.alt \in ScriptLines
       /\ l.op = "once" => l.tag \in STRING
       /\ l.op = "exit" => l.code \in {"0", "nonzero"}

VARIABLES
  ctx,             \* the ScriptCtx: tables and flags
  FUNC_BODY_POOL,  \* 1 .. FUNC_POOL_SIZE -> line
  FUNC_POOL_HEAD,  \* lines of the pool handed out so far
  LINES,           \* 0 .. BUFFERS - 1 -> the lines last read into the buffer
  stack,           \* the interpreter's frames, the running one first
  ret,             \* what the frame that just ended returned, or NoRet
  commands,        \* commands given so far
  defined          \* history: the body each function was last given

vars == <<ctx, FUNC_BODY_POOL, FUNC_POOL_HEAD, LINES, stack, ret, commands,
          defined>>

NoRet == "none"
Ok    == "0"
Fail  == "nonzero"

Slots  == 0 .. MAX_VARS - 1
Unused == [name |-> "", val |-> ""]
Blank  == [op |-> "blank"]
NoFunc == [used |-> FALSE, start |-> 0, count |-> 0,
           one_time |-> FALSE, has_run |-> FALSE, recursive |-> FALSE]

EmptyCtx ==
  [vars |-> [i \in Slots |-> Unused], funcs |-> [f \in FuncNames |-> NoFunc],
   call_stack |-> [d \in 1 .. MAX_CALL_STACK |->
                     [func_name |-> "", saved |-> [i \in Slots |-> Unused]]],
   once_tags |-> {}, call_depth |-> 0, in_function |-> FALSE,
   break_flag |-> FALSE, continue_flag |-> FALSE, return_flag |-> FALSE,
   include_depth |-> 0, with_map |-> ""]

script_init ==
  /\ ctx = EmptyCtx
  /\ FUNC_BODY_POOL = [i \in 1 .. FUNC_POOL_SIZE |-> Blank]
  /\ FUNC_POOL_HEAD = 0
  /\ LINES = [d \in 0 .. BUFFERS - 1 |-> << >>]
  /\ stack = << >> /\ ret = NoRet /\ commands = 0
  /\ defined = [f \in FuncNames |-> << >>]

----------------------------------------------------------------------------
(* Variables.                                                              *)

UsedSlots(vs) == {i \in Slots : vs[i] # Unused}
Holding(vs, name) == {i \in Slots : vs[i].name = name}

set_var(vs, name, val) ==
  LET free == Slots \ UsedSlots(vs)
      to   == IF Holding(vs, name) # {} THEN Holding(vs, name) ELSE free
  IN  IF to = {} THEN vs
      ELSE [vs EXCEPT ![Min(to)] = [name |-> name, val |-> val]]

unset_var(vs, name) ==
  IF Holding(vs, name) = {} THEN vs
  ELSE [vs EXCEPT ![Min(Holding(vs, name))] = Unused]

(* The frame saves each used slot with its index cut to a u8, in the order *)
(* of the slots, and writes them back in that order.                       *)
SavedIndex(i) == i % INDEX_MOD

(* Mutant: the callee's variables are not cleared first.                   *)
RestoredVars_over(saved) ==
  [t \in Slots |-> IF saved[t] = Unused THEN ctx.vars[t] ELSE saved[t]]

RestoredVars(saved) ==
  [t \in Slots |->
     LET from == {i \in UsedSlots(saved) : SavedIndex(i) = t}
     IN  IF from = {} THEN Unused ELSE saved[Max(from)]]

(* The table is cleared, so set_var gives the first slots away in turn: one *)
(* to ARG_COUNT, the next to the arguments, while there are slots.         *)
CalleeVars(args) ==
  [i \in Slots |->
     IF i = 0 THEN [name |-> "ARG_COUNT", val |-> "n"]
     ELSE IF i <= Len(args) THEN [name |-> ArgNames[i], val |-> args[i]]
     ELSE Unused]

----------------------------------------------------------------------------
(* Functions and their bodies in the pool.                                 *)

UsedFuncs(c) == {f \in FuncNames : c.funcs[f].used}

(* Mutant: an old slice is reused whatever its length.                     *)
CanReuse_always(c, name, count) == c.funcs[name].used

CanReuse(c, name, count) ==
  c.funcs[name].used /\ c.funcs[name].count >= count

PoolStart(c, name, count) ==
  IF CanReuse(c, name, count) THEN c.funcs[name].start ELSE FUNC_POOL_HEAD

HasPlace(c, name, count) ==
  /\ name \in UsedFuncs(c) \/ Cardinality(UsedFuncs(c)) < MAX_FUNCTIONS
  /\ CanReuse(c, name, count) \/ FUNC_POOL_HEAD + count <= FUNC_POOL_SIZE

Redefined(c, name, body, one_time, recursive) ==
  [c EXCEPT !.funcs[name] =
     [used |-> TRUE, start |-> PoolStart(c, name, Len(body)),
      count |-> Len(body), one_time |-> one_time, has_run |-> FALSE,
      recursive |-> recursive]]

define_func(name, body, one_time, recursive) ==
  LET start == PoolStart(ctx, name, Len(body)) IN
  IF HasPlace(ctx, name, Len(body))
    THEN /\ ctx' = Redefined(ctx, name, body, one_time, recursive)
         /\ FUNC_BODY_POOL' = [i \in 1 .. FUNC_POOL_SIZE |->
                                 IF i - start \in 1 .. Len(body)
                                   THEN body[i - start] ELSE FUNC_BODY_POOL[i]]
         /\ FUNC_POOL_HEAD' = FUNC_POOL_HEAD
              + IF CanReuse(ctx, name, Len(body)) THEN 0 ELSE Len(body)
         /\ defined' = [defined EXCEPT ![name] = body]
    ELSE UNCHANGED <<ctx, FUNC_BODY_POOL, FUNC_POOL_HEAD, defined>>

undefine_func(name) ==
  LET f == ctx.funcs[name] IN
  IF f.used
    THEN /\ ctx' = [ctx EXCEPT !.funcs[name] = NoFunc]
         /\ FUNC_BODY_POOL' = [i \in 1 .. FUNC_POOL_SIZE |->
                                 IF i \in f.start + 1 .. f.start + f.count
                                   THEN Blank ELSE FUNC_BODY_POOL[i]]
    ELSE UNCHANGED <<ctx, FUNC_BODY_POOL>>

----------------------------------------------------------------------------
(* Lines: a slice is a file's lines in a buffer or a body in the pool, read*)
(* where it lies each time.                                                *)

LineAt(s, i) == IF s.where = "file" THEN LINES[s.base][i]
                ELSE FUNC_BODY_POOL[s.base + i]

(* Mutant: an include shares the buffer of the file that includes it.      *)
Buffer_shared(depth) == Min({depth, BUFFERS - 1}) \div BUFFERS

Buffer(depth) == Min({depth, BUFFERS - 1})

(* Reading a file into a buffer leaves the tail of a longer one there.     *)
ReadInto(old, new) == new \o SubSeq(old, Len(new) + 1, Len(old))

Before(s, from, i, op) == Cardinality({j \in from .. i : LineAt(s, j).op = op})

(* The line that closes the block opened before from, 0 if there is none.  *)
find_block_end(s, from, to, open, close) ==
  LET ends == {i \in from .. to :
                 /\ LineAt(s, i).op = close
                 /\ Before(s, from, i, close) = 1 + Before(s, from, i, open)}
  IN  IF ends = {} THEN 0 ELSE Min(ends)

Definers == {"function", "ont", "def"}

DefEnd(s, i) ==
  find_block_end(s, i + 1, s.len, "function",
                 IF LineAt(s, i).op = "def" THEN "enddef" ELSE "endfunction")

(* The body between a definition line and its end; a last line             *)
(* ^allowedRecursive is taken off and makes the function recursive.        *)
parse_function_def(s, i) ==
  LET last == DefEnd(s, i) - 1
      rec  == last > i /\ LineAt(s, last).op = "allowedRecursive"
      n    == last - i - IF rec THEN 1 ELSE 0
  IN  define_func(LineAt(s, i).name, [k \in 1 .. n |-> LineAt(s, i + k)],
                  LineAt(s, i).op = "ont", rec)

----------------------------------------------------------------------------
(* Frames.                                                                 *)

Block(s, from, to) == [k |-> "block", s |-> s, at |-> from, end |-> to]
LineFrame(l)       == [k |-> "line", line |-> l]

Top        == stack[1]
Rest       == Tail(stack)
Runs(kind) == stack # << >> /\ Top.k = kind /\ ret = NoRet
Gets(kind) == stack # << >> /\ Top.k = kind /\ ret # NoRet

Enter(frames)     == stack' = frames \o Rest /\ UNCHANGED ret
Return(value)     == stack' = Rest /\ ret' = value
(* The frame on top goes on after line i of its slice.                     *)
GoesOn(i)         == stack' = <<[Top EXCEPT !.at = i + 1]>> \o Rest
(* The executor on top is done: its block goes on after line i.            *)
BlockGoesOn(i)    == /\ stack' = <<[Rest[1] EXCEPT !.at = i + 1]>> \o Tail(Rest)
                     /\ ret' = NoRet
Flagged == ctx.break_flag \/ ctx.continue_flag \/ ctx.return_flag

UnchangedTables ==
  UNCHANGED <<FUNC_BODY_POOL, FUNC_POOL_HEAD, LINES, commands, defined>>

----------------------------------------------------------------------------
(* Files: a first pass over the lines for includes and definitions, then   *)
(* either main() or the lines themselves.                                  *)

(* exec_file on a file that can be read; base is where it returns to.      *)
ReadFile(f, base, c) ==
  LET d     == Buffer(c.include_depth)
      slice == [where |-> "file", base |-> d, len |-> Len(FILES[f])]
  IN  /\ c.include_depth < MAX_INCLUDE_DEPTH
      /\ LINES' = [LINES EXCEPT ![d] = ReadInto(@, FILES[f])]
      /\ stack' = <<[k |-> "scan", s |-> slice, at |-> 1, main |-> FALSE,
                     file |-> f, depth |-> c.include_depth]>> \o base
      /\ ret' = NoRet
      /\ ctx' = c
      /\ UNCHANGED <<FUNC_BODY_POOL, FUNC_POOL_HEAD, defined>>

(* It is too deep, missing, too large or cannot be read.                   *)
FileFails(base, c) ==
  /\ stack' = base /\ ret' = Fail /\ ctx' = c
  /\ UNCHANGED <<FUNC_BODY_POOL, FUNC_POOL_HEAD, LINES, defined>>

exec_file(f, base, c) == ReadFile(f, base, c) \/ FileFails(base, c)

AtPrompt == stack = << >> /\ ret = NoRet
NextCommand == AtPrompt /\ commands < COMMANDS /\ commands' = commands + 1

script_execute_file(f) ==
  /\ NextCommand
  /\ exec_file(f, << >>,
               [ctx EXCEPT !.include_depth = 0, !.call_depth = 0,
                           !.break_flag = FALSE, !.continue_flag = FALSE,
                           !.return_flag = FALSE])

script_execute_line(l) ==
  /\ NextCommand
  /\ stack' = <<LineFrame(l)>>
  /\ UNCHANGED <<ctx, ret, FUNC_BODY_POOL, FUNC_POOL_HEAD, LINES, defined>>

(* The command is over and its value is shown.                             *)
command_done ==
  /\ stack = << >> /\ ret # NoRet
  /\ ret' = NoRet /\ UNCHANGED <<ctx, stack>> /\ UnchangedTables

ScanLine == LineAt(Top.s, Top.at)
ScanMore == Runs("scan") /\ Top.at <= Top.s.len

scan_line ==
  /\ ScanMore
  /\ ScanLine.op \notin Definers \cup {"include"}
  /\ Enter(<<[Top EXCEPT !.at = @ + 1, !.main = @ \/ ScanLine.op = "entrypoint"]>>)
  /\ UNCHANGED ctx /\ UnchangedTables

scan_include ==
  /\ ScanMore /\ ScanLine.op = "include"
  /\ exec_file(ScanLine.file, stack,
               [ctx EXCEPT !.include_depth = @ + 1])
  /\ UNCHANGED commands

scan_include_return ==
  /\ Gets("scan")
  /\ ctx' = [ctx EXCEPT !.include_depth = @ - 1]
  /\ GoesOn(Top.at)
  /\ ret' = NoRet /\ UnchangedTables

scan_define ==
  /\ ScanMore /\ ScanLine.op \in Definers
  /\ IF DefEnd(Top.s, Top.at) = 0
       THEN Return(Fail) /\ UNCHANGED ctx /\ UnchangedTables
       ELSE /\ parse_function_def(Top.s, Top.at)
            /\ GoesOn(DefEnd(Top.s, Top.at))
            /\ UNCHANGED <<LINES, ret, commands>>

FileFrame == [k |-> "file", s |-> Top.s, file |-> Top.file, depth |-> Top.depth]

(* Calling a function: base is the stack its value is returned to.         *)
OnCallStack(c, name) ==
  \E d \in 1 .. c.call_depth : c.call_stack[d].func_name = name

MayCall(c, name) ==
  /\ c.funcs[name].used
  /\ ~(c.funcs[name].one_time /\ c.funcs[name].has_run)
  /\ c.funcs[name].recursive \/ ~OnCallStack(c, name)
  /\ c.call_depth < MAX_CALL_STACK

CallerSaved(c, name, args) ==
  [c EXCEPT !.call_stack[c.call_depth + 1] =
               [func_name |-> name, saved |-> c.vars],
            !.call_depth = @ + 1, !.vars = CalleeVars(args),
            !.funcs[name].has_run = @ \/ c.funcs[name].one_time,
            !.in_function = TRUE, !.return_flag = FALSE]

call_function(name, args, base, c) ==
  LET f     == c.funcs[name]
      slice == [where |-> "pool", base |-> f.start, len |-> f.count]
      frame == [k |-> "call", name |-> name, prev |-> c.in_function,
                before |-> c.vars, body |-> defined[name], s |-> slice]
  IN  IF MayCall(c, name)
        THEN /\ ctx' = CallerSaved(c, name, args)
             /\ stack' = <<Block(slice, 1, f.count), frame>> \o base
             /\ ret' = NoRet
        ELSE ctx' = c /\ stack' = base /\ ret' = Fail

call_return ==
  /\ Gets("call")
  /\ ctx' = [ctx EXCEPT !.return_flag = FALSE, !.in_function = Top.prev,
               !.call_depth = @ - 1,
               !.vars = RestoredVars(ctx.call_stack[ctx.call_depth].saved)]
  /\ stack' = Rest
  /\ UNCHANGED ret /\ UnchangedTables

scan_end ==
  /\ Runs("scan") /\ Top.at > Top.s.len
  /\ LET c == [ctx EXCEPT !.include_depth = @ + 1] IN
     \/ /\ ~Top.main
        /\ ctx' = c
        /\ Enter(<<Block(Top.s, 1, Top.s.len), FileFrame>>)
     \/ /\ Top.main /\ ctx.funcs["main"].used
        /\ call_function("main", << >>, <<FileFrame>> \o Rest, c)
     \/ /\ Top.main /\ ~ctx.funcs["main"].used
        /\ Return(Fail) /\ UNCHANGED ctx
  /\ UnchangedTables

file_return ==
  /\ Gets("file")
  /\ ctx' = [ctx EXCEPT !.include_depth = @ - 1]
  /\ stack' = Rest
  /\ UNCHANGED ret /\ UnchangedTables

----------------------------------------------------------------------------
(* Blocks: exec_block runs one line after another until its end, a flag or *)
(* a failing line.  Its own safety limit is never reached: the line number *)
(* only grows.                                                             *)

Closers == {"blank", "endif", "endwhile", "endfor", "endfunction", "enddef",
            "endwith", "endcase", "endswitch", "allowedRecursive"}
Loops   == {"while", "for", "with"}
Structured == Closers \cup Loops \cup Definers \cup {"if", "switch"}
EndOf(op) == CASE op = "while" -> "endwhile" [] op = "for" -> "endfor"
               [] op = "with" -> "endwith"

BlockLine == LineAt(Top.s, Top.at)
AtLine(ops) == /\ Runs("block") /\ Top.at <= Top.end /\ Top.at <= Top.s.len
               /\ ~Flagged /\ BlockLine.op \in ops

block_end ==
  /\ Runs("block")
  /\ Top.at > Top.end \/ Top.at > Top.s.len \/ Flagged
  /\ Return(Ok)
  /\ UNCHANGED ctx /\ UnchangedTables

block_skip ==
  /\ AtLine(Closers)
  /\ GoesOn(Top.at)
  /\ UNCHANGED <<ctx, ret>> /\ UnchangedTables

block_line ==
  /\ Runs("block") /\ Top.at <= Top.end /\ Top.at <= Top.s.len /\ ~Flagged
  /\ BlockLine.op \notin Structured
  /\ stack' = <<LineFrame(BlockLine)>> \o stack
  /\ UNCHANGED <<ctx, ret>> /\ UnchangedTables

(* The value of a line: a block ends at the first one that is not zero.    *)
block_line_return ==
  /\ Gets("block")
  /\ IF ret = Ok
       THEN GoesOn(Top.at) /\ ret' = NoRet
       ELSE Return(ret)
  /\ UNCHANGED ctx /\ UnchangedTables

block_define ==
  /\ AtLine(Definers)
  /\ IF DefEnd(Top.s, Top.at) = 0
       THEN Return(Fail) /\ UNCHANGED ctx /\ UnchangedTables
       ELSE /\ parse_function_def(Top.s, Top.at)
            /\ GoesOn(DefEnd(Top.s, Top.at))
            /\ UNCHANGED <<LINES, ret, commands>>

(* if: the search stays inside the block.  Meeting endif sets the end of   *)
(* the first branch to the line before it, past an else met earlier; an    *)
(* elif of this if ends the search with the if still open, an error.       *)
IfSearchEnd(b) == Min({b.end, b.s.len})
EndifOf(b) == find_block_end(b.s, b.at + 1, IfSearchEnd(b), "if", "endif")

OfThisIf(b, op) ==
  {j \in b.at + 1 .. EndifOf(b) :
     /\ LineAt(b.s, j).op = op
     /\ Before(b.s, b.at + 1, j, "if") = Before(b.s, b.at + 1, j, "endif")}

IfBroken(b) == EndifOf(b) = 0 \/ OfThisIf(b, "elif") # {}
FirstBranchEnd(b) == EndifOf(b) - 1
IfFrame(b) == [k |-> "if", endif |-> EndifOf(b)]

exec_if ==
  /\ AtLine({"if"})
  /\ \/ /\ IfBroken(Top) /\ Return(Fail)
     \/ /\ ~IfBroken(Top)                       \* the condition holds
        /\ stack' = <<Block(Top.s, Top.at + 1, FirstBranchEnd(Top)),
                      IfFrame(Top)>> \o stack
        /\ UNCHANGED ret
     \/ /\ ~IfBroken(Top)                       \* it does not
        /\ IF OfThisIf(Top, "else") = {}
             THEN GoesOn(EndifOf(Top))
             ELSE stack' = <<Block(Top.s, Max(OfThisIf(Top, "else")) + 1,
                                   EndifOf(Top) - 1), IfFrame(Top)>> \o stack
        /\ UNCHANGED ret
  /\ UNCHANGED ctx /\ UnchangedTables

exec_if_return ==
  /\ Gets("if")
  /\ BlockGoesOn(Top.endif)
  /\ UNCHANGED ctx /\ UnchangedTables

----------------------------------------------------------------------------
(* Loops: while, for, with and the command repeat.  left counts the        *)
(* iterations still allowed: the limit for a while, the range, the map's   *)
(* entries or the number given for the others.                             *)

LoopEnd(b) == find_block_end(b.s, b.at + 1, b.s.len, BlockLine.op,
                             EndOf(BlockLine.op))

LoopFrame(n) ==
  [k |-> "loop", line |-> BlockLine, s |-> Top.s, at |-> Top.at,
   end |-> LoopEnd(Top), left |-> n, prev |-> ctx.with_map]

Allowed(op) == IF op = "while" THEN {MAX_WHILE_ITER} ELSE COUNTS

(* A with of an unknown map does nothing.                                  *)
exec_loop ==
  /\ AtLine(Loops)
  /\ \/ /\ LoopEnd(Top) = 0 /\ Return(Fail) /\ UNCHANGED ctx
     \/ /\ LoopEnd(Top) # 0
        /\ \E n \in Allowed(BlockLine.op) :
             stack' = <<LoopFrame(n)>> \o stack
        /\ ctx' = [ctx EXCEPT !.with_map =
                     IF BlockLine.op = "with" THEN BlockLine.map ELSE @]
        /\ UNCHANGED ret
     \/ /\ LoopEnd(Top) # 0 /\ BlockLine.op = "with"
        /\ GoesOn(LoopEnd(Top))
        /\ UNCHANGED <<ctx, ret>>
  /\ UnchangedTables

ClearsFlags(op) == op \in {"while", "for"}

LoopVars(l) ==
  CASE l.op = "while"  -> ctx.vars
    [] l.op = "for"    -> set_var(ctx.vars, l.name, "n")
    [] l.op = "with"   -> set_var(set_var(ctx.vars, "key", "v"), "val", "v")
    [] l.op = "repeat" -> set_var(ctx.vars, "ITER", "n")

(* Mutant: the iterations are not counted.                                 *)
loop_iterate_uncounted ==
  /\ Runs("loop") /\ Top.left > 0
  /\ LET clear == ClearsFlags(Top.line.op)
         body  == IF Top.line.op = "repeat" THEN LineFrame(Top.line.cmd)
                  ELSE Block(Top.s, Top.at + 1, Top.end - 1)
     IN  /\ ctx' = [ctx EXCEPT !.vars = LoopVars(Top.line),
                      !.break_flag = @ /\ ~clear,
                      !.continue_flag = @ /\ ~clear]
         /\ stack' = <<body>> \o stack
  /\ UNCHANGED ret /\ UnchangedTables

loop_iterate ==
  /\ Runs("loop") /\ Top.left > 0
  /\ LET clear == ClearsFlags(Top.line.op)
         body  == IF Top.line.op = "repeat" THEN LineFrame(Top.line.cmd)
                  ELSE Block(Top.s, Top.at + 1, Top.end - 1)
     IN  /\ ctx' = [ctx EXCEPT !.vars = LoopVars(Top.line),
                      !.break_flag = @ /\ ~clear,
                      !.continue_flag = @ /\ ~clear]
         /\ stack' = <<body, [Top EXCEPT !.left = @ - 1]>> \o Rest
  /\ UNCHANGED ret /\ UnchangedTables

(* Mutant: with leaves its map in scope.                                   *)
LoopStops_with_map(c) ==
  /\ IF Top.line.op = "repeat" THEN Return(Ok) ELSE BlockGoesOn(Top.end)
  /\ ctx' = IF Top.line.op = "with"
              THEN [c EXCEPT !.vars = unset_var(unset_var(@, "key"), "val")]
              ELSE c

(* Out of the loop: repeat is a line and returns 0 to whoever ran it, the  *)
(* others let their block go on after their end line.                      *)
LoopStops(c) ==
  /\ IF Top.line.op = "repeat" THEN Return(Ok) ELSE BlockGoesOn(Top.end)
  /\ ctx' = IF Top.line.op = "with"
              THEN [c EXCEPT !.with_map = Top.prev,
                     !.vars = unset_var(unset_var(@, "key"), "val")]
              ELSE c

(* No iteration left, the condition is false, or the map has been dropped. *)
loop_finish ==
  /\ Runs("loop")
  /\ Top.left = 0 \/ Top.line.op \in {"while", "with"}
  /\ LoopStops(ctx) /\ UnchangedTables

LoopGoesOn == ret = Ok /\ ~ctx.break_flag /\ ~ctx.return_flag

(* Mutant: the break stays set for the loop around this one.               *)
BreakTaken_kept(c) == c

(* while and for clear a break only when the body returned zero; with and  *)
(* repeat clear it whenever they stop, and never clear a continue.         *)
BreakTaken(c) ==
  [c EXCEPT !.break_flag = @ /\ ClearsFlags(Top.line.op) /\ ret # Ok]

loop_body_return ==
  /\ Gets("loop")
  /\ \/ /\ LoopGoesOn
        /\ ctx' = [ctx EXCEPT !.continue_flag = @ /\ ~ClearsFlags(Top.line.op)]
        /\ ret' = NoRet /\ UNCHANGED stack
     \/ /\ ~LoopGoesOn
        /\ LoopStops(BreakTaken(ctx))
  /\ UnchangedTables

----------------------------------------------------------------------------
(* switch: the arms are met in order; the first case that matches runs,    *)
(* and a default met while none has.                                       *)

SwitchEnd(b) == find_block_end(b.s, b.at + 1, b.s.len, "switch", "endswitch")

exec_switch ==
  /\ AtLine({"switch"})
  /\ IF SwitchEnd(Top) = 0 THEN Return(Fail)
     ELSE /\ stack' = <<[k |-> "switch", s |-> Top.s, at |-> Top.at + 1,
                         end |-> SwitchEnd(Top), matched |-> FALSE,
                         arm |-> ""]>> \o stack
          /\ UNCHANGED ret
  /\ UNCHANGED ctx /\ UnchangedTables

Arm == LineAt(Top.s, Top.at)
ArmEnd == find_block_end(Top.s, Top.at + 1, Top.s.len, "case", "endcase")
SwitchMore == Runs("switch") /\ Top.at < Top.end

PastArm(matched) ==
  [Top EXCEPT !.at = ArmEnd + 1, !.matched = matched, !.arm = Arm.op]

switch_arm ==
  /\ SwitchMore /\ Arm.op \in {"case", "default"}
  /\ \/ /\ ArmEnd = 0                 \* the switch, and so its block, fails
        /\ stack' = Tail(Rest) /\ ret' = Fail
     \/ /\ ArmEnd # 0 /\ ~Top.matched
        /\ Enter(<<Block(Top.s, Top.at + 1, ArmEnd - 1), PastArm(Arm.op = "case")>>)
     \/ /\ ArmEnd # 0 /\ (Top.matched \/ Arm.op = "case")
        /\ Enter(<<PastArm(Top.matched)>>)
  /\ UNCHANGED ctx /\ UnchangedTables

switch_skip ==
  /\ SwitchMore /\ Arm.op \notin {"case", "default"}
  /\ GoesOn(Top.at)
  /\ UNCHANGED <<ctx, ret>> /\ UnchangedTables

switch_arm_return ==
  /\ Gets("switch")
  /\ IF Top.arm = "case" /\ (ctx.return_flag \/ ctx.break_flag)
       THEN BlockGoesOn(Top.end)
       ELSE ret' = NoRet /\ UNCHANGED stack
  /\ UNCHANGED ctx /\ UnchangedTables

switch_end ==
  /\ Runs("switch") /\ Top.at >= Top.end
  /\ BlockGoesOn(Top.end)
  /\ UNCHANGED ctx /\ UnchangedTables

----------------------------------------------------------------------------
(* One line: exec_line and dispatch_cmd.                                   *)

Cmd == Top.line
AtCmd(op) == Runs("line") /\ Cmd.op = op

(* Output, unknown commands, and structure words met outside a block.  The *)
(* many commands that compute a value and assign it to a variable          *)
(* (arithmetic, strings, tests) are the op "set".                          *)
Quiet == {"quiet", "else", "elif", "case", "include", "entrypoint"}
Simple == Quiet \cup {"fails", "default", "set", "unset", "break", "continue",
                      "return", "exit"}

FlagsSet(c, l) ==
  [c EXCEPT !.break_flag = @ \/ l.op = "break",
            !.continue_flag = @ \/ l.op = "continue",
            !.return_flag = @ \/ l.op \in {"return", "exit"}]

VarsAfter(vs, l) == CASE l.op = "set"   -> set_var(vs, l.name, l.val)
                      [] l.op = "unset" -> unset_var(vs, l.name)
                      [] OTHER          -> vs

ValueOf(l) == CASE l.op \in {"fails", "default"} -> Fail
                [] l.op = "exit" -> l.code
                [] OTHER -> Ok

line_simple ==
  /\ Runs("line") /\ Cmd.op \in Simple
  /\ ctx' = [FlagsSet(ctx, Cmd) EXCEPT !.vars = VarsAfter(@, Cmd)]
  /\ Return(ValueOf(Cmd))
  /\ UnchangedTables

(* call NAME fails when there is no such function; NAME alone is then an   *)
(* unknown command, which is not an error.                                 *)
line_call ==
  /\ AtCmd("call") \/ AtCmd("named")
  /\ IF Cmd.op = "named" /\ ~ctx.funcs[Cmd.name].used
       THEN Return(Ok) /\ UNCHANGED ctx
       ELSE call_function(Cmd.name, Cmd.args, Rest, ctx)
  /\ UnchangedTables

line_drop ==
  /\ AtCmd("drop")
  /\ undefine_func(Cmd.name)
  /\ Return(Ok)
  /\ UNCHANGED <<FUNC_POOL_HEAD, LINES, commands, defined>>

(* The inline if runs its command, or the one after else, as a line; alt   *)
(* is a quiet line when there is no else.                                  *)
line_inline_if ==
  /\ AtCmd("inline")
  /\ \/ Enter(<<LineFrame(Cmd.cmd)>>)
     \/ Enter(<<LineFrame(Cmd.alt)>>)
  /\ UNCHANGED ctx /\ UnchangedTables

OnceMarked(tags, t) ==
  IF Cardinality(tags) < MAX_ONCE_TAGS THEN tags \cup {t} ELSE tags

line_once ==
  /\ AtCmd("once")
  /\ IF Cmd.tag \in ctx.once_tags THEN Return(Ok) /\ UNCHANGED ctx
     ELSE /\ ctx' = [ctx EXCEPT !.once_tags = OnceMarked(@, Cmd.tag)]
          /\ Enter(<<LineFrame(Cmd.cmd)>>)
  /\ UnchangedTables

line_repeat ==
  /\ AtCmd("repeat")
  /\ \E n \in COUNTS :
       Enter(<<[k |-> "loop", line |-> Cmd, left |-> n]>>)
  /\ UNCHANGED ctx /\ UnchangedTables

----------------------------------------------------------------------------
FileStep  == scan_line \/ scan_include \/ scan_include_return \/ scan_define
             \/ scan_end \/ file_return \/ call_return
BlockStep == block_end \/ block_skip \/ block_line \/ block_line_return
             \/ block_define \/ exec_if \/ exec_if_return
LoopStep  == exec_loop \/ loop_iterate \/ loop_finish \/ loop_body_return
             \/ exec_switch \/ switch_arm \/ switch_skip \/ switch_arm_return
             \/ switch_end
LineStep  == line_simple \/ line_call \/ line_drop \/ line_inline_if
             \/ line_once \/ line_repeat

Step == FileStep \/ BlockStep \/ LoopStep \/ LineStep \/ command_done

Next == \/ \E f \in DOMAIN FILES : script_execute_file(f)
        \/ \E l \in PROMPT_LINES : script_execute_line(l)
        \/ Step

(* The interpreter runs in the shell's own thread: once started it keeps   *)
(* executing.                                                              *)
Spec == script_init /\ [][Next]_vars /\ WF_vars(Step)

----------------------------------------------------------------------------
(* Properties.                                                             *)

(* The frames from the bottom of the stack up, and where those of a kind   *)
(* are.                                                                    *)
At(h) == stack[Len(stack) + 1 - h]
Of(kind) == {h \in 1 .. Len(stack) : At(h).k = kind}
InPool(f) == f.start + f.count <= FUNC_POOL_HEAD

(* Types: the tables keep their shape, every slice being run lies inside   *)
(* its buffer or inside the handed-out part of the pool, and no frame is   *)
(* handed a value it does not wait for (FUNC_BODY_POOL[start + j],         *)
(* lines[i] are never out of bounds).                                      *)
RshTypeOK ==
  /\ FUNC_POOL_HEAD \in 0 .. FUNC_POOL_SIZE
  /\ ctx.call_depth \in 0 .. MAX_CALL_STACK
  /\ ctx.include_depth \in 0 .. MAX_INCLUDE_DEPTH + 1
  /\ {ctx.in_function, ctx.break_flag, ctx.continue_flag, ctx.return_flag}
       \subseteq BOOLEAN
  /\ Cardinality(ctx.once_tags) <= MAX_ONCE_TAGS
  /\ \A f \in UsedFuncs(ctx) : InPool(ctx.funcs[f])
  /\ ret \in {NoRet, Ok, Fail}
  /\ stack # << >> /\ Top.k = "line" => ret = NoRet
  /\ \A p \in 1 .. Len(stack) : stack[p].k = "block" =>
       LET s == stack[p].s IN
       IF s.where = "file" THEN s.len <= Len(LINES[s.base])
       ELSE s.base + s.len <= FUNC_POOL_HEAD

(* Whatever path control took out of them - a flag, a failing line, a bad  *)
(* block, a full table - the files, calls and with-blocks still on the     *)
(* interpreter's stack are exactly those the context counts: include_depth,*)
(* call_depth with the names on call_stack, in_function and with_map are   *)
(* incremented and restored in pairs.                                      *)
ContextMatchesStack ==
  LET withs == {h \in Of("loop") : At(h).line.op = "with"}
      entered == Of("file")
                 \cup {h \in Of("scan") : h < Len(stack) \/ ret # NoRet}
  IN  /\ ctx.call_depth = Cardinality(Of("call"))
      /\ \A h \in Of("call") :
           ctx.call_stack[Cardinality(Of("call") \cap 1 .. h)].func_name = At(h).name
      /\ ctx.in_function = (Of("call") # {})
      /\ ctx.include_depth = Cardinality(entered)
      /\ ctx.with_map = IF withs = {} THEN "" ELSE At(Max(withs)).line.map

Returning == stack # << >> /\ Top.k = "call" /\ ret # NoRet
Indexable(vs) == \A i \in UsedSlots(vs) : i < INDEX_MOD

(* CallFrame "Saves only in-use variable slots (by index)": a call returns *)
(* every variable of its caller, however many it has.                      *)
EveryCallerKeepsVariables ==
  [][Returning => ctx'.vars = Top.before]_vars

(* Every defined function has, in the shared pool, the body it was last    *)
(* given: no later definition, drop or reuse of a slice by another         *)
(* function touches its lines.                                             *)
PoolHoldsBodies ==
  \A f \in UsedFuncs(ctx) :
    [i \in 1 .. ctx.funcs[f].count |-> FUNC_BODY_POOL[ctx.funcs[f].start + i]]
      = defined[f]

(* A call executes the body its function had when it was called, even when *)
(* a line of it defines or drops that function again.                      *)
RunningBodyUnchanged ==
  \A p \in 1 .. Len(stack) : stack[p].k = "call" =>
    [i \in 1 .. stack[p].s.len |-> LineAt(stack[p].s, i)] = stack[p].body

LoopEnds == /\ stack # << >> /\ Top.k = "loop" /\ ClearsFlags(Top.line.op)
            /\ Len(stack') < Len(stack)

(* What ends leaves its surroundings as it found them.  A call gives its   *)
(* caller back the variables it had, slot by slot, whatever the callee, its*)
(* loops and the calls it made in turn did to the table - as long as the   *)
(* caller used no slot a u8 cannot index.  A loop whose body did not fail  *)
(* leaves no break behind for the loop around it, and no continue unless   *)
(* it is left by a return: one break ends one loop.                        *)
LeavingRestores ==
  [][/\ Returning /\ Indexable(Top.before) => ctx'.vars = Top.before
     /\ LoopEnds /\ ret # Fail =>
          ~ctx'.break_flag /\ (ctx.return_flag \/ ~ctx'.continue_flag)]_vars

(* The same of every loop, however it is left.                             *)
LoopsLeaveNoFlags ==
  [][LoopEnds => ~ctx'.break_flag /\ ~ctx'.continue_flag]_vars

FileLines(fr) ==
  [i \in 1 .. fr.s.len |-> LINES[fr.s.base][i]] = FILES[fr.file]

(* While a file is scanned and run its lines are its own: the files it     *)
(* includes are read into other buffers, for files included less deeply    *)
(* than the last buffer.                                                   *)
FileLinesIntact ==
  \A p \in 1 .. Len(stack) :
    stack[p].k \in {"scan", "file"} /\ stack[p].depth < BUFFERS - 1
      => FileLines(stack[p])

(* Whatever is run is run as it was written: neither includes nor function *)
(* definitions, drops and reuse of the pool change lines still to be run   *)
(* (LINES, FUNC_BODY_POOL).                                                *)
LinesIntact == FileLinesIntact /\ PoolHoldsBodies

(* "Per-depth file + line buffers": the same for every depth that          *)
(* MAX_INCLUDE_DEPTH lets a file be included at.                           *)
EveryFileIntact ==
  \A p \in 1 .. Len(stack) :
    stack[p].k \in {"scan", "file"} => FileLines(stack[p])

(* The lines of an if before its else are the whole of its first branch:   *)
(* an else is never reached as a command.                                  *)
ElseSeparates == ~AtCmd("else")

(* Every command comes back to the prompt, whatever its conditions say:    *)
(* loops, recursion and includes, cyclic ones too, are all cut off.        *)
ScriptEnds == [](stack # << >> => <>(stack = << >>))
============================================================================
