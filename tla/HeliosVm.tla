------------------------------ MODULE HeliosVm ------------------------------
(***************************************************************************)
(* The Helios virtual machine (rust_lib/src/helios.rs, section 9): one     *)
(* image at a time is loaded and run.  Locals live on the value stack from *)
(* fp on, operands above them; the stack's memory is kept above sp, as in  *)
(* the code.                                                               *)
(*                                                                         *)
(* Strings on the stack are negative numbers, the sign being the tag bit:  *)
(* 0 - WORD + i is the i-th text of the pool.  Kernel memory is mem: the   *)
(* 32-bit cells of the blocks the program has, by address; texts the       *)
(* machine builds are heap strings, in texts.                              *)
(***************************************************************************)
EXTENDS HeliosCode

LOCAL INSTANCE Bitwise

CONSTANTS VM_STACK_SLOTS, \* slots of the value stack
          VM_DEPTH,       \* saved frames
          VM_MAX_STEPS,   \* instructions before the machine gives up
          HEAP_BASE,      \* where the first block lies
          Junk,           \* what devices and memory nobody wrote may hold
          Inputs          \* lines the user may type

VARIABLES origin,  \* the source being run
          img,     \* its loaded image
          status,  \* idle, running, or how the run ended
          pc, stack, sp, fp, frames,
          mem, texts, next,  \* heap cells, heap strings, the next free address
          out,     \* what was printed
          steps,   \* instructions so far
          capture, \* scancodes go to the program
          starved  \* an allocation has failed

vmVars == <<origin, img, status, pc, stack, sp, fp, frames, mem, texts, next, out,
            steps, capture, starved>>

NoImage == [code |-> << >>, pool |-> << >>, entry |-> 0]

VmInit ==
  /\ origin = "" /\ img = NoImage /\ status = "idle" /\ pc = 0
  /\ stack = [i \in 0..VM_STACK_SLOTS - 1 |-> 0] /\ sp = 0 /\ fp = 0
  /\ frames = << >> /\ mem = << >> /\ texts = << >> /\ next = HEAP_BASE
  /\ out = << >> /\ steps = 0 /\ capture = FALSE /\ starved = FALSE

(* A machine as it is made and as it is dropped: an empty zeroed stack.    *)
Emptied ==
  /\ stack' = [i \in DOMAIN stack |-> 0] /\ sp' = 0 /\ fp' = 0
  /\ frames' = << >> /\ mem' = << >> /\ texts' = << >> /\ next' = HEAP_BASE
  /\ out' = << >> /\ steps' = 0 /\ capture' = FALSE /\ starved' = FALSE

(* helios_exec_stack: validate, load, start at the entry.  The block held  *)
(* back for unsafe operations is left out: nothing depends on it.          *)
Loads(s, rxe) ==
  /\ Emptied /\ RxeValidate(rxe)
  /\ origin' = s /\ img' = LoadRxe(rxe) /\ pc' = rxe.entry
  /\ status' = "running"

Dropped ==
  /\ Emptied
  /\ origin' = "" /\ img' = NoImage /\ status' = "idle" /\ pc' = 0

---------------------------------------------------------------------------
(* Operands and results.                                                   *)

(* The i-th value from the top, 0 below the bottom; what a pop of n leaves.*)
Top(i)    == IF sp >= i THEN stack[sp - i] ELSE 0
Below(n)  == IF sp >= n THEN sp - n ELSE 0

(* Pops n values and pushes vals; a push above the last slot is lost.      *)
PopPush(n, vals) ==
  LET base == Below(n)
      room == VM_STACK_SLOTS - base
      kept == SubSeq(vals, 1, IF Len(vals) <= room THEN Len(vals) ELSE room)
  IN  /\ stack' = [i \in DOMAIN stack |->
                     IF i \in base..base + Len(kept) - 1 THEN kept[i - base + 1]
                     ELSE stack[i]]
      /\ sp' = base + Len(kept)

Cell    == img.code[pc + 1]
Op      == Cell.op
Fetched == /\ status = "running" /\ pc < Len(img.code) /\ steps + 1 < VM_MAX_STEPS

(* One instruction is fetched; the action that uses this says the rest.    *)
Step(S) == /\ Fetched /\ Op \in S
           /\ steps' = steps + 1
           /\ UNCHANGED <<origin, img>>
NextPc  == pc' = pc + 1 + ImmBytes(Op)
Running == status' = status
Quiet   == UNCHANGED <<out, capture>>
Memory  == UNCHANGED <<mem, texts, next, starved>>
Calls   == UNCHANGED <<fp, frames>>

(* Everything but the value stack stays.                                   *)
Plain == /\ NextPc /\ Running /\ Quiet /\ Memory /\ Calls

StackOp ==
  /\ Step({"Push", "PushStr", "Pop", "Dup", "Swap", "Over"}) /\ Plain
  /\ CASE Op = "Push"    -> PopPush(0, <<Cell.v>>)
       [] Op = "PushStr" -> PopPush(0, <<Cell.v - WORD>>)
       [] Op = "Pop"     -> PopPush(1, << >>)
       [] Op = "Dup"     -> PopPush(0, <<Top(1)>>)
       [] Op = "Swap"    -> PopPush(2, <<Top(1), Top(2)>>)
       [] Op = "Over"    -> PopPush(0, IF sp >= 2 THEN <<Top(2)>> ELSE << >>)

---------------------------------------------------------------------------
(* Arithmetic on words.                                                    *)

U(v)       == v % (2 * WORD)
Bits       == CHOOSE b \in 1..31 : 2^b = 2 * WORD
Bool(c)    == IF c THEN 1 ELSE 0
Mag(a)     == IF a < 0 THEN -a ELSE a
Quot(a, b) == IF (a < 0) = (b < 0) THEN Mag(a) \div Mag(b) ELSE -(Mag(a) \div Mag(b))

Binary(op, a, b) ==
  CASE op = "Add"   -> Wrap(a + b)
    [] op = "Sub"   -> Wrap(a - b)
    [] op = "Mul"   -> Wrap(a * b)
    [] op = "Div"   -> IF b # 0 THEN Quot(a, b) ELSE 0
    [] op = "Mod"   -> IF b # 0 THEN a - b * Quot(a, b) ELSE 0
    [] op = "BAnd"  -> Wrap(U(a) & U(b))
    [] op = "BOr"   -> Wrap(U(a) | U(b))
    [] op = "BXor"  -> Wrap(U(a) ^^ U(b))
    [] op = "Shl"   -> Wrap(a * 2^(U(b) % Bits))
    [] op = "Shr"   -> Wrap(U(a) \div 2^(U(b) % Bits))
    [] op = "CmpEq" -> Bool(a = b)
    [] op = "CmpNe" -> Bool(a # b)
    [] op = "CmpLt" -> Bool(a < b)
    [] op = "CmpLe" -> Bool(a <= b)
    [] op = "CmpGt" -> Bool(a > b)
    [] op = "CmpGe" -> Bool(a >= b)
    [] op = "And"   -> Bool(a # 0 /\ b # 0)
    [] op = "Or"    -> Bool(a # 0 \/ b # 0)

Unary(op, a) ==
  CASE op = "Neg"      -> Wrap(-a)
    [] op = "BNot"     -> -a - 1
    [] op = "Not"      -> Bool(a = 0)
    [] op = "CastBool" -> Bool(a # 0)
    [] op = "CastInt"  -> a

(* The one quotient that does not fit panics, as checked division does.    *)
Overflows(op, a, b) == op \in {"Div", "Mod"} /\ a = -WORD /\ b = -1

Arithmetic ==
  /\ Step({BinOpcode[o] : o \in DOMAIN BinOpcode})
  /\ NextPc /\ Quiet /\ Memory /\ Calls
  /\ IF Overflows(Op, Top(2), Top(1))
     THEN status' = "panic" /\ UNCHANGED <<stack, sp>>
     ELSE Running /\ PopPush(2, <<Binary(Op, Top(2), Top(1))>>)

UnaryOp == /\ Step({"Neg", "BNot", "Not", "CastBool", "CastInt"}) /\ Plain
           /\ PopPush(1, <<Unary(Op, Top(1))>>)

---------------------------------------------------------------------------
(* Control flow.  Ending a run gives the keyboard back.                    *)

Stop(how) == status' = how /\ capture' = FALSE

Jump ==
  /\ Step({"Jmp", "Jz", "Jnz"})
  /\ Running /\ Quiet /\ Memory /\ Calls
  /\ PopPush(IF Op = "Jmp" THEN 0 ELSE 1, << >>)
  /\ IF Op = "Jmp" \/ (Op = "Jz") = (Top(1) = 0) THEN pc' = Cell.v ELSE NextPc

CallFn_argc_counted ==
  /\ Step({"Call"}) /\ Cell.v < Len(img.code) /\ Running /\ UNCHANGED capture
  /\ PopPush(1, << >>) /\ Memory /\ UNCHANGED out
  /\ pc' = Cell.v /\ fp' = Below(1) - Top(1) - 1
  /\ frames' = IF Len(frames) < VM_DEPTH
               THEN Append(frames, [ret |-> pc + 5, fp |-> fp]) ELSE frames

CallFn_operand ==
  /\ Step({"Call"}) /\ Cell.v < Len(img.code) /\ Running /\ UNCHANGED capture
  /\ PopPush(1, << >>) /\ Memory /\ UNCHANGED out
  /\ pc' = Cell.v /\ fp' = Below(1) - Top(1)
  /\ frames' = Append(frames, [ret |-> pc + 1, fp |-> fp])

(* A call saves its frame while there is room; beyond that it still jumps. *)
CallFn ==
  /\ Step({"Call"})
  /\ PopPush(1, << >>) /\ Memory /\ UNCHANGED out
  /\ IF Cell.v >= Len(img.code)
     THEN Stop("halted") /\ NextPc /\ Calls
     ELSE /\ Running /\ UNCHANGED capture
          /\ pc' = Cell.v
          /\ fp' = Below(1) - Top(1)
          /\ frames' = IF Len(frames) < VM_DEPTH
                       THEN Append(frames, [ret |-> pc + 5, fp |-> fp]) ELSE frames

(* The stack falls back to the callee's first local and takes the result.  *)
Return ==
  /\ Step({"Ret"}) /\ Memory /\ UNCHANGED out
  /\ IF frames = << >>
     THEN Stop("halted") /\ NextPc /\ Calls /\ PopPush(1, << >>)
     ELSE LET f == Last(frames)
          IN  /\ Running /\ UNCHANGED capture
              /\ frames' = Front(frames) /\ fp' = f.fp /\ pc' = f.ret
              /\ IF fp \in 0..VM_STACK_SLOTS - 1
                 THEN stack' = [stack EXCEPT ![fp] = Top(1)] /\ sp' = fp + 1
                 ELSE UNCHANGED stack /\ sp' = fp

(* A store above the top takes the top with it.                            *)
Local ==
  /\ Step({"LoadLocal", "StoreLocal"}) /\ Plain
  /\ LET t  == fp + Cell.v
         in == t \in 0..VM_STACK_SLOTS - 1
     IN  CASE Op = "LoadLocal" -> PopPush(0, <<IF in THEN stack[t] ELSE 0>>)
           [] ~in -> PopPush(1, << >>)
           [] OTHER -> /\ stack' = [stack EXCEPT ![t] = Top(1)]
                       /\ sp' = IF t >= Below(1) THEN t + 1 ELSE Below(1)

RunsOut_no_limit ==
  /\ status = "running" /\ pc >= Len(img.code) /\ Stop("halted")
  /\ UNCHANGED <<origin, img, pc, stack, sp, out, steps>> /\ Memory /\ Calls

(* The loop's two other exits: past the code, and too many instructions.   *)
RunsOut ==
  /\ status = "running"
  /\ \/ /\ pc >= Len(img.code) /\ Stop("halted") /\ UNCHANGED steps
     \/ /\ pc < Len(img.code) /\ steps + 1 >= VM_MAX_STEPS
        /\ Stop("timeout") /\ steps' = steps + 1
  /\ UNCHANGED <<origin, img, pc, stack, sp, out>> /\ Memory /\ Calls

---------------------------------------------------------------------------
(* Heap and memory.  Memory outside the program's blocks reads as junk; a  *)
(* store there is a write into the kernel and ends what the model can say. *)

Allocated(bytes, junk) ==
  mem' = mem @@ [a \in {next + 4 * i : i \in 0..((bytes + 3) \div 4) - 1} |-> junk]

(* malloc: a block, or null.                                               *)
HeapAlloc ==
  /\ Step({"HeapAlloc", "AllocPage"}) /\ NextPc /\ Running /\ Quiet /\ Calls
  /\ UNCHANGED texts
  /\ \/ /\ PopPush(1, <<next>>)
        /\ \E j \in Junk : Allocated(U(Top(1)), j)
        /\ next' = next + 4 * ((U(Top(1)) + 3) \div 4) + 4
        /\ UNCHANGED starved
     \/ PopPush(1, <<0>>) /\ starved' = TRUE /\ UNCHANGED <<mem, next>>

HeapFree ==
  /\ Step({"HeapFree", "FreePage"}) /\ NextPc /\ Running /\ Quiet /\ Calls
  /\ UNCHANGED <<texts, next, starved>>
  /\ PopPush(1, << >>)
  /\ LET gone == {a \in DOMAIN mem : a >= Top(1) /\ \A b \in Top(1)..a :
                                        (b - Top(1)) % 4 = 0 => b \in DOMAIN mem}
     IN  mem' = [a \in DOMAIN mem \ gone |-> mem[a]]

Load(a, AndThen(_)) == IF a \in DOMAIN mem THEN AndThen(mem[a]) ELSE \E j \in Junk : AndThen(j)

ArrLoad ==
  /\ Step({"ArrLoad"}) /\ Plain
  /\ LET push(v) == PopPush(2, <<v>>)
     IN  IF Top(2) = 0 THEN push(0) ELSE Load(Top(2) + 4 * Top(1), push)

Stored(a, v) == IF a \in DOMAIN mem
                THEN mem' = [mem EXCEPT ![a] = v] /\ Running
                ELSE UNCHANGED mem /\ status' = "wild"

ArrStore ==
  /\ Step({"ArrStore"}) /\ NextPc /\ Quiet /\ Calls
  /\ UNCHANGED <<texts, next, starved>>
  /\ PopPush(3, << >>)
  /\ IF Top(3) = 0 THEN UNCHANGED mem /\ Running
     ELSE Stored(Top(3) + 4 * Top(1), Top(2))

Width(op) == CASE op \in {"Peek8", "Poke8"} -> 256
               [] op \in {"Peek16", "Poke16"} -> 65536
               [] OTHER -> 2 * WORD

PeekOp ==
  /\ Step({"Peek8", "Peek16", "Peek32"}) /\ Plain
  /\ LET push(v) == PopPush(1, <<Wrap(U(v) % Width(Op))>>) IN Load(Top(1), push)

PokeOp ==
  /\ Step({"Poke8", "Poke16", "Poke32"}) /\ NextPc /\ Quiet /\ Calls
  /\ UNCHANGED <<texts, next, starved>>
  /\ PopPush(2, << >>)
  /\ Stored(Top(2), Wrap(U(Top(1)) % Width(Op)))

---------------------------------------------------------------------------
(* Strings.  Most operations take texts of the pool only: to them a string *)
(* on the heap is empty.                                                   *)

IsTagged(v)  == v < 0
PoolText(v)  == IF IsTagged(v) /\ v + WORD < Len(img.pool)
                THEN img.pool[v + WORD + 1] ELSE ""
AnyText(v)   == IF IsTagged(v) THEN PoolText(v)
                ELSE IF v \in DOMAIN texts THEN texts[v] ELSE ""

StrToInt(text) ==
  LET neg  == Peek(text, 1) = "-"
      from == IF neg THEN 2 ELSE 1
      n    == ValueOf(text, from, FirstNotIn(text, from, Digits), 10, 0)
  IN  IF neg THEN Wrap(-n) ELSE n

(* First occurrence, counted from 0; an empty needle is found at once.     *)
StrFind(hay, needle) ==
  LET S == {i \in 1..Len(hay) - Len(needle) + 1 :
              SubSeq(hay, i, i + Len(needle) - 1) = needle}
  IN  IF needle = "" THEN 0 ELSE IF S = {} THEN -1 ELSE Least(S) - 1

(* start and length are unsigned and cut at the end of the text.           *)
StrSub(text, start, len) ==
  LET a == IF start < 0 \/ start > Len(text) THEN Len(text) ELSE start
      n == IF len < 0 \/ len > Len(text) - a THEN Len(text) - a ELSE len
  IN  SubSeq(text, a + 1, a + n)

StringQuery ==
  /\ Step({"StrLen", "StrCmp", "StrFind", "StrToInt", "StrByte"}) /\ Plain
  /\ CASE Op = "StrLen"   -> PopPush(1, <<Len(PoolText(Top(1)))>>)
       [] Op = "StrCmp"   -> PopPush(2, <<Bool(PoolText(Top(2)) = PoolText(Top(1)))>>)
       [] Op = "StrFind"  -> PopPush(2, <<StrFind(PoolText(Top(2)), PoolText(Top(1)))>>)
       [] Op = "StrToInt" -> PopPush(1, <<StrToInt(AnyText(Top(1)))>>)
       [] Op = "StrByte"  -> PopPush(1, <<CodeOf(Peek(AnyText(Top(1)), 1))>>)

(* A text made on the heap; without memory the result is fallback.         *)
MakesText(pops, text, fallback) ==
  \/ /\ PopPush(pops, <<next>>) /\ texts' = texts @@ (next :> text)
     /\ next' = next + 4 * (Len(text) \div 4) + 8
     /\ UNCHANGED <<mem, starved>>
  \/ /\ PopPush(pops, <<fallback>>) /\ starved' = TRUE
     /\ UNCHANGED <<mem, texts, next>>

StringMake ==
  /\ Step({"StrCat", "StrSub"})
  /\ NextPc /\ Running /\ Quiet /\ Calls
  /\ CASE Op = "StrCat" -> MakesText(2, PoolText(Top(2)) \o PoolText(Top(1)), 0)
       [] Op = "StrSub" -> MakesText(3, StrSub(PoolText(Top(3)), Top(2), Top(1)), 0)

---------------------------------------------------------------------------
(* Terminal, keyboard, files.                                              *)

Say(kind, v) == out' = Append(out, <<kind, v>>)

PrintOp ==
  /\ Step({"Print", "PrintNum", "PrintChar", "PrintHex", "PrintStr"})
  /\ NextPc /\ Running /\ Memory /\ Calls /\ UNCHANGED capture
  /\ PopPush(1, << >>)
  /\ LET v == Top(1)
     IN  CASE Op = "Print" /\ IsTagged(v) -> Say("text", PoolText(v))
           [] Op = "PrintStr"  -> Say("text", AnyText(v))
           [] Op = "PrintChar" -> Say("char", U(v) % 256)
           [] Op = "PrintHex"  -> Say("hex", U(v))
           [] OTHER            -> Say("num", v)

(* Without memory for the line, input is the first text of the pool.       *)
InputOp ==
  /\ Step({"Input"}) /\ NextPc /\ Running /\ Quiet /\ Calls
  /\ \E line \in Inputs : MakesText(0, line, 0 - WORD)

PollScancode ==
  /\ Step({"PollScancode"}) /\ NextPc /\ Running /\ Memory /\ Calls
  /\ UNCHANGED out
  /\ capture' = TRUE
  /\ \E j \in Junk : PopPush(0, <<j>>)

---------------------------------------------------------------------------
(* Devices, by what they do to the value stack: values popped and pushed.  *)

DeviceOps ==
  [op \in {"In8", "In16", "In32"} |-> <<1, 1>>]
  @@ [op \in {"Out8", "Out16", "Out32"} |-> <<2, 0>>]
  @@ [op \in {"MemCpy", "MemSet"} |-> <<3, 0>>]
  @@ [op \in {"PitSetHz", "SleepMs"} |-> <<1, 0>>]
  @@ ("GetTicks" :> <<0, 1>>) @@ ("Cpuid" :> <<1, 4>>)
AsmOps ==
  [op \in {"AsmNop", "AsmCli", "AsmSti", "AsmHlt", "AsmWbinvd", "AsmClts", "AsmInt"}
     |-> <<0, 0>>]
  @@ [op \in {"AsmPushfd", "GetCr2"} |-> <<0, 1>>]
  @@ [op \in {"AsmPopfd", "AsmLidt", "AsmLgdt", "AsmInvlpg"} |-> <<1, 0>>]

Device ==
  /\ Step(DOMAIN DeviceOps \cup DOMAIN AsmOps)
  /\ NextPc /\ Running /\ Quiet /\ Memory /\ Calls
  /\ LET eff == IF Op \in DOMAIN AsmOps THEN AsmOps[Op] ELSE DeviceOps[Op]
     IN  \E j \in Junk : PopPush(eff[1], [i \in 1..eff[2] |-> j])

(* A call of prp or fetch takes its arguments and leaves a result.         *)
LibraryCall ==
  /\ Step({"Library"})
  /\ NextPc /\ Running /\ Quiet /\ Memory /\ Calls
  /\ \E j \in Junk : PopPush(Cell.v, <<j>>)

AssertOp ==
  /\ Step({"Assert"}) /\ NextPc /\ Memory /\ Calls
  /\ PopPush(2, << >>)
  /\ IF Top(2) = 0 THEN Say("assert", PoolText(Top(1))) /\ Stop("halted")
     ELSE Running /\ UNCHANGED <<out, capture>>

---------------------------------------------------------------------------
Instruction ==
  \/ StackOp \/ Arithmetic \/ UnaryOp \/ Jump \/ CallFn \/ Return \/ Local
  \/ HeapAlloc \/ HeapFree \/ ArrLoad \/ ArrStore \/ PeekOp \/ PokeOp
  \/ StringQuery \/ StringMake \/ PrintOp \/ InputOp \/ PollScancode \/ Device
  \/ LibraryCall \/ AssertOp \/ RunsOut
============================================================================
