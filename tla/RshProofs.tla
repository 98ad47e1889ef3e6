------------------------------- MODULE RshProofs -------------------------------
(***************************************************************************)
(* The theorems of Rsh, for every set of scripts and every size of its     *)
(* tables.                                                                 *)
(***************************************************************************)
EXTENDS Rsh, FiniteSetTheorems, SequenceTheorems, WellFoundedInduction, TLAPS

-----------------------------------------------------------------------------
(* The inductive invariant.  Its parts are written of any stack st, value  *)
(* r, context c, buffers L and filled length hd of the pool: an action is a *)
(* few pushes, pops and changes of the top frame, and what lies between    *)
(* two of them is not a state of the engine.                               *)

\* All strings: the provers take no literal to be in STRING.
Text == STRING \cup {"", "ARG_COUNT", "n", "key", "val", "v", "ITER"}
        \cup {ArgNames[i] : i \in 1 .. Len(ArgNames)}

Var     == [name : Text, val : Text]
Table   == [Slots -> Var]
Func    == [used : BOOLEAN, start : Nat, count : Nat, one_time : BOOLEAN,
            has_run : BOOLEAN, recursive : BOOLEAN]
Context ==
  [vars : Table, funcs : [FuncNames -> Func],
   call_stack : [1 .. MAX_CALL_STACK -> [func_name : Text, saved : Table]],
   once_tags : SUBSET Text, call_depth : 0 .. MAX_CALL_STACK,
   in_function : BOOLEAN, break_flag : BOOLEAN, continue_flag : BOOLEAN,
   return_flag : BOOLEAN, include_depth : Nat, with_map : Text]
Buffers == [0 .. BUFFERS - 1 -> Seq(ScriptLines)]
Pool    == [1 .. FUNC_POOL_SIZE -> ScriptLines]

Place == Nat \ {0}
Slice == [where : {"file", "pool"}, base : Nat, len : Nat]
Word(ops) == {l \in ScriptLines : l.op \in ops}

ScanFrames   == [k : {"scan"}, s : Slice, at : Place, main : BOOLEAN,
                 file : DOMAIN FILES, depth : Nat]
FileFrames   == [k : {"file"}, s : Slice, file : DOMAIN FILES, depth : Nat]
BlockFrames  == [k : {"block"}, s : Slice, at : Place, end : Int]
LineFrames   == [k : {"line"}, line : ScriptLines]
CallFrames   == [k : {"call"}, name : FuncNames, prev : BOOLEAN, before : Table,
                 body : Seq(ScriptLines), s : Slice]
IfFrames     == [k : {"if"}, endif : Nat]
RepeatFrames == [k : {"loop"}, line : Word({"repeat"}), left : Nat]
LoopFrames   == [k : {"loop"}, line : Word(Loops), s : Slice, at : Place,
                 end : Nat, left : Nat, prev : Text]
SwitchFrames == [k : {"switch"}, s : Slice, at : Place, end : Nat,
                 matched : BOOLEAN, arm : {"", "case", "default"}]
Frame == ScanFrames \cup FileFrames \cup BlockFrames \cup LineFrames \cup CallFrames
         \cup IfFrames \cup RepeatFrames \cup LoopFrames \cup SwitchFrames

IsRepeat(f) == f.k = "loop" /\ f.line.op = "repeat"
IsWith(f)   == f.k = "loop" /\ f.line.op = "with"
IsTurn(f)   == f.k = "loop" /\ ClearsFlags(f.line.op)

\* A slice of a buffer or of the filled part of the pool.
InBounds(s, L, hd) ==
  IF s.where = "file" THEN s.base \in 0 .. BUFFERS - 1 /\ s.len <= Len(L[s.base])
  ELSE s.base + s.len <= hd

\* A frame runs lines that exist, and a file runs its own lines.
FrameOK(f, L, hd) ==
  /\ f.k \in {"scan", "file", "block", "call", "switch"} => InBounds(f.s, L, hd)
  /\ f.k = "loop" /\ ~IsRepeat(f) => InBounds(f.s, L, hd)
  /\ f.k \in {"scan", "file"} =>
       /\ f.depth < MAX_INCLUDE_DEPTH
       /\ f.s = [where |-> "file", base |-> Buffer(f.depth), len |-> Len(FILES[f.file])]
       /\ f.depth < BUFFERS - 1 =>
            [i \in 1 .. f.s.len |-> L[f.s.base][i]] = FILES[f.file]

\* The frames of a stack from the bottom up.
Level(st, h)   == st[Len(st) + 1 - h]
Kind(st, kind) == {h \in 1 .. Len(st) : Level(st, h).k = kind}
Withs(st)      == {h \in 1 .. Len(st) : IsWith(Level(st, h))}

\* What f may lie on when it is the frame at height h of st: the executor of
\* a block's construct on that block, a file or its scan on the scans of the
\* files that include it, a line on the block or the repeat that runs it.
LiesOn(st, h, f) ==
  /\ f.k \in {"if", "switch"} \/ (f.k = "loop" /\ ~IsRepeat(f)) =>
       h > 1 /\ Level(st, h - 1).k = "block"
  /\ f.k \in {"scan", "file"} =>
       f.depth = h - 1 /\ \A g \in 1 .. h - 1 : Level(st, g).k = "scan"
  /\ f.k = "line" \/ IsRepeat(f) =>
       h = 1 \/ Level(st, h - 1).k = "block" \/ IsRepeat(Level(st, h - 1))

Layered(st, r) ==
  \A h \in 1 .. Len(st) :
    /\ LiesOn(st, h, Level(st, h))
    /\ Level(st, h).k = "line" => h = Len(st) /\ r = NoRet

\* The files counted by include_depth are those at the bottom of the stack.
Entered(st, r) ==
  {h \in 1 .. Len(st) : \/ Level(st, h).k = "file"
                        \/ (Level(st, h).k = "scan" /\ (h < Len(st) \/ r # NoRet))}

Included(st, r, c) ==
  /\ Entered(st, r) = 1 .. c.include_depth
  /\ st # << >> /\ st[1].k = "scan" /\ r = NoRet => Len(st) = c.include_depth + 1

\* The calls are those of the call stack, in order, with what they saved.
Called(st, c) ==
  LET calls == Kind(st, "call") IN
  /\ c.call_depth = Cardinality(calls)
  /\ c.in_function = (calls # {})
  /\ \A h \in calls :
       LET f == Level(st, h)
           s == c.call_stack[Cardinality(calls \cap 1 .. h)]
       IN  /\ s.func_name = f.name /\ s.saved = f.before
           /\ f.prev = (calls \cap 1 .. h - 1 # {})

\* The map in scope is that of the last with-block, which keeps the one of
\* the block before it.
MapOf(st, S) == IF S = {} THEN "" ELSE Level(st, Max(S)).line.map

Mapped(st, c) ==
  /\ c.with_map = MapOf(st, Withs(st))
  /\ \A h \in Withs(st) : Level(st, h).prev = MapOf(st, Withs(st) \cap 1 .. h - 1)

Sound(st, r, c, L, hd) ==
  /\ st \in Seq(Frame)
  /\ \A h \in 1 .. Len(st) : FrameOK(Level(st, h), L, hd)
  /\ Layered(st, r) /\ Included(st, r, c) /\ Called(st, c) /\ Mapped(st, c)

\* The flags inside a while or for: a loop that runs has none set, nor has a
\* line run by a block; break and continue are set together only in the body
\* of a repeat, which clears the break.
Looping(st) == \E i \in 1 .. Len(st) : IsTurn(st[i])

Flags(st, r, c) ==
  /\ st # << >> /\ r = NoRet =>
       /\ IsTurn(st[1]) => ~c.break_flag /\ ~c.continue_flag
       /\ st[1].k = "line" /\ Len(st) > 1 /\ st[2].k = "block" =>
            ~c.break_flag /\ ~c.continue_flag /\ ~c.return_flag
       /\ st[1].k \in {"line", "loop"} /\ Looping(st) => ~c.break_flag /\ ~c.return_flag
  /\ Looping(st) /\ c.break_flag /\ c.continue_flag =>
       st # << >> /\ r # NoRet /\ IsRepeat(st[1])

\* The functions' slices of the pool do not overlap, and hold their bodies.
Apart(f, g) == f.start + f.count <= g.start \/ g.start + g.count <= f.start
BodyAt(f, P) == [i \in 1 .. f.count |-> P[f.start + i]]

PoolOK(c, P, hd, def) ==
  /\ hd \in 0 .. FUNC_POOL_SIZE
  /\ P \in Pool
  /\ def \in [FuncNames -> Seq(ScriptLines)]
  /\ \A n \in UsedFuncs(c) :
       /\ c.funcs[n].start + c.funcs[n].count <= hd
       /\ BodyAt(c.funcs[n], P) = def[n]
  /\ \A n, m \in UsedFuncs(c) : n # m => Apart(c.funcs[n], c.funcs[m])

RshTables ==
  /\ ctx \in Context
  /\ LINES \in Buffers
  /\ ret \in {NoRet, Ok, Fail}
  /\ IsFiniteSet(ctx.once_tags) /\ Cardinality(ctx.once_tags) <= MAX_ONCE_TAGS
  /\ PoolOK(ctx, FUNC_BODY_POOL, FUNC_POOL_HEAD, defined)

RshInv ==
  /\ RshTables
  /\ Sound(stack, ret, ctx, LINES, FUNC_POOL_HEAD)
  /\ Flags(stack, ret, ctx)

-----------------------------------------------------------------------------
(* Stacks.                                                                 *)

\* What a stack is with a frame more, one less, and another top.
LEMMA Pushed ==
  ASSUME NEW S, NEW st \in Seq(S), NEW f \in S
  PROVE  LET t == <<f>> \o st IN
         /\ t \in Seq(S) /\ Len(t) = Len(st) + 1 /\ t # << >>
         /\ t[1] = f /\ Level(t, Len(t)) = f /\ Tail(t) = st
         /\ \A h \in 1 .. Len(st) : Level(t, h) = Level(st, h)
         /\ \A i \in 1 .. Len(st) : t[i + 1] = st[i]
<1>. DEFINE t == <<f>> \o st
<1>1. <<f>> \in Seq(S) /\ Len(<<f>>) = 1 /\ Len(st) \in Nat
  OBVIOUS
<1>2. t \in Seq(S) /\ Len(t) = Len(st) + 1
  BY <1>1
<1>3. t[1] = f
  BY <1>1
<1>4. \A i \in 1 .. Len(st) : t[i + 1] = st[i]
  BY <1>1
<1>5. ASSUME NEW h \in 1 .. Len(st)
      PROVE  Level(t, h) = Level(st, h)
  <2>1. Len(st) + 1 - h \in 1 .. Len(st) /\ Len(t) + 1 - h = (Len(st) + 1 - h) + 1
    BY <1>1, <1>2
  <2>. QED  BY <2>1, <1>4 DEF Level
<1>6. Level(t, Len(t)) = f
  BY <1>1, <1>2, <1>3 DEF Level
<1>7. t # << >>
  BY <1>1, <1>2
<1>8. Tail(t) = st
  <2>1. Tail(t) \in Seq(S) /\ Len(Tail(t)) = Len(st) /\ \A i \in 1 .. Len(st) : Tail(t)[i] = st[i]
    BY <1>2, <1>4, <1>7, HeadTailProperties
  <2>. QED  BY <2>1, SeqEqual
<1>. QED  BY <1>2, <1>3, <1>4, <1>5, <1>6, <1>7, <1>8

LEMMA Popped ==
  ASSUME NEW S, NEW st \in Seq(S), st # << >>
  PROVE  /\ Tail(st) \in Seq(S) /\ Len(Tail(st)) = Len(st) - 1
         /\ Len(st) \in Nat \ {0} /\ st[1] \in S /\ Level(st, Len(st)) = st[1]
         /\ \A h \in 1 .. Len(st) - 1 : Level(Tail(st), h) = Level(st, h)
         /\ \A i \in 1 .. Len(st) - 1 : Tail(st)[i] = st[i + 1]
<1>1. /\ Tail(st) \in Seq(S) /\ Len(Tail(st)) = Len(st) - 1 /\ Len(st) \in Nat \ {0}
      /\ \A i \in 1 .. Len(st) - 1 : Tail(st)[i] = st[i + 1]
  <2>1. Len(st) \in Nat /\ Len(st) # 0
    BY EmptySeq
  <2>. QED  BY <2>1, HeadTailProperties
<1>2. st[1] \in S
  BY <1>1, ElementOfSeq
<1>3. ASSUME NEW h \in 1 .. Len(st) - 1
      PROVE  Level(Tail(st), h) = Level(st, h)
  <2>1. Len(st) - h \in 1 .. Len(st) - 1 /\ Len(Tail(st)) + 1 - h = Len(st) - h
        /\ (Len(st) - h) + 1 = Len(st) + 1 - h
    BY <1>1
  <2>. QED  BY <2>1, <1>1 DEF Level
<1>4. Level(st, Len(st)) = st[1]
  BY <1>1 DEF Level
<1>. QED  BY <1>1, <1>2, <1>3, <1>4

\* The largest of a set of places.
LEMMA MaxIs ==
  ASSUME NEW S \in SUBSET Int, NEW m \in S, \A x \in S : x <= m
  PROVE  Max(S) = m
<1>1. Max(S) \in S /\ \A x \in S : Max(S) >= x
  BY DEF Max
<1>2. Max(S) \in Int /\ m \in Int /\ Max(S) >= m /\ Max(S) <= m
  BY <1>1
<1>. QED  BY <1>2

LEMMA MaxIn ==
  ASSUME NEW n \in Nat, NEW S \in SUBSET (0 .. n), S # {}
  PROVE  Max(S) \in S /\ \A x \in S : x <= Max(S)
<1>. DEFINE D == {n - x : x \in S}
<1>1. PICK d \in D : \A e \in D : ~(<<e, d>> \in OpToRel(<, Nat))
  <2>1. D \subseteq Nat /\ D # {}
    OBVIOUS
  <2>. QED  BY <2>1, NatLessThanWellFounded, WFMin, Zenon
<1>2. PICK m \in S : d = n - m
  BY <1>1
<1>3. ASSUME NEW x \in S PROVE x <= m
  <2>1. n - x \in D /\ n - x \in Nat /\ d \in Nat
    BY <1>2
  <2>2. ~(n - x < d)
    BY <1>1, <2>1 DEF OpToRel
  <2>. QED  BY <1>2, <2>2
<1>. QED  BY <1>2, <1>3, MaxIs

LEMMA MinIn ==
  ASSUME NEW S \in SUBSET Nat, S # {}
  PROVE  Min(S) \in S
<1>1. PICK m \in S : \A e \in S : ~(<<e, m>> \in OpToRel(<, Nat))
  <2>1. S \subseteq Nat
    OBVIOUS
  <2>. QED  BY <2>1, NatLessThanWellFounded, WFMin, Zenon
<1>2. ASSUME NEW x \in S PROVE m <= x
  <2>1. x \in Nat /\ m \in Nat
    OBVIOUS
  <2>2. ~(x < m)
    BY <1>1, <2>1 DEF OpToRel
  <2>. QED  BY <2>1, <2>2
<1>. QED  BY <1>2 DEF Min

-----------------------------------------------------------------------------
(* The invariant of a stack, from that of the stack under its top.  Value  *)
(* q is any value a frame waits for: none is running.                      *)

LEMMA UpTo ==
  ASSUME NEW n \in Nat \ {0}
  PROVE  /\ 1 .. n = (1 .. n - 1) \cup {n}
         /\ n \notin 1 .. n - 1
OBVIOUS

LEMMA KindTail ==
  ASSUME NEW t \in Seq(Frame), t # << >>, NEW kind
  PROVE  /\ Kind(t, kind) \cap 1 .. Len(t) - 1 = Kind(Tail(t), kind)
         /\ Len(t) \in Kind(t, kind) <=> t[1].k = kind
         /\ Kind(t, kind) \subseteq 1 .. Len(t)
<1>1. /\ Len(t) \in Nat \ {0} /\ Len(Tail(t)) = Len(t) - 1 /\ Level(t, Len(t)) = t[1]
      /\ \A h \in 1 .. Len(t) - 1 : Level(Tail(t), h) = Level(t, h)
  BY Popped
<1>. QED  BY <1>1 DEF Kind

LEMMA WithsTail ==
  ASSUME NEW t \in Seq(Frame), t # << >>
  PROVE  /\ Withs(t) \cap 1 .. Len(t) - 1 = Withs(Tail(t))
         /\ Len(t) \in Withs(t) <=> IsWith(t[1])
         /\ Withs(t) \subseteq 1 .. Len(t)
<1>1. /\ Len(t) \in Nat \ {0} /\ Len(Tail(t)) = Len(t) - 1 /\ Level(t, Len(t)) = t[1]
      /\ \A h \in 1 .. Len(t) - 1 : Level(Tail(t), h) = Level(t, h)
  BY Popped
<1>. QED  BY <1>1 DEF Withs

LEMMA LiesOnTail ==
  ASSUME NEW t \in Seq(Frame), t # << >>, NEW h \in 1 .. Len(t), NEW f
  PROVE  LiesOn(t, h, f) <=> LiesOn(Tail(t), h, f)
<1>1. /\ Len(t) \in Nat \ {0}
      /\ \A g \in 1 .. Len(t) - 1 : Level(Tail(t), g) = Level(t, g)
  BY Popped
<1>2. \A g \in 1 .. h - 1 : Level(Tail(t), g) = Level(t, g)
  BY <1>1
<1>3. h > 1 => h - 1 \in 1 .. h - 1
  BY <1>1
<1>4. h = 1 \/ h > 1
  BY <1>1
<1>. QED  BY <1>2, <1>3, <1>4 DEF LiesOn

LEMMA LayeredTail ==
  ASSUME NEW t \in Seq(Frame), t # << >>, NEW r, NEW q, q # NoRet
  PROVE  Layered(t, r) <=> /\ Layered(Tail(t), q)
                           /\ LiesOn(Tail(t), Len(t), t[1])
                           /\ t[1].k = "line" => r = NoRet
<1>1. /\ Len(t) \in Nat \ {0} /\ Len(Tail(t)) = Len(t) - 1 /\ Level(t, Len(t)) = t[1]
      /\ \A h \in 1 .. Len(t) - 1 : Level(Tail(t), h) = Level(t, h)
  BY Popped
<1>2. \A h \in 1 .. Len(t) - 1 :
        LiesOn(t, h, Level(t, h)) <=> LiesOn(Tail(t), h, Level(Tail(t), h))
  BY <1>1, LiesOnTail
<1>3. LiesOn(t, Len(t), Level(t, Len(t))) <=> LiesOn(Tail(t), Len(t), t[1])
  BY <1>1, LiesOnTail
<1>4. 1 .. Len(t) = (1 .. Len(t) - 1) \cup {Len(t)} /\ Len(t) \notin 1 .. Len(t) - 1
  BY <1>1, UpTo
<1>5. Layered(t, r) <=> /\ \A h \in 1 .. Len(t) - 1 : /\ LiesOn(t, h, Level(t, h))
                                                     /\ Level(t, h).k # "line"
                        /\ LiesOn(t, Len(t), t[1])
                        /\ t[1].k = "line" => r = NoRet
  BY <1>1, <1>4, Zenon DEF Layered
<1>6. Layered(Tail(t), q) <=> \A h \in 1 .. Len(t) - 1 :
                                /\ LiesOn(Tail(t), h, Level(Tail(t), h))
                                /\ Level(Tail(t), h).k # "line"
  BY <1>1, Zenon DEF Layered
<1>. QED  BY <1>1, <1>2, <1>3, <1>5, <1>6, Zenon

LEMMA EnteredTail ==
  ASSUME NEW t \in Seq(Frame), t # << >>, NEW r, NEW q, q # NoRet
  PROVE  /\ t[1].k = "file" \/ (t[1].k = "scan" /\ r # NoRet)
              => Entered(t, r) = Entered(Tail(t), q) \cup {Len(t)}
         /\ ~(t[1].k = "file" \/ (t[1].k = "scan" /\ r # NoRet))
              => Entered(t, r) = Entered(Tail(t), q)
<1>1. /\ Len(t) \in Nat \ {0} /\ Len(Tail(t)) = Len(t) - 1 /\ Level(t, Len(t)) = t[1]
      /\ \A h \in 1 .. Len(t) - 1 : Level(Tail(t), h) = Level(t, h)
  BY Popped
<1>2. 1 .. Len(t) = (1 .. Len(t) - 1) \cup {Len(t)} /\ Len(t) \notin 1 .. Len(t) - 1
  BY <1>1, UpTo
<1>3. \A h \in 1 .. Len(t) - 1 : h < Len(t)
  BY <1>1
<1>4. \A h \in 1 .. Len(t) - 1 : h \in Entered(t, r) <=> h \in Entered(Tail(t), q)
  BY <1>1, <1>2, <1>3 DEF Entered
<1>5. Len(t) \in Entered(t, r) <=> t[1].k = "file" \/ (t[1].k = "scan" /\ r # NoRet)
  BY <1>1, <1>2 DEF Entered
<1>6. Entered(t, r) \subseteq 1 .. Len(t) /\ Entered(Tail(t), q) \subseteq 1 .. Len(t) - 1
  BY <1>1 DEF Entered
<1>. QED  BY <1>2, <1>4, <1>5, <1>6

LEMMA MapTail ==
  ASSUME NEW t \in Seq(Frame), t # << >>, NEW S \in SUBSET (1 .. Len(t) - 1)
  PROVE  MapOf(t, S) = MapOf(Tail(t), S)
<1>1. /\ Len(t) \in Nat \ {0}
      /\ \A h \in 1 .. Len(t) - 1 : Level(Tail(t), h) = Level(t, h)
  BY Popped
<1>2. S # {} => Max(S) \in 1 .. Len(t) - 1
  <2>1. S \in SUBSET (0 .. Len(t)) /\ Len(t) \in Nat
    BY <1>1
  <2>. QED  BY <2>1, MaxIn
<1>. QED  BY <1>1, <1>2 DEF MapOf

\* The calls under the top are the calls, unless the top is one itself.
LEMMA CalledTail ==
  ASSUME NEW t \in Seq(Frame), t # << >>, t[1].k # "call", NEW c
  PROVE  Called(t, c) <=> Called(Tail(t), c)
<1>1. /\ Len(t) \in Nat \ {0} /\ Level(t, Len(t)) = t[1]
      /\ \A h \in 1 .. Len(t) - 1 : Level(Tail(t), h) = Level(t, h)
  BY Popped
<1>2. 1 .. Len(t) = (1 .. Len(t) - 1) \cup {Len(t)}
  BY <1>1, UpTo
<1>3. Kind(t, "call") = Kind(Tail(t), "call") /\ Kind(Tail(t), "call") \subseteq 1 .. Len(t) - 1
  <2>1. /\ Kind(t, "call") \cap 1 .. Len(t) - 1 = Kind(Tail(t), "call")
        /\ Len(t) \notin Kind(t, "call") /\ Kind(t, "call") \subseteq 1 .. Len(t)
    BY KindTail
  <2>. QED  BY <1>2, <2>1, Zenon
<1>. QED  BY <1>1, <1>3, Zenon DEF Called

LEMMA MappedTail ==
  ASSUME NEW t \in Seq(Frame), t # << >>, ~IsWith(t[1]), NEW c
  PROVE  Mapped(t, c) <=> Mapped(Tail(t), c)
<1>1. /\ Len(t) \in Nat \ {0} /\ Level(t, Len(t)) = t[1]
      /\ \A h \in 1 .. Len(t) - 1 : Level(Tail(t), h) = Level(t, h)
  BY Popped
<1>2. 1 .. Len(t) = (1 .. Len(t) - 1) \cup {Len(t)}
  BY <1>1, UpTo
<1>3. Withs(t) = Withs(Tail(t)) /\ Withs(t) \subseteq 1 .. Len(t) - 1
  <2>1. /\ Withs(t) \cap 1 .. Len(t) - 1 = Withs(Tail(t))
        /\ Len(t) \notin Withs(t) /\ Withs(t) \subseteq 1 .. Len(t)
    BY WithsTail
  <2>. QED  BY <1>2, <2>1, Zenon
<1>4. MapOf(t, Withs(t)) = MapOf(Tail(t), Withs(Tail(t)))
  BY <1>3, MapTail
<1>5. \A h \in Withs(t) :
        MapOf(t, Withs(t) \cap 1 .. h - 1) = MapOf(Tail(t), Withs(Tail(t)) \cap 1 .. h - 1)
  BY <1>3, MapTail
<1>. QED  BY <1>1, <1>3, <1>4, <1>5, Zenon DEF Mapped

LEMMA FramesTail ==
  ASSUME NEW t \in Seq(Frame), t # << >>, NEW L, NEW hd
  PROVE  (\A h \in 1 .. Len(t) : FrameOK(Level(t, h), L, hd))
         <=> /\ \A h \in 1 .. Len(Tail(t)) : FrameOK(Level(Tail(t), h), L, hd)
             /\ FrameOK(t[1], L, hd)
<1>1. /\ Len(t) \in Nat \ {0} /\ Level(t, Len(t)) = t[1] /\ Len(Tail(t)) = Len(t) - 1
      /\ \A h \in 1 .. Len(t) - 1 : Level(Tail(t), h) = Level(t, h)
  BY Popped
<1>2. 1 .. Len(t) = (1 .. Len(t) - 1) \cup {Len(t)}
  BY <1>1, UpTo
<1>. QED  BY <1>1, <1>2, Zenon

\* The context's part in Sound.
Counts(c) == <<c.include_depth, c.call_depth, c.call_stack, c.in_function, c.with_map>>

LEMMA SoundSame ==
  ASSUME NEW st, NEW r, NEW c, NEW d, NEW L, NEW hd, Sound(st, r, c, L, hd),
         Counts(d) = Counts(c)
  PROVE  Sound(st, r, d, L, hd)
<1>1. /\ d.include_depth = c.include_depth /\ d.call_depth = c.call_depth
      /\ d.call_stack = c.call_stack /\ d.in_function = c.in_function
      /\ d.with_map = c.with_map
  BY DEF Counts
<1>2. Included(st, r, d)
  BY <1>1 DEF Sound, Included
<1>3. Called(st, d)
  BY <1>1 DEF Sound, Called
<1>4. Mapped(st, d)
  BY <1>1 DEF Sound, Mapped
<1>. QED  BY <1>2, <1>3, <1>4 DEF Sound

\* Only a line and a scan of files tell a value to wait for from none.
LEMMA Retold ==
  ASSUME NEW st, NEW r, NEW q, NEW c, NEW L, NEW hd, Sound(st, r, c, L, hd),
         \/ r # NoRet /\ q # NoRet
         \/ st # << >> /\ st[1].k \notin {"line", "scan"}
         \/ st = << >>
  PROVE  Sound(st, q, c, L, hd)
<1>1. CASE st = << >>
  BY <1>1 DEF Sound, Layered, Included, Entered
<1>2. CASE st # << >>
  <2>1. st \in Seq(Frame) /\ Layered(st, r) /\ Included(st, r, c)
    BY DEF Sound
  <2>2. Layered(st, q)
    <3>1. \/ r # NoRet /\ q # NoRet
          \/ st[1].k \notin {"line", "scan"}
      BY <1>2
    <3>2. PICK w : w # NoRet
      BY DEF NoRet
    <3>3. Layered(Tail(st), w) /\ LiesOn(Tail(st), Len(st), st[1])
          /\ (st[1].k = "line" => r = NoRet)
      BY <1>2, <2>1, <3>2, LayeredTail, Zenon
    <3>4. st[1].k = "line" => q = NoRet
      BY <3>1, <3>3
    <3>. QED  BY <1>2, <2>1, <3>2, <3>3, <3>4, LayeredTail, Zenon
  <2>3. Entered(st, q) = Entered(st, r)
    <3>1. PICK w : w # NoRet
      BY DEF NoRet
    <3>. DEFINE Counted(v) == st[1].k = "file" \/ (st[1].k = "scan" /\ v # NoRet)
                More(v) == /\ Counted(v) => Entered(st, v) = Entered(Tail(st), w) \cup {Len(st)}
                           /\ ~Counted(v) => Entered(st, v) = Entered(Tail(st), w)
    <3>2. More(r) /\ More(q)
      BY <1>2, <2>1, <3>1, EnteredTail
    <3>3. Counted(q) <=> Counted(r)
      BY <1>2
    <3>. QED  BY <3>2, <3>3
  <2>4. Included(st, q, c)
    BY <1>2, <2>1, <2>3 DEF Included
  <2>. QED  BY <2>2, <2>4 DEF Sound
<1>. QED  BY <1>1, <1>2

\* The invariant of a stack whose top is no file, call or with-block.
LEMMA PlainTop ==
  ASSUME NEW t \in Seq(Frame), t # << >>, NEW r, NEW q, q # NoRet, NEW c, NEW L, NEW hd,
         t[1].k \notin {"file", "call"}, ~IsWith(t[1]), t[1].k = "scan" => r = NoRet
  PROVE  Sound(t, r, c, L, hd) <=>
           /\ Sound(Tail(t), q, c, L, hd)
           /\ LiesOn(Tail(t), Len(t), t[1]) /\ FrameOK(t[1], L, hd)
           /\ t[1].k = "line" => r = NoRet
           /\ t[1].k = "scan" => Len(t) = c.include_depth + 1
<1>1. Tail(t) \in Seq(Frame)
  BY Popped
<1>2. Layered(t, r) <=> /\ Layered(Tail(t), q)
                        /\ LiesOn(Tail(t), Len(t), t[1])
                        /\ t[1].k = "line" => r = NoRet
  BY LayeredTail
<1>3. Entered(t, r) = Entered(Tail(t), q)
  BY EnteredTail
<1>4. Included(t, r, c) <=> /\ Included(Tail(t), q, c)
                            /\ t[1].k = "scan" => Len(t) = c.include_depth + 1
  BY <1>3 DEF Included
<1>. QED  BY <1>1, <1>2, <1>4, CalledTail, MappedTail, FramesTail, Zenon DEF Sound

\* Of one whose top is a file, or the scan of one that waits: c counts it.
LEMMA FileTop ==
  ASSUME NEW t \in Seq(Frame), t # << >>, NEW r, NEW q, q # NoRet, NEW c, NEW d, NEW L, NEW hd,
         t[1].k = "file" \/ (t[1].k = "scan" /\ r # NoRet),
         d.include_depth \in Nat, c.include_depth = d.include_depth + 1,
         c.call_depth = d.call_depth, c.call_stack = d.call_stack,
         c.in_function = d.in_function, c.with_map = d.with_map
  PROVE  Sound(t, r, c, L, hd) <=>
           /\ Sound(Tail(t), q, d, L, hd)
           /\ LiesOn(Tail(t), Len(t), t[1]) /\ FrameOK(t[1], L, hd)
           /\ Len(t) = c.include_depth
<1>1. /\ Tail(t) \in Seq(Frame) /\ Len(t) \in Nat \ {0} /\ Len(Tail(t)) = Len(t) - 1
  BY Popped
<1>2. Layered(t, r) <=> /\ Layered(Tail(t), q)
                        /\ LiesOn(Tail(t), Len(t), t[1])
  BY LayeredTail
<1>3. Entered(t, r) = Entered(Tail(t), q) \cup {Len(t)} /\ Entered(Tail(t), q) \subseteq 1 .. Len(t) - 1
  <2>1. Entered(t, r) = Entered(Tail(t), q) \cup {Len(t)}
    BY EnteredTail
  <2>. QED  BY <2>1, <1>1 DEF Entered
<1>4. Entered(t, r) = 1 .. c.include_depth
      <=> Entered(Tail(t), q) = 1 .. d.include_depth /\ Len(t) = c.include_depth
  <2>. DEFINE E == Entered(Tail(t), q)  i == d.include_depth  n == Len(t)
  <2>1. ASSUME E \cup {n} = 1 .. i + 1
        PROVE  E = 1 .. i /\ n = i + 1
    <3>1. n \in 1 .. i + 1 /\ i + 1 \in E \cup {n}
      BY <2>1, <1>1
    <3>2. i + 1 \in E => i + 1 < n
      BY <1>1, <1>3
    <3>3. n = i + 1
      BY <3>1, <3>2, <1>1
    <3>4. i \in Nat /\ 1 .. i + 1 = (1 .. i) \cup {i + 1} /\ i + 1 \notin 1 .. i
      BY UpTo
    <3>5. E \subseteq 1 .. i
      BY <3>3, <1>3
    <3>. QED  BY <2>1, <3>3, <3>4, <3>5, Zenon
  <2>2. ASSUME E = 1 .. i, n = i + 1
        PROVE  E \cup {n} = 1 .. i + 1
    BY <2>2
  <2>. QED  BY <2>1, <2>2, <1>3
<1>5. Included(t, r, c) <=> Included(Tail(t), q, d) /\ Len(t) = c.include_depth
  BY <1>4 DEF Included
<1>6. Called(Tail(t), c) <=> Called(Tail(t), d)
  BY DEF Called
<1>7. Mapped(Tail(t), c) <=> Mapped(Tail(t), d)
  BY DEF Mapped
<1>8. t[1].k # "call" /\ ~IsWith(t[1])
  BY DEF IsWith
<1>. QED  BY <1>1, <1>2, <1>5, <1>6, <1>7, <1>8, CalledTail, MappedTail, FramesTail, Zenon DEF Sound

\* Of one whose top is a with-block: c has its map, d the one it keeps.
LEMMA WithTop ==
  ASSUME NEW t \in Seq(Frame), t # << >>, NEW r, NEW q, q # NoRet, NEW c, NEW d, NEW L, NEW hd,
         IsWith(t[1]), d.with_map = t[1].prev,
         c.include_depth = d.include_depth, c.call_depth = d.call_depth,
         c.call_stack = d.call_stack, c.in_function = d.in_function
  PROVE  Sound(t, r, c, L, hd) <=>
           /\ Sound(Tail(t), q, d, L, hd)
           /\ LiesOn(Tail(t), Len(t), t[1]) /\ FrameOK(t[1], L, hd)
           /\ c.with_map = t[1].line.map
<1>1. /\ Tail(t) \in Seq(Frame) /\ Len(t) \in Nat \ {0} /\ Level(t, Len(t)) = t[1]
      /\ \A h \in 1 .. Len(t) - 1 : Level(Tail(t), h) = Level(t, h)
  BY Popped
<1>2. t[1].k = "loop"
  BY DEF IsWith
<1>3. Layered(t, r) <=> /\ Layered(Tail(t), q)
                        /\ LiesOn(Tail(t), Len(t), t[1])
  BY <1>2, LayeredTail
<1>4. Included(t, r, c) <=> Included(Tail(t), q, d)
  <2>1. Entered(t, r) = Entered(Tail(t), q)
    BY <1>2, EnteredTail
  <2>. QED  BY <1>2, <2>1 DEF Included
<1>5. Called(t, c) <=> Called(Tail(t), d)
  <2>1. Called(Tail(t), c) <=> Called(Tail(t), d)
    BY DEF Called
  <2>. QED  BY <1>2, <2>1, CalledTail
<1>. DEFINE W == Withs(t)  V == Withs(Tail(t))  n == Len(t)
<1>6. /\ V = W \cap 1 .. n - 1 /\ W = V \cup {n} /\ V \subseteq 1 .. n - 1 /\ n \notin 1 .. n - 1
  <2>1. 1 .. n = (1 .. n - 1) \cup {n} /\ n \notin 1 .. n - 1
    BY <1>1, UpTo
  <2>. QED  BY <2>1, WithsTail, Zenon
<1>7. MapOf(t, W) = t[1].line.map
  <2>1. W \in SUBSET Int /\ n \in W /\ \A x \in W : x <= n
    BY <1>1, <1>6
  <2>2. Max(W) = n
    BY <2>1, MaxIs
  <2>. QED  BY <1>1, <2>1, <2>2 DEF MapOf
<1>8. MapOf(t, V) = MapOf(Tail(t), V)
  BY <1>6, MapTail
<1>9. \A h \in V : MapOf(t, W \cap 1 .. h - 1) = MapOf(Tail(t), V \cap 1 .. h - 1)
  <2>. SUFFICES ASSUME NEW h \in V
                PROVE  MapOf(t, W \cap 1 .. h - 1) = MapOf(Tail(t), V \cap 1 .. h - 1)
    OBVIOUS
  <2>1. h \in 1 .. n - 1 /\ n \notin 1 .. h - 1
    BY <1>1, <1>6
  <2>2. W \cap 1 .. h - 1 = V \cap 1 .. h - 1
    BY <1>6, <2>1, Zenon
  <2>. QED  BY <1>6, <2>2, MapTail
<1>10. \A h \in V : Level(Tail(t), h) = Level(t, h)
  BY <1>1, <1>6
<1>11. Mapped(t, c) <=> Mapped(Tail(t), d) /\ c.with_map = t[1].line.map
  <2>. HIDE DEF W, V, n
  <2>1. Mapped(t, c) <=> /\ c.with_map = t[1].line.map
                         /\ Level(t, n).prev = MapOf(t, W \cap 1 .. n - 1)
                         /\ \A h \in V : Level(t, h).prev = MapOf(t, W \cap 1 .. h - 1)
    BY <1>6, <1>7, Zenon DEF Mapped, W
  <2>2. Mapped(Tail(t), d) <=> /\ t[1].prev = MapOf(Tail(t), V)
                               /\ \A h \in V : Level(Tail(t), h).prev = MapOf(Tail(t), V \cap 1 .. h - 1)
    BY Zenon DEF Mapped, V
  <2>3. Level(t, n) = t[1] /\ W \cap 1 .. n - 1 = V
    BY <1>1, <1>6 DEF n
  <2>. QED  BY <1>8, <1>9, <1>10, <2>1, <2>2, <2>3, Zenon
<1>. QED  BY <1>1, <1>3, <1>4, <1>5, <1>11, FramesTail, Zenon DEF Sound

\* How many calls lie at and under one of them.
LEMMA CallsUpTo ==
  ASSUME NEW st \in Seq(Frame), NEW h \in Kind(st, "call")
  PROVE  /\ Cardinality(Kind(st, "call")) \in Nat
         /\ Cardinality(Kind(st, "call") \cap 1 .. h) \in 1 .. Cardinality(Kind(st, "call"))
<1>. DEFINE K == Kind(st, "call")  V == K \cap 1 .. h
<1>1. Len(st) \in Nat /\ K \subseteq 1 .. Len(st)
  BY DEF Kind
<1>2. IsFiniteSet(K)
  <2>1. IsFiniteSet(1 .. Len(st))
    BY <1>1, FS_Interval
  <2>. QED  BY <1>1, <2>1, FS_Subset
<1>3. IsFiniteSet(V) /\ Cardinality(V) <= Cardinality(K)
  BY <1>2, FS_Subset
<1>4. Cardinality(V) \in Nat /\ Cardinality(K) \in Nat
  BY <1>2, <1>3, FS_CardinalityType
<1>5. V # {}
  <2>1. h \in 1 .. h
    BY <1>1
  <2>. QED  BY <2>1
<1>6. Cardinality(V) # 0
  BY <1>3, <1>5, FS_EmptySet
<1>. QED  BY <1>3, <1>4, <1>6

\* Of one whose top is a call: c is the context of the callee, d that of
\* the caller.
LEMMA CallTop ==
  ASSUME NEW t \in Seq(Frame), t # << >>, NEW r, NEW q, q # NoRet, NEW c, NEW d, NEW L, NEW hd,
         t[1].k = "call", d.in_function = t[1].prev, d.call_depth \in Nat,
         c.call_depth = d.call_depth + 1,
         \A i \in 1 .. d.call_depth : c.call_stack[i] = d.call_stack[i],
         c.include_depth = d.include_depth, c.with_map = d.with_map
  PROVE  Sound(t, r, c, L, hd) <=>
           /\ Sound(Tail(t), q, d, L, hd)
           /\ LiesOn(Tail(t), Len(t), t[1]) /\ FrameOK(t[1], L, hd)
           /\ c.in_function = TRUE
           /\ c.call_stack[c.call_depth].func_name = t[1].name
           /\ c.call_stack[c.call_depth].saved = t[1].before
<1>1. /\ Tail(t) \in Seq(Frame) /\ Len(t) \in Nat \ {0} /\ Level(t, Len(t)) = t[1]
      /\ \A h \in 1 .. Len(t) - 1 : Level(Tail(t), h) = Level(t, h)
  BY Popped
<1>2. Layered(t, r) <=> /\ Layered(Tail(t), q)
                        /\ LiesOn(Tail(t), Len(t), t[1])
  BY LayeredTail
<1>3. Included(t, r, c) <=> Included(Tail(t), q, d)
  <2>1. Entered(t, r) = Entered(Tail(t), q)
    BY EnteredTail
  <2>. QED  BY <2>1 DEF Included
<1>4. Mapped(t, c) <=> Mapped(Tail(t), d)
  <2>1. Mapped(Tail(t), c) <=> Mapped(Tail(t), d)
    BY DEF Mapped
  <2>2. ~IsWith(t[1])
    BY DEF IsWith
  <2>. QED  BY <2>1, <2>2, MappedTail
<1>. DEFINE K == Kind(t, "call")  V == Kind(Tail(t), "call")  n == Len(t)
<1>5. /\ V = K \cap 1 .. n - 1 /\ K = V \cup {n} /\ V \subseteq 1 .. n - 1 /\ n \notin 1 .. n - 1
      /\ K \subseteq 1 .. n
  <2>1. 1 .. n = (1 .. n - 1) \cup {n} /\ n \notin 1 .. n - 1
    BY <1>1, UpTo
  <2>2. V = K \cap 1 .. n - 1 /\ n \in K /\ K \subseteq 1 .. n
    BY KindTail
  <2>. HIDE DEF K, V, n
  <2>. QED  BY <2>1, <2>2, Zenon
<1>6. Cardinality(V) \in Nat /\ Cardinality(K) = Cardinality(V) + 1
  <2>1. IsFiniteSet(1 .. n - 1)
    BY <1>1, FS_Interval
  <2>2. IsFiniteSet(V)
    BY <1>5, <2>1, FS_Subset
  <2>3. n \notin V
    BY <1>5
  <2>. QED  BY <1>5, <2>2, <2>3, FS_AddElement, FS_CardinalityType, SMTT(40)
<1>7. \A h \in V : /\ K \cap 1 .. h = V \cap 1 .. h /\ K \cap 1 .. h - 1 = V \cap 1 .. h - 1
                   /\ Level(t, h) = Level(Tail(t), h)
                   /\ Cardinality(V \cap 1 .. h) \in 1 .. Cardinality(V)
  <2>. SUFFICES ASSUME NEW h \in V
                PROVE  /\ K \cap 1 .. h = V \cap 1 .. h /\ K \cap 1 .. h - 1 = V \cap 1 .. h - 1
                       /\ Level(t, h) = Level(Tail(t), h)
                       /\ Cardinality(V \cap 1 .. h) \in 1 .. Cardinality(V)
    OBVIOUS
  <2>1. h \in 1 .. n - 1 /\ n \notin 1 .. h /\ n \notin 1 .. h - 1
    BY <1>1, <1>5
  <2>2. K \cap 1 .. h = V \cap 1 .. h /\ K \cap 1 .. h - 1 = V \cap 1 .. h - 1
    BY <1>5, <2>1, Zenon
  <2>. QED  BY <1>1, <2>1, <2>2, CallsUpTo
<1>8. K \cap 1 .. n = K /\ K # {}
  BY <1>5, Zenon
<1>9. Called(t, c) <=> /\ Called(Tail(t), d)
                       /\ c.in_function = TRUE
                       /\ c.call_stack[c.call_depth].func_name = t[1].name
                       /\ c.call_stack[c.call_depth].saved = t[1].before
  <2>. HIDE DEF K, V, n
  <2>. DEFINE Of1(x, st, S, h) ==
         /\ x.call_stack[Cardinality(S \cap 1 .. h)].func_name = Level(st, h).name
         /\ x.call_stack[Cardinality(S \cap 1 .. h)].saved = Level(st, h).before
         /\ Level(st, h).prev = (S \cap 1 .. h - 1 # {})
  <2>1. Called(t, c) <=> /\ c.call_depth = Cardinality(K)
                         /\ c.in_function = (K # {})
                         /\ Of1(c, t, K, n) /\ \A h \in V : Of1(c, t, K, h)
    BY <1>5, Zenon DEF Called, K
  <2>2. Called(Tail(t), d) <=> /\ d.call_depth = Cardinality(V)
                               /\ d.in_function = (V # {})
                               /\ \A h \in V : Of1(d, Tail(t), V, h)
    BY Zenon DEF Called, V
  <2>3. c.call_depth = Cardinality(K) <=> d.call_depth = Cardinality(V)
    BY <1>6
  <2>4. ASSUME d.call_depth = Cardinality(V)
        PROVE  (\A h \in V : Of1(c, t, K, h)) <=> (\A h \in V : Of1(d, Tail(t), V, h))
    <3>1. \A h \in V : Of1(c, t, K, h) <=> Of1(d, Tail(t), V, h)
      BY <1>7, <2>4, Zenon
    <3>. QED  BY <3>1
  <2>5. ASSUME c.call_depth = Cardinality(K)
        PROVE  Of1(c, t, K, n) <=> /\ c.call_stack[c.call_depth].func_name = t[1].name
                                   /\ c.call_stack[c.call_depth].saved = t[1].before
                                   /\ t[1].prev = (V # {})
    BY <1>1, <1>5, <1>8, <2>5, Zenon DEF n
  <2>6. (K # {}) = TRUE
    BY <1>8
  <2>. HIDE DEF Of1
  <2>. QED  BY <2>1, <2>2, <2>3, <2>4, <2>5, <2>6, Zenon
<1>. QED  BY <1>1, <1>2, <1>3, <1>4, <1>9, FramesTail, Zenon DEF Sound

\* A frame by its kind.
LEMMA ByKind ==
  ASSUME NEW f \in Frame
  PROVE  /\ f.k = "scan" => f \in ScanFrames
         /\ f.k = "file" => f \in FileFrames
         /\ f.k = "block" => f \in BlockFrames
         /\ f.k = "line" => f \in LineFrames
         /\ f.k = "call" => f \in CallFrames
         /\ f.k = "if" => f \in IfFrames
         /\ f.k = "switch" => f \in SwitchFrames
         /\ IsRepeat(f) => f \in RepeatFrames
         /\ f.k = "loop" /\ ~IsRepeat(f) => f \in LoopFrames
<1>1. f \in ScanFrames => f.k = "scan"
  BY DEF ScanFrames
<1>2. f \in FileFrames => f.k = "file"
  BY DEF FileFrames
<1>3. f \in BlockFrames => f.k = "block"
  BY DEF BlockFrames
<1>4. f \in LineFrames => f.k = "line"
  BY DEF LineFrames
<1>5. f \in CallFrames => f.k = "call"
  BY DEF CallFrames
<1>6. f \in IfFrames => f.k = "if"
  BY DEF IfFrames
<1>7. f \in SwitchFrames => f.k = "switch"
  BY DEF SwitchFrames
<1>8. f \in RepeatFrames => f.k = "loop" /\ f.line.op = "repeat"
  BY DEF RepeatFrames, Word
<1>9. f \in LoopFrames => f.k = "loop" /\ f.line.op # "repeat"
  BY DEF LoopFrames, Word, Loops
<1>. QED  BY <1>1, <1>2, <1>3, <1>4, <1>5, <1>6, <1>7, <1>8, <1>9 DEF Frame, IsRepeat

LEMMA LoopingTail ==
  ASSUME NEW t \in Seq(Frame), t # << >>
  PROVE  Looping(t) <=> IsTurn(t[1]) \/ Looping(Tail(t))
<1>1. /\ Len(t) \in Nat \ {0} /\ Len(Tail(t)) = Len(t) - 1
      /\ \A i \in 1 .. Len(t) - 1 : Tail(t)[i] = t[i + 1]
  BY Popped
<1>2. ASSUME IsTurn(t[1]) PROVE Looping(t)
  <2>1. 1 \in 1 .. Len(t)
    BY <1>1
  <2>. QED  BY <1>2, <2>1, Zenon DEF Looping
<1>3. ASSUME NEW i \in 1 .. Len(Tail(t)), IsTurn(Tail(t)[i]) PROVE Looping(t)
  <2>1. i + 1 \in 1 .. Len(t) /\ i \in 1 .. Len(t) - 1
    BY <1>1
  <2>2. IsTurn(t[i + 1])
    BY <1>1, <1>3, <2>1
  <2>. QED  BY <2>1, <2>2, Zenon DEF Looping
<1>4. ASSUME NEW i \in 1 .. Len(t), IsTurn(t[i]) PROVE IsTurn(t[1]) \/ Looping(Tail(t))
  <2>1. CASE i = 1
    BY <1>4, <2>1
  <2>2. CASE i # 1
    <3>1. i - 1 \in 1 .. Len(Tail(t)) /\ i - 1 \in 1 .. Len(t) - 1 /\ (i - 1) + 1 = i
      BY <1>1, <2>2
    <3>2. IsTurn(Tail(t)[i - 1])
      BY <1>1, <1>4, <3>1
    <3>. QED  BY <3>1, <3>2, Zenon DEF Looping
  <2>. QED  BY <2>1, <2>2
<1>. QED  BY <1>2, <1>3, <1>4, Zenon DEF Looping

\* Two frames that only differ in how far they are.
Twin(f, g) ==
  /\ f.k = g.k /\ f.k \in {"block", "switch", "loop", "scan"}
  /\ f.k = "loop" => f.line = g.line /\ (IsWith(g) => f.prev = g.prev)
  /\ f.k # "loop" \/ ~IsRepeat(g) => f.s = g.s
  /\ f.k = "scan" => f.file = g.file /\ f.depth = g.depth

LEMMA Moved ==
  ASSUME NEW st, NEW r, NEW q, NEW c, NEW L, NEW hd, Sound(st, r, c, L, hd), st # << >>,
         NEW f \in Frame, Twin(f, st[1]), f.k = "scan" => r = NoRet /\ q = NoRet
  PROVE  LET t == <<f>> \o Tail(st) IN
         /\ Sound(t, q, c, L, hd)
         /\ t \in Seq(Frame) /\ t # << >> /\ t[1] = f /\ Tail(t) = Tail(st)
         /\ Looping(t) <=> Looping(st)
<1>. DEFINE t == <<f>> \o Tail(st)
<1>1. /\ st \in Seq(Frame) /\ Tail(st) \in Seq(Frame) /\ Len(Tail(st)) = Len(st) - 1
      /\ Len(st) \in Nat \ {0} /\ st[1] \in Frame
  <2>1. st \in Seq(Frame)
    BY DEF Sound
  <2>. QED  BY <2>1, Popped
<1>2. t \in Seq(Frame) /\ t # << >> /\ t[1] = f /\ Tail(t) = Tail(st) /\ Len(t) = Len(st)
  BY <1>1, Pushed
<1>3. /\ f.k = st[1].k
      /\ IsWith(f) <=> IsWith(st[1])
      /\ IsRepeat(f) <=> IsRepeat(st[1])
      /\ IsTurn(f) <=> IsTurn(st[1])
  BY DEF Twin, IsWith, IsRepeat, IsTurn
<1>4. LiesOn(Tail(st), Len(st), f) <=> LiesOn(Tail(st), Len(st), st[1])
  BY <1>3 DEF LiesOn, Twin
<1>5. FrameOK(f, L, hd) <=> FrameOK(st[1], L, hd)
  BY <1>3 DEF FrameOK, Twin
<1>6. PICK w : w # NoRet
  BY DEF NoRet
<1>7. Sound(t, q, c, L, hd)
  <2>1. CASE ~IsWith(f)
    <3>1. /\ st[1].k \notin {"file", "call"} /\ (st[1].k = "scan" => r = NoRet)
          /\ f.k \notin {"file", "call"} /\ (f.k = "scan" => q = NoRet)
          /\ f.k # "line"
      BY DEF Twin
    <3>2. /\ Sound(Tail(st), w, c, L, hd)
          /\ LiesOn(Tail(st), Len(st), st[1]) /\ FrameOK(st[1], L, hd)
          /\ st[1].k = "scan" => Len(st) = c.include_depth + 1
      BY <1>1, <1>3, <1>6, <2>1, <3>1, PlainTop
    <3>3. LiesOn(Tail(t), Len(t), t[1]) /\ FrameOK(t[1], L, hd)
      BY <1>2, <1>4, <1>5, <3>2
    <3>4. t[1].k \notin {"file", "call", "line"} /\ ~IsWith(t[1]) /\ Tail(t) = Tail(st)
          /\ (t[1].k = "scan" => q = NoRet /\ Len(t) = c.include_depth + 1)
      BY <1>2, <1>3, <2>1, <3>1, <3>2
    <3>. HIDE DEF t
    <3>. QED  BY <1>2, <1>6, <3>2, <3>3, <3>4, PlainTop
  <2>2. CASE IsWith(f)
    <3>. DEFINE d == [include_depth |-> c.include_depth, call_depth |-> c.call_depth,
                      call_stack |-> c.call_stack, in_function |-> c.in_function,
                      with_map |-> f.prev]
    <3>1. /\ f.k = "loop" /\ f.line = st[1].line /\ f.prev = st[1].prev
          /\ d.with_map = f.prev /\ c.include_depth = d.include_depth
          /\ c.call_depth = d.call_depth /\ c.call_stack = d.call_stack
          /\ c.in_function = d.in_function
      BY <1>3, <2>2 DEF IsWith, Twin
    <3>. HIDE DEF d, t
    <3>2. /\ Sound(Tail(st), w, d, L, hd)
          /\ LiesOn(Tail(st), Len(st), st[1]) /\ FrameOK(st[1], L, hd)
          /\ c.with_map = st[1].line.map
      <4>1. IsWith(st[1]) /\ d.with_map = st[1].prev
        BY <1>3, <2>2, <3>1
      <4>2. st \in Seq(Frame) /\ st # << >> /\ w # NoRet
        BY <1>1, <1>6
      <4>3. Sound(st, r, c, L, hd) <=>
              /\ Sound(Tail(st), w, d, L, hd)
              /\ LiesOn(Tail(st), Len(st), st[1]) /\ FrameOK(st[1], L, hd)
              /\ c.with_map = st[1].line.map
        BY <3>1, <4>1, <4>2, WithTop
      <4>. QED  BY <4>3
    <3>3. LiesOn(Tail(t), Len(t), t[1]) /\ FrameOK(t[1], L, hd)
      BY <1>2, <1>4, <1>5, <3>2 DEF t
    <3>4. IsWith(t[1]) /\ d.with_map = t[1].prev /\ Tail(t) = Tail(st)
          /\ c.with_map = t[1].line.map /\ t \in Seq(Frame) /\ t # << >>
      BY <1>2, <2>2, <3>1, <3>2 DEF t
    <3>. QED  BY <1>6, <3>1, <3>2, <3>3, <3>4, WithTop
  <2>. QED  BY <2>1, <2>2
<1>8. Looping(t) <=> Looping(st)
  BY <1>1, <1>2, <1>3, LoopingTail
<1>. QED  BY <1>2, <1>7, <1>8

\* What a pushed frame lies on, and what the top frame lies on.
LEMMA LiesOnTop ==
  ASSUME NEW st \in Seq(Frame), NEW f \in Frame
  PROVE  /\ f.k \in {"block", "call"} => LiesOn(st, Len(st) + 1, f)
         /\ f.k \in {"if", "switch"} \/ (f.k = "loop" /\ ~IsRepeat(f)) =>
              (LiesOn(st, Len(st) + 1, f) <=> st # << >> /\ st[1].k = "block")
         /\ f.k = "line" \/ IsRepeat(f) =>
              (LiesOn(st, Len(st) + 1, f)
                 <=> st = << >> \/ st[1].k = "block" \/ IsRepeat(st[1]))
<1>1. CASE st = << >>
  <2>1. Len(st) = 0
    BY <1>1
  <2>. QED  BY <1>1, <2>1 DEF LiesOn, IsRepeat
<1>2. CASE st # << >>
  <2>1. Len(st) \in Nat \ {0} /\ Level(st, Len(st)) = st[1]
    BY <1>2, Popped
  <2>2. Len(st) + 1 > 1 /\ Len(st) + 1 # 1 /\ (Len(st) + 1) - 1 = Len(st)
    BY <2>1
  <2>. QED  BY <1>2, <2>1, <2>2 DEF LiesOn, IsRepeat
<1>. QED  BY <1>1, <1>2

LEMMA PushPlain ==
  ASSUME NEW st, NEW q, NEW c, NEW L, NEW hd, Sound(st, q, c, L, hd), q # NoRet,
         NEW f \in Frame, f.k \notin {"file", "call"}, ~IsWith(f),
         LiesOn(st, Len(st) + 1, f), FrameOK(f, L, hd),
         f.k = "scan" => Len(st) = c.include_depth
  PROVE  LET t == <<f>> \o st IN
         /\ Sound(t, NoRet, c, L, hd)
         /\ t \in Seq(Frame) /\ t # << >> /\ t[1] = f /\ Tail(t) = st
         /\ Looping(t) <=> IsTurn(f) \/ Looping(st)
<1>. DEFINE t == <<f>> \o st
<1>1. st \in Seq(Frame)
  BY DEF Sound
<1>2. t \in Seq(Frame) /\ t # << >> /\ t[1] = f /\ Tail(t) = st /\ Len(t) = Len(st) + 1
  BY <1>1, Pushed
<1>. HIDE DEF t
<1>3. Looping(t) <=> IsTurn(f) \/ Looping(st)
  BY <1>2, LoopingTail
<1>4. Sound(t, NoRet, c, L, hd)
  <2>1. /\ Sound(Tail(t), q, c, L, hd)
        /\ LiesOn(Tail(t), Len(t), t[1]) /\ FrameOK(t[1], L, hd)
        /\ t[1].k = "scan" => Len(t) = c.include_depth + 1
    BY <1>2
  <2>2. t[1].k \notin {"file", "call"} /\ ~IsWith(t[1])
    BY <1>2
  <2>. QED  BY <1>2, <2>1, <2>2, PlainTop
<1>. QED  BY <1>2, <1>3, <1>4 DEF t

LEMMA OnTop ==
  ASSUME NEW st \in Seq(Frame), NEW f \in Frame, NEW t, t = <<f>> \o st
  PROVE  t \in Seq(Frame) /\ t # << >> /\ t[1] = f /\ Tail(t) = st /\ Len(t) = Len(st) + 1
BY Pushed

LEMMA PushWith ==
  ASSUME NEW st, NEW q, NEW d, NEW L, NEW hd, Sound(st, q, d, L, hd), q # NoRet,
         NEW f \in Frame, IsWith(f), f.prev = d.with_map, NEW c, c.with_map = f.line.map,
         c.include_depth = d.include_depth, c.call_depth = d.call_depth,
         c.call_stack = d.call_stack, c.in_function = d.in_function,
         LiesOn(st, Len(st) + 1, f), FrameOK(f, L, hd), NEW r
  PROVE  Sound(<<f>> \o st, r, c, L, hd)
<1>. DEFINE t == <<f>> \o st
<1>1. st \in Seq(Frame)
  BY DEF Sound
<1>2. t \in Seq(Frame) /\ t # << >> /\ t[1] = f /\ Tail(t) = st /\ Len(t) = Len(st) + 1
  BY <1>1, OnTop DEF t
<1>. HIDE DEF t
<1>3. IsWith(t[1]) /\ d.with_map = t[1].prev
  BY <1>2
<1>4. Sound(t, r, c, L, hd) <=>
        /\ Sound(Tail(t), q, d, L, hd)
        /\ LiesOn(Tail(t), Len(t), t[1]) /\ FrameOK(t[1], L, hd)
        /\ c.with_map = t[1].line.map
  BY <1>2, <1>3, WithTop
<1>. QED  BY <1>2, <1>4 DEF t

LEMMA PopWith ==
  ASSUME NEW st, NEW r, NEW q, NEW c, NEW L, NEW hd, Sound(st, r, c, L, hd), st # << >>,
         q # NoRet, IsWith(st[1]), NEW d, d.with_map = st[1].prev,
         c.include_depth = d.include_depth, c.call_depth = d.call_depth,
         c.call_stack = d.call_stack, c.in_function = d.in_function
  PROVE  Sound(Tail(st), q, d, L, hd)
<1>1. st \in Seq(Frame)
  BY DEF Sound
<1>2. Sound(st, r, c, L, hd) <=>
        /\ Sound(Tail(st), q, d, L, hd)
        /\ LiesOn(Tail(st), Len(st), st[1]) /\ FrameOK(st[1], L, hd)
        /\ c.with_map = st[1].line.map
  BY <1>1, WithTop
<1>. QED  BY <1>2

LEMMA PopPlain ==
  ASSUME NEW st, NEW r, NEW q, NEW c, NEW L, NEW hd, Sound(st, r, c, L, hd), st # << >>,
         q # NoRet, st[1].k \notin {"file", "call"}, ~IsWith(st[1]),
         st[1].k = "scan" => r = NoRet
  PROVE  Sound(Tail(st), q, c, L, hd) /\ (Looping(Tail(st)) => Looping(st))
<1>1. st \in Seq(Frame)
  BY DEF Sound
<1>2. Looping(Tail(st)) => Looping(st)
  BY <1>1, LoopingTail
<1>. QED  BY <1>1, <1>2, PlainTop

\* The frames of a stack, and what its top lies on.
LEMMA TopIs ==
  ASSUME NEW st, NEW r, NEW c, NEW L, NEW hd, Sound(st, r, c, L, hd), st # << >>
  PROVE  /\ st \in Seq(Frame) /\ st[1] \in Frame /\ Tail(st) \in Seq(Frame)
         /\ Len(st) \in Nat \ {0} /\ Len(Tail(st)) = Len(st) - 1
         /\ FrameOK(st[1], L, hd) /\ LiesOn(Tail(st), Len(st), st[1])
         /\ st[1].k \in {"if", "switch"} \/ (st[1].k = "loop" /\ ~IsRepeat(st[1])) =>
              Tail(st) # << >> /\ Tail(st)[1].k = "block"
         /\ st[1].k = "line" \/ IsRepeat(st[1]) =>
              Tail(st) = << >> \/ Tail(st)[1].k = "block" \/ IsRepeat(Tail(st)[1])
         /\ st[1].k = "line" => r = NoRet
<1>1. /\ st \in Seq(Frame) /\ st[1] \in Frame /\ Tail(st) \in Seq(Frame)
      /\ Len(st) \in Nat \ {0} /\ Len(Tail(st)) = Len(st) - 1
  <2>1. st \in Seq(Frame)
    BY DEF Sound
  <2>. QED  BY <2>1, Popped
<1>2. PICK w : w # NoRet
  BY DEF NoRet
<1>3. FrameOK(st[1], L, hd)
  BY <1>1, FramesTail DEF Sound
<1>4. LiesOn(Tail(st), Len(st), st[1]) /\ (st[1].k = "line" => r = NoRet)
  <2>1. Layered(st, r)
    BY DEF Sound
  <2>. QED  BY <1>1, <1>2, <2>1, LayeredTail
<1>5. Len(st) = Len(Tail(st)) + 1
  BY <1>1
<1>. QED  BY <1>1, <1>3, <1>4, <1>5, LiesOnTop

\* After a step that leaves the flags alone, or clears some, with no line
\* or loop on top that runs.
LEMMA FlagsAfter ==
  ASSUME NEW st, NEW r, NEW c, Flags(st, r, c), NEW t, NEW q, NEW d,
         Looping(t) => Looping(st), ~(r # NoRet /\ st # << >> /\ IsRepeat(st[1])),
         d.break_flag /\ d.continue_flag => c.break_flag /\ c.continue_flag,
         q # NoRet \/ t = << >> \/ t[1].k \notin {"line", "loop"}
  PROVE  Flags(t, q, d)
BY DEF Flags, IsTurn

-----------------------------------------------------------------------------
(* Lines and tables.                                                       *)

LEMMA FindIn ==
  ASSUME NEW s, NEW from \in Place, NEW to, NEW open, NEW close
  PROVE  /\ find_block_end(s, from, to, open, close) \in Nat
         /\ find_block_end(s, from, to, open, close) # 0 =>
              /\ find_block_end(s, from, to, open, close) \in from .. to
              /\ LineAt(s, find_block_end(s, from, to, open, close)).op = close
<1>. DEFINE ends == {i \in from .. to :
                      /\ LineAt(s, i).op = close
                      /\ Before(s, from, i, close) = 1 + Before(s, from, i, open)}
<1>1. ends # {} => Min(ends) \in ends
  <2>1. ends \in SUBSET Nat
    BY DEF Place
  <2>. HIDE DEF ends
  <2>. QED  BY <2>1, MinIn
<1>2. find_block_end(s, from, to, open, close) = IF ends = {} THEN 0 ELSE Min(ends)
  BY DEF find_block_end
<1>3. CASE ends = {}
  BY <1>2, <1>3
<1>4. CASE ends # {}
  BY <1>1, <1>2, <1>4 DEF Place
<1>. QED  BY <1>3, <1>4

LEMMA LineIn ==
  ASSUME RshTables, NEW s \in Slice, InBounds(s, LINES, FUNC_POOL_HEAD), NEW i \in 1 .. s.len
  PROVE  LineAt(s, i) \in ScriptLines
<1>1. s.where \in {"file", "pool"} /\ s.base \in Nat /\ s.len \in Nat
  BY DEF Slice
<1>2. CASE s.where = "file"
  <2>1. LINES[s.base] \in Seq(ScriptLines) /\ i \in 1 .. Len(LINES[s.base])
    BY <1>1, <1>2 DEF RshTables, Buffers, InBounds
  <2>2. LINES[s.base][i] \in ScriptLines
    BY <2>1, ElementOfSeq
  <2>. QED  BY <1>2, <2>2 DEF LineAt
<1>3. CASE s.where = "pool"
  <2>1. s.base + i \in 1 .. FUNC_POOL_SIZE
    <3>1. FUNC_POOL_SIZE \in Nat /\ FUNC_POOL_HEAD \in 0 .. FUNC_POOL_SIZE
      BY RshAssumption DEF RshTables, PoolOK
    <3>2. s.base + s.len <= FUNC_POOL_HEAD
      BY <1>3 DEF InBounds
    <3>. QED  BY <1>1, <3>1, <3>2
  <2>2. FUNC_BODY_POOL[s.base + i] \in ScriptLines
    BY <2>1 DEF RshTables, PoolOK, Pool
  <2>. QED  BY <1>3, <2>2 DEF LineAt
<1>. QED  BY <1>1, <1>2, <1>3

\* The pool is in order for every table with the same slices.
LEMMA PoolSame ==
  ASSUME NEW c, NEW d, NEW P, NEW hd, NEW def, PoolOK(c, P, hd, def),
         \A n \in FuncNames : /\ d.funcs[n].used = c.funcs[n].used
                              /\ d.funcs[n].start = c.funcs[n].start
                              /\ d.funcs[n].count = c.funcs[n].count
  PROVE  PoolOK(d, P, hd, def)
<1>1. \A n \in FuncNames : BodyAt(d.funcs[n], P) = BodyAt(c.funcs[n], P)
  BY Zenon DEF BodyAt
<1>. QED  BY <1>1 DEF PoolOK, UsedFuncs, Apart

LEMMA TablesSame ==
  ASSUME RshTables, UnchangedTables, ctx' \in Context, ret' \in {NoRet, Ok, Fail},
         IsFiniteSet(ctx'.once_tags), Cardinality(ctx'.once_tags) <= MAX_ONCE_TAGS,
         \A n \in FuncNames : /\ ctx'.funcs[n].used = ctx.funcs[n].used
                              /\ ctx'.funcs[n].start = ctx.funcs[n].start
                              /\ ctx'.funcs[n].count = ctx.funcs[n].count
  PROVE  RshTables'
<1>1. PoolOK(ctx', FUNC_BODY_POOL, FUNC_POOL_HEAD, defined)
  BY PoolSame DEF RshTables
<1>. QED  BY <1>1 DEF RshTables, UnchangedTables

\* A step that changes the stack alone.
LEMMA StackOnly ==
  ASSUME RshInv, UNCHANGED ctx, UnchangedTables, ret' \in {NoRet, Ok, Fail},
         Sound(stack', ret', ctx, LINES, FUNC_POOL_HEAD), Flags(stack', ret', ctx)
  PROVE  RshInv'
<1>1. RshTables'
  BY TablesSame DEF RshInv, RshTables
<1>. QED  BY <1>1 DEF RshInv, UnchangedTables

-----------------------------------------------------------------------------
(* Blocks.                                                                 *)

LEMMA Here ==
  ASSUME RshInv, stack # << >>
  PROVE  /\ stack \in Seq(Frame) /\ Top \in Frame /\ Rest \in Seq(Frame)
         /\ FrameOK(Top, LINES, FUNC_POOL_HEAD) /\ stack[1] = Top /\ Tail(stack) = Rest
         /\ Sound(stack, ret, ctx, LINES, FUNC_POOL_HEAD) /\ Flags(stack, ret, ctx)
         /\ Looping(stack) <=> IsTurn(Top) \/ Looping(Rest)
<1>1. Sound(stack, ret, ctx, LINES, FUNC_POOL_HEAD) /\ Flags(stack, ret, ctx)
  BY DEF RshInv
<1>2. /\ stack \in Seq(Frame) /\ stack[1] \in Frame /\ Tail(stack) \in Seq(Frame)
      /\ FrameOK(stack[1], LINES, FUNC_POOL_HEAD)
  BY <1>1, TopIs
<1>3. Looping(stack) <=> IsTurn(stack[1]) \/ Looping(Tail(stack))
  BY <1>2, LoopingTail
<1>. QED  BY <1>1, <1>2, <1>3 DEF Top, Rest

LEMMA BlockTop ==
  ASSUME RshInv, stack # << >>, Top.k = "block"
  PROVE  /\ Top \in BlockFrames /\ Top.s \in Slice /\ Top.at \in Place /\ Top.end \in Int
         /\ InBounds(Top.s, LINES, FUNC_POOL_HEAD)
         /\ Top.at <= Top.s.len => BlockLine \in ScriptLines
<1>1. Top \in BlockFrames /\ FrameOK(Top, LINES, FUNC_POOL_HEAD)
  BY Here, ByKind
<1>2. /\ Top.s \in Slice /\ Top.at \in Place /\ Top.end \in Int
      /\ InBounds(Top.s, LINES, FUNC_POOL_HEAD)
  BY <1>1 DEF BlockFrames, FrameOK
<1>3. Top.at <= Top.s.len => Top.at \in 1 .. Top.s.len
  BY <1>2 DEF Slice, Place
<1>. QED  BY <1>1, <1>2, <1>3, LineIn DEF RshInv, BlockLine

\* The block on top goes on after line i.
\* t is st with the block on top of it gone on to the line after i.
GoneOn(t, st, i) == i \in Nat /\ t = <<[st[1] EXCEPT !.at = i + 1]>> \o Tail(st)

LEMMA BlockOn ==
  ASSUME NEW st, NEW r, NEW q, NEW c, NEW L, NEW hd, Sound(st, r, c, L, hd), st # << >>,
         st[1].k = "block", NEW i, NEW t, GoneOn(t, st, i)
  PROVE  /\ Sound(t, q, c, L, hd)
         /\ t # << >> /\ t[1].k = "block"
         /\ Looping(t) <=> Looping(st)
<1>. DEFINE f == [st[1] EXCEPT !.at = i + 1]
<1>1. st[1] \in BlockFrames
  BY TopIs, ByKind
<1>2. f \in BlockFrames /\ f.k = "block" /\ f.s = st[1].s
  <2>1. i + 1 \in Place
    BY DEF GoneOn, Place
  <2>. QED  BY <1>1, <2>1 DEF BlockFrames
<1>3. f \in Frame
  BY <1>2 DEF Frame
<1>4. Twin(f, st[1])
  BY <1>2 DEF Twin
<1>5. /\ Sound(<<f>> \o Tail(st), q, c, L, hd)
      /\ <<f>> \o Tail(st) # << >> /\ (<<f>> \o Tail(st))[1].k = "block"
      /\ Looping(<<f>> \o Tail(st)) <=> Looping(st)
  <2>. HIDE DEF f
  <2>. QED  BY <1>2, <1>3, <1>4, Moved
<1>. QED  BY <1>5 DEF GoneOn

\* A block over lines of the same slice may lie on any frame.
LEMMA NewBlock ==
  ASSUME NEW s \in Slice, NEW L, NEW hd, InBounds(s, L, hd), NEW i \in Place, NEW j \in Int,
         NEW st \in Seq(Frame)
  PROVE  /\ Block(s, i, j) \in Frame /\ Block(s, i, j).k = "block"
         /\ ~IsWith(Block(s, i, j)) /\ ~IsTurn(Block(s, i, j))
         /\ FrameOK(Block(s, i, j), L, hd) /\ LiesOn(st, Len(st) + 1, Block(s, i, j))
<1>. DEFINE f == Block(s, i, j)
<1>1. f \in BlockFrames /\ f.k = "block" /\ f.s = s
  BY DEF Block, BlockFrames
<1>2. f \in Frame
  BY <1>1 DEF Frame
<1>. HIDE DEF f
<1>3. ~IsWith(f) /\ ~IsTurn(f) /\ FrameOK(f, L, hd)
  BY <1>1 DEF IsWith, IsTurn, FrameOK
<1>4. LiesOn(st, Len(st) + 1, f)
  BY <1>1, <1>2, LiesOnTop
<1>. QED  BY <1>1, <1>2, <1>3, <1>4 DEF f

LEMMA BlockEndKeeps == ASSUME RshInv, block_end PROVE RshInv'
<1>1. /\ stack # << >> /\ Top.k = "block" /\ stack' = Rest /\ ret' = Ok
      /\ UNCHANGED ctx /\ UnchangedTables
  BY DEF block_end, Runs, Return
<1>2. Sound(stack', ret', ctx, LINES, FUNC_POOL_HEAD) /\ (Looping(stack') => Looping(stack))
  BY <1>1, Here, PopPlain DEF IsWith, Ok, NoRet
<1>3. Flags(stack', ret', ctx)
  BY <1>1, <1>2, Here, FlagsAfter DEF IsRepeat, Ok, NoRet
<1>. QED  BY <1>1, <1>2, <1>3, StackOnly

\* The step of a block that only goes on.
LEMMA BlockGoes ==
  ASSUME RshInv, stack # << >>, Top.k = "block", NEW i, GoneOn(stack', stack, i), ret' = NoRet
  PROVE  Sound(stack', ret', ctx, LINES, FUNC_POOL_HEAD) /\ Flags(stack', ret', ctx)
<1>1. /\ Sound(stack', ret', ctx, LINES, FUNC_POOL_HEAD)
      /\ stack' # << >> /\ stack'[1].k = "block"
      /\ Looping(stack') => Looping(stack)
  <2>1. /\ Sound(stack, ret, ctx, LINES, FUNC_POOL_HEAD) /\ stack[1].k = "block"
        /\ stack # << >> /\ GoneOn(stack', stack, i)
    BY Here, Zenon DEF Top
  <2>. QED  BY <2>1, BlockOn
<1>2. ~IsRepeat(stack[1]) /\ stack'[1].k \notin {"line", "loop"} /\ Flags(stack, ret, ctx)
  BY <1>1, Here DEF IsRepeat
<1>3. Flags(stack', ret', ctx)
  <2>1. ret' # NoRet \/ stack' = << >> \/ stack'[1].k \notin {"line", "loop"}
    BY <1>2, Zenon
  <2>. QED  BY <1>1, <1>2, <2>1, FlagsAfter
<1>. QED  BY <1>1, <1>3

LEMMA BlockSkipKeeps == ASSUME RshInv, block_skip PROVE RshInv'
<1>1. /\ stack # << >> /\ Top.k = "block" /\ stack' = <<[Top EXCEPT !.at = Top.at + 1]>> \o Rest
      /\ ret' = NoRet /\ UNCHANGED ctx /\ UnchangedTables
  BY DEF block_skip, AtLine, Runs, GoesOn
<1>2. GoneOn(stack', stack, Top.at)
  BY <1>1, BlockTop DEF Place, GoneOn, Top, Rest
<1>3. Sound(stack', ret', ctx, LINES, FUNC_POOL_HEAD) /\ Flags(stack', ret', ctx)
  BY <1>1, <1>2, BlockGoes
<1>. QED  BY <1>1, <1>3, StackOnly

LEMMA TwoPushed ==
  ASSUME NEW S, NEW st \in Seq(S), NEW f \in S, NEW g \in S
  PROVE  <<f, g>> \o st = <<f>> \o (<<g>> \o st)
<1>. DEFINE t == <<g>> \o st  u == <<f, g>> \o st  v == <<f>> \o t
<1>1. t \in Seq(S) /\ Len(t) = Len(st) + 1 /\ t[1] = g
      /\ \A i \in 1 .. Len(st) : t[i + 1] = st[i]
  BY Pushed
<1>2. v \in Seq(S) /\ Len(v) = Len(t) + 1 /\ v[1] = f
      /\ \A i \in 1 .. Len(t) : v[i + 1] = t[i]
  <2>. HIDE DEF t
  <2>. QED  BY <1>1, Pushed
<1>3. Len(st) \in Nat
  OBVIOUS
<1>4. <<f, g>> \in Seq(S) /\ Len(<<f, g>>) = 2
  OBVIOUS
<1>5. u \in Seq(S) /\ Len(u) = 2 + Len(st)
      /\ \A i \in 1 .. Len(u) : u[i] = IF i <= 2 THEN <<f, g>>[i] ELSE st[i - 2]
  BY <1>4, ConcatProperties
<1>6. ASSUME NEW i \in 1 .. Len(u) PROVE u[i] = v[i]
  <2>. HIDE DEF t, u, v
  <2>1. CASE i = 1
    BY <1>2, <1>5, <2>1
  <2>2. CASE i = 2
    <3>1. 1 \in 1 .. Len(t) /\ v[1 + 1] = t[1]
      BY <1>1, <1>2, <1>3
    <3>. QED  BY <1>1, <1>5, <2>2, <3>1
  <2>3. CASE i > 2
    <3>1. i - 2 \in 1 .. Len(st) /\ i - 1 \in 1 .. Len(t) /\ (i - 1) + 1 = i /\ (i - 2) + 1 = i - 1
      BY <1>1, <1>3, <1>5, <2>3
    <3>2. u[i] = st[i - 2]
      BY <1>3, <1>5, <2>3
    <3>3. t[(i - 2) + 1] = st[i - 2] /\ v[(i - 1) + 1] = t[i - 1]
      BY <1>1, <1>2, <3>1, Zenon
    <3>. QED  BY <3>1, <3>2, <3>3
  <2>. QED  BY <1>3, <1>5, <2>1, <2>2, <2>3
<1>. HIDE DEF t, u, v
<1>7. u = v
  BY <1>1, <1>2, <1>3, <1>5, <1>6, SeqEqual
<1>. QED  BY <1>7 DEF t, u, v

\* With no flag set nothing is asked of them.
LEMMA NoFlags ==
  ASSUME NEW t, NEW q, NEW d, ~d.break_flag, ~d.continue_flag, ~d.return_flag
  PROVE  Flags(t, q, d)
BY DEF Flags

LEMMA BlockLineKeeps == ASSUME RshInv, block_line PROVE RshInv'
<1>1. /\ stack # << >> /\ Top.k = "block" /\ Top.at <= Top.s.len /\ ~Flagged
      /\ stack' = <<LineFrame(BlockLine)>> \o stack /\ ret = NoRet /\ ret' = NoRet
      /\ UNCHANGED ctx /\ UnchangedTables
  BY DEF block_line, Runs
<1>. DEFINE f == LineFrame(BlockLine)
<1>2. f \in LineFrames /\ f.k = "line"
  BY <1>1, BlockTop DEF LineFrame, LineFrames
<1>3. f \in Frame /\ ~IsWith(f) /\ FrameOK(f, LINES, FUNC_POOL_HEAD)
  <2>. HIDE DEF f
  <2>. QED  BY <1>2 DEF Frame, IsWith, FrameOK
<1>. HIDE DEF f
<1>4. LiesOn(stack, Len(stack) + 1, f)
  BY <1>1, <1>2, <1>3, Here, LiesOnTop
<1>5. Sound(stack, Ok, ctx, LINES, FUNC_POOL_HEAD)
  BY <1>1, Here, Retold
<1>6. Sound(stack', ret', ctx, LINES, FUNC_POOL_HEAD)
  BY <1>1, <1>2, <1>3, <1>4, <1>5, PushPlain DEF f, Ok, NoRet
<1>7. Flags(stack', ret', ctx)
  BY <1>1, NoFlags DEF Flagged
<1>. QED  BY <1>1, <1>6, <1>7, StackOnly

\* A frame that returns a value to the frame under it, the flags as before.
LEMMA Returns ==
  ASSUME RshInv, stack # << >>, Top.k \notin {"file", "call", "loop"},
         Top.k = "scan" => ret = NoRet, stack' = Rest, ret' # NoRet
  PROVE  Sound(stack', ret', ctx, LINES, FUNC_POOL_HEAD) /\ Flags(stack', ret', ctx)
<1>1. Sound(stack', ret', ctx, LINES, FUNC_POOL_HEAD) /\ (Looping(stack') => Looping(stack))
  BY Here, PopPlain DEF IsWith
<1>2. ~IsRepeat(stack[1]) /\ Flags(stack, ret, ctx)
  BY Here DEF IsRepeat
<1>3. Flags(stack', ret', ctx)
  BY <1>1, <1>2, FlagsAfter
<1>. QED  BY <1>1, <1>3

LEMMA BlockLineReturnKeeps == ASSUME RshInv, block_line_return PROVE RshInv'
<1>1. /\ stack # << >> /\ Top.k = "block" /\ ret # NoRet
      /\ UNCHANGED ctx /\ UnchangedTables
  BY DEF block_line_return, Gets
<1>2. ret \in {NoRet, Ok, Fail}
  BY DEF RshInv, RshTables
<1>3. CASE ret = Ok
  <2>1. stack' = <<[Top EXCEPT !.at = Top.at + 1]>> \o Rest /\ ret' = NoRet
    BY <1>3 DEF block_line_return, GoesOn
  <2>2. GoneOn(stack', stack, Top.at)
    BY <1>1, <2>1, BlockTop DEF Place, GoneOn, Top, Rest
  <2>3. Sound(stack', ret', ctx, LINES, FUNC_POOL_HEAD) /\ Flags(stack', ret', ctx)
    BY <1>1, <2>1, <2>2, BlockGoes
  <2>. QED  BY <1>1, <2>1, <2>3, StackOnly
<1>4. CASE ret # Ok
  <2>1. stack' = Rest /\ ret' = ret
    BY <1>4 DEF block_line_return, Return
  <2>2. Sound(stack', ret', ctx, LINES, FUNC_POOL_HEAD) /\ Flags(stack', ret', ctx)
    BY <1>1, <2>1, Returns
  <2>. QED  BY <1>1, <1>2, <2>1, <2>2, StackOnly
<1>. QED  BY <1>3, <1>4

\* Pushing an executor on the block and the block it runs on the executor.
LEMMA EnterTwo ==
  ASSUME RshInv, stack # << >>, Top.k = "block",
         NEW i \in Place, NEW j \in Int, NEW g \in Frame, g.k \in {"if", "switch"},
         FrameOK(g, LINES, FUNC_POOL_HEAD),
         stack' = <<Block(Top.s, i, j), g>> \o stack, ret' = NoRet
  PROVE  Sound(stack', ret', ctx, LINES, FUNC_POOL_HEAD) /\ Flags(stack', ret', ctx)
<1>. DEFINE b == Block(Top.s, i, j)  t == <<g>> \o stack
<1>1. Sound(stack, Ok, ctx, LINES, FUNC_POOL_HEAD)
  BY Here, Retold
<1>2. LiesOn(stack, Len(stack) + 1, g) /\ ~IsWith(g) /\ ~IsTurn(g)
  BY Here, LiesOnTop DEF IsWith, IsTurn
<1>3. /\ Sound(t, NoRet, ctx, LINES, FUNC_POOL_HEAD)
      /\ t \in Seq(Frame) /\ t # << >> /\ t[1] = g
      /\ Looping(t) => Looping(stack)
  BY <1>1, <1>2, PushPlain DEF Ok, NoRet
<1>. HIDE DEF t
<1>4. Sound(t, Ok, ctx, LINES, FUNC_POOL_HEAD)
  BY <1>3, Retold
<1>5. /\ b \in Frame /\ b.k = "block" /\ ~IsWith(b) /\ ~IsTurn(b)
      /\ FrameOK(b, LINES, FUNC_POOL_HEAD) /\ LiesOn(t, Len(t) + 1, b)
  BY <1>3, BlockTop, NewBlock
<1>. HIDE DEF b
<1>6. stack' = <<b>> \o t
  BY <1>5, Here, TwoPushed DEF b, t
<1>7. /\ Sound(stack', NoRet, ctx, LINES, FUNC_POOL_HEAD)
      /\ stack' # << >> /\ stack'[1] = b
      /\ Looping(stack') => Looping(stack)
  <2>1. /\ Sound(<<b>> \o t, NoRet, ctx, LINES, FUNC_POOL_HEAD)
        /\ <<b>> \o t # << >> /\ (<<b>> \o t)[1] = b
        /\ Looping(<<b>> \o t) <=> IsTurn(b) \/ Looping(t)
    BY <1>4, <1>5, PushPlain, ZenonT(40) DEF Ok, NoRet
  <2>. QED  BY <1>3, <1>5, <1>6, <2>1
<1>8. ~IsRepeat(stack[1]) /\ Flags(stack, ret, ctx)
  BY Here DEF IsRepeat
<1>9. Flags(stack', ret', ctx)
  BY <1>5, <1>7, <1>8, FlagsAfter
<1>. QED  BY <1>7, <1>9

LEMMA IfEnds ==
  ASSUME NEW f, f.at \in Place
  PROVE  /\ EndifOf(f) \in Nat
         /\ \A op : OfThisIf(f, op) # {} => Max(OfThisIf(f, op)) \in Place
<1>1. f.at + 1 \in Place /\ f.at \in Nat
  BY DEF Place
<1>2. EndifOf(f) \in Nat
  BY <1>1, FindIn DEF EndifOf
<1>3. ASSUME NEW op, OfThisIf(f, op) # {} PROVE Max(OfThisIf(f, op)) \in Place
  <2>1. OfThisIf(f, op) \subseteq f.at + 1 .. EndifOf(f)
    BY DEF OfThisIf
  <2>2. OfThisIf(f, op) \in SUBSET (0 .. EndifOf(f)) /\ OfThisIf(f, op) \subseteq Place
    BY <1>1, <1>2, <2>1 DEF Place
  <2>. QED  BY <1>2, <1>3, <2>2, MaxIn
<1>. QED  BY <1>2, <1>3

LEMMA ExecIfKeeps == ASSUME RshInv, exec_if PROVE RshInv'
<1>1. /\ stack # << >> /\ Top.k = "block" /\ ret = NoRet
      /\ UNCHANGED ctx /\ UnchangedTables
  BY DEF exec_if, AtLine, Runs
<1>2. /\ Top.s \in Slice /\ Top.at \in Place
  BY <1>1, BlockTop
<1>3. /\ EndifOf(Top) \in Nat
      /\ \A op : OfThisIf(Top, op) # {} => Max(OfThisIf(Top, op)) \in Place
  BY <1>2, IfEnds
<1>. DEFINE g == IfFrame(Top)
<1>4. g \in Frame /\ g.k \in {"if", "switch"} /\ FrameOK(g, LINES, FUNC_POOL_HEAD)
  <2>1. g \in IfFrames /\ g.k = "if"
    BY <1>3 DEF IfFrame, IfFrames
  <2>. HIDE DEF g
  <2>. QED  BY <2>1 DEF Frame, FrameOK
<1>. HIDE DEF g
<1>5. ASSUME NEW i \in Place, NEW j \in Int,
             stack' = <<Block(Top.s, i, j), g>> \o stack, ret' = NoRet
      PROVE  Sound(stack', ret', ctx, LINES, FUNC_POOL_HEAD) /\ Flags(stack', ret', ctx)
  BY <1>1, <1>4, <1>5, EnterTwo
<1>6. CASE stack' = Rest /\ ret' = Fail
  <2>1. Sound(stack', ret', ctx, LINES, FUNC_POOL_HEAD) /\ Flags(stack', ret', ctx)
    BY <1>1, <1>6, Returns DEF Fail, NoRet
  <2>. QED  BY <1>1, <1>6, <2>1, StackOnly
<1>7. CASE stack' = <<Block(Top.s, Top.at + 1, FirstBranchEnd(Top)), g>> \o stack /\ ret' = NoRet
  <2>1. Top.at + 1 \in Place /\ FirstBranchEnd(Top) \in Int
    BY <1>2, <1>3 DEF Place, FirstBranchEnd
  <2>. QED  BY <1>1, <1>5, <1>7, <2>1, StackOnly
<1>8. CASE stack' = <<[Top EXCEPT !.at = EndifOf(Top) + 1]>> \o Rest /\ ret' = NoRet
  <2>1. GoneOn(stack', stack, EndifOf(Top))
    BY <1>3, <1>8 DEF GoneOn, Top, Rest
  <2>. QED  BY <1>1, <1>8, <2>1, BlockGoes, StackOnly
<1>9. CASE /\ OfThisIf(Top, "else") # {} /\ ret' = NoRet
           /\ stack' = <<Block(Top.s, Max(OfThisIf(Top, "else")) + 1, EndifOf(Top) - 1), g>> \o stack
  <2>1. Max(OfThisIf(Top, "else")) + 1 \in Place /\ EndifOf(Top) - 1 \in Int
    BY <1>3, <1>9 DEF Place
  <2>. QED  BY <1>1, <1>5, <1>9, <2>1, StackOnly
<1>. QED  BY <1>1, <1>6, <1>7, <1>8, <1>9 DEF exec_if, Return, GoesOn, g

\* The executor on top is done and its block goes on.
LEMMA ExecutorDone ==
  ASSUME RshInv, stack # << >>, Top.k \in {"if", "switch"}, NEW i \in Nat, BlockGoesOn(i)
  PROVE  Sound(stack', ret', ctx, LINES, FUNC_POOL_HEAD) /\ Flags(stack', ret', ctx)
         /\ ret' = NoRet
<1>1. GoneOn(stack', Rest, i) /\ ret' = NoRet
  BY DEF BlockGoesOn, GoneOn
<1>2. Sound(Rest, Ok, ctx, LINES, FUNC_POOL_HEAD) /\ (Looping(Rest) => Looping(stack))
  BY Here, PopPlain DEF IsWith, Ok, NoRet
<1>3. Rest # << >> /\ Rest[1].k = "block"
  BY Here, TopIs
<1>4. /\ Sound(stack', NoRet, ctx, LINES, FUNC_POOL_HEAD)
      /\ stack' # << >> /\ stack'[1].k = "block"
      /\ Looping(stack') => Looping(stack)
  <2>1. /\ Sound(stack', NoRet, ctx, LINES, FUNC_POOL_HEAD)
        /\ stack' # << >> /\ stack'[1].k = "block"
        /\ Looping(stack') <=> Looping(Rest)
    BY <1>1, <1>2, <1>3, BlockOn
  <2>. QED  BY <1>2, <2>1
<1>5. ~IsRepeat(stack[1]) /\ Flags(stack, ret, ctx) /\ stack'[1].k \notin {"line", "loop"}
  BY <1>4, Here DEF IsRepeat
<1>6. Flags(stack', ret', ctx)
  BY <1>4, <1>5, FlagsAfter
<1>. QED  BY <1>1, <1>4, <1>6

LEMMA ExecIfReturnKeeps == ASSUME RshInv, exec_if_return PROVE RshInv'
<1>1. /\ stack # << >> /\ Top.k = "if" /\ BlockGoesOn(Top.endif)
      /\ UNCHANGED ctx /\ UnchangedTables
  BY DEF exec_if_return, Gets
<1>2. Top.endif \in Nat
  <2>1. Top \in IfFrames
    BY <1>1, Here, ByKind
  <2>. QED  BY <2>1 DEF IfFrames
<1>3. /\ Sound(stack', ret', ctx, LINES, FUNC_POOL_HEAD) /\ Flags(stack', ret', ctx)
      /\ ret' = NoRet
  BY <1>1, <1>2, ExecutorDone
<1>. QED  BY <1>1, <1>3, StackOnly

-----------------------------------------------------------------------------
(* switch.                                                                 *)

LEMMA SwitchTop ==
  ASSUME RshInv, stack # << >>, Top.k = "switch"
  PROVE  /\ Top \in SwitchFrames /\ Top.s \in Slice /\ Top.at \in Place /\ Top.end \in Nat
         /\ InBounds(Top.s, LINES, FUNC_POOL_HEAD)
         /\ ArmEnd \in Nat
         /\ Rest # << >> /\ Rest[1].k = "block"
<1>1. Top \in SwitchFrames /\ FrameOK(Top, LINES, FUNC_POOL_HEAD)
  BY Here, ByKind
<1>2. Rest # << >> /\ Rest[1].k = "block"
  BY Here, TopIs
<1>3. /\ Top.s \in Slice /\ Top.at \in Place /\ Top.end \in Nat
      /\ InBounds(Top.s, LINES, FUNC_POOL_HEAD)
  BY <1>1 DEF SwitchFrames, FrameOK
<1>4. Top.at + 1 \in Place
  BY <1>3 DEF Place
<1>. QED  BY <1>1, <1>2, <1>3, <1>4, FindIn DEF ArmEnd

LEMMA ExecSwitchKeeps == ASSUME RshInv, exec_switch PROVE RshInv'
<1>1. /\ stack # << >> /\ Top.k = "block" /\ ret = NoRet
      /\ UNCHANGED ctx /\ UnchangedTables
  BY DEF exec_switch, AtLine, Runs
<1>2. /\ Top.s \in Slice /\ Top.at \in Place /\ InBounds(Top.s, LINES, FUNC_POOL_HEAD)
  BY <1>1, BlockTop
<1>3. CASE stack' = Rest /\ ret' = Fail
  <2>1. Sound(stack', ret', ctx, LINES, FUNC_POOL_HEAD) /\ Flags(stack', ret', ctx)
    BY <1>1, <1>3, Returns DEF Fail, NoRet
  <2>. QED  BY <1>1, <1>3, <2>1, StackOnly
<1>. DEFINE g == [k |-> "switch", s |-> Top.s, at |-> Top.at + 1, end |-> SwitchEnd(Top),
                  matched |-> FALSE, arm |-> ""]
<1>4. CASE stack' = <<g>> \o stack /\ ret' = NoRet
  <2>1. Top.at + 1 \in Place /\ SwitchEnd(Top) \in Nat
    <3>1. Top.at + 1 \in Place
      BY <1>2 DEF Place
    <3>. QED  BY <3>1, FindIn DEF SwitchEnd
  <2>2. g \in SwitchFrames /\ g.k = "switch" /\ g.s = Top.s
    <3>1. Top.s \in Slice /\ Top.at + 1 \in Nat \ {0} /\ SwitchEnd(Top) \in Nat
      BY <1>2, <2>1 DEF Place
    <3>. HIDE DEF SwitchEnd, Top
    <3>. QED  BY <3>1 DEF SwitchFrames, Place
  <2>. HIDE DEF g
  <2>3. /\ g \in Frame /\ FrameOK(g, LINES, FUNC_POOL_HEAD) /\ ~IsWith(g) /\ ~IsTurn(g)
    BY <1>2, <2>2 DEF Frame, FrameOK, IsWith, IsTurn
  <2>4. LiesOn(stack, Len(stack) + 1, g)
    BY <1>1, <2>2, <2>3, Here, LiesOnTop
  <2>5. Sound(stack, Ok, ctx, LINES, FUNC_POOL_HEAD)
    BY <1>1, Here, Retold
  <2>6. /\ Sound(<<g>> \o stack, NoRet, ctx, LINES, FUNC_POOL_HEAD)
        /\ (<<g>> \o stack)[1] = g /\ (Looping(<<g>> \o stack) => Looping(stack))
    BY <2>2, <2>3, <2>4, <2>5, PushPlain DEF Ok, NoRet
  <2>7. ~IsRepeat(stack[1]) /\ Flags(stack, ret, ctx)
    BY <1>1, Here DEF IsRepeat
  <2>8. Flags(stack', ret', ctx)
    BY <1>4, <2>2, <2>6, <2>7, FlagsAfter
  <2>. QED  BY <1>1, <1>4, <2>6, <2>8, StackOnly
<1>. QED  BY <1>1, <1>3, <1>4 DEF exec_switch, Return

\* The switch on top is further on.
LEMMA SwitchMoves ==
  ASSUME RshInv, stack # << >>, Top.k = "switch", NEW f \in SwitchFrames, f.s = Top.s
  PROVE  /\ f.k = "switch" /\ f \in Frame
         /\ \A q : Sound(<<f>> \o Rest, q, ctx, LINES, FUNC_POOL_HEAD)
         /\ <<f>> \o Rest \in Seq(Frame) /\ <<f>> \o Rest # << >> /\ (<<f>> \o Rest)[1] = f
         /\ Looping(<<f>> \o Rest) <=> Looping(stack)
<1>1. f.k = "switch" /\ f \in Frame
  BY DEF SwitchFrames, Frame
<1>2. Twin(f, stack[1])
  BY <1>1, Here DEF Twin
<1>. QED  BY <1>1, <1>2, Here, Moved

LEMMA SwitchArmKeeps == ASSUME RshInv, switch_arm PROVE RshInv'
<1>1. /\ stack # << >> /\ Top.k = "switch" /\ ret = NoRet
      /\ UNCHANGED ctx /\ UnchangedTables /\ Arm.op \in {"case", "default"}
  BY DEF switch_arm, SwitchMore, Runs
<1>2. ~IsRepeat(stack[1]) /\ Flags(stack, ret, ctx)
  BY <1>1, Here DEF IsRepeat
<1>3. CASE stack' = Tail(Rest) /\ ret' = Fail
  <2>1. Sound(Rest, Ok, ctx, LINES, FUNC_POOL_HEAD) /\ (Looping(Rest) => Looping(stack))
    BY <1>1, Here, PopPlain DEF IsWith, Ok, NoRet
  <2>2. Rest # << >> /\ Rest[1].k = "block"
    BY <1>1, SwitchTop
  <2>3. Sound(stack', ret', ctx, LINES, FUNC_POOL_HEAD) /\ (Looping(stack') => Looping(stack))
    BY <1>3, <2>1, <2>2, PopPlain DEF IsWith, Fail, NoRet
  <2>4. Flags(stack', ret', ctx)
    BY <1>2, <1>3, <2>3, FlagsAfter DEF Fail, NoRet
  <2>. QED  BY <1>1, <1>3, <2>3, <2>4, StackOnly
<1>4. ASSUME NEW m \in BOOLEAN
      PROVE  PastArm(m) \in SwitchFrames /\ PastArm(m).s = Top.s
  <2>1. Top \in SwitchFrames /\ ArmEnd \in Nat
    BY <1>1, SwitchTop
  <2>2. ArmEnd + 1 \in Place
    BY <2>1 DEF Place
  <2>. HIDE DEF ArmEnd, Arm, Top
  <2>. QED  BY <1>1, <1>4, <2>1, <2>2 DEF SwitchFrames, PastArm
<1>5. CASE stack' = <<PastArm(Top.matched)>> \o Rest /\ ret' = NoRet
  <2>1. Top.matched \in BOOLEAN
    BY <1>1, SwitchTop DEF SwitchFrames
  <2>. DEFINE f == PastArm(Top.matched)
  <2>2. f \in SwitchFrames /\ f.s = Top.s
    BY <1>4, <2>1
  <2>. HIDE DEF f
  <2>3. /\ Sound(<<f>> \o Rest, NoRet, ctx, LINES, FUNC_POOL_HEAD)
        /\ (<<f>> \o Rest)[1].k = "switch" /\ (Looping(<<f>> \o Rest) => Looping(stack))
    BY <1>1, <2>2, SwitchMoves
  <2>4. stack' = <<f>> \o Rest
    BY <1>5 DEF f
  <2>5. Flags(stack', ret', ctx)
    BY <1>2, <2>3, <2>4, FlagsAfter
  <2>. QED  BY <1>1, <1>5, <2>3, <2>4, <2>5, StackOnly
<1>6. CASE stack' = <<Block(Top.s, Top.at + 1, ArmEnd - 1), PastArm(Arm.op = "case")>> \o Rest
           /\ ret' = NoRet
  <2>. DEFINE f == PastArm(Arm.op = "case")  b == Block(Top.s, Top.at + 1, ArmEnd - 1)
              t == <<f>> \o Rest
  <2>1. f \in SwitchFrames /\ f.s = Top.s
    BY <1>4
  <2>. HIDE DEF f
  <2>2. /\ Sound(t, Ok, ctx, LINES, FUNC_POOL_HEAD) /\ t \in Seq(Frame) /\ f \in Frame
        /\ Looping(t) => Looping(stack)
    BY <1>1, <2>1, SwitchMoves
  <2>3. /\ Top.s \in Slice /\ Top.at + 1 \in Place /\ ArmEnd - 1 \in Int
        /\ InBounds(Top.s, LINES, FUNC_POOL_HEAD)
    BY <1>1, SwitchTop DEF Place
  <2>. HIDE DEF t
  <2>4. /\ b \in Frame /\ b.k = "block" /\ ~IsWith(b) /\ ~IsTurn(b)
        /\ FrameOK(b, LINES, FUNC_POOL_HEAD) /\ LiesOn(t, Len(t) + 1, b)
    BY <2>2, <2>3, NewBlock
  <2>. HIDE DEF b
  <2>5. /\ Sound(<<b>> \o t, NoRet, ctx, LINES, FUNC_POOL_HEAD)
        /\ (<<b>> \o t)[1] = b /\ (Looping(<<b>> \o t) => Looping(t))
    BY <2>2, <2>4, PushPlain DEF Ok, NoRet
  <2>6. stack' = <<b>> \o t
    <3>1. <<b, f>> \o Rest = <<b>> \o (<<f>> \o Rest)
      BY <1>1, <2>2, <2>4, Here, TwoPushed
    <3>2. stack' = <<b, f>> \o Rest
      BY <1>6 DEF b, f
    <3>. QED  BY <3>1, <3>2 DEF t
  <2>7. Flags(stack', ret', ctx)
    BY <1>2, <2>2, <2>4, <2>5, <2>6, FlagsAfter
  <2>. QED  BY <1>1, <1>6, <2>5, <2>6, <2>7, StackOnly
<1>. QED  BY <1>1, <1>3, <1>5, <1>6 DEF switch_arm, Enter

LEMMA SwitchSkipKeeps == ASSUME RshInv, switch_skip PROVE RshInv'
<1>1. /\ stack # << >> /\ Top.k = "switch" /\ ret' = NoRet
      /\ stack' = <<[Top EXCEPT !.at = Top.at + 1]>> \o Rest
      /\ UNCHANGED ctx /\ UnchangedTables
  BY DEF switch_skip, SwitchMore, Runs, GoesOn
<1>2. ~IsRepeat(stack[1]) /\ Flags(stack, ret, ctx)
  BY <1>1, Here DEF IsRepeat
<1>. DEFINE f == [Top EXCEPT !.at = Top.at + 1]
<1>3. f \in SwitchFrames /\ f.s = Top.s
  <2>1. Top \in SwitchFrames /\ Top.at + 1 \in Place
    BY <1>1, SwitchTop DEF Place
  <2>. HIDE DEF Top
  <2>. QED  BY <2>1 DEF SwitchFrames
<1>. HIDE DEF f
<1>4. /\ Sound(<<f>> \o Rest, NoRet, ctx, LINES, FUNC_POOL_HEAD)
      /\ (<<f>> \o Rest)[1].k = "switch" /\ (Looping(<<f>> \o Rest) => Looping(stack))
  BY <1>1, <1>3, SwitchMoves
<1>5. stack' = <<f>> \o Rest
  BY <1>1 DEF f
<1>6. Flags(stack', ret', ctx)
  BY <1>2, <1>4, <1>5, FlagsAfter
<1>. QED  BY <1>1, <1>4, <1>5, <1>6, StackOnly

LEMMA SwitchArmReturnKeeps == ASSUME RshInv, switch_arm_return PROVE RshInv'
<1>1. /\ stack # << >> /\ Top.k = "switch" /\ UNCHANGED ctx /\ UnchangedTables
  BY DEF switch_arm_return, Gets
<1>2. CASE BlockGoesOn(Top.end)
  BY <1>1, <1>2, SwitchTop, ExecutorDone, StackOnly
<1>3. CASE ret' = NoRet /\ UNCHANGED stack
  <2>1. Sound(stack', ret', ctx, LINES, FUNC_POOL_HEAD)
    BY <1>1, <1>3, Here, Retold
  <2>2. ~IsRepeat(stack[1]) /\ Flags(stack, ret, ctx) /\ stack[1].k = "switch"
    BY <1>1, Here DEF IsRepeat
  <2>3. Flags(stack', ret', ctx)
    BY <1>3, <2>2, FlagsAfter
  <2>. QED  BY <1>1, <1>3, <2>1, <2>3, StackOnly
<1>. QED  BY <1>2, <1>3 DEF switch_arm_return

LEMMA SwitchEndKeeps == ASSUME RshInv, switch_end PROVE RshInv'
<1>1. /\ stack # << >> /\ Top.k = "switch" /\ UNCHANGED ctx /\ UnchangedTables
      /\ BlockGoesOn(Top.end)
  BY DEF switch_end, Runs
<1>. QED  BY <1>1, SwitchTop, ExecutorDone, StackOnly

-----------------------------------------------------------------------------
(* Variables and contexts.                                                 *)

LEMMA SlotsAre ==
  /\ MAX_VARS \in Nat \ {0} /\ INDEX_MOD \in Nat \ {0} /\ BUFFERS \in Nat \ {0}
  /\ MAX_CALL_STACK \in Nat /\ MAX_INCLUDE_DEPTH \in Nat /\ MAX_ONCE_TAGS \in Nat
  /\ MAX_WHILE_ITER \in Nat /\ COUNTS \subseteq Nat /\ FUNC_POOL_SIZE \in Nat
  /\ 0 \in Slots /\ Slots \subseteq Nat
BY RshAssumption DEF Slots

LEMMA UnusedIs == Unused \in Var
BY DEF Unused, Var, Text

LEMMA SetVarIn ==
  ASSUME NEW vs \in Table, NEW n \in Text, NEW v \in Text
  PROVE  set_var(vs, n, v) \in Table /\ unset_var(vs, n) \in Table
<1>1. [name |-> n, val |-> v] \in Var
  BY DEF Var
<1>2. \A i : [vs EXCEPT ![i] = [name |-> n, val |-> v]] \in Table
  BY <1>1 DEF Table
<1>3. \A i : [vs EXCEPT ![i] = Unused] \in Table
  BY UnusedIs DEF Table
<1>4. set_var(vs, n, v) \in Table
  BY <1>2 DEF set_var
<1>5. unset_var(vs, n) \in Table
  BY <1>3 DEF unset_var
<1>. QED  BY <1>4, <1>5

LEMMA CtxFields ==
  ASSUME NEW c \in Context
  PROVE  /\ c.vars \in Table /\ c.funcs \in [FuncNames -> Func]
         /\ c.call_stack \in [1 .. MAX_CALL_STACK -> [func_name : Text, saved : Table]]
         /\ c.once_tags \in SUBSET Text /\ c.call_depth \in 0 .. MAX_CALL_STACK
         /\ c.in_function \in BOOLEAN /\ c.break_flag \in BOOLEAN
         /\ c.continue_flag \in BOOLEAN /\ c.return_flag \in BOOLEAN
         /\ c.include_depth \in Nat /\ c.with_map \in Text
BY DEF Context

LEMMA CtxVars ==
  ASSUME NEW c \in Context, NEW vs \in Table
  PROVE  LET d == [c EXCEPT !.vars = vs] IN
         /\ d \in Context /\ Counts(d) = Counts(c) /\ d.funcs = c.funcs
         /\ d.once_tags = c.once_tags /\ d.vars = vs /\ d.break_flag = c.break_flag
         /\ d.continue_flag = c.continue_flag /\ d.return_flag = c.return_flag
         /\ d.include_depth = c.include_depth /\ d.call_depth = c.call_depth
         /\ d.call_stack = c.call_stack /\ d.in_function = c.in_function
         /\ d.with_map = c.with_map
BY DEF Context, Counts

LEMMA CtxMap ==
  ASSUME NEW c \in Context, NEW m \in Text
  PROVE  LET d == [c EXCEPT !.with_map = m] IN
         /\ d \in Context /\ d.funcs = c.funcs
         /\ d.once_tags = c.once_tags /\ d.vars = c.vars /\ d.break_flag = c.break_flag
         /\ d.continue_flag = c.continue_flag /\ d.return_flag = c.return_flag
         /\ d.include_depth = c.include_depth /\ d.call_depth = c.call_depth
         /\ d.call_stack = c.call_stack /\ d.in_function = c.in_function
         /\ d.with_map = m
BY DEF Context

LEMMA CtxBreak ==
  ASSUME NEW c \in Context, NEW b \in BOOLEAN
  PROVE  LET d == [c EXCEPT !.break_flag = b] IN
         /\ d \in Context /\ Counts(d) = Counts(c) /\ d.funcs = c.funcs
         /\ d.once_tags = c.once_tags /\ d.vars = c.vars /\ d.break_flag = b
         /\ d.continue_flag = c.continue_flag /\ d.return_flag = c.return_flag
BY DEF Context, Counts

LEMMA CtxContinue ==
  ASSUME NEW c \in Context, NEW b \in BOOLEAN
  PROVE  LET d == [c EXCEPT !.continue_flag = b] IN
         /\ d \in Context /\ Counts(d) = Counts(c) /\ d.funcs = c.funcs
         /\ d.once_tags = c.once_tags /\ d.vars = c.vars /\ d.break_flag = c.break_flag
         /\ d.continue_flag = b /\ d.return_flag = c.return_flag
BY DEF Context, Counts

LEMMA CtxReturn ==
  ASSUME NEW c \in Context, NEW b \in BOOLEAN
  PROVE  LET d == [c EXCEPT !.return_flag = b] IN
         /\ d \in Context /\ Counts(d) = Counts(c) /\ d.funcs = c.funcs
         /\ d.once_tags = c.once_tags /\ d.vars = c.vars /\ d.break_flag = c.break_flag
         /\ d.continue_flag = c.continue_flag /\ d.return_flag = b
BY DEF Context, Counts

LEMMA CtxDepth ==
  ASSUME NEW c \in Context, NEW v \in 0 .. MAX_CALL_STACK
  PROVE  LET d == [c EXCEPT !.call_depth = v] IN
         /\ d \in Context /\ d.vars = c.vars /\ d.funcs = c.funcs
         /\ d.call_stack = c.call_stack /\ d.once_tags = c.once_tags
         /\ d.call_depth = v /\ d.in_function = c.in_function
         /\ d.break_flag = c.break_flag /\ d.continue_flag = c.continue_flag
         /\ d.return_flag = c.return_flag /\ d.include_depth = c.include_depth
         /\ d.with_map = c.with_map
BY DEF Context

LEMMA CtxInclude ==
  ASSUME NEW c \in Context, NEW v \in Nat
  PROVE  LET d == [c EXCEPT !.include_depth = v] IN
         /\ d \in Context /\ d.vars = c.vars /\ d.funcs = c.funcs
         /\ d.call_stack = c.call_stack /\ d.once_tags = c.once_tags
         /\ d.call_depth = c.call_depth /\ d.in_function = c.in_function
         /\ d.break_flag = c.break_flag /\ d.continue_flag = c.continue_flag
         /\ d.return_flag = c.return_flag /\ d.include_depth = v
         /\ d.with_map = c.with_map
BY DEF Context

LEMMA CtxStack ==
  ASSUME NEW c \in Context, NEW v \in [1 .. MAX_CALL_STACK -> [func_name : Text, saved : Table]]
  PROVE  LET d == [c EXCEPT !.call_stack = v] IN
         /\ d \in Context /\ d.vars = c.vars /\ d.funcs = c.funcs
         /\ d.call_stack = v /\ d.once_tags = c.once_tags
         /\ d.call_depth = c.call_depth /\ d.in_function = c.in_function
         /\ d.break_flag = c.break_flag /\ d.continue_flag = c.continue_flag
         /\ d.return_flag = c.return_flag /\ d.include_depth = c.include_depth
         /\ d.with_map = c.with_map
BY DEF Context

LEMMA CtxIn ==
  ASSUME NEW c \in Context, NEW v \in BOOLEAN
  PROVE  LET d == [c EXCEPT !.in_function = v] IN
         /\ d \in Context /\ d.vars = c.vars /\ d.funcs = c.funcs
         /\ d.call_stack = c.call_stack /\ d.once_tags = c.once_tags
         /\ d.call_depth = c.call_depth /\ d.in_function = v
         /\ d.break_flag = c.break_flag /\ d.continue_flag = c.continue_flag
         /\ d.return_flag = c.return_flag /\ d.include_depth = c.include_depth
         /\ d.with_map = c.with_map
BY DEF Context

LEMMA CtxFuncs ==
  ASSUME NEW c \in Context, NEW v \in [FuncNames -> Func]
  PROVE  LET d == [c EXCEPT !.funcs = v] IN
         /\ d \in Context /\ d.vars = c.vars /\ d.funcs = v
         /\ d.call_stack = c.call_stack /\ d.once_tags = c.once_tags
         /\ d.call_depth = c.call_depth /\ d.in_function = c.in_function
         /\ d.break_flag = c.break_flag /\ d.continue_flag = c.continue_flag
         /\ d.return_flag = c.return_flag /\ d.include_depth = c.include_depth
         /\ d.with_map = c.with_map
BY DEF Context

\* A step that changes the stack and the context, but no function.
LEMMA CtxStep ==
  ASSUME RshInv, UnchangedTables, ret' \in {NoRet, Ok, Fail}, ctx' \in Context,
         ctx'.funcs = ctx.funcs, ctx'.once_tags = ctx.once_tags,
         Sound(stack', ret', ctx', LINES, FUNC_POOL_HEAD), Flags(stack', ret', ctx')
  PROVE  RshInv'
<1>1. RshTables'
  BY TablesSame DEF RshInv, RshTables
<1>. QED  BY <1>1 DEF RshInv, UnchangedTables

-----------------------------------------------------------------------------
(* Loops.                                                                  *)

LEMMA LoopTop ==
  ASSUME RshInv, stack # << >>, Top.k = "loop"
  PROVE  /\ Top.line \in ScriptLines /\ Top.left \in Nat /\ Top.line.op \in Loops \cup {"repeat"}
         /\ IsRepeat(Top) <=> Top.line.op = "repeat"
         /\ IsRepeat(Top) => Top \in RepeatFrames
         /\ ~IsRepeat(Top) =>
              /\ Top \in LoopFrames /\ Top.s \in Slice /\ Top.at \in Place /\ Top.end \in Nat
              /\ InBounds(Top.s, LINES, FUNC_POOL_HEAD) /\ Top.prev \in Text
              /\ Rest # << >> /\ Rest[1].k = "block"
<1>1. Top \in Frame /\ FrameOK(Top, LINES, FUNC_POOL_HEAD)
  BY Here
<1>2. CASE IsRepeat(Top)
  <2>1. Top \in RepeatFrames
    BY <1>1, <1>2, ByKind
  <2>. QED  BY <1>2, <2>1 DEF RepeatFrames, Word, IsRepeat
<1>3. CASE ~IsRepeat(Top)
  <2>1. Top \in LoopFrames
    BY <1>1, <1>3, ByKind
  <2>2. /\ Top.line \in Word(Loops) /\ Top.left \in Nat /\ Top.s \in Slice /\ Top.at \in Place
        /\ Top.end \in Nat /\ Top.prev \in Text
    BY <2>1 DEF LoopFrames
  <2>3. Top.line \in ScriptLines /\ Top.line.op \in Loops
    BY <2>2 DEF Word
  <2>4. Rest # << >> /\ Rest[1].k = "block"
    BY <1>3, Here, TopIs
  <2>5. InBounds(Top.s, LINES, FUNC_POOL_HEAD)
    BY <1>1, <1>3 DEF FrameOK
  <2>6. IsRepeat(Top) <=> Top.line.op = "repeat"
    BY DEF IsRepeat
  <2>. QED  BY <1>3, <2>1, <2>2, <2>3, <2>4, <2>5, <2>6
<1>. QED  BY <1>2, <1>3

\* With no line or loop running on top nothing is asked but that break and
\* continue are not both set inside a loop.
LEMMA FlagsQuiet ==
  ASSUME NEW t, NEW q, NEW d, Looping(t) => ~(d.break_flag /\ d.continue_flag),
         q # NoRet \/ t = << >> \/ t[1].k \notin {"line", "loop"}
  PROVE  Flags(t, q, d)
BY DEF Flags, IsTurn

LEMMA LoopFrameIs ==
  ASSUME RshInv, stack # << >>, Top.k = "block", Top.at <= Top.s.len, BlockLine.op \in Loops,
         NEW n \in Nat, NEW f, f = LoopFrame(n)
  PROVE  /\ f \in Frame /\ f.k = "loop" /\ f.s = Top.s /\ f.prev = ctx.with_map
         /\ f.line = BlockLine /\ ~IsRepeat(f)
         /\ FrameOK(f, LINES, FUNC_POOL_HEAD) /\ LiesOn(stack, Len(stack) + 1, f)
<1>1. /\ Top.s \in Slice /\ Top.at \in Place /\ InBounds(Top.s, LINES, FUNC_POOL_HEAD)
      /\ BlockLine \in ScriptLines
  BY BlockTop
<1>2. LoopEnd(Top) \in Nat
  <2>1. Top.at + 1 \in Place
    BY <1>1 DEF Place
  <2>. QED  BY <2>1, FindIn DEF LoopEnd
<1>3. ctx.with_map \in Text
  BY CtxFields DEF RshInv, RshTables
<1>4. BlockLine \in Word(Loops)
  BY <1>1 DEF Word
<1>5. f \in LoopFrames /\ f.k = "loop" /\ f.s = Top.s /\ f.prev = ctx.with_map /\ f.line = BlockLine
  <2>. HIDE DEF LoopEnd, Top, BlockLine
  <2>. QED  BY <1>1, <1>2, <1>3, <1>4 DEF LoopFrame, LoopFrames
<1>6. ~IsRepeat(f)
  BY <1>5 DEF IsRepeat, Loops
<1>7. f \in Frame
  BY <1>5 DEF Frame
<1>8. FrameOK(f, LINES, FUNC_POOL_HEAD)
  BY <1>1, <1>5 DEF FrameOK
<1>9. LiesOn(stack, Len(stack) + 1, f)
  BY <1>5, <1>6, <1>7, Here, LiesOnTop
<1>. QED  BY <1>5, <1>6, <1>7, <1>8, <1>9

LEMMA ExecLoopKeeps == ASSUME RshInv, exec_loop PROVE RshInv'
<1>1. /\ stack # << >> /\ Top.k = "block" /\ ret = NoRet /\ Top.at <= Top.s.len
      /\ ~Flagged /\ BlockLine.op \in Loops /\ UnchangedTables
  BY DEF exec_loop, AtLine, Runs
<1>2. ctx \in Context /\ BlockLine \in ScriptLines
  BY <1>1, BlockTop DEF RshInv, RshTables
<1>3. LoopEnd(Top) \in Nat
  <2>1. Top.at + 1 \in Place
    BY <1>1, BlockTop DEF Place
  <2>. QED  BY <2>1, FindIn DEF LoopEnd
<1>4. CASE stack' = Rest /\ ret' = Fail /\ UNCHANGED ctx
  <2>1. Sound(stack', ret', ctx, LINES, FUNC_POOL_HEAD) /\ Flags(stack', ret', ctx)
    BY <1>1, <1>4, Returns DEF Fail, NoRet
  <2>. QED  BY <1>1, <1>4, <2>1, StackOnly
<1>5. CASE stack' = <<[Top EXCEPT !.at = LoopEnd(Top) + 1]>> \o Rest /\ ret' = NoRet /\ UNCHANGED ctx
  <2>1. GoneOn(stack', stack, LoopEnd(Top))
    BY <1>3, <1>5 DEF GoneOn, Top, Rest
  <2>. QED  BY <1>1, <1>5, <2>1, BlockGoes, StackOnly
<1>6. ASSUME NEW n \in Allowed(BlockLine.op), stack' = <<LoopFrame(n)>> \o stack, ret' = NoRet,
             ctx' = [ctx EXCEPT !.with_map =
                       IF BlockLine.op = "with" THEN BlockLine.map ELSE @]
      PROVE  RshInv'
  <2>. DEFINE f == LoopFrame(n)
  <2>1. n \in Nat
    BY SlotsAre DEF Allowed
  <2>2. /\ f \in Frame /\ f.k = "loop" /\ f.s = Top.s /\ f.prev = ctx.with_map
        /\ f.line = BlockLine /\ ~IsRepeat(f)
        /\ FrameOK(f, LINES, FUNC_POOL_HEAD) /\ LiesOn(stack, Len(stack) + 1, f)
    BY <1>1, <2>1, LoopFrameIs
  <2>. HIDE DEF f
  <2>3. stack' = <<f>> \o stack
    BY <1>6 DEF f
  <2>4. Sound(stack, Ok, ctx, LINES, FUNC_POOL_HEAD) /\ stack \in Seq(Frame)
    BY <1>1, Here, Retold
  <2>. DEFINE m == IF BlockLine.op = "with" THEN BlockLine.map ELSE ctx.with_map
  <2>5. m \in Text
    BY <1>2, CtxFields, ScriptsAssumption DEF Text
  <2>. HIDE DEF m
  <2>6. ctx' = [ctx EXCEPT !.with_map = m]
    BY <1>6 DEF m
  <2>7. /\ ctx' \in Context /\ ctx'.funcs = ctx.funcs
        /\ ctx'.once_tags = ctx.once_tags /\ ctx'.break_flag = ctx.break_flag
        /\ ctx'.continue_flag = ctx.continue_flag /\ ctx'.return_flag = ctx.return_flag
        /\ ctx'.include_depth = ctx.include_depth /\ ctx'.call_depth = ctx.call_depth
        /\ ctx'.call_stack = ctx.call_stack /\ ctx'.in_function = ctx.in_function
        /\ ctx'.with_map = m
    BY <1>2, <2>5, <2>6, CtxMap
  <2>8. Sound(stack', NoRet, ctx', LINES, FUNC_POOL_HEAD)
    <3>1. CASE IsWith(f)
      <4>1. ctx'.with_map = f.line.map
        BY <2>2, <2>7, <3>1 DEF IsWith, m
      <4>2. Sound(<<f>> \o stack, NoRet, ctx', LINES, FUNC_POOL_HEAD)
        BY <2>2, <2>4, <2>7, <3>1, <4>1, PushWith DEF Ok, NoRet
      <4>. QED  BY <2>3, <4>2
    <3>2. CASE ~IsWith(f)
      <4>1. ctx'.with_map = ctx.with_map
        BY <2>2, <2>7, <3>2 DEF IsWith, m
      <4>2. Sound(stack, Ok, ctx', LINES, FUNC_POOL_HEAD)
        BY <2>4, <2>7, <4>1, SoundSame DEF Counts
      <4>3. f.k \notin {"file", "call", "scan"}
        BY <2>2
      <4>4. Sound(<<f>> \o stack, NoRet, ctx', LINES, FUNC_POOL_HEAD)
        BY <2>2, <3>2, <4>2, <4>3, PushPlain DEF Ok, NoRet
      <4>. QED  BY <2>3, <4>4
    <3>. QED  BY <3>1, <3>2
  <2>9. Flags(stack', NoRet, ctx')
    BY <1>1, <2>7, NoFlags DEF Flagged
  <2>. QED  BY <1>1, <1>6, <2>7, <2>8, <2>9, CtxStep
<1>. QED  BY <1>1, <1>4, <1>5, <1>6 DEF exec_loop, Return, GoesOn

\* The variables of an iteration.
LEMMA LoopVarsIn ==
  ASSUME RshInv, NEW l \in ScriptLines, l.op \in Loops \cup {"repeat"}
  PROVE  LoopVars(l) \in Table
<1>1. ctx.vars \in Table
  BY CtxFields DEF RshInv, RshTables
<1>2. {"n", "key", "val", "v", "ITER"} \subseteq Text
  BY DEF Text
<1>3. l.op = "for" => set_var(ctx.vars, l.name, "n") \in Table
  BY <1>1, <1>2, SetVarIn, ScriptsAssumption DEF Text
<1>4. set_var(ctx.vars, "ITER", "n") \in Table /\ set_var(ctx.vars, "key", "v") \in Table
  BY <1>1, <1>2, SetVarIn
<1>5. set_var(set_var(ctx.vars, "key", "v"), "val", "v") \in Table
  BY <1>2, <1>4, SetVarIn
<1>. QED  BY <1>1, <1>3, <1>4, <1>5 DEF LoopVars, Loops

\* A line that repeats or is run lies on what the line before it lay on.
LEMMA LineFrameIs ==
  ASSUME NEW l \in ScriptLines, NEW L, NEW hd, NEW f, f = LineFrame(l)
  PROVE  /\ f \in Frame /\ f.k = "line" /\ f.line = l /\ ~IsWith(f) /\ ~IsTurn(f)
         /\ FrameOK(f, L, hd)
<1>1. f \in LineFrames /\ f.k = "line" /\ f.line = l
  BY DEF LineFrame, LineFrames
<1>. QED  BY <1>1 DEF Frame, IsWith, IsTurn, FrameOK

\* The frame on top further on, with no value or any other.
LEMMA TwinMoves ==
  ASSUME RshInv, stack # << >>, NEW f \in Frame, Twin(f, Top), f.k # "scan"
  PROVE  /\ \A q : Sound(<<f>> \o Rest, q, ctx, LINES, FUNC_POOL_HEAD)
         /\ <<f>> \o Rest \in Seq(Frame) /\ <<f>> \o Rest # << >> /\ (<<f>> \o Rest)[1] = f
         /\ Looping(<<f>> \o Rest) <=> Looping(stack)
BY Here, Moved, ZenonT(40)

\* The loop on top with an iteration less.
LEMMA LoopMoves ==
  ASSUME RshInv, stack # << >>, Top.k = "loop", Top.left > 0, NEW f,
         f = [Top EXCEPT !.left = @ - 1]
  PROVE  /\ f.k = "loop" /\ f \in Frame
         /\ IsRepeat(f) <=> IsRepeat(Top)
         /\ \A q : Sound(<<f>> \o Rest, q, ctx, LINES, FUNC_POOL_HEAD)
         /\ <<f>> \o Rest \in Seq(Frame) /\ <<f>> \o Rest # << >> /\ (<<f>> \o Rest)[1] = f
         /\ Looping(<<f>> \o Rest) <=> Looping(stack)
<1>1. Top.left \in Nat /\ Top.left - 1 \in Nat
  BY LoopTop
<1>2. /\ f \in Frame /\ f.k = "loop" /\ f.line = Top.line /\ Top.k = "loop"
      /\ ~IsRepeat(Top) => f.s = Top.s /\ f.prev = Top.prev
  <2>1. CASE IsRepeat(Top)
    <3>1. Top \in RepeatFrames
      BY <2>1, LoopTop
    <3>. HIDE DEF Top
    <3>2. f \in RepeatFrames /\ f.k = "loop" /\ f.line = Top.line
      BY <1>1, <3>1 DEF RepeatFrames
    <3>. QED  BY <2>1, <3>2 DEF Frame
  <2>2. CASE ~IsRepeat(Top)
    <3>1. Top \in LoopFrames
      BY <2>2, LoopTop
    <3>. HIDE DEF Top
    <3>2. f \in LoopFrames /\ f.k = "loop" /\ f.line = Top.line /\ f.s = Top.s /\ f.prev = Top.prev
      BY <1>1, <3>1 DEF LoopFrames
    <3>. QED  BY <3>2 DEF Frame
  <2>. QED  BY <2>1, <2>2
<1>3. /\ IsRepeat(f) <=> IsRepeat(Top)
      /\ IsWith(f) <=> IsWith(Top)
  BY <1>2 DEF IsRepeat, IsWith
<1>4. IsWith(Top) => ~IsRepeat(Top)
  BY DEF IsWith, IsRepeat
<1>5. Twin(f, Top)
  <2>. HIDE DEF Top
  <2>. QED  BY <1>2, <1>3, <1>4, Zenon DEF Twin
<1>. QED  BY <1>2, <1>3, <1>5, TwinMoves, Zenon

LEMMA LoopIterateKeeps == ASSUME RshInv, loop_iterate PROVE RshInv'
<1>. DEFINE clear == ClearsFlags(Top.line.op)
            body  == IF Top.line.op = "repeat" THEN LineFrame(Top.line.cmd)
                     ELSE Block(Top.s, Top.at + 1, Top.end - 1)
            f == [Top EXCEPT !.left = @ - 1]
            t == <<f>> \o Rest
<1>1. /\ stack # << >> /\ Top.k = "loop" /\ Top.left > 0 /\ ret = NoRet /\ ret' = NoRet
      /\ UnchangedTables
      /\ ctx' = [ctx EXCEPT !.vars = LoopVars(Top.line), !.break_flag = @ /\ ~clear,
                   !.continue_flag = @ /\ ~clear]
      /\ stack' = <<body, f>> \o Rest
  BY DEF loop_iterate, Runs
<1>2. /\ ctx' \in Context /\ Counts(ctx') = Counts(ctx) /\ ctx'.funcs = ctx.funcs
      /\ ctx'.once_tags = ctx.once_tags
      /\ ctx'.break_flag = (ctx.break_flag /\ ~clear)
      /\ ctx'.return_flag = ctx.return_flag
  <2>1. LoopVars(Top.line) \in Table
    BY <1>1, LoopTop, LoopVarsIn
  <2>2. ctx \in Context
    BY DEF RshInv, RshTables
  <2>3. clear \in BOOLEAN
    BY DEF ClearsFlags
  <2>. HIDE DEF clear
  <2>. DEFINE vs == LoopVars(Top.line)
              b == ctx.break_flag /\ ~clear
              e == ctx.continue_flag /\ ~clear
              x == [ctx EXCEPT !.vars = vs]
              y == [x EXCEPT !.break_flag = b]
              z == [y EXCEPT !.continue_flag = e]
  <2>4. ctx' = z
    BY <1>1, Zenon
  <2>5. vs \in Table /\ b \in BOOLEAN /\ e \in BOOLEAN
    BY <2>1, <2>2, <2>3, CtxFields
  <2>. HIDE DEF vs, b, e
  <2>6. /\ x \in Context /\ Counts(x) = Counts(ctx) /\ x.funcs = ctx.funcs
        /\ x.once_tags = ctx.once_tags /\ x.break_flag = ctx.break_flag
        /\ x.continue_flag = ctx.continue_flag /\ x.return_flag = ctx.return_flag
    BY <2>2, <2>5, CtxVars, Zenon
  <2>. HIDE DEF x
  <2>7. /\ y \in Context /\ Counts(y) = Counts(x) /\ y.funcs = x.funcs
        /\ y.once_tags = x.once_tags /\ y.break_flag = b
        /\ y.continue_flag = x.continue_flag /\ y.return_flag = x.return_flag
    BY <2>5, <2>6, CtxBreak, Zenon
  <2>. HIDE DEF y
  <2>8. /\ z \in Context /\ Counts(z) = Counts(y) /\ z.funcs = y.funcs
        /\ z.once_tags = y.once_tags /\ z.break_flag = y.break_flag
        /\ z.continue_flag = e /\ z.return_flag = y.return_flag
    BY <2>5, <2>7, CtxContinue, Zenon
  <2>. HIDE DEF z
  <2>. QED  BY <2>4, <2>6, <2>7, <2>8, Zenon DEF b, e
<1>. HIDE DEF clear
<1>3. /\ f.k = "loop" /\ f \in Frame
      /\ IsRepeat(f) <=> IsRepeat(Top)
      /\ Sound(t, Ok, ctx, LINES, FUNC_POOL_HEAD)
      /\ t \in Seq(Frame) /\ t # << >> /\ t[1] = f
      /\ Looping(t) <=> Looping(stack)
  <2>. HIDE DEF f
  <2>1. f = [Top EXCEPT !.left = @ - 1]
    BY DEF f
  <2>. QED  BY <1>1, <2>1, LoopMoves
<1>. HIDE DEF f, t
<1>4. Sound(t, Ok, ctx', LINES, FUNC_POOL_HEAD)
  BY <1>2, <1>3, SoundSame
<1>5. /\ body \in Frame /\ body.k \in {"line", "block"} /\ ~IsWith(body) /\ ~IsTurn(body)
      /\ FrameOK(body, LINES, FUNC_POOL_HEAD) /\ LiesOn(t, Len(t) + 1, body)
  <2>1. CASE IsRepeat(Top)
    <3>1. Top.line.cmd \in ScriptLines /\ Top.line.op = "repeat"
      BY <1>1, <2>1, LoopTop, ScriptsAssumption
    <3>2. body = LineFrame(Top.line.cmd)
      BY <3>1
    <3>. HIDE DEF body
    <3>3. /\ body \in Frame /\ body.k = "line" /\ ~IsWith(body) /\ ~IsTurn(body)
          /\ FrameOK(body, LINES, FUNC_POOL_HEAD)
      BY <3>1, <3>2, LineFrameIs
    <3>4. LiesOn(t, Len(t) + 1, body)
      BY <1>3, <2>1, <3>3, LiesOnTop
    <3>. QED  BY <3>3, <3>4
  <2>2. CASE ~IsRepeat(Top)
    <3>1. /\ Top.s \in Slice /\ Top.at + 1 \in Place /\ Top.end - 1 \in Int
          /\ InBounds(Top.s, LINES, FUNC_POOL_HEAD) /\ Top.line.op # "repeat"
      BY <1>1, <2>2, LoopTop DEF Place
    <3>2. body = Block(Top.s, Top.at + 1, Top.end - 1)
      BY <3>1
    <3>. HIDE DEF body
    <3>. QED  BY <1>3, <3>1, <3>2, NewBlock
  <2>. QED  BY <2>1, <2>2
<1>. HIDE DEF body
<1>6. stack' = <<body>> \o t
  <2>1. <<body, f>> \o Rest = <<body>> \o (<<f>> \o Rest)
    BY <1>1, <1>3, <1>5, Here, TwoPushed, ZenonT(40)
  <2>. QED  BY <1>1, <2>1 DEF t
<1>7. /\ Sound(<<body>> \o t, NoRet, ctx', LINES, FUNC_POOL_HEAD)
      /\ (<<body>> \o t)[1] = body
      /\ Looping(<<body>> \o t) <=> Looping(t)
  BY <1>4, <1>5, PushPlain DEF Ok, NoRet
<1>8. /\ stack'[1] = body /\ stack'[2] = f
      /\ Looping(stack') <=> Looping(stack)
  <2>1. (<<body>> \o t)[1 + 1] = t[1]
    <3>1. 1 \in 1 .. Len(t)
      BY <1>3
    <3>. QED  BY <1>3, <1>5, <3>1, Pushed
  <2>2. 1 + 1 = 2
    OBVIOUS
  <2>. QED  BY <1>3, <1>6, <1>7, <2>1, <2>2
<1>9. Looping(stack) => ~ctx.break_flag /\ ~ctx.return_flag
  BY <1>1, Here DEF Flags
<1>10. Flags(stack', NoRet, ctx')
  BY <1>2, <1>3, <1>5, <1>8, <1>9 DEF Flags, IsTurn
<1>. QED  BY <1>1, <1>2, <1>6, <1>7, <1>10, CtxStep

\* What lies under a loop goes on when it stops, its map out of scope.
LEMMA LoopStopped ==
  ASSUME RshInv, stack # << >>, Top.k = "loop", UnchangedTables, NEW c \in Context,
         Counts(c) = Counts(ctx), c.funcs = ctx.funcs, c.once_tags = ctx.once_tags,
         Looping(stack) => ~(c.break_flag /\ c.continue_flag), LoopStops(c)
  PROVE  RshInv'
<1>1. Sound(stack, ret, c, LINES, FUNC_POOL_HEAD) /\ stack \in Seq(Frame)
  BY Here, SoundSame
<1>. DEFINE vs == unset_var(unset_var(c.vars, "key"), "val")
            x == [c EXCEPT !.with_map = Top.prev]
            y == [x EXCEPT !.vars = vs]
<1>2. ctx' = IF Top.line.op = "with" THEN y ELSE c
  BY Zenon DEF LoopStops
<1>3. ASSUME IsWith(Top)
      PROVE  /\ y \in Context /\ y.funcs = c.funcs
             /\ y.once_tags = c.once_tags /\ y.break_flag = c.break_flag
             /\ y.continue_flag = c.continue_flag
             /\ y.include_depth = c.include_depth /\ y.call_depth = c.call_depth
             /\ y.call_stack = c.call_stack /\ y.in_function = c.in_function
             /\ y.with_map = Top.prev
  <2>1. Top.prev \in Text
    BY <1>3, LoopTop DEF IsWith, IsRepeat
  <2>2. /\ x \in Context /\ x.funcs = c.funcs
        /\ x.once_tags = c.once_tags /\ x.break_flag = c.break_flag
        /\ x.continue_flag = c.continue_flag
        /\ x.include_depth = c.include_depth /\ x.call_depth = c.call_depth
        /\ x.call_stack = c.call_stack /\ x.in_function = c.in_function
        /\ x.with_map = Top.prev
    BY <2>1, CtxMap, Zenon
  <2>. HIDE DEF x
  <2>3. vs \in Table
    <3>1. c.vars \in Table /\ {"key", "val"} \subseteq Text
      BY CtxFields DEF Text
    <3>2. unset_var(c.vars, "key") \in Table
      BY <3>1, SetVarIn
    <3>. QED  BY <3>1, <3>2, SetVarIn
  <2>. HIDE DEF vs
  <2>4. /\ y \in Context /\ y.funcs = x.funcs
        /\ y.once_tags = x.once_tags /\ y.break_flag = x.break_flag
        /\ y.continue_flag = x.continue_flag
        /\ y.include_depth = x.include_depth /\ y.call_depth = x.call_depth
        /\ y.call_stack = x.call_stack /\ y.in_function = x.in_function
        /\ y.with_map = x.with_map
    BY <2>2, <2>3, CtxVars, Zenon
  <2>. HIDE DEF y
  <2>. QED  BY <2>2, <2>4, Zenon
<1>. HIDE DEF y
<1>4. /\ ctx' \in Context /\ ctx'.funcs = ctx.funcs /\ ctx'.once_tags = ctx.once_tags
      /\ ctx'.break_flag = c.break_flag /\ ctx'.continue_flag = c.continue_flag
      /\ ~IsWith(Top) => ctx' = c
      /\ IsWith(Top) => ctx' = y
  <2>1. IsWith(Top) <=> Top.line.op = "with"
    BY DEF IsWith
  <2>2. CASE IsWith(Top)
    BY <1>2, <1>3, <2>1, <2>2
  <2>3. CASE ~IsWith(Top)
    BY <1>2, <2>1, <2>3
  <2>. QED  BY <2>2, <2>3
<1>5. /\ Sound(Rest, Ok, ctx', LINES, FUNC_POOL_HEAD)
      /\ Looping(Rest) => Looping(stack)
  <2>1. CASE IsWith(Top)
    <3>1. Sound(Tail(stack), Ok, y, LINES, FUNC_POOL_HEAD)
      BY <1>1, <1>3, <2>1, Here, PopWith DEF Ok, NoRet
    <3>. QED  BY <1>4, <2>1, <3>1, Here
  <2>2. CASE ~IsWith(Top)
    <3>1. Sound(Rest, Ok, c, LINES, FUNC_POOL_HEAD)
      BY <1>1, <2>2, Here, PopPlain DEF Ok, NoRet
    <3>. QED  BY <1>4, <2>2, <3>1, Here
  <2>. QED  BY <2>1, <2>2
<1>6. CASE Top.line.op = "repeat"
  <2>1. stack' = Rest /\ ret' = Ok
    BY <1>6 DEF LoopStops, Return
  <2>2. Flags(stack', ret', ctx')
    BY <1>4, <1>5, <2>1, FlagsQuiet DEF Ok, NoRet
  <2>. QED  BY <1>4, <1>5, <2>1, <2>2, CtxStep
<1>7. CASE Top.line.op # "repeat"
  <2>1. Rest # << >> /\ Rest[1].k = "block" /\ Top.end \in Nat
    BY <1>7, LoopTop
  <2>2. GoneOn(stack', Rest, Top.end) /\ ret' = NoRet
    BY <1>7, <2>1 DEF LoopStops, BlockGoesOn, GoneOn
  <2>3. /\ Sound(stack', ret', ctx', LINES, FUNC_POOL_HEAD)
        /\ stack' # << >> /\ stack'[1].k = "block"
        /\ Looping(stack') <=> Looping(Rest)
    BY <1>5, <2>1, <2>2, BlockOn
  <2>4. Flags(stack', ret', ctx')
    BY <1>4, <1>5, <2>3, FlagsQuiet
  <2>. QED  BY <1>4, <2>2, <2>3, <2>4, CtxStep
<1>. QED  BY <1>6, <1>7

LEMMA LoopFinishKeeps == ASSUME RshInv, loop_finish PROVE RshInv'
<1>1. /\ stack # << >> /\ Top.k = "loop" /\ ret = NoRet /\ LoopStops(ctx) /\ UnchangedTables
  BY DEF loop_finish, Runs
<1>2. Looping(stack) => ~(ctx.break_flag /\ ctx.continue_flag)
  BY <1>1, Here DEF Flags
<1>3. ctx \in Context
  BY DEF RshInv, RshTables
<1>. QED  BY <1>1, <1>2, <1>3, LoopStopped

LEMMA LoopBodyReturnKeeps == ASSUME RshInv, loop_body_return PROVE RshInv'
<1>1. stack # << >> /\ Top.k = "loop" /\ ret # NoRet /\ UnchangedTables
  BY DEF loop_body_return, Gets
<1>2. ctx \in Context /\ ctx.break_flag \in BOOLEAN /\ ctx.continue_flag \in BOOLEAN
  BY CtxFields DEF RshInv, RshTables
<1>3. CASE LoopGoesOn /\ ret' = NoRet /\ UNCHANGED stack
           /\ ctx' = [ctx EXCEPT !.continue_flag = @ /\ ~ClearsFlags(Top.line.op)]
  <2>. DEFINE b == ctx.continue_flag /\ ~ClearsFlags(Top.line.op)
  <2>1. b \in BOOLEAN /\ ctx' = [ctx EXCEPT !.continue_flag = b]
    BY <1>2, <1>3, Zenon
  <2>2. IsTurn(Top) => ~b
    BY DEF IsTurn
  <2>. HIDE DEF b
  <2>3. /\ ctx' \in Context /\ Counts(ctx') = Counts(ctx) /\ ctx'.funcs = ctx.funcs
        /\ ctx'.once_tags = ctx.once_tags /\ ctx'.break_flag = ctx.break_flag
        /\ ctx'.continue_flag = b /\ ctx'.return_flag = ctx.return_flag
    BY <1>2, <2>1, CtxContinue
  <2>4. Sound(stack', ret', ctx', LINES, FUNC_POOL_HEAD)
    <3>1. Sound(stack, NoRet, ctx, LINES, FUNC_POOL_HEAD)
      BY <1>1, Here, Retold
    <3>. QED  BY <1>3, <2>3, <3>1, SoundSame
  <2>5. ~ctx.break_flag /\ ~ctx.return_flag
    BY <1>3 DEF LoopGoesOn
  <2>6. Flags(stack', ret', ctx')
    BY <1>1, <1>3, <2>2, <2>3, <2>5, Here DEF Flags
  <2>. QED  BY <1>1, <1>3, <2>3, <2>4, <2>6, CtxStep
<1>4. CASE LoopStops(BreakTaken(ctx))
  <2>. DEFINE b == ctx.break_flag /\ ClearsFlags(Top.line.op) /\ ret # Ok
              c == BreakTaken(ctx)
  <2>1. b \in BOOLEAN /\ c = [ctx EXCEPT !.break_flag = b]
    BY <1>2, Zenon DEF BreakTaken
  <2>2. b => ctx.break_flag /\ IsTurn(Top)
    BY <1>1 DEF IsTurn
  <2>. HIDE DEF b, c
  <2>3. /\ c \in Context /\ Counts(c) = Counts(ctx) /\ c.funcs = ctx.funcs
        /\ c.once_tags = ctx.once_tags /\ c.break_flag = b
        /\ c.continue_flag = ctx.continue_flag
    BY <1>2, <2>1, CtxBreak
  <2>4. ~(c.break_flag /\ c.continue_flag)
    <3>1. IsTurn(Top) => Looping(stack) /\ ~IsRepeat(stack[1])
      BY <1>1, Here DEF IsTurn, IsRepeat, ClearsFlags
    <3>. QED  BY <1>1, <2>2, <2>3, <3>1, Here DEF Flags
  <2>5. LoopStops(c)
    BY <1>4 DEF c
  <2>. QED  BY <1>1, <2>3, <2>4, <2>5, LoopStopped
<1>. QED  BY <1>3, <1>4 DEF loop_body_return

-----------------------------------------------------------------------------
(* Lines.                                                                  *)

LEMMA LineTop ==
  ASSUME RshInv, stack # << >>, Top.k = "line"
  PROVE  /\ Cmd \in ScriptLines /\ ret = NoRet /\ ctx \in Context
         /\ Sound(Rest, Ok, ctx, LINES, FUNC_POOL_HEAD)
         /\ Looping(Rest) <=> Looping(stack)
         /\ Looping(stack) => ~ctx.break_flag /\ ~ctx.return_flag
         /\ Rest # << >> => Rest[1].k = "block" \/ IsRepeat(Rest[1])
         /\ Rest # << >> /\ Rest[1].k = "block" =>
              ~ctx.break_flag /\ ~ctx.continue_flag /\ ~ctx.return_flag
<1>1. /\ Top \in Frame /\ Sound(stack, ret, ctx, LINES, FUNC_POOL_HEAD)
      /\ Flags(stack, ret, ctx) /\ stack \in Seq(Frame)
  BY Here
<1>2. ~IsWith(Top) /\ ~IsTurn(Top)
  BY DEF IsWith, IsTurn
<1>3. Cmd \in ScriptLines
  <2>1. Top \in LineFrames
    BY <1>1, ByKind
  <2>. QED  BY <2>1 DEF LineFrames, Cmd
<1>4. /\ ret = NoRet
      /\ Rest # << >> => Rest[1].k = "block" \/ IsRepeat(Rest[1])
  BY <1>1, Here, TopIs
<1>5. Sound(Rest, Ok, ctx, LINES, FUNC_POOL_HEAD)
  BY <1>1, <1>2, Here, PopPlain DEF Ok, NoRet
<1>6. Looping(Rest) <=> Looping(stack)
  BY <1>2, Here
<1>7. Looping(stack) => ~ctx.break_flag /\ ~ctx.return_flag
  BY <1>1, <1>4, Here DEF Flags
<1>8. ASSUME Rest # << >>, Rest[1].k = "block"
      PROVE  ~ctx.break_flag /\ ~ctx.continue_flag /\ ~ctx.return_flag
  <2>1. Len(stack) > 1 /\ stack[2] = Rest[1]
    <3>1. /\ Rest \in Seq(Frame) /\ Len(Rest) = Len(stack) - 1 /\ Len(stack) \in Nat \ {0}
          /\ \A i \in 1 .. Len(stack) - 1 : Rest[i] = stack[i + 1]
      BY <1>1, Popped DEF Rest
    <3>2. Len(Rest) \in Nat \ {0}
      BY <1>8, <3>1, Popped
    <3>3. 1 \in 1 .. Len(stack) - 1 /\ 1 + 1 = 2
      BY <3>1, <3>2
    <3>4. Rest[1] = stack[1 + 1]
      BY <3>1, <3>3
    <3>. QED  BY <3>1, <3>2, <3>3, <3>4
  <2>. QED  BY <1>1, <1>4, <1>8, <2>1, Here DEF Flags
<1>9. ctx \in Context
  BY DEF RshInv, RshTables
<1>. QED  BY <1>3, <1>4, <1>5, <1>6, <1>7, <1>8, <1>9

\* A line that ends with a value.
LEMMA LineReturns ==
  ASSUME RshInv, stack # << >>, Top.k = "line", UnchangedTables, stack' = Rest,
         ret' \in {Ok, Fail}, ctx' \in Context, Counts(ctx') = Counts(ctx),
         ctx'.funcs = ctx.funcs, ctx'.once_tags = ctx.once_tags,
         Looping(Rest) /\ ctx'.break_flag /\ ctx'.continue_flag =>
           Rest # << >> /\ IsRepeat(Rest[1])
  PROVE  RshInv'
<1>1. Sound(stack', ret', ctx', LINES, FUNC_POOL_HEAD)
  <2>1. Sound(Rest, Ok, ctx', LINES, FUNC_POOL_HEAD)
    BY LineTop, SoundSame
  <2>2. Ok # NoRet /\ ret' # NoRet
    BY DEF Ok, Fail, NoRet
  <2>. QED  BY <2>1, <2>2, Retold
<1>2. Flags(stack', ret', ctx')
  BY DEF Flags, Ok, Fail, NoRet
<1>. QED  BY <1>1, <1>2, CtxStep

LEMMA LineSimpleKeeps == ASSUME RshInv, line_simple PROVE RshInv'
<1>. DEFINE b == ctx.break_flag \/ Cmd.op = "break"
            e == ctx.continue_flag \/ Cmd.op = "continue"
            g == ctx.return_flag \/ Cmd.op \in {"return", "exit"}
            x == [ctx EXCEPT !.break_flag = b]
            y == [x EXCEPT !.continue_flag = e]
            z == [y EXCEPT !.return_flag = g]
            vs == VarsAfter(z.vars, Cmd)
            w == [z EXCEPT !.vars = vs]
<1>1. /\ stack # << >> /\ Top.k = "line" /\ UnchangedTables /\ stack' = Rest
      /\ ret' = ValueOf(Cmd) /\ Cmd.op \in Simple
  BY DEF line_simple, Runs, Return
<1>2. ctx' = w
  <2>1. FlagsSet(ctx, Cmd) = z
    BY Zenon DEF FlagsSet
  <2>2. ctx' = [FlagsSet(ctx, Cmd) EXCEPT !.vars = VarsAfter(@, Cmd)]
    BY DEF line_simple
  <2>. HIDE DEF z
  <2>. QED  BY <2>1, <2>2, Zenon
<1>3. Cmd \in ScriptLines /\ ctx \in Context
  BY <1>1, LineTop
<1>4. ctx.break_flag \in BOOLEAN /\ ctx.continue_flag \in BOOLEAN /\ ctx.return_flag \in BOOLEAN
  BY <1>3, CtxFields
<1>5. b \in BOOLEAN /\ e \in BOOLEAN /\ g \in BOOLEAN
  BY <1>4, Zenon
<1>6. ret' \in {Ok, Fail}
  BY <1>1, <1>3, ScriptsAssumption DEF ValueOf, Ok, Fail
<1>7. b /\ e => ctx.break_flag \/ ctx.continue_flag
  BY <1>4
<1>8. b /\ e => Rest = << >> \/ IsRepeat(Rest[1])
  BY <1>1, <1>7, LineTop
<1>. HIDE DEF b, e, g
<1>9. /\ x \in Context /\ Counts(x) = Counts(ctx) /\ x.funcs = ctx.funcs
      /\ x.once_tags = ctx.once_tags /\ x.break_flag = b
  BY <1>3, <1>5, CtxBreak, Zenon
<1>. HIDE DEF x
<1>10. /\ y \in Context /\ Counts(y) = Counts(x) /\ y.funcs = x.funcs
       /\ y.once_tags = x.once_tags /\ y.break_flag = x.break_flag /\ y.continue_flag = e
  BY <1>5, <1>9, CtxContinue, Zenon
<1>. HIDE DEF y
<1>11. /\ z \in Context /\ Counts(z) = Counts(y) /\ z.funcs = y.funcs
       /\ z.once_tags = y.once_tags /\ z.break_flag = y.break_flag
       /\ z.continue_flag = y.continue_flag
  BY <1>5, <1>10, CtxReturn, Zenon
<1>. HIDE DEF z
<1>12. vs \in Table
  <2>1. z.vars \in Table
    BY <1>11, CtxFields
  <2>2. Cmd.op = "set" => set_var(z.vars, Cmd.name, Cmd.val) \in Table
    BY <1>3, <2>1, SetVarIn, ScriptsAssumption DEF Text
  <2>3. Cmd.op = "unset" => unset_var(z.vars, Cmd.name) \in Table
    <3>1. "" \in Text
      BY DEF Text
    <3>. QED  BY <1>3, <2>1, <3>1, SetVarIn, ScriptsAssumption DEF Text
  <2>. QED  BY <2>1, <2>2, <2>3 DEF VarsAfter
<1>. HIDE DEF vs
<1>13. /\ w \in Context /\ Counts(w) = Counts(z) /\ w.funcs = z.funcs
       /\ w.once_tags = z.once_tags /\ w.break_flag = z.break_flag
       /\ w.continue_flag = z.continue_flag
  BY <1>11, <1>12, CtxVars, Zenon
<1>. HIDE DEF w
<1>14. /\ ctx' \in Context /\ Counts(ctx') = Counts(ctx) /\ ctx'.funcs = ctx.funcs
       /\ ctx'.once_tags = ctx.once_tags /\ ctx'.break_flag = b /\ ctx'.continue_flag = e
  BY <1>2, <1>9, <1>10, <1>11, <1>13, Zenon
<1>15. Rest = << >> => ~Looping(Rest)
  BY DEF Looping
<1>. QED  BY <1>1, <1>6, <1>8, <1>14, <1>15, LineReturns

\* The line on top becomes another one, or a repeat.
LEMMA LineBecomes ==
  ASSUME RshInv, stack # << >>, Top.k = "line", NEW f \in Frame, f.k = "line" \/ IsRepeat(f),
         FrameOK(f, LINES, FUNC_POOL_HEAD), NEW c \in Context, Counts(c) = Counts(ctx),
         c.break_flag = ctx.break_flag, c.continue_flag = ctx.continue_flag,
         c.return_flag = ctx.return_flag
  PROVE  Sound(<<f>> \o Rest, NoRet, c, LINES, FUNC_POOL_HEAD) /\ Flags(<<f>> \o Rest, NoRet, c)
<1>. DEFINE t == <<f>> \o Rest
<1>1. ~IsWith(f) /\ ~IsTurn(f) /\ f.k \notin {"file", "call", "scan", "block"}
  BY DEF IsWith, IsTurn, IsRepeat, ClearsFlags
<1>2. Rest \in Seq(Frame) /\ (Rest # << >> => Rest[1].k = "block" \/ IsRepeat(Rest[1]))
  BY Here, LineTop
<1>3. LiesOn(Rest, Len(Rest) + 1, f)
  BY <1>2, LiesOnTop
<1>4. Sound(Rest, Ok, c, LINES, FUNC_POOL_HEAD)
  BY LineTop, SoundSame
<1>5. /\ Sound(t, NoRet, c, LINES, FUNC_POOL_HEAD)
      /\ t[1] = f /\ Tail(t) = Rest /\ t \in Seq(Frame) /\ t # << >>
      /\ Looping(t) <=> Looping(stack)
  BY <1>1, <1>3, <1>4, LineTop, PushPlain DEF Ok, NoRet
<1>6. Rest # << >> => t[2] = Rest[1]
  <2>. SUFFICES ASSUME Rest # << >> PROVE t[2] = Rest[1]
    OBVIOUS
  <2>1. 1 \in 1 .. Len(Rest) /\ 1 + 1 = 2
    BY <1>2, Popped
  <2>2. t[1 + 1] = Rest[1]
    BY <1>2, <2>1, Pushed
  <2>. QED  BY <2>1, <2>2
<1>7. Len(t) > 1 => Rest # << >>
  BY <1>2, Pushed
<1>. HIDE DEF t
<1>8. Flags(t, NoRet, c)
  <2>1. t[1].k = "line" /\ Len(t) > 1 /\ t[2].k = "block" =>
          ~c.break_flag /\ ~c.continue_flag /\ ~c.return_flag
    BY <1>6, <1>7, LineTop
  <2>2. Looping(t) => ~c.break_flag /\ ~c.return_flag
    BY <1>5, LineTop
  <2>. QED  BY <1>1, <1>5, <2>1, <2>2 DEF Flags
<1>. QED  BY <1>5, <1>8 DEF t

LEMMA LineInlineIfKeeps == ASSUME RshInv, line_inline_if PROVE RshInv'
<1>1. stack # << >> /\ Top.k = "line" /\ ret = NoRet /\ UnchangedTables /\ ctx' = ctx
  BY DEF line_inline_if, AtCmd, Runs
<1>2. Cmd.cmd \in ScriptLines /\ Cmd.alt \in ScriptLines
  <2>1. Cmd \in ScriptLines /\ Cmd.op = "inline"
    BY <1>1, LineTop DEF line_inline_if, AtCmd
  <2>. QED  BY <2>1, ScriptsAssumption
<1>3. ASSUME NEW l \in ScriptLines, Enter(<<LineFrame(l)>>) PROVE RshInv'
  <2>. DEFINE f == LineFrame(l)
  <2>1. stack' = <<f>> \o Rest /\ ret' = NoRet
    BY <1>1, <1>3 DEF Enter
  <2>2. f \in Frame /\ f.k = "line" /\ FrameOK(f, LINES, FUNC_POOL_HEAD)
    BY LineFrameIs
  <2>. HIDE DEF f
  <2>3. ctx \in Context
    BY <1>1, LineTop
  <2>4. Sound(stack', ret', ctx, LINES, FUNC_POOL_HEAD) /\ Flags(stack', ret', ctx)
    BY <1>1, <2>1, <2>2, <2>3, LineBecomes
  <2>. QED  BY <1>1, <2>1, <2>4, StackOnly
<1>. QED  BY <1>2, <1>3 DEF line_inline_if

LEMMA LineRepeatKeeps == ASSUME RshInv, line_repeat PROVE RshInv'
<1>1. stack # << >> /\ Top.k = "line" /\ ret = NoRet /\ UnchangedTables /\ ctx' = ctx
      /\ Cmd.op = "repeat"
  BY DEF line_repeat, AtCmd, Runs
<1>2. PICK n \in COUNTS : Enter(<<[k |-> "loop", line |-> Cmd, left |-> n]>>)
  BY DEF line_repeat
<1>. DEFINE f == [k |-> "loop", line |-> Cmd, left |-> n]
<1>3. stack' = <<f>> \o Rest /\ ret' = NoRet
  BY <1>1, <1>2 DEF Enter
<1>4. f \in RepeatFrames
  <2>1. n \in Nat /\ Cmd \in Word({"repeat"})
    BY <1>1, SlotsAre, LineTop DEF Word
  <2>. QED  BY <2>1 DEF RepeatFrames
<1>. HIDE DEF f
<1>5. f \in Frame /\ IsRepeat(f) /\ FrameOK(f, LINES, FUNC_POOL_HEAD)
  <2>1. f.k = "loop" /\ f.line.op = "repeat"
    BY <1>4 DEF RepeatFrames, Word
  <2>. QED  BY <1>4, <2>1 DEF Frame, IsRepeat, FrameOK
<1>6. ctx \in Context
  BY <1>1, LineTop
<1>7. Sound(stack', ret', ctx, LINES, FUNC_POOL_HEAD) /\ Flags(stack', ret', ctx)
  BY <1>1, <1>3, <1>5, <1>6, LineBecomes
<1>. QED  BY <1>1, <1>3, <1>7, StackOnly

LEMMA LineOnceKeeps == ASSUME RshInv, line_once PROVE RshInv'
<1>1. stack # << >> /\ Top.k = "line" /\ ret = NoRet /\ UnchangedTables /\ Cmd.op = "once"
  BY DEF line_once, AtCmd, Runs
<1>2. /\ Cmd \in ScriptLines /\ ctx \in Context
      /\ Rest # << >> => Rest[1].k = "block" \/ IsRepeat(Rest[1])
      /\ Looping(Rest) => ~ctx.break_flag
  BY <1>1, LineTop
<1>3. Cmd.cmd \in ScriptLines /\ Cmd.tag \in Text
  BY <1>1, <1>2, ScriptsAssumption DEF Text
<1>4. CASE Return(Ok) /\ UNCHANGED ctx
  BY <1>1, <1>2, <1>4, LineReturns DEF Return
<1>5. CASE /\ ctx' = [ctx EXCEPT !.once_tags = OnceMarked(@, Cmd.tag)]
           /\ Enter(<<LineFrame(Cmd.cmd)>>)
  <2>. DEFINE f == LineFrame(Cmd.cmd)  tags == OnceMarked(ctx.once_tags, Cmd.tag)
  <2>1. stack' = <<f>> \o Rest /\ ret' = NoRet /\ ctx' = [ctx EXCEPT !.once_tags = tags]
    BY <1>1, <1>5 DEF Enter
  <2>2. f \in Frame /\ f.k = "line" /\ FrameOK(f, LINES, FUNC_POOL_HEAD)
    BY <1>3, LineFrameIs
  <2>3. IsFiniteSet(tags) /\ Cardinality(tags) <= MAX_ONCE_TAGS /\ tags \in SUBSET Text
    <3>1. /\ IsFiniteSet(ctx.once_tags) /\ Cardinality(ctx.once_tags) <= MAX_ONCE_TAGS
          /\ ctx.once_tags \in SUBSET Text
      BY <1>2, CtxFields DEF RshInv, RshTables
    <3>2. /\ IsFiniteSet(ctx.once_tags \cup {Cmd.tag})
          /\ Cardinality(ctx.once_tags \cup {Cmd.tag}) \in
               {Cardinality(ctx.once_tags), Cardinality(ctx.once_tags) + 1}
          /\ Cardinality(ctx.once_tags) \in Nat
      BY <3>1, FS_AddElement, FS_CardinalityType
    <3>3. ctx.once_tags \cup {Cmd.tag} \in SUBSET Text
      BY <1>3, <3>1
    <3>. QED  BY <3>1, <3>2, <3>3, SlotsAre DEF OnceMarked
  <2>. HIDE DEF f, tags
  <2>4. /\ ctx' \in Context /\ Counts(ctx') = Counts(ctx) /\ ctx'.funcs = ctx.funcs
        /\ ctx'.once_tags = tags /\ ctx'.break_flag = ctx.break_flag
        /\ ctx'.continue_flag = ctx.continue_flag /\ ctx'.return_flag = ctx.return_flag
    BY <1>2, <2>1, <2>3 DEF Context, Counts
  <2>5. Sound(stack', ret', ctx', LINES, FUNC_POOL_HEAD) /\ Flags(stack', ret', ctx')
    BY <1>1, <2>1, <2>2, <2>4, LineBecomes
  <2>6. RshTables'
    BY <1>1, <2>1, <2>3, <2>4, TablesSame DEF RshInv
  <2>. QED  BY <1>1, <2>5, <2>6 DEF RshInv, UnchangedTables
<1>. QED  BY <1>4, <1>5 DEF line_once

-----------------------------------------------------------------------------
(* The pool.                                                               *)

LEMMA PoolParts ==
  ASSUME NEW c \in Context, NEW P, NEW hd, NEW def, PoolOK(c, P, hd, def), NEW n \in UsedFuncs(c)
  PROVE  /\ n \in FuncNames /\ c.funcs[n] \in Func
         /\ c.funcs[n].start \in Nat /\ c.funcs[n].count \in Nat
         /\ c.funcs[n].start + c.funcs[n].count <= hd
         /\ hd \in 0 .. FUNC_POOL_SIZE
         /\ BodyAt(c.funcs[n], P) = def[n]
<1>1. n \in FuncNames /\ c.funcs[n] \in Func
  BY CtxFields DEF UsedFuncs
<1>2. c.funcs[n].start \in Nat /\ c.funcs[n].count \in Nat
  BY <1>1 DEF Func
<1>. QED  BY <1>1, <1>2 DEF PoolOK

\* A body lies where it lay when the lines of its slice are the same.
SameOutside(f, P, Q) ==
  \A i \in 1 .. FUNC_POOL_SIZE : i \notin f.start + 1 .. f.start + f.count => Q[i] = P[i]

LEMMA BodySame ==
  ASSUME NEW f \in Func, NEW g \in Func, Apart(f, g), NEW P, NEW Q, SameOutside(g, P, Q),
         f.start + f.count <= FUNC_POOL_SIZE
  PROVE  BodyAt(f, Q) = BodyAt(f, P)
<1>1. f.start \in Nat /\ f.count \in Nat /\ g.start \in Nat /\ g.count \in Nat
  BY DEF Func
<1>2. ASSUME NEW i \in 1 .. f.count PROVE Q[f.start + i] = P[f.start + i]
  <2>1. f.start + i \in 1 .. FUNC_POOL_SIZE /\ f.start + i \notin g.start + 1 .. g.start + g.count
    BY <1>1, SlotsAre DEF Apart
  <2>. QED  BY <2>1 DEF SameOutside
<1>. QED  BY <1>2 DEF BodyAt

Blanked(f, P) == [i \in 1 .. FUNC_POOL_SIZE |->
                    IF i \in f.start + 1 .. f.start + f.count THEN Blank ELSE P[i]]

LEMMA DropPool ==
  ASSUME NEW c \in Context, NEW P, NEW hd, NEW def, PoolOK(c, P, hd, def),
         NEW name \in UsedFuncs(c), NEW d,
         d.funcs = [c.funcs EXCEPT ![name] = NoFunc], NEW Q, Q = Blanked(c.funcs[name], P)
  PROVE  PoolOK(d, Q, hd, def)
<1>1. /\ name \in FuncNames /\ c.funcs[name].start \in Nat /\ c.funcs[name].count \in Nat
      /\ c.funcs \in [FuncNames -> Func]
  BY PoolParts, CtxFields
<1>2. UsedFuncs(d) = UsedFuncs(c) \ {name}
      /\ \A n \in UsedFuncs(d) : d.funcs[n] = c.funcs[n]
  BY <1>1 DEF UsedFuncs, NoFunc
<1>3. Q \in Pool
  <2>1. Blank \in ScriptLines
    BY ScriptsAssumption DEF Blank
  <2>. QED  BY <2>1 DEF Pool, PoolOK, Blanked
<1>4. \A n \in UsedFuncs(d) : BodyAt(c.funcs[n], Q) = def[n]
  <2>. SUFFICES ASSUME NEW n \in UsedFuncs(d)
                PROVE  BodyAt(c.funcs[n], Q) = def[n]
    OBVIOUS
  <2>1. n \in UsedFuncs(c) /\ Apart(c.funcs[n], c.funcs[name])
    BY <1>2 DEF PoolOK
  <2>2. SameOutside(c.funcs[name], P, Q)
    BY DEF SameOutside, Blanked
  <2>3. /\ c.funcs[n] \in Func /\ c.funcs[name] \in Func
        /\ c.funcs[n].start + c.funcs[n].count <= FUNC_POOL_SIZE
        /\ BodyAt(c.funcs[n], P) = def[n]
    BY <2>1, PoolParts, SlotsAre DEF Func
  <2>. QED  BY <2>1, <2>2, <2>3, BodySame
<1>. QED  BY <1>2, <1>3, <1>4 DEF PoolOK

LEMMA LineDropKeeps == ASSUME RshInv, line_drop PROVE RshInv'
<1>1. /\ stack # << >> /\ Top.k = "line" /\ Cmd.op = "drop" /\ undefine_func(Cmd.name)
      /\ stack' = Rest /\ ret' = Ok /\ UNCHANGED <<FUNC_POOL_HEAD, LINES, commands, defined>>
  BY DEF line_drop, AtCmd, Runs, Return
<1>2. /\ Cmd \in ScriptLines /\ ctx \in Context
      /\ Rest # << >> => Rest[1].k = "block" \/ IsRepeat(Rest[1])
      /\ Looping(Rest) => ~ctx.break_flag
  BY <1>1, LineTop
<1>3. Cmd.name \in FuncNames
  BY <1>1, <1>2, ScriptsAssumption
<1>4. CASE ~ctx.funcs[Cmd.name].used
  <2>1. UNCHANGED ctx /\ UnchangedTables
    BY <1>1, <1>4 DEF undefine_func, UnchangedTables
  <2>. QED  BY <1>1, <1>2, <2>1, LineReturns
<1>5. CASE ctx.funcs[Cmd.name].used
  <2>. DEFINE name == Cmd.name
  <2>1. name \in UsedFuncs(ctx)
    BY <1>3, <1>5 DEF UsedFuncs
  <2>2. /\ ctx' = [ctx EXCEPT !.funcs[name] = NoFunc]
        /\ FUNC_BODY_POOL' = Blanked(ctx.funcs[name], FUNC_BODY_POOL)
    BY <1>1, <1>5 DEF undefine_func, Blanked
  <2>. HIDE DEF name
  <2>3. /\ ctx' \in Context /\ ctx'.funcs = [ctx.funcs EXCEPT ![name] = NoFunc]
        /\ ctx'.once_tags = ctx.once_tags /\ Counts(ctx') = Counts(ctx)
        /\ ctx'.break_flag = ctx.break_flag
    <3>1. NoFunc \in Func
      BY DEF NoFunc, Func
    <3>. HIDE DEF NoFunc
    <3>. QED  BY <1>2, <2>2, <3>1 DEF Context, Counts
  <2>4. PoolOK(ctx', FUNC_BODY_POOL', FUNC_POOL_HEAD, defined)
    <3>1. PoolOK(ctx, FUNC_BODY_POOL, FUNC_POOL_HEAD, defined)
      BY DEF RshInv, RshTables
    <3>. QED  BY <1>2, <2>1, <2>2, <2>3, <3>1, DropPool
  <2>5. RshTables'
    BY <1>1, <2>3, <2>4 DEF RshInv, RshTables
  <2>6. Sound(stack', ret', ctx', LINES, FUNC_POOL_HEAD)
    BY <1>1, <2>3, LineTop, SoundSame
  <2>7. Flags(stack', ret', ctx')
    BY <1>1, <1>2, <2>3 DEF Flags, Ok, NoRet
  <2>. QED  BY <1>1, <2>5, <2>6, <2>7 DEF RshInv
<1>. QED  BY <1>4, <1>5

Filled(g, body, P) == [i \in 1 .. FUNC_POOL_SIZE |->
                         IF i - g.start \in 1 .. Len(body) THEN body[i - g.start] ELSE P[i]]

LEMMA DefinePool ==
  ASSUME NEW c \in Context, NEW P, NEW hd, NEW def, PoolOK(c, P, hd, def),
         NEW name \in FuncNames, NEW body \in Seq(ScriptLines), NEW g \in Func, g.used,
         g.count = Len(body), NEW top \in Nat, hd <= top, top <= FUNC_POOL_SIZE,
         \/ c.funcs[name].used /\ g.start = c.funcs[name].start /\ g.count <= c.funcs[name].count
         \/ g.start = hd /\ top = hd + g.count,
         NEW d, d.funcs = [c.funcs EXCEPT ![name] = g], NEW Q, Q = Filled(g, body, P),
         NEW e, e = [def EXCEPT ![name] = body]
  PROVE  PoolOK(d, Q, top, e)
<1>1. /\ c.funcs \in [FuncNames -> Func] /\ hd \in 0 .. FUNC_POOL_SIZE
      /\ P \in Pool /\ def \in [FuncNames -> Seq(ScriptLines)]
      /\ g.start \in Nat /\ g.count \in Nat /\ FUNC_POOL_SIZE \in Nat
  BY CtxFields, SlotsAre DEF PoolOK, Func
<1>0. /\ g.start \in Nat /\ g.count \in Nat /\ FUNC_POOL_SIZE \in Nat
      /\ Len(body) \in Nat /\ hd \in Nat
  BY <1>1
<1>2. /\ UsedFuncs(d) = UsedFuncs(c) \cup {name}
      /\ d.funcs[name] = g /\ e[name] = body
      /\ \A n \in FuncNames \ {name} : d.funcs[n] = c.funcs[n] /\ e[n] = def[n]
  <2>1. /\ d.funcs[name] = g /\ e[name] = body
        /\ \A n \in FuncNames \ {name} : d.funcs[n] = c.funcs[n] /\ e[n] = def[n]
    BY <1>1
  <2>. QED  BY <2>1, Zenon DEF UsedFuncs
<1>3. g.start + g.count <= top
  <2>1. CASE c.funcs[name].used /\ g.start = c.funcs[name].start
             /\ g.count <= c.funcs[name].count
    <3>1. name \in UsedFuncs(c)
      BY <2>1 DEF UsedFuncs
    <3>2. c.funcs[name].start \in Nat /\ c.funcs[name].count \in Nat
          /\ c.funcs[name].start + c.funcs[name].count <= hd
      BY <3>1, PoolParts
    <3>. QED  BY <1>1, <2>1, <3>2
  <2>2. CASE g.start = hd /\ top = hd + g.count
    BY <1>1, <2>2
  <2>. QED  BY <2>1, <2>2
<1>4. Q \in Pool
  <2>1. \A i \in 1 .. Len(body) : body[i] \in ScriptLines
    BY ElementOfSeq
  <2>2. \A i \in 1 .. FUNC_POOL_SIZE : P[i] \in ScriptLines
    BY <1>1 DEF Pool
  <2>. QED  BY <2>1, <2>2, Zenon DEF Filled, Pool
<1>5. BodyAt(g, Q) = body
  <2>1. ASSUME NEW i \in 1 .. g.count PROVE Q[g.start + i] = body[i]
    <3>1. g.start + i \in 1 .. FUNC_POOL_SIZE /\ (g.start + i) - g.start = i /\ i \in 1 .. Len(body)
      BY <1>0, <1>3
    <3>. QED  BY <3>1 DEF Filled
  <2>2. BodyAt(g, Q) = [i \in 1 .. Len(body) |-> body[i]]
    BY <2>1 DEF BodyAt
  <2>3. body = [i \in 1 .. Len(body) |-> body[i]]
    <3>1. body \in [1 .. Len(body) -> ScriptLines]
      OBVIOUS
    <3>. HIDE DEF Func
    <3>. QED  BY <3>1, Zenon
  <2>. QED  BY <2>2, <2>3
<1>6. \A n \in UsedFuncs(c) \ {name} : Apart(c.funcs[n], g)
  <2>. SUFFICES ASSUME NEW n \in UsedFuncs(c), n # name PROVE Apart(c.funcs[n], g)
    OBVIOUS
  <2>1. c.funcs[n].start \in Nat /\ c.funcs[n].count \in Nat
        /\ c.funcs[n].start + c.funcs[n].count <= hd
    BY PoolParts
  <2>2. CASE c.funcs[name].used /\ g.start = c.funcs[name].start
             /\ g.count <= c.funcs[name].count
    <3>1. name \in UsedFuncs(c)
      BY <2>2 DEF UsedFuncs
    <3>2. c.funcs[name].start \in Nat /\ c.funcs[name].count \in Nat
      BY <3>1, PoolParts
    <3>3. Apart(c.funcs[n], c.funcs[name])
      BY <3>1 DEF PoolOK
    <3>. QED  BY <1>1, <2>1, <2>2, <3>2, <3>3, SMTT(40) DEF Apart
  <2>3. CASE g.start = hd /\ top = hd + g.count
    BY <2>1, <2>3 DEF Apart
  <2>. QED  BY <2>2, <2>3
<1>7. SameOutside(g, P, Q)
  <2>1. ASSUME NEW i \in 1 .. FUNC_POOL_SIZE, i \notin g.start + 1 .. g.start + g.count
        PROVE  Q[i] = P[i]
    <3>1. i - g.start \notin 1 .. Len(body)
      BY <1>1, <2>1
    <3>. QED  BY <3>1 DEF Filled
  <2>. QED  BY <2>1 DEF SameOutside
<1>8. \A n \in UsedFuncs(c) \ {name} : /\ c.funcs[n].start + c.funcs[n].count <= top
                                       /\ BodyAt(c.funcs[n], Q) = def[n]
  <2>. SUFFICES ASSUME NEW n \in UsedFuncs(c), n # name
                PROVE  /\ c.funcs[n].start + c.funcs[n].count <= top
                       /\ BodyAt(c.funcs[n], Q) = def[n]
    OBVIOUS
  <2>1. /\ c.funcs[n] \in Func /\ c.funcs[n].start \in Nat /\ c.funcs[n].count \in Nat
        /\ c.funcs[n].start + c.funcs[n].count <= hd
        /\ BodyAt(c.funcs[n], P) = def[n]
    BY PoolParts
  <2>2. c.funcs[n].start + c.funcs[n].count <= top
        /\ c.funcs[n].start + c.funcs[n].count <= FUNC_POOL_SIZE
    BY <1>0, <2>1
  <2>3. Apart(c.funcs[n], g)
    BY <1>6
  <2>. QED  BY <1>7, <2>1, <2>2, <2>3, BodySame
<1>9. e \in [FuncNames -> Seq(ScriptLines)]
  BY <1>1
<1>10. top \in 0 .. FUNC_POOL_SIZE
  OBVIOUS
<1>11. \A n \in UsedFuncs(d) : /\ d.funcs[n].start + d.funcs[n].count <= top
                               /\ BodyAt(d.funcs[n], Q) = e[n]
  <2>. SUFFICES ASSUME NEW n \in UsedFuncs(d)
                PROVE  /\ d.funcs[n].start + d.funcs[n].count <= top
                       /\ BodyAt(d.funcs[n], Q) = e[n]
    OBVIOUS
  <2>1. CASE n = name
    BY <1>2, <1>3, <1>5, <2>1
  <2>2. CASE n # name
    <3>1. n \in UsedFuncs(c) \ {name} /\ d.funcs[n] = c.funcs[n] /\ e[n] = def[n]
      BY <1>2, <2>2 DEF UsedFuncs
    <3>. QED  BY <1>8, <3>1
  <2>. QED  BY <2>1, <2>2
<1>12. \A n, m \in UsedFuncs(d) : n # m => Apart(d.funcs[n], d.funcs[m])
  <2>. SUFFICES ASSUME NEW n \in UsedFuncs(d), NEW m \in UsedFuncs(d), n # m
                PROVE  Apart(d.funcs[n], d.funcs[m])
    OBVIOUS
  <2>1. \A x \in UsedFuncs(d) : x # name => x \in UsedFuncs(c) \ {name} /\ d.funcs[x] = c.funcs[x]
    BY <1>2 DEF UsedFuncs
  <2>2. CASE n = name
    <3>1. Apart(d.funcs[m], g)
      BY <1>6, <2>1, <2>2
    <3>. QED  BY <1>2, <2>2, <3>1 DEF Apart
  <2>3. CASE m = name
    BY <1>2, <1>6, <2>1, <2>3
  <2>4. CASE n # name /\ m # name
    BY <2>1, <2>4 DEF PoolOK
  <2>. QED  BY <2>2, <2>3, <2>4
<1>. QED  BY <1>4, <1>9, <1>10, <1>11, <1>12, Zenon DEF PoolOK

\* A stack is sound for more of the pool than it needs.
LEMMA HeadGrows ==
  ASSUME NEW st, NEW r, NEW c, NEW L, NEW hd \in Nat, NEW top \in Nat, hd <= top,
         Sound(st, r, c, L, hd)
  PROVE  Sound(st, r, c, L, top)
<1>1. \A s \in Slice : InBounds(s, L, hd) => InBounds(s, L, top)
  BY DEF InBounds, Slice
<1>2. ASSUME NEW f \in Frame, FrameOK(f, L, hd) PROVE FrameOK(f, L, top)
  <2>1. f.k \in {"scan", "file", "block", "call", "switch"} \/ (f.k = "loop" /\ ~IsRepeat(f))
          => f.s \in Slice
    BY ByKind DEF ScanFrames, FileFrames, BlockFrames, CallFrames, SwitchFrames, LoopFrames
  <2>. QED  BY <1>1, <1>2, <2>1 DEF FrameOK
<1>3. \A h \in 1 .. Len(st) : Level(st, h) \in Frame
  <2>1. st \in Seq(Frame)
    BY DEF Sound
  <2>2. \A h \in 1 .. Len(st) : Len(st) + 1 - h \in 1 .. Len(st)
    BY <2>1
  <2>. QED  BY <2>1, <2>2, ElementOfSeq DEF Level
<1>. QED  BY <1>2, <1>3 DEF Sound

\* What defining a function changes: the pool, the table, and nothing else.
Defining ==
  /\ RshTables' /\ FUNC_POOL_HEAD \in Nat /\ FUNC_POOL_HEAD' \in Nat
  /\ FUNC_POOL_HEAD <= FUNC_POOL_HEAD'
  /\ Counts(ctx') = Counts(ctx) /\ ctx'.break_flag = ctx.break_flag
  /\ ctx'.continue_flag = ctx.continue_flag /\ ctx'.return_flag = ctx.return_flag

LEMMA DefineFunc ==
  ASSUME RshInv, NEW name \in FuncNames, NEW body \in Seq(ScriptLines),
         NEW one_time \in BOOLEAN, NEW recursive \in BOOLEAN,
         define_func(name, body, one_time, recursive), LINES' = LINES,
         ret' \in {NoRet, Ok, Fail}
  PROVE  Defining
<1>1. /\ ctx \in Context /\ PoolOK(ctx, FUNC_BODY_POOL, FUNC_POOL_HEAD, defined)
      /\ ctx.funcs \in [FuncNames -> Func] /\ FUNC_POOL_HEAD \in 0 .. FUNC_POOL_SIZE
      /\ FUNC_POOL_SIZE \in Nat /\ Len(body) \in Nat
  BY CtxFields, SlotsAre DEF RshInv, RshTables, PoolOK
<1>2. CASE ~HasPlace(ctx, name, Len(body))
  <2>1. UNCHANGED <<ctx, FUNC_BODY_POOL, FUNC_POOL_HEAD, defined>>
    BY <1>2 DEF define_func
  <2>. QED  BY <1>1, <2>1 DEF Defining, RshInv, RshTables
<1>3. CASE HasPlace(ctx, name, Len(body))
  <2>. DEFINE start == PoolStart(ctx, name, Len(body))
              reuse == CanReuse(ctx, name, Len(body))
              g == [used |-> TRUE, start |-> start, count |-> Len(body),
                    one_time |-> one_time, has_run |-> FALSE, recursive |-> recursive]
  <2>1. /\ ctx' = [ctx EXCEPT !.funcs[name] = g]
        /\ FUNC_BODY_POOL' = [i \in 1 .. FUNC_POOL_SIZE |->
                                IF i - start \in 1 .. Len(body)
                                  THEN body[i - start] ELSE FUNC_BODY_POOL[i]]
        /\ FUNC_POOL_HEAD' = FUNC_POOL_HEAD + IF reuse THEN 0 ELSE Len(body)
        /\ defined' = [defined EXCEPT ![name] = body]
    BY <1>3 DEF define_func, Redefined
  <2>2. start \in Nat /\ start = IF reuse THEN ctx.funcs[name].start ELSE FUNC_POOL_HEAD
    <3>1. ctx.funcs[name].start \in Nat
      BY <1>1 DEF Func
    <3>. QED  BY <1>1, <3>1 DEF PoolStart
  <2>3. /\ reuse => ctx.funcs[name].used /\ Len(body) <= ctx.funcs[name].count
        /\ ~reuse => FUNC_POOL_HEAD + Len(body) <= FUNC_POOL_SIZE
    <3>1. ctx.funcs[name].count \in Nat
      BY <1>1 DEF Func
    <3>. QED  BY <1>1, <1>3, <3>1 DEF CanReuse, HasPlace
  <2>. HIDE DEF start, reuse
  <2>4. /\ FUNC_POOL_HEAD' \in Nat /\ FUNC_POOL_HEAD \in Nat
        /\ FUNC_POOL_HEAD <= FUNC_POOL_HEAD' /\ FUNC_POOL_HEAD' <= FUNC_POOL_SIZE
    BY <1>1, <2>1, <2>3
  <2>5. g \in Func /\ g.used /\ g.count = Len(body) /\ g.start = start
    BY <1>1, <2>2 DEF Func
  <2>6. FUNC_BODY_POOL' = Filled(g, body, FUNC_BODY_POOL)
    BY <2>1, <2>5 DEF Filled
  <2>. HIDE DEF g
  <2>7. \/ /\ ctx.funcs[name].used /\ g.start = ctx.funcs[name].start
           /\ g.count <= ctx.funcs[name].count
        \/ g.start = FUNC_POOL_HEAD /\ FUNC_POOL_HEAD' = FUNC_POOL_HEAD + g.count
    BY <2>1, <2>2, <2>3, <2>5
  <2>8. /\ ctx' \in Context /\ ctx'.funcs = [ctx.funcs EXCEPT ![name] = g]
        /\ ctx'.once_tags = ctx.once_tags /\ Counts(ctx') = Counts(ctx)
        /\ ctx'.break_flag = ctx.break_flag
        /\ ctx'.continue_flag = ctx.continue_flag /\ ctx'.return_flag = ctx.return_flag
    BY <1>1, <2>1, <2>5 DEF Context, Counts
  <2>9. PoolOK(ctx', FUNC_BODY_POOL', FUNC_POOL_HEAD', defined')
    <3>1. defined' = [defined EXCEPT ![name] = body]
      BY <2>1, Zenon
    <3>. QED  BY <1>1, <2>4, <2>5, <2>6, <2>7, <2>8, <3>1, DefinePool, Zenon
  <2>. QED  BY <2>4, <2>8, <2>9 DEF Defining, RshInv, RshTables
<1>. QED  BY <1>2, <1>3

LEMMA DefineKeeps ==
  ASSUME RshInv, NEW s \in Slice, InBounds(s, LINES, FUNC_POOL_HEAD), NEW i \in 1 .. s.len,
         LineAt(s, i).op \in Definers, DefEnd(s, i) # 0, parse_function_def(s, i),
         LINES' = LINES, ret' \in {NoRet, Ok, Fail}
  PROVE  Defining
<1>1. s.len \in Nat /\ i \in Place
  BY DEF Slice, Place
<1>2. DefEnd(s, i) \in i + 1 .. s.len
  <2>1. i + 1 \in Place
    BY <1>1 DEF Place
  <2>. QED  BY <2>1, FindIn DEF DefEnd
<1>3. LineAt(s, i).name \in FuncNames
  <2>1. LineAt(s, i) \in ScriptLines
    BY LineIn DEF RshInv
  <2>. QED  BY <2>1, ScriptsAssumption DEF Definers
<1>. DEFINE last == DefEnd(s, i) - 1
            rec  == last > i /\ LineAt(s, last).op = "allowedRecursive"
            n    == last - i - IF rec THEN 1 ELSE 0
            body == [k \in 1 .. n |-> LineAt(s, i + k)]
<1>4. define_func(LineAt(s, i).name, body, LineAt(s, i).op = "ont", rec)
  BY DEF parse_function_def
<1>5. n \in Nat /\ i + n <= s.len
  <2>1. last \in Nat /\ last >= i /\ last <= s.len
    BY <1>1, <1>2
  <2>2. n = last - i \/ (n = last - i - 1 /\ last > i)
    BY <2>1
  <2>. HIDE DEF n
  <2>. QED  BY <1>1, <2>1, <2>2
<1>6. rec \in BOOLEAN /\ (LineAt(s, i).op = "ont") \in BOOLEAN
  BY Zenon
<1>7. body \in Seq(ScriptLines)
  <2>. HIDE DEF n
  <2>1. \A k \in 1 .. n : i + k \in 1 .. s.len
    BY <1>1, <1>5
  <2>2. \A k \in 1 .. n : LineAt(s, i + k) \in ScriptLines
    BY <2>1, LineIn DEF RshInv
  <2>3. body \in [1 .. n -> ScriptLines]
    BY <2>2
  <2>. QED  BY <1>5, <2>3
<1>. HIDE DEF body, rec, last, n
<1>. QED  BY <1>3, <1>4, <1>6, <1>7, DefineFunc

LEMMA BlockDefineKeeps == ASSUME RshInv, block_define PROVE RshInv'
<1>1. /\ stack # << >> /\ Top.k = "block" /\ ret = NoRet /\ Top.at <= Top.s.len
      /\ ~Flagged /\ BlockLine.op \in Definers
  BY DEF block_define, AtLine, Runs
<1>2. /\ Top.s \in Slice /\ Top.at \in Place /\ InBounds(Top.s, LINES, FUNC_POOL_HEAD)
      /\ Top.at \in 1 .. Top.s.len
  BY <1>1, BlockTop DEF Slice, Place
<1>3. CASE DefEnd(Top.s, Top.at) = 0
  <2>1. stack' = Rest /\ ret' = Fail /\ UNCHANGED ctx /\ UnchangedTables
    BY <1>3 DEF block_define, Return
  <2>2. Sound(stack', ret', ctx, LINES, FUNC_POOL_HEAD) /\ Flags(stack', ret', ctx)
    BY <1>1, <2>1, Returns DEF Fail, NoRet
  <2>. QED  BY <2>1, <2>2, StackOnly
<1>4. CASE DefEnd(Top.s, Top.at) # 0
  <2>1. /\ parse_function_def(Top.s, Top.at) /\ LINES' = LINES /\ ret' = NoRet
        /\ stack' = <<[Top EXCEPT !.at = DefEnd(Top.s, Top.at) + 1]>> \o Rest
    BY <1>1, <1>4 DEF block_define, GoesOn
  <2>2. Defining
    BY <1>1, <1>2, <1>4, <2>1, DefineKeeps DEF BlockLine
  <2>3. DefEnd(Top.s, Top.at) \in Nat
    <3>1. Top.at + 1 \in Place
      BY <1>2 DEF Place
    <3>. QED  BY <3>1, FindIn DEF DefEnd
  <2>4. GoneOn(stack', stack, DefEnd(Top.s, Top.at))
    BY <2>1, <2>3 DEF GoneOn, Top, Rest
  <2>5. Sound(stack', NoRet, ctx, LINES, FUNC_POOL_HEAD)
    BY <1>1, <2>1, <2>4, BlockGoes
  <2>6. Sound(stack', NoRet, ctx', LINES, FUNC_POOL_HEAD')
    <3>1. Sound(stack', NoRet, ctx', LINES, FUNC_POOL_HEAD)
      BY <2>2, <2>5, SoundSame DEF Defining
    <3>. QED  BY <2>2, <3>1, HeadGrows DEF Defining
  <2>7. Flags(stack', NoRet, ctx')
    BY <1>1, <2>2, NoFlags DEF Flagged, Defining
  <2>. QED  BY <2>1, <2>2, <2>6, <2>7 DEF RshInv, Defining
<1>. QED  BY <1>3, <1>4

-----------------------------------------------------------------------------
(* Calls.                                                                  *)

\* The provers need no more of the sixteen names than that they are a list.
LEMMA ArgCount == Len(ArgNames) \in Nat
BY DEF ArgNames

LEMMA CalleeVarsIn ==
  ASSUME NEW args \in Seq(STRING), Len(args) <= Len(ArgNames)
  PROVE  CalleeVars(args) \in Table
<1>. DEFINE row(i) == IF i = 0 THEN [name |-> "ARG_COUNT", val |-> "n"]
                      ELSE IF i <= Len(args) THEN [name |-> ArgNames[i], val |-> args[i]]
                      ELSE Unused
<1>1. ASSUME NEW i \in Slots PROVE row(i) \in Var
  <2>1. i \in Nat
    BY SlotsAre
  <2>2. CASE i = 0
    <3>1. [name |-> "ARG_COUNT", val |-> "n"] \in Var
      BY DEF Var, Text
    <3>. QED  BY <2>2, <3>1
  <2>3. CASE i # 0 /\ i <= Len(args)
    <3>1. i \in 1 .. Len(ArgNames) /\ i \in 1 .. Len(args)
      BY <2>1, <2>3, ArgCount
    <3>2. ArgNames[i] \in Text /\ args[i] \in Text
      <4>1. args[i] \in STRING
        BY <3>1, ElementOfSeq
      <4>. QED  BY <3>1, <4>1 DEF Text
    <3>3. [name |-> ArgNames[i], val |-> args[i]] \in Var
      BY <3>2, Zenon DEF Var
    <3>. QED  BY <2>3, <3>3
  <2>4. CASE i # 0 /\ ~(i <= Len(args))
    BY <2>4, UnusedIs
  <2>. QED  BY <2>2, <2>3, <2>4
<1>2. CalleeVars(args) = [i \in Slots |-> row(i)]
  BY Zenon DEF CalleeVars
<1>. HIDE DEF row
<1>. QED  BY <1>1, <1>2 DEF Table

\* What the callee finds, and what is kept for the caller.
CalleeCtx(d, c, name) ==
  /\ d \in Context /\ d.once_tags = c.once_tags /\ d.in_function = TRUE
  /\ d.break_flag = c.break_flag /\ d.continue_flag = c.continue_flag
  /\ d.return_flag = FALSE /\ d.include_depth = c.include_depth
  /\ d.with_map = c.with_map /\ d.call_depth = c.call_depth + 1
  /\ d.call_stack[d.call_depth].func_name = name
  /\ d.call_stack[d.call_depth].saved = c.vars
  /\ \A i \in 1 .. c.call_depth : d.call_stack[i] = c.call_stack[i]
  /\ \A n \in FuncNames : /\ d.funcs[n].used = c.funcs[n].used
                          /\ d.funcs[n].start = c.funcs[n].start
                          /\ d.funcs[n].count = c.funcs[n].count

LEMMA CallerSavedIs ==
  ASSUME NEW c \in Context, c.call_depth < MAX_CALL_STACK, NEW name \in FuncNames,
         NEW args \in Seq(STRING), Len(args) <= Len(ArgNames),
         NEW d, d = CallerSaved(c, name, args)
  PROVE  CalleeCtx(d, c, name)
<1>. DEFINE n == c.call_depth + 1
            e == [func_name |-> name, saved |-> c.vars]
            cs == [c.call_stack EXCEPT ![n] = e]
            g == [c.funcs[name] EXCEPT !.has_run = c.funcs[name].has_run \/ c.funcs[name].one_time]
            fs == [c.funcs EXCEPT ![name] = g]
            x1 == [c EXCEPT !.call_stack = cs]
            x2 == [x1 EXCEPT !.call_depth = n]
            x3 == [x2 EXCEPT !.vars = CalleeVars(args)]
            x4 == [x3 EXCEPT !.funcs = fs]
            x5 == [x4 EXCEPT !.in_function = TRUE]
            x6 == [x5 EXCEPT !.return_flag = FALSE]
<1>1. d = x6
  BY Zenon DEF CallerSaved
<1>2. /\ c.call_depth \in Nat /\ n \in 1 .. MAX_CALL_STACK /\ n \in 0 .. MAX_CALL_STACK
      /\ c.vars \in Table /\ c.funcs \in [FuncNames -> Func]
      /\ c.call_stack \in [1 .. MAX_CALL_STACK -> [func_name : Text, saved : Table]]
  <2>1. /\ c.call_depth \in 0 .. MAX_CALL_STACK
        /\ c.vars \in Table /\ c.funcs \in [FuncNames -> Func]
        /\ c.call_stack \in [1 .. MAX_CALL_STACK -> [func_name : Text, saved : Table]]
    BY CtxFields, Zenon
  <2>2. MAX_CALL_STACK \in Nat
    BY SlotsAre
  <2>3. c.call_depth \in Nat /\ n \in 1 .. MAX_CALL_STACK /\ n \in 0 .. MAX_CALL_STACK
    <3>1. c.call_depth \in 0 .. MAX_CALL_STACK
      BY <2>1
    <3>. QED  BY <2>2, <3>1
  <2>. QED  BY <2>1, <2>3, Zenon
<1>3. name \in Text
  BY ScriptsAssumption DEF Text
<1>4. e \in [func_name : Text, saved : Table] /\ e.func_name = name /\ e.saved = c.vars
  BY <1>2, <1>3, Zenon
<1>. HIDE DEF e
<1>5. /\ cs \in [1 .. MAX_CALL_STACK -> [func_name : Text, saved : Table]]
      /\ cs[n] = e /\ \A i \in 1 .. c.call_depth : cs[i] = c.call_stack[i]
  <2>1. \A i \in 1 .. c.call_depth : i # n /\ i \in 1 .. MAX_CALL_STACK
    <3>. DEFINE m == c.call_depth
    <3>1. m \in Nat /\ m < MAX_CALL_STACK /\ MAX_CALL_STACK \in Nat /\ n = m + 1
      BY <1>2, SlotsAre
    <3>. HIDE DEF m, n
    <3>2. \A i \in 1 .. m : i # n /\ i \in 1 .. MAX_CALL_STACK
      BY <3>1
    <3>. QED  BY <3>2 DEF m
  <2>. HIDE DEF n
  <2>2. cs[n] = e
    BY <1>2
  <2>3. \A i \in 1 .. c.call_depth : cs[i] = c.call_stack[i]
    BY <1>2, <2>1
  <2>4. cs \in [1 .. MAX_CALL_STACK -> [func_name : Text, saved : Table]]
    BY <1>2, <1>4
  <2>. QED  BY <2>2, <2>3, <2>4
<1>6. /\ fs \in [FuncNames -> Func]
      /\ \A m \in FuncNames : /\ fs[m].used = c.funcs[m].used
                              /\ fs[m].start = c.funcs[m].start
                              /\ fs[m].count = c.funcs[m].count
  <2>1. c.funcs[name] \in Func
    BY <1>2
  <2>2. g \in Func /\ g.used = c.funcs[name].used /\ g.start = c.funcs[name].start
        /\ g.count = c.funcs[name].count
    BY <2>1 DEF Func
  <2>. HIDE DEF g
  <2>. QED  BY <1>2, <2>2, Zenon
<1>. HIDE DEF cs, fs, n
<1>7. /\ x1 \in Context /\ x1.vars = c.vars /\ x1.funcs = c.funcs
      /\ x1.call_stack = cs /\ x1.once_tags = c.once_tags /\ x1.break_flag = c.break_flag
      /\ x1.continue_flag = c.continue_flag /\ x1.include_depth = c.include_depth
      /\ x1.with_map = c.with_map
  BY <1>5, CtxStack, Zenon
<1>. HIDE DEF x1
<1>8. /\ x2 \in Context /\ x2.call_depth = n
      /\ x2.call_stack = cs /\ x2.once_tags = c.once_tags /\ x2.break_flag = c.break_flag
      /\ x2.continue_flag = c.continue_flag /\ x2.include_depth = c.include_depth
      /\ x2.with_map = c.with_map
  BY <1>2, <1>7, CtxDepth, ZenonT(40)
<1>. HIDE DEF x2
<1>9. /\ x3 \in Context /\ x3.call_depth = n
      /\ x3.call_stack = cs /\ x3.once_tags = c.once_tags /\ x3.break_flag = c.break_flag
      /\ x3.continue_flag = c.continue_flag /\ x3.include_depth = c.include_depth
      /\ x3.with_map = c.with_map
  <2>1. CalleeVars(args) \in Table
    BY CalleeVarsIn
  <2>. QED  BY <1>8, <2>1, CtxVars, Zenon
<1>. HIDE DEF x3
<1>10. /\ x4 \in Context /\ x4.call_depth = n /\ x4.funcs = fs
       /\ x4.call_stack = cs /\ x4.once_tags = c.once_tags /\ x4.break_flag = c.break_flag
       /\ x4.continue_flag = c.continue_flag /\ x4.include_depth = c.include_depth
       /\ x4.with_map = c.with_map
  BY <1>6, <1>9, CtxFuncs, ZenonT(40)
<1>. HIDE DEF x4
<1>11. /\ x5 \in Context /\ x5.call_depth = n /\ x5.funcs = fs /\ x5.in_function = TRUE
       /\ x5.call_stack = cs /\ x5.once_tags = c.once_tags /\ x5.break_flag = c.break_flag
       /\ x5.continue_flag = c.continue_flag /\ x5.include_depth = c.include_depth
       /\ x5.with_map = c.with_map
  BY <1>10, CtxIn, Zenon
<1>. HIDE DEF x5
<1>12. /\ x6 \in Context /\ Counts(x6) = Counts(x5) /\ x6.funcs = fs
       /\ x6.once_tags = c.once_tags /\ x6.break_flag = c.break_flag
       /\ x6.continue_flag = c.continue_flag /\ x6.return_flag = FALSE
  BY <1>11, CtxReturn, Zenon
<1>. HIDE DEF x6
<1>13. /\ x6.call_depth = n /\ x6.in_function = TRUE /\ x6.call_stack = cs
       /\ x6.include_depth = c.include_depth /\ x6.with_map = c.with_map
  BY <1>11, <1>12 DEF Counts
<1>. QED  BY <1>1, <1>4, <1>5, <1>6, <1>12, <1>13 DEF n, CalleeCtx

\* The frame of a call, and the block that runs its body.
LEMMA CallFrameIs ==
  ASSUME RshInv, NEW c \in Context, c.funcs = ctx.funcs, NEW name \in FuncNames,
         c.funcs[name].used, NEW s,
         s = [where |-> "pool", base |-> c.funcs[name].start, len |-> c.funcs[name].count],
         NEW f,
         f = [k |-> "call", name |-> name, prev |-> c.in_function, before |-> c.vars,
              body |-> defined[name], s |-> s]
  PROVE  /\ s \in Slice /\ InBounds(s, LINES, FUNC_POOL_HEAD) /\ s.len = c.funcs[name].count
         /\ f \in Frame /\ f.k = "call" /\ f.prev = c.in_function /\ f.name = name
         /\ f.before = c.vars /\ f.s = s /\ FrameOK(f, LINES, FUNC_POOL_HEAD)
         /\ ~IsTurn(f)
<1>1. ctx \in Context /\ PoolOK(ctx, FUNC_BODY_POOL, FUNC_POOL_HEAD, defined)
  BY DEF RshInv, RshTables
<1>2. name \in UsedFuncs(ctx)
  BY DEF UsedFuncs
<1>3. /\ c.funcs[name].start \in Nat /\ c.funcs[name].count \in Nat
      /\ c.funcs[name].start + c.funcs[name].count <= FUNC_POOL_HEAD
  BY <1>1, <1>2, PoolParts
<1>4. s \in Slice /\ s.where = "pool" /\ s.base = c.funcs[name].start
      /\ s.len = c.funcs[name].count
  BY <1>3 DEF Slice
<1>5. InBounds(s, LINES, FUNC_POOL_HEAD)
  BY <1>3, <1>4 DEF InBounds
<1>6. c.in_function \in BOOLEAN /\ c.vars \in Table /\ defined[name] \in Seq(ScriptLines)
  BY <1>1, CtxFields DEF PoolOK
<1>7. /\ f \in CallFrames /\ f.k = "call" /\ f.prev = c.in_function /\ f.name = name
      /\ f.before = c.vars /\ f.s = s
  BY <1>4, <1>6, Zenon DEF CallFrames
<1>8. f \in Frame
  BY <1>7, Zenon DEF Frame
<1>9. FrameOK(f, LINES, FUNC_POOL_HEAD) /\ ~IsTurn(f)
  BY <1>5, <1>7 DEF FrameOK, IsTurn
<1>. QED  BY <1>4, <1>5, <1>7, <1>8, <1>9

\* A call on the stack base, which waits for its value in context c.
LEMMA Calling ==
  ASSUME RshInv, NEW base, NEW c \in Context, Sound(base, Ok, c, LINES, FUNC_POOL_HEAD),
         c.funcs = ctx.funcs, c.once_tags = ctx.once_tags,
         Looping(base) => ~(c.break_flag /\ c.continue_flag),
         NEW name \in FuncNames, NEW args \in Seq(STRING), Len(args) <= Len(ArgNames),
         call_function(name, args, base, c), UnchangedTables
  PROVE  RshInv'
<1>1. CASE ~MayCall(c, name)
  <2>1. ctx' = c /\ stack' = base /\ ret' = Fail
    BY <1>1 DEF call_function
  <2>2. Sound(stack', ret', ctx', LINES, FUNC_POOL_HEAD) /\ Flags(stack', ret', ctx')
    BY <2>1, Retold, FlagsQuiet DEF Ok, Fail, NoRet
  <2>. QED  BY <2>1, <2>2, CtxStep
<1>2. CASE MayCall(c, name)
  <2>. DEFINE s == [where |-> "pool", base |-> c.funcs[name].start, len |-> c.funcs[name].count]
              f == [k |-> "call", name |-> name, prev |-> c.in_function, before |-> c.vars,
                    body |-> defined[name], s |-> s]
              d == CallerSaved(c, name, args)
  <2>1. /\ ctx' = d /\ ret' = NoRet
        /\ stack' = <<Block(s, 1, c.funcs[name].count), f>> \o base
    BY <1>2 DEF call_function
  <2>2. c.funcs[name].used /\ c.call_depth < MAX_CALL_STACK
    BY <1>2 DEF MayCall
  <2>3. /\ s \in Slice /\ InBounds(s, LINES, FUNC_POOL_HEAD) /\ s.len = c.funcs[name].count
        /\ f \in Frame /\ f.k = "call" /\ f.prev = c.in_function /\ f.name = name
        /\ f.before = c.vars /\ f.s = s /\ FrameOK(f, LINES, FUNC_POOL_HEAD)
        /\ ~IsTurn(f)
    <3>. HIDE DEF s, f
    <3>1. /\ s = [where |-> "pool", base |-> c.funcs[name].start, len |-> c.funcs[name].count]
          /\ f = [k |-> "call", name |-> name, prev |-> c.in_function, before |-> c.vars,
                  body |-> defined[name], s |-> s]
      BY DEF s, f
    <3>. QED  BY <2>2, <3>1, CallFrameIs
  <2>. HIDE DEF s, f
  <2>. HIDE DEF d
  <2>4. CalleeCtx(d, c, name)
    BY <2>2, CallerSavedIs, Zenon DEF d
  <2>5. base \in Seq(Frame) /\ c.call_depth \in Nat /\ s.len \in Nat
    BY <2>3, CtxFields DEF Sound, Slice
  <2>. DEFINE u == <<f>> \o base
              b == Block(s, 1, s.len)
              t == <<b>> \o u
  <2>6. u \in Seq(Frame) /\ u # << >> /\ u[1] = f /\ Tail(u) = base
    BY <2>3, <2>5, OnTop
  <2>7. LiesOn(Tail(u), Len(u), u[1])
    <3>1. Len(u) = Len(base) + 1
      BY <2>3, <2>5, OnTop
    <3>2. LiesOn(base, Len(base) + 1, f)
      BY <2>3, <2>5, LiesOnTop
    <3>. QED  BY <2>6, <3>1, <3>2
  <2>8. Sound(u, Ok, d, LINES, FUNC_POOL_HEAD)
    <3>. HIDE DEF u
    <3>1. /\ u[1].k = "call" /\ c.in_function = u[1].prev /\ FrameOK(u[1], LINES, FUNC_POOL_HEAD)
          /\ d.call_stack[d.call_depth].func_name = u[1].name
          /\ d.call_stack[d.call_depth].saved = u[1].before
      BY <2>3, <2>4, <2>6 DEF CalleeCtx
    <3>2. Sound(Tail(u), Ok, c, LINES, FUNC_POOL_HEAD) /\ Ok # NoRet
      BY <2>6 DEF Ok, NoRet
    <3>. QED  BY <2>4, <2>5, <2>6, <2>7, <3>1, <3>2, CallTop, Zenon DEF CalleeCtx
  <2>9. Looping(u) <=> Looping(base)
    <3>. HIDE DEF u
    <3>. QED  BY <2>3, <2>6, LoopingTail
  <2>. HIDE DEF u
  <2>10. /\ b \in Frame /\ b.k = "block" /\ ~IsWith(b) /\ ~IsTurn(b)
         /\ FrameOK(b, LINES, FUNC_POOL_HEAD) /\ LiesOn(u, Len(u) + 1, b)
    <3>1. 1 \in Place /\ s.len \in Int
      BY <2>5 DEF Place
    <3>. QED  BY <2>3, <2>6, <3>1, NewBlock
  <2>. HIDE DEF b
  <2>11. /\ Sound(t, NoRet, d, LINES, FUNC_POOL_HEAD)
         /\ t \in Seq(Frame) /\ t # << >> /\ t[1] = b /\ Tail(t) = u
         /\ Looping(t) <=> IsTurn(b) \/ Looping(u)
    BY <2>8, <2>10, PushPlain DEF Ok, NoRet
  <2>. HIDE DEF t
  <2>12. stack' = t
    <3>1. stack' = <<b, f>> \o base
      BY <2>1, <2>3 DEF b
    <3>. QED  BY <2>3, <2>5, <2>10, <3>1, TwoPushed DEF t, u
  <2>13. Flags(t, NoRet, d)
    BY <2>4, <2>9, <2>10, <2>11, FlagsQuiet DEF CalleeCtx
  <2>14. /\ IsFiniteSet(ctx'.once_tags) /\ Cardinality(ctx'.once_tags) <= MAX_ONCE_TAGS
    BY <2>1, <2>4 DEF RshInv, RshTables, CalleeCtx
  <2>15. RshTables'
    <3>1. RshTables /\ ctx' \in Context /\ ret' \in {NoRet, Ok, Fail}
      BY <2>1, <2>4 DEF RshInv, CalleeCtx
    <3>2. \A n \in FuncNames : /\ ctx'.funcs[n].used = ctx.funcs[n].used
                               /\ ctx'.funcs[n].start = ctx.funcs[n].start
                               /\ ctx'.funcs[n].count = ctx.funcs[n].count
      BY <2>1, <2>4 DEF CalleeCtx
    <3>. QED  BY <2>14, <3>1, <3>2, TablesSame
  <2>. QED  BY <2>1, <2>11, <2>12, <2>13, <2>15 DEF RshInv, UnchangedTables
<1>. QED  BY <1>1, <1>2

LEMMA LineCallKeeps == ASSUME RshInv, line_call PROVE RshInv'
<1>1. /\ stack # << >> /\ Top.k = "line" /\ Cmd.op \in {"call", "named"} /\ UnchangedTables
  BY DEF line_call, AtCmd, Runs
<1>2. /\ Cmd \in ScriptLines /\ ctx \in Context
      /\ Sound(Rest, Ok, ctx, LINES, FUNC_POOL_HEAD)
      /\ Looping(Rest) => ~ctx.break_flag
  BY <1>1, LineTop
<1>3. Cmd.name \in FuncNames /\ Cmd.args \in Seq(STRING) /\ Len(Cmd.args) <= Len(ArgNames)
  BY <1>1, <1>2, ScriptsAssumption
<1>4. CASE stack' = Rest /\ ret' = Ok /\ UNCHANGED ctx
  BY <1>1, <1>2, <1>4, LineReturns
<1>5. CASE call_function(Cmd.name, Cmd.args, Rest, ctx)
  BY <1>1, <1>2, <1>3, <1>5, Calling
<1>. QED  BY <1>4, <1>5 DEF line_call, Return

LEMMA CallReturnKeeps == ASSUME RshInv, call_return PROVE RshInv'
<1>1. stack # << >> /\ Top.k = "call" /\ ret # NoRet /\ stack' = Rest /\ ret' = ret
      /\ UnchangedTables
  BY DEF call_return, Gets
<1>2. /\ stack \in Seq(Frame) /\ Top \in CallFrames /\ stack[1] = Top /\ Tail(stack) = Rest
      /\ Sound(stack, ret, ctx, LINES, FUNC_POOL_HEAD) /\ Flags(stack, ret, ctx)
      /\ ctx \in Context /\ ret \in {Ok, Fail}
  BY <1>1, Here, ByKind DEF RshInv, RshTables
<1>3. Top.prev \in BOOLEAN /\ Top.before \in Table
  BY <1>2 DEF CallFrames
<1>4. ctx.call_depth \in 1 .. MAX_CALL_STACK /\ ctx.call_depth - 1 \in 0 .. MAX_CALL_STACK
  <2>1. ctx.call_depth = Cardinality(Kind(stack, "call"))
    BY <1>2 DEF Sound, Called
  <2>2. Len(stack) \in Kind(stack, "call")
    BY <1>1, <1>2, KindTail
  <2>3. ctx.call_depth >= 1
    <3>1. /\ Cardinality(Kind(stack, "call")) \in Nat
          /\ Cardinality(Kind(stack, "call") \cap 1 .. Len(stack))
               \in 1 .. Cardinality(Kind(stack, "call"))
      BY <1>2, <2>2, CallsUpTo, Zenon
    <3>. QED  BY <2>1, <3>1
  <2>. QED  BY <1>2, <2>3, CtxFields, SlotsAre
<1>. DEFINE saved == ctx.call_stack[ctx.call_depth].saved
            x1 == [ctx EXCEPT !.return_flag = FALSE]
            x2 == [x1 EXCEPT !.in_function = Top.prev]
            x3 == [x2 EXCEPT !.call_depth = ctx.call_depth - 1]
            x4 == [x3 EXCEPT !.vars = RestoredVars(saved)]
<1>5. ctx' = x4
  BY Zenon DEF call_return
<1>6. saved \in Table
  BY <1>2, <1>4, CtxFields
<1>. HIDE DEF saved
<1>7. RestoredVars(saved) \in Table
  <2>1. ASSUME NEW i \in Slots
        PROVE  (IF {j \in UsedSlots(saved) : SavedIndex(j) = i} = {} THEN Unused
                ELSE saved[Max({j \in UsedSlots(saved) : SavedIndex(j) = i})]) \in Var
    <3>. DEFINE from == {j \in UsedSlots(saved) : SavedIndex(j) = i}
    <3>1. from \subseteq Slots /\ from \in SUBSET (0 .. MAX_VARS)
      BY SlotsAre DEF UsedSlots, Slots
    <3>. HIDE DEF from
    <3>2. CASE from = {}
      BY <3>2, UnusedIs DEF from
    <3>3. CASE from # {}
      <4>1. Max(from) \in Slots
        BY <3>1, <3>3, MaxIn, SlotsAre
      <4>. QED  BY <1>6, <3>3, <4>1 DEF from, Table
    <3>. QED  BY <3>2, <3>3
  <2>. QED  BY <2>1 DEF RestoredVars, Table
<1>8. /\ x1 \in Context /\ Counts(x1) = Counts(ctx) /\ x1.funcs = ctx.funcs
      /\ x1.once_tags = ctx.once_tags /\ x1.break_flag = ctx.break_flag
      /\ x1.continue_flag = ctx.continue_flag
  BY <1>2, CtxReturn, Zenon
<1>. HIDE DEF x1
<1>9. /\ x1.call_stack = ctx.call_stack /\ x1.include_depth = ctx.include_depth
      /\ x1.with_map = ctx.with_map
  BY <1>8 DEF Counts
<1>10. /\ x2 \in Context /\ x2.funcs = ctx.funcs /\ x2.once_tags = ctx.once_tags
       /\ x2.break_flag = ctx.break_flag /\ x2.continue_flag = ctx.continue_flag
       /\ x2.call_stack = ctx.call_stack /\ x2.include_depth = ctx.include_depth
       /\ x2.with_map = ctx.with_map /\ x2.in_function = Top.prev
  BY <1>3, <1>8, <1>9, CtxIn, ZenonT(40)
<1>. HIDE DEF x2
<1>11. /\ x3 \in Context /\ x3.funcs = ctx.funcs /\ x3.once_tags = ctx.once_tags
       /\ x3.break_flag = ctx.break_flag /\ x3.continue_flag = ctx.continue_flag
       /\ x3.call_stack = ctx.call_stack /\ x3.include_depth = ctx.include_depth
       /\ x3.with_map = ctx.with_map /\ x3.in_function = Top.prev
       /\ x3.call_depth = ctx.call_depth - 1
  BY <1>4, <1>10, CtxDepth, ZenonT(40)
<1>. HIDE DEF x3
<1>12. /\ x4 \in Context /\ x4.funcs = ctx.funcs /\ x4.once_tags = ctx.once_tags
       /\ x4.break_flag = ctx.break_flag /\ x4.continue_flag = ctx.continue_flag
       /\ x4.call_stack = ctx.call_stack /\ x4.include_depth = ctx.include_depth
       /\ x4.with_map = ctx.with_map /\ x4.in_function = Top.prev
       /\ x4.call_depth = ctx.call_depth - 1
  BY <1>7, <1>11, CtxVars, Zenon
<1>. HIDE DEF x4
<1>13. Sound(Tail(stack), ret, x4, LINES, FUNC_POOL_HEAD)
  <2>1. x4.call_depth \in Nat /\ ctx.call_depth = x4.call_depth + 1
    BY <1>4, <1>12
  <2>. QED  BY <1>1, <1>2, <1>12, <2>1, CallTop
<1>14. Flags(Rest, ret, x4)
  <2>1. Looping(stack) => ~(ctx.break_flag /\ ctx.continue_flag)
    BY <1>1, <1>2 DEF Flags, IsRepeat
  <2>2. Looping(Rest) => Looping(stack)
    BY <1>1, Here
  <2>. QED  BY <1>1, <1>12, <2>1, <2>2, FlagsQuiet
<1>. QED  BY <1>1, <1>2, <1>5, <1>12, <1>13, <1>14, CtxStep

-----------------------------------------------------------------------------
(* Files.                                                                  *)

LEMMA BufferIs ==
  ASSUME NEW n \in Nat
  PROVE  /\ Buffer(n) \in 0 .. BUFFERS - 1
         /\ n < BUFFERS - 1 => Buffer(n) = n
         /\ n >= BUFFERS - 1 => Buffer(n) = BUFFERS - 1
<1>. DEFINE b == BUFFERS - 1
<1>1. b \in Nat
  BY SlotsAre
<1>. HIDE DEF b
<1>2. n <= b => Min({n, b}) = n
  BY <1>1 DEF Min
<1>3. b <= n => Min({n, b}) = b
  BY <1>1 DEF Min
<1>. QED  BY <1>1, <1>2, <1>3 DEF Buffer, b

\* A file read into a buffer comes first there, and what it does not cover
\* of the longer one before it stays.
LEMMA ReadIntoIs ==
  ASSUME NEW S, NEW old \in Seq(S), NEW new \in Seq(S)
  PROVE  /\ ReadInto(old, new) \in Seq(S)
         /\ Len(ReadInto(old, new)) >= Len(old) /\ Len(ReadInto(old, new)) >= Len(new)
         /\ Len(ReadInto(old, new)) \in Nat
         /\ \A i \in 1 .. Len(new) : ReadInto(old, new)[i] = new[i]
<1>. DEFINE tail == SubSeq(old, Len(new) + 1, Len(old))
<1>1. Len(old) \in Nat /\ Len(new) \in Nat
  OBVIOUS
<1>2. tail \in Seq(S) /\ Len(tail) \in Nat
      /\ Len(tail) >= Len(old) - Len(new)
  BY <1>1
<1>. HIDE DEF tail
<1>3. /\ new \o tail \in Seq(S) /\ Len(new \o tail) = Len(new) + Len(tail)
      /\ \A i \in 1 .. Len(new) : (new \o tail)[i] = new[i]
  BY <1>2
<1>. QED  BY <1>1, <1>2, <1>3 DEF ReadInto, tail

AllScans(st) == \A h \in 1 .. Len(st) : Level(st, h).k = "scan"

\* A file of the stack that a file included by it waits for keeps its lines
\* when that one is read.
LEMMA FileSurvives ==
  ASSUME NEW L \in Buffers, NEW n \in Nat, NEW new \in Seq(ScriptLines), NEW M,
         M = [L EXCEPT ![Buffer(n)] = ReadInto(L[Buffer(n)], new)],
         NEW g \in ScanFrames, g.depth < n, NEW hd, FrameOK(g, L, hd)
  PROVE  FrameOK(g, M, hd)
<1>1. /\ g.k = "scan" /\ g.depth \in Nat /\ g.s \in Slice
      /\ g.depth < MAX_INCLUDE_DEPTH
      /\ g.s = [where |-> "file", base |-> Buffer(g.depth), len |-> Len(FILES[g.file])]
      /\ g.depth < BUFFERS - 1 =>
           [i \in 1 .. g.s.len |-> L[g.s.base][i]] = FILES[g.file]
      /\ InBounds(g.s, L, hd)
  BY DEF ScanFrames, FrameOK
<1>2. g.s.where = "file" /\ g.s.base = Buffer(g.depth)
  BY <1>1
<1>3. g.s.base \in 0 .. BUFFERS - 1 /\ g.s.len <= Len(L[g.s.base]) /\ g.s.len \in Nat
  BY <1>1, <1>2 DEF InBounds, Slice
<1>. DEFINE b == Buffer(n)
<1>4. b \in 0 .. BUFFERS - 1
  BY BufferIs
<1>. HIDE DEF b
<1>5. /\ L[b] \in Seq(ScriptLines) /\ M[b] = ReadInto(L[b], new)
      /\ \A i \in 0 .. BUFFERS - 1 : i # b => M[i] = L[i]
  BY <1>4 DEF Buffers, b
<1>6. Len(M[g.s.base]) >= Len(L[g.s.base]) /\ Len(M[g.s.base]) \in Nat
      /\ Len(L[g.s.base]) \in Nat
  <2>1. L[g.s.base] \in Seq(ScriptLines)
    BY <1>3 DEF Buffers
  <2>2. CASE g.s.base = b
    BY <1>5, <2>1, <2>2, ReadIntoIs
  <2>3. CASE g.s.base # b
    BY <1>3, <1>5, <2>1, <2>3
  <2>. QED  BY <2>2, <2>3
<1>7. InBounds(g.s, M, hd)
  BY <1>2, <1>3, <1>6 DEF InBounds
<1>8. g.depth < BUFFERS - 1 => M[g.s.base] = L[g.s.base]
  <2>. SUFFICES ASSUME g.depth < BUFFERS - 1 PROVE g.s.base # b
    BY <1>3, <1>5
  <2>1. g.s.base = g.depth
    BY <1>1, <1>2, BufferIs
  <2>2. b = n \/ b = BUFFERS - 1
    BY SlotsAre, BufferIs DEF b
  <2>. QED  BY <1>1, <2>1, <2>2
<1>. QED  BY <1>1, <1>7, <1>8 DEF FrameOK

\* What reading f does to the buffers L, and the scan it starts.
JustRead(L, n, f, M, g) ==
  /\ M = [L EXCEPT ![Buffer(n)] = ReadInto(L[Buffer(n)], FILES[f])]
  /\ g = [k |-> "scan",
          s |-> [where |-> "file", base |-> Buffer(n), len |-> Len(FILES[f])],
          at |-> 1, main |-> FALSE, file |-> f, depth |-> n]

\* The file just read has its own lines.
LEMMA FileRead ==
  ASSUME NEW L \in Buffers, NEW n \in Nat, n < MAX_INCLUDE_DEPTH, NEW f \in DOMAIN FILES,
         NEW M, NEW g, JustRead(L, n, f, M, g), NEW hd
  PROVE  /\ M \in Buffers /\ g \in Frame /\ g.k = "scan" /\ g.depth = n /\ FrameOK(g, M, hd)
<1>. DEFINE b == Buffer(n)
            s == [where |-> "file", base |-> b, len |-> Len(FILES[f])]
<1>1. b \in 0 .. BUFFERS - 1 /\ b \in Nat
  BY BufferIs, SlotsAre
<1>2. FILES[f] \in Seq(ScriptLines) /\ Len(FILES[f]) \in Nat
  BY ScriptsAssumption
<1>3. /\ s \in Slice /\ s.where = "file" /\ s.base = b /\ s.len = Len(FILES[f])
  BY <1>1, <1>2 DEF Slice
<1>4. /\ L[b] \in Seq(ScriptLines) /\ M[b] = ReadInto(L[b], FILES[f])
      /\ M = [L EXCEPT ![b] = ReadInto(L[b], FILES[f])]
      /\ g = [k |-> "scan", s |-> s, at |-> 1, main |-> FALSE, file |-> f, depth |-> n]
  <2>1. /\ M = [L EXCEPT ![b] = ReadInto(L[b], FILES[f])]
        /\ g = [k |-> "scan", s |-> s, at |-> 1, main |-> FALSE, file |-> f, depth |-> n]
    BY Zenon DEF JustRead
  <2>. HIDE DEF s
  <2>. QED  BY <1>1, <2>1 DEF Buffers
<1>. HIDE DEF b, s
<1>5. /\ M[b] \in Seq(ScriptLines) /\ Len(M[b]) >= Len(FILES[f])
      /\ \A i \in 1 .. Len(FILES[f]) : M[b][i] = FILES[f][i]
  BY <1>2, <1>4, ReadIntoIs
<1>6. M \in Buffers
  <2>1. ReadInto(L[b], FILES[f]) \in Seq(ScriptLines)
    BY <1>4, <1>5
  <2>. QED  BY <1>1, <1>4, <2>1 DEF Buffers
<1>7. g \in ScanFrames
  <2>1. 1 \in Place
    BY DEF Place
  <2>. QED  BY <1>3, <1>4, <2>1, Zenon DEF ScanFrames
<1>8. /\ g.k = "scan" /\ g.depth = n /\ g.s = s /\ g.file = f
  BY <1>4, Zenon
<1>9. InBounds(s, M, hd)
  BY <1>1, <1>3, <1>5 DEF InBounds
<1>10. [i \in 1 .. s.len |-> M[s.base][i]] = FILES[f]
  <2>1. [i \in 1 .. s.len |-> M[s.base][i]] = [i \in 1 .. Len(FILES[f]) |-> FILES[f][i]]
    BY <1>3, <1>5
  <2>2. FILES[f] = [i \in 1 .. Len(FILES[f]) |-> FILES[f][i]]
    BY <1>2
  <2>. QED  BY <2>1, <2>2
<1>11. FrameOK(g, M, hd)
  BY <1>8, <1>9, <1>10 DEF FrameOK, s, b
<1>. QED  BY <1>6, <1>7, <1>8, <1>11 DEF Frame

\* Nothing loops below a file.
LEMMA ScansDoNotLoop ==
  ASSUME NEW st \in Seq(Frame), AllScans(st)
  PROVE  ~Looping(st)
<1>. SUFFICES ASSUME NEW i \in 1 .. Len(st), IsTurn(st[i]) PROVE FALSE
  BY DEF Looping
<1>1. Len(st) + 1 - i \in 1 .. Len(st) /\ Len(st) + 1 - (Len(st) + 1 - i) = i
  OBVIOUS
<1>2. st[i].k = "scan"
  BY <1>1 DEF AllScans, Level
<1>. QED  BY <1>2 DEF IsTurn

\* A file is read, or cannot be, on behalf of base, the scans of the files
\* that include it.
LEMMA ExecFileKeeps ==
  ASSUME RshInv, NEW f \in DOMAIN FILES, NEW base, NEW c \in Context,
         Sound(base, Ok, c, LINES, FUNC_POOL_HEAD), AllScans(base),
         Len(base) = c.include_depth, c.funcs = ctx.funcs, c.once_tags = ctx.once_tags,
         exec_file(f, base, c)
  PROVE  RshInv'
<1>1. /\ base \in Seq(Frame) /\ ~Looping(base) /\ c.include_depth \in Nat
      /\ LINES \in Buffers /\ ctx \in Context
      /\ IsFiniteSet(c.once_tags) /\ Cardinality(c.once_tags) <= MAX_ONCE_TAGS
      /\ PoolOK(c, FUNC_BODY_POOL, FUNC_POOL_HEAD, defined)
  <2>1. PoolOK(c, FUNC_BODY_POOL, FUNC_POOL_HEAD, defined)
    BY PoolSame DEF RshInv, RshTables
  <2>. QED  BY <2>1, ScansDoNotLoop, CtxFields DEF Sound, RshInv, RshTables
<1>2. CASE FileFails(base, c)
  <2>1. /\ stack' = base /\ ret' = Fail /\ ctx' = c
        /\ UNCHANGED <<FUNC_BODY_POOL, FUNC_POOL_HEAD, LINES, defined>>
    BY <1>2 DEF FileFails
  <2>2. Sound(base, Fail, c, LINES, FUNC_POOL_HEAD)
    BY Retold DEF Ok, Fail, NoRet
  <2>3. Flags(base, Fail, c)
    BY <1>1, FlagsQuiet DEF Fail, NoRet
  <2>4. RshTables'
    BY <1>1, <2>1 DEF RshTables
  <2>. QED  BY <2>1, <2>2, <2>3, <2>4 DEF RshInv
<1>3. CASE ReadFile(f, base, c)
  <2>. DEFINE n == c.include_depth
              s == [where |-> "file", base |-> Buffer(n), len |-> Len(FILES[f])]
              g == [k |-> "scan", s |-> s, at |-> 1, main |-> FALSE, file |-> f, depth |-> n]
              M == [LINES EXCEPT ![Buffer(n)] = ReadInto(LINES[Buffer(n)], FILES[f])]
              t == <<g>> \o base
  <2>1. /\ n < MAX_INCLUDE_DEPTH /\ LINES' = M /\ stack' = t /\ ret' = NoRet /\ ctx' = c
        /\ UNCHANGED <<FUNC_BODY_POOL, FUNC_POOL_HEAD, defined>>
    BY <1>3, Zenon DEF ReadFile
  <2>2. /\ M \in Buffers /\ g \in Frame /\ g.k = "scan" /\ g.depth = n
        /\ FrameOK(g, M, FUNC_POOL_HEAD)
    <3>1. JustRead(LINES, n, f, M, g) /\ n \in Nat
      BY <1>1, Zenon DEF JustRead
    <3>. HIDE DEF s, g, M, n
    <3>2. LINES \in Buffers /\ n < MAX_INCLUDE_DEPTH
      BY <1>1, <2>1
    <3>. QED  BY <3>1, <3>2, FileRead
  <2>3. n \in Nat /\ M = [LINES EXCEPT ![Buffer(n)] = ReadInto(LINES[Buffer(n)], FILES[f])]
    BY <1>1
  <2>. HIDE DEF g, M, n
  <2>4. ASSUME NEW h \in 1 .. Len(base)
        PROVE  FrameOK(Level(base, h), M, FUNC_POOL_HEAD)
    <3>1. Level(base, h).k = "scan" /\ FrameOK(Level(base, h), LINES, FUNC_POOL_HEAD)
          /\ LiesOn(base, h, Level(base, h))
      BY DEF AllScans, Sound, Layered
    <3>2. Level(base, h) \in ScanFrames
      <4>1. Len(base) + 1 - h \in 1 .. Len(base)
        BY <1>1
      <4>2. Level(base, h) \in Frame
        BY <1>1, <4>1, ElementOfSeq DEF Level
      <4>. QED  BY <3>1, <4>2, ByKind
    <3>3. Level(base, h).depth < n
      <4>1. Level(base, h).depth = h - 1
        BY <3>1 DEF LiesOn
      <4>. QED  BY <1>1, <4>1 DEF n
    <3>4. FILES[f] \in Seq(ScriptLines)
      BY ScriptsAssumption
    <3>. QED  BY <1>1, <2>3, <3>1, <3>2, <3>3, <3>4, FileSurvives, ZenonT(40)
  <2>5. Sound(base, Ok, c, M, FUNC_POOL_HEAD)
    BY <2>4 DEF Sound
  <2>6. LiesOn(base, Len(base) + 1, g)
    <3>1. g.depth = (Len(base) + 1) - 1 /\ (Len(base) + 1) - 1 = Len(base)
      BY <1>1, <2>2 DEF n
    <3>. QED  BY <2>2, <3>1 DEF LiesOn, AllScans, IsRepeat
  <2>7. ~IsWith(g) /\ ~IsTurn(g)
    BY <2>2 DEF IsWith, IsTurn
  <2>8. /\ Sound(t, NoRet, c, M, FUNC_POOL_HEAD)
        /\ t \in Seq(Frame) /\ t # << >> /\ t[1] = g
        /\ Looping(t) <=> IsTurn(g) \/ Looping(base)
    BY <2>2, <2>5, <2>6, <2>7, PushPlain DEF Ok, NoRet
  <2>. HIDE DEF t
  <2>9. Flags(t, NoRet, c)
    BY <1>1, <2>2, <2>7, <2>8, FlagsQuiet
  <2>10. RshTables'
    BY <1>1, <2>1, <2>2 DEF RshTables
  <2>. QED  BY <2>1, <2>8, <2>9, <2>10 DEF RshInv
<1>. QED  BY <1>2, <1>3 DEF exec_file

\* The context with one file more under way.
LEMMA CtxEntered ==
  ASSUME NEW c \in Context, NEW d, d = [c EXCEPT !.include_depth = @ + 1]
  PROVE  /\ d \in Context /\ d.include_depth = c.include_depth + 1 /\ d.funcs = c.funcs
         /\ d.once_tags = c.once_tags /\ d.call_depth = c.call_depth
         /\ d.call_stack = c.call_stack /\ d.in_function = c.in_function
         /\ d.with_map = c.with_map /\ d.break_flag = c.break_flag
         /\ d.continue_flag = c.continue_flag /\ d.return_flag = c.return_flag
<1>1. c.include_depth + 1 \in Nat
  BY CtxFields
<1>. DEFINE n == c.include_depth + 1
            x == [c EXCEPT !.include_depth = n]
<1>2. d = x
  BY Zenon
<1>3. /\ x \in Context /\ x.include_depth = n /\ x.funcs = c.funcs
      /\ x.once_tags = c.once_tags /\ x.call_depth = c.call_depth
      /\ x.call_stack = c.call_stack /\ x.in_function = c.in_function
      /\ x.with_map = c.with_map /\ x.break_flag = c.break_flag
      /\ x.continue_flag = c.continue_flag /\ x.return_flag = c.return_flag
  <2>. HIDE DEF n
  <2>. QED  BY <1>1, CtxInclude, Zenon DEF n
<1>. HIDE DEF x
<1>. QED  BY <1>2, <1>3

\* The file that is being scanned, and those that wait for it.
LEMMA ScanTop ==
  ASSUME RshInv, Runs("scan")
  PROVE  /\ Top \in ScanFrames /\ Top.s \in Slice /\ Top.at \in Place
         /\ InBounds(Top.s, LINES, FUNC_POOL_HEAD) /\ Top.depth \in Nat
         /\ FrameOK(Top, LINES, FUNC_POOL_HEAD)
         /\ Top.file \in DOMAIN FILES
         /\ Sound(Rest, Ok, ctx, LINES, FUNC_POOL_HEAD)
         /\ AllScans(stack) /\ AllScans(Rest)
         /\ LiesOn(Rest, Len(stack), Top)
         /\ Len(stack) = ctx.include_depth + 1 /\ Len(Rest) = ctx.include_depth
         /\ ~Looping(stack) /\ ~Looping(Rest)
<1>1. /\ stack # << >> /\ Top.k = "scan" /\ ret = NoRet /\ stack[1] = Top /\ Tail(stack) = Rest
      /\ stack \in Seq(Frame) /\ Rest \in Seq(Frame) /\ Top \in Frame
      /\ FrameOK(Top, LINES, FUNC_POOL_HEAD)
      /\ Sound(stack, ret, ctx, LINES, FUNC_POOL_HEAD)
  BY Here DEF Runs
<1>2. /\ Top \in ScanFrames /\ Top.s \in Slice /\ Top.at \in Place /\ Top.depth \in Nat
      /\ Top.file \in DOMAIN FILES
  BY <1>1, ByKind DEF ScanFrames
<1>3. InBounds(Top.s, LINES, FUNC_POOL_HEAD)
  BY <1>1 DEF FrameOK
<1>4. ~IsWith(Top)
  BY <1>1 DEF IsWith
<1>5. /\ Sound(Rest, Ok, ctx, LINES, FUNC_POOL_HEAD)
      /\ LiesOn(Rest, Len(stack), Top) /\ Len(stack) = ctx.include_depth + 1
  BY <1>1, <1>4, PlainTop DEF Ok, NoRet
<1>6. Len(Rest) = ctx.include_depth /\ Len(stack) \in Nat \ {0} /\ Len(Rest) = Len(stack) - 1
      /\ Level(stack, Len(stack)) = Top
      /\ \A h \in 1 .. Len(stack) - 1 : Level(Rest, h) = Level(stack, h)
  <2>1. /\ Len(stack) \in Nat \ {0} /\ Len(Rest) = Len(stack) - 1
        /\ Level(stack, Len(stack)) = Top
        /\ \A h \in 1 .. Len(stack) - 1 : Level(Rest, h) = Level(stack, h)
    BY <1>1, Popped
  <2>2. ctx.include_depth \in Nat
    BY CtxFields DEF RshInv, RshTables
  <2>. QED  BY <1>5, <2>1, <2>2
<1>7. AllScans(Rest)
  <2>1. \A g \in 1 .. Len(stack) - 1 : Level(Rest, g).k = "scan"
    BY <1>1, <1>5 DEF LiesOn
  <2>. QED  BY <1>6, <2>1 DEF AllScans
<1>8. AllScans(stack)
  <2>1. 1 .. Len(stack) = (1 .. Len(stack) - 1) \cup {Len(stack)}
    BY <1>6, UpTo
  <2>. QED  BY <1>1, <1>6, <1>7, <2>1 DEF AllScans
<1>. QED  BY <1>1, <1>2, <1>3, <1>5, <1>6, <1>7, <1>8, ScansDoNotLoop

\* It waits, counted, as itself or as the file it is run as.
LEMMA ScanCounted ==
  ASSUME RshInv, Runs("scan"), NEW c, c = [ctx EXCEPT !.include_depth = @ + 1],
         NEW t \in Seq(Frame), t # << >>, Tail(t) = Rest, NEW f, t[1] = f,
         f.k \in {"scan", "file"}, f.depth = Top.depth, FrameOK(f, LINES, FUNC_POOL_HEAD)
  PROVE  /\ c \in Context /\ c.funcs = ctx.funcs /\ c.once_tags = ctx.once_tags
         /\ c.break_flag = ctx.break_flag /\ c.continue_flag = ctx.continue_flag
         /\ c.return_flag = ctx.return_flag
         /\ Sound(t, Ok, c, LINES, FUNC_POOL_HEAD) /\ Len(t) = c.include_depth
         /\ ~Looping(t)
<1>1. /\ ctx \in Context /\ Top.k = "scan"
  BY DEF Runs, RshInv, RshTables
<1>2. /\ c \in Context /\ c.include_depth = ctx.include_depth + 1 /\ c.funcs = ctx.funcs
      /\ c.once_tags = ctx.once_tags /\ c.call_depth = ctx.call_depth
      /\ c.call_stack = ctx.call_stack /\ c.in_function = ctx.in_function
      /\ c.with_map = ctx.with_map /\ c.break_flag = ctx.break_flag
      /\ c.continue_flag = ctx.continue_flag /\ c.return_flag = ctx.return_flag
  BY <1>1, CtxEntered
<1>3. ctx.include_depth \in Nat
  BY <1>1, CtxFields
<1>4. Len(t) = Len(stack) /\ Len(stack) = c.include_depth
  <2>1. Len(Tail(t)) = Len(t) - 1 /\ Len(t) \in Nat \ {0}
    BY Popped
  <2>2. Len(stack) = ctx.include_depth + 1 /\ Len(Rest) = ctx.include_depth
    BY ScanTop
  <2>. QED  BY <1>2, <1>3, <2>1, <2>2
<1>5. LiesOn(Rest, Len(t), f)
  <2>1. LiesOn(Rest, Len(stack), Top)
    BY ScanTop
  <2>. QED  BY <1>1, <1>4, <2>1 DEF LiesOn, IsRepeat
<1>6. Sound(Rest, Ok, ctx, LINES, FUNC_POOL_HEAD) /\ ~Looping(Rest)
  BY ScanTop
<1>7. Sound(t, Ok, c, LINES, FUNC_POOL_HEAD)
  <2>1. /\ t[1].k = "file" \/ (t[1].k = "scan" /\ Ok # NoRet)
        /\ Ok # NoRet /\ Sound(Tail(t), Ok, ctx, LINES, FUNC_POOL_HEAD)
        /\ LiesOn(Tail(t), Len(t), t[1]) /\ FrameOK(t[1], LINES, FUNC_POOL_HEAD)
        /\ Len(t) = c.include_depth
    BY <1>4, <1>5, <1>6 DEF Ok, NoRet
  <2>. QED  BY <1>2, <1>3, <2>1, FileTop, Zenon
<1>8. ~Looping(t)
  BY <1>6, LoopingTail DEF IsTurn
<1>. QED  BY <1>2, <1>4, <1>7, <1>8

LEMMA PromptCounts ==
  ASSUME RshInv, stack = << >>
  PROVE  /\ ctx.include_depth = 0 /\ ctx.call_depth = 0
         /\ Sound(<< >>, Ok, ctx, LINES, FUNC_POOL_HEAD)
         /\ ctx \in Context /\ AllScans(<< >>) /\ ~Looping(<< >>)
         /\ << >> \in Seq(Frame) /\ Len(<< >>) = 0
<1>1. Sound(<< >>, Ok, ctx, LINES, FUNC_POOL_HEAD) /\ ctx \in Context
  BY Retold DEF RshInv, RshTables
<1>2. Len(<< >>) = 0 /\ 1 .. 0 = {} /\ << >> \in Seq(Frame)
  OBVIOUS
<1>3. ctx.include_depth = 0
  <2>1. Entered(<< >>, Ok) = 1 .. ctx.include_depth
    BY <1>1 DEF Sound, Included
  <2>2. Entered(<< >>, Ok) = {}
    BY <1>2 DEF Entered
  <2>3. ctx.include_depth \in Nat
    BY <1>1, CtxFields
  <2>. QED  BY <2>1, <2>2, <2>3
<1>4. ctx.call_depth = 0
  <2>1. Kind(<< >>, "call") = {}
    BY <1>2 DEF Kind
  <2>. QED  BY <1>1, <2>1, FS_EmptySet DEF Sound, Called
<1>. QED  BY <1>1, <1>2, <1>3, <1>4 DEF AllScans, Looping

LEMMA ScriptExecuteFileKeeps ==
  ASSUME RshInv, NEW f \in DOMAIN FILES, script_execute_file(f)
  PROVE  RshInv'
<1>1. stack = << >>
  BY DEF script_execute_file, NextCommand, AtPrompt
<1>2. /\ ctx \in Context /\ ctx.include_depth = 0 /\ ctx.call_depth = 0
      /\ Sound(<< >>, Ok, ctx, LINES, FUNC_POOL_HEAD) /\ AllScans(<< >>) /\ Len(<< >>) = 0
  BY <1>1, PromptCounts
<1>. DEFINE x1 == [ctx EXCEPT !.include_depth = 0]
            x2 == [x1 EXCEPT !.call_depth = 0]
            x3 == [x2 EXCEPT !.break_flag = FALSE]
            x4 == [x3 EXCEPT !.continue_flag = FALSE]
            x5 == [x4 EXCEPT !.return_flag = FALSE]
<1>3. exec_file(f, << >>, x5)
  BY Zenon DEF script_execute_file
<1>4. 0 \in Nat /\ 0 \in 0 .. MAX_CALL_STACK
  BY SlotsAre
<1>5. /\ x1 \in Context /\ x1.funcs = ctx.funcs /\ x1.once_tags = ctx.once_tags
      /\ x1.include_depth = 0 /\ x1.call_depth = ctx.call_depth
      /\ x1.call_stack = ctx.call_stack /\ x1.in_function = ctx.in_function
      /\ x1.with_map = ctx.with_map
  BY <1>2, <1>4, CtxInclude, Zenon
<1>. HIDE DEF x1
<1>6. /\ x2 \in Context /\ x2.funcs = ctx.funcs /\ x2.once_tags = ctx.once_tags
      /\ x2.include_depth = 0 /\ x2.call_depth = 0
      /\ x2.call_stack = ctx.call_stack /\ x2.in_function = ctx.in_function
      /\ x2.with_map = ctx.with_map
  BY <1>4, <1>5, CtxDepth, ZenonT(40)
<1>. HIDE DEF x2
<1>7. Counts(x2) = Counts(ctx)
  BY <1>2, <1>6 DEF Counts
<1>8. /\ x3 \in Context /\ x3.funcs = ctx.funcs /\ x3.once_tags = ctx.once_tags
      /\ Counts(x3) = Counts(ctx)
  BY <1>6, <1>7, CtxBreak, Zenon
<1>. HIDE DEF x3
<1>9. /\ x4 \in Context /\ x4.funcs = ctx.funcs /\ x4.once_tags = ctx.once_tags
      /\ Counts(x4) = Counts(ctx)
  BY <1>8, CtxContinue, Zenon
<1>. HIDE DEF x4
<1>10. /\ x5 \in Context /\ x5.funcs = ctx.funcs /\ x5.once_tags = ctx.once_tags
       /\ Counts(x5) = Counts(ctx)
  BY <1>9, CtxReturn, Zenon
<1>. HIDE DEF x5
<1>11. Sound(<< >>, Ok, x5, LINES, FUNC_POOL_HEAD)
  BY <1>2, <1>10, SoundSame
<1>12. Len(<< >>) = x5.include_depth
  BY <1>2, <1>10 DEF Counts
<1>. QED  BY <1>2, <1>3, <1>10, <1>11, <1>12, ExecFileKeeps

LEMMA ScriptExecuteLineKeeps ==
  ASSUME RshInv, NEW l \in PROMPT_LINES, script_execute_line(l)
  PROVE  RshInv'
<1>1. /\ stack = << >> /\ ret = NoRet /\ stack' = <<LineFrame(l)>>
      /\ UNCHANGED <<ctx, ret, FUNC_BODY_POOL, FUNC_POOL_HEAD, LINES, defined>>
  BY DEF script_execute_line, NextCommand, AtPrompt
<1>. DEFINE f == LineFrame(l)
<1>2. /\ f \in Frame /\ f.k = "line" /\ ~IsWith(f) /\ ~IsTurn(f)
      /\ FrameOK(f, LINES, FUNC_POOL_HEAD)
  <2>1. l \in ScriptLines
    BY ScriptsAssumption
  <2>. QED  BY <2>1, LineFrameIs
<1>. HIDE DEF f
<1>3. /\ Sound(<< >>, Ok, ctx, LINES, FUNC_POOL_HEAD) /\ ~Looping(<< >>)
      /\ << >> \in Seq(Frame) /\ Len(<< >>) = 0
  BY <1>1, PromptCounts
<1>4. LiesOn(<< >>, Len(<< >>) + 1, f)
  BY <1>2, <1>3 DEF LiesOn, IsRepeat
<1>. DEFINE t == <<f>> \o << >>
<1>5. /\ Sound(t, NoRet, ctx, LINES, FUNC_POOL_HEAD)
      /\ t \in Seq(Frame) /\ t # << >> /\ t[1] = f /\ Tail(t) = << >>
      /\ Looping(t) <=> IsTurn(f) \/ Looping(<< >>)
  BY <1>2, <1>3, <1>4, PushPlain DEF Ok, NoRet
<1>6. Len(t) = 1
  BY <1>3, <1>2, OnTop
<1>7. stack' = t
  BY <1>1, <1>2 DEF f
<1>. HIDE DEF t
<1>8. Flags(t, NoRet, ctx)
  BY <1>2, <1>3, <1>5, <1>6 DEF Flags
<1>9. RshTables'
  BY <1>1 DEF RshInv, RshTables
<1>. QED  BY <1>1, <1>5, <1>7, <1>8, <1>9 DEF RshInv

LEMMA CommandDoneKeeps == ASSUME RshInv, command_done PROVE RshInv'
<1>1. stack = << >> /\ stack' = << >> /\ ret' = NoRet /\ UNCHANGED ctx /\ UnchangedTables
  BY DEF command_done
<1>2. Sound(<< >>, NoRet, ctx, LINES, FUNC_POOL_HEAD)
  BY <1>1, Retold DEF RshInv
<1>3. Flags(<< >>, NoRet, ctx)
  BY <1>1, PromptCounts, FlagsQuiet
<1>. QED  BY <1>1, <1>2, <1>3, StackOnly

LEMMA ScanLineKeeps == ASSUME RshInv, scan_line PROVE RshInv'
<1>1. /\ Runs("scan") /\ stack # << >> /\ Top.k = "scan" /\ ret = NoRet /\ ret' = NoRet
      /\ UNCHANGED ctx /\ UnchangedTables
      /\ stack' = <<[Top EXCEPT !.at = @ + 1, !.main = @ \/ ScanLine.op = "entrypoint"]>> \o Rest
  BY DEF scan_line, ScanMore, Enter, Runs
<1>2. Top \in ScanFrames
  BY <1>1, ScanTop
<1>. DEFINE b == Top.main \/ ScanLine.op = "entrypoint"
            f == [Top EXCEPT !.at = Top.at + 1, !.main = b]
<1>3. stack' = <<f>> \o Rest
  BY <1>1, Zenon
<1>4. f \in ScanFrames /\ Twin(f, Top)
  <2>1. Top.at + 1 \in Place /\ b \in BOOLEAN
    BY <1>2 DEF ScanFrames, Place
  <2>. HIDE DEF b
  <2>. QED  BY <1>2, <2>1 DEF ScanFrames, Twin, IsWith, IsRepeat, IsTurn
<1>. HIDE DEF f
<1>5. /\ Sound(<<f>> \o Rest, NoRet, ctx, LINES, FUNC_POOL_HEAD)
      /\ Looping(<<f>> \o Rest) <=> Looping(stack)
      /\ (<<f>> \o Rest)[1] = f
  <2>1. f \in Frame
    BY <1>4, Zenon DEF Frame
  <2>2. /\ Sound(stack, ret, ctx, LINES, FUNC_POOL_HEAD) /\ stack[1] = Top /\ Tail(stack) = Rest
        /\ stack # << >>
    BY <1>1, Here
  <2>3. Twin(f, stack[1]) /\ Sound(stack, NoRet, ctx, LINES, FUNC_POOL_HEAD)
    BY <1>1, <1>4, <2>2
  <2>. HIDE DEF Top, Rest
  <2>. QED  BY <2>1, <2>2, <2>3, Moved
<1>6. f.k = "scan" /\ ~Looping(stack)
  BY <1>1, <1>4, ScanTop DEF ScanFrames
<1>7. Flags(stack', NoRet, ctx)
  BY <1>3, <1>5, <1>6, FlagsQuiet
<1>. QED  BY <1>1, <1>3, <1>5, <1>7, StackOnly

LEMMA ScanIncludeKeeps == ASSUME RshInv, scan_include PROVE RshInv'
<1>. DEFINE c == [ctx EXCEPT !.include_depth = @ + 1]
<1>1. /\ Runs("scan") /\ stack # << >> /\ Top.k = "scan" /\ Top.at <= Top.s.len
      /\ ScanLine.op = "include" /\ exec_file(ScanLine.file, stack, c)
  BY Zenon DEF scan_include, ScanMore, Runs
<1>2. c = [ctx EXCEPT !.include_depth = @ + 1]
  OBVIOUS
<1>. HIDE DEF c
<1>3. ScanLine.file \in DOMAIN FILES
  <2>1. Top.at \in 1 .. Top.s.len /\ Top.s \in Slice /\ InBounds(Top.s, LINES, FUNC_POOL_HEAD)
    BY <1>1, ScanTop DEF Place, Slice
  <2>2. ScanLine \in ScriptLines
    BY <2>1, LineIn DEF RshInv, ScanLine
  <2>. QED  BY <1>1, <2>2, ScriptsAssumption
<1>4. stack \in Seq(Frame) /\ Tail(stack) = Rest /\ stack[1] = Top /\ Top.depth = Top.depth
      /\ FrameOK(Top, LINES, FUNC_POOL_HEAD) /\ AllScans(stack)
  BY <1>1, Here, ScanTop
<1>5. /\ c \in Context /\ c.funcs = ctx.funcs /\ c.once_tags = ctx.once_tags
      /\ Sound(stack, Ok, c, LINES, FUNC_POOL_HEAD) /\ Len(stack) = c.include_depth
  BY <1>1, <1>2, <1>4, ScanCounted
<1>. QED  BY <1>1, <1>3, <1>4, <1>5, ExecFileKeeps

LEMMA ScanIncludeReturnKeeps == ASSUME RshInv, scan_include_return PROVE RshInv'
<1>. DEFINE c == [ctx EXCEPT !.include_depth = ctx.include_depth - 1]
            f == [Top EXCEPT !.at = Top.at + 1]
<1>1. /\ stack # << >> /\ Top.k = "scan" /\ ret # NoRet /\ ret' = NoRet /\ UnchangedTables
      /\ ctx' = c /\ stack' = <<f>> \o Rest
  BY Zenon DEF scan_include_return, Gets, GoesOn
<1>2. /\ stack \in Seq(Frame) /\ Rest \in Seq(Frame) /\ stack[1] = Top /\ Tail(stack) = Rest
      /\ Top \in ScanFrames /\ ctx \in Context
      /\ Sound(stack, ret, ctx, LINES, FUNC_POOL_HEAD)
  BY <1>1, Here, ByKind DEF RshInv, RshTables
<1>3. Len(stack) \in Nat \ {0} /\ Level(stack, Len(stack)) = Top /\ Len(Rest) = Len(stack) - 1
  BY <1>1, <1>2, Popped
<1>4. ctx.include_depth \in Nat \ {0}
  <2>1. Entered(stack, ret) = 1 .. ctx.include_depth
    BY <1>2 DEF Sound, Included
  <2>2. Len(stack) \in Entered(stack, ret)
    BY <1>1, <1>3 DEF Entered
  <2>3. ctx.include_depth \in Nat
    BY <1>2, CtxFields
  <2>. QED  BY <2>1, <2>2, <2>3
<1>5. /\ c \in Context /\ c.include_depth = ctx.include_depth - 1 /\ c.funcs = ctx.funcs
      /\ c.once_tags = ctx.once_tags /\ c.call_depth = ctx.call_depth
      /\ c.call_stack = ctx.call_stack /\ c.in_function = ctx.in_function
      /\ c.with_map = ctx.with_map
  <2>. DEFINE n == ctx.include_depth - 1
  <2>1. n \in Nat
    BY <1>4
  <2>. HIDE DEF n
  <2>2. c = [ctx EXCEPT !.include_depth = n]
    BY DEF n
  <2>. HIDE DEF c
  <2>3. /\ c \in Context /\ c.include_depth = n /\ c.funcs = ctx.funcs
        /\ c.once_tags = ctx.once_tags /\ c.call_depth = ctx.call_depth
        /\ c.call_stack = ctx.call_stack /\ c.in_function = ctx.in_function
        /\ c.with_map = ctx.with_map
    BY <1>2, <2>1, <2>2, CtxInclude
  <2>. QED  BY <2>3 DEF n
<1>. HIDE DEF c
<1>6. /\ Sound(Rest, Ok, c, LINES, FUNC_POOL_HEAD)
      /\ LiesOn(Rest, Len(stack), Top) /\ FrameOK(Top, LINES, FUNC_POOL_HEAD)
      /\ Len(stack) = ctx.include_depth
  <2>1. c.include_depth \in Nat /\ ctx.include_depth = c.include_depth + 1
    BY <1>4, <1>5
  <2>. HIDE DEF Top, Rest
  <2>. QED  BY <1>1, <1>2, <1>5, <2>1, FileTop, ZenonT(40) DEF Ok, NoRet
<1>7. /\ f \in ScanFrames /\ f.k = "scan" /\ f.s = Top.s /\ f.file = Top.file
      /\ f.depth = Top.depth
  <2>1. Top.at + 1 \in Place
    BY <1>2 DEF ScanFrames, Place
  <2>. HIDE DEF Top
  <2>. QED  BY <1>2, <2>1 DEF ScanFrames
<1>8. f \in Frame
  BY <1>7, Zenon DEF Frame
<1>. HIDE DEF f
<1>9. FrameOK(f, LINES, FUNC_POOL_HEAD) /\ ~IsWith(f) /\ ~IsTurn(f)
  BY <1>1, <1>6, <1>7 DEF FrameOK, IsWith, IsTurn
<1>10. LiesOn(Rest, Len(Rest) + 1, f) /\ Len(Rest) = c.include_depth
  <2>1. Len(Rest) + 1 = Len(stack)
    BY <1>3
  <2>2. LiesOn(Rest, Len(stack), f)
    BY <1>1, <1>6, <1>7 DEF LiesOn, IsRepeat
  <2>. QED  BY <1>3, <1>5, <1>6, <2>1, <2>2
<1>11. AllScans(Rest)
  <2>1. \A g \in 1 .. Len(stack) - 1 : Level(Rest, g).k = "scan"
    BY <1>1, <1>6 DEF LiesOn
  <2>. QED  BY <1>3, <2>1 DEF AllScans
<1>. DEFINE t == <<f>> \o Rest
<1>12. /\ Sound(t, NoRet, c, LINES, FUNC_POOL_HEAD) /\ t[1] = f
       /\ Looping(t) <=> IsTurn(f) \/ Looping(Rest)
  <2>1. f.k \notin {"file", "call"}
    BY <1>7
  <2>. QED  BY <1>6, <1>7, <1>8, <1>9, <1>10, <2>1, PushPlain DEF Ok, NoRet
<1>. HIDE DEF t
<1>13. Flags(t, NoRet, c)
  BY <1>2, <1>7, <1>9, <1>11, <1>12, ScansDoNotLoop, FlagsQuiet
<1>. QED  BY <1>1, <1>5, <1>12, <1>13, CtxStep DEF t

LEMMA ScanDefineKeeps == ASSUME RshInv, scan_define PROVE RshInv'
<1>1. /\ Runs("scan") /\ stack # << >> /\ Top.k = "scan" /\ ret = NoRet /\ Top.at <= Top.s.len
      /\ ScanLine.op \in Definers
  BY DEF scan_define, ScanMore, Runs
<1>2. /\ Top \in ScanFrames /\ Top.s \in Slice /\ Top.at \in Place
      /\ InBounds(Top.s, LINES, FUNC_POOL_HEAD) /\ Top.at \in 1 .. Top.s.len
      /\ ~Looping(stack)
  BY <1>1, ScanTop DEF Slice, Place
<1>3. CASE DefEnd(Top.s, Top.at) = 0
  <2>1. stack' = Rest /\ ret' = Fail /\ UNCHANGED ctx /\ UnchangedTables
    BY <1>3 DEF scan_define, Return
  <2>2. Sound(stack', ret', ctx, LINES, FUNC_POOL_HEAD) /\ Flags(stack', ret', ctx)
    BY <1>1, <2>1, Returns DEF Fail, NoRet
  <2>. QED  BY <2>1, <2>2, StackOnly
<1>4. CASE DefEnd(Top.s, Top.at) # 0
  <2>. DEFINE i == DefEnd(Top.s, Top.at)
              f == [Top EXCEPT !.at = i + 1]
  <2>1. /\ parse_function_def(Top.s, Top.at) /\ LINES' = LINES /\ ret' = NoRet
        /\ stack' = <<f>> \o Rest
    BY <1>1, <1>4 DEF scan_define, GoesOn
  <2>2. Defining
    BY <1>1, <1>2, <1>4, <2>1, DefineKeeps DEF ScanLine
  <2>3. i \in Nat
    <3>1. Top.at + 1 \in Place
      BY <1>2 DEF Place
    <3>. QED  BY <3>1, FindIn DEF DefEnd
  <2>. HIDE DEF i
  <2>4. f \in ScanFrames /\ Twin(f, Top)
    <3>1. i + 1 \in Place
      BY <2>3 DEF Place
    <3>. HIDE DEF Top
    <3>. QED  BY <1>2, <3>1 DEF ScanFrames, Twin, IsWith, IsRepeat, IsTurn
  <2>. HIDE DEF f
  <2>5. /\ Sound(<<f>> \o Rest, NoRet, ctx, LINES, FUNC_POOL_HEAD)
        /\ Looping(<<f>> \o Rest) <=> Looping(stack)
        /\ (<<f>> \o Rest)[1] = f
    <3>1. f \in Frame
      BY <2>4, Zenon DEF Frame
    <3>2. /\ Sound(stack, ret, ctx, LINES, FUNC_POOL_HEAD) /\ stack[1] = Top
          /\ Tail(stack) = Rest /\ stack # << >>
      BY <1>1, Here
    <3>3. Twin(f, stack[1]) /\ Sound(stack, NoRet, ctx, LINES, FUNC_POOL_HEAD)
      BY <1>1, <2>4, <3>2
    <3>. HIDE DEF Top, Rest
    <3>. QED  BY <3>1, <3>2, <3>3, Moved
  <2>6. Sound(stack', NoRet, ctx', LINES, FUNC_POOL_HEAD')
    <3>1. Sound(stack', NoRet, ctx', LINES, FUNC_POOL_HEAD)
      BY <2>1, <2>2, <2>5, SoundSame DEF Defining
    <3>. QED  BY <2>2, <3>1, HeadGrows DEF Defining
  <2>7. Flags(stack', NoRet, ctx')
    <3>1. f.k = "scan"
      BY <2>4 DEF ScanFrames
    <3>. QED  BY <1>2, <2>1, <2>5, <3>1, FlagsQuiet
  <2>. QED  BY <2>1, <2>2, <2>6, <2>7 DEF RshInv, Defining
<1>. QED  BY <1>3, <1>4

LEMMA ScanEndKeeps == ASSUME RshInv, scan_end PROVE RshInv'
<1>. DEFINE c == [ctx EXCEPT !.include_depth = @ + 1]
            f == FileFrame
<1>1. Runs("scan") /\ stack # << >> /\ Top.k = "scan" /\ ret = NoRet /\ UnchangedTables
  BY DEF scan_end, Runs
<1>2. \/ /\ ctx' = c /\ ret' = NoRet
         /\ stack' = <<Block(Top.s, 1, Top.s.len), f>> \o Rest
      \/ call_function("main", << >>, <<f>> \o Rest, c)
      \/ stack' = Rest /\ ret' = Fail /\ UNCHANGED ctx
  BY <1>1, Zenon DEF scan_end, Enter, Return
<1>3. c = [ctx EXCEPT !.include_depth = @ + 1]
  OBVIOUS
<1>. HIDE DEF c
<1>4. /\ Top \in ScanFrames /\ FrameOK(Top, LINES, FUNC_POOL_HEAD) /\ Top.s \in Slice
      /\ InBounds(Top.s, LINES, FUNC_POOL_HEAD) /\ ~Looping(Rest) /\ Rest \in Seq(Frame)
      /\ Top.depth \in Nat /\ Top.file \in DOMAIN FILES
  BY <1>1, Here, ScanTop
<1>5. /\ f \in FileFrames /\ f.k = "file" /\ f.s = Top.s /\ f.file = Top.file
      /\ f.depth = Top.depth
  <2>. HIDE DEF Top
  <2>. QED  BY <1>4 DEF FileFrame, FileFrames
<1>6. f \in Frame
  BY <1>5, Zenon DEF Frame
<1>. HIDE DEF f
<1>7. FrameOK(f, LINES, FUNC_POOL_HEAD)
  BY <1>1, <1>4, <1>5 DEF FrameOK
<1>. DEFINE u == <<f>> \o Rest
<1>8. u \in Seq(Frame) /\ u # << >> /\ u[1] = f /\ Tail(u) = Rest
  BY <1>4, <1>6, OnTop
<1>. HIDE DEF u
<1>9. /\ c \in Context /\ c.funcs = ctx.funcs /\ c.once_tags = ctx.once_tags
      /\ Sound(u, Ok, c, LINES, FUNC_POOL_HEAD) /\ ~Looping(u)
  BY <1>1, <1>3, <1>5, <1>7, <1>8, ScanCounted
<1>10. CASE /\ ctx' = c /\ ret' = NoRet
            /\ stack' = <<Block(Top.s, 1, Top.s.len), f>> \o Rest
  <2>. DEFINE b == Block(Top.s, 1, Top.s.len)
              t == <<b>> \o u
  <2>1. /\ b \in Frame /\ b.k = "block" /\ ~IsWith(b) /\ ~IsTurn(b)
        /\ FrameOK(b, LINES, FUNC_POOL_HEAD) /\ LiesOn(u, Len(u) + 1, b)
    <3>1. 1 \in Place /\ Top.s.len \in Int
      BY <1>4 DEF Place, Slice
    <3>. QED  BY <1>4, <1>8, <3>1, NewBlock
  <2>2. stack' = <<b, f>> \o Rest
    BY <1>10
  <2>. HIDE DEF b
  <2>3. /\ Sound(t, NoRet, c, LINES, FUNC_POOL_HEAD)
        /\ t[1] = b /\ (Looping(t) <=> IsTurn(b) \/ Looping(u))
    <3>1. b.k \notin {"file", "call", "scan"}
      BY <2>1
    <3>. QED  BY <1>9, <2>1, <3>1, PushPlain DEF Ok, NoRet
  <2>4. stack' = t
    BY <1>4, <1>6, <2>1, <2>2, TwoPushed DEF u
  <2>. HIDE DEF t
  <2>5. Flags(t, NoRet, c)
    BY <1>9, <2>1, <2>3, FlagsQuiet
  <2>. QED  BY <1>1, <1>9, <1>10, <2>3, <2>4, <2>5, CtxStep
<1>11. CASE call_function("main", << >>, <<f>> \o Rest, c)
  <2>1. call_function("main", << >>, u, c)
    BY <1>11 DEF u
  <2>2. "main" \in FuncNames /\ << >> \in Seq(STRING) /\ Len(<< >>) <= Len(ArgNames)
    <3>1. Len(ArgNames) \in Nat /\ Len(<< >>) = 0
      BY ArgCount
    <3>. QED  BY <3>1, ScriptsAssumption
  <2>. QED  BY <1>1, <1>9, <2>1, <2>2, Calling
<1>12. CASE stack' = Rest /\ ret' = Fail /\ UNCHANGED ctx
  <2>1. Sound(stack', ret', ctx, LINES, FUNC_POOL_HEAD) /\ Flags(stack', ret', ctx)
    BY <1>1, <1>12, Returns DEF Fail, NoRet
  <2>. QED  BY <1>1, <1>12, <2>1, StackOnly
<1>. QED  BY <1>2, <1>10, <1>11, <1>12

LEMMA FileReturnKeeps == ASSUME RshInv, file_return PROVE RshInv'
<1>. DEFINE c == [ctx EXCEPT !.include_depth = ctx.include_depth - 1]
<1>1. /\ stack # << >> /\ Top.k = "file" /\ ret # NoRet /\ ret' = ret /\ UnchangedTables
      /\ ctx' = c /\ stack' = Rest
  BY Zenon DEF file_return, Gets
<1>2. /\ stack \in Seq(Frame) /\ Rest \in Seq(Frame) /\ stack[1] = Top /\ Tail(stack) = Rest
      /\ ctx \in Context /\ Sound(stack, ret, ctx, LINES, FUNC_POOL_HEAD)
      /\ ret \in {Ok, Fail}
  BY <1>1, Here DEF RshInv, RshTables
<1>3. Len(stack) \in Nat \ {0} /\ Level(stack, Len(stack)) = Top /\ Len(Rest) = Len(stack) - 1
  BY <1>1, <1>2, Popped
<1>4. ctx.include_depth \in Nat \ {0}
  <2>1. Entered(stack, ret) = 1 .. ctx.include_depth
    BY <1>2 DEF Sound, Included
  <2>2. Len(stack) \in Entered(stack, ret)
    BY <1>1, <1>3 DEF Entered
  <2>3. ctx.include_depth \in Nat
    BY <1>2, CtxFields
  <2>. QED  BY <2>1, <2>2, <2>3
<1>5. /\ c \in Context /\ c.include_depth = ctx.include_depth - 1 /\ c.funcs = ctx.funcs
      /\ c.once_tags = ctx.once_tags /\ c.call_depth = ctx.call_depth
      /\ c.call_stack = ctx.call_stack /\ c.in_function = ctx.in_function
      /\ c.with_map = ctx.with_map
  <2>. DEFINE n == ctx.include_depth - 1
  <2>1. n \in Nat
    BY <1>4
  <2>. HIDE DEF n
  <2>2. c = [ctx EXCEPT !.include_depth = n]
    BY DEF n
  <2>. HIDE DEF c
  <2>3. /\ c \in Context /\ c.include_depth = n /\ c.funcs = ctx.funcs
        /\ c.once_tags = ctx.once_tags /\ c.call_depth = ctx.call_depth
        /\ c.call_stack = ctx.call_stack /\ c.in_function = ctx.in_function
        /\ c.with_map = ctx.with_map
    BY <1>2, <2>1, <2>2, CtxInclude
  <2>. QED  BY <2>3 DEF n
<1>. HIDE DEF c
<1>6. Sound(Rest, ret, c, LINES, FUNC_POOL_HEAD) /\ LiesOn(Rest, Len(stack), Top)
  <2>1. c.include_depth \in Nat /\ ctx.include_depth = c.include_depth + 1
    BY <1>4, <1>5
  <2>. HIDE DEF Top, Rest
  <2>. QED  BY <1>1, <1>2, <1>5, <2>1, FileTop
<1>7. AllScans(Rest)
  <2>1. \A g \in 1 .. Len(stack) - 1 : Level(Rest, g).k = "scan"
    BY <1>1, <1>6 DEF LiesOn
  <2>. QED  BY <1>3, <2>1 DEF AllScans
<1>8. Flags(Rest, ret, c)
  BY <1>1, <1>2, <1>7, ScansDoNotLoop, FlagsQuiet
<1>. QED  BY <1>1, <1>2, <1>5, <1>6, <1>8, CtxStep

LEMMA RshInvInit == ASSUME script_init PROVE RshInv
<1>1. /\ ctx = EmptyCtx /\ FUNC_BODY_POOL = [i \in 1 .. FUNC_POOL_SIZE |-> Blank]
      /\ FUNC_POOL_HEAD = 0 /\ LINES = [d \in 0 .. BUFFERS - 1 |-> << >>]
      /\ stack = << >> /\ ret = NoRet /\ defined = [f \in FuncNames |-> << >>]
  BY DEF script_init
<1>2. Len(<< >>) = 0 /\ 1 .. 0 = {} /\ << >> \in Seq(Frame) /\ << >> \in Seq(ScriptLines)
  OBVIOUS
<1>3. /\ ctx \in Context /\ ctx.include_depth = 0 /\ ctx.call_depth = 0
      /\ ctx.in_function = FALSE /\ ctx.with_map = "" /\ ctx.once_tags = {}
      /\ UsedFuncs(ctx) = {}
  <2>. DEFINE empty == [i \in Slots |-> Unused]
              fs == [f \in FuncNames |-> NoFunc]
              row == [func_name |-> "", saved |-> empty]
              cs == [d \in 1 .. MAX_CALL_STACK |-> row]
  <2>1. empty \in Table
    BY UnusedIs DEF Table
  <2>2. fs \in [FuncNames -> Func] /\ \A f \in FuncNames : ~fs[f].used
    BY DEF NoFunc, Func
  <2>3. "" \in Text
    BY DEF Text
  <2>. HIDE DEF empty, fs
  <2>4. row \in [func_name : Text, saved : Table]
    BY <2>1, <2>3
  <2>. HIDE DEF row
  <2>5. cs \in [1 .. MAX_CALL_STACK -> [func_name : Text, saved : Table]]
    BY <2>4
  <2>. HIDE DEF cs
  <2>6. ctx = [vars |-> empty, funcs |-> fs, call_stack |-> cs,
               once_tags |-> {}, call_depth |-> 0, in_function |-> FALSE,
               break_flag |-> FALSE, continue_flag |-> FALSE, return_flag |-> FALSE,
               include_depth |-> 0, with_map |-> ""]
    BY <1>1, Zenon DEF EmptyCtx, empty, fs, cs, row
  <2>7. 0 \in 0 .. MAX_CALL_STACK /\ 0 \in Nat /\ {} \in SUBSET Text
    BY SlotsAre
  <2>8. ctx \in Context
    BY <2>1, <2>2, <2>3, <2>5, <2>6, <2>7, Zenon DEF Context
  <2>. QED  BY <2>2, <2>6, <2>8 DEF UsedFuncs
<1>4. PoolOK(ctx, FUNC_BODY_POOL, FUNC_POOL_HEAD, defined)
  <2>1. Blank \in ScriptLines
    BY ScriptsAssumption DEF Blank
  <2>. HIDE DEF Blank
  <2>2. FUNC_BODY_POOL \in Pool
    BY <1>1, <2>1 DEF Pool
  <2>3. defined \in [FuncNames -> Seq(ScriptLines)]
    BY <1>1
  <2>4. FUNC_POOL_HEAD \in 0 .. FUNC_POOL_SIZE
    BY <1>1, SlotsAre
  <2>. QED  BY <1>3, <2>2, <2>3, <2>4 DEF PoolOK
<1>5. LINES \in Buffers
  BY <1>1, <1>2 DEF Buffers
<1>6. IsFiniteSet({}) /\ Cardinality({}) = 0 /\ MAX_ONCE_TAGS \in Nat
  BY FS_EmptySet, SlotsAre
<1>7. RshTables
  <2>1. IsFiniteSet(ctx.once_tags) /\ Cardinality(ctx.once_tags) = 0
    BY <1>3, <1>6, Zenon
  <2>2. Cardinality(ctx.once_tags) <= MAX_ONCE_TAGS
    BY <1>6, <2>1
  <2>3. ret \in {NoRet, Ok, Fail} /\ ctx \in Context
    BY <1>1, <1>3
  <2>. QED  BY <1>4, <1>5, <2>1, <2>2, <2>3, Zenon DEF RshTables
<1>8. Kind(<< >>, "call") = {} /\ Withs(<< >>) = {} /\ Entered(<< >>, NoRet) = {}
  BY <1>2 DEF Kind, Withs, Entered
<1>9. /\ Layered(<< >>, NoRet) /\ Included(<< >>, NoRet, ctx) /\ Called(<< >>, ctx)
      /\ Mapped(<< >>, ctx)
  <2>1. Layered(<< >>, NoRet)
    BY <1>2 DEF Layered
  <2>2. Included(<< >>, NoRet, ctx)
    BY <1>2, <1>3, <1>8 DEF Included
  <2>3. Called(<< >>, ctx)
    BY <1>3, <1>6, <1>8 DEF Called
  <2>4. Mapped(<< >>, ctx)
    BY <1>3, <1>8 DEF Mapped, MapOf
  <2>. QED  BY <2>1, <2>2, <2>3, <2>4
<1>10. Sound(stack, ret, ctx, LINES, FUNC_POOL_HEAD)
  BY <1>1, <1>2, <1>9 DEF Sound
<1>11. Flags(stack, ret, ctx)
  BY <1>1, <1>2 DEF Flags, Looping
<1>. QED  BY <1>7, <1>10, <1>11 DEF RshInv

LEMMA RshStutters == ASSUME RshInv, UNCHANGED vars PROVE RshInv'
BY DEF RshInv, RshTables, vars

-----------------------------------------------------------------------------
(* The theorems.                                                           *)

\* The invariant holds initially and whatever the engine does next.
LEMMA RshKept == ASSUME RshInv, [Next]_vars PROVE RshInv'
<1>1. CASE UNCHANGED vars
  BY <1>1, RshStutters
<1>2. ASSUME NEW f \in DOMAIN FILES, script_execute_file(f) PROVE RshInv'
  BY <1>2, ScriptExecuteFileKeeps
<1>3. ASSUME NEW l \in PROMPT_LINES, script_execute_line(l) PROVE RshInv'
  BY <1>3, ScriptExecuteLineKeeps
<1>4. CASE FileStep
  <2>1. \/ scan_line \/ scan_include \/ scan_include_return \/ scan_define
        \/ scan_end \/ file_return \/ call_return
    BY <1>4 DEF FileStep
  <2>. QED  BY <2>1, ScanLineKeeps, ScanIncludeKeeps, ScanIncludeReturnKeeps, ScanDefineKeeps,
               ScanEndKeeps, FileReturnKeeps, CallReturnKeeps, Zenon
<1>5. CASE BlockStep
  <2>1. \/ block_end \/ block_skip \/ block_line \/ block_line_return
        \/ block_define \/ exec_if \/ exec_if_return
    BY <1>5 DEF BlockStep
  <2>. QED  BY <2>1, BlockEndKeeps, BlockSkipKeeps, BlockLineKeeps, BlockLineReturnKeeps,
               BlockDefineKeeps, ExecIfKeeps, ExecIfReturnKeeps, Zenon
<1>6. CASE LoopStep
  <2>1. \/ exec_loop \/ loop_iterate \/ loop_finish \/ loop_body_return
        \/ exec_switch \/ switch_arm \/ switch_skip \/ switch_arm_return
        \/ switch_end
    BY <1>6 DEF LoopStep
  <2>. QED  BY <2>1, ExecLoopKeeps, LoopIterateKeeps, LoopFinishKeeps, LoopBodyReturnKeeps,
               ExecSwitchKeeps, SwitchArmKeeps, SwitchSkipKeeps, SwitchArmReturnKeeps,
               SwitchEndKeeps, Zenon
<1>7. CASE LineStep
  <2>1. \/ line_simple \/ line_call \/ line_drop \/ line_inline_if
        \/ line_once \/ line_repeat
    BY <1>7 DEF LineStep
  <2>. QED  BY <2>1, LineSimpleKeeps, LineCallKeeps, LineDropKeeps, LineInlineIfKeeps,
               LineOnceKeeps, LineRepeatKeeps, Zenon
<1>8. CASE command_done
  BY <1>8, CommandDoneKeeps
<1>9. CASE Next
  BY <1>2, <1>3, <1>4, <1>5, <1>6, <1>7, <1>8, <1>9, Zenon DEF Next, Step
<1>. QED  BY <1>1, <1>9

\* The engine's own invariant: the frames on the interpreter's stack lie on
\* one another as its executors call one another, and the context counts
\* them.
THEOREM RshInvariant == Spec => []RshInv
<1>1. script_init => RshInv
  BY RshInvInit
<1>2. RshInv /\ [Next]_vars => RshInv'
  BY RshKept
<1>. QED  BY <1>1, <1>2, PTL DEF Spec

LEMMA MatchesFromInv == ASSUME RshInv PROVE ContextMatchesStack
<1>. DEFINE calls == Kind(stack, "call")
<1>1. /\ Included(stack, ret, ctx) /\ Called(stack, ctx) /\ Mapped(stack, ctx)
      /\ ctx \in Context /\ stack \in Seq(Frame)
  BY DEF RshInv, RshTables, Sound
<1>2. \A h : At(h) = Level(stack, h)
  BY DEF At, Level
<1>3. /\ \A kind : Of(kind) = Kind(stack, kind)
      /\ {h \in Of("loop") : At(h).line.op = "with"} = Withs(stack)
      /\ Of("file") \cup {h \in Of("scan") : h < Len(stack) \/ ret # NoRet}
           = Entered(stack, ret)
  BY <1>2 DEF Of, Kind, Withs, IsWith, Entered
<1>4. /\ ctx.call_depth = Cardinality(Of("call"))
      /\ ctx.in_function = (Of("call") # {})
      /\ \A h \in Of("call") :
           ctx.call_stack[Cardinality(Of("call") \cap 1 .. h)].func_name = At(h).name
  BY <1>1, <1>2, <1>3, Zenon DEF Called
<1>5. ctx.include_depth = Cardinality(Entered(stack, ret))
  <2>1. ctx.include_depth \in Nat /\ Entered(stack, ret) = 1 .. ctx.include_depth
    BY <1>1, CtxFields DEF Included
  <2>2. Cardinality(1 .. ctx.include_depth) = ctx.include_depth
    BY <2>1, FS_Interval
  <2>. QED  BY <2>1, <2>2
<1>6. ctx.with_map = IF Withs(stack) = {} THEN "" ELSE At(Max(Withs(stack))).line.map
  BY <1>1, <1>2, Zenon DEF Mapped, MapOf
<1>. QED  BY <1>3, <1>4, <1>5, <1>6, Zenon DEF ContextMatchesStack

\* Whatever path control took out of them, the files, calls and with-blocks
\* still on the interpreter's stack are exactly those the context counts
\* (script_exec_file, call_function, the with executor), for every script.
THEOREM ContextAlwaysMatchesStack == Spec => []ContextMatchesStack
BY RshInvariant, MatchesFromInv, PTL

LEMMA IntactFromInv == ASSUME RshInv PROVE LinesIntact
<1>1. PoolHoldsBodies
  BY DEF RshInv, RshTables, PoolOK, PoolHoldsBodies, BodyAt
<1>2. FileLinesIntact
  <2>. SUFFICES ASSUME NEW p \in 1 .. Len(stack), stack[p].k \in {"scan", "file"},
                       stack[p].depth < BUFFERS - 1
                PROVE  FileLines(stack[p])
    BY DEF FileLinesIntact
  <2>1. stack \in Seq(Frame) /\ \A h \in 1 .. Len(stack) :
          FrameOK(Level(stack, h), LINES, FUNC_POOL_HEAD)
    BY DEF RshInv, Sound
  <2>2. Len(stack) + 1 - p \in 1 .. Len(stack) /\ Len(stack) + 1 - (Len(stack) + 1 - p) = p
    BY <2>1
  <2>3. FrameOK(stack[p], LINES, FUNC_POOL_HEAD)
    BY <2>1, <2>2 DEF Level
  <2>. QED  BY <2>3 DEF FrameOK, FileLines
<1>. QED  BY <1>1, <1>2 DEF LinesIntact

\* Whatever is run is run as it was written: neither includes nor function
\* definitions, drops and reuse of the pool change lines still to be run
\* (LINES_D0.., FUNC_BODY_POOL, define_func), for every script.
THEOREM LinesStayIntact == Spec => []LinesIntact
BY RshInvariant, IntactFromInv, PTL

LEMMA TypesFromInv == ASSUME RshInv PROVE RshTypeOK
<1>1. /\ ctx \in Context /\ ret \in {NoRet, Ok, Fail} /\ stack \in Seq(Frame)
      /\ Cardinality(ctx.once_tags) <= MAX_ONCE_TAGS
      /\ PoolOK(ctx, FUNC_BODY_POOL, FUNC_POOL_HEAD, defined)
      /\ Layered(stack, ret) /\ Included(stack, ret, ctx)
      /\ \A h \in 1 .. Len(stack) : FrameOK(Level(stack, h), LINES, FUNC_POOL_HEAD)
  BY DEF RshInv, RshTables, Sound
<1>2. /\ FUNC_POOL_HEAD \in 0 .. FUNC_POOL_SIZE
      /\ \A f \in UsedFuncs(ctx) : InPool(ctx.funcs[f])
  BY <1>1 DEF PoolOK, InPool
<1>3. /\ ctx.call_depth \in 0 .. MAX_CALL_STACK
      /\ {ctx.in_function, ctx.break_flag, ctx.continue_flag, ctx.return_flag} \subseteq BOOLEAN
      /\ ctx.include_depth \in Nat
  BY <1>1, CtxFields
<1>4. ctx.include_depth \in 0 .. MAX_INCLUDE_DEPTH + 1
  <2>1. CASE ctx.include_depth = 0
    BY <2>1, SlotsAre
  <2>2. CASE ctx.include_depth # 0
    <3>. DEFINE h == ctx.include_depth
    <3>1. h \in 1 .. ctx.include_depth
      BY <1>3, <2>2
    <3>2. h \in Entered(stack, ret)
      BY <1>1, <3>1 DEF Included
    <3>. HIDE DEF h
    <3>3. h \in 1 .. Len(stack) /\ Level(stack, h).k \in {"scan", "file"}
      BY <3>2 DEF Entered
    <3>4. LiesOn(stack, h, Level(stack, h)) /\ FrameOK(Level(stack, h), LINES, FUNC_POOL_HEAD)
      BY <1>1, <3>3 DEF Layered
    <3>5. Level(stack, h).depth = h - 1
      BY <3>3, <3>4 DEF LiesOn
    <3>6. Level(stack, h).depth < MAX_INCLUDE_DEPTH
      BY <3>3, <3>4 DEF FrameOK
    <3>7. h - 1 < MAX_INCLUDE_DEPTH
      BY <3>5, <3>6
    <3>. QED  BY <1>3, <3>7, SlotsAre DEF h
  <2>. QED  BY <2>1, <2>2
<1>5. stack # << >> /\ Top.k = "line" => ret = NoRet
  <2>. SUFFICES ASSUME stack # << >>, Top.k = "line" PROVE ret = NoRet
    OBVIOUS
  <2>1. Sound(stack, ret, ctx, LINES, FUNC_POOL_HEAD) /\ stack[1] = Top
    BY Here
  <2>. QED  BY <2>1, TopIs
<1>6. ASSUME NEW p \in 1 .. Len(stack), stack[p].k = "block"
      PROVE  IF stack[p].s.where = "file" THEN stack[p].s.len <= Len(LINES[stack[p].s.base])
             ELSE stack[p].s.base + stack[p].s.len <= FUNC_POOL_HEAD
  <2>1. Len(stack) + 1 - p \in 1 .. Len(stack) /\ Len(stack) + 1 - (Len(stack) + 1 - p) = p
    BY <1>1
  <2>2. FrameOK(stack[p], LINES, FUNC_POOL_HEAD)
    BY <1>1, <2>1 DEF Level
  <2>. QED  BY <1>6, <2>2 DEF FrameOK, InBounds
<1>. QED  BY <1>1, <1>2, <1>3, <1>4, <1>5, <1>6 DEF RshTypeOK

\* The tables keep their shape, every line being run lies inside its buffer
\* or inside the filled part of the pool, and no line is handed a value: no
\* access of the engine to lines[i] or FUNC_BODY_POOL is out of bounds.
THEOREM RshTypeCorrect == Spec => []RshTypeOK
BY RshInvariant, TypesFromInv, PTL

\* What runs is told by the top of the stack.
LEMMA WhoRuns ==
  ASSUME Next, stack # << >>
  PROVE  /\ Top.k = "call" => call_return
         /\ Top.k = "loop" => loop_iterate \/ loop_finish \/ loop_body_return
<1>1. ~command_done
  BY DEF command_done
<1>2. /\ \A f : ~script_execute_file(f)
      /\ \A l : ~script_execute_line(l)
  BY DEF script_execute_file, script_execute_line, NextCommand, AtPrompt
<1>3. FileStep => call_return \/ Top.k \in {"scan", "file"}
  BY DEF FileStep, scan_line, ScanMore, scan_include, scan_include_return, scan_define, scan_end,
         file_return, Runs, Gets
<1>4. BlockStep => Top.k \in {"block", "if"}
  BY DEF BlockStep, block_end, block_skip, block_line, block_line_return, block_define, exec_if,
         exec_if_return, AtLine, Runs, Gets
<1>5. LoopStep => \/ loop_iterate \/ loop_finish \/ loop_body_return
                  \/ Top.k \in {"block", "switch"}
  BY DEF LoopStep, exec_loop, exec_switch, switch_arm, switch_skip, switch_arm_return, switch_end,
         AtLine, SwitchMore, Runs, Gets
<1>6. LineStep => Top.k = "line"
  BY DEF LineStep, line_simple, line_call, line_drop, line_inline_if, line_once, line_repeat,
         AtCmd, Runs
<1>7. call_return => Top.k = "call"
  BY DEF call_return, Gets
<1>8. loop_iterate \/ loop_finish \/ loop_body_return => Top.k = "loop"
  BY DEF loop_iterate, loop_finish, loop_body_return, Runs, Gets
<1>9. FileStep \/ BlockStep \/ LoopStep \/ LineStep
  BY <1>1, <1>2, Zenon DEF Next, Step
<1>. QED  BY <1>3, <1>4, <1>5, <1>6, <1>7, <1>8, <1>9

\* What a call saved by slot is what it restores, while a u8 tells the slots
\* apart.
LEMMA RestoredAll ==
  ASSUME NEW vs \in Table, Indexable(vs)
  PROVE  RestoredVars(vs) = vs
<1>. DEFINE back(t) == LET from == {i \in UsedSlots(vs) : SavedIndex(i) = t}
                       IN  IF from = {} THEN Unused ELSE vs[Max(from)]
<1>1. ASSUME NEW t \in Slots PROVE back(t) = vs[t]
  <2>1. \A i \in UsedSlots(vs) : SavedIndex(i) = i
    <3>. SUFFICES ASSUME NEW i \in UsedSlots(vs) PROVE SavedIndex(i) = i
      OBVIOUS
    <3>1. i \in Nat /\ i < INDEX_MOD /\ INDEX_MOD \in Nat \ {0}
      BY SlotsAre DEF UsedSlots, Indexable
    <3>2. i % INDEX_MOD = i
      BY <3>1
    <3>. QED  BY <3>2 DEF SavedIndex
  <2>2. CASE t \in UsedSlots(vs)
    <3>1. {i \in UsedSlots(vs) : SavedIndex(i) = t} = {t}
      BY <2>1, <2>2
    <3>2. Max({t}) = t
      <4>1. t \in Int /\ {t} \in SUBSET Int /\ \A x \in {t} : x <= t
        BY SlotsAre
      <4>. QED  BY <4>1, MaxIs
    <3>. QED  BY <3>1, <3>2
  <2>3. CASE t \notin UsedSlots(vs)
    <3>1. {i \in UsedSlots(vs) : SavedIndex(i) = t} = {}
      BY <2>1, <2>3
    <3>2. vs[t] = Unused
      BY <2>3 DEF UsedSlots
    <3>. QED  BY <3>1, <3>2
  <2>. QED  BY <2>2, <2>3
<1>2. RestoredVars(vs) = [t \in Slots |-> back(t)]
  BY Zenon DEF RestoredVars
<1>. HIDE DEF back
<1>3. vs = [t \in Slots |-> vs[t]]
  BY DEF Table
<1>. QED  BY <1>1, <1>2, <1>3

LEMMA CallRestores ==
  ASSUME RshInv, Next, Returning, Indexable(Top.before)
  PROVE  ctx'.vars = Top.before
<1>1. call_return /\ stack # << >> /\ Top.k = "call"
  BY WhoRuns DEF Returning
<1>2. /\ stack \in Seq(Frame) /\ Top \in CallFrames /\ stack[1] = Top
      /\ Called(stack, ctx) /\ ctx \in Context
  BY <1>1, Here, ByKind DEF RshInv, RshTables, Sound
<1>3. Top.before \in Table
  BY <1>2 DEF CallFrames
<1>4. ctx.call_stack[ctx.call_depth].saved = Top.before
  <2>1. /\ Len(stack) \in Kind(stack, "call") /\ Kind(stack, "call") \subseteq 1 .. Len(stack)
    BY <1>1, <1>2, KindTail
  <2>2. Kind(stack, "call") \cap 1 .. Len(stack) = Kind(stack, "call")
    BY <2>1
  <2>3. Level(stack, Len(stack)) = Top
    BY <1>1, <1>2, Popped
  <2>. QED  BY <1>2, <2>1, <2>2, <2>3, Zenon DEF Called
<1>5. ctx'.vars = RestoredVars(ctx.call_stack[ctx.call_depth].saved)
  <2>. DEFINE x1 == [ctx EXCEPT !.return_flag = FALSE]
              x2 == [x1 EXCEPT !.in_function = Top.prev]
              x3 == [x2 EXCEPT !.call_depth = ctx.call_depth - 1]
              vs == RestoredVars(ctx.call_stack[ctx.call_depth].saved)
              x4 == [x3 EXCEPT !.vars = vs]
  <2>1. ctx' = x4
    BY <1>1, Zenon DEF call_return
  <2>2. "vars" \in DOMAIN x3
    BY <1>2, Zenon DEF Context
  <2>. HIDE DEF x3, vs
  <2>3. x4.vars = vs
    BY <2>2
  <2>. QED  BY <2>1, <2>3 DEF vs
<1>. QED  BY <1>3, <1>4, <1>5, RestoredAll

LEMMA LoopTakesFlags ==
  ASSUME RshInv, Next, LoopEnds, ret # Fail
  PROVE  ~ctx'.break_flag /\ (ctx.return_flag \/ ~ctx'.continue_flag)
<1>1. /\ stack # << >> /\ Top.k = "loop" /\ Top.line.op \in {"while", "for"}
      /\ Len(stack') < Len(stack)
  BY DEF LoopEnds, ClearsFlags
<1>2. /\ stack \in Seq(Frame) /\ Rest \in Seq(Frame) /\ stack[1] = Top /\ Tail(stack) = Rest
      /\ Flags(stack, ret, ctx) /\ Looping(stack) /\ ctx \in Context
      /\ ret \in {NoRet, Ok, Fail} /\ IsTurn(Top) /\ ~IsRepeat(Top) /\ Top \in Frame
      /\ Len(stack) = Len(Rest) + 1 /\ Len(Rest) \in Nat
  <2>1. IsTurn(Top) /\ ~IsRepeat(Top)
    BY <1>1 DEF IsTurn, ClearsFlags, IsRepeat
  <2>2. Len(Rest) = Len(stack) - 1 /\ Len(stack) \in Nat \ {0}
    BY <1>1, Here, Popped
  <2>. QED  BY <1>1, <2>1, <2>2, Here DEF RshInv, RshTables
<1>3. ~loop_iterate
  <2>. SUFFICES ASSUME loop_iterate PROVE FALSE
    OBVIOUS
  <2>. DEFINE b == IF Top.line.op = "repeat" THEN LineFrame(Top.line.cmd)
                   ELSE Block(Top.s, Top.at + 1, Top.end - 1)
              f == [Top EXCEPT !.left = @ - 1]
  <2>1. stack' = <<b, f>> \o Rest
    BY DEF loop_iterate
  <2>. HIDE DEF b, f
  <2>2. Len(stack') = 2 + Len(Rest)
    BY <1>2, <2>1
  <2>. QED  BY <1>1, <1>2, <2>2
<1>4. CASE loop_finish
  <2>1. ret = NoRet /\ ctx' = ctx
    BY <1>1, <1>4 DEF loop_finish, Runs, LoopStops
  <2>. QED  BY <1>1, <1>2, <2>1 DEF Flags
<1>5. CASE loop_body_return
  <2>1. ret = Ok
    BY <1>2, <1>5 DEF loop_body_return, Gets
  <2>2. ~(ret' = NoRet /\ UNCHANGED stack)
    BY <1>1, <1>2
  <2>3. ~LoopGoesOn /\ ctx' = BreakTaken(ctx)
    BY <1>1, <1>5, <2>2 DEF loop_body_return, LoopStops
  <2>4. ctx' = [ctx EXCEPT !.break_flag = FALSE]
    BY <2>1, <2>3, Zenon DEF BreakTaken
  <2>5. ctx'.break_flag = FALSE /\ ctx'.continue_flag = ctx.continue_flag
    BY <1>2, <2>4, CtxBreak
  <2>6. ctx.break_flag \/ ctx.return_flag
    BY <2>1, <2>3 DEF LoopGoesOn
  <2>7. ctx.break_flag => ~ctx.continue_flag
    BY <1>1, <1>2 DEF Flags
  <2>8. ctx.break_flag \in BOOLEAN /\ ctx.continue_flag \in BOOLEAN /\ ctx.return_flag \in BOOLEAN
    BY <1>2, CtxFields
  <2>. QED  BY <2>5, <2>6, <2>7, <2>8
<1>. QED  BY <1>1, <1>3, <1>4, <1>5, WhoRuns

\* What ends leaves its surroundings as it found them: a call gives its
\* caller its variables back slot by slot, and a while or for whose body did
\* not fail no break, and no continue but under a return (call_function,
\* exec_while, exec_for), for every script.
THEOREM LeavingAlwaysRestores == Spec => LeavingRestores
<1>. DEFINE A == /\ Returning /\ Indexable(Top.before) => ctx'.vars = Top.before
                 /\ LoopEnds /\ ret # Fail =>
                      ~ctx'.break_flag /\ (ctx.return_flag \/ ~ctx'.continue_flag)
<1>1. RshInv /\ [Next]_vars => [A]_vars
  BY CallRestores, LoopTakesFlags, Zenon
<1>2. Spec => []RshInv
  BY RshInvariant
<1>3. Spec => [][Next]_vars
  BY PTL DEF Spec
<1>. QED  BY <1>1, <1>2, <1>3, PTL DEF LeavingRestores

=============================================================================
