------------------------------- MODULE Nesting --------------------------------
(***************************************************************************)
(* Which code runs inside which: the timer interrupt, the task bodies it   *)
(* dispatches, and the commands that turn interrupts back on: fetch        *)
(* (rust_lib/src/fetch/command.rs) and rChat (rust_lib/src/rchat.rs under  *)
(* src/commands/tui.c) while they wait for the network, png                *)
(* (rust_lib/src/png.rs) when it switches the video mode.                  *)
(*                                                                         *)
(* There is one stack.  Every frame of it is the body of a task, entered   *)
(* from handle_interrupt through rust_schedule with interrupts off; the    *)
(* halt loop of kernel_main is below the first.  Task selection is the     *)
(* subject of Scheduler; here any task but the current one may be chosen.  *)
(***************************************************************************)
EXTENDS Naturals, Sequences, FiniteSets

CONSTANTS
  Tasks,      \* the tasks of the scheduler
  Keyboard,   \* the one that runs keyboard_handler, and so every command
  DEPTH       \* bound: interrupts nest no deeper

ASSUME NestingAssumption ==
  /\ Keyboard \in Tasks
  /\ Tasks \ {Keyboard} # {}
  /\ DEPTH \in Nat \ {0}

VARIABLES
  stack,         \* the bodies entered and not left, outermost first
  IF_on,         \* the interrupt flag of the processor
  current,       \* CURRENT_TASK_ID
  BUSY,          \* a fetch is running
  NETWORK_BUSY,  \* an rChat request is running
  SILENT,        \* FETCH_NETWORK_SILENT
  holder         \* depth of the frame TCP_CONNECTION was last set up for, or 0

nestVars == <<stack, IF_on, current, BUSY, NETWORK_BUSY, SILENT, holder>>

Ops == {"body", "fetch", "window", "rchat", "image"}

\* A body: its task, the command it is in, the interrupt flag the network
\* guard and the window found, whether it believes to have a connection and
\* whether it has switched the video mode.
Frame == [task : Tasks, op : Ops, saved : BOOLEAN, outer : BOOLEAN,
          up : BOOLEAN, vga : BOOLEAN]

Entered(t) == [task |-> t, op |-> "body", saved |-> FALSE, outer |-> FALSE,
               up |-> FALSE, vga |-> FALSE]

Depth == Len(stack)
Top == stack[Depth]
InOp(op) == Depth > 0 /\ Top.op = op

NestInit ==
  /\ stack = <<>>
  /\ IF_on = TRUE
  /\ current \in Tasks \ {Keyboard}
  /\ BUSY = FALSE /\ NETWORK_BUSY = FALSE /\ SILENT = FALSE
  /\ holder = 0

-----------------------------------------------------------------------------
(* The timer interrupt and the return from it.                             *)

handle_interrupt_always(t) ==     \* Mutant: fetch is not asked about.
  /\ IF_on /\ Depth < DEPTH
  /\ t # current
  /\ stack' = Append(stack, Entered(t))
  /\ current' = t
  /\ IF_on' = FALSE
  /\ UNCHANGED <<BUSY, NETWORK_BUSY, SILENT, holder>>

\* IRQ 0 outside of a fetch: rust_schedule picks t and calls its body.
\* During a fetch only the tick counter moves.
handle_interrupt(t) ==
  /\ IF_on /\ Depth < DEPTH
  /\ ~BUSY
  /\ t # current
  /\ stack' = Append(stack, Entered(t))
  /\ current' = t
  /\ IF_on' = FALSE
  /\ UNCHANGED <<BUSY, NETWORK_BUSY, SILENT, holder>>

\* The body returns, and iret to the code that was interrupted.
body_returns ==
  /\ InOp("body")
  /\ stack' = SubSeq(stack, 1, Depth - 1)
  /\ IF_on' = TRUE
  /\ UNCHANGED <<current, BUSY, NETWORK_BUSY, SILENT, holder>>

-----------------------------------------------------------------------------
(* The connection: tcp_connect resets TCP_CONNECTION for its caller and    *)
(* tcp_close resets it for everybody.                                      *)

tcp_connect(op) ==
  /\ InOp(op) /\ ~Top.up
  /\ stack' = [stack EXCEPT ![Depth].up = TRUE]
  /\ holder' = Depth

tcp_close(op) ==
  /\ InOp(op) /\ Top.up
  /\ stack' = [stack EXCEPT ![Depth].up = FALSE]
  /\ holder' = 0

-----------------------------------------------------------------------------
(* rust_fetch, called from keyboard_handler.                               *)

fetch_enter ==
  /\ InOp("body") /\ Top.task = Keyboard
  /\ ~BUSY
  /\ BUSY' = TRUE
  /\ stack' = [stack EXCEPT ![Depth].op = "fetch", ![Depth].saved = IF_on]
  /\ IF_on' = TRUE
  /\ UNCHANGED <<current, NETWORK_BUSY, SILENT, holder>>

\* One turn of the redirect loop of execute.
fetch_connect ==
  /\ tcp_connect("fetch")
  /\ SILENT' = TRUE
  /\ UNCHANGED <<IF_on, current, BUSY, NETWORK_BUSY>>

fetch_disconnect ==
  /\ tcp_close("fetch")
  /\ UNCHANGED <<IF_on, current, BUSY, NETWORK_BUSY, SILENT>>

fetch_exit_open ==     \* Mutant: CommandGuard leaves interrupts on.
  /\ InOp("fetch") /\ ~Top.up
  /\ stack' = [stack EXCEPT ![Depth].op = "body"]
  /\ SILENT' = FALSE /\ BUSY' = FALSE
  /\ UNCHANGED <<IF_on, current, NETWORK_BUSY, holder>>

\* The drop of CommandGuard.
fetch_exit ==
  /\ InOp("fetch") /\ ~Top.up
  /\ IF_on' = (IF_on /\ Top.saved)
  /\ stack' = [stack EXCEPT ![Depth].op = "body"]
  /\ SILENT' = FALSE /\ BUSY' = FALSE
  /\ UNCHANGED <<current, NETWORK_BUSY, holder>>

-----------------------------------------------------------------------------
(* rchat: the modal window of tui and its requests.                        *)

tui_open ==
  /\ InOp("body") /\ Top.task = Keyboard
  /\ stack' = [stack EXCEPT ![Depth].op = "window", ![Depth].outer = IF_on]
  /\ IF_on' = FALSE
  /\ UNCHANGED <<current, BUSY, NETWORK_BUSY, SILENT, holder>>

tui_close ==
  /\ InOp("window")
  /\ IF_on' = (IF_on \/ Top.outer)
  /\ stack' = [stack EXCEPT ![Depth].op = "body"]
  /\ UNCHANGED <<current, BUSY, NETWORK_BUSY, SILENT, holder>>

NetworkFree_unchecked == TRUE     \* Mutant: a second request is let in.

\* The compare_exchange of NetworkGuard::enter succeeds.
NetworkFree == ~NETWORK_BUSY

rchat_enter ==
  /\ InOp("window")
  /\ NetworkFree
  /\ NETWORK_BUSY' = TRUE
  /\ stack' = [stack EXCEPT ![Depth].op = "rchat", ![Depth].saved = IF_on]
  /\ SILENT' = TRUE
  /\ IF_on' = TRUE
  /\ UNCHANGED <<current, BUSY, holder>>

rchat_connect ==
  /\ tcp_connect("rchat")
  /\ UNCHANGED <<IF_on, current, BUSY, NETWORK_BUSY, SILENT>>

rchat_disconnect ==
  /\ tcp_close("rchat")
  /\ UNCHANGED <<IF_on, current, BUSY, NETWORK_BUSY, SILENT>>

\* The drop of NetworkGuard.
rchat_exit ==
  /\ InOp("rchat") /\ ~Top.up
  /\ IF_on' = (IF_on /\ Top.saved)
  /\ stack' = [stack EXCEPT ![Depth].op = "window"]
  /\ SILENT' = FALSE /\ NETWORK_BUSY' = FALSE
  /\ UNCHANGED <<current, BUSY, holder>>

-----------------------------------------------------------------------------
(* png: both mode switches end with sti, whatever the flag was before.     *)

present ==
  /\ InOp("body") /\ Top.task = Keyboard
  /\ stack' = [stack EXCEPT ![Depth].op = "image", ![Depth].vga = TRUE]
  /\ IF_on' = TRUE
  /\ UNCHANGED <<current, BUSY, NETWORK_BUSY, SILENT, holder>>

present_ends ==
  /\ InOp("image")
  /\ stack' = [stack EXCEPT ![Depth].op = "body"]
  /\ IF_on' = TRUE
  /\ UNCHANGED <<current, BUSY, NETWORK_BUSY, SILENT, holder>>

-----------------------------------------------------------------------------
NestNext ==
  \/ \E t \in Tasks : handle_interrupt(t)
  \/ body_returns
  \/ fetch_enter \/ fetch_connect \/ fetch_disconnect \/ fetch_exit
  \/ tui_open \/ tui_close
  \/ rchat_enter \/ rchat_connect \/ rchat_disconnect \/ rchat_exit
  \/ present \/ present_ends

NestSpec == NestInit /\ [][NestNext]_nestVars

-----------------------------------------------------------------------------
\* The shape of the state; a connection exists only inside a network guard.
NestTypeOK ==
  /\ stack \in Seq(Frame) /\ Depth <= DEPTH
  /\ \A i \in 1 .. Depth : stack[i].up => stack[i].op \in {"fetch", "rchat"}
  /\ IF_on \in BOOLEAN /\ BUSY \in BOOLEAN /\ NETWORK_BUSY \in BOOLEAN /\ SILENT \in BOOLEAN
  /\ current \in Tasks
  /\ holder \in 0 .. DEPTH

FramesIn(op) == {i \in 1 .. Depth : stack[i].op = op}

\* A fetch waits with interrupts on and nothing is dispatched on top of it,
\* so while its connection is up TCP_CONNECTION is its own
\* (src/scheduler/task.c, handle_interrupt).
FetchKeepsConnection ==
  \A i \in FramesIn("fetch") : i = Depth /\ (stack[i].up => holder = i)

\* The network guards leak no interrupts: outside of the halt loop and of a
\* network wait they are on only in a body that has switched the video mode,
\* whatever is nested in what and in whichever order the guards are left.
InterruptsOnlyInWaits ==
  IF_on => (Depth = 0 \/ Top.op \in {"fetch", "rchat"} \/ Top.vga)

\* Each busy flag is up exactly while one frame is inside its guard: it is
\* not left up by an exit and not shared by two entries, however the
\* commands nest; and the guards leak no interrupts.
GuardsMatchFrames ==
  /\ Cardinality(FramesIn("fetch")) = (IF BUSY THEN 1 ELSE 0)
  /\ Cardinality(FramesIn("rchat")) = (IF NETWORK_BUSY THEN 1 ELSE 0)
  /\ InterruptsOnlyInWaits

\* While the rChat window is open no other task runs: it owns the screen
\* (the comment in tui of src/commands/tui.c).
WindowOwnsScreen ==
  \A i \in FramesIn("window") \cup FramesIn("rchat") : i = Depth

\* A task runs until it returns: its body is not entered again before
\* (phase 7 of the scheduler handbook in rust_lib/src/lib.rs).
BodiesNotReentered ==
  \A i, j \in 1 .. Depth : stack[i].task = stack[j].task => i = j
===============================================================================
