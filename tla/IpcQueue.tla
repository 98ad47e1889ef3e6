------------------------------ MODULE IpcQueue ------------------------------
(***************************************************************************)
(* The IPC message queue of the Rust kernel (rust_lib/src/lib.rs): one     *)
(* array of MAX_IPC_MSGS slots shared by all tasks, a write index IPC_TAIL *)
(* and a counter IPC_COUNT.  Posting writes at IPC_TAIL; receiving scans   *)
(* the array from index 0 for an unconsumed message.  A task body runs to  *)
(* completion inside the timer interrupt, so each call is one step.        *)
(*                                                                         *)
(* Of a message only the recipient and an identity matter here.  The       *)
(* identity, the ordinal of the accepted post, stands for sender, type,    *)
(* payload and tick.                                                       *)
(***************************************************************************)
EXTENDS Integers, FiniteSets

CONSTANTS
  MAX_IPC_MSGS,   \* number of slots, 32 in the code
  Receivers,      \* the recv_pid values that posts are addressed to
  MaxPosts,       \* bound: accepted posts
  MaxOverflows    \* bound: refused posts

SystemBus == 0    \* recv_pid 0, the address every in-tree task posts to

ASSUME IpcAssumption ==
  /\ MAX_IPC_MSGS \in Nat \ {0}
  /\ SystemBus \in Receivers
  /\ MaxPosts \in Nat
  /\ MaxOverflows \in Nat

VARIABLES
  IPC_QUEUE,      \* the slots
  IPC_TAIL,       \* next slot to write
  IPC_COUNT,      \* the code's idea of how many messages are waiting
  IPC_OVERFLOWS,  \* refused posts
  posts           \* accepted posts so far (numbers the messages)

ipcVars == <<IPC_QUEUE, IPC_TAIL, IPC_COUNT, IPC_OVERFLOWS, posts>>

Slots == 0 .. MAX_IPC_MSGS - 1

\* IpcMsg, reduced to the fields the queue itself looks at.
IpcMsg == [recv_pid : Receivers, msg : Nat, consumed : BOOLEAN]

IpcMsg_new == [recv_pid |-> SystemBus, msg |-> 0, consumed |-> TRUE]

\* The slots that hold a message for r that ipc_recv(r) would find.
Pending(r) == {i \in Slots : ~IPC_QUEUE[i].consumed /\ IPC_QUEUE[i].recv_pid = r}

Unconsumed == {i \in Slots : ~IPC_QUEUE[i].consumed}

IpcInit ==
  /\ IPC_QUEUE = [i \in Slots |-> IpcMsg_new]
  /\ IPC_TAIL = 0
  /\ IPC_COUNT = 0
  /\ IPC_OVERFLOWS = 0
  /\ posts = 0

\* Mutant: an off-by-one in the fullness test refuses the last free slot.
ipc_post_full_early(r) ==
  /\ IPC_COUNT >= MAX_IPC_MSGS - 1
  /\ IPC_OVERFLOWS < MaxOverflows
  /\ IPC_OVERFLOWS' = IPC_OVERFLOWS + 1
  /\ UNCHANGED <<IPC_QUEUE, IPC_TAIL, IPC_COUNT, posts>>

\* ipc_post returning false: the early return when the counter says full.
ipc_post_full(r) ==
  /\ IPC_COUNT >= MAX_IPC_MSGS
  /\ IPC_OVERFLOWS < MaxOverflows
  /\ IPC_OVERFLOWS' = IPC_OVERFLOWS + 1
  /\ UNCHANGED <<IPC_QUEUE, IPC_TAIL, IPC_COUNT, posts>>

\* Mutant: the write index is advanced without the wrap.
ipc_post_ok_no_wrap(r) ==
  /\ IPC_COUNT < MAX_IPC_MSGS
  /\ posts < MaxPosts
  /\ IPC_QUEUE' = [IPC_QUEUE EXCEPT ![IPC_TAIL] =
                     [recv_pid |-> r, msg |-> posts, consumed |-> FALSE]]
  /\ IPC_TAIL' = IPC_TAIL + 1
  /\ IPC_COUNT' = IPC_COUNT + 1
  /\ posts' = posts + 1
  /\ UNCHANGED IPC_OVERFLOWS

\* ipc_post returning true: write the slot at IPC_TAIL, whatever it holds.
ipc_post_ok(r) ==
  /\ IPC_COUNT < MAX_IPC_MSGS
  /\ posts < MaxPosts
  /\ IPC_QUEUE' = [IPC_QUEUE EXCEPT ![IPC_TAIL] =
                     [recv_pid |-> r, msg |-> posts, consumed |-> FALSE]]
  /\ IPC_TAIL' = (IPC_TAIL + 1) % MAX_IPC_MSGS
  /\ IPC_COUNT' = IPC_COUNT + 1
  /\ posts' = posts + 1
  /\ UNCHANGED IPC_OVERFLOWS

ipc_post(r) == ipc_post_full(r) \/ ipc_post_ok(r)

\* ipc_recv returning true: take the lowest-indexed message for r.
ipc_recv(r) ==
  \E i \in Pending(r) :
    /\ \A j \in Pending(r) : i <= j
    /\ IPC_QUEUE' = [IPC_QUEUE EXCEPT ![i].consumed = TRUE]
    /\ IPC_COUNT' = IF IPC_COUNT > 0 THEN IPC_COUNT - 1 ELSE IPC_COUNT
    /\ UNCHANGED <<IPC_TAIL, IPC_OVERFLOWS, posts>>

\* Mutant: the monitor receives once per dispatch (if for while).
ipc_monitor_task_once == ipc_recv(SystemBus)

\* ipc_monitor_task: call ipc_recv(0) until it returns false.
ipc_monitor_task ==
  LET n == Cardinality(Pending(SystemBus)) IN
  /\ IPC_QUEUE' = [i \in Slots |-> IF i \in Pending(SystemBus)
                                   THEN [IPC_QUEUE[i] EXCEPT !.consumed = TRUE]
                                   ELSE IPC_QUEUE[i]]
  /\ IPC_COUNT' = IF IPC_COUNT > n THEN IPC_COUNT - n ELSE 0
  /\ UNCHANGED <<IPC_TAIL, IPC_OVERFLOWS, posts>>

(***************************************************************************)
(* The calls the kernel's own tasks make: io_stress_task, reaper_task and  *)
(* affinity_task post to the system bus, ipc_monitor_task empties it.      *)
(***************************************************************************)
BusNext == ipc_post(SystemBus) \/ ipc_monitor_task

BusSpec == IpcInit /\ [][BusNext]_ipcVars

(***************************************************************************)
(* The calls the operations handbook (watchdog_diagram, section 3) offers  *)
(* to any task: post to any pid, and receive one message at a time.        *)
(***************************************************************************)
ApiNext ==
  \/ \E r \in Receivers : ipc_post(r) \/ ipc_recv(r)
  \/ ipc_monitor_task

ApiSpec == IpcInit /\ [][ApiNext]_ipcVars
-----------------------------------------------------------------------------
(* Type invariant: every index and counter of the queue stays in range,    *)
(* so the array accesses IPC_QUEUE[IPC_TAIL] of ipc_post cannot panic.     *)
IpcTypeOK ==
  /\ IPC_QUEUE \in [Slots -> IpcMsg]
  /\ IPC_TAIL \in Slots
  /\ IPC_COUNT \in 0 .. MAX_IPC_MSGS
  /\ IPC_OVERFLOWS \in Nat
  /\ posts \in Nat

(* IPC_COUNT never reports fewer messages than are waiting, whatever tasks *)
(* post and receive: the guard IPC_COUNT > 0 in ipc_recv is never what     *)
(* keeps the counter from wrapping, and a queue with an empty counter is   *)
(* empty.                                                                  *)
CountCoversUnconsumed == Cardinality(Unconsumed) <= IPC_COUNT

(* Under the in-tree calls the messages that wait fill exactly the         *)
(* IPC_COUNT slots behind IPC_TAIL, so ipc_post never overwrites one.      *)
Behind(i) == IF i < IPC_TAIL THEN IPC_TAIL - i ELSE IPC_TAIL + MAX_IPC_MSGS - i

WaitingFillWindow == \A i \in Slots : i \in Unconsumed <=> Behind(i) <= IPC_COUNT

(* Under the in-tree calls the queue implements a bounded mailbox: a post  *)
(* is refused only when MAX_IPC_MSGS messages really wait, an accepted     *)
(* message waits until the monitor takes it, and nothing is lost.          *)
Waiting == {IPC_QUEUE[i].msg : i \in Unconsumed}

Box == INSTANCE Mailbox WITH
         Capacity <- MAX_IPC_MSGS,
         waiting  <- Waiting,
         accepted <- posts,
         refused  <- IPC_OVERFLOWS

MailboxSpec == Box!MailSpec

(* An accepted post leaves every message that was waiting in the queue     *)
(* (ipc_post is documented to refuse when the queue is full, not to drop   *)
(* a message).                                                             *)
PostKeepsWaiting == [][posts' > posts => Waiting \subseteq Waiting']_ipcVars

(* The queue is documented as a FIFO: of two messages waiting for the      *)
(* system bus, the monitor's scan takes the older one first.               *)
DrainOldestFirst ==
  \A i, j \in Pending(SystemBus) : i < j => IPC_QUEUE[i].msg < IPC_QUEUE[j].msg
=============================================================================
