---------------------------- MODULE KernelProofs ----------------------------
(***************************************************************************)
(* The theorems of three kernel components that share no state: the IPC    *)
(* message queue of IpcQueue, for every queue length, every set of         *)
(* recipients and every number of posts; the interrupt nesting of Nesting, *)
(* for every set of tasks and every nesting depth; and the heap of Heap,   *)
(* for every pool, header, alignment, set of clients and set of sizes.     *)
(***************************************************************************)
EXTENDS IpcQueue, Nesting, Heap, FiniteSetTheorems, SequenceTheorems,
        WellFoundedInduction, TLAPS

-----------------------------------------------------------------------------
(* The message queue.                                                      *)

(* The write index of ipc_post, (IPC_TAIL + 1) % MAX_IPC_MSGS, either steps *)
(* to the next slot or wraps to slot 0.                                     *)
LEMMA NextTail ==
  ASSUME NEW m \in Nat \ {0}, NEW t \in 0 .. m - 1
  PROVE  (t + 1) % m = IF t + 1 = m THEN 0 ELSE t + 1
<1>1. CASE t + 1 = m
  BY <1>1
<1>2. CASE t + 1 # m
  <2>1. t + 1 \in 0 .. m - 1
    BY <1>2
  <2> QED  BY <2>1, <1>2
<1> QED  BY <1>1, <1>2

(* Every set of slots of the message array is finite. *)
LEMMA SlotsFinite ==
  /\ IsFiniteSet(Slots)
  /\ \A S \in SUBSET Slots : IsFiniteSet(S) /\ Cardinality(S) \in Nat
<1>1. IsFiniteSet(Slots)
  BY IpcAssumption, FS_Interval DEF Slots
<1>2. ASSUME NEW S \in SUBSET Slots
      PROVE  IsFiniteSet(S) /\ Cardinality(S) \in Nat
  BY <1>1, <1>2, FS_Subset, FS_CardinalityType
<1> QED  BY <1>1, <1>2

(* Adding one slot to a finite set of slots adds at most one to its size. *)
LEMMA AddBound ==
  ASSUME NEW S, NEW x, IsFiniteSet(S), Cardinality(S) \in Nat
  PROVE  /\ Cardinality(S \union {x}) <= Cardinality(S) + 1
         /\ x \notin S => Cardinality(S \union {x}) = Cardinality(S) + 1
<1>1. Cardinality(S \union {x}) = IF x \in S THEN Cardinality(S) ELSE Cardinality(S) + 1
  BY FS_AddElement, Zenon
<1> QED  BY <1>1

(* The effect of each call on the set of slots that hold a message. *)
LEMMA PostSlots ==
  ASSUME IpcTypeOK, NEW r, ipc_post_ok(r)
  PROVE  Unconsumed' = Unconsumed \union {IPC_TAIL}
BY DEF IpcTypeOK, IpcMsg, ipc_post_ok, Unconsumed

LEMMA MonitorSlots ==
  ASSUME IpcTypeOK, ipc_monitor_task
  PROVE  Unconsumed' = Unconsumed \ Pending(SystemBus)
BY DEF IpcTypeOK, IpcMsg, ipc_monitor_task, Unconsumed, Pending

(***************************************************************************)
(* Arbitrary posts and receives.                                           *)
(***************************************************************************)
ApiInv == IpcTypeOK /\ CountCoversUnconsumed

LEMMA ApiInvInit == IpcInit => ApiInv
<1> SUFFICES ASSUME IpcInit PROVE ApiInv
  OBVIOUS
<1>1. IpcTypeOK
  BY IpcAssumption DEF IpcInit, IpcTypeOK, IpcMsg, IpcMsg_new, Slots
<1>2. Unconsumed = {}
  BY DEF IpcInit, Unconsumed, IpcMsg_new
<1>3. CountCoversUnconsumed
  BY <1>2, FS_EmptySet DEF CountCoversUnconsumed, IpcInit
<1> QED  BY <1>1, <1>3 DEF ApiInv

LEMMA ApiInvNext == ApiInv /\ [ApiNext]_ipcVars => ApiInv'
<1> SUFFICES ASSUME ApiInv, [ApiNext]_ipcVars PROVE ApiInv'
  OBVIOUS
<1> USE IpcAssumption
<1>0. IpcTypeOK /\ CountCoversUnconsumed
  BY DEF ApiInv
<1>c. /\ Unconsumed \in SUBSET Slots
      /\ IsFiniteSet(Unconsumed)
      /\ Cardinality(Unconsumed) \in Nat
  <2>1. Unconsumed \in SUBSET Slots
    BY DEF Unconsumed
  <2> QED  BY <2>1, SlotsFinite
<1>1. ASSUME NEW r \in Receivers, ipc_post_full(r)
      PROVE  ApiInv'
  BY <1>0, <1>1 DEF ApiInv, IpcTypeOK, CountCoversUnconsumed, Unconsumed, ipc_post_full
<1>2. ASSUME NEW r \in Receivers, ipc_post_ok(r)
      PROVE  ApiInv'
  <2>1. IPC_TAIL' \in Slots
    BY <1>0, <1>2, NextTail DEF ipc_post_ok, IpcTypeOK, Slots
  <2>2. IpcTypeOK'
    BY <1>0, <1>2, <2>1 DEF ipc_post_ok, IpcTypeOK, IpcMsg
  <2>3. Cardinality(Unconsumed') <= Cardinality(Unconsumed) + 1
    <3>1. Unconsumed' = Unconsumed \union {IPC_TAIL}
      BY <1>0, <1>2, PostSlots
    <3>2. Cardinality(Unconsumed \union {IPC_TAIL}) <= Cardinality(Unconsumed) + 1
      BY <1>c, AddBound
    <3> QED  BY <3>1, <3>2, Zenon
  <2>4. Cardinality(Unconsumed') \in Nat
    <3>1. Unconsumed' \in SUBSET Slots
      BY DEF Unconsumed, Slots
    <3> QED  BY <3>1, SlotsFinite
  <2>5. CountCoversUnconsumed'
    BY <1>0, <1>2, <1>c, <2>3, <2>4 DEF CountCoversUnconsumed, ipc_post_ok, IpcTypeOK
  <2> QED  BY <2>2, <2>5 DEF ApiInv
<1>3. ASSUME NEW r \in Receivers, ipc_recv(r)
      PROVE  ApiInv'
  <2>1. PICK i \in Pending(r) :
          /\ IPC_QUEUE' = [IPC_QUEUE EXCEPT ![i].consumed = TRUE]
          /\ IPC_COUNT' = IF IPC_COUNT > 0 THEN IPC_COUNT - 1 ELSE IPC_COUNT
          /\ UNCHANGED <<IPC_TAIL, IPC_OVERFLOWS, posts>>
    BY <1>3 DEF ipc_recv
  <2>2. i \in Unconsumed
    BY <2>1 DEF Pending, Unconsumed
  <2>3. IpcTypeOK'
    <3>1. i \in Slots /\ IPC_QUEUE[i] \in IpcMsg
      BY <1>0, <2>2 DEF IpcTypeOK, Unconsumed
    <3>2. [IPC_QUEUE[i] EXCEPT !.consumed = TRUE] \in IpcMsg
      BY <3>1 DEF IpcMsg
    <3>3. IPC_QUEUE' \in [Slots -> IpcMsg]
      BY <1>0, <2>1, <3>1, <3>2 DEF IpcTypeOK
    <3>4. IPC_COUNT' \in 0 .. MAX_IPC_MSGS
      BY <1>0, <2>1 DEF IpcTypeOK
    <3> QED  BY <1>0, <2>1, <3>3, <3>4 DEF IpcTypeOK
  <2>4. Unconsumed' = Unconsumed \ {i}
    BY <1>0, <2>1, <2>2 DEF IpcTypeOK, IpcMsg, Unconsumed
  <2>5. Cardinality(Unconsumed') = Cardinality(Unconsumed) - 1
    BY <1>c, <2>2, <2>4, FS_RemoveElement
  <2>6. CountCoversUnconsumed'
    BY <1>0, <1>c, <2>1, <2>5 DEF CountCoversUnconsumed, IpcTypeOK
  <2> QED  BY <2>3, <2>6 DEF ApiInv
<1>4. CASE ipc_monitor_task
  <2> DEFINE taken == Pending(SystemBus)
             left  == Unconsumed \ taken
  <2>1. /\ taken \in SUBSET Slots /\ left \in SUBSET Slots
        /\ left \union taken = Unconsumed
        /\ left \cap taken = {}
    BY DEF Pending, Unconsumed
  <2>2. /\ IsFiniteSet(taken) /\ Cardinality(taken) \in Nat
        /\ IsFiniteSet(left) /\ Cardinality(left) \in Nat
    BY <2>1, SlotsFinite
  <2>3. Cardinality(Unconsumed) = Cardinality(left) + Cardinality(taken)
    <3> HIDE DEF left, taken
    <3>1. Cardinality(left \union taken)
            = Cardinality(left) + Cardinality(taken) - Cardinality(left \cap taken)
      BY <2>2, FS_Union
    <3>2. Cardinality(left \cap taken) = 0
      BY <2>1, FS_EmptySet, Zenon
    <3>3. Cardinality(left \union taken) = Cardinality(left) + Cardinality(taken)
      BY <2>2, <3>1, <3>2
    <3> QED  BY <3>3, <2>1, Zenon
  <2>4. Unconsumed' = left
    BY <1>0, <1>4, MonitorSlots
  <2>5. IPC_COUNT' = IF IPC_COUNT > Cardinality(taken)
                     THEN IPC_COUNT - Cardinality(taken) ELSE 0
    BY <1>4 DEF ipc_monitor_task
  <2>6. IPC_QUEUE' \in [Slots -> IpcMsg]
    BY <1>0, <1>4 DEF ipc_monitor_task, IpcTypeOK, IpcMsg
  <2>7. UNCHANGED <<IPC_TAIL, IPC_OVERFLOWS, posts>>
    BY <1>4 DEF ipc_monitor_task
  <2> HIDE DEF left, taken
  <2>8. IpcTypeOK'
    BY <1>0, <2>2, <2>5, <2>6, <2>7 DEF IpcTypeOK
  <2>9. CountCoversUnconsumed'
    BY <1>0, <2>2, <2>3, <2>4, <2>5 DEF CountCoversUnconsumed, IpcTypeOK
  <2> QED  BY <2>8, <2>9 DEF ApiInv
<1>5. CASE UNCHANGED ipcVars
  BY <1>0, <1>5 DEF ApiInv, IpcTypeOK, CountCoversUnconsumed, Unconsumed, ipcVars
<1> QED  BY <1>1, <1>2, <1>3, <1>4, <1>5 DEF ApiNext, ipc_post

(* Type correctness of one step, used again for the in-tree calls. *)
LEMMA BusStepIsApiStep == [BusNext]_ipcVars => [ApiNext]_ipcVars
BY IpcAssumption DEF BusNext, ApiNext

(* Whatever tasks post and receive, the indices and counters of the queue  *)
(* stay in range.                                                          *)
THEOREM ApiTypeCorrect == ApiSpec => []IpcTypeOK
<1>1. ApiInv => IpcTypeOK
  BY DEF ApiInv
<1> QED  BY <1>1, ApiInvInit, ApiInvNext, PTL DEF ApiSpec

(* Whatever tasks post and receive, IPC_COUNT is never below the number of *)
(* messages ipc_recv could still return.                                   *)
THEOREM ApiCountCovers == ApiSpec => []CountCoversUnconsumed
<1>1. ApiInv => CountCoversUnconsumed
  BY DEF ApiInv
<1> QED  BY <1>1, ApiInvInit, ApiInvNext, PTL DEF ApiSpec

(***************************************************************************)
(* The in-tree calls.  The inductive invariant adds to the window that     *)
(* every message is for the system bus, that the counter is exact, and     *)
(* that waiting messages carry numbers below posts, so a new message is    *)
(* new to the mailbox.                                                     *)
(***************************************************************************)
BusInv ==
  /\ ApiInv
  /\ \A i \in Slots : IPC_QUEUE[i].recv_pid = SystemBus
  /\ WaitingFillWindow
  /\ Cardinality(Unconsumed) = IPC_COUNT
  /\ \A i \in Unconsumed : IPC_QUEUE[i].msg < posts
  /\ IsFiniteSet(Waiting)
  /\ Cardinality(Waiting) = IPC_COUNT

LEMMA BusInvInit == IpcInit => BusInv
<1> SUFFICES ASSUME IpcInit PROVE BusInv
  OBVIOUS
<1> USE IpcAssumption
<1>1. ApiInv
  BY ApiInvInit
<1>2. Unconsumed = {} /\ Waiting = {}
  BY DEF IpcInit, Unconsumed, Waiting, IpcMsg_new
<1>3. \A i \in Slots : IPC_QUEUE[i].recv_pid = SystemBus
  BY DEF IpcInit, IpcMsg_new
<1>4. WaitingFillWindow
  <2>1. \A i \in Slots : ~(Behind(i) <= IPC_COUNT)
    BY DEF IpcInit, Behind, Slots
  <2> QED  BY <1>2, <2>1 DEF WaitingFillWindow
<1>5. /\ Cardinality(Unconsumed) = IPC_COUNT
      /\ IsFiniteSet(Waiting)
      /\ Cardinality(Waiting) = IPC_COUNT
  BY <1>2, FS_EmptySet, Zenon DEF IpcInit
<1> QED  BY <1>1, <1>2, <1>3, <1>4, <1>5 DEF BusInv

(* What an accepted post does to the queue: the slot it writes is free,    *)
(* and its message is new.                                                 *)
LEMMA PostEffect ==
  ASSUME BusInv, ipc_post_ok(SystemBus)
  PROVE  /\ IPC_TAIL \in Slots \ Unconsumed
         /\ Unconsumed' = Unconsumed \union {IPC_TAIL}
         /\ posts \notin Waiting
         /\ Waiting' = Waiting \union {posts}
<1> USE IpcAssumption
<1>0. IpcTypeOK
  BY DEF BusInv, ApiInv
<1>1. IPC_TAIL \in Slots
  BY <1>0 DEF IpcTypeOK
<1>2. IPC_TAIL \notin Unconsumed
  <2>1. Behind(IPC_TAIL) = MAX_IPC_MSGS
    BY <1>1 DEF Behind, Slots
  <2>2. ~(Behind(IPC_TAIL) <= IPC_COUNT)
    BY <1>0, <2>1 DEF ipc_post_ok, IpcTypeOK
  <2> QED  BY <1>1, <2>2 DEF BusInv, WaitingFillWindow
<1>3. Unconsumed' = Unconsumed \union {IPC_TAIL}
  BY <1>0, PostSlots
<1>4. posts \notin Waiting
  <2>1. posts \in Nat
    BY <1>0 DEF IpcTypeOK
  <2>2. \A i \in Unconsumed : IPC_QUEUE[i].msg \in Nat /\ IPC_QUEUE[i].msg < posts
    BY <1>0 DEF BusInv, IpcTypeOK, IpcMsg, Unconsumed
  <2> QED  BY <2>1, <2>2 DEF Waiting
<1>5. Waiting' = Waiting \union {posts}
  <2>1. \A i \in Unconsumed : IPC_QUEUE'[i] = IPC_QUEUE[i]
    BY <1>0, <1>2 DEF ipc_post_ok, IpcTypeOK, Unconsumed
  <2>2. IPC_QUEUE'[IPC_TAIL].msg = posts
    BY <1>0, <1>1 DEF ipc_post_ok, IpcTypeOK
  <2>3. Waiting' = {IPC_QUEUE'[i].msg : i \in Unconsumed'}
    BY DEF Waiting
  <2> QED  BY <1>3, <2>1, <2>2, <2>3 DEF Waiting
<1> QED  BY <1>1, <1>2, <1>3, <1>4, <1>5

(* What the monitor does to the queue: nothing is left waiting. *)
LEMMA MonitorEffect ==
  ASSUME BusInv, ipc_monitor_task
  PROVE  Unconsumed' = {} /\ Waiting' = {} /\ IPC_COUNT' = 0
<1>0. IpcTypeOK
  BY DEF BusInv, ApiInv
<1>1. Pending(SystemBus) = Unconsumed
  BY DEF BusInv, Pending, Unconsumed
<1>2. Unconsumed' = {}
  BY <1>0, <1>1, MonitorSlots
<1>3. Waiting' = {}
  BY <1>2 DEF Waiting
<1>4. Cardinality(Pending(SystemBus)) = IPC_COUNT
  BY <1>1, Zenon DEF BusInv
<1>5. IPC_COUNT' = 0
  BY <1>0, <1>4 DEF ipc_monitor_task, IpcTypeOK
<1> QED  BY <1>2, <1>3, <1>5

LEMMA BusInvNext == BusInv /\ [BusNext]_ipcVars => BusInv'
<1> SUFFICES ASSUME BusInv, [BusNext]_ipcVars PROVE BusInv'
  OBVIOUS
<1> USE IpcAssumption
<1>0. IpcTypeOK
  BY DEF BusInv, ApiInv
<1>a. ApiInv'
  BY BusStepIsApiStep, ApiInvNext DEF BusInv
<1>1. CASE ipc_post_full(SystemBus)
  <2>1. UNCHANGED <<IPC_QUEUE, IPC_TAIL, IPC_COUNT, posts>>
    BY <1>1 DEF ipc_post_full
  <2> QED  BY <1>a, <2>1 DEF BusInv, WaitingFillWindow, Behind, Unconsumed, Waiting
<1>2. CASE ipc_post_ok(SystemBus)
  <2>1. /\ IPC_TAIL \in Slots \ Unconsumed
        /\ Unconsumed' = Unconsumed \union {IPC_TAIL}
        /\ posts \notin Waiting
        /\ Waiting' = Waiting \union {posts}
    BY <1>2, PostEffect
  <2>2. IPC_COUNT \in Nat /\ IPC_COUNT' = IPC_COUNT + 1 /\ posts' = posts + 1
    BY <1>0, <1>2 DEF ipc_post_ok, IpcTypeOK
  <2>3. \A i \in Slots : IPC_QUEUE'[i].recv_pid = SystemBus
    BY <1>0, <1>2 DEF BusInv, ipc_post_ok, IpcTypeOK
  <2>4. WaitingFillWindow'
    <3> SUFFICES ASSUME NEW i \in Slots
                 PROVE  i \in Unconsumed' <=> Behind(i)' <= IPC_COUNT'
      BY DEF WaitingFillWindow
    <3>1. IPC_TAIL' = IF IPC_TAIL + 1 = MAX_IPC_MSGS THEN 0 ELSE IPC_TAIL + 1
      BY <1>2, <2>1, NextTail DEF ipc_post_ok, Slots
    <3>2. CASE i = IPC_TAIL
      <4>1. Behind(i)' = 1
        BY <2>1, <3>1, <3>2 DEF Behind, Slots
      <4> QED  BY <2>1, <2>2, <3>2, <4>1
    <3>3. CASE i # IPC_TAIL
      <4>1. Behind(i) \in Int /\ Behind(i)' = Behind(i) + 1
        BY <2>1, <3>1, <3>3 DEF Behind, Slots
      <4>2. i \in Unconsumed <=> Behind(i) <= IPC_COUNT
        BY DEF BusInv, WaitingFillWindow
      <4> QED  BY <2>1, <2>2, <3>3, <4>1, <4>2
    <3> QED  BY <3>2, <3>3
  <2>5. Cardinality(Unconsumed') = IPC_COUNT'
    <3>1. Unconsumed \in SUBSET Slots
      BY DEF Unconsumed
    <3>2. IsFiniteSet(Unconsumed) /\ Cardinality(Unconsumed) = IPC_COUNT
      BY <3>1, SlotsFinite DEF BusInv
    <3>3. Cardinality(Unconsumed \union {IPC_TAIL}) = IPC_COUNT + 1
      BY <2>1, <2>2, <3>2, AddBound
    <3> QED  BY <2>1, <2>2, <3>3, Zenon
  <2>6. \A i \in Unconsumed' : IPC_QUEUE'[i].msg < posts'
    BY <1>0, <1>2, <2>1, <2>2 DEF BusInv, ipc_post_ok, IpcTypeOK, IpcMsg, Unconsumed
  <2>7. IsFiniteSet(Waiting)
    BY DEF BusInv
  <2>8. Cardinality(Waiting) = IPC_COUNT
    BY DEF BusInv
  <2>9. IsFiniteSet(Waiting \union {posts})
    BY <2>7, FS_AddElement, Zenon
  <2>10. Cardinality(Waiting \union {posts}) = IPC_COUNT + 1
    BY <2>1, <2>2, <2>7, <2>8, AddBound
  <2>11. IsFiniteSet(Waiting') /\ Cardinality(Waiting') = IPC_COUNT'
    BY <2>1, <2>2, <2>9, <2>10, Zenon
  <2> QED  BY <1>a, <2>3, <2>4, <2>5, <2>6, <2>11 DEF BusInv
<1>3. CASE ipc_monitor_task
  <2>1. Unconsumed' = {} /\ Waiting' = {} /\ IPC_COUNT' = 0
    BY <1>3, MonitorEffect
  <2>2. \A i \in Slots : IPC_QUEUE'[i].recv_pid = SystemBus
    <3> SUFFICES ASSUME NEW i \in Slots
                 PROVE  IPC_QUEUE'[i].recv_pid = SystemBus
      OBVIOUS
    <3>1. IPC_QUEUE[i] \in IpcMsg /\ IPC_QUEUE[i].recv_pid = SystemBus
      BY <1>0 DEF BusInv, IpcTypeOK
    <3>2. [IPC_QUEUE[i] EXCEPT !.consumed = TRUE].recv_pid = SystemBus
      BY <3>1 DEF IpcMsg
    <3> QED  BY <1>3, <3>1, <3>2 DEF ipc_monitor_task
  <2>3. WaitingFillWindow'
    <3> SUFFICES ASSUME NEW i \in Slots
                 PROVE  i \in Unconsumed' <=> Behind(i)' <= IPC_COUNT'
      BY DEF WaitingFillWindow
    <3>1. IPC_TAIL' = IPC_TAIL /\ IPC_TAIL \in Slots
      BY <1>0, <1>3 DEF ipc_monitor_task, IpcTypeOK
    <3>2. Behind(i)' = Behind(i) /\ Behind(i) > 0 /\ Behind(i) \in Int
      BY <3>1 DEF Behind, Slots
    <3> QED  BY <2>1, <3>2
  <2>4. /\ Cardinality(Unconsumed') = IPC_COUNT'
        /\ IsFiniteSet(Waiting')
        /\ Cardinality(Waiting') = IPC_COUNT'
    BY <2>1, FS_EmptySet, Zenon
  <2> QED  BY <1>a, <2>1, <2>2, <2>3, <2>4 DEF BusInv
<1>4. CASE UNCHANGED ipcVars
  BY <1>a, <1>4 DEF BusInv, WaitingFillWindow, Behind, Unconsumed, Waiting, ipcVars
<1> QED  BY <1>1, <1>2, <1>3, <1>4 DEF BusNext, ipc_post

(* Under the calls the kernel's tasks make, the waiting messages are       *)
(* exactly the IPC_COUNT slots behind IPC_TAIL: ipc_post overwrites none.  *)
THEOREM BusWindow == BusSpec => []WaitingFillWindow
<1>1. BusInv => WaitingFillWindow
  BY DEF BusInv
<1> QED  BY <1>1, BusInvInit, BusInvNext, PTL DEF BusSpec

(* Under the calls the kernel's tasks make, ipc_post, ipc_recv and the     *)
(* monitor's drain implement the bounded mailbox.                          *)
THEOREM BusImplementsMailbox == BusSpec => MailboxSpec
<1>0. Box!Cardinality(Waiting) = Cardinality(Waiting)
  BY Zenon DEF Box!Cardinality, Cardinality
<1>1. IpcInit => Box!MailInit
  BY DEF IpcInit, IpcMsg_new, Box!MailInit, Waiting, Unconsumed
<1>2. BusInv /\ [BusNext]_ipcVars => [Box!MailNext]_(Box!mailVars)
  <2> SUFFICES ASSUME BusInv, [BusNext]_ipcVars
               PROVE  [Box!MailNext]_(Box!mailVars)
    OBVIOUS
  <2>0. /\ IPC_COUNT \in 0 .. MAX_IPC_MSGS
        /\ Cardinality(Waiting) = IPC_COUNT
    BY DEF BusInv, ApiInv, IpcTypeOK
  <2>1. CASE ipc_post_full(SystemBus)
    <3>1. Waiting' = Waiting
      BY <2>1 DEF ipc_post_full, Waiting, Unconsumed
    <3>2. Cardinality(Waiting) = MAX_IPC_MSGS
      BY IpcAssumption, <2>0, <2>1 DEF ipc_post_full
    <3> QED  BY <1>0, <2>1, <3>1, <3>2 DEF ipc_post_full, Box!Refuse, Box!MailNext
  <2>2. CASE ipc_post_ok(SystemBus)
    <3>1. Waiting' = Waiting \union {posts}
      BY <2>2, PostEffect
    <3>2. Cardinality(Waiting) < MAX_IPC_MSGS
      BY <2>0, <2>2 DEF ipc_post_ok
    <3> QED  BY <1>0, <2>2, <3>1, <3>2 DEF ipc_post_ok, Box!Accept, Box!MailNext
  <2>3. CASE ipc_monitor_task
    <3>1. Waiting' = {}
      BY <2>3, MonitorEffect
    <3> QED  BY <2>3, <3>1 DEF ipc_monitor_task, Box!TakeAll, Box!MailNext
  <2>4. CASE UNCHANGED ipcVars
    BY <2>4 DEF ipcVars, Box!mailVars, Waiting, Unconsumed
  <2> QED  BY <2>1, <2>2, <2>3, <2>4 DEF BusNext, ipc_post
<1> QED  BY <1>1, <1>2, BusInvInit, BusInvNext, PTL DEF BusSpec, MailboxSpec, Box!MailSpec

-----------------------------------------------------------------------------
(* Interrupt nesting: the inductive invariant.  Both checked invariants    *)
(* are about all frames or about the innermost one; a return uncovers an   *)
(* older frame, so the parts below say what holds of the frames that are   *)
(* not on top.                                                             *)

\* Only the innermost frame is in a fetch, and BUSY says whether it is.
FetchOnTop ==
  /\ BUSY <=> InOp("fetch")
  /\ \A i \in 1 .. Depth : stack[i].op = "fetch" => i = Depth

\* An interrupt came while the frame below waited with interrupts on: it is
\* in an rChat request, or it has switched the video mode.
BelowMayWait ==
  \A i \in 1 .. Depth : i < Depth => (stack[i].op = "rchat" \/ stack[i].vga)

\* A frame has interrupts on to give back only after a mode switch; a picture
\* is shown only after one.
SavedFlagIsVga ==
  \A i \in 1 .. Depth :
    (stack[i].saved \/ stack[i].outer \/ stack[i].op = "image") => stack[i].vga

\* One frame at most is in an rChat request, and NETWORK_BUSY says whether.
OneRequest ==
  /\ NETWORK_BUSY <=> (\E i \in 1 .. Depth : stack[i].op = "rchat")
  /\ \A i, j \in 1 .. Depth : (stack[i].op = "rchat" /\ stack[j].op = "rchat") => i = j

\* The connection of a fetch is the one TCP_CONNECTION was last set up for.
FetchHolds == InOp("fetch") /\ Top.up => holder = Depth

NestInv ==
  /\ NestTypeOK
  /\ FetchOnTop
  /\ BelowMayWait
  /\ SavedFlagIsVga
  /\ OneRequest
  /\ FetchHolds
  /\ InterruptsOnlyInWaits

-----------------------------------------------------------------------------
(* The three ways an action changes the stack.                             *)

\* An interrupt puts a fresh body on top and leaves the others alone.
LEMMA Pushed ==
  ASSUME stack \in Seq(Frame), NEW f \in Frame, stack' = Append(stack, f)
  PROVE  /\ stack' \in Seq(Frame)
         /\ Depth' = Depth + 1
         /\ Top' = f
         /\ \A i \in 1 .. Depth : stack'[i] = stack[i]
<1>1. Len(stack) \in Nat
  OBVIOUS
<1>2. /\ stack' \in Seq(Frame)
      /\ Len(stack') = Len(stack) + 1
      /\ stack'[Len(stack) + 1] = f
      /\ \A i \in 1 .. Len(stack) : stack'[i] = stack[i]
  OBVIOUS
<1>. QED  BY <1>1, <1>2 DEF Depth, Top

\* A return takes the innermost body off.
LEMMA Popped ==
  ASSUME stack \in Seq(Frame), Depth > 0, stack' = SubSeq(stack, 1, Depth - 1)
  PROVE  /\ stack' \in Seq(Frame)
         /\ Depth' = Depth - 1
         /\ Depth' \in Nat
         /\ \A i \in 1 .. Depth' : stack'[i] = stack[i]
<1>1. Len(stack) \in Nat
  OBVIOUS
<1>. DEFINE n == Len(stack) - 1
            t == SubSeq(stack, 1, n)
<1>2. n \in Nat /\ (\A i \in 1 .. n : stack[i] \in Frame)
  BY <1>1 DEF Depth
<1>. HIDE DEF n
<1>3. /\ t \in Seq(Frame)
      /\ Len(t) = IF 1 <= n THEN n - 1 + 1 ELSE 0
      /\ \A i \in 1 .. n - 1 + 1 : t[i] = stack[1 + i - 1]
  BY <1>2, SubSeqProperties
<1>4. t \in Seq(Frame) /\ Len(t) = n
  BY <1>2, <1>3
<1>5. ASSUME NEW i \in 1 .. n PROVE t[i] = stack[i]
  <2>1. i \in 1 .. n - 1 + 1 /\ 1 + i - 1 = i
    BY <1>2
  <2>. QED  BY <1>3, <2>1
<1>6. stack' = t /\ Depth' = n /\ n = Depth - 1
  BY <1>4 DEF Depth, n
<1>. QED  BY <1>2, <1>4, <1>5, <1>6

\* Every other action changes the innermost frame only.
LEMMA TopReplaced ==
  ASSUME stack \in Seq(Frame), Depth > 0, NEW f \in Frame,
         stack' = [stack EXCEPT ![Depth] = f]
  PROVE  /\ stack' \in Seq(Frame)
         /\ Depth' = Depth
         /\ Top' = f
         /\ \A i \in 1 .. Depth : i < Depth => stack'[i] = stack[i]
<1>1. Len(stack) \in Nat /\ Len(stack) \in 1 .. Len(stack)
  BY DEF Depth
<1>2. /\ stack' \in Seq(Frame)
      /\ Len(stack') = Len(stack)
      /\ stack'[Len(stack)] = f
      /\ \A i \in 1 .. Len(stack) : i < Len(stack) => stack'[i] = stack[i]
  BY <1>1 DEF Depth
<1>. QED  BY <1>1, <1>2 DEF Depth, Top

LEMMA TopIsFrame ==
  ASSUME stack \in Seq(Frame), Depth > 0
  PROVE  /\ Depth \in 1 .. Depth
         /\ Top \in Frame
         /\ Top = stack[Depth]
<1>1. Len(stack) \in Nat
  OBVIOUS
<1>. QED  BY <1>1 DEF Depth, Top

-----------------------------------------------------------------------------
LEMMA NestInitInv == NestInit => NestInv
<1>. SUFFICES ASSUME NestInit PROVE NestInv
  OBVIOUS
<1>. USE NestingAssumption
<1>1. stack = <<>> /\ stack \in Seq(Frame) /\ Depth = 0
  BY DEF NestInit, Depth
<1>2. NestTypeOK
  <2>1. IF_on \in BOOLEAN /\ BUSY \in BOOLEAN /\ NETWORK_BUSY \in BOOLEAN /\ SILENT \in BOOLEAN
    BY Zenon DEF NestInit
  <2>. QED  BY <1>1, <2>1 DEF NestInit, NestTypeOK
<1>. QED
  BY <1>1, <1>2 DEF NestInit, NestInv, FetchOnTop, BelowMayWait, SavedFlagIsVga,
     OneRequest, FetchHolds, InterruptsOnlyInWaits, InOp

LEMMA InterruptKeeps ==
  ASSUME NestInv, NEW t \in Tasks, handle_interrupt(t)
  PROVE  NestInv'
<1>. DEFINE f == Entered(t)
<1>1. /\ f \in Frame
      /\ f.op = "body" /\ ~f.up /\ ~f.vga /\ ~f.saved /\ ~f.outer
  BY DEF Entered, Frame, Ops
<1>2. stack \in Seq(Frame) /\ stack' = Append(stack, f)
  BY DEF NestInv, NestTypeOK, handle_interrupt
<1>. HIDE DEF f
<1>3. /\ stack' \in Seq(Frame)
      /\ Depth' = Depth + 1
      /\ Top' = f
      /\ Top' = stack'[Depth + 1]
      /\ \A i \in 1 .. Depth : stack'[i] = stack[i]
  BY <1>1, <1>2, Pushed DEF Top
<1>4. Depth \in Nat
  BY <1>2 DEF Depth
<1>5. UNCHANGED <<BUSY, NETWORK_BUSY, SILENT, holder>> /\ IF_on' = FALSE /\ current' = t /\ Depth < DEPTH /\ ~BUSY /\ IF_on
  BY DEF handle_interrupt
<1>6. NestTypeOK'
  <2>1. \A i \in 1 .. Depth + 1 : stack'[i].up => stack'[i].op \in {"fetch", "rchat"}
    BY <1>1, <1>3, <1>4 DEF NestInv, NestTypeOK
  <2>2. (IF_on \in BOOLEAN /\ BUSY \in BOOLEAN /\ NETWORK_BUSY \in BOOLEAN /\ SILENT \in BOOLEAN)'
    BY <1>5, Zenon DEF NestInv, NestTypeOK
  <2>. QED  BY <2>1, <2>2, <1>3, <1>4, <1>5, NestingAssumption DEF NestInv, NestTypeOK
<1>7. \A i \in 1 .. Depth : stack[i].op # "fetch"
  BY <1>4, <1>5 DEF NestInv, FetchOnTop, InOp, Top
<1>8. FetchOnTop' /\ FetchHolds'
  BY <1>1, <1>3, <1>4, <1>5, <1>7 DEF FetchOnTop, FetchHolds, InOp
<1>9. BelowMayWait'
  <2>1. Depth > 0 => (Top.op = "rchat" \/ Top.vga)
    BY <1>4, <1>5, <1>7 DEF NestInv, InterruptsOnlyInWaits, Top
  <2>. QED  BY <1>3, <1>4, <2>1 DEF NestInv, BelowMayWait, Top
<1>10. SavedFlagIsVga'
  BY <1>1, <1>3, <1>4 DEF NestInv, SavedFlagIsVga
<1>11. OneRequest'
  <2>1. \A i \in 1 .. Depth + 1 : stack'[i].op = "rchat" => (i \in 1 .. Depth /\ stack[i].op = "rchat")
    BY <1>1, <1>3, <1>4
  <2>2. \A i \in 1 .. Depth : stack[i].op = "rchat" => (i \in 1 .. Depth + 1 /\ stack'[i].op = "rchat")
    BY <1>3, <1>4
  <2>. QED  BY <1>3, <1>4, <1>5, <2>1, <2>2 DEF NestInv, OneRequest
<1>12. InterruptsOnlyInWaits'
  BY <1>5 DEF InterruptsOnlyInWaits
<1>. QED  BY <1>6, <1>8, <1>9, <1>10, <1>11, <1>12 DEF NestInv

LEMMA ReturnKeeps == ASSUME NestInv, body_returns PROVE NestInv'
<1>1. /\ stack \in Seq(Frame) /\ Depth > 0 /\ Top.op = "body"
      /\ stack' = SubSeq(stack, 1, Depth - 1)
      /\ UNCHANGED <<current, BUSY, NETWORK_BUSY, SILENT, holder>> /\ IF_on' = TRUE
  BY DEF NestInv, NestTypeOK, body_returns, InOp
<1>2. /\ stack' \in Seq(Frame)
      /\ Depth' = Depth - 1 /\ Depth' \in Nat
      /\ \A i \in 1 .. Depth' : stack'[i] = stack[i]
  BY <1>1, Popped
<1>3. Depth \in Nat /\ Depth \in 1 .. Depth /\ Top = stack[Depth]
  BY <1>1 DEF Depth, Top
<1>. HIDE DEF Depth
<1>4. NestTypeOK'
  BY <1>1, <1>2, <1>3, NestingAssumption DEF NestInv, NestTypeOK
<1>5. Top' = stack'[Depth'] /\ (Depth' > 0 => Top' = stack[Depth - 1])
  BY <1>2, <1>3 DEF Top
<1>6. ~BUSY /\ FetchOnTop' /\ FetchHolds'
  BY <1>1, <1>2, <1>3, <1>5 DEF NestInv, FetchOnTop, FetchHolds, InOp
<1>7. BelowMayWait' /\ SavedFlagIsVga'
  BY <1>2, <1>3 DEF NestInv, BelowMayWait, SavedFlagIsVga
<1>8. OneRequest'
  <2>1. \A i \in 1 .. Depth : stack[i].op = "rchat" => (i \in 1 .. Depth' /\ stack'[i].op = "rchat")
    BY <1>1, <1>2, <1>3
  <2>. QED  BY <1>1, <1>2, <1>3, <2>1 DEF NestInv, OneRequest
<1>9. InterruptsOnlyInWaits'
  BY <1>2, <1>3, <1>5 DEF NestInv, BelowMayWait, InterruptsOnlyInWaits
<1>. QED  BY <1>4, <1>6, <1>7, <1>8, <1>9 DEF NestInv

\* What a change of the innermost frame to f has to respect.
LEMMA TopStep ==
  ASSUME NestInv, Depth > 0, NEW f \in Frame,
         stack' = [stack EXCEPT ![Depth] = f],
         f.up => f.op \in {"fetch", "rchat"},
         f.saved \/ f.outer \/ f.op = "image" => f.vga,
         IF_on' => (f.op \in {"fetch", "rchat"} \/ f.vga),
         BUSY' <=> f.op = "fetch",
         \/ NETWORK_BUSY' = NETWORK_BUSY /\ (f.op = "rchat" <=> Top.op = "rchat")
         \/ NETWORK_BUSY' = TRUE /\ ~NETWORK_BUSY /\ f.op = "rchat"
         \/ NETWORK_BUSY' = FALSE /\ Top.op = "rchat" /\ f.op # "rchat",
         f.op = "fetch" /\ f.up => holder' = Depth,
         holder' \in {0, Depth, holder},
         IF_on' \in BOOLEAN, BUSY' \in BOOLEAN, NETWORK_BUSY' \in BOOLEAN, SILENT' \in BOOLEAN,
         current' = current
  PROVE  NestInv'
<1>1. stack \in Seq(Frame)
  BY DEF NestInv, NestTypeOK
<1>2. Depth \in Nat /\ Depth \in 1 .. Depth /\ Top = stack[Depth]
  BY <1>1 DEF Depth, Top
<1>3. /\ stack' \in Seq(Frame)
      /\ Depth' = Depth
      /\ Top' = f
      /\ stack'[Depth] = f
      /\ \A i \in 1 .. Depth : i < Depth => stack'[i] = stack[i]
  BY <1>1, TopReplaced DEF Top
<1>4. NestTypeOK'
  <2>1. \A i \in 1 .. Depth : stack'[i].up => stack'[i].op \in {"fetch", "rchat"}
    BY <1>2, <1>3 DEF NestInv, NestTypeOK
  <2>2. holder' \in 0 .. DEPTH
    BY <1>2, NestingAssumption DEF NestInv, NestTypeOK
  <2>. QED  BY <1>3, <2>1, <2>2 DEF NestInv, NestTypeOK
<1>5. FetchOnTop' /\ FetchHolds'
  <2>1. \A i \in 1 .. Depth : i < Depth => stack[i].op # "fetch"
    BY <1>2 DEF NestInv, FetchOnTop
  <2>. QED  BY <1>2, <1>3, <2>1 DEF FetchOnTop, FetchHolds, InOp
<1>6. BelowMayWait' /\ SavedFlagIsVga'
  BY <1>2, <1>3 DEF NestInv, BelowMayWait, SavedFlagIsVga
<1>7. OneRequest'
  <2>1. CASE NETWORK_BUSY' = NETWORK_BUSY /\ (f.op = "rchat" <=> Top.op = "rchat")
    <3>1. \A i \in 1 .. Depth : stack'[i].op = "rchat" <=> stack[i].op = "rchat"
      BY <1>2, <1>3, <2>1
    <3>. QED  BY <1>3, <2>1, <3>1 DEF NestInv, OneRequest
  <2>2. CASE NETWORK_BUSY' = TRUE /\ ~NETWORK_BUSY /\ f.op = "rchat"
    <3>1. \A i \in 1 .. Depth : stack'[i].op = "rchat" <=> i = Depth
      BY <1>2, <1>3, <2>2 DEF NestInv, OneRequest
    <3>. QED  BY <1>2, <1>3, <2>2, <3>1 DEF OneRequest
  <2>3. CASE NETWORK_BUSY' = FALSE /\ Top.op = "rchat" /\ f.op # "rchat"
    <3>1. \A i \in 1 .. Depth : stack'[i].op # "rchat"
      BY <1>2, <1>3, <2>3 DEF NestInv, OneRequest
    <3>. QED  BY <1>3, <2>3, <3>1 DEF OneRequest
  <2>. QED  BY <2>1, <2>2, <2>3
<1>8. InterruptsOnlyInWaits'
  BY <1>3 DEF InterruptsOnlyInWaits
<1>. QED  BY <1>4, <1>5, <1>6, <1>7, <1>8 DEF NestInv

-----------------------------------------------------------------------------
(* The actions of the commands.                                            *)

LEMMA ConnectKeeps ==
  ASSUME NestInv, NEW op \in {"fetch", "rchat"}, tcp_connect(op) \/ tcp_close(op),
         UNCHANGED <<IF_on, current, BUSY, NETWORK_BUSY>>, SILENT' \in BOOLEAN
  PROVE  NestInv'
<1>1. stack \in Seq(Frame) /\ Depth > 0 /\ Top.op = op
  BY DEF NestInv, NestTypeOK, tcp_connect, tcp_close, InOp
<1>2. Depth \in 1 .. Depth /\ Top \in Frame /\ Top = stack[Depth]
  BY <1>1, TopIsFrame
<1>3. PICK up \in BOOLEAN :
        /\ stack' = [stack EXCEPT ![Depth].up = up]
        /\ (up => holder' = Depth) /\ holder' \in {0, Depth}
  BY DEF tcp_connect, tcp_close
<1>. DEFINE f == [Top EXCEPT !.up = up]
<1>4. stack' = [stack EXCEPT ![Depth] = f]
  BY <1>2, <1>3
<1>5. /\ f \in Frame /\ f.op = op /\ f.up = up
      /\ f.saved = Top.saved /\ f.outer = Top.outer /\ f.vga = Top.vga
  BY <1>1, <1>2, <1>3 DEF Frame
<1>. HIDE DEF f
<1>6. (f.saved \/ f.outer \/ f.op = "image" => f.vga) /\ (BUSY' <=> f.op = "fetch")
  BY <1>1, <1>2, <1>5 DEF NestInv, SavedFlagIsVga, FetchOnTop, InOp
<1>7. IF_on' \in BOOLEAN /\ BUSY' \in BOOLEAN /\ NETWORK_BUSY' \in BOOLEAN
  BY DEF NestInv, NestTypeOK
<1>. QED  BY <1>1, <1>2, <1>3, <1>4, <1>5, <1>6, <1>7, TopStep

LEMMA FetchEnterKeeps == ASSUME NestInv, fetch_enter PROVE NestInv'
<1>1. stack \in Seq(Frame) /\ Depth > 0 /\ Top.op = "body"
  BY DEF NestInv, NestTypeOK, fetch_enter, InOp
<1>2. Depth \in 1 .. Depth /\ Top \in Frame /\ Top = stack[Depth]
  BY <1>1, TopIsFrame
<1>. DEFINE f == [Top EXCEPT !.op = "fetch", !.saved = IF_on]
<1>3. stack' = [stack EXCEPT ![Depth] = f]
  BY <1>2 DEF fetch_enter
<1>4. /\ f \in Frame /\ f.op = "fetch"
      /\ f.up = Top.up /\ f.saved = IF_on /\ f.outer = Top.outer /\ f.vga = Top.vga
  BY <1>2 DEF Frame, Ops, NestInv, NestTypeOK
<1>. HIDE DEF f
<1>5. ~Top.up /\ (IF_on => Top.vga) /\ (Top.outer \/ Top.saved => Top.vga) /\ ~BUSY
  BY <1>1, <1>2 DEF NestInv, NestTypeOK, SavedFlagIsVga, InterruptsOnlyInWaits, FetchOnTop, InOp
<1>6. /\ IF_on' \in BOOLEAN /\ BUSY' \in BOOLEAN /\ NETWORK_BUSY' \in BOOLEAN /\ SILENT' \in BOOLEAN
      /\ BUSY' = TRUE /\ NETWORK_BUSY' = NETWORK_BUSY
      /\ current' = current /\ holder' = holder
  BY DEF NestInv, NestTypeOK, fetch_enter
<1>. QED  BY <1>1, <1>2, <1>3, <1>4, <1>5, <1>6, TopStep

LEMMA FetchExitKeeps == ASSUME NestInv, fetch_exit PROVE NestInv'
<1>1. stack \in Seq(Frame) /\ Depth > 0 /\ Top.op = "fetch"
  BY DEF NestInv, NestTypeOK, fetch_exit, InOp
<1>2. Depth \in 1 .. Depth /\ Top \in Frame /\ Top = stack[Depth]
  BY <1>1, TopIsFrame
<1>. DEFINE f == [Top EXCEPT !.op = "body"]
<1>3. stack' = [stack EXCEPT ![Depth] = f]
  BY <1>2 DEF fetch_exit
<1>4. /\ f \in Frame /\ f.op = "body"
      /\ f.up = Top.up /\ f.saved = Top.saved /\ f.outer = Top.outer /\ f.vga = Top.vga
  BY <1>2 DEF Frame, Ops, NestInv, NestTypeOK
<1>. HIDE DEF f
<1>5. ~Top.up /\ (Top.outer \/ Top.saved => Top.vga)
  BY <1>1, <1>2 DEF NestInv, NestTypeOK, SavedFlagIsVga, InterruptsOnlyInWaits, FetchOnTop, InOp, fetch_exit
<1>6. /\ IF_on' \in BOOLEAN /\ BUSY' \in BOOLEAN /\ NETWORK_BUSY' \in BOOLEAN /\ SILENT' \in BOOLEAN
      /\ BUSY' = FALSE /\ NETWORK_BUSY' = NETWORK_BUSY /\ (IF_on' => Top.saved)
      /\ current' = current /\ holder' = holder
  BY DEF NestInv, NestTypeOK, fetch_exit
<1>. QED  BY <1>1, <1>2, <1>3, <1>4, <1>5, <1>6, TopStep

LEMMA WindowOpenKeeps == ASSUME NestInv, tui_open PROVE NestInv'
<1>1. stack \in Seq(Frame) /\ Depth > 0 /\ Top.op = "body"
  BY DEF NestInv, NestTypeOK, tui_open, InOp
<1>2. Depth \in 1 .. Depth /\ Top \in Frame /\ Top = stack[Depth]
  BY <1>1, TopIsFrame
<1>. DEFINE f == [Top EXCEPT !.op = "window", !.outer = IF_on]
<1>3. stack' = [stack EXCEPT ![Depth] = f]
  BY <1>2 DEF tui_open
<1>4. /\ f \in Frame /\ f.op = "window"
      /\ f.up = Top.up /\ f.saved = Top.saved /\ f.outer = IF_on /\ f.vga = Top.vga
  BY <1>2 DEF Frame, Ops, NestInv, NestTypeOK
<1>. HIDE DEF f
<1>5. ~Top.up /\ (IF_on => Top.vga) /\ (Top.outer \/ Top.saved => Top.vga) /\ ~BUSY
  BY <1>1, <1>2 DEF NestInv, NestTypeOK, SavedFlagIsVga, InterruptsOnlyInWaits, FetchOnTop, InOp
<1>6. /\ IF_on' \in BOOLEAN /\ BUSY' \in BOOLEAN /\ NETWORK_BUSY' \in BOOLEAN /\ SILENT' \in BOOLEAN
      /\ IF_on' = FALSE /\ BUSY' = BUSY /\ NETWORK_BUSY' = NETWORK_BUSY
      /\ current' = current /\ holder' = holder
  BY DEF NestInv, NestTypeOK, tui_open
<1>. QED  BY <1>1, <1>2, <1>3, <1>4, <1>5, <1>6, TopStep

LEMMA WindowCloseKeeps == ASSUME NestInv, tui_close PROVE NestInv'
<1>1. stack \in Seq(Frame) /\ Depth > 0 /\ Top.op = "window"
  BY DEF NestInv, NestTypeOK, tui_close, InOp
<1>2. Depth \in 1 .. Depth /\ Top \in Frame /\ Top = stack[Depth]
  BY <1>1, TopIsFrame
<1>. DEFINE f == [Top EXCEPT !.op = "body"]
<1>3. stack' = [stack EXCEPT ![Depth] = f]
  BY <1>2 DEF tui_close
<1>4. /\ f \in Frame /\ f.op = "body"
      /\ f.up = Top.up /\ f.saved = Top.saved /\ f.outer = Top.outer /\ f.vga = Top.vga
  BY <1>2 DEF Frame, Ops, NestInv, NestTypeOK
<1>. HIDE DEF f
<1>5. ~Top.up /\ (IF_on => Top.vga) /\ (Top.outer \/ Top.saved => Top.vga) /\ ~BUSY
  BY <1>1, <1>2 DEF NestInv, NestTypeOK, SavedFlagIsVga, InterruptsOnlyInWaits, FetchOnTop, InOp
<1>6. /\ IF_on' \in BOOLEAN /\ BUSY' \in BOOLEAN /\ NETWORK_BUSY' \in BOOLEAN /\ SILENT' \in BOOLEAN
      /\ (IF_on' => IF_on \/ Top.outer) /\ BUSY' = BUSY /\ NETWORK_BUSY' = NETWORK_BUSY
      /\ current' = current /\ holder' = holder
  BY DEF NestInv, NestTypeOK, tui_close
<1>. QED  BY <1>1, <1>2, <1>3, <1>4, <1>5, <1>6, TopStep

LEMMA RequestEnterKeeps == ASSUME NestInv, rchat_enter PROVE NestInv'
<1>1. stack \in Seq(Frame) /\ Depth > 0 /\ Top.op = "window"
  BY DEF NestInv, NestTypeOK, rchat_enter, InOp
<1>2. Depth \in 1 .. Depth /\ Top \in Frame /\ Top = stack[Depth]
  BY <1>1, TopIsFrame
<1>. DEFINE f == [Top EXCEPT !.op = "rchat", !.saved = IF_on]
<1>3. stack' = [stack EXCEPT ![Depth] = f]
  BY <1>2 DEF rchat_enter
<1>4. /\ f \in Frame /\ f.op = "rchat"
      /\ f.up = Top.up /\ f.saved = IF_on /\ f.outer = Top.outer /\ f.vga = Top.vga
  BY <1>2 DEF Frame, Ops, NestInv, NestTypeOK
<1>. HIDE DEF f
<1>5. ~Top.up /\ (IF_on => Top.vga) /\ (Top.outer \/ Top.saved => Top.vga) /\ ~BUSY
  BY <1>1, <1>2 DEF NestInv, NestTypeOK, SavedFlagIsVga, InterruptsOnlyInWaits, FetchOnTop, InOp
<1>6. /\ IF_on' \in BOOLEAN /\ BUSY' \in BOOLEAN /\ NETWORK_BUSY' \in BOOLEAN /\ SILENT' \in BOOLEAN
      /\ BUSY' = BUSY /\ NETWORK_BUSY' = TRUE /\ ~NETWORK_BUSY
      /\ current' = current /\ holder' = holder
  BY DEF NestInv, NestTypeOK, rchat_enter, NetworkFree
<1>. QED  BY <1>1, <1>2, <1>3, <1>4, <1>5, <1>6, TopStep

LEMMA RequestExitKeeps == ASSUME NestInv, rchat_exit PROVE NestInv'
<1>1. stack \in Seq(Frame) /\ Depth > 0 /\ Top.op = "rchat"
  BY DEF NestInv, NestTypeOK, rchat_exit, InOp
<1>2. Depth \in 1 .. Depth /\ Top \in Frame /\ Top = stack[Depth]
  BY <1>1, TopIsFrame
<1>. DEFINE f == [Top EXCEPT !.op = "window"]
<1>3. stack' = [stack EXCEPT ![Depth] = f]
  BY <1>2 DEF rchat_exit
<1>4. /\ f \in Frame /\ f.op = "window"
      /\ f.up = Top.up /\ f.saved = Top.saved /\ f.outer = Top.outer /\ f.vga = Top.vga
  BY <1>2 DEF Frame, Ops, NestInv, NestTypeOK
<1>. HIDE DEF f
<1>5. ~Top.up /\ (Top.outer \/ Top.saved => Top.vga) /\ ~BUSY
  BY <1>1, <1>2 DEF NestInv, NestTypeOK, SavedFlagIsVga, InterruptsOnlyInWaits, FetchOnTop, InOp, rchat_exit
<1>6. /\ IF_on' \in BOOLEAN /\ BUSY' \in BOOLEAN /\ NETWORK_BUSY' \in BOOLEAN /\ SILENT' \in BOOLEAN
      /\ BUSY' = BUSY /\ NETWORK_BUSY' = FALSE /\ (IF_on' => Top.saved)
      /\ current' = current /\ holder' = holder
  BY DEF NestInv, NestTypeOK, rchat_exit
<1>. QED  BY <1>1, <1>2, <1>3, <1>4, <1>5, <1>6, TopStep

LEMMA PresentKeeps == ASSUME NestInv, present PROVE NestInv'
<1>1. stack \in Seq(Frame) /\ Depth > 0 /\ Top.op = "body"
  BY DEF NestInv, NestTypeOK, present, InOp
<1>2. Depth \in 1 .. Depth /\ Top \in Frame /\ Top = stack[Depth]
  BY <1>1, TopIsFrame
<1>. DEFINE f == [Top EXCEPT !.op = "image", !.vga = TRUE]
<1>3. stack' = [stack EXCEPT ![Depth] = f]
  BY <1>2 DEF present
<1>4. /\ f \in Frame /\ f.op = "image"
      /\ f.up = Top.up /\ f.saved = Top.saved /\ f.outer = Top.outer /\ f.vga = TRUE
  BY <1>2 DEF Frame, Ops, NestInv, NestTypeOK
<1>. HIDE DEF f
<1>5. ~Top.up /\ ~BUSY
  BY <1>1, <1>2 DEF NestInv, NestTypeOK, SavedFlagIsVga, InterruptsOnlyInWaits, FetchOnTop, InOp
<1>6. /\ IF_on' \in BOOLEAN /\ BUSY' \in BOOLEAN /\ NETWORK_BUSY' \in BOOLEAN /\ SILENT' \in BOOLEAN
      /\ BUSY' = BUSY /\ NETWORK_BUSY' = NETWORK_BUSY
      /\ current' = current /\ holder' = holder
  BY DEF NestInv, NestTypeOK, present
<1>. QED  BY <1>1, <1>2, <1>3, <1>4, <1>5, <1>6, TopStep

LEMMA PresentEndKeeps == ASSUME NestInv, present_ends PROVE NestInv'
<1>1. stack \in Seq(Frame) /\ Depth > 0 /\ Top.op = "image"
  BY DEF NestInv, NestTypeOK, present_ends, InOp
<1>2. Depth \in 1 .. Depth /\ Top \in Frame /\ Top = stack[Depth]
  BY <1>1, TopIsFrame
<1>. DEFINE f == [Top EXCEPT !.op = "body"]
<1>3. stack' = [stack EXCEPT ![Depth] = f]
  BY <1>2 DEF present_ends
<1>4. /\ f \in Frame /\ f.op = "body"
      /\ f.up = Top.up /\ f.saved = Top.saved /\ f.outer = Top.outer /\ f.vga = Top.vga
  BY <1>2 DEF Frame, Ops, NestInv, NestTypeOK
<1>. HIDE DEF f
<1>5. ~Top.up /\ (Top.outer \/ Top.saved => Top.vga) /\ ~BUSY /\ Top.vga
  BY <1>1, <1>2 DEF NestInv, NestTypeOK, SavedFlagIsVga, InterruptsOnlyInWaits, FetchOnTop, InOp
<1>6. /\ IF_on' \in BOOLEAN /\ BUSY' \in BOOLEAN /\ NETWORK_BUSY' \in BOOLEAN /\ SILENT' \in BOOLEAN
      /\ BUSY' = BUSY /\ NETWORK_BUSY' = NETWORK_BUSY
      /\ current' = current /\ holder' = holder
  BY DEF NestInv, NestTypeOK, present_ends
<1>. QED  BY <1>1, <1>2, <1>3, <1>4, <1>5, <1>6, TopStep

-----------------------------------------------------------------------------
LEMMA NestStep == NestInv /\ [NestNext]_nestVars => NestInv'
<1>. SUFFICES ASSUME NestInv, [NestNext]_nestVars PROVE NestInv'
  OBVIOUS
<1>1. CASE \E t \in Tasks : handle_interrupt(t)
  BY <1>1, InterruptKeeps
<1>2. CASE body_returns
  BY <1>2, ReturnKeeps
<1>3. CASE fetch_connect \/ fetch_disconnect
  <2>1. SILENT' \in BOOLEAN
    BY <1>3, Zenon DEF NestInv, NestTypeOK, fetch_connect, fetch_disconnect
  <2>. QED  BY <1>3, <2>1, ConnectKeeps DEF fetch_connect, fetch_disconnect
<1>4. CASE rchat_connect \/ rchat_disconnect
  <2>1. SILENT' \in BOOLEAN
    BY <1>4, Zenon DEF NestInv, NestTypeOK, rchat_connect, rchat_disconnect
  <2>. QED  BY <1>4, <2>1, ConnectKeeps DEF rchat_connect, rchat_disconnect
<1>5. CASE fetch_enter \/ fetch_exit
  BY <1>5, FetchEnterKeeps, FetchExitKeeps
<1>6. CASE tui_open \/ tui_close
  BY <1>6, WindowOpenKeeps, WindowCloseKeeps
<1>7. CASE rchat_enter \/ rchat_exit
  BY <1>7, RequestEnterKeeps, RequestExitKeeps
<1>8. CASE present \/ present_ends
  BY <1>8, PresentKeeps, PresentEndKeeps
<1>9. CASE UNCHANGED nestVars
  BY <1>9 DEF nestVars, NestInv, NestTypeOK, FetchOnTop, BelowMayWait, SavedFlagIsVga,
     OneRequest, FetchHolds, InterruptsOnlyInWaits, InOp, Top, Depth
<1>. QED
  BY <1>1, <1>2, <1>3, <1>4, <1>5, <1>6, <1>7, <1>8, <1>9 DEF NestNext

\* The inductive invariant holds of every behaviour.
LEMMA NestAlways == NestSpec => []NestInv
  BY NestInitInv, NestStep, PTL DEF NestSpec

\* The shape of the state, and no connection outside of a network guard.
THEOREM NestTypeCorrect == NestSpec => []NestTypeOK
<1>1. NestInv => NestTypeOK
  BY DEF NestInv
<1>. QED  BY <1>1, NestAlways, PTL

\* However interrupts, windows, requests and pictures nest, a fetch is never
\* covered by another body, and its connection is the one TCP_CONNECTION
\* was set up for (handle_interrupt of src/scheduler/task.c).
THEOREM FetchIsNotCovered == NestSpec => []FetchKeepsConnection
<1>1. NestInv => FetchKeepsConnection
  BY DEF NestInv, FetchOnTop, FetchHolds, FetchKeepsConnection, FramesIn, InOp, Top
<1>. QED  BY <1>1, NestAlways, PTL

\* Both busy flags count the frames inside their guard exactly, and the
\* guards give no interrupts away, at every nesting depth.
THEOREM GuardsAreExact == NestSpec => []GuardsMatchFrames
<1>1. ASSUME NestInv PROVE GuardsMatchFrames
  <2>1. Depth \in Nat
    BY <1>1 DEF NestInv, NestTypeOK, Depth
  <2>2. FramesIn("fetch") = IF BUSY THEN {Depth} ELSE {}
    BY <1>1, <2>1 DEF NestInv, FetchOnTop, FramesIn, InOp, Top
  <2>3. Cardinality(FramesIn("fetch")) = IF BUSY THEN 1 ELSE 0
    BY <2>2, FS_EmptySet, FS_Singleton
  <2>4. CASE NETWORK_BUSY
    <3>1. PICK i \in 1 .. Depth : stack[i].op = "rchat"
      BY <1>1, <2>4 DEF NestInv, OneRequest
    <3>2. FramesIn("rchat") = {i}
      BY <1>1, <3>1 DEF NestInv, OneRequest, FramesIn
    <3>. QED  BY <1>1, <2>3, <2>4, <3>2, FS_Singleton DEF NestInv, GuardsMatchFrames
  <2>5. CASE ~NETWORK_BUSY
    <3>1. FramesIn("rchat") = {}
      BY <1>1, <2>5 DEF NestInv, OneRequest, FramesIn
    <3>. QED  BY <1>1, <2>3, <2>5, <3>1, FS_EmptySet DEF NestInv, GuardsMatchFrames
  <2>. QED  BY <2>4, <2>5
<1>. QED  BY <1>1, NestAlways, PTL

-----------------------------------------------------------------------------
(* The heap.  The inductive invariant.                                     *)

\* The blocks of a list tile the pool.  That a block lies before every later
\* one, and not only before the next, is kept as a part of its own.
Laid(h) ==
  /\ h \in Seq(Block)
  /\ \A k \in 1 .. Len(h) : h[k].size >= 0
  /\ h # <<>> => h[1].addr = 0
  /\ \A k \in 1 .. Len(h) - 1 : h[k + 1].addr = h[k].addr + HEADER + h[k].size
  /\ \A j, k \in 1 .. Len(h) : j < k => h[j].addr + HEADER + h[j].size <= h[k].addr
  /\ EndOf(h) <= MEMORY_POOL_SIZE

\* Two free neighbours are found at most behind the places in S.
MergedBut(h, S) ==
  \A k \in 1 .. Len(h) - 1 : h[k].is_free /\ h[k + 1].is_free => k \in S

\* There is an allocated block of size s at a.
Used(h, a, s) == \E k \in 1 .. Len(h) : ~h[k].is_free /\ h[k].addr = a /\ h[k].size = s

\* A client's pointer is that of an allocated block with room for what it
\* asked for, and no two clients have the same.
Held(c) ==
  \E a, s \in Nat : Used(heap, a, s) /\ live[c].ptr = a + HEADER /\ s >= live[c].size

ClientsHold ==
  /\ live \in [Clients -> [ptr : Int, size : Nat, data : Nat]]
  /\ \A c \in Clients : live[c] # None => /\ live[c].size > 0
                                          /\ live[c].data <= live[c].size
                                          /\ Held(c)
  /\ \A c, d \in Clients : live[c] # None /\ live[c].ptr = live[d].ptr => c = d

\* An allocated block that is not empty is that of a client's pointer.
Owned ==
  \A a, s \in Nat : Used(heap, a, s) /\ s > 0 => \E c \in Clients : live[c].ptr = a + HEADER

HeapInv == Laid(heap) /\ MergedBut(heap, {}) /\ ClientsHold /\ Owned

-----------------------------------------------------------------------------
(* The layout of a list of blocks.                                         *)

LEMMA Rounded ==
  ASSUME NEW x \in Nat, NEW b \in Nat, b > 0
  PROVE  (x \div b) * b > x - b /\ (x \div b) * b \in Int
<1>1. x \div b \in Int
  OBVIOUS
<1>2. (x \div b) * b > x - b
  OBVIOUS
<1>. QED  BY <1>1, <1>2

\* What malloc sets aside is no less than what was asked for.
LEMMA RoundUpIs ==
  ASSUME NEW n \in Nat
  PROVE  RoundUp(n) \in Nat /\ RoundUp(n) >= n
<1>. DEFINE x == n + ALIGN - 1
            r == (x \div ALIGN) * ALIGN
<1>1. ALIGN \in Nat /\ ALIGN > 0 /\ x \in Nat
  BY HeapAssumption
<1>2. r > x - ALIGN /\ r \in Int
  <2>. HIDE DEF x
  <2>. QED  BY <1>1, Rounded
<1>3. RoundUp(n) = r
  BY DEF RoundUp
<1>. HIDE DEF r
<1>. QED  BY <1>1, <1>2, <1>3

LEMMA EndsLater ==
  ASSUME NEW a \in Nat, NEW s \in Nat, NEW b \in Nat, NEW t \in Nat, NEW u \in Nat, a + u + s <= b
  PROVE  a + u + s <= b + u + t
OBVIOUS

LEMMA CutSizes ==
  ASSUME NEW a \in Nat, NEW z \in Nat, NEW r \in Nat, NEW u \in Nat, z - r - u \in Nat
  PROVE  /\ a + u + r \in Nat /\ a <= a /\ a <= a + u + r
         /\ a + u + r <= a + u + z
         /\ (a + u + r) + u + (z - r - u) = a + u + z
         /\ (a + u + r) + u + (z - r - u) <= a + u + z
OBVIOUS

LEMMA EndsBefore ==
  ASSUME NEW a \in Nat, NEW s \in Nat, NEW u \in Nat, NEW a2 \in Nat, NEW s2 \in Nat,
         NEW b \in Nat, NEW b2 \in Nat,
         a + u + s <= a2 + u + s2, a2 + u + s2 <= b2, b2 <= b
  PROVE  a + u + s <= b
OBVIOUS

LEMMA Places ==
  ASSUME NEW h, Laid(h)
  PROVE  /\ Len(h) \in Nat /\ HEADER \in Nat \ {0} /\ MEMORY_POOL_SIZE \in Nat
         /\ h # <<>> <=> Len(h) > 0
         /\ \A k \in 1 .. Len(h) :
              /\ h[k] \in Block /\ h[k].addr \in Nat /\ h[k].size \in Nat
              /\ h[k].is_free \in BOOLEAN
              /\ h[k].addr + HEADER + h[k].size <= EndOf(h)
         /\ EndOf(h) \in 0 .. MEMORY_POOL_SIZE
         /\ \A j, k \in 1 .. Len(h) : h[j].addr = h[k].addr => j = k
<1>1. /\ h \in Seq(Block) /\ Len(h) \in Nat /\ HEADER \in Nat \ {0} /\ MEMORY_POOL_SIZE \in Nat
      /\ h # <<>> <=> Len(h) > 0
  BY HeapAssumption DEF Laid
<1>2. ASSUME NEW k \in 1 .. Len(h)
      PROVE  /\ h[k] \in Block /\ h[k].addr \in Int /\ h[k].size \in Nat
             /\ h[k].is_free \in BOOLEAN
  <2>1. h[k] \in Block
    BY <1>1
  <2>2. h[k].size >= 0
    BY DEF Laid
  <2>. QED  BY <2>1, <2>2 DEF Block
<1>3. ASSUME NEW k \in 1 .. Len(h) PROVE h[k].addr \in Nat
  <2>1. 1 \in 1 .. Len(h) /\ h[1].addr = 0
    BY <1>1, <1>2 DEF Laid
  <2>2. CASE k = 1
    BY <2>1, <2>2
  <2>3. CASE k # 1
    <3>1. h[1].addr + HEADER + h[1].size <= h[k].addr
      BY <1>1, <2>1, <2>3 DEF Laid
    <3>. QED  BY <1>1, <1>2, <2>1, <3>1
  <2>. QED  BY <2>2, <2>3
<1>4. ASSUME NEW k \in 1 .. Len(h)
      PROVE  h[k].addr + HEADER + h[k].size <= EndOf(h)
  <2>1. Len(h) \in 1 .. Len(h) /\ EndOf(h) = h[Len(h)].addr + HEADER + h[Len(h)].size
    BY <1>1 DEF EndOf
  <2>2. CASE k = Len(h)
    BY <1>1, <1>2, <1>3, <2>1, <2>2
  <2>3. CASE k < Len(h)
    <3>1. h[k].addr + HEADER + h[k].size <= h[Len(h)].addr
      BY <2>1, <2>3 DEF Laid
    <3>2. /\ h[k].addr \in Nat /\ h[k].size \in Nat /\ h[Len(h)].addr \in Nat /\ h[Len(h)].size \in Nat
      BY <1>2, <1>3, <2>1
    <3>3. h[k].addr + HEADER + h[k].size <= h[Len(h)].addr + HEADER + h[Len(h)].size
      BY <1>1, <3>1, <3>2, EndsLater
    <3>. QED  BY <2>1, <3>3
  <2>. QED  BY <1>1, <2>2, <2>3
<1>5. EndOf(h) \in 0 .. MEMORY_POOL_SIZE
  <2>1. CASE h = <<>>
    BY <1>1, <2>1 DEF EndOf
  <2>2. CASE h # <<>>
    <3>1. Len(h) \in 1 .. Len(h)
      BY <1>1, <2>2
    <3>2. EndOf(h) \in Nat
      BY <1>1, <1>2, <1>3, <2>2, <3>1 DEF EndOf
    <3>. QED  BY <1>1, <3>2 DEF Laid
  <2>. QED  BY <2>1, <2>2
<1>6. ASSUME NEW j \in 1 .. Len(h), NEW k \in 1 .. Len(h), j < k
      PROVE  h[j].addr < h[k].addr
  <2>1. h[j].addr + HEADER + h[j].size <= h[k].addr
    BY <1>6 DEF Laid
  <2>2. h[j].addr \in Nat /\ h[j].size \in Nat /\ h[k].addr \in Nat
    BY <1>2, <1>3
  <2>. QED  BY <1>1, <2>1, <2>2
<1>7. ASSUME NEW j \in 1 .. Len(h), NEW k \in 1 .. Len(h), h[j].addr = h[k].addr
      PROVE  j = k
  <2>1. ~(j < k) /\ ~(k < j)
    BY <1>3, <1>6, <1>7
  <2>. QED  BY <2>1
<1>. QED  BY <1>1, <1>2, <1>3, <1>4, <1>5, <1>7

\* If any free block fits there is a first one.
LEMMA FirstFitIs ==
  ASSUME NEW h, Len(h) \in Nat, NEW n, SomeFit(h, n)
  PROVE  FirstFit(h, n) \in 1 .. Len(h) /\ Fits(h, FirstFit(h, n), n)
<1>. DEFINE T == {k \in 1 .. Len(h) : Fits(h, k, n)}
<1>1. T \subseteq Nat /\ T # {}
  BY DEF SomeFit
<1>2. PICK x \in T : \A y \in T : ~(<<y, x>> \in OpToRel(<, Nat))
  <2>. HIDE DEF T
  <2>. QED  BY <1>1, NatLessThanWellFounded, WFMin, Zenon
<1>3. \A y \in T : ~(y < x)
  BY <1>1, <1>2 DEF OpToRel
<1>4. x \in 1 .. Len(h) /\ Fits(h, x, n)
  BY <1>2
<1>5. ASSUME NEW j \in 1 .. x - 1, Fits(h, j, n) PROVE FALSE
  <2>1. j \in 1 .. Len(h) /\ j < x
    BY <1>4
  <2>2. j \in T
    BY <1>5, <2>1
  <2>. QED  BY <1>3, <2>1, <2>2
<1>. QED  BY <1>4, <1>5 DEF FirstFit

-----------------------------------------------------------------------------
(* Marking a block allocated or free.                                      *)

\* g is h with only the mark of block k changed, to b.
SameBut(h, k, b, g) ==
  /\ Laid(g) /\ Len(g) = Len(h)
  /\ \A i \in 1 .. Len(h) : /\ g[i].addr = h[i].addr /\ g[i].size = h[i].size
                            /\ g[i].is_free = IF i = k THEN b ELSE h[i].is_free

LEMMA Marked ==
  ASSUME NEW h, Laid(h), NEW k \in 1 .. Len(h), NEW b \in BOOLEAN,
         NEW g, g = [h EXCEPT ![k].is_free = b]
  PROVE  SameBut(h, k, b, g)
<1>1. h \in Seq(Block) /\ Len(h) \in Nat /\ h # <<>> /\ \A i \in 1 .. Len(h) : h[i] \in Block
  BY Places DEF Laid
<1>2. PICK x \in Block : x = [h[k] EXCEPT !.is_free = b] /\ x.addr = h[k].addr
                         /\ x.size = h[k].size /\ x.is_free = b
  <2>1. h[k] \in Block
    BY <1>1
  <2>. QED  BY <2>1 DEF Block
<1>3. g = [h EXCEPT ![k] = x]
  BY <1>2
<1>4. /\ g \in Seq(Block) /\ Len(g) = Len(h)
      /\ \A i \in 1 .. Len(h) : g[i] = IF i = k THEN x ELSE h[i]
  <2>. HIDE DEF Block
  <2>. QED  BY <1>1, <1>3
<1>5. \A i \in 1 .. Len(h) : /\ g[i].addr = h[i].addr /\ g[i].size = h[i].size
                             /\ g[i].is_free = IF i = k THEN b ELSE h[i].is_free
  BY <1>2, <1>4
<1>6. g # <<>> /\ 1 \in 1 .. Len(h) /\ Len(h) \in 1 .. Len(h)
  BY <1>1, <1>4
<1>7. EndOf(g) = EndOf(h)
  BY <1>1, <1>4, <1>5, <1>6 DEF EndOf
<1>8. Laid(g)
  <2>1. \A j \in 1 .. Len(g) - 1 : g[j + 1].addr = g[j].addr + HEADER + g[j].size
    <3>. TAKE j \in 1 .. Len(g) - 1
    <3>1. j \in 1 .. Len(h) /\ j + 1 \in 1 .. Len(h)
      BY <1>1, <1>4
    <3>2. h[j + 1].addr = h[j].addr + HEADER + h[j].size
      BY <1>4 DEF Laid
    <3>. QED  BY <1>5, <3>1, <3>2
  <2>2. g[1].addr = 0
    BY <1>1, <1>5, <1>6 DEF Laid
  <2>3. \A i, j \in 1 .. Len(g) : i < j => g[i].addr + HEADER + g[i].size <= g[j].addr
    BY <1>4, <1>5 DEF Laid
  <2>4. \A i \in 1 .. Len(g) : g[i].size >= 0
    BY <1>4, <1>5 DEF Laid
  <2>. QED  BY <1>4, <1>7, <2>1, <2>2, <2>3, <2>4 DEF Laid
<1>. QED  BY <1>4, <1>5, <1>8 DEF SameBut

\* g is h with one more allocated block, of size z at a.
Adds(h, g, a, z) ==
  /\ Laid(g) /\ MergedBut(g, {}) /\ a \in Nat /\ z \in Nat
  /\ \A t \in Nat : ~Used(h, a, t)
  /\ \A b, t \in Nat : Used(g, b, t) <=> (Used(h, b, t) \/ (b = a /\ t = z))

\* A free block that is not split is given away as it is.
LEMMA TakeWhole ==
  ASSUME NEW h, Laid(h), MergedBut(h, {}), NEW k \in 1 .. Len(h), h[k].is_free,
         NEW g, g = [h EXCEPT ![k].is_free = FALSE]
  PROVE  Adds(h, g, h[k].addr, h[k].size)
<1>1. /\ Laid(g) /\ Len(g) = Len(h) /\ Len(h) \in Nat
      /\ \A i \in 1 .. Len(h) : /\ g[i].addr = h[i].addr /\ g[i].size = h[i].size
                                /\ g[i].is_free = IF i = k THEN FALSE ELSE h[i].is_free
  <2>1. Len(h) \in Nat
    BY Places
  <2>2. PICK b \in BOOLEAN : b = FALSE
    OBVIOUS
  <2>3. g = [h EXCEPT ![k].is_free = b]
    BY <2>2
  <2>4. SameBut(h, k, b, g)
    BY <2>3, Marked
  <2>. QED  BY <2>1, <2>2, <2>4 DEF SameBut
<1>2. MergedBut(g, {})
  <2>1. \A j \in 1 .. Len(h) - 1 : j \in 1 .. Len(h) /\ j + 1 \in 1 .. Len(h)
    BY <1>1
  <2>. QED  BY <1>1, <2>1 DEF MergedBut
<1>3. \A i \in 1 .. Len(h) : h[i].addr = h[k].addr => i = k
  BY Places
<1>4. h[k].addr \in Nat /\ h[k].size \in Nat
  BY Places
<1>5. \A t \in Nat : ~Used(h, h[k].addr, t)
  BY <1>3 DEF Used
<1>6. ASSUME NEW b \in Nat, NEW t \in Nat
      PROVE  Used(g, b, t) <=> (Used(h, b, t) \/ (b = h[k].addr /\ t = h[k].size))
  BY <1>1, <1>3 DEF Used
<1>. QED  BY <1>1, <1>2, <1>4, <1>5, <1>6 DEF Adds

-----------------------------------------------------------------------------
(* Splitting a free block.                                                 *)

\* g is h with block k cut in two, behind its first r bytes.
Around(h, k, g) ==
  /\ g \in Seq(Block) /\ Len(g) = Len(h) + 1
  /\ \A i \in 1 .. Len(h) : i < k => g[i] = h[i]
  /\ \A i \in 1 .. Len(h) : i > k => g[i + 1] = h[i]
  /\ ~g[k].is_free /\ g[k + 1].is_free

CutAt(h, k, r, g) ==
  /\ r \in Nat /\ h[k].size - r - HEADER \in Nat
  /\ g[k].addr = h[k].addr /\ g[k].size = r
  /\ g[k + 1].addr = h[k].addr + HEADER + r
  /\ g[k + 1].size = h[k].size - r - HEADER

LEMMA SplitParts ==
  ASSUME NEW h, Laid(h), NEW k \in 1 .. Len(h), NEW n \in Nat, Splits(h, k, n),
         NEW g, g = Split(h, k, n)
  PROVE  Around(h, k, g) /\ CutAt(h, k, RoundUp(n), g)
<1>1. /\ Len(h) \in Nat /\ HEADER \in Nat /\ ALIGN \in Nat /\ RoundUp(n) \in Nat
      /\ \A i \in 1 .. Len(h) : h[i] \in Block /\ h[i].addr \in Nat /\ h[i].size \in Nat
  BY Places, RoundUpIs, HeapAssumption
<1>. DEFINE x == [addr |-> h[k].addr, size |-> RoundUp(n), is_free |-> FALSE]
            y == [addr |-> h[k].addr + HEADER + RoundUp(n),
                  size |-> h[k].size - RoundUp(n) - HEADER, is_free |-> TRUE]
<1>2. h[k].size - RoundUp(n) - HEADER \in Nat
  <2>1. h[k].size >= RoundUp(n) + HEADER + ALIGN /\ h[k].size \in Nat
    BY <1>1 DEF Splits
  <2>. HIDE DEF RoundUp
  <2>. QED  BY <1>1, <2>1
<1>3. x \in Block /\ y \in Block
  <2>1. h[k].addr \in Nat /\ h[k].addr + HEADER + RoundUp(n) \in Nat
    BY <1>1
  <2>. QED  BY <1>1, <1>2, <2>1 DEF Block
<1>4. /\ x.addr = h[k].addr /\ x.size = RoundUp(n) /\ ~x.is_free
      /\ y.addr = h[k].addr + HEADER + RoundUp(n)
      /\ y.size = h[k].size - RoundUp(n) - HEADER /\ y.is_free
  OBVIOUS
<1>5. g = [i \in 1 .. Len(h) + 1 |-> IF i < k THEN h[i] ELSE IF i = k THEN x
                                     ELSE IF i = k + 1 THEN y ELSE h[i - 1]]
  BY DEF Split
<1>. HIDE DEF x, y
<1>6. ASSUME NEW i \in 1 .. Len(h) + 1
      PROVE  (IF i < k THEN h[i] ELSE IF i = k THEN x ELSE IF i = k + 1 THEN y ELSE h[i - 1]) \in Block
  <2>1. i < k => i \in 1 .. Len(h)
    BY <1>1
  <2>2. ~(i < k) /\ i # k /\ i # k + 1 => i - 1 \in 1 .. Len(h)
    BY <1>1
  <2>. QED  BY <1>1, <1>3, <2>1, <2>2
<1>7. g \in Seq(Block) /\ Len(g) = Len(h) + 1
  <2>. HIDE DEF Block
  <2>. QED  BY <1>1, <1>5, <1>6
<1>8. g[k] = x /\ g[k + 1] = y
  BY <1>1, <1>5
<1>9. \A i \in 1 .. Len(h) : i < k => g[i] = h[i]
  BY <1>1, <1>5
<1>10. ASSUME NEW i \in 1 .. Len(h), i > k PROVE g[i + 1] = h[i]
  <2>1. i + 1 \in 1 .. Len(h) + 1 /\ ~(i + 1 < k) /\ i + 1 # k /\ i + 1 # k + 1 /\ (i + 1) - 1 = i
    BY <1>1, <1>10
  <2>. QED  BY <1>5, <2>1
<1>. QED  BY <1>1, <1>2, <1>4, <1>7, <1>8, <1>9, <1>10 DEF Around, CutAt

\* The indices and bounds of a split list, block by block.
LEMMA SplitBounds ==
  ASSUME NEW h, Laid(h), NEW k \in 1 .. Len(h), NEW r \in Nat,
         NEW g, Around(h, k, g), CutAt(h, k, r, g), NEW i \in 1 .. Len(g),
         NEW o, o = IF i <= k THEN i ELSE i - 1
  PROVE  /\ o \in 1 .. Len(h) /\ g[i].addr \in Nat /\ g[i].size \in Nat
         /\ h[o].addr \in Nat /\ h[o].size \in Nat
         /\ h[o].addr <= g[i].addr
         /\ g[i].addr + HEADER + g[i].size <= h[o].addr + HEADER + h[o].size
<1>1. /\ Len(h) \in Nat /\ HEADER \in Nat
      /\ \A m \in 1 .. Len(h) : h[m].addr \in Nat /\ h[m].size \in Nat
  BY Places
<1>2. /\ Len(g) = Len(h) + 1
      /\ \A m \in 1 .. Len(h) : m < k => g[m] = h[m]
      /\ \A m \in 1 .. Len(h) : m > k => g[m + 1] = h[m]
  BY DEF Around
<1>3. o \in 1 .. Len(h)
  BY <1>1, <1>2
<1>4. /\ g[k].addr = h[k].addr /\ g[k].size = r
      /\ g[k + 1].addr = h[k].addr + HEADER + r
      /\ g[k + 1].size = h[k].size - r - HEADER
      /\ h[k].size - r - HEADER \in Nat
  BY DEF CutAt
<1>5. h[k].addr \in Nat /\ h[k].size \in Nat
  BY <1>1
<1>6. CASE i < k
  BY <1>1, <1>2, <1>3, <1>6
<1>11. PICK A \in Nat, Z \in Nat : A = h[k].addr /\ Z = h[k].size /\ Z - r - HEADER \in Nat
  BY <1>4, <1>5
<1>12. /\ A + HEADER + r \in Nat /\ A <= A /\ A <= A + HEADER + r
       /\ A + HEADER + r <= A + HEADER + Z
       /\ (A + HEADER + r) + HEADER + (Z - r - HEADER) <= A + HEADER + Z
  <2>1. HEADER \in Nat /\ Z - r - HEADER \in Nat
    BY <1>1, <1>11
  <2>. QED  BY ONLY <2>1, A \in Nat, Z \in Nat, r \in Nat, CutSizes
<1>7. CASE i = k
  <2>1. o = k /\ g[i].addr = A /\ g[i].size = r
    BY <1>1, <1>4, <1>7, <1>11
  <2>. QED  BY <1>3, <1>11, <1>12, <2>1
<1>8. CASE i = k + 1
  <2>1. o = k /\ g[i].addr = A + HEADER + r /\ g[i].size = Z - r - HEADER
    BY <1>1, <1>4, <1>8, <1>11
  <2>. QED  BY <1>3, <1>11, <1>12, <2>1
<1>9. CASE i > k + 1
  <2>1. o = i - 1 /\ o > k /\ o + 1 = i
    BY <1>1, <1>2, <1>9
  <2>2. g[i] = h[o]
    BY <1>2, <1>3, <2>1
  <2>3. h[o].addr \in Nat /\ h[o].size \in Nat
    BY <1>1, <1>3
  <2>4. PICK b \in Nat, t \in Nat : b = h[o].addr /\ t = h[o].size
    BY <2>3
  <2>5. b <= b /\ b + HEADER + t <= b + HEADER + t
    BY ONLY <1>1, b \in Nat, t \in Nat
  <2>. QED  BY <1>3, <2>2, <2>3, <2>4, <2>5
<1>10. i \in Int /\ k \in Int
  BY <1>1, <1>2
<1>. QED  BY <1>6, <1>7, <1>8, <1>9, <1>10

\* A free block that is split leaves its first part to the caller.
LEMMA TakeSplit ==
  ASSUME NEW h, Laid(h), MergedBut(h, {}), NEW k \in 1 .. Len(h), h[k].is_free,
         NEW n \in Nat, Splits(h, k, n), NEW g, g = Split(h, k, n)
  PROVE  Adds(h, g, h[k].addr, RoundUp(n))
<1>1. /\ Len(h) \in Nat /\ HEADER \in Nat /\ MEMORY_POOL_SIZE \in Nat /\ h # <<>>
      /\ \A m \in 1 .. Len(h) : h[m].addr \in Nat /\ h[m].size \in Nat
      /\ \A m \in 1 .. Len(h) : h[m].addr = h[k].addr => m = k
      /\ k \in Int /\ 1 <= k /\ k <= Len(h)
  BY Places
<1>2. Around(h, k, g) /\ CutAt(h, k, RoundUp(n), g)
  BY SplitParts
<1>20. PICK r \in Nat : r = RoundUp(n) /\ CutAt(h, k, r, g)
  BY <1>2 DEF CutAt
<1>21. /\ g[k].addr = h[k].addr /\ g[k].size = r
       /\ g[k + 1].addr = h[k].addr + HEADER + r
       /\ g[k + 1].size = h[k].size - r - HEADER
  BY <1>20 DEF CutAt
<1>22. g \in Seq(Block) /\ Len(g) = Len(h) + 1 /\ ~g[k].is_free /\ g[k + 1].is_free
  BY <1>2 DEF Around
<1>23. /\ \A m \in 1 .. Len(h) : m < k => g[m] = h[m]
       /\ \A m \in 1 .. Len(h) : m > k => g[m + 1] = h[m]
  BY <1>2 DEF Around
<1>3. g[k + 1].addr + HEADER + g[k + 1].size = h[k].addr + HEADER + h[k].size
  <2>1. h[k].addr \in Nat /\ h[k].size \in Nat /\ h[k].size - r - HEADER \in Nat
    BY <1>1, <1>20 DEF CutAt
  <2>2. PICK A \in Nat, Z \in Nat : A = h[k].addr /\ Z = h[k].size
    BY <2>1
  <2>3. (A + HEADER + r) + HEADER + (Z - r - HEADER) = A + HEADER + Z
    <3>1. HEADER \in Nat /\ Z - r - HEADER \in Nat
      BY <1>1, <2>1, <2>2
    <3>. QED  BY ONLY <3>1, A \in Nat, Z \in Nat, r \in Nat, CutSizes
  <2>. QED  BY <1>21, <2>2, <2>3
<1>4. ASSUME NEW i \in 1 .. Len(g) - 1
      PROVE  g[i + 1].addr = g[i].addr + HEADER + g[i].size
  <2>1. CASE i + 1 < k
    <3>1. i \in 1 .. Len(h) - 1 /\ i \in 1 .. Len(h) /\ i + 1 \in 1 .. Len(h) /\ i < k
      BY <1>1, <1>22, <1>23, <2>1
    <3>2. g[i] = h[i] /\ g[i + 1] = h[i + 1]
      BY <1>23, <2>1, <3>1
    <3>3. h[i + 1].addr = h[i].addr + HEADER + h[i].size
      BY <3>1 DEF Laid
    <3>. QED  BY <3>2, <3>3
  <2>2. CASE i + 1 = k
    <3>1. i \in 1 .. Len(h) - 1 /\ i \in 1 .. Len(h) /\ i < k
      BY <1>1, <1>22, <1>23, <2>2
    <3>2. h[i + 1].addr = h[i].addr + HEADER + h[i].size
      BY <3>1 DEF Laid
    <3>3. g[i] = h[i]
      BY <1>23, <3>1
    <3>. QED  BY <1>21, <2>2, <3>2, <3>3
  <2>3. CASE i = k
    BY <1>21, <2>3
  <2>4. CASE i = k + 1
    <3>1. k \in 1 .. Len(h) - 1 /\ k + 1 \in 1 .. Len(h) /\ k + 1 > k
      BY <1>1, <1>22, <1>23, <2>4
    <3>2. g[(k + 1) + 1] = h[k + 1]
      BY <1>22, <1>23, <3>1
    <3>3. h[k + 1].addr = h[k].addr + HEADER + h[k].size
      BY <3>1 DEF Laid
    <3>. QED  BY <1>3, <2>4, <3>2, <3>3
  <2>5. CASE i > k + 1
    <3>1. PICK m \in 1 .. Len(h) - 1 : m = i - 1
      BY <1>1, <1>22, <1>23, <2>5
    <3>2. m \in 1 .. Len(h) /\ m + 1 \in 1 .. Len(h) /\ m > k /\ m + 1 > k /\ i = m + 1
      BY <1>1, <2>5, <3>1
    <3>3. g[m + 1] = h[m] /\ g[(m + 1) + 1] = h[m + 1]
      BY <1>22, <1>23, <3>2
    <3>4. h[m + 1].addr = h[m].addr + HEADER + h[m].size
      BY DEF Laid
    <3>. QED  BY <3>2, <3>3, <3>4
  <2>. QED  BY <1>1, <2>1, <2>2, <2>3, <2>4, <2>5
<1>5. ASSUME NEW i \in 1 .. Len(g), NEW j \in 1 .. Len(g), i < j
      PROVE  g[i].addr + HEADER + g[i].size <= g[j].addr
  <2>. DEFINE o(m) == IF m <= k THEN m ELSE m - 1
  <2>1. CASE o(i) < o(j)
    <3>1. /\ o(i) \in 1 .. Len(h) /\ g[i].addr \in Nat /\ g[i].size \in Nat
          /\ h[o(i)].addr \in Nat /\ h[o(i)].size \in Nat
          /\ g[i].addr + HEADER + g[i].size <= h[o(i)].addr + HEADER + h[o(i)].size
      BY <1>2, <1>20, SplitBounds
    <3>2. /\ o(j) \in 1 .. Len(h) /\ g[j].addr \in Nat /\ h[o(j)].addr \in Nat
          /\ h[o(j)].addr <= g[j].addr
      BY <1>2, <1>20, SplitBounds
    <3>. HIDE DEF o
    <3>3. h[o(i)].addr + HEADER + h[o(i)].size <= h[o(j)].addr
      BY <2>1, <3>1, <3>2 DEF Laid
    <3>4. PICK b \in Nat, b2 \in Nat : b = g[j].addr /\ b2 = h[o(j)].addr
      BY <3>2
    <3>. QED  BY <1>1, <3>1, <3>2, <3>3, <3>4, EndsBefore
  <2>2. CASE ~(o(i) < o(j))
    <3>1. i = k /\ j = k + 1
      BY <1>1, <1>22, <1>23, <1>5, <2>2
    <3>2. h[k].addr \in Nat /\ h[k].addr + HEADER + r \in Nat
      BY <1>1
    <3>. QED  BY <1>21, <3>1, <3>2
  <2>. QED  BY <2>1, <2>2
<1>6. ASSUME NEW i \in 1 .. Len(g) PROVE g[i].size >= 0
  BY <1>2, <1>20, SplitBounds
<1>7. g[1].addr = 0 /\ g # <<>>
  <2>1. 1 \in 1 .. Len(h) /\ h[1].addr = 0 /\ Len(g) > 0
    BY <1>1, <1>22 DEF Laid
  <2>2. CASE k = 1
    BY <1>21, <1>22, <2>1, <2>2
  <2>3. CASE 1 < k
    BY <1>22, <1>23, <2>1, <2>3
  <2>. QED  BY <1>1, <1>22, <1>23, <2>1, <2>2, <2>3
<1>8. EndOf(g) = EndOf(h)
  <2>1. EndOf(g) = g[Len(h) + 1].addr + HEADER + g[Len(h) + 1].size
    BY <1>22, <1>23, <1>7 DEF EndOf
  <2>2. EndOf(h) = h[Len(h)].addr + HEADER + h[Len(h)].size
    BY <1>1 DEF EndOf
  <2>3. CASE k = Len(h)
    BY <1>3, <2>1, <2>2, <2>3
  <2>4. CASE k < Len(h)
    <3>1. g[Len(h) + 1] = h[Len(h)]
      <4>1. Len(h) \in 1 .. Len(h) /\ Len(h) > k
        BY <1>1, <2>4
      <4>. QED  BY <1>23, <4>1
    <3>. QED  BY <2>1, <2>2, <3>1
  <2>. QED  BY <1>1, <2>3, <2>4
<1>9. Laid(g)
  BY <1>22, <1>23, <1>4, <1>5, <1>6, <1>7, <1>8 DEF Laid
<1>10. ASSUME NEW i \in 1 .. Len(g) - 1, g[i].is_free, g[i + 1].is_free PROVE FALSE
  <2>1. CASE i + 1 < k
    <3>1. i \in 1 .. Len(h) - 1 /\ i \in 1 .. Len(h) /\ i + 1 \in 1 .. Len(h) /\ i < k
      BY <1>1, <1>22, <1>23, <2>1
    <3>. QED  BY <1>22, <1>23, <1>10, <2>1, <3>1 DEF MergedBut
  <2>2. CASE i + 1 = k \/ i = k
    BY <1>22, <1>23, <1>10, <2>2
  <2>3. CASE i = k + 1
    <3>1. k \in 1 .. Len(h) - 1 /\ k + 1 \in 1 .. Len(h) /\ k + 1 > k
      BY <1>1, <1>22, <1>23, <2>3
    <3>2. g[(k + 1) + 1] = h[k + 1]
      BY <1>22, <1>23, <3>1
    <3>. QED  BY <1>10, <2>3, <3>1, <3>2 DEF MergedBut
  <2>4. CASE i > k + 1
    <3>1. PICK m \in 1 .. Len(h) - 1 : m = i - 1
      BY <1>1, <1>22, <1>23, <2>4
    <3>2. m \in 1 .. Len(h) /\ m + 1 \in 1 .. Len(h) /\ m > k /\ m + 1 > k /\ i = m + 1
      BY <1>1, <2>4, <3>1
    <3>3. g[m + 1] = h[m] /\ g[(m + 1) + 1] = h[m + 1]
      BY <1>22, <1>23, <3>2
    <3>. QED  BY <1>10, <3>2, <3>3 DEF MergedBut
  <2>. QED  BY <1>1, <2>1, <2>2, <2>3, <2>4
<1>11. MergedBut(g, {})
  BY <1>10 DEF MergedBut
<1>12. ASSUME NEW a \in Nat, NEW s \in Nat, Used(g, a, s)
       PROVE  Used(h, a, s) \/ (a = h[k].addr /\ s = RoundUp(n))
  <2>1. PICK i \in 1 .. Len(g) : ~g[i].is_free /\ g[i].addr = a /\ g[i].size = s
    BY <1>12 DEF Used
  <2>2. CASE i < k
    <3>1. i \in 1 .. Len(h) /\ g[i] = h[i]
      BY <1>1, <1>22, <1>23, <2>2
    <3>. QED  BY <2>1, <3>1 DEF Used
  <2>3. CASE i = k
    BY <1>20, <1>21, <2>1, <2>3
  <2>4. CASE i = k + 1
    BY <1>22, <1>23, <2>1, <2>4
  <2>5. CASE i > k + 1
    <3>1. PICK m \in 1 .. Len(h) : m = i - 1
      BY <1>1, <1>22, <1>23, <2>5
    <3>2. m > k /\ m + 1 = i
      BY <1>1, <2>5, <3>1
    <3>3. g[i] = h[m]
      BY <1>22, <1>23, <3>2
    <3>. QED  BY <2>1, <3>3 DEF Used
  <2>6. i \in Int
    BY <1>1, <1>2
  <2>. QED  BY <1>1, <2>2, <2>3, <2>4, <2>5, <2>6
<1>13. ASSUME NEW a \in Nat, NEW s \in Nat, Used(h, a, s)
       PROVE  Used(g, a, s) /\ a # h[k].addr
  <2>1. PICK m \in 1 .. Len(h) : ~h[m].is_free /\ h[m].addr = a /\ h[m].size = s
    BY <1>13 DEF Used
  <2>2. m # k
    BY <2>1
  <2>3. CASE m < k
    <3>1. m \in 1 .. Len(g) /\ g[m] = h[m]
      BY <1>1, <1>22, <1>23, <2>3
    <3>. QED  BY <1>1, <2>1, <2>2, <3>1 DEF Used
  <2>4. CASE m > k
    <3>1. m + 1 \in 1 .. Len(g) /\ g[m + 1] = h[m]
      BY <1>1, <1>22, <1>23, <2>4
    <3>. QED  BY <1>1, <2>1, <2>2, <3>1 DEF Used
  <2>. QED  BY <1>1, <2>2, <2>3, <2>4
<1>14. Used(g, h[k].addr, RoundUp(n))
  <2>1. k \in 1 .. Len(g)
    BY <1>1, <1>22
  <2>. QED  BY <1>20, <1>21, <1>22, <2>1 DEF Used
<1>15. h[k].addr \in Nat /\ RoundUp(n) \in Nat
  BY <1>1, <1>20
<1>16. \A t \in Nat : ~Used(h, h[k].addr, t)
  BY <1>13, <1>15
<1>17. \A b, t \in Nat : Used(g, b, t) <=> (Used(h, b, t) \/ (b = h[k].addr /\ t = RoundUp(n)))
  BY <1>12, <1>13, <1>14
<1>. QED  BY <1>9, <1>11, <1>15, <1>16, <1>17 DEF Adds

-----------------------------------------------------------------------------
(* malloc.                                                                 *)

LEMMA AppendAdds ==
  ASSUME NEW h, Laid(h), MergedBut(h, {}), NEW r \in Nat, EndOf(h) + HEADER + r <= MEMORY_POOL_SIZE,
         NEW g, g = Append(h, [addr |-> EndOf(h), size |-> r, is_free |-> FALSE])
  PROVE  Adds(h, g, EndOf(h), r)
<1>1. /\ h \in Seq(Block) /\ Len(h) \in Nat /\ HEADER \in Nat /\ HEADER > 0 /\ EndOf(h) \in Nat
      /\ h # <<>> <=> Len(h) > 0
      /\ \A k \in 1 .. Len(h) : /\ h[k].addr \in Nat /\ h[k].size \in Nat
                                /\ h[k].addr + HEADER + h[k].size <= EndOf(h)
  <2>1. h \in Seq(Block)
    BY DEF Laid
  <2>2. HEADER \in Nat \ {0} /\ EndOf(h) \in 0 .. MEMORY_POOL_SIZE
    BY Places
  <2>3. HEADER \in Nat /\ HEADER > 0 /\ EndOf(h) \in Nat
    BY <2>2
  <2>. QED  BY <2>1, <2>3, Places
<1>2. PICK e \in Nat : e = EndOf(h)
  BY <1>1
<1>3. PICK x \in Block : /\ x = [addr |-> EndOf(h), size |-> r, is_free |-> FALSE]
                         /\ x.addr = e /\ x.size = r /\ ~x.is_free
  <2>. DEFINE y == [addr |-> e, size |-> r, is_free |-> FALSE]
  <2>1. y \in Block
    BY DEF Block
  <2>2. y.addr = e /\ y.size = r /\ ~y.is_free
    OBVIOUS
  <2>3. y = [addr |-> EndOf(h), size |-> r, is_free |-> FALSE]
    BY <1>2
  <2>. HIDE DEF y
  <2>. QED  BY <2>1, <2>2, <2>3
<1>4. g = Append(h, x)
  BY <1>3
<1>5. /\ g \in Seq(Block) /\ Len(g) = Len(h) + 1 /\ g[Len(h) + 1] = x
      /\ \A i \in 1 .. Len(h) : g[i] = h[i]
  <2>. HIDE DEF Block
  <2>. QED  BY <1>1, <1>4
<1>6. \A i \in 1 .. Len(g) : i \in 1 .. Len(h) \/ i = Len(h) + 1
  BY <1>1, <1>5
<1>7. \A i \in 1 .. Len(g) : g[i].size >= 0
  BY <1>1, <1>3, <1>5, <1>6
<1>8. g # <<>> /\ g[1].addr = 0
  <2>1. g # <<>>
    BY <1>1, <1>5
  <2>2. CASE h = <<>>
    <3>1. Len(h) = 0 /\ e = 0
      BY <1>2, <2>2 DEF EndOf
    <3>. QED  BY <1>3, <1>5, <2>1, <3>1
  <2>3. CASE h # <<>>
    <3>1. 1 \in 1 .. Len(h) /\ h[1].addr = 0
      BY <1>1, <2>3 DEF Laid
    <3>. QED  BY <1>5, <2>1, <3>1
  <2>. QED  BY <2>2, <2>3
<1>9. ASSUME NEW i \in 1 .. Len(g) - 1
      PROVE  g[i + 1].addr = g[i].addr + HEADER + g[i].size
  <2>1. i \in 1 .. Len(h) /\ g[i] = h[i]
    BY <1>1, <1>5
  <2>2. CASE i < Len(h)
    <3>1. i \in 1 .. Len(h) - 1 /\ i + 1 \in 1 .. Len(h)
      BY <1>1, <2>1, <2>2
    <3>. QED  BY <1>5, <2>1, <3>1 DEF Laid
  <2>3. CASE i = Len(h)
    <3>1. e = h[i].addr + HEADER + h[i].size
      BY <1>1, <1>2, <2>1, <2>3 DEF EndOf
    <3>. QED  BY <1>3, <1>5, <2>1, <2>3, <3>1
  <2>. QED  BY <1>1, <2>1, <2>2, <2>3
<1>10. ASSUME NEW i \in 1 .. Len(g), NEW j \in 1 .. Len(g), i < j
       PROVE  g[i].addr + HEADER + g[i].size <= g[j].addr
  <2>1. i \in 1 .. Len(h) /\ g[i] = h[i]
    BY <1>1, <1>5, <1>10
  <2>2. CASE j \in 1 .. Len(h)
    BY <1>5, <1>10, <2>1, <2>2 DEF Laid
  <2>3. CASE j = Len(h) + 1
    BY <1>1, <1>2, <1>3, <1>5, <2>1, <2>3
  <2>. QED  BY <1>6, <2>2, <2>3
<1>11. EndOf(g) <= MEMORY_POOL_SIZE
  <2>1. EndOf(g) = e + HEADER + r
    BY <1>3, <1>5, <1>8 DEF EndOf
  <2>. QED  BY <1>2, <2>1
<1>12. Laid(g)
  BY <1>5, <1>7, <1>8, <1>9, <1>10, <1>11 DEF Laid
<1>13. MergedBut(g, {})
  <2>. SUFFICES ASSUME NEW i \in 1 .. Len(g) - 1, g[i].is_free, g[i + 1].is_free PROVE FALSE
    BY DEF MergedBut
  <2>1. i \in 1 .. Len(h) /\ g[i] = h[i]
    BY <1>1, <1>5
  <2>2. CASE i < Len(h)
    <3>1. i \in 1 .. Len(h) - 1 /\ i + 1 \in 1 .. Len(h)
      BY <1>1, <2>1, <2>2
    <3>. QED  BY <1>5, <2>1, <3>1 DEF MergedBut
  <2>3. CASE i = Len(h)
    BY <1>3, <1>5, <2>3
  <2>. QED  BY <1>1, <2>1, <2>2, <2>3
<1>14. ASSUME NEW t \in Nat PROVE ~Used(h, EndOf(h), t)
  <2>. SUFFICES ASSUME NEW m \in 1 .. Len(h), h[m].addr = EndOf(h) PROVE FALSE
    BY DEF Used
  <2>1. h[m].addr \in Nat /\ h[m].size \in Nat /\ h[m].addr + HEADER + h[m].size <= h[m].addr
    BY <1>1
  <2>. QED  BY <1>1, <2>1
<1>15. ASSUME NEW b \in Nat, NEW t \in Nat
       PROVE  Used(g, b, t) <=> (Used(h, b, t) \/ (b = EndOf(h) /\ t = r))
  <2>1. Used(g, b, t) <=> (Used(h, b, t) \/ (~x.is_free /\ x.addr = b /\ x.size = t))
    <3>1. Len(h) + 1 \in 1 .. Len(g) /\ \A i \in 1 .. Len(h) : i \in 1 .. Len(g)
      BY <1>1, <1>5
    <3>. QED  BY <1>5, <1>6, <3>1 DEF Used
  <2>. QED  BY <1>2, <1>3, <2>1
<1>. QED  BY <1>1, <1>12, <1>13, <1>14, <1>15 DEF Adds

LEMMA TakeAdds ==
  ASSUME NEW h, Laid(h), MergedBut(h, {}), NEW n \in Nat, SomeFit(h, n),
         NEW g, g = Take(h, FirstFit(h, n), n)
  PROVE  \E z \in Nat : z >= n /\ Adds(h, g, h[FirstFit(h, n)].addr, z)
<1>1. Len(h) \in Nat
  BY Places
<1>2. PICK k \in 1 .. Len(h) : k = FirstFit(h, n) /\ Fits(h, k, n)
  BY <1>1, FirstFitIs
<1>3. h[k].addr \in Nat /\ h[k].size \in Nat
  BY Places
<1>4. PICK r \in Nat : r = RoundUp(n) /\ r >= n
  BY RoundUpIs
<1>5. h[k].is_free /\ h[k].size >= r
  BY <1>2, <1>4 DEF Fits
<1>6. CASE Splits(h, k, n)
  <2>1. g = Split(h, k, n)
    BY <1>2, <1>6 DEF Take
  <2>2. Adds(h, g, h[k].addr, r)
    BY <1>4, <1>5, <1>6, <2>1, TakeSplit
  <2>. QED  BY <1>2, <1>4, <2>2
<1>7. CASE ~Splits(h, k, n)
  <2>1. g = [h EXCEPT ![k].is_free = FALSE]
    BY <1>2, <1>7 DEF Take
  <2>2. Adds(h, g, h[k].addr, h[k].size)
    BY <1>5, <2>1, TakeWhole
  <2>3. h[k].size >= n
    BY <1>3, <1>4, <1>5
  <2>. QED  BY <1>2, <1>3, <2>2, <2>3
<1>. QED  BY <1>6, <1>7

\* malloc gives away a block that was not given away, with room for what was
\* asked for, or changes nothing but perhaps for an empty block.
LEMMA MallocWorks ==
  ASSUME NEW h, Laid(h), MergedBut(h, {}), NEW n \in Nat, n > 0,
         NEW g, g = MallocHeap(h, n), NEW p, p = MallocPtr(h, n)
  PROVE  /\ Laid(g) /\ MergedBut(g, {})
         /\ p = NULL => \A b, t \in Nat : t > 0 => (Used(g, b, t) <=> Used(h, b, t))
         /\ p # NULL => \E a, z \in Nat : p = a + HEADER /\ z >= n /\ Adds(h, g, a, z)
<1>1. /\ Len(h) \in Nat /\ HEADER \in Nat /\ MEMORY_POOL_SIZE \in Nat /\ EndOf(h) \in Nat
      /\ HEADER <= MEMORY_POOL_SIZE
  BY Places, HeapAssumption
<1>2. PICK r \in Nat : r = RoundUp(n) /\ r >= n
  BY RoundUpIs
<1>3. CASE SomeFit(h, n)
  <2>1. g = Take(h, FirstFit(h, n), n) /\ p = h[FirstFit(h, n)].addr + HEADER
    BY <1>3 DEF MallocHeap, MallocPtr
  <2>2. PICK z \in Nat : z >= n /\ Adds(h, g, h[FirstFit(h, n)].addr, z)
    BY <1>3, <2>1, TakeAdds
  <2>3. PICK a \in Nat : a = h[FirstFit(h, n)].addr
    BY <2>2 DEF Adds
  <2>4. p = a + HEADER /\ p # NULL
    BY <1>1, <2>1, <2>3 DEF NULL
  <2>5. Adds(h, g, a, z)
    BY <2>2, <2>3
  <2>6. Laid(g) /\ MergedBut(g, {})
    BY <2>5 DEF Adds
  <2>. QED  BY <2>2, <2>4, <2>5, <2>6
<1>4. CASE ~SomeFit(h, n) /\ Room(h, n)
  <2>1. /\ g = Append(h, [addr |-> EndOf(h), size |-> r, is_free |-> FALSE])
        /\ p = EndOf(h) + HEADER
    BY <1>2, <1>4 DEF MallocHeap, MallocPtr
  <2>2. EndOf(h) + HEADER + r <= MEMORY_POOL_SIZE
    BY <1>2, <1>4 DEF Room
  <2>3. Adds(h, g, EndOf(h), r)
    BY <2>1, <2>2, AppendAdds
  <2>4. p # NULL
    BY <1>1, <2>1 DEF NULL
  <2>5. Laid(g) /\ MergedBut(g, {})
    BY <2>3 DEF Adds
  <2>. QED  BY <1>1, <1>2, <2>1, <2>3, <2>4, <2>5
<1>5. CASE ~SomeFit(h, n) /\ ~Room(h, n) /\ h = <<>>
  <2>1. g = <<[addr |-> 0, size |-> 0, is_free |-> FALSE]>> /\ p = NULL /\ EndOf(h) = 0
    BY <1>5 DEF MallocHeap, MallocPtr, EndOf
  <2>2. g = Append(h, [addr |-> EndOf(h), size |-> 0, is_free |-> FALSE])
    BY <1>5, <2>1
  <2>3. EndOf(h) + HEADER + 0 <= MEMORY_POOL_SIZE
    BY <1>1, <2>1
  <2>4. Adds(h, g, EndOf(h), 0)
    BY <2>2, <2>3, AppendAdds
  <2>. QED  BY <2>1, <2>4 DEF Adds
<1>6. CASE ~SomeFit(h, n) /\ ~Room(h, n) /\ h # <<>>
  <2>1. g = h /\ p = NULL
    BY <1>6 DEF MallocHeap, MallocPtr
  <2>. QED  BY <2>1
<1>. QED  BY <1>3, <1>4, <1>5, <1>6

-----------------------------------------------------------------------------
(* free.                                                                   *)

\* g is h with the free blocks k and k + 1 made one.
Fused(h, k, g) ==
  /\ g \in Seq(Block) /\ Len(g) = Len(h) - 1
  /\ \A i \in 1 .. Len(g) : i < k => g[i] = h[i]
  /\ \A i \in 1 .. Len(g) : i > k => g[i] = h[i + 1]
  /\ g[k].is_free

LEMMA MergeFuses ==
  ASSUME NEW h, Laid(h), NEW k \in 1 .. Len(h) - 1, h[k].is_free, NEW g, g = Merge(h, k)
  PROVE  /\ Fused(h, k, g)
         /\ g[k].addr = h[k].addr /\ g[k].size = h[k].size + HEADER + h[k + 1].size
<1>1. /\ Len(h) \in Nat /\ HEADER \in Nat
      /\ \A i \in 1 .. Len(h) : h[i] \in Block /\ h[i].addr \in Nat /\ h[i].size \in Nat
  BY Places
<1>2. k \in 1 .. Len(h) /\ k + 1 \in 1 .. Len(h) /\ k \in Int
  BY <1>1
<1>3. h[k].size + HEADER + h[k + 1].size \in Nat
  BY <1>1, <1>2
<1>4. PICK x \in Block : /\ x = [h[k] EXCEPT !.size = @ + HEADER + h[k + 1].size]
                         /\ x.addr = h[k].addr /\ x.is_free
                         /\ x.size = h[k].size + HEADER + h[k + 1].size
  <2>1. h[k] \in Block
    BY <1>1, <1>2
  <2>2. PICK z \in Nat : z = h[k].size + HEADER + h[k + 1].size
    BY <1>3
  <2>3. [h[k] EXCEPT !.size = z] \in Block
    BY <2>1 DEF Block
  <2>4. /\ [h[k] EXCEPT !.size = z].addr = h[k].addr
        /\ [h[k] EXCEPT !.size = z].size = z
        /\ [h[k] EXCEPT !.size = z].is_free = h[k].is_free
    BY <2>1 DEF Block
  <2>. QED  BY <2>2, <2>3, <2>4
<1>5. g = [i \in 1 .. Len(h) - 1 |-> IF i < k THEN h[i] ELSE IF i = k THEN x ELSE h[i + 1]]
  BY <1>4 DEF Merge
<1>6. ASSUME NEW i \in 1 .. Len(h) - 1
      PROVE  (IF i < k THEN h[i] ELSE IF i = k THEN x ELSE h[i + 1]) \in Block
  <2>1. i \in 1 .. Len(h) /\ i + 1 \in 1 .. Len(h)
    BY <1>1
  <2>. QED  BY <1>1, <1>4, <2>1
<1>7. g \in Seq(Block) /\ Len(g) = Len(h) - 1
  <2>1. Len(h) - 1 \in Nat
    BY <1>1, <1>2
  <2>. HIDE DEF Block
  <2>. QED  BY <1>5, <1>6, <2>1
<1>8. g[k] = x
  BY <1>2, <1>5
<1>9. \A i \in 1 .. Len(g) : (i < k => g[i] = h[i]) /\ (i > k => g[i] = h[i + 1])
  BY <1>2, <1>5, <1>7
<1>. QED  BY <1>4, <1>7, <1>8, <1>9 DEF Fused

\* The merged block takes the room of both and its header's place is the
\* first one's: the layout stays, and so do the allocated blocks.
LEMMA MergeLaid ==
  ASSUME NEW h, Laid(h), NEW k \in 1 .. Len(h) - 1, h[k].is_free, NEW g, g = Merge(h, k)
  PROVE  Laid(g)
<1>1. /\ Len(h) \in Nat /\ HEADER \in Nat /\ h # <<>>
      /\ \A i \in 1 .. Len(h) : h[i].addr \in Nat /\ h[i].size \in Nat
  BY Places
<1>2. k \in 1 .. Len(h) /\ k + 1 \in 1 .. Len(h) /\ k \in Int
  BY <1>1
<1>3. /\ Fused(h, k, g)
      /\ g[k].addr = h[k].addr /\ g[k].size = h[k].size + HEADER + h[k + 1].size
  BY MergeFuses
<1>4. /\ g \in Seq(Block) /\ Len(g) = Len(h) - 1 /\ k \in 1 .. Len(g)
      /\ \A i \in 1 .. Len(g) : i < k => g[i] = h[i]
      /\ \A i \in 1 .. Len(g) : i > k => g[i] = h[i + 1]
  BY <1>1, <1>3 DEF Fused
<1>5. \A i \in 1 .. Len(h) - 1 : h[i + 1].addr = h[i].addr + HEADER + h[i].size
  BY DEF Laid
<1>. DEFINE f(i) == IF i <= k THEN i ELSE i + 1
            l(i) == IF i < k THEN i ELSE i + 1
<1>6. ASSUME NEW i \in 1 .. Len(g)
      PROVE  /\ f(i) \in 1 .. Len(h) /\ l(i) \in 1 .. Len(h)
             /\ g[i].addr = h[f(i)].addr /\ g[i].size \in Nat
             /\ g[i].addr + HEADER + g[i].size = h[l(i)].addr + HEADER + h[l(i)].size
  <2>1. f(i) \in 1 .. Len(h) /\ l(i) \in 1 .. Len(h)
    BY <1>1, <1>2, <1>4
  <2>2. CASE i < k
    <3>1. g[i] = h[i] /\ f(i) = i /\ l(i) = i
      BY <1>4, <2>2
    <3>. QED  BY <1>1, <2>1, <3>1
  <2>3. CASE i = k
    <3>1. PICK a \in Nat, z \in Nat, y \in Nat : a = h[k].addr /\ z = h[k].size /\ y = h[k + 1].size
      BY <1>1, <1>2
    <3>2. h[k + 1].addr = a + HEADER + z
      BY <1>5, <3>1
    <3>3. a + HEADER + (z + HEADER + y) = (a + HEADER + z) + HEADER + y /\ z + HEADER + y \in Nat
      BY <1>1
    <3>4. g[i].addr = a /\ g[i].size = z + HEADER + y /\ f(i) = k /\ l(i) = k + 1
      BY <1>2, <1>3, <2>3, <3>1
    <3>. QED  BY <2>1, <3>1, <3>2, <3>3, <3>4
  <2>4. CASE i > k
    <3>1. g[i] = h[i + 1] /\ f(i) = i + 1 /\ l(i) = i + 1
      BY <1>2, <1>4, <2>4
    <3>. QED  BY <1>1, <2>1, <3>1
  <2>. QED  BY <1>2, <1>4, <2>2, <2>3, <2>4
<1>7. \A i \in 1 .. Len(g) - 1 : /\ i \in 1 .. Len(g) /\ i + 1 \in 1 .. Len(g)
                                 /\ l(i) \in 1 .. Len(h) - 1 /\ f(i + 1) = l(i) + 1
  BY <1>1, <1>2, <1>4
<1>8. \A i, j \in 1 .. Len(g) : i < j => l(i) < f(j)
  BY <1>1, <1>2, <1>4
<1>9. l(Len(g)) = Len(h) /\ Len(g) \in 1 .. Len(g) /\ f(1) = 1 /\ 1 \in 1 .. Len(g) /\ g # <<>>
  BY <1>1, <1>2, <1>4
<1>. HIDE DEF f, l
<1>10. \A i \in 1 .. Len(g) - 1 : g[i + 1].addr = g[i].addr + HEADER + g[i].size
  <2>. TAKE i \in 1 .. Len(g) - 1
  <2>1. /\ g[i + 1].addr = h[f(i + 1)].addr
        /\ g[i].addr + HEADER + g[i].size = h[l(i)].addr + HEADER + h[l(i)].size
    BY <1>6, <1>7
  <2>2. h[l(i) + 1].addr = h[l(i)].addr + HEADER + h[l(i)].size
    BY <1>5, <1>7
  <2>. QED  BY <1>7, <2>1, <2>2
<1>11. ASSUME NEW i \in 1 .. Len(g), NEW j \in 1 .. Len(g), i < j
       PROVE  g[i].addr + HEADER + g[i].size <= g[j].addr
  <2>1. h[l(i)].addr + HEADER + h[l(i)].size <= h[f(j)].addr
    BY <1>6, <1>8, <1>11 DEF Laid
  <2>. QED  BY <1>6, <2>1
<1>12. g[1].addr = 0
  BY <1>1, <1>6, <1>9 DEF Laid
<1>13. EndOf(g) = EndOf(h)
  <2>1. /\ EndOf(g) = g[Len(g)].addr + HEADER + g[Len(g)].size
        /\ EndOf(h) = h[Len(h)].addr + HEADER + h[Len(h)].size
    BY <1>1, <1>9 DEF EndOf
  <2>2. g[Len(g)].addr + HEADER + g[Len(g)].size = h[l(Len(g))].addr + HEADER + h[l(Len(g))].size
    BY <1>6, <1>9
  <2>. QED  BY <1>9, <2>1, <2>2
<1>14. \A i \in 1 .. Len(g) : g[i].size >= 0
  BY <1>6
<1>. QED  BY <1>4, <1>10, <1>11, <1>12, <1>13, <1>14 DEF Laid

LEMMA MergeUsed ==
  ASSUME NEW h, Laid(h), NEW k \in 1 .. Len(h) - 1, h[k].is_free, h[k + 1].is_free,
         NEW g, g = Merge(h, k), NEW a, NEW s
  PROVE  Used(g, a, s) <=> Used(h, a, s)
<1>1. Len(h) \in Nat
  BY Places
<1>2. k \in 1 .. Len(h) /\ k + 1 \in 1 .. Len(h) /\ k \in Int
  BY <1>1
<1>3. Fused(h, k, g)
  BY MergeFuses
<1>4. /\ Len(g) = Len(h) - 1 /\ g[k].is_free
      /\ \A i \in 1 .. Len(g) : i < k => g[i] = h[i]
      /\ \A i \in 1 .. Len(g) : i > k => g[i] = h[i + 1]
  BY <1>3 DEF Fused
<1>5. ASSUME Used(g, a, s) PROVE Used(h, a, s)
  <2>1. PICK i \in 1 .. Len(g) : ~g[i].is_free /\ g[i].addr = a /\ g[i].size = s
    BY <1>5 DEF Used
  <2>2. i # k
    BY <1>4, <2>1
  <2>3. CASE i < k
    <3>1. i \in 1 .. Len(h) /\ g[i] = h[i]
      BY <1>1, <1>4, <2>3
    <3>. QED  BY <2>1, <3>1 DEF Used
  <2>4. CASE i > k
    <3>1. i + 1 \in 1 .. Len(h) /\ g[i] = h[i + 1]
      BY <1>1, <1>4, <2>4
    <3>. QED  BY <2>1, <3>1 DEF Used
  <2>. QED  BY <1>1, <1>2, <1>4, <2>2, <2>3, <2>4
<1>6. ASSUME Used(h, a, s) PROVE Used(g, a, s)
  <2>1. PICK i \in 1 .. Len(h) : ~h[i].is_free /\ h[i].addr = a /\ h[i].size = s
    BY <1>6 DEF Used
  <2>2. i # k /\ i # k + 1
    BY <2>1
  <2>3. CASE i < k
    <3>1. i \in 1 .. Len(g) /\ g[i] = h[i]
      BY <1>1, <1>2, <1>4, <2>3
    <3>. QED  BY <2>1, <3>1 DEF Used
  <2>4. CASE i > k + 1
    <3>1. PICK m \in 1 .. Len(g) : m + 1 = i /\ m > k
      <4>1. i - 1 \in 1 .. Len(g) /\ (i - 1) + 1 = i /\ i - 1 > k
        BY <1>1, <1>2, <1>4, <2>4
      <4>. QED  BY <4>1
    <3>2. g[m] = h[i]
      BY <1>4, <3>1
    <3>. QED  BY <2>1, <3>2 DEF Used
  <2>. QED  BY <1>1, <1>2, <2>2, <2>3, <2>4
<1>. QED  BY <1>5, <1>6

\* A merge at k leaves no two free neighbours there, if there were none behind.
LEMMA MergeMerges ==
  ASSUME NEW h, Laid(h), NEW k \in 1 .. Len(h) - 1, h[k].is_free, h[k + 1].is_free,
         NEW g, g = Merge(h, k), NEW S, MergedBut(h, S), \A i \in S : i <= k
  PROVE  MergedBut(g, S \ {k})
<1>1. Len(h) \in Nat
  BY Places
<1>2. k \in 1 .. Len(h) /\ k + 1 \in 1 .. Len(h) /\ k \in Int
  BY <1>1
<1>3. Fused(h, k, g)
  BY MergeFuses
<1>4. /\ Len(g) = Len(h) - 1 /\ g[k].is_free
      /\ \A i \in 1 .. Len(g) : i < k => g[i] = h[i]
      /\ \A i \in 1 .. Len(g) : i > k => g[i] = h[i + 1]
  BY <1>3 DEF Fused
<1>. SUFFICES ASSUME NEW i \in 1 .. Len(g) - 1, g[i].is_free, g[i + 1].is_free
              PROVE  i \in S \ {k}
  BY DEF MergedBut
<1>5. i \in 1 .. Len(g) /\ i + 1 \in 1 .. Len(g) /\ i \in Int
  BY <1>1, <1>4
<1>6. CASE i < k
  <2>1. i \in 1 .. Len(h) - 1 /\ h[i].is_free
    BY <1>1, <1>4, <1>5, <1>6
  <2>2. h[i + 1].is_free
    <3>1. CASE i + 1 = k
      BY <3>1
    <3>2. CASE i + 1 < k
      BY <1>4, <1>5, <3>2
    <3>. QED  BY <1>2, <1>5, <1>6, <3>1, <3>2
  <2>3. i # k
    BY <1>2, <1>5, <1>6
  <2>. QED  BY <2>1, <2>2, <2>3 DEF MergedBut
<1>7. CASE i >= k
  <2>1. i + 1 > k /\ i + 1 \in 1 .. Len(h) - 1 /\ ~(i + 1 <= k)
    BY <1>1, <1>2, <1>4, <1>5, <1>7
  <2>2. h[(i + 1) + 1].is_free
    BY <1>4, <1>5, <2>1
  <2>3. h[i + 1].is_free
    <3>1. CASE i = k
      BY <3>1
    <3>2. CASE i > k
      BY <1>4, <1>5, <3>2
    <3>. QED  BY <1>2, <1>5, <1>7, <3>1, <3>2
  <2>4. i + 1 \in S
    BY <2>1, <2>2, <2>3 DEF MergedBut
  <2>. QED  BY <2>1, <2>4
<1>. QED  BY <1>2, <1>5, <1>6, <1>7

\* free gives back the one block of the pointer and leaves the others, and
\* two free neighbours are made one on either side of it.
Drops(h, g, a) ==
  /\ Laid(g) /\ MergedBut(g, {})
  /\ \A b, t \in Nat : Used(g, b, t) <=> (Used(h, b, t) /\ b # a)

LEMMA FreeWorks ==
  ASSUME NEW h, Laid(h), MergedBut(h, {}), NEW a \in Nat, NEW z \in Nat, Used(h, a, z),
         NEW g, g = FreeHeap(h, a + HEADER)
  PROVE  Drops(h, g, a)
<1>1. /\ Len(h) \in Nat /\ HEADER \in Nat
      /\ \A i \in 1 .. Len(h) : h[i].addr \in Nat
      /\ \A i, j \in 1 .. Len(h) : h[i].addr = h[j].addr => i = j
  BY Places
<1>2. PICK k \in 1 .. Len(h) : ~h[k].is_free /\ h[k].addr = a
  BY DEF Used
<1>3. BlockOf(h, a + HEADER) = k
  <2>1. \A i \in 1 .. Len(h) : h[i].addr + HEADER = a + HEADER => h[i].addr = h[k].addr
    BY <1>1, <1>2
  <2>2. h[k].addr + HEADER = a + HEADER
    BY <1>2
  <2>. QED  BY <1>1, <2>1, <2>2 DEF BlockOf
<1>. DEFINE h1 == [h EXCEPT ![k].is_free = TRUE]
            h2 == MergeNext(h1, k)
<1>4. g = MergePrev(h2, k)
  BY <1>3 DEF FreeHeap
<1>5. SameBut(h, k, TRUE, h1)
  <2>1. PICK b \in BOOLEAN : b = TRUE
    OBVIOUS
  <2>2. h1 = [h EXCEPT ![k].is_free = b]
    BY <2>1
  <2>. HIDE DEF h1
  <2>3. SameBut(h, k, b, h1)
    BY <2>2, Marked
  <2>. QED  BY <2>1, <2>3
<1>. HIDE DEF h1
<1>6. /\ Laid(h1) /\ Len(h1) = Len(h)
      /\ \A i \in 1 .. Len(h) : /\ h1[i].addr = h[i].addr /\ h1[i].size = h[i].size
                                /\ h1[i].is_free = IF i = k THEN TRUE ELSE h[i].is_free
  BY <1>5 DEF SameBut
<1>7. k \in 1 .. Len(h1) /\ h1[k].is_free /\ k \in Int
  <2>1. h1[k].is_free = TRUE
    BY <1>6
  <2>2. h1[k].is_free
    BY <2>1, Zenon
  <2>. QED  BY <1>1, <1>6, <2>2
<1>8. MergedBut(h1, {k - 1, k})
  <2>. SUFFICES ASSUME NEW i \in 1 .. Len(h1) - 1, h1[i].is_free, h1[i + 1].is_free,
                       i # k - 1, i # k
                PROVE  FALSE
    BY DEF MergedBut
  <2>1. i \in 1 .. Len(h) - 1 /\ i \in 1 .. Len(h) /\ i + 1 \in 1 .. Len(h) /\ i + 1 # k
    BY <1>1, <1>6, <1>7
  <2>2. h[i].is_free /\ h[i + 1].is_free
    BY <1>6, <2>1
  <2>. QED  BY <2>1, <2>2 DEF MergedBut
<1>9. \A b, t \in Nat : Used(h1, b, t) <=> (Used(h, b, t) /\ b # a)
  <2>. TAKE b, t \in Nat
  <2>1. \A i \in 1 .. Len(h) : i # k => /\ h1[i].is_free = h[i].is_free /\ h[i].addr # a
                                        /\ h1[i].addr = h[i].addr /\ h1[i].size = h[i].size
    BY <1>1, <1>2, <1>6
  <2>2. ASSUME Used(h1, b, t) PROVE Used(h, b, t) /\ b # a
    <3>1. PICK i \in 1 .. Len(h) : ~h1[i].is_free /\ h1[i].addr = b /\ h1[i].size = t
      BY <1>6, <2>2 DEF Used
    <3>2. i # k
      BY <1>7, <3>1
    <3>. QED  BY <2>1, <3>1, <3>2 DEF Used
  <2>3. ASSUME Used(h, b, t), b # a PROVE Used(h1, b, t)
    <3>1. PICK i \in 1 .. Len(h) : ~h[i].is_free /\ h[i].addr = b /\ h[i].size = t
      BY <2>3 DEF Used
    <3>2. i # k
      BY <1>2, <2>3, <3>1
    <3>. QED  BY <1>6, <2>1, <3>1, <3>2 DEF Used
  <2>. QED  BY <2>2, <2>3
<1>10. /\ Laid(h2) /\ MergedBut(h2, {k - 1}) /\ k \in 1 .. Len(h2) /\ h2[k].is_free
       /\ \A b, t \in Nat : Used(h2, b, t) <=> Used(h1, b, t)
  <2>1. CASE k < Len(h1) /\ h1[k + 1].is_free
    <3>1. h2 = Merge(h1, k) /\ k \in 1 .. Len(h1) - 1
      BY <1>1, <1>6, <1>7, <2>1 DEF MergeNext
    <3>. HIDE DEF h2
    <3>2. Laid(h2)
      BY <1>6, <1>7, <3>1, MergeLaid
    <3>3. \A b, t \in Nat : Used(h2, b, t) <=> Used(h1, b, t)
      BY <1>6, <1>7, <2>1, <3>1, MergeUsed
    <3>4. k \in 1 .. Len(h2) /\ h2[k].is_free
      <4>1. Fused(h1, k, h2)
        BY <1>6, <1>7, <3>1, MergeFuses
      <4>. QED  BY <1>1, <1>6, <3>1, <4>1 DEF Fused
    <3>5. MergedBut(h2, {k - 1, k} \ {k})
      <4>1. \A i \in {k - 1, k} : i <= k
        BY <1>7
      <4>. QED  BY <1>6, <1>7, <1>8, <2>1, <3>1, <4>1, MergeMerges
    <3>6. {k - 1, k} \ {k} = {k - 1}
      BY <1>7
    <3>. QED  BY <3>2, <3>3, <3>4, <3>5, <3>6
  <2>2. CASE ~(k < Len(h1) /\ h1[k + 1].is_free)
    <3>1. h2 = h1
      BY <2>2 DEF MergeNext
    <3>2. MergedBut(h1, {k - 1})
      <4>1. \A i \in 1 .. Len(h1) - 1 : i = k => k < Len(h1)
        BY <1>1, <1>6
      <4>. QED  BY <1>8, <2>2, <4>1 DEF MergedBut
    <3>. QED  BY <1>6, <1>7, <3>1, <3>2
  <2>. QED  BY <2>1, <2>2
<1>. HIDE DEF h2
<1>11. Len(h2) \in Nat
  BY <1>10, Places
<1>12. /\ Laid(g) /\ MergedBut(g, {})
       /\ \A b, t \in Nat : Used(g, b, t) <=> Used(h2, b, t)
  <2>1. CASE k > 1 /\ h2[k - 1].is_free
    <3>1. PICK m \in 1 .. Len(h2) - 1 : m = k - 1
      BY <1>7, <1>10, <1>11, <2>1
    <3>2. m + 1 = k
      BY <1>7, <3>1
    <3>3. g = Merge(h2, m) /\ h2[m].is_free /\ h2[m + 1].is_free /\ MergedBut(h2, {m})
      BY <1>4, <1>10, <2>1, <3>1, <3>2 DEF MergePrev
    <3>4. Laid(g)
      BY <1>10, <3>3, MergeLaid
    <3>5. \A b, t \in Nat : Used(g, b, t) <=> Used(h2, b, t)
      BY <1>10, <3>3, MergeUsed
    <3>6. MergedBut(g, {m} \ {m})
      <4>1. \A i \in {m} : i <= m
        BY <1>11
      <4>. QED  BY <1>10, <3>3, <4>1, MergeMerges
    <3>7. {m} \ {m} = {}
      OBVIOUS
    <3>. QED  BY <3>4, <3>5, <3>6, <3>7
  <2>2. CASE ~(k > 1 /\ h2[k - 1].is_free)
    <3>1. g = h2
      BY <1>4, <2>2 DEF MergePrev
    <3>2. \A i \in 1 .. Len(h2) - 1 : i = k - 1 => k > 1
      BY <1>7, <1>11
    <3>3. MergedBut(h2, {})
      BY <1>10, <2>2, <3>2 DEF MergedBut
    <3>. QED  BY <1>10, <3>1, <3>3
  <2>. QED  BY <2>1, <2>2
<1>. QED  BY <1>9, <1>10, <1>12 DEF Drops

-----------------------------------------------------------------------------
(* The calls keep the invariant.                                           *)

\* A pointer in use is that of an allocated block; one that is not is NULL.
LEMMA Pointers ==
  ASSUME ClientsHold, NEW c \in Clients
  PROVE  /\ HEADER \in Nat /\ HEADER > 0
         /\ live[c] \in [ptr : Int, size : Nat, data : Nat]
         /\ live[c] # None => /\ live[c].size > 0 /\ live[c].data <= live[c].size
                              /\ live[c].ptr # NULL /\ live[c].ptr \in Nat
                              /\ \E a, s \in Nat : /\ Used(heap, a, s) /\ s >= live[c].size
                                                   /\ live[c].ptr = a + HEADER
         /\ live[c] = None => /\ live[c].ptr = NULL
                              /\ \A a \in Nat : a + HEADER # live[c].ptr
<1>1. HEADER \in Nat /\ HEADER > 0
  BY HeapAssumption
<1>2. live[c] \in [ptr : Int, size : Nat, data : Nat]
  BY DEF ClientsHold
<1>3. ASSUME live[c] # None
      PROVE  /\ live[c].size > 0 /\ live[c].data <= live[c].size
             /\ live[c].ptr # NULL /\ live[c].ptr \in Nat
             /\ \E a, s \in Nat : /\ Used(heap, a, s) /\ s >= live[c].size
                                  /\ live[c].ptr = a + HEADER
  <2>1. live[c].size > 0 /\ live[c].data <= live[c].size /\ Held(c)
    BY <1>3 DEF ClientsHold
  <2>2. PICK a \in Nat, s \in Nat :
          Used(heap, a, s) /\ live[c].ptr = a + HEADER /\ s >= live[c].size
    BY <2>1 DEF Held
  <2>3. a + HEADER # NULL /\ a + HEADER \in Nat
    BY <1>1 DEF NULL
  <2>. QED  BY <2>1, <2>2, <2>3
<1>4. ASSUME live[c] = None
      PROVE  live[c].ptr = NULL /\ \A a \in Nat : a + HEADER # live[c].ptr
  <2>1. live[c].ptr = NULL
    BY <1>4 DEF None
  <2>2. \A a \in Nat : a + HEADER # NULL
    BY <1>1 DEF NULL
  <2>. QED  BY <2>1, <2>2
<1>. QED  BY <1>1, <1>2, <1>3, <1>4

\* The step of a call that gives c the block at a, of size z, for n bytes of
\* which x hold its data, and takes back the block c had before, if any.
Gives(c, n, x, a, z) ==
  /\ n > 0 /\ x <= n /\ z >= n
  /\ \A t \in Nat : ~Used(heap, a, t)
  /\ Laid(heap') /\ MergedBut(heap', {})
  /\ \A b, t \in Nat : Used(heap', b, t) <=>
       ((Used(heap, b, t) /\ b + HEADER # live[c].ptr) \/ (b = a /\ t = z))
  /\ live' = [live EXCEPT ![c] = [ptr |-> a + HEADER, size |-> n, data |-> x]]

LEMMA Given ==
  ASSUME HeapInv, NEW c \in Clients, NEW n \in Nat, NEW x \in Nat, NEW a \in Nat, NEW z \in Nat,
         Gives(c, n, x, a, z)
  PROVE  HeapInv'
<1>0. /\ n > 0 /\ x <= n /\ z >= n
      /\ \A t \in Nat : ~Used(heap, a, t)
      /\ Laid(heap') /\ MergedBut(heap', {})
      /\ \A b, t \in Nat : Used(heap', b, t) <=>
           ((Used(heap, b, t) /\ b + HEADER # live[c].ptr) \/ (b = a /\ t = z))
      /\ live' = [live EXCEPT ![c] = [ptr |-> a + HEADER, size |-> n, data |-> x]]
  BY DEF Gives
<1>. USE <1>0
<1>1. ClientsHold /\ Owned /\ HEADER \in Nat
  BY HeapAssumption DEF HeapInv
<1>2. PICK y \in [ptr : Int, size : Nat, data : Nat] :
        /\ y = [ptr |-> a + HEADER, size |-> n, data |-> x]
        /\ y.ptr = a + HEADER /\ y.size = n /\ y.data = x
  <2>. DEFINE w == [ptr |-> a + HEADER, size |-> n, data |-> x]
  <2>1. w \in [ptr : Int, size : Nat, data : Nat]
    BY <1>1
  <2>2. w.ptr = a + HEADER /\ w.size = n /\ w.data = x
    OBVIOUS
  <2>. HIDE DEF w
  <2>. QED  BY <2>1, <2>2 DEF w
<1>3. /\ live \in [Clients -> [ptr : Int, size : Nat, data : Nat]]
      /\ live' \in [Clients -> [ptr : Int, size : Nat, data : Nat]]
      /\ live'[c] = y /\ \A d \in Clients : d # c => live'[d] = live[d]
  BY <1>1, <1>2 DEF ClientsHold
<1>4. ASSUME NEW d \in Clients, d # c, live[d] # None
      PROVE  /\ live[d].ptr # live[c].ptr /\ live[d].ptr # a + HEADER
             /\ \E b, t \in Nat : Used(heap', b, t) /\ live[d].ptr = b + HEADER /\ t >= live[d].size
  <2>1. PICK b \in Nat, t \in Nat :
          Used(heap, b, t) /\ t >= live[d].size /\ live[d].ptr = b + HEADER
    BY <1>1, <1>4, Pointers
  <2>2. live[d].ptr # live[c].ptr
    BY <1>1, <1>4 DEF ClientsHold
  <2>3. b # a
    BY <2>1
  <2>4. b + HEADER # a + HEADER
    BY <1>1, <2>3
  <2>. QED  BY <2>1, <2>2, <2>4
<1>5. Used(heap', a, z)
  OBVIOUS
<1>6. ASSUME NEW d \in Clients, live'[d] # None
      PROVE  /\ live'[d].size > 0 /\ live'[d].data <= live'[d].size
             /\ \E b, t \in Nat : Used(heap', b, t) /\ live'[d].ptr = b + HEADER /\ t >= live'[d].size
  <2>1. CASE d = c
    BY <1>2, <1>3, <1>5, <2>1
  <2>2. CASE d # c
    <3>1. live'[d] = live[d] /\ live[d] # None
      BY <1>3, <1>6, <2>2
    <3>2. live[d].size > 0 /\ live[d].data <= live[d].size
      BY <1>1, <3>1, Pointers
    <3>. QED  BY <1>4, <2>2, <3>1, <3>2
  <2>. QED  BY <2>1, <2>2
<1>7. ASSUME NEW d \in Clients, d # c PROVE live'[d].ptr # a + HEADER
  <2>1. CASE live[d] = None
    BY <1>1, <1>3, <1>7, <2>1, Pointers
  <2>2. CASE live[d] # None
    BY <1>3, <1>4, <1>7, <2>2
  <2>. QED  BY <2>1, <2>2
<1>8. ASSUME NEW d \in Clients, NEW e \in Clients, live'[d] # None, live'[d].ptr = live'[e].ptr
      PROVE  d = e
  <2>1. CASE d = c \/ e = c
    BY <1>2, <1>3, <1>7, <1>8, <2>1
  <2>2. CASE d # c /\ e # c
    <3>1. live'[d] = live[d] /\ live'[e] = live[e]
      BY <1>3, <2>2
    <3>. QED  BY <1>1, <1>8, <3>1 DEF ClientsHold
  <2>. QED  BY <2>1, <2>2
<1>9. ClientsHold'
  BY <1>3, <1>6, <1>8 DEF ClientsHold, Held
<1>10. ASSUME NEW b \in Nat, NEW t \in Nat, Used(heap', b, t), t > 0
       PROVE  \E d \in Clients : live'[d].ptr = b + HEADER
  <2>1. CASE b = a /\ t = z
    BY <1>2, <1>3, <2>1
  <2>2. CASE Used(heap, b, t) /\ b + HEADER # live[c].ptr
    <3>1. PICK d \in Clients : live[d].ptr = b + HEADER
      BY <1>1, <1>10, <2>2 DEF Owned
    <3>2. d # c
      BY <2>2, <3>1
    <3>. QED  BY <1>3, <3>1, <3>2
  <2>. QED  BY <1>10, <2>1, <2>2
<1>11. Owned'
  BY <1>10 DEF Owned
<1>. QED  BY <1>9, <1>11 DEF HeapInv

\* The step of a call that changes no block in use.
LEMMA Kept ==
  ASSUME HeapInv, Laid(heap'), MergedBut(heap', {}),
         \A b, t \in Nat : t > 0 => (Used(heap', b, t) <=> Used(heap, b, t)),
         live' \in [Clients -> [ptr : Int, size : Nat, data : Nat]],
         \A d \in Clients : live'[d] # None => live[d] # None,
         \A d \in Clients : live'[d].ptr = live[d].ptr /\ live'[d].size = live[d].size,
         \A d \in Clients : live'[d] # None => live'[d].data <= live'[d].size
  PROVE  HeapInv'
<1>1. ClientsHold /\ Owned
  BY DEF HeapInv
<1>2. ASSUME NEW d \in Clients, live'[d] # None
      PROVE  /\ live'[d].size > 0
             /\ \E b, t \in Nat : Used(heap', b, t) /\ live'[d].ptr = b + HEADER /\ t >= live'[d].size
  <2>1. live[d] # None /\ live[d].size > 0 /\ live[d].size \in Nat
    BY <1>1, <1>2, Pointers
  <2>2. PICK b \in Nat, t \in Nat :
          Used(heap, b, t) /\ t >= live[d].size /\ live[d].ptr = b + HEADER
    BY <1>1, <2>1, Pointers
  <2>3. t > 0
    BY <2>1, <2>2
  <2>. QED  BY <2>1, <2>2, <2>3
<1>3. ASSUME NEW d \in Clients, NEW e \in Clients, live'[d] # None, live'[d].ptr = live'[e].ptr
      PROVE  d = e
  BY <1>1, <1>3 DEF ClientsHold
<1>4. ClientsHold'
  BY <1>2, <1>3 DEF ClientsHold, Held
<1>5. Owned'
  BY <1>1 DEF Owned
<1>. QED  BY <1>4, <1>5 DEF HeapInv

LEMMA FreeStep ==
  ASSUME HeapInv, NEW c \in Clients, free(c)
  PROVE  HeapInv'
<1>1. ClientsHold /\ Owned /\ HEADER \in Nat /\ Laid(heap) /\ MergedBut(heap, {})
  BY HeapAssumption DEF HeapInv
<1>2. live[c] # None /\ heap' = FreeHeap(heap, live[c].ptr) /\ live' = [live EXCEPT ![c] = None]
  BY DEF free
<1>3. PICK a \in Nat, s \in Nat : Used(heap, a, s) /\ live[c].ptr = a + HEADER
  BY <1>1, <1>2, Pointers
<1>4. PICK g : g = heap'
  OBVIOUS
<1>5. Drops(heap, g, a)
  BY <1>1, <1>2, <1>3, <1>4, FreeWorks
<1>6. /\ Laid(heap') /\ MergedBut(heap', {})
      /\ \A b, t \in Nat : Used(heap', b, t) <=> (Used(heap, b, t) /\ b # a)
  BY <1>4, <1>5 DEF Drops
<1>7. None \in [ptr : Int, size : Nat, data : Nat]
  BY DEF None, NULL
<1>8. /\ live \in [Clients -> [ptr : Int, size : Nat, data : Nat]]
      /\ live' \in [Clients -> [ptr : Int, size : Nat, data : Nat]]
      /\ live'[c] = None /\ \A d \in Clients : d # c => live'[d] = live[d]
  BY <1>1, <1>2, <1>7 DEF ClientsHold
<1>9. ASSUME NEW d \in Clients, live'[d] # None
      PROVE  /\ d # c /\ live'[d] = live[d]
             /\ live'[d].size > 0 /\ live'[d].data <= live'[d].size
             /\ \E b, t \in Nat : Used(heap', b, t) /\ live'[d].ptr = b + HEADER /\ t >= live'[d].size
  <2>1. d # c /\ live'[d] = live[d] /\ live[d] # None
    BY <1>8, <1>9
  <2>2. live[d].size > 0 /\ live[d].data <= live[d].size
    BY <1>1, <2>1, Pointers
  <2>3. PICK b \in Nat, t \in Nat :
          Used(heap, b, t) /\ t >= live[d].size /\ live[d].ptr = b + HEADER
    BY <1>1, <2>1, Pointers
  <2>4. live[d].ptr # live[c].ptr
    BY <1>1, <2>1 DEF ClientsHold
  <2>5. b # a
    BY <1>3, <2>3, <2>4
  <2>. QED  BY <1>6, <2>1, <2>2, <2>3, <2>5
<1>10. ASSUME NEW d \in Clients, NEW e \in Clients, live'[d] # None, live'[d].ptr = live'[e].ptr
       PROVE  d = e
  <2>1. d # c /\ live'[d] = live[d] /\ live[d] # None
    BY <1>9, <1>10
  <2>2. CASE e = c
    <3>1. live'[e].ptr = NULL
      BY <1>8, <2>2 DEF None
    <3>2. live[d].ptr # NULL
      BY <1>1, <2>1, Pointers
    <3>. QED  BY <1>10, <2>1, <3>1, <3>2
  <2>3. CASE e # c
    BY <1>1, <1>8, <1>10, <2>1, <2>3 DEF ClientsHold
  <2>. QED  BY <2>2, <2>3
<1>11. ClientsHold'
  BY <1>8, <1>9, <1>10 DEF ClientsHold, Held
<1>12. ASSUME NEW b \in Nat, NEW t \in Nat, Used(heap', b, t), t > 0
       PROVE  \E d \in Clients : live'[d].ptr = b + HEADER
  <2>1. Used(heap, b, t) /\ b # a
    BY <1>6, <1>12
  <2>2. PICK d \in Clients : live[d].ptr = b + HEADER
    BY <1>1, <1>12, <2>1 DEF Owned
  <2>3. b + HEADER # a + HEADER
    BY <1>1, <2>1
  <2>4. d # c
    BY <1>3, <2>2, <2>3
  <2>. QED  BY <1>8, <2>2, <2>4
<1>13. Owned'
  BY <1>12 DEF Owned
<1>. QED  BY <1>6, <1>11, <1>13 DEF HeapInv

LEMMA MallocStep ==
  ASSUME HeapInv, NEW c \in Clients, NEW n \in Nat, malloc(c, n)
  PROVE  HeapInv'
<1>1. ClientsHold /\ Laid(heap) /\ MergedBut(heap, {})
  BY DEF HeapInv
<1>2. live[c] = None /\ n > 0 /\ heap' = MallocHeap(heap, n)
  BY DEF malloc
<1>3. PICK g, p : g = heap' /\ p = MallocPtr(heap, n)
  OBVIOUS
<1>4. /\ Laid(g) /\ MergedBut(g, {})
      /\ p = NULL => \A b, t \in Nat : t > 0 => (Used(g, b, t) <=> Used(heap, b, t))
      /\ p # NULL => \E a, z \in Nat : p = a + HEADER /\ z >= n /\ Adds(heap, g, a, z)
  <2>1. g = MallocHeap(heap, n)
    BY <1>2, <1>3
  <2>. QED  BY <1>1, <1>2, <1>3, <2>1, MallocWorks
<1>5. CASE p = NULL
  <2>1. live' = live
    BY <1>3, <1>5 DEF malloc
  <2>2. \A b, t \in Nat : t > 0 => (Used(heap', b, t) <=> Used(heap, b, t))
    BY <1>3, <1>4, <1>5
  <2>3. /\ live' \in [Clients -> [ptr : Int, size : Nat, data : Nat]]
        /\ \A d \in Clients : live'[d] # None => live'[d].data <= live'[d].size
    BY <1>1, <2>1 DEF ClientsHold
  <2>. QED  BY <1>3, <1>4, <2>1, <2>2, <2>3, Kept
<1>6. CASE p # NULL
  <2>1. PICK a \in Nat, z \in Nat : p = a + HEADER /\ z >= n /\ Adds(heap, g, a, z)
    BY <1>4, <1>6
  <2>2. live' = [live EXCEPT ![c] = [ptr |-> a + HEADER, size |-> n, data |-> 0]]
    BY <1>3, <1>6, <2>1 DEF malloc
  <2>3. /\ \A t \in Nat : ~Used(heap, a, t)
        /\ \A b, t \in Nat : Used(heap', b, t) <=> (Used(heap, b, t) \/ (b = a /\ t = z))
    BY <1>3, <2>1 DEF Adds
  <2>4. \A b \in Nat : b + HEADER # live[c].ptr
    BY <1>1, <1>2, Pointers
  <2>5. 0 \in Nat /\ 0 <= n
    OBVIOUS
  <2>6. \A b, t \in Nat : Used(heap', b, t) <=>
          ((Used(heap, b, t) /\ b + HEADER # live[c].ptr) \/ (b = a /\ t = z))
    BY <2>3, <2>4
  <2>7. Laid(heap') /\ MergedBut(heap', {})
    BY <1>3, <1>4
  <2>8. Gives(c, n, 0, a, z)
    BY <1>2, <2>1, <2>2, <2>3, <2>5, <2>6, <2>7 DEF Gives
  <2>. QED  BY <2>5, <2>8, Given
<1>. QED  BY <1>5, <1>6

LEMMA ReallocStep ==
  ASSUME HeapInv, NEW c \in Clients, NEW n \in Nat, realloc(c, n)
  PROVE  HeapInv'
<1>1. ClientsHold /\ Laid(heap) /\ MergedBut(heap, {}) /\ HEADER \in Nat
  BY HeapAssumption DEF HeapInv
<1>2. /\ live[c] # None /\ n > 0 /\ MallocPtr(heap, n) # NULL
      /\ heap' = FreeHeap(MallocHeap(heap, n), live[c].ptr)
  BY DEF realloc
<1>3. PICK e \in Nat, s \in Nat : Used(heap, e, s) /\ live[c].ptr = e + HEADER
  BY <1>1, <1>2, Pointers
<1>4. PICK h, p : h = MallocHeap(heap, n) /\ p = MallocPtr(heap, n)
  OBVIOUS
<1>5. PICK a \in Nat, z \in Nat : p = a + HEADER /\ z >= n /\ Adds(heap, h, a, z)
  <2>1. p # NULL
    BY <1>2, <1>4
  <2>. QED  BY <1>1, <1>2, <1>4, <2>1, MallocWorks
<1>6. /\ Laid(h) /\ MergedBut(h, {}) /\ \A t \in Nat : ~Used(heap, a, t)
      /\ \A b, t \in Nat : Used(h, b, t) <=> (Used(heap, b, t) \/ (b = a /\ t = z))
  BY <1>5 DEF Adds
<1>7. PICK g : g = heap'
  OBVIOUS
<1>8. Drops(h, g, e)
  <2>1. Used(h, e, s)
    BY <1>3, <1>6
  <2>2. g = FreeHeap(h, e + HEADER)
    BY <1>2, <1>3, <1>4, <1>7
  <2>. QED  BY <1>6, <2>1, <2>2, FreeWorks
<1>9. /\ Laid(heap') /\ MergedBut(heap', {})
      /\ \A b, t \in Nat : Used(heap', b, t) <=> (Used(h, b, t) /\ b # e)
  BY <1>7, <1>8 DEF Drops
<1>10. a # e /\ \A b \in Nat : b # e <=> b + HEADER # live[c].ptr
  BY <1>1, <1>3, <1>6
<1>11. \A b, t \in Nat : Used(heap', b, t) <=>
         ((Used(heap, b, t) /\ b + HEADER # live[c].ptr) \/ (b = a /\ t = z))
  BY <1>6, <1>9, <1>10
<1>12. WordBefore(live[c].ptr) \in Nat
  <2>. DEFINE k == BlockOf(heap, live[c].ptr)
  <2>1. \E i \in 1 .. Len(heap) : heap[i].addr + HEADER = live[c].ptr
    BY <1>3 DEF Used
  <2>2. k \in 1 .. Len(heap)
    BY <2>1 DEF BlockOf
  <2>3. Len(heap) \in Nat /\ POOL_BASE \in Nat /\ \A i \in 1 .. Len(heap) : heap[i].addr \in Nat
    BY <1>1, Places, HeapAssumption
  <2>. HIDE DEF k
  <2>4. k < Len(heap) => k + 1 \in 1 .. Len(heap)
    BY <2>2, <2>3
  <2>5. k < Len(heap) => POOL_BASE + heap[k + 1].addr \in Nat
    BY <2>3, <2>4
  <2>6. WordBefore(live[c].ptr) = IF k < Len(heap) THEN POOL_BASE + heap[k + 1].addr ELSE 0
    BY DEF WordBefore, k
  <2>. QED  BY <2>5, <2>6
<1>13. PICK x \in Nat : x <= n /\ x = Least(live[c].data, Least(n, WordBefore(live[c].ptr)))
  <2>1. live[c].data \in Nat
    BY <1>1, Pointers
  <2>2. PICK v \in Nat, w \in Nat : v = live[c].data /\ w = WordBefore(live[c].ptr)
    BY <1>12, <2>1
  <2>3. Least(v, Least(n, w)) \in Nat /\ Least(v, Least(n, w)) <= n
    BY DEF Least
  <2>. QED  BY <2>2, <2>3
<1>14. live' = [live EXCEPT ![c] = [ptr |-> a + HEADER, size |-> n, data |-> x]]
  BY <1>4, <1>5, <1>13 DEF realloc
<1>15. Gives(c, n, x, a, z)
  BY <1>2, <1>5, <1>6, <1>9, <1>11, <1>13, <1>14 DEF Gives
<1>. QED  BY <1>15, Given

LEMMA FillStep ==
  ASSUME HeapInv, NEW c \in Clients, fill(c)
  PROVE  HeapInv'
<1>1. ClientsHold /\ Laid(heap) /\ MergedBut(heap, {})
  BY DEF HeapInv
<1>2. live[c] # None /\ live' = [live EXCEPT ![c].data = live[c].size] /\ heap' = heap
  BY DEF fill
<1>3. live \in [Clients -> [ptr : Int, size : Nat, data : Nat]]
  BY <1>1 DEF ClientsHold
<1>4. /\ live' \in [Clients -> [ptr : Int, size : Nat, data : Nat]]
      /\ \A d \in Clients : d # c => live'[d] = live[d]
      /\ live'[c].ptr = live[c].ptr /\ live'[c].size = live[c].size /\ live'[c].data = live[c].size
  BY <1>2, <1>3
<1>5. ASSUME NEW d \in Clients
      PROVE  /\ live'[d].ptr = live[d].ptr /\ live'[d].size = live[d].size
             /\ live'[d] # None => live[d] # None /\ live'[d].data <= live'[d].size
  <2>1. CASE d = c
    <3>1. live[c].size \in Nat
      BY <1>3
    <3>. QED  BY <1>2, <1>4, <2>1, <3>1
  <2>2. CASE d # c
    BY <1>1, <1>4, <2>2 DEF ClientsHold
  <2>. QED  BY <2>1, <2>2
<1>. QED  BY <1>1, <1>2, <1>4, <1>5, Kept

LEMMA HeapInvHolds == HeapSpec => []HeapInv
<1>1. HeapInit => HeapInv
  <2>. SUFFICES ASSUME HeapInit PROVE HeapInv
    OBVIOUS
  <2>1. heap = <<>> /\ live = [c \in Clients |-> None]
    BY DEF HeapInit
  <2>2. heap \in Seq(Block) /\ Len(heap) = 0 /\ EndOf(heap) <= MEMORY_POOL_SIZE
    BY <2>1, HeapAssumption DEF EndOf
  <2>3. Laid(heap)
    BY <2>1, <2>2 DEF Laid
  <2>4. MergedBut(heap, {}) /\ \A a, s \in Nat : ~Used(heap, a, s)
    BY <2>2 DEF MergedBut, Used
  <2>5. None \in [ptr : Int, size : Nat, data : Nat]
    BY DEF None, NULL
  <2>6. live \in [Clients -> [ptr : Int, size : Nat, data : Nat]] /\ \A c \in Clients : live[c] = None
    BY <2>1, <2>5
  <2>7. ClientsHold
    BY <2>6 DEF ClientsHold
  <2>8. Owned
    BY <2>4 DEF Owned
  <2>. QED  BY <2>3, <2>4, <2>7, <2>8 DEF HeapInv
<1>2. HeapInv /\ [HeapNext]_heapVars => HeapInv'
  <2>. SUFFICES ASSUME HeapInv, [HeapNext]_heapVars PROVE HeapInv'
    OBVIOUS
  <2>1. CASE UNCHANGED heapVars
    <3>1. heap' = heap /\ live' = live
      BY <2>1 DEF heapVars
    <3>2. Laid(heap) /\ MergedBut(heap, {}) /\ ClientsHold
      BY DEF HeapInv
    <3>3. /\ live \in [Clients -> [ptr : Int, size : Nat, data : Nat]]
          /\ \A d \in Clients : live[d] # None => live[d].data <= live[d].size
      BY <3>2 DEF ClientsHold
    <3>. QED  BY <3>1, <3>2, <3>3, Kept
  <2>2. CASE HeapNext
    <3>1. PICK c \in Clients : \/ fill(c)
                               \/ free(c)
                               \/ \E n \in Sizes : malloc(c, n) \/ realloc(c, n)
      BY <2>2 DEF HeapNext
    <3>2. CASE fill(c)
      BY <3>2, FillStep
    <3>3. CASE free(c)
      BY <3>3, FreeStep
    <3>4. ASSUME NEW n \in Sizes, malloc(c, n) PROVE HeapInv'
      <4>1. n \in Nat
        BY HeapAssumption
      <4>. QED  BY <3>4, <4>1, MallocStep
    <3>5. ASSUME NEW n \in Sizes, realloc(c, n) PROVE HeapInv'
      <4>1. n \in Nat
        BY HeapAssumption
      <4>. QED  BY <3>5, <4>1, ReallocStep
    <3>. QED  BY <3>1, <3>2, <3>3, <3>4, <3>5
  <2>. QED  BY <2>1, <2>2
<1>. QED  BY <1>1, <1>2, PTL DEF HeapSpec

-----------------------------------------------------------------------------
(* What the invariant says of the clients.                                 *)

\* Bytes behind one another do not meet.
LEMMA Apart ==
  ASSUME NEW a \in Nat, NEW m \in Nat, NEW b \in Nat, NEW n \in Nat, a + m <= b \/ b + n <= a
  PROVE  Bytes(a, m) \cap Bytes(b, n) = {}
BY DEF Bytes

LEMMA ClientsApart ==
  ASSUME HeapInv
  PROVE  LiveDisjoint
<1>1. ClientsHold /\ Laid(heap)
  BY DEF HeapInv
<1>2. /\ Len(heap) \in Nat /\ HEADER \in Nat /\ MEMORY_POOL_SIZE \in Nat
      /\ EndOf(heap) \in Nat /\ EndOf(heap) <= MEMORY_POOL_SIZE
      /\ \A k \in 1 .. Len(heap) : /\ heap[k].addr \in Nat /\ heap[k].size \in Nat
                                   /\ heap[k].addr + HEADER + heap[k].size <= EndOf(heap)
  <2>1. EndOf(heap) \in 0 .. MEMORY_POOL_SIZE /\ HEADER \in Nat /\ MEMORY_POOL_SIZE \in Nat
    BY <1>1, Places
  <2>2. EndOf(heap) \in Nat /\ EndOf(heap) <= MEMORY_POOL_SIZE
    BY <2>1
  <2>. QED  BY <1>1, <2>1, <2>2, Places
\* The bytes of a client lie in one block, behind its header.
<1>3. ASSUME NEW c \in Clients, live[c] # None
      PROVE  /\ live[c].ptr \in Nat /\ live[c].size \in Nat
             /\ \E k \in 1 .. Len(heap) :
                  /\ live[c].ptr = heap[k].addr + HEADER
                  /\ live[c].ptr + live[c].size <= heap[k].addr + HEADER + heap[k].size
  <2>1. PICK a \in Nat, s \in Nat :
          Used(heap, a, s) /\ s >= live[c].size /\ live[c].ptr = a + HEADER
    BY <1>1, <1>3, Pointers
  <2>2. PICK k \in 1 .. Len(heap) : heap[k].addr = a /\ heap[k].size = s
    BY <2>1 DEF Used
  <2>3. live[c].ptr \in Nat /\ live[c].size \in Nat
    BY <1>1, <1>3, Pointers
  <2>4. PICK n \in Nat : n = live[c].size
    BY <2>3
  <2>5. (a + HEADER) + n <= a + HEADER + s
    BY <1>2, <2>1, <2>4
  <2>. QED  BY <2>1, <2>2, <2>3, <2>4, <2>5
<1>4. ASSUME NEW j \in 1 .. Len(heap), NEW k \in 1 .. Len(heap), j < k
      PROVE  heap[j].addr + HEADER + heap[j].size <= heap[k].addr
  BY <1>1, <1>4 DEF Laid
<1>. SUFFICES ASSUME NEW c \in Clients, live[c] # None
              PROVE  /\ Bytes(live[c].ptr, live[c].size) \subseteq 0 .. MEMORY_POOL_SIZE - 1
                     /\ \A d \in Clients \ {c} :
                          Bytes(live[c].ptr, live[c].size) \cap Bytes(live[d].ptr, live[d].size) = {}
                     /\ \A k \in 1 .. Len(heap) :
                          Bytes(live[c].ptr, live[c].size) \cap Bytes(heap[k].addr, HEADER) = {}
  BY DEF LiveDisjoint
<1>5. PICK p \in Nat, n \in Nat, k \in 1 .. Len(heap) :
        /\ p = live[c].ptr /\ n = live[c].size /\ p = heap[k].addr + HEADER
        /\ p + n <= heap[k].addr + HEADER + heap[k].size
  BY <1>3
<1>6. PICK a \in Nat, s \in Nat : a = heap[k].addr /\ s = heap[k].size /\ a + HEADER + s <= EndOf(heap)
  BY <1>2
<1>7. p = a + HEADER /\ p + n <= a + HEADER + s
  BY <1>5, <1>6
<1>8. Bytes(p, n) \subseteq 0 .. MEMORY_POOL_SIZE - 1
  <2>1. PICK e \in Nat : e = EndOf(heap) /\ e <= MEMORY_POOL_SIZE /\ a + HEADER + s <= e
    BY <1>2, <1>6
  <2>2. p + n <= e
    BY <1>2, <1>7, <2>1
  <2>3. p + n <= MEMORY_POOL_SIZE
    BY <1>2, <2>1, <2>2
  <2>. QED  BY <1>2, <2>3 DEF Bytes
<1>9. ASSUME NEW d \in Clients \ {c}
      PROVE  Bytes(p, n) \cap Bytes(live[d].ptr, live[d].size) = {}
  <2>1. CASE live[d] = None
    <3>1. live[d].ptr = -1 /\ live[d].size = 0
      BY <2>1 DEF None, NULL
    <3>2. Bytes(-1, 0) = {}
      BY DEF Bytes
    <3>. QED  BY <3>1, <3>2
  <2>2. CASE live[d] # None
    <3>1. PICK q \in Nat, m \in Nat, j \in 1 .. Len(heap) :
            /\ q = live[d].ptr /\ m = live[d].size /\ q = heap[j].addr + HEADER
            /\ q + m <= heap[j].addr + HEADER + heap[j].size
      BY <1>3, <2>2
    <3>2. PICK b \in Nat, t \in Nat : b = heap[j].addr /\ t = heap[j].size
      BY <1>2
    <3>3. j # k
      <4>1. live[c].ptr # live[d].ptr
        BY <1>1 DEF ClientsHold
      <4>. QED  BY <1>5, <3>1, <4>1
    <3>4. q = b + HEADER /\ q + m <= b + HEADER + t
      BY <3>1, <3>2
    <3>5. CASE j < k
      <4>1. b + HEADER + t <= a
        BY <1>4, <1>6, <3>2, <3>5
      <4>2. q + m <= p
        BY <1>2, <1>7, <3>4, <4>1
      <4>3. Bytes(p, n) \cap Bytes(q, m) = {}
        BY ONLY <4>2, p \in Nat, n \in Nat, q \in Nat, m \in Nat, Apart
      <4>. QED  BY <3>1, <4>3
    <3>6. CASE k < j
      <4>1. a + HEADER + s <= b
        BY <1>4, <1>6, <3>2, <3>6
      <4>2. p + n <= q
        BY <1>2, <1>7, <3>4, <4>1
      <4>3. Bytes(p, n) \cap Bytes(q, m) = {}
        BY ONLY <4>2, p \in Nat, n \in Nat, q \in Nat, m \in Nat, Apart
      <4>. QED  BY <3>1, <4>3
    <3>. QED  BY <1>2, <3>3, <3>5, <3>6
  <2>. QED  BY <2>1, <2>2
<1>10. ASSUME NEW j \in 1 .. Len(heap)
       PROVE  Bytes(p, n) \cap Bytes(heap[j].addr, HEADER) = {}
  <2>1. PICK b \in Nat, t \in Nat : b = heap[j].addr /\ t = heap[j].size
    BY <1>2
  <2>2. CASE j = k
    <3>1. b + HEADER <= p
      BY <1>2, <1>6, <1>7, <2>1, <2>2
    <3>2. Bytes(p, n) \cap Bytes(b, HEADER) = {}
      BY ONLY <1>2, <3>1, p \in Nat, n \in Nat, b \in Nat, Apart
    <3>. QED  BY <2>1, <3>2
  <2>3. CASE j < k
    <3>1. b + HEADER + t <= a
      BY <1>4, <1>6, <2>1, <2>3
    <3>2. b + HEADER <= p
      BY <1>2, <1>7, <3>1
    <3>3. Bytes(p, n) \cap Bytes(b, HEADER) = {}
      BY ONLY <1>2, <3>2, p \in Nat, n \in Nat, b \in Nat, Apart
    <3>. QED  BY <2>1, <3>3
  <2>4. CASE k < j
    <3>1. a + HEADER + s <= b
      BY <1>4, <1>6, <2>1, <2>4
    <3>2. p + n <= b
      BY <1>2, <1>7, <3>1
    <3>3. Bytes(p, n) \cap Bytes(b, HEADER) = {}
      BY ONLY <1>2, <3>2, p \in Nat, n \in Nat, b \in Nat, Apart
    <3>. QED  BY <2>1, <3>3
  <2>. QED  BY <1>2, <2>2, <2>3, <2>4
<1>. QED  BY <1>5, <1>8, <1>9, <1>10

(* The list is one of blocks, and what a client finds of its own data is   *)
(* within what it asked for, through every sequence of malloc, free and    *)
(* realloc of utility.c.                                                   *)
THEOREM HeapTypeCorrect == HeapSpec => []HeapTypeOK
<1>1. HeapInv => HeapTypeOK
  <2>. SUFFICES ASSUME HeapInv PROVE HeapTypeOK
    OBVIOUS
  <2>1. Laid(heap) /\ ClientsHold
    BY DEF HeapInv
  <2>2. heap \in Seq(Block)
    BY <2>1 DEF Laid
  <2>3. ASSUME NEW c \in Clients, live[c] # None PROVE live[c].data \in 0 .. live[c].size
    <3>1. live[c].data \in Nat /\ live[c].size \in Nat /\ live[c].data <= live[c].size
      BY <2>1, <2>3, Pointers
    <3>. QED  BY <3>1
  <2>. QED  BY <2>2, <2>3 DEF HeapTypeOK
<1>. QED  BY <1>1, HeapInvHolds, PTL

(* Through every sequence of malloc, free and realloc of utility.c the     *)
(* blocks tile the pool, free neighbours are merged, the bytes given to a  *)
(* client meet no other client's and no header, and no block is lost.      *)
THEOREM HeapStaysSound == HeapSpec => []HeapSound
<1>1. HeapInv => HeapSound
  <2>. SUFFICES ASSUME HeapInv PROVE HeapSound
    OBVIOUS
  <2>1. Laid(heap) /\ MergedBut(heap, {}) /\ ClientsHold /\ Owned
    BY DEF HeapInv
  <2>2. BlocksTile
    BY <2>1 DEF Laid, BlocksTile
  <2>3. FreeBlocksMerged
    BY <2>1 DEF MergedBut, FreeBlocksMerged
  <2>4. LiveDisjoint
    BY ClientsApart
  <2>5. UsedBlocksOwned
    <3>. SUFFICES ASSUME NEW k \in 1 .. Len(heap), ~heap[k].is_free, heap[k].size > 0
                  PROVE  \E c \in Clients : live[c].ptr = heap[k].addr + HEADER
      BY DEF UsedBlocksOwned
    <3>1. heap[k].addr \in Nat /\ heap[k].size \in Nat
      BY <2>1, Places
    <3>2. Used(heap, heap[k].addr, heap[k].size)
      BY DEF Used
    <3>. QED  BY <2>1, <3>1, <3>2 DEF Owned
  <2>. QED  BY <2>2, <2>3, <2>4, <2>5 DEF HeapSound
<1>. QED  BY <1>1, HeapInvHolds, PTL
===============================================================================
