--------------------------- MODULE SchedulerProofs ---------------------------
(***************************************************************************)
(* Proofs about Scheduler, for every number of slots, every set of tasks   *)
(* created at boot and later, every order of timer interrupts, creations   *)
(* and kills, and every value of the scheduler's tuning constants.         *)
(***************************************************************************)
EXTENDS Scheduler, FiniteSetTheorems, TLAPS

(* Pids are handed out in increasing order: every pid in use or on record  *)
(* is below NEXT_PID, so the next one is new.                              *)
PidsBelowNext ==
  /\ NEXT_PID > 0
  /\ \A i \in active : pid[i] < NEXT_PID
  /\ \A p \in killed : p > 0 /\ p < NEXT_PID

SchedInv ==
  /\ SchedTypeOK
  /\ RunningIsCurrent
  /\ KilledStaysDead
  /\ PidsUnique
  /\ CountMatches
  /\ PidsBelowNext

LEMMA SlotsFinite ==
  /\ IsFiniteSet(Slots)
  /\ \A S \in SUBSET Slots : IsFiniteSet(S) /\ Cardinality(S) \in Nat
<1>1. IsFiniteSet(Slots)
  BY SchedAssumption, FS_Interval DEF Slots
<1>2. ASSUME NEW S \in SUBSET Slots
      PROVE  IsFiniteSet(S) /\ Cardinality(S) \in Nat
  BY <1>1, <1>2, FS_Subset, FS_CardinalityType
<1> QED  BY <1>1, <1>2

(* Remainders are below their modulus: what SYSTEM_TICKS, wake_at, the     *)
(* affinity group and REAPER_TICKS are reduced by.                         *)
LEMMA ModRange ==
  ASSUME NEW a \in Nat, NEW m \in Nat \ {0}
  PROVE  a % m \in 0 .. m - 1
OBVIOUS

(* What rust_create_task_ex stores is in range. *)
LEMMA GroupType == ASSUME NEW a \in Nat PROVE Group(a) \in 0 .. MAX_AFFINITIES
<1>1. MAX_AFFINITIES + 1 \in Nat \ {0}
  BY SchedAssumption
<1>2. a % (MAX_AFFINITIES + 1) \in 0 .. (MAX_AFFINITIES + 1) - 1
  BY <1>1, ModRange
<1> QED  BY <1>2, SchedAssumption DEF Group

(* The first phases of rust_schedule keep every field in range. *)
LEMMA PhaseTypes ==
  ASSUME SchedTypeOK
  PROVE  /\ sys_tick \in 0 .. TICK_MOD - 1
         /\ StateAwake \in [Slots -> TaskStates]
         /\ PriorityAged \in [Slots -> 0 .. MAX_PRIORITY]
         /\ PrioritySwitched \in [Slots -> 0 .. MAX_PRIORITY]
         /\ SliceUsed \in 0 .. MAX_PRIORITY
         /\ \A n \in Slots : RemainingSwitched(n) \in [Slots -> 0 .. MAX_PRIORITY]
<1> USE SchedAssumption
<1>1. sys_tick \in 0 .. TICK_MOD - 1
  <2>1. SYSTEM_TICKS + 1 \in Nat
    BY DEF SchedTypeOK
  <2> QED  BY <2>1, ModRange DEF sys_tick
<1>2. StateAwake \in [Slots -> TaskStates]
  BY DEF StateAwake, SchedTypeOK, TaskStates
<1>3. \A p \in 0 .. MAX_PRIORITY : Boosted(p) \in 0 .. MAX_PRIORITY
  BY DEF Boosted
<1>4. PriorityAged \in [Slots -> 0 .. MAX_PRIORITY]
  BY <1>3 DEF PriorityAged, SchedTypeOK
<1>5. PrioritySwitched \in [Slots -> 0 .. MAX_PRIORITY]
  BY <1>4 DEF PrioritySwitched, SchedTypeOK
<1>6. SliceUsed \in 0 .. MAX_PRIORITY
  BY DEF SliceUsed, SchedTypeOK
<1>7. ASSUME NEW n \in Slots PROVE RemainingSwitched(n) \in [Slots -> 0 .. MAX_PRIORITY]
  BY <1>6 DEF RemainingSwitched, SchedTypeOK
<1> QED  BY <1>1, <1>2, <1>4, <1>5, <1>6, <1>7

(* Phase 1 wakes sleepers only: it makes no Zombie, revives none and makes *)
(* no task Running.                                                        *)
LEMMA AwakeStates ==
  ASSUME SchedTypeOK
  PROVE  \A i \in active : /\ StateAwake[i] = "Zombie" <=> state[i] = "Zombie"
                           /\ StateAwake[i] = "Running" <=> state[i] = "Running"
BY DEF StateAwake, Due, SchedTypeOK

(* Phase 5: of the active tasks exactly the chosen one is Running, and the *)
(* Zombies are the same as before.                                         *)
LEMMA SwitchStates ==
  ASSUME SchedTypeOK, RunningIsCurrent, NEW next \in Slots, switch_to(next)
  PROVE  /\ next \in active
         /\ StateSwitched(next) \in [Slots -> TaskStates]
         /\ StateSwitched(next)[next] = "Running"
         /\ \A i \in active : /\ StateSwitched(next)[i] = "Zombie" <=> state[i] = "Zombie"
                              /\ StateSwitched(next)[i] = "Running" => i = next
<1>1. next \in active /\ StateAwake[next] = "Ready"
  BY DEF switch_to, Candidates, InEpoch, Runnable, ReadySlots
<1>2. StateAwake \in [Slots -> TaskStates]
  BY PhaseTypes
<1>3. \A i \in active : /\ StateAwake[i] = "Zombie" <=> state[i] = "Zombie"
                        /\ StateAwake[i] = "Running" <=> state[i] = "Running"
  BY AwakeStates
<1>4. StateSwitched(next) \in [Slots -> TaskStates]
  BY <1>2 DEF StateSwitched, TaskStates
<1>5. active \subseteq Slots
  BY DEF SchedTypeOK
<1>6. StateSwitched(next)[next] = "Running"
  BY <1>1, <1>5 DEF StateSwitched
<1>7. ASSUME NEW i \in active
      PROVE  /\ StateSwitched(next)[i] = "Zombie" <=> state[i] = "Zombie"
             /\ StateSwitched(next)[i] = "Running" => i = next
  BY <1>1, <1>3, <1>5, <1>7 DEF StateSwitched, RunningIsCurrent
<1> QED  BY <1>1, <1>4, <1>6, <1>7

LEMMA SchedInvInit == SchedInit => SchedInv
<1> SUFFICES ASSUME SchedInit PROVE SchedInv
  OBVIOUS
<1> USE SchedAssumption
<1>1. /\ Len(BootTasks) \in Nat
      /\ 0 .. Len(BootTasks) \subseteq Slots
      /\ BootSlots \subseteq Slots
      /\ 0 \in Slots
      /\ \A i \in BootSlots : BootTasks[i] \in TaskArgs
  BY DEF BootSlots, Slots
<1>2. SchedTypeOK
  <2>1. \A i \in BootSlots :
          /\ BootTasks[i].entry_point \in Bodies
          /\ BootTasks[i].priority \in 0 .. MAX_PRIORITY
          /\ Group(BootTasks[i].affinity) \in 0 .. MAX_AFFINITIES
          /\ BootTasks[i].deadline \in 0 .. TICK_MOD - 1
    BY <1>1, GroupType DEF TaskArgs
  <2>2. active \subseteq Slots /\ state \in [Slots -> TaskStates]
    BY <1>1 DEF SchedInit, TaskStates
  <2>3. pid \in [Slots -> Nat]
    BY <1>1 DEF SchedInit, BootSlots
  <2>4. entry_point \in [Slots -> Bodies]
    BY <2>1 DEF SchedInit, Bodies
  <2>5. base_priority \in [Slots -> 0 .. MAX_PRIORITY]
    BY <2>1 DEF SchedInit
  <2>6. affinity \in [Slots -> 0 .. MAX_AFFINITIES]
    BY <2>1 DEF SchedInit
  <2>7. deadline \in [Slots -> 0 .. TICK_MOD - 1]
    BY <2>1 DEF SchedInit
  <2>8. /\ last_run_tick \in [Slots -> 0 .. TICK_MOD - 1]
        /\ wake_at \in [Slots -> 0 .. TICK_MOD - 1]
    BY DEF SchedInit
  <2> QED  BY <1>1, <2>2, <2>3, <2>4, <2>5, <2>6, <2>7, <2>8 DEF SchedInit, SchedTypeOK
<1>3. /\ active = 0 .. Len(BootTasks)
      /\ CURRENT_TASK_ID = 0
      /\ NUM_TASKS = 1 + Len(BootTasks)
      /\ NEXT_PID = FIRST_PID + Len(BootTasks)
      /\ killed = {} /\ reaped = {}
  BY DEF SchedInit
<1>4. \A i \in active : /\ i \in Nat /\ i <= Len(BootTasks)
                        /\ pid[i] = IF i = 0 THEN 0 ELSE FIRST_PID + i - 1
                        /\ state[i] = IF i = 0 THEN "Running" ELSE "Ready"
  BY <1>1, <1>3 DEF SchedInit, BootSlots
<1>r. RunningIsCurrent
  BY <1>1, <1>3, <1>4 DEF RunningIsCurrent
<1>5. KilledStaysDead
  BY <1>1, <1>3, <1>4 DEF KilledStaysDead
<1>6. PidsUnique
  BY <1>1, <1>4 DEF PidsUnique
<1>7. CountMatches
  <2>1. Cardinality(0 .. Len(BootTasks)) = Len(BootTasks) - 0 + 1
    BY <1>1, FS_Interval
  <2>2. NUM_TASKS = Cardinality(0 .. Len(BootTasks))
    BY <1>1, <1>3, <2>1
  <2> QED  BY <1>3, <2>2, Zenon DEF CountMatches
<1>8. PidsBelowNext
  BY <1>1, <1>3, <1>4 DEF PidsBelowNext
<1> QED  BY <1>2, <1>r, <1>5, <1>6, <1>7, <1>8 DEF SchedInv

(* A step that leaves the set of tasks and their pids alone, makes no      *)
(* Zombie and revives none, and lets only its current task run, keeps the  *)
(* bookkeeping intact.                                                     *)
LEMMA Bookkeeping ==
  ASSUME SchedInv,
         UNCHANGED <<active, pid, NUM_TASKS, NEXT_PID, killed, reaped>>,
         CURRENT_TASK_ID' \in active,
         \A i \in active : /\ state'[i] = "Zombie" <=> state[i] = "Zombie"
                           /\ state'[i] = "Running" => i = CURRENT_TASK_ID'
  PROVE  /\ RunningIsCurrent' /\ KilledStaysDead' /\ PidsUnique'
         /\ CountMatches' /\ PidsBelowNext'
<1>1. RunningIsCurrent'
  BY DEF RunningIsCurrent
<1>2. KilledStaysDead'
  BY DEF SchedInv, KilledStaysDead
<1>3. PidsUnique' /\ CountMatches' /\ PidsBelowNext'
  BY DEF SchedInv, PidsUnique, CountMatches, PidsBelowNext
<1> QED  BY <1>1, <1>2, <1>3

(* Every dispatch but the reaper's scan is such a step. *)
LEMMA DispatchKeeps ==
  ASSUME SchedInv, NEW next \in Slots, switch_to(next),
         UNCHANGED <<identity, counts, killed>>,
         state' \in {StateSwitched(next), [StateSwitched(next) EXCEPT ![next] = "Sleeping"]}
  PROVE  /\ state' \in [Slots -> TaskStates]
         /\ CURRENT_TASK_ID' \in Slots
         /\ RunningIsCurrent' /\ KilledStaysDead' /\ PidsUnique'
         /\ CountMatches' /\ PidsBelowNext'
<1>1. SchedTypeOK /\ RunningIsCurrent
  BY DEF SchedInv
<1>2. /\ next \in active
      /\ StateSwitched(next) \in [Slots -> TaskStates]
      /\ StateSwitched(next)[next] = "Running"
      /\ \A i \in active : /\ StateSwitched(next)[i] = "Zombie" <=> state[i] = "Zombie"
                           /\ StateSwitched(next)[i] = "Running" => i = next
  BY <1>1, SwitchStates
<1>3. active \subseteq Slots
  BY <1>1 DEF SchedTypeOK
<1>4. CURRENT_TASK_ID' = next
  BY DEF switch_to
<1>5. \A i \in active : /\ state'[i] = "Zombie" <=> state[i] = "Zombie"
                        /\ state'[i] = "Running" => i = CURRENT_TASK_ID'
  <2>1. CASE state' = StateSwitched(next)
    BY <1>2, <1>4, <2>1
  <2>2. CASE state' = [StateSwitched(next) EXCEPT ![next] = "Sleeping"]
    BY <1>2, <1>3, <1>4, <2>2
  <2> QED  BY <2>1, <2>2
<1>6. state' \in [Slots -> TaskStates]
  BY <1>2 DEF TaskStates
<1>7. UNCHANGED <<active, pid, NUM_TASKS, NEXT_PID, killed, reaped>>
  BY DEF identity, counts
<1> QED  BY <1>2, <1>4, <1>5, <1>6, <1>7, Bookkeeping

(* One step per action. *)
LEMMA CreateKeeps ==
  ASSUME SchedInv, NEW t \in TaskArgs, rust_create_task_ex(t)
  PROVE  SchedInv'
<1> USE SchedAssumption
<1>1. PICK i \in Slots \ active :
        /\ active' = active \union {i}
        /\ pid' = [pid EXCEPT ![i] = NEXT_PID]
        /\ NEXT_PID' = NEXT_PID + 1
        /\ state' = [state EXCEPT ![i] = "Ready"]
        /\ entry_point' = [entry_point EXCEPT ![i] = t.entry_point]
        /\ base_priority' = [base_priority EXCEPT ![i] = t.priority]
        /\ priority' = [priority EXCEPT ![i] = t.priority]
        /\ remaining_time' = [remaining_time EXCEPT ![i] = t.priority]
        /\ last_run_tick' = [last_run_tick EXCEPT ![i] = SYSTEM_TICKS]
        /\ affinity' = [affinity EXCEPT ![i] = Group(t.affinity)]
        /\ wake_at' = [wake_at EXCEPT ![i] = 0]
        /\ deadline' = [deadline EXCEPT ![i] = t.deadline]
        /\ NUM_TASKS' = NUM_TASKS + 1
        /\ UNCHANGED <<CURRENT_TASK_ID, SYSTEM_TICKS, REAPER_TICKS,
                       REAPER_MISSED_DEADLINES, reports, killed, reaped>>
  BY DEF rust_create_task_ex, fetch_add_pid
<1>2. SchedTypeOK /\ RunningIsCurrent /\ KilledStaysDead /\ PidsUnique /\ CountMatches /\ PidsBelowNext
  BY DEF SchedInv
<1>3. SchedTypeOK'
  <2>1. /\ t.entry_point \in Bodies
        /\ t.priority \in 0 .. MAX_PRIORITY
        /\ t.deadline \in 0 .. TICK_MOD - 1
        /\ Group(t.affinity) \in 0 .. MAX_AFFINITIES
    BY GroupType DEF TaskArgs
  <2>2. active' \subseteq Slots /\ state' \in [Slots -> TaskStates]
    BY <1>1, <1>2 DEF SchedTypeOK, TaskStates
  <2>3. pid' \in [Slots -> Nat] /\ NEXT_PID' \in Nat /\ NUM_TASKS' \in Nat
    BY <1>1, <1>2 DEF SchedTypeOK
  <2>4. entry_point' \in [Slots -> Bodies]
    BY <1>1, <1>2, <2>1 DEF SchedTypeOK
  <2>5. /\ base_priority' \in [Slots -> 0 .. MAX_PRIORITY]
        /\ priority' \in [Slots -> 0 .. MAX_PRIORITY]
        /\ remaining_time' \in [Slots -> 0 .. MAX_PRIORITY]
    BY <1>1, <1>2, <2>1 DEF SchedTypeOK
  <2>6. /\ last_run_tick' \in [Slots -> 0 .. TICK_MOD - 1]
        /\ wake_at' \in [Slots -> 0 .. TICK_MOD - 1]
        /\ deadline' \in [Slots -> 0 .. TICK_MOD - 1]
    <3>1. last_run_tick' \in [Slots -> 0 .. TICK_MOD - 1]
      BY <1>1, <1>2 DEF SchedTypeOK
    <3>2. wake_at' \in [Slots -> 0 .. TICK_MOD - 1]
      <4>1. 0 \in 0 .. TICK_MOD - 1
        OBVIOUS
      <4>2. wake_at \in [Slots -> 0 .. TICK_MOD - 1] /\ wake_at' = [wake_at EXCEPT ![i] = 0]
        BY <1>1, <1>2 DEF SchedTypeOK
      <4> QED  BY <4>1, <4>2
    <3>3. deadline' \in [Slots -> 0 .. TICK_MOD - 1]
      BY <1>1, <1>2, <2>1 DEF SchedTypeOK
    <3> QED  BY <3>1, <3>2, <3>3
  <2>7. affinity' \in [Slots -> 0 .. MAX_AFFINITIES]
    BY <1>1, <1>2, <2>1 DEF SchedTypeOK
  <2>8. /\ CURRENT_TASK_ID' \in Slots
        /\ SYSTEM_TICKS' \in 0 .. TICK_MOD - 1
        /\ REAPER_TICKS' \in 0 .. REAPER_SCAN_INTERVAL - 1
        /\ REAPER_MISSED_DEADLINES' \in Nat
        /\ reports' \subseteq Nat /\ killed' \subseteq Nat /\ reaped' \subseteq Nat
    BY <1>1, <1>2 DEF SchedTypeOK
  <2> QED  BY <2>2, <2>3, <2>4, <2>5, <2>6, <2>7, <2>8 DEF SchedTypeOK
<1>p. /\ pid'[i] = NEXT_PID /\ state'[i] = "Ready"
      /\ \A j \in active : j # i /\ pid'[j] = pid[j] /\ state'[j] = state[j]
  BY <1>1, <1>2 DEF SchedTypeOK
<1>n. /\ NEXT_PID \in Nat /\ NEXT_PID > 0
      /\ \A j \in active : pid[j] \in Nat /\ pid[j] < NEXT_PID
      /\ \A q \in killed : q \in Nat /\ q > 0 /\ q < NEXT_PID
  BY <1>2 DEF SchedTypeOK, PidsBelowNext
<1>u. /\ active' = active \union {i}
      /\ NEXT_PID' = NEXT_PID + 1
      /\ UNCHANGED <<CURRENT_TASK_ID, killed, reaped>>
  BY <1>1
<1>4. RunningIsCurrent'
  BY <1>2, <1>p, <1>u DEF RunningIsCurrent
<1>5. KilledStaysDead'
  <2>1. NEXT_PID \notin killed
    BY <1>n
  <2> QED  BY <1>2, <1>p, <1>u, <2>1 DEF KilledStaysDead
<1>6. PidsUnique'
  BY <1>2, <1>p, <1>n, <1>u DEF PidsUnique
<1>7. CountMatches'
  <2>1. IsFiniteSet(active)
    BY <1>2, SlotsFinite DEF SchedTypeOK
  <2>2. Cardinality(active \union {i}) = Cardinality(active) + 1
    BY <1>1, <2>1, FS_AddElement, Zenon
  <2>3. Cardinality(active') = Cardinality(active) + 1
    BY <1>1, <2>2, Zenon
  <2> QED  BY <1>1, <1>2, <2>3 DEF CountMatches
<1>8. PidsBelowNext'
  BY <1>p, <1>n, <1>u DEF PidsBelowNext
<1> QED  BY <1>3, <1>4, <1>5, <1>6, <1>7, <1>8 DEF SchedInv

LEMMA KillKeeps ==
  ASSUME SchedInv, NEW p \in Nat, rust_kill_task(p)
  PROVE  SchedInv'
<1> USE SchedAssumption
<1>1. PICK i \in active : pid[i] = p /\ state' = [state EXCEPT ![i] = "Zombie"]
  BY DEF rust_kill_task
<1>2. SchedTypeOK /\ RunningIsCurrent /\ KilledStaysDead /\ PidsUnique /\ CountMatches /\ PidsBelowNext
  BY DEF SchedInv
<1>3. /\ p # 0
      /\ killed' = killed \union {p}
      /\ UNCHANGED <<identity, priority, remaining_time, last_run_tick, wake_at,
                     CURRENT_TASK_ID, SYSTEM_TICKS, REAPER_TICKS, counts>>
  BY DEF rust_kill_task
<1>4. SchedTypeOK'
  BY <1>1, <1>2, <1>3 DEF SchedTypeOK, TaskStates, identity, counts
<1>5. RunningIsCurrent'
  BY <1>1, <1>2, <1>3 DEF RunningIsCurrent, SchedTypeOK, identity
<1>6. KilledStaysDead'
  <2>1. active' = active /\ pid' = pid /\ reaped' = reaped
    BY <1>3 DEF identity, counts
  <2>2. \A j \in active : state'[j] = IF j = i THEN "Zombie" ELSE state[j]
    BY <1>1, <1>2 DEF SchedTypeOK
  <2>3. \A j \in active : pid[j] = p <=> j = i
    BY <1>1, <1>2 DEF PidsUnique
  <2> QED  BY <1>2, <1>3, <2>1, <2>2, <2>3 DEF KilledStaysDead
<1>7. PidsUnique' /\ CountMatches'
  BY <1>2, <1>3 DEF PidsUnique, CountMatches, identity, counts
<1>8. PidsBelowNext'
  <2>1. active' = active /\ pid' = pid /\ NEXT_PID' = NEXT_PID
    BY <1>3 DEF identity, counts
  <2>2. p > 0 /\ p < NEXT_PID
    BY <1>1, <1>2, <1>3 DEF PidsBelowNext
  <2> QED  BY <1>2, <1>3, <2>1, <2>2 DEF PidsBelowNext
<1> QED  BY <1>4, <1>5, <1>6, <1>7, <1>8 DEF SchedInv

LEMMA IdleKeeps ==
  ASSUME SchedInv, schedule_idle
  PROVE  SchedInv'
<1> USE SchedAssumption
<1>1. SchedTypeOK /\ RunningIsCurrent
  BY DEF SchedInv
<1>2. /\ UNCHANGED <<identity, last_run_tick, wake_at, CURRENT_TASK_ID, REAPER_TICKS, counts, killed>>
      /\ SYSTEM_TICKS' = sys_tick
      /\ state' = StateAwake
      /\ priority' = PriorityAged
      /\ remaining_time' = [remaining_time EXCEPT ![CURRENT_TASK_ID] = base_priority[CURRENT_TASK_ID]]
  BY DEF schedule_idle
<1>3. SchedTypeOK'
  <2>1. remaining_time' \in [Slots -> 0 .. MAX_PRIORITY]
    BY <1>1, <1>2 DEF SchedTypeOK
  <2>2. /\ SYSTEM_TICKS' \in 0 .. TICK_MOD - 1
        /\ state' \in [Slots -> TaskStates]
        /\ priority' \in [Slots -> 0 .. MAX_PRIORITY]
    BY <1>1, <1>2, PhaseTypes
  <2> QED  BY <1>1, <1>2, <2>1, <2>2 DEF SchedTypeOK, identity, counts
<1>4. \A i \in active : /\ state'[i] = "Zombie" <=> state[i] = "Zombie"
                        /\ state'[i] = "Running" => i = CURRENT_TASK_ID'
  BY <1>1, <1>2, AwakeStates DEF RunningIsCurrent
<1>5. /\ UNCHANGED <<active, pid, NUM_TASKS, NEXT_PID, killed, reaped>>
      /\ CURRENT_TASK_ID' \in active
  BY <1>1, <1>2 DEF identity, counts, RunningIsCurrent
<1>6. /\ RunningIsCurrent' /\ KilledStaysDead' /\ PidsUnique'
      /\ CountMatches' /\ PidsBelowNext'
  BY <1>4, <1>5, Bookkeeping
<1> QED  BY <1>3, <1>6 DEF SchedInv

(* The dispatches that leave the task table to phase 5, and task_sleep. *)
LEMMA RunKeeps ==
  ASSUME SchedInv, NEW next \in Slots, NEW n \in Nat,
         schedule_work(next) \/ schedule_sleep(next, n) \/ schedule_reaper_count(next)
  PROVE  SchedInv'
<1> USE SchedAssumption
<1>1. SchedTypeOK
  BY DEF SchedInv
<1>2. /\ switch_to(next)
      /\ UNCHANGED <<identity, counts, killed>>
      /\ state' \in {StateSwitched(next), [StateSwitched(next) EXCEPT ![next] = "Sleeping"]}
      /\ priority' = PrioritySwitched
      /\ remaining_time' = RemainingSwitched(next)
      /\ last_run_tick' = [last_run_tick EXCEPT ![next] = sys_tick]
      /\ wake_at' \in {wake_at, [wake_at EXCEPT ![next] = (sys_tick + n) % TICK_MOD]}
      /\ REAPER_TICKS' \in {REAPER_TICKS, (REAPER_TICKS + 1) % REAPER_SCAN_INTERVAL}
  BY DEF schedule_work, schedule_sleep, schedule_reaper_count
<1>3. /\ state' \in [Slots -> TaskStates]
      /\ CURRENT_TASK_ID' \in Slots
      /\ RunningIsCurrent' /\ KilledStaysDead' /\ PidsUnique'
      /\ CountMatches' /\ PidsBelowNext'
  BY <1>2, DispatchKeeps
<1>4. SchedTypeOK'
  <2>1. sys_tick \in 0 .. TICK_MOD - 1
    BY <1>1, PhaseTypes
  <2>2. priority' \in [Slots -> 0 .. MAX_PRIORITY] /\ remaining_time' \in [Slots -> 0 .. MAX_PRIORITY]
    BY <1>1, <1>2, PhaseTypes
  <2>3. last_run_tick' \in [Slots -> 0 .. TICK_MOD - 1]
    BY <1>1, <1>2, <2>1 DEF SchedTypeOK
  <2>4. wake_at' \in [Slots -> 0 .. TICK_MOD - 1]
    <3>1. sys_tick + n \in Nat
      BY <2>1
    <3>2. (sys_tick + n) % TICK_MOD \in 0 .. TICK_MOD - 1
      BY <3>1, ModRange
    <3>3. wake_at \in [Slots -> 0 .. TICK_MOD - 1]
      BY <1>1 DEF SchedTypeOK
    <3> QED  BY <1>2, <3>2, <3>3
  <2>5. REAPER_TICKS' \in 0 .. REAPER_SCAN_INTERVAL - 1
    <3>1. REAPER_TICKS \in 0 .. REAPER_SCAN_INTERVAL - 1 /\ REAPER_TICKS + 1 \in Nat
      BY <1>1 DEF SchedTypeOK
    <3>2. (REAPER_TICKS + 1) % REAPER_SCAN_INTERVAL \in 0 .. REAPER_SCAN_INTERVAL - 1
      BY <3>1, ModRange
    <3> QED  BY <1>2, <3>1, <3>2
  <2>6. SYSTEM_TICKS' = sys_tick
    BY <1>2 DEF switch_to
  <2> QED  BY <1>1, <1>2, <1>3, <2>1, <2>2, <2>3, <2>4, <2>5, <2>6
           DEF SchedTypeOK, identity, counts
<1> QED  BY <1>3, <1>4 DEF SchedInv

(* The reaper's scan: the slots it clears are Zombies, so neither the      *)
(* current slot nor the idle task's is among them, and it takes as many    *)
(* off NUM_TASKS as off the table.                                         *)
LEMMA ScanKeeps ==
  ASSUME SchedInv, NEW next \in Slots, schedule_reaper_scan(next)
  PROVE  SchedInv'
<1> USE SchedAssumption
<1> DEFINE Z == {i \in active : StateSwitched(next)[i] = "Zombie"}
           M == {i \in active \ Z : deadline[i] # 0 /\ sys_tick > deadline[i]}
<1>1. SchedTypeOK /\ RunningIsCurrent /\ KilledStaysDead /\ PidsUnique /\ CountMatches /\ PidsBelowNext
  BY DEF SchedInv
<1>2. /\ switch_to(next)
      /\ REAPER_TICKS' = 0
      /\ active' = active \ Z
      /\ state' = Reset(StateSwitched(next), Z, "Ready")
      /\ pid' = Reset(pid, Z, 0)
      /\ NUM_TASKS' = Fewer(Cardinality(Z))
      /\ reaped' = reaped \union {pid[i] : i \in Z}
      /\ UNCHANGED <<NEXT_PID, killed>>
  BY DEF schedule_reaper_scan
<1>3. /\ entry_point' = Reset(entry_point, Z, "none")
      /\ base_priority' = Reset(base_priority, Z, 0)
      /\ priority' = Reset(PrioritySwitched, Z, 0)
      /\ remaining_time' = Reset(RemainingSwitched(next), Z, 0)
      /\ last_run_tick' = Reset([last_run_tick EXCEPT ![next] = sys_tick], Z, 0)
      /\ affinity' = Reset(affinity, Z, 0)
      /\ wake_at' = Reset(wake_at, Z, 0)
      /\ deadline' = Reset(deadline, Z \union M, 0)
      /\ REAPER_MISSED_DEADLINES' = REAPER_MISSED_DEADLINES + Cardinality(M)
      /\ reports' = IF Z = {} THEN reports ELSE reports \union {0}
  BY DEF schedule_reaper_scan
<1>4. /\ next \in active
      /\ StateSwitched(next) \in [Slots -> TaskStates]
      /\ StateSwitched(next)[next] = "Running"
      /\ \A i \in active : /\ StateSwitched(next)[i] = "Zombie" <=> state[i] = "Zombie"
                           /\ StateSwitched(next)[i] = "Running" => i = next
  BY <1>1, <1>2, SwitchStates
<1>5. /\ Z \in SUBSET Slots /\ M \in SUBSET Slots /\ active \in SUBSET Slots
      /\ Z \subseteq active
      /\ Z = {i \in active : state[i] = "Zombie"}
      /\ next \notin Z
  BY <1>1, <1>4 DEF SchedTypeOK
<1>6. CURRENT_TASK_ID' = next /\ SYSTEM_TICKS' = sys_tick
  BY <1>2 DEF switch_to
<1>7. /\ IsFiniteSet(Z) /\ Cardinality(Z) \in Nat
      /\ IsFiniteSet(active) /\ Cardinality(active) \in Nat
      /\ IsFiniteSet(active \ Z) /\ Cardinality(active \ Z) \in Nat
      /\ Cardinality(M) \in Nat
  <2>1. active \ Z \in SUBSET Slots
    BY <1>5
  <2> QED  BY <1>5, <2>1, SlotsFinite
<1> HIDE DEF Z, M
<1>8. \A i \in active' : i \in active /\ i \notin Z /\ i \in Slots
                        /\ pid'[i] = pid[i] /\ state'[i] = StateSwitched(next)[i]
  BY <1>2, <1>5 DEF Reset
<1>9. SchedTypeOK'
  <2>1. /\ sys_tick \in 0 .. TICK_MOD - 1
        /\ PrioritySwitched \in [Slots -> 0 .. MAX_PRIORITY]
        /\ RemainingSwitched(next) \in [Slots -> 0 .. MAX_PRIORITY]
    BY <1>1, PhaseTypes
  <2>2. ASSUME NEW T, NEW f \in [Slots -> T], NEW v \in T, NEW S
        PROVE  Reset(f, S, v) \in [Slots -> T]
    BY DEF Reset
  <2>3. state' \in [Slots -> TaskStates] /\ active' \subseteq Slots
    <3>1. "Ready" \in TaskStates
      BY DEF TaskStates
    <3> QED  BY <1>2, <1>4, <1>5, <2>2, <3>1
  <2>4. pid' \in [Slots -> Nat]
    <3>1. pid \in [Slots -> Nat]
      BY <1>1 DEF SchedTypeOK
    <3> QED  BY <1>2, <2>2, <3>1
  <2>5. entry_point' \in [Slots -> Bodies]
    <3>1. entry_point \in [Slots -> Bodies] /\ "none" \in Bodies
      BY <1>1 DEF SchedTypeOK, Bodies
    <3> QED  BY <1>3, <2>2, <3>1
  <2>6. /\ base_priority' \in [Slots -> 0 .. MAX_PRIORITY]
        /\ priority' \in [Slots -> 0 .. MAX_PRIORITY]
        /\ remaining_time' \in [Slots -> 0 .. MAX_PRIORITY]
    <3>1. base_priority \in [Slots -> 0 .. MAX_PRIORITY] /\ 0 \in 0 .. MAX_PRIORITY
      BY <1>1 DEF SchedTypeOK
    <3> QED  BY <1>3, <2>1, <2>2, <3>1
  <2>7. /\ last_run_tick' \in [Slots -> 0 .. TICK_MOD - 1]
        /\ wake_at' \in [Slots -> 0 .. TICK_MOD - 1]
        /\ deadline' \in [Slots -> 0 .. TICK_MOD - 1]
    <3>1. /\ last_run_tick \in [Slots -> 0 .. TICK_MOD - 1]
          /\ wake_at \in [Slots -> 0 .. TICK_MOD - 1]
          /\ deadline \in [Slots -> 0 .. TICK_MOD - 1]
      BY <1>1 DEF SchedTypeOK
    <3>2. 0 \in 0 .. TICK_MOD - 1
      BY SchedAssumption
    <3>3. [last_run_tick EXCEPT ![next] = sys_tick] \in [Slots -> 0 .. TICK_MOD - 1]
      BY <2>1, <3>1
    <3>4. last_run_tick' \in [Slots -> 0 .. TICK_MOD - 1]
      BY <1>3, <2>2, <3>2, <3>3
    <3>5. wake_at' \in [Slots -> 0 .. TICK_MOD - 1]
      BY <1>3, <2>2, <3>1, <3>2
    <3>6. deadline' \in [Slots -> 0 .. TICK_MOD - 1]
      BY <1>3, <2>2, <3>1, <3>2
    <3> QED  BY <3>4, <3>5, <3>6
  <2>8. affinity' \in [Slots -> 0 .. MAX_AFFINITIES]
    <3>1. affinity \in [Slots -> 0 .. MAX_AFFINITIES] /\ 0 \in 0 .. MAX_AFFINITIES
      BY <1>1 DEF SchedTypeOK
    <3> QED  BY <1>3, <2>2, <3>1
  <2>9. /\ NUM_TASKS' \in Nat /\ NEXT_PID' \in Nat
        /\ REAPER_MISSED_DEADLINES' \in Nat
        /\ REAPER_TICKS' \in 0 .. REAPER_SCAN_INTERVAL - 1
        /\ reports' \subseteq Nat /\ killed' \subseteq Nat
    <3>1. /\ NUM_TASKS \in Nat /\ NEXT_PID \in Nat
          /\ REAPER_MISSED_DEADLINES \in Nat
          /\ reports \subseteq Nat /\ killed \subseteq Nat
      BY <1>1 DEF SchedTypeOK
    <3>2. NUM_TASKS' \in Nat
      BY <1>2, <1>7, <3>1 DEF Fewer
    <3>3. REAPER_MISSED_DEADLINES' \in Nat
      BY <1>3, <1>7, <3>1
    <3>4. reports' \subseteq Nat
      BY <1>3, <3>1
    <3>5. REAPER_TICKS' \in 0 .. REAPER_SCAN_INTERVAL - 1
      BY <1>2, SchedAssumption
    <3>6. NEXT_PID' \in Nat /\ killed' \subseteq Nat
      BY <1>2, <1>3, <3>1
    <3> QED  BY <3>2, <3>3, <3>4, <3>5, <3>6
  <2>10. reaped' \subseteq Nat
    BY <1>1, <1>2, <1>5 DEF SchedTypeOK
  <2> QED  BY <1>6, <2>1, <2>3, <2>4, <2>5, <2>6, <2>7, <2>8, <2>9, <2>10 DEF SchedTypeOK
<1>10. RunningIsCurrent'
  BY <1>2, <1>4, <1>5, <1>6, <1>8 DEF RunningIsCurrent
<1>11. KilledStaysDead'
  <2>1. \A i \in active' : pid'[i] \in killed' <=> state'[i] = "Zombie"
    BY <1>1, <1>2, <1>4, <1>8 DEF KilledStaysDead
  <2>2. reaped' \subseteq killed'
    BY <1>1, <1>2, <1>5 DEF KilledStaysDead
  <2>3. 0 \in active'
    <3>1. 0 \notin killed
      BY <1>1 DEF PidsBelowNext
    <3> QED  BY <1>1, <1>2, <1>5, <3>1 DEF KilledStaysDead
  <2>4. pid'[0] = 0
    BY <1>1, <1>8, <2>3 DEF KilledStaysDead
  <2> QED  BY <2>1, <2>2, <2>3, <2>4 DEF KilledStaysDead
<1>12. PidsUnique'
  BY <1>1, <1>8 DEF PidsUnique
<1>13. CountMatches'
  <2>1. (active \ Z) \union Z = active /\ (active \ Z) \cap Z = {}
    BY <1>5
  <2>2. Cardinality((active \ Z) \union Z)
          = Cardinality(active \ Z) + Cardinality(Z) - Cardinality((active \ Z) \cap Z)
    BY <1>7, FS_Union, Zenon
  <2>3. Cardinality((active \ Z) \cap Z) = 0
    BY <2>1, FS_EmptySet, Zenon
  <2>4. Cardinality((active \ Z) \union Z) = Cardinality(active \ Z) + Cardinality(Z)
    BY <1>7, <2>2, <2>3
  <2>5. Cardinality(active) = Cardinality(active \ Z) + Cardinality(Z)
    BY <2>1, <2>4, Zenon
  <2>6. NUM_TASKS' = Cardinality(active \ Z)
    BY <1>1, <1>2, <1>7, <2>5 DEF CountMatches, Fewer
  <2> QED  BY <1>2, <2>6, Zenon DEF CountMatches
<1>14. PidsBelowNext'
  BY <1>1, <1>2, <1>8 DEF PidsBelowNext
<1> QED  BY <1>9, <1>10, <1>11, <1>12, <1>13, <1>14 DEF SchedInv

LEMMA SchedInvNext == SchedInv /\ [SchedNext]_schedVars => SchedInv'
<1> SUFFICES ASSUME SchedInv, [SchedNext]_schedVars PROVE SchedInv'
  OBVIOUS
<1>1. ASSUME NEW t \in NewTasks, rust_create_task_ex(t) PROVE SchedInv'
  BY <1>1, CreateKeeps, SchedAssumption
<1>2. ASSUME NEW p \in Killable, rust_kill_task(p) PROVE SchedInv'
  BY <1>2, KillKeeps, SchedAssumption
<1>3. CASE schedule_idle
  BY <1>3, IdleKeeps
<1>4. ASSUME NEW next \in Slots, schedule_work(next) \/ schedule_reaper_count(next)
      PROVE  SchedInv'
  <2>1. 0 \in Nat
    OBVIOUS
  <2> QED  BY <1>4, <2>1, RunKeeps
<1>5. ASSUME NEW next \in Slots, NEW n \in SleepTicks, schedule_sleep(next, n)
      PROVE  SchedInv'
  BY <1>5, RunKeeps, SchedAssumption
<1>6. ASSUME NEW next \in Slots, schedule_reaper_scan(next) PROVE SchedInv'
  BY <1>6, ScanKeeps
<1>7. CASE UNCHANGED schedVars
  BY <1>7 DEF SchedInv, SchedTypeOK, RunningIsCurrent, KilledStaysDead, PidsUnique,
     CountMatches, PidsBelowNext, schedVars, identity, counts
<1> QED  BY <1>1, <1>2, <1>3, <1>4, <1>5, <1>6, <1>7 DEF SchedNext, rust_schedule

LEMMA SchedInvariant == SchedSpec => []SchedInv
BY SchedInvInit, SchedInvNext, PTL DEF SchedSpec

(* Indices and counters of the task table stay in range. *)
THEOREM SchedTypeCorrect == SchedSpec => []SchedTypeOK
<1>1. SchedInv => SchedTypeOK
  BY DEF SchedInv
<1> QED  BY <1>1, SchedInvariant, PTL

(* Only the current task runs, and its slot is never reclaimed under it. *)
THEOREM OnlyCurrentRuns == SchedSpec => []RunningIsCurrent
<1>1. SchedInv => RunningIsCurrent
  BY DEF SchedInv
<1> QED  BY <1>1, SchedInvariant, PTL

(* A killed task never runs again, and only killed tasks lose their slot. *)
THEOREM DeadStayDead == SchedSpec => []KilledStaysDead
<1>1. SchedInv => KilledStaysDead
  BY DEF SchedInv
<1> QED  BY <1>1, SchedInvariant, PTL

(* A pid names at most one live task, and NUM_TASKS counts the occupied    *)
(* slots, after any sequence of creations, kills, ticks and scans.         *)
THEOREM TableStaysExact == SchedSpec => []TableExact
<1>1. SchedInv => TableExact
  BY DEF SchedInv, TableExact
<1> QED  BY <1>1, SchedInvariant, PTL
-----------------------------------------------------------------------------
(* Sleeping.                                                               *)

(* A run that ends before the wake tick of a sleeper would wrap: at 1000   *)
(* interrupts a second, the first 49 days after boot.                      *)
TicksDoNotWrap == \A n \in SleepTicks : MaxTicks + n < TICK_MOD

(* A sleeper was last dispatched when it went to sleep, and is due after   *)
(* the ticks it asked for.                                                 *)
SleepInv ==
  /\ SYSTEM_TICKS <= MaxTicks
  /\ \A i \in active : state[i] = "Sleeping"
                         => \E n \in SleepTicks : wake_at[i] = last_run_tick[i] + n

LEMMA ModSmall == ASSUME NEW m \in Nat \ {0}, NEW a \in 0 .. m - 1 PROVE a % m = a
OBVIOUS

(* The tick counts up, or starts again at 0. *)
LEMMA TickBound ==
  ASSUME SchedTypeOK, SYSTEM_TICKS < MaxTicks
  PROVE  sys_tick \in 0 .. TICK_MOD - 1 /\ sys_tick <= MaxTicks
<1>1. /\ SYSTEM_TICKS \in 0 .. TICK_MOD - 1 /\ TICK_MOD \in Nat \ {0}
      /\ MaxTicks \in Nat
  BY SchedAssumption DEF SchedTypeOK
<1>2. sys_tick \in 0 .. TICK_MOD - 1
  BY PhaseTypes
<1>3. CASE SYSTEM_TICKS + 1 < TICK_MOD
  <2>1. SYSTEM_TICKS + 1 \in 0 .. TICK_MOD - 1
    BY <1>1, <1>3
  <2>2. sys_tick = SYSTEM_TICKS + 1
    BY <1>1, <2>1, ModSmall DEF sys_tick
  <2> QED  BY <1>1, <1>2, <2>2
<1>4. CASE SYSTEM_TICKS + 1 = TICK_MOD
  BY <1>1, <1>2, <1>4
<1> QED  BY <1>1, <1>3, <1>4

(* Phases 1 to 5 take only sleepers that are due out of their sleep, and   *)
(* put none to sleep.                                                      *)
LEMMA PhasesWakeDue ==
  ASSUME SchedTypeOK, NEW i \in active
  PROVE  /\ state[i] = "Sleeping" /\ StateAwake[i] # "Sleeping" => sys_tick >= wake_at[i]
         /\ StateAwake[i] = "Sleeping" => state[i] = "Sleeping"
         /\ \A next \in Candidates :
              /\ state[i] = "Sleeping" /\ StateSwitched(next)[i] # "Sleeping"
                   => sys_tick >= wake_at[i]
              /\ StateSwitched(next)[i] = "Sleeping" => state[i] = "Sleeping" /\ i # next
<1>1. i \in Slots
  BY DEF SchedTypeOK
<1>2. StateAwake[i] = IF i \in Due THEN "Ready" ELSE state[i]
  BY <1>1 DEF StateAwake
<1>3. i \in Due => sys_tick >= wake_at[i]
  BY DEF Due
<1>4. ASSUME NEW next \in Candidates
      PROVE  /\ StateAwake[next] = "Ready"
             /\ StateSwitched(next)[i] = IF i = next THEN "Running"
                                         ELSE IF i = CURRENT_TASK_ID /\ StateAwake[i] = "Running"
                                              THEN "Ready" ELSE StateAwake[i]
  BY <1>1 DEF Candidates, InEpoch, Runnable, ReadySlots, StateSwitched
<1> QED  BY <1>2, <1>3, <1>4

(* What a tick does to sleepers. *)
TickSleeps ==
  /\ SYSTEM_TICKS' = sys_tick
  /\ active' \subseteq active
  /\ \A i \in active : state[i] = "Sleeping" /\ state'[i] \in {"Ready", "Running"}
                         => sys_tick >= wake_at[i]
  /\ \A i \in active' : state'[i] = "Sleeping" =>
       \/ state[i] = "Sleeping" /\ wake_at'[i] = wake_at[i] /\ last_run_tick'[i] = last_run_tick[i]
       \/ \E n \in SleepTicks : /\ last_run_tick'[i] = sys_tick
                                /\ wake_at'[i] = (sys_tick + n) % TICK_MOD

LEMMA TickSleepers ==
  ASSUME SchedInv, rust_schedule
  PROVE  TickSleeps
<1>1. SchedTypeOK /\ RunningIsCurrent
  BY DEF SchedInv
<1>2. /\ active \subseteq Slots
      /\ last_run_tick \in [Slots -> 0 .. TICK_MOD - 1] /\ wake_at \in [Slots -> 0 .. TICK_MOD - 1]
  BY <1>1 DEF SchedTypeOK
<1>3. CASE schedule_idle
  <2>1. /\ SYSTEM_TICKS' = sys_tick /\ state' = StateAwake /\ active' = active
        /\ UNCHANGED <<wake_at, last_run_tick>>
    BY <1>3 DEF schedule_idle, identity
  <2> QED  BY <1>1, <2>1, PhasesWakeDue DEF TickSleeps
<1>4. ASSUME NEW next \in Slots, schedule_work(next) \/ schedule_reaper_count(next)
      PROVE  TickSleeps
  <2>1. /\ SYSTEM_TICKS' = sys_tick /\ state' = StateSwitched(next) /\ active' = active
        /\ wake_at' = wake_at /\ last_run_tick' = [last_run_tick EXCEPT ![next] = sys_tick]
        /\ next \in Candidates
    BY <1>4 DEF schedule_work, schedule_reaper_count, switch_to, identity
  <2>2. \A i \in active : i # next => last_run_tick'[i] = last_run_tick[i]
    BY <1>2, <2>1
  <2> QED  BY <1>1, <2>1, <2>2, PhasesWakeDue DEF TickSleeps
<1>5. ASSUME NEW next \in Slots, NEW n \in SleepTicks, schedule_sleep(next, n)
      PROVE  TickSleeps
  <2>1. /\ SYSTEM_TICKS' = sys_tick /\ active' = active
        /\ state' = [StateSwitched(next) EXCEPT ![next] = "Sleeping"]
        /\ wake_at' = [wake_at EXCEPT ![next] = (sys_tick + n) % TICK_MOD]
        /\ last_run_tick' = [last_run_tick EXCEPT ![next] = sys_tick]
        /\ next \in Candidates /\ switch_to(next)
    BY <1>5 DEF schedule_sleep, switch_to, identity
  <2>2. StateSwitched(next) \in [Slots -> TaskStates]
    BY <1>1, <2>1, SwitchStates
  <2>3. /\ state'[next] = "Sleeping" /\ last_run_tick'[next] = sys_tick
        /\ wake_at'[next] = (sys_tick + n) % TICK_MOD
        /\ \A i \in active : i # next => /\ state'[i] = StateSwitched(next)[i]
                                         /\ last_run_tick'[i] = last_run_tick[i]
                                         /\ wake_at'[i] = wake_at[i]
    BY <1>2, <2>1, <2>2
  <2> QED  BY <1>1, <2>1, <2>3, PhasesWakeDue DEF TickSleeps
<1>6. ASSUME NEW next \in Slots, schedule_reaper_scan(next) PROVE TickSleeps
  <2> DEFINE Z == {i \in active : StateSwitched(next)[i] = "Zombie"}
  <2>1. /\ SYSTEM_TICKS' = sys_tick /\ active' = active \ Z
        /\ state' = Reset(StateSwitched(next), Z, "Ready")
        /\ wake_at' = Reset(wake_at, Z, 0)
        /\ last_run_tick' = Reset([last_run_tick EXCEPT ![next] = sys_tick], Z, 0)
        /\ next \in Candidates /\ switch_to(next)
    BY <1>6 DEF schedule_reaper_scan, switch_to
  <2>2. \A i \in active : state[i] = "Sleeping" => i \notin Z
    BY <1>1, <2>1, SwitchStates
  <2>3. \A i \in active : i \notin Z => /\ state'[i] = StateSwitched(next)[i]
                                        /\ wake_at'[i] = wake_at[i]
                                        /\ i # next => last_run_tick'[i] = last_run_tick[i]
    <3> HIDE DEF Z
    <3> QED  BY <1>2, <2>1 DEF Reset
  <2> HIDE DEF Z
  <2> QED  BY <1>1, <2>1, <2>2, <2>3, PhasesWakeDue DEF TickSleeps
<1> QED  BY <1>3, <1>4, <1>5, <1>6 DEF rust_schedule

LEMMA SleepInvInit == SchedInit => SleepInv
<1> SUFFICES ASSUME SchedInit PROVE SleepInv
  OBVIOUS
<1>1. SYSTEM_TICKS = 0 /\ MaxTicks \in Nat
  BY SchedAssumption DEF SchedInit
<1>2. \A i \in active : i \in Slots
  BY SchedInvInit DEF SchedInv, SchedTypeOK
<1>3. \A i \in active : state[i] # "Sleeping"
  BY <1>2 DEF SchedInit
<1> QED  BY <1>1, <1>3 DEF SleepInv

LEMMA SleepInvNext ==
  ASSUME TicksDoNotWrap
  PROVE  SchedInv /\ SleepInv /\ [SchedNext]_schedVars => SleepInv'
<1> SUFFICES ASSUME SchedInv, SleepInv, [SchedNext]_schedVars PROVE SleepInv'
  OBVIOUS
<1>1. SchedTypeOK
  BY DEF SchedInv
<1>2. CASE rust_schedule
  <2>1. TickSleeps /\ sys_tick \in 0 .. TICK_MOD - 1 /\ sys_tick <= MaxTicks
    BY <1>1, <1>2, TickSleepers, TickBound DEF rust_schedule
  <2>2. ASSUME NEW n \in SleepTicks PROVE (sys_tick + n) % TICK_MOD = sys_tick + n
    <3>1. n \in Nat /\ TICK_MOD \in Nat \ {0} /\ MaxTicks \in Nat /\ MaxTicks + n < TICK_MOD
      BY SchedAssumption DEF TicksDoNotWrap
    <3>2. sys_tick + n \in 0 .. TICK_MOD - 1
      BY <2>1, <3>1
    <3> QED  BY <3>1, <3>2, ModSmall
  <2>3. SYSTEM_TICKS' <= MaxTicks
    BY <2>1 DEF TickSleeps
  <2>4. ASSUME NEW i \in active', state'[i] = "Sleeping"
        PROVE  \E n \in SleepTicks : wake_at'[i] = last_run_tick'[i] + n
    <3>1. CASE /\ state[i] = "Sleeping" /\ wake_at'[i] = wake_at[i]
               /\ last_run_tick'[i] = last_run_tick[i]
      BY <2>1, <2>4, <3>1 DEF SleepInv, TickSleeps
    <3>2. CASE \E n \in SleepTicks : /\ last_run_tick'[i] = sys_tick
                                     /\ wake_at'[i] = (sys_tick + n) % TICK_MOD
      BY <2>2, <3>2
    <3> QED  BY <2>1, <2>4, <3>1, <3>2 DEF TickSleeps
  <2> QED  BY <2>3, <2>4 DEF SleepInv
<1>3. ASSUME NEW t \in NewTasks, rust_create_task_ex(t) PROVE SleepInv'
  <2>1. PICK i \in Slots \ active :
          /\ active' = active \union {i} /\ SYSTEM_TICKS' = SYSTEM_TICKS
          /\ state' = [state EXCEPT ![i] = "Ready"]
          /\ last_run_tick' = [last_run_tick EXCEPT ![i] = SYSTEM_TICKS]
          /\ wake_at' = [wake_at EXCEPT ![i] = 0]
    BY <1>3 DEF rust_create_task_ex
  <2>2. /\ state'[i] = "Ready"
        /\ \A j \in active : /\ state'[j] = state[j] /\ wake_at'[j] = wake_at[j]
                             /\ last_run_tick'[j] = last_run_tick[j]
    BY <1>1, <2>1 DEF SchedTypeOK
  <2> QED  BY <2>1, <2>2 DEF SleepInv
<1>4. ASSUME NEW p \in Killable, rust_kill_task(p) PROVE SleepInv'
  <2>1. PICK i \in active : state' = [state EXCEPT ![i] = "Zombie"]
    BY <1>4 DEF rust_kill_task
  <2>2. UNCHANGED <<active, SYSTEM_TICKS, last_run_tick, wake_at>>
    BY <1>4 DEF rust_kill_task, identity
  <2>3. \A j \in active : state'[j] = "Sleeping" => state[j] = "Sleeping"
    BY <1>1, <2>1 DEF SchedTypeOK
  <2> QED  BY <2>2, <2>3 DEF SleepInv
<1>5. CASE UNCHANGED schedVars
  BY <1>5 DEF SleepInv, schedVars, identity
<1> QED  BY <1>2, <1>3, <1>4, <1>5 DEF SchedNext

(* As long as the tick does not wrap, a task that sleeps n ticks is made   *)
(* ready no earlier than n ticks after it went to sleep, whatever else is  *)
(* created, killed, dispatched or reclaimed meanwhile (task_sleep, phase 1 *)
(* of rust_schedule).  Across a wrap it does not hold.                     *)
THEOREM SleepersSleep == ASSUME TicksDoNotWrap PROVE SchedSpec => SleepsFullTime
<1>1. ASSUME SchedInv, SleepInv, SchedNext, NEW i \in active,
             state[i] = "Sleeping", state'[i] \in {"Ready", "Running"}
      PROVE  \E n \in SleepTicks : Elapsed(i) >= n
  <2>1. SchedTypeOK /\ i \in Slots
    BY <1>1 DEF SchedInv, SchedTypeOK
  <2>2. CASE rust_schedule
    <3>1. SYSTEM_TICKS' = sys_tick /\ sys_tick >= wake_at[i]
      BY <1>1, <2>2, TickSleepers DEF TickSleeps
    <3>2. PICK n \in SleepTicks : wake_at[i] = last_run_tick[i] + n
      BY <1>1 DEF SleepInv
    <3>3. /\ n \in Nat /\ TICK_MOD \in Nat \ {0}
          /\ last_run_tick[i] \in 0 .. TICK_MOD - 1 /\ sys_tick \in 0 .. TICK_MOD - 1
      BY <2>1, SchedAssumption, PhaseTypes DEF SchedTypeOK
    <3>4. PICK e \in 0 .. TICK_MOD - 1 : e = sys_tick - last_run_tick[i] /\ e >= n
      BY <3>1, <3>2, <3>3
    <3>5. Elapsed(i) = (e + TICK_MOD) % TICK_MOD
      BY <3>1, <3>3, <3>4 DEF Elapsed
    <3>6. (e + TICK_MOD) % TICK_MOD = e
      BY <3>3, <3>4
    <3> QED  BY <3>4, <3>5, <3>6
  <2>3. ASSUME NEW t \in NewTasks, rust_create_task_ex(t) PROVE FALSE
    <3>1. PICK j \in Slots \ active : state' = [state EXCEPT ![j] = "Ready"]
      BY <2>3 DEF rust_create_task_ex
    <3> QED  BY <1>1, <2>1, <3>1 DEF SchedTypeOK
  <2>4. ASSUME NEW p \in Killable, rust_kill_task(p) PROVE FALSE
    <3>1. PICK j \in active : state' = [state EXCEPT ![j] = "Zombie"]
      BY <2>4 DEF rust_kill_task
    <3> QED  BY <1>1, <2>1, <3>1 DEF SchedTypeOK
  <2> QED  BY <1>1, <2>2, <2>3, <2>4 DEF SchedNext
<1>2. SchedInv /\ SleepInv /\ [SchedNext]_schedVars =>
        [\A i \in active :
           state[i] = "Sleeping" /\ state'[i] \in {"Ready", "Running"}
             => \E n \in SleepTicks : Elapsed(i) >= n]_schedVars
  BY <1>1
<1> QED  BY <1>2, SchedInvariant, SleepInvInit, SleepInvNext, PTL DEF SchedSpec, SleepsFullTime
=============================================================================
