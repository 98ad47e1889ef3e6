------------------------------ MODULE Scheduler ------------------------------
(***************************************************************************)
(* The task table and timer scheduler of the Rust kernel                   *)
(* (rust_lib/src/lib.rs): rust_init_multitasking, rust_create_task_ex,     *)
(* rust_kill_task, task_sleep, rust_schedule and reaper_task.              *)
(*                                                                         *)
(* One step of rust_schedule is one timer interrupt: the seven phases and  *)
(* the body of the task it dispatches, which returns before the handler    *)
(* does.  The fields of Task are functions on the slots of TASKS; active   *)
(* is the set of slots whose is_active is true.  time_slice always equals  *)
(* base_priority and is not kept apart.  Fields that nothing decides on    *)
(* (id, created_tick, total_ticks, block_reason, ipc_slot) are left out.   *)
(***************************************************************************)
EXTENDS Integers, FiniteSets, Sequences

CONSTANTS
  MAX_TASKS,             \* slots of TASKS, 64 in the code
  MAX_AFFINITIES,        \* epochs, 8 in the code
  MAX_PRIORITY,          \* top of u8, 255 in the code
  AGING_THRESH,          \* 300 in the code
  AGING_BOOST,           \* 10 in the code
  REAPER_SCAN_INTERVAL,  \* 200 in the code
  TICK_MOD,              \* SYSTEM_TICKS counts modulo this, 2^32 in the code
  FIRST_PID,             \* initial NEXT_PID, 1000 in the code
  BootTasks,             \* the tasks rust_start_demo_tasks creates, in order
  NewTasks,              \* the tasks later calls of rust_create_task_ex ask for
  Killable,              \* the pids the kill command is given
  SleepTicks,            \* the arguments task bodies give task_sleep
  MaxTicks,              \* bound: no interrupt once SYSTEM_TICKS is MaxTicks
  MaxPid                 \* bound: no task created with a pid above MaxPid

Slots == 0 .. MAX_TASKS - 1

\* What entry_point does: 0 for the idle task, a body that leaves the task
\* table alone, one that ends with task_sleep, or reaper_task.
Bodies == {"none", "work", "sleep", "reaper"}

\* The arguments of rust_create_task_ex.
TaskArgs == [entry_point : Bodies, priority : 0 .. MAX_PRIORITY,
             affinity : Nat, deadline : 0 .. TICK_MOD - 1]

ASSUME SchedAssumption ==
  /\ MAX_TASKS \in Nat \ {0}
  /\ MAX_AFFINITIES \in Nat \ {0}
  /\ MAX_PRIORITY \in Nat \ {0}
  /\ AGING_THRESH \in Nat
  /\ AGING_BOOST \in Nat
  /\ REAPER_SCAN_INTERVAL \in Nat \ {0}
  /\ TICK_MOD \in Nat \ {0}
  /\ FIRST_PID \in Nat \ {0}
  /\ BootTasks \in Seq(TaskArgs) /\ Len(BootTasks) < MAX_TASKS
  /\ NewTasks \subseteq TaskArgs
  /\ Killable \subseteq Nat
  /\ SleepTicks \subseteq Nat
  /\ MaxTicks \in Nat
  /\ MaxPid \in Nat

VARIABLES
  active, state, pid, entry_point, base_priority, priority, remaining_time,
  last_run_tick, affinity, wake_at, deadline,
  CURRENT_TASK_ID, NUM_TASKS, NEXT_PID, SYSTEM_TICKS,
  REAPER_TICKS,             \* modulo REAPER_SCAN_INTERVAL
  REAPER_MISSED_DEADLINES,
  reports,                  \* payloads of the Reaper messages posted so far
  killed, reaped            \* history: pids killed, and pids whose slot was reclaimed

identity == <<active, pid, entry_point, base_priority, affinity, deadline>>
counts   == <<NUM_TASKS, NEXT_PID, REAPER_MISSED_DEADLINES, reports, reaped>>
schedVars ==
  <<identity, state, priority, remaining_time, last_run_tick, wake_at,
    CURRENT_TASK_ID, SYSTEM_TICKS, REAPER_TICKS, counts, killed>>

-----------------------------------------------------------------------------
(* Boot: rust_init_multitasking, then rust_start_demo_tasks.               *)

BootSlots == 1 .. Len(BootTasks)

\* affinity % (MAX_AFFINITIES + 1), as rust_create_task_ex stores it
Group(a) == a % (MAX_AFFINITIES + 1)

SchedInit ==
  /\ active = 0 .. Len(BootTasks)
  /\ state = [i \in Slots |-> IF i = 0 THEN "Running" ELSE "Ready"]
  /\ pid = [i \in Slots |-> IF i \in BootSlots THEN FIRST_PID + i - 1 ELSE 0]
  /\ entry_point = [i \in Slots |-> IF i \in BootSlots THEN BootTasks[i].entry_point ELSE "none"]
  /\ base_priority = [i \in Slots |-> IF i \in BootSlots THEN BootTasks[i].priority
                                      ELSE IF i = 0 THEN 1 ELSE 0]
  /\ priority = base_priority
  /\ remaining_time = base_priority
  /\ last_run_tick = [i \in Slots |-> 0]
  /\ affinity = [i \in Slots |-> IF i \in BootSlots THEN Group(BootTasks[i].affinity) ELSE 0]
  /\ wake_at = [i \in Slots |-> 0]
  /\ deadline = [i \in Slots |-> IF i \in BootSlots THEN BootTasks[i].deadline ELSE 0]
  /\ CURRENT_TASK_ID = 0
  /\ NUM_TASKS = 1 + Len(BootTasks)
  /\ NEXT_PID = FIRST_PID + Len(BootTasks)
  /\ SYSTEM_TICKS = 0
  /\ REAPER_TICKS = 0
  /\ REAPER_MISSED_DEADLINES = 0
  /\ reports = {}
  /\ killed = {}
  /\ reaped = {}

-----------------------------------------------------------------------------
(* Creating and killing tasks.                                             *)

\* NEXT_PID.fetch_add(1) gives the new task its pid.
fetch_add_pid_stuck(i) ==     \* Mutant: the counter is read, not advanced.
  /\ pid' = [pid EXCEPT ![i] = NEXT_PID]
  /\ UNCHANGED NEXT_PID

fetch_add_pid(i) ==
  /\ pid' = [pid EXCEPT ![i] = NEXT_PID]
  /\ NEXT_PID' = NEXT_PID + 1

\* The first free slot; with none, rust_create_task_ex returns -1 and changes nothing.
rust_create_task_ex(t) ==
  \E i \in Slots \ active :
    /\ \A j \in Slots \ active : i <= j
    /\ NEXT_PID <= MaxPid
    /\ active' = active \union {i}
    /\ fetch_add_pid(i)
    /\ state' = [state EXCEPT ![i] = "Ready"]
    /\ entry_point' = [entry_point EXCEPT ![i] = t.entry_point]
    /\ base_priority' = [base_priority EXCEPT ![i] = t.priority]
    /\ priority' = [priority EXCEPT ![i] = t.priority]
    /\ remaining_time' = [remaining_time EXCEPT ![i] = t.priority]
    /\ last_run_tick' = [last_run_tick EXCEPT ![i] = SYSTEM_TICKS]
    /\ affinity' = [affinity EXCEPT ![i] = Group(t.affinity)]
    /\ wake_at' = [wake_at EXCEPT ![i] = 0]
    /\ deadline' = [deadline EXCEPT ![i] = t.deadline]
    /\ NUM_TASKS' = NUM_TASKS + 1
    /\ UNCHANGED <<CURRENT_TASK_ID, SYSTEM_TICKS, REAPER_TICKS,
                   REAPER_MISSED_DEADLINES, reports, killed, reaped>>

\* Pid 0 is refused; otherwise the first active slot with that pid becomes a Zombie.
rust_kill_task(p) ==
  /\ p # 0
  /\ \E i \in active :
       /\ pid[i] = p
       /\ \A j \in active : pid[j] = p => i <= j
       /\ state' = [state EXCEPT ![i] = "Zombie"]
  /\ killed' = killed \union {p}
  /\ UNCHANGED <<identity, priority, remaining_time, last_run_tick, wake_at,
                 CURRENT_TASK_ID, SYSTEM_TICKS, REAPER_TICKS, counts>>

-----------------------------------------------------------------------------
(* rust_schedule: phases 1 to 4.                                           *)

sys_tick == (SYSTEM_TICKS + 1) % TICK_MOD

\* Phase 1: the sleeping tasks that are due become Ready.
Due_early ==     \* Mutant: one tick early.
  {i \in active : state[i] = "Sleeping" /\ sys_tick + 1 >= wake_at[i]}

Due == {i \in active : state[i] = "Sleeping" /\ sys_tick >= wake_at[i]}

StateAwake == [i \in Slots |-> IF i \in Due THEN "Ready" ELSE state[i]]

ReadySlots == {i \in active : StateAwake[i] = "Ready"}

\* Phase 2: saturating age, saturating boost.
Age(i) == IF sys_tick > last_run_tick[i] THEN sys_tick - last_run_tick[i] ELSE 0

Boosted(p) == IF p + AGING_BOOST > MAX_PRIORITY THEN MAX_PRIORITY ELSE p + AGING_BOOST

PriorityAged_from_base ==     \* Mutant: the boost does not accumulate.
  [i \in Slots |-> IF i \in ReadySlots /\ Age(i) > AGING_THRESH
                   THEN Boosted(base_priority[i]) ELSE priority[i]]

PriorityAged ==
  [i \in Slots |-> IF i \in ReadySlots /\ Age(i) > AGING_THRESH
                   THEN Boosted(priority[i]) ELSE priority[i]]

\* Phase 3: one tick of the current task's slice is used up.
SliceUsed ==
  IF remaining_time[CURRENT_TASK_ID] > 0 THEN remaining_time[CURRENT_TASK_ID] - 1 ELSE 0

\* Phase 4: the scan starts behind the current task and keeps the first of
\* the highest priority; best_pri starts at 0, so priority 0 is never chosen.
affinity_ok(a) == a = 0 \/ sys_tick % MAX_AFFINITIES = a - 1

ScanOrder_from_zero(i) == i     \* Mutant: every scan starts at slot 0.

ScanOrder(i) == (i + MAX_TASKS - CURRENT_TASK_ID - 1) % MAX_TASKS

Wins(i, S) ==
  \A j \in S : \/ PriorityAged[i] > PriorityAged[j]
               \/ PriorityAged[i] = PriorityAged[j] /\ ScanOrder(i) <= ScanOrder(j)

Runnable == {i \in ReadySlots : PriorityAged[i] > 0}

InEpoch == {i \in Runnable : affinity_ok(affinity[i])}

\* Pass 2 ignores affinity, when pass 1 found nothing.
Candidates == IF InEpoch # {} THEN InEpoch ELSE Runnable

-----------------------------------------------------------------------------
(* rust_schedule: phases 5 to 7.                                           *)

\* Nothing to run: the current task keeps the processor with a fresh slice.
schedule_idle ==
  /\ Candidates = {}
  /\ SYSTEM_TICKS' = sys_tick
  /\ state' = StateAwake
  /\ priority' = PriorityAged
  /\ remaining_time' = [remaining_time EXCEPT ![CURRENT_TASK_ID] = base_priority[CURRENT_TASK_ID]]
  /\ UNCHANGED <<identity, last_run_tick, wake_at, CURRENT_TASK_ID, REAPER_TICKS, counts, killed>>

\* Phase 5: the outgoing task and the incoming one.
StateSwitched_keep(next) ==      \* Mutant: the outgoing task stays Running.
  [StateAwake EXCEPT ![next] = "Running"]

StateSwitched_always(next) ==    \* Mutant: the outgoing task becomes Ready whatever it was.
  [i \in Slots |-> IF i = next THEN "Running"
                   ELSE IF i = CURRENT_TASK_ID THEN "Ready" ELSE StateAwake[i]]

StateSwitched(next) ==
  [i \in Slots |-> IF i = next THEN "Running"
                   ELSE IF i = CURRENT_TASK_ID /\ StateAwake[i] = "Running" THEN "Ready"
                   ELSE StateAwake[i]]

PrioritySwitched ==
  [PriorityAged EXCEPT ![CURRENT_TASK_ID] = base_priority[CURRENT_TASK_ID]]

RemainingSwitched(next) ==
  [[remaining_time EXCEPT ![CURRENT_TASK_ID] = SliceUsed] EXCEPT ![next] = base_priority[next]]

switch_to(next) ==
  /\ next \in Candidates
  /\ Wins(next, Candidates)
  /\ SYSTEM_TICKS' = sys_tick
  /\ CURRENT_TASK_ID' = next

\* The body leaves the task table alone (or there is none).
schedule_work(next) ==
  /\ switch_to(next)
  /\ entry_point[next] \in {"none", "work"}
  /\ state' = StateSwitched(next)
  /\ priority' = PrioritySwitched
  /\ remaining_time' = RemainingSwitched(next)
  /\ last_run_tick' = [last_run_tick EXCEPT ![next] = sys_tick]
  /\ UNCHANGED <<identity, wake_at, REAPER_TICKS, counts, killed>>

\* The body ends with task_sleep(n).
schedule_sleep(next, n) ==
  /\ switch_to(next)
  /\ entry_point[next] = "sleep"
  /\ state' = [StateSwitched(next) EXCEPT ![next] = "Sleeping"]
  /\ wake_at' = [wake_at EXCEPT ![next] = (sys_tick + n) % TICK_MOD]
  /\ priority' = PrioritySwitched
  /\ remaining_time' = RemainingSwitched(next)
  /\ last_run_tick' = [last_run_tick EXCEPT ![next] = sys_tick]
  /\ UNCHANGED <<identity, REAPER_TICKS, counts, killed>>

\* REAPER_TICKS % REAPER_SCAN_INTERVAL == 0, after the increment.
ScanDue_late == REAPER_TICKS + 1 > REAPER_SCAN_INTERVAL     \* Mutant: never reached.

ScanDue == (REAPER_TICKS + 1) % REAPER_SCAN_INTERVAL = 0

\* NUM_TASKS.saturating_sub(1) for each of n slots.
Fewer_one(n) == NUM_TASKS - 1     \* Mutant: counted once for a scan.

Fewer(n) == IF NUM_TASKS > n THEN NUM_TASKS - n ELSE 0

\* reaper_task between two scans only counts.
schedule_reaper_count(next) ==
  /\ switch_to(next)
  /\ entry_point[next] = "reaper"
  /\ ~ScanDue
  /\ REAPER_TICKS' = (REAPER_TICKS + 1) % REAPER_SCAN_INTERVAL
  /\ state' = StateSwitched(next)
  /\ priority' = PrioritySwitched
  /\ remaining_time' = RemainingSwitched(next)
  /\ last_run_tick' = [last_run_tick EXCEPT ![next] = sys_tick]
  /\ UNCHANGED <<identity, wake_at, counts, killed>>

\* Task::new() for the slots in Z, f unchanged elsewhere.
Reset(f, Z, v) == [i \in Slots |-> IF i \in Z THEN v ELSE f[i]]

\* reaper_task at a scan: reclaim every Zombie (posting the pid field of the
\* slot it has just cleared), and count and clear the deadlines that passed.
schedule_reaper_scan(next) ==
  LET Z == {i \in active : StateSwitched(next)[i] = "Zombie"}
      M == {i \in active \ Z : deadline[i] # 0 /\ sys_tick > deadline[i]}
  IN
  /\ switch_to(next)
  /\ entry_point[next] = "reaper"
  /\ ScanDue
  /\ REAPER_TICKS' = 0
  /\ active' = active \ Z
  /\ state' = Reset(StateSwitched(next), Z, "Ready")
  /\ pid' = Reset(pid, Z, 0)
  /\ entry_point' = Reset(entry_point, Z, "none")
  /\ base_priority' = Reset(base_priority, Z, 0)
  /\ priority' = Reset(PrioritySwitched, Z, 0)
  /\ remaining_time' = Reset(RemainingSwitched(next), Z, 0)
  /\ last_run_tick' = Reset([last_run_tick EXCEPT ![next] = sys_tick], Z, 0)
  /\ affinity' = Reset(affinity, Z, 0)
  /\ wake_at' = Reset(wake_at, Z, 0)
  /\ deadline' = Reset(deadline, Z \union M, 0)
  /\ NUM_TASKS' = Fewer(Cardinality(Z))
  /\ REAPER_MISSED_DEADLINES' = REAPER_MISSED_DEADLINES + Cardinality(M)
  /\ reports' = IF Z = {} THEN reports ELSE reports \union {0}
  /\ reaped' = reaped \union {pid[i] : i \in Z}
  /\ UNCHANGED <<NEXT_PID, killed>>

rust_schedule ==
  /\ SYSTEM_TICKS < MaxTicks
  /\ \/ schedule_idle
     \/ \E next \in Slots :
          \/ schedule_work(next)
          \/ \E n \in SleepTicks : schedule_sleep(next, n)
          \/ schedule_reaper_count(next)
          \/ schedule_reaper_scan(next)

SchedNext ==
  \/ rust_schedule
  \/ \E t \in NewTasks : rust_create_task_ex(t)
  \/ \E p \in Killable : rust_kill_task(p)

SchedSpec == SchedInit /\ [][SchedNext]_schedVars

\* The programmable interval timer keeps interrupting.
FairSchedSpec == SchedSpec /\ WF_schedVars(rust_schedule)
-----------------------------------------------------------------------------
(* Type invariant: the fields of every slot and the counters stay in range, *)
(* so TASKS[CURRENT_TASK_ID] and TASKS[best_slot] are in bounds.            *)
TaskStates == {"Ready", "Running", "Blocked", "Zombie", "Sleeping"}

SchedTypeOK ==
  /\ active \subseteq Slots
  /\ state \in [Slots -> TaskStates]
  /\ pid \in [Slots -> Nat]
  /\ entry_point \in [Slots -> Bodies]
  /\ base_priority \in [Slots -> 0 .. MAX_PRIORITY]
  /\ priority \in [Slots -> 0 .. MAX_PRIORITY]
  /\ remaining_time \in [Slots -> 0 .. MAX_PRIORITY]
  /\ last_run_tick \in [Slots -> 0 .. TICK_MOD - 1]
  /\ affinity \in [Slots -> 0 .. MAX_AFFINITIES]
  /\ wake_at \in [Slots -> 0 .. TICK_MOD - 1]
  /\ deadline \in [Slots -> 0 .. TICK_MOD - 1]
  /\ CURRENT_TASK_ID \in Slots
  /\ NUM_TASKS \in Nat
  /\ NEXT_PID \in Nat
  /\ SYSTEM_TICKS \in 0 .. TICK_MOD - 1
  /\ REAPER_TICKS \in 0 .. REAPER_SCAN_INTERVAL - 1
  /\ REAPER_MISSED_DEADLINES \in Nat
  /\ reports \subseteq Nat
  /\ killed \subseteq Nat
  /\ reaped \subseteq Nat

(* The running task is the current one, and the slot the scheduler calls   *)
(* current is never reclaimed or reused under it, whoever is killed and    *)
(* whenever the reaper scans.                                              *)
RunningIsCurrent ==
  /\ CURRENT_TASK_ID \in active
  /\ \A i \in active : state[i] = "Running" => i = CURRENT_TASK_ID

(* A killed task never runs again, wakes again or is found by a second     *)
(* kill under its pid: until the reaper takes its slot it stays a Zombie.  *)
(* Only killed tasks lose their slot, and the idle task never does.        *)
KilledStaysDead ==
  /\ \A i \in active : pid[i] \in killed <=> state[i] = "Zombie"
  /\ reaped \subseteq killed
  /\ 0 \in active /\ pid[0] = 0

(* A pid names one live task: kill and task_info cannot reach another one. *)
PidsUnique == \A i, j \in active : pid[i] = pid[j] => i = j

(* NUM_TASKS, which the watchdog compares from check to check to detect a  *)
(* dead task, is the number of occupied slots after any sequence of        *)
(* creations, kills and scans.                                             *)
CountMatches == NUM_TASKS = Cardinality(active)

(* The task table is what kill, task_info and the watchdog take it for,    *)
(* whatever order tasks are made, killed and reaped in.                    *)
TableExact == PidsUnique /\ CountMatches

(* How long a task that is ready may wait, by the aging rule: past the     *)
(* threshold, one boost a tick up to the top priority, then one turn of    *)
(* every other slot in each epoch.                                         *)
WaitBound ==
  AGING_THRESH + (MAX_PRIORITY \div AGING_BOOST) + 1 + MAX_TASKS * MAX_AFFINITIES

(* Aging prevents starvation: no ready task that does not sleep waits      *)
(* longer than WaitBound ticks for its next turn.                          *)
AgedTaskRuns ==
  \A i \in active : state[i] = "Ready" /\ entry_point[i] # "sleep"
                      => SYSTEM_TICKS - last_run_tick[i] <= WaitBound

(* A task that sleeps n ticks is not made ready before n ticks went by.    *)
Elapsed(i) == (SYSTEM_TICKS' - last_run_tick[i] + TICK_MOD) % TICK_MOD

SleepsFullTime ==
  [][\A i \in active :
       state[i] = "Sleeping" /\ state'[i] \in {"Ready", "Running"}
         => \E n \in SleepTicks : Elapsed(i) >= n]_schedVars

(* A ready task is eventually dispatched, or killed.                       *)
ReadyTaskRuns ==
  \A i \in Slots : i \in active /\ state[i] = "Ready"
                    ~> i = CURRENT_TASK_ID \/ state[i] = "Zombie"

(* A killed task's slot is eventually reclaimed by reaper_task.            *)
ZombiesReaped ==
  \A p \in Killable : (\E i \in active : pid[i] = p /\ state[i] = "Zombie") ~> p \in reaped

(* The handbook (section 6): a missed deadline is caught within            *)
(* REAPER_SCAN_INTERVAL ticks.                                             *)
DeadlineCaught ==
  \A i \in active : deadline[i] # 0
                      => SYSTEM_TICKS <= deadline[i] + REAPER_SCAN_INTERVAL

(* The handbook (section 3): a Reaper message carries the pid of the task  *)
(* whose slot was reclaimed.                                               *)
ReportsNamePid == reaped \subseteq reports

(* The handbook (section 2, phase 3): a running task is preempted when its *)
(* remaining_time hits 0, not while it has time left.                      *)
SliceHonoured ==
  [][SYSTEM_TICKS' # SYSTEM_TICKS /\ state[CURRENT_TASK_ID] = "Running"
       /\ CURRENT_TASK_ID' # CURRENT_TASK_ID => SliceUsed = 0]_schedVars
=============================================================================
