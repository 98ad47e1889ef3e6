----------------------------- MODULE MCScheduler -----------------------------
(***************************************************************************)
(* Small instances of Scheduler for TLC.                                   *)
(***************************************************************************)
EXTENDS Scheduler

Task(body, pri, aff, dl) ==
  [entry_point |-> body, priority |-> pri, affinity |-> aff, deadline |-> dl]

\* A shell that outranks everything, a reaper below it and a pinned task.
MCBoot == <<Task("work", 3, 0, 0), Task("reaper", 2, 0, 0), Task("work", 1, 1, 0)>>

\* Tasks created later: one that sleeps, one with a deadline and no priority.
MCNew == {Task("sleep", 2, 0, 0), Task("work", 0, 2, 3)}

\* All of one priority, so that only the scan order decides.
MCBootEqual == <<Task("work", 1, 0, 0), Task("reaper", 1, 0, 0), Task("work", 1, 0, 0)>>

\* Two tasks of the top priority, and later ones that are pinned to an epoch
\* or of the top priority themselves, created at any tick.
MCBootTop == <<Task("work", 5, 0, 0), Task("work", 5, 0, 0)>>
MCNewTop == {Task("work", 1, 1, 0), Task("work", 5, 2, 0), Task("work", 5, 0, 0)}

\* A low-priority task beside two that are always ready.
MCBootLow == <<Task("work", 2, 0, 0), Task("work", 2, 0, 0), Task("reaper", 1, 0, 0)>>

\* A task that sleeps, beside one that works.
MCBootSleep == <<Task("sleep", 2, 0, 0), Task("work", 1, 0, 0)>>

\* The reaper and a task with a deadline.
MCBootDeadline == <<Task("reaper", 2, 0, 0), Task("work", 3, 0, 2), Task("work", 3, 0, 0)>>
=============================================================================
