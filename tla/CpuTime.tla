------------------------------ MODULE CpuTime ------------------------------
(***************************************************************************)
(* The processor time of one robot in competition mode: check_process and  *)
(* what it calls, over the games and sequences the robot plays in.  Times  *)
(* are whole ticks of the game clock, processor time is in jiffies (the    *)
(* code divides by 100).  The server reads the processor time of a robot   *)
(* from /proc; the layout of that file is the operating system's.          *)
(***************************************************************************)
EXTENDS Integers

CONSTANTS
    StartLimit,      \* OPTION_CPU_START_LIMIT
    Extra,           \* OPTION_CPU_EXTRA
    Period,          \* OPTION_CPU_PERIOD
    WarningPercent,  \* OPTION_CPU_WARNING_PERCENT
    Timeout,         \* OPTION_TIMEOUT
    GamesPerSequence,
    Sequences,       \* sequences the robot plays in
    MaxCpu           \* bound: jiffies used by one process

ASSUME CpuAssumption ==
    /\ StartLimit \in Nat /\ Extra \in Nat /\ Period \in Nat
    /\ WarningPercent \in 0 .. 100
    /\ Timeout \in Nat \ {0}
    /\ GamesPerSequence \in Nat \ {0} /\ Sequences \in Nat \ {0}
    /\ MaxCpu \in Nat

VARIABLES
    utime,              \* processor time of the process itself
    cutime,             \* and of the children it has waited for
    exists,             \* is there still a process with a file in /proc
    alive,              \* in the game
    unset,              \* dead_but_stats_not_set
    total_time,         \* game clock
    time_survived_in_sequence,
    cpu_used,
    last_cpu,
    cpu_limit,
    cpu_warning_limit,  \* in hundredths of a jiffy
    cpu_timeout,
    warnings,           \* warnings sent since the allowance was granted
    granted,            \* what /proc said, and what the children had really
    granted_children,   \*    used, when the allowance was granted
    lived,              \* ticks the robot has lived in this sequence,
    granted_at,         \*    and had lived when it got the last extra allowance
    game,
    sequence

budget  == <<cpu_used, last_cpu, cpu_limit, cpu_warning_limit, cpu_timeout>>
history == <<warnings, granted, granted_children, granted_at>>
place   == <<game, sequence>>
process == <<utime, cutime, exists>>
life    == <<alive, unset, total_time, time_survived_in_sequence, lived>>
vars    == <<budget, history, place, process, life>>

-----------------------------------------------------------------------------
\* The fields of /proc/pid/stat: 14 utime, 15 stime, 16 cutime, 17 cstime, 18
\* priority, 19 nice.  System time is counted as user time here; a robot runs
\* nice by 1, which /proc shows as priority 21.
ProcStat(field, own, children) ==
    CASE field = 14 -> own
      [] field = 16 -> children
      [] field = 18 -> 21
      [] field = 19 -> 1
      [] OTHER      -> 0

\* The sum of four fields, after fifteen have been skipped.
Reading(own, children) ==
    ProcStat(16, own, children) + ProcStat(17, own, children)
      + ProcStat(18, own, children) + ProcStat(19, own, children)

\* tot_time
TotTime == total_time + time_survived_in_sequence

\* Mutation of Used: only the time since the last check counts.
UsedSinceCheck(there, reading) == IF there THEN reading - last_cpu ELSE cpu_used

\* update_cpu_time_used: cpu_used and last_cpu after it.
Used(there, reading) == IF there THEN cpu_used + reading - last_cpu ELSE cpu_used

\* Mutation of Last: what has been charged is charged again.
LastStale(there, reading) == last_cpu

Last(there, reading) == IF there THEN reading ELSE last_cpu

\* reset_cpu_time, with which every allowance begins.
Reset(there, own, children) ==
    /\ cpu_used' = 0
    /\ last_cpu' = Last(there, Reading(own, children))
    /\ granted' = Last(there, Reading(own, children))
    /\ granted_children' = children
    /\ warnings' = 0

\* The allowance at the beginning of a sequence, and after a disqualification.
GrantStart(there, own, children) ==
    /\ Reset(there, own, children)
    /\ cpu_limit' = StartLimit
    /\ cpu_warning_limit' = StartLimit * WarningPercent
    /\ cpu_timeout' = 0
    /\ granted_at' = -Period

-----------------------------------------------------------------------------
(***************************************************************************)
(* check_process.  Times compared are those of this tick.                  *)
(***************************************************************************)
Now(limit) == alive /\ Used(exists, Reading(utime, cutime)) > limit

\* Mutation of AddExtraTime: the period is not looked at.
AddExtraTimeAlways ==
    /\ Now(cpu_limit)
    /\ Reset(exists, utime, cutime)
    /\ cpu_limit' = Extra
    /\ cpu_warning_limit' = Extra * WarningPercent
    /\ cpu_timeout' = TotTime + Period
    /\ granted_at' = lived
    /\ UNCHANGED <<life, place, process>>

\* The allowance is used up, and it has lasted long enough.
AddExtraTime ==
    /\ Now(cpu_limit)
    /\ TotTime >= cpu_timeout
    /\ Reset(exists, utime, cutime)
    /\ cpu_limit' = Extra
    /\ cpu_warning_limit' = Extra * WarningPercent
    /\ cpu_timeout' = TotTime + Period
    /\ granted_at' = lived
    /\ UNCHANGED <<life, place, process>>

\* The limit is exceeded: the robot dies, and starts the next game afresh.
Disqualify ==
    /\ Now(cpu_limit)
    /\ TotTime < cpu_timeout
    /\ alive' = FALSE
    /\ unset' = TRUE
    /\ GrantStart(exists, utime, cutime)
    /\ UNCHANGED <<total_time, time_survived_in_sequence, lived, place, process>>

\* Mutation of Warn: the limit of the warning is not raised.
WarnAgain ==
    /\ ~ Now(cpu_limit)
    /\ alive /\ 100 * Used(exists, Reading(utime, cutime)) > cpu_warning_limit
    /\ TotTime < cpu_timeout
    /\ cpu_used' = Used(exists, Reading(utime, cutime))
    /\ last_cpu' = Last(exists, Reading(utime, cutime))
    /\ warnings' = warnings + 1
    /\ UNCHANGED <<cpu_warning_limit, cpu_limit, cpu_timeout, granted, granted_children,
                   granted_at, life, place, process>>

\* The share of the allowance at which a robot is warned is used up.
Warn ==
    /\ ~ Now(cpu_limit)
    /\ alive /\ 100 * Used(exists, Reading(utime, cutime)) > cpu_warning_limit
    /\ TotTime < cpu_timeout
    /\ cpu_used' = Used(exists, Reading(utime, cutime))
    /\ last_cpu' = Last(exists, Reading(utime, cutime))
    /\ cpu_warning_limit' = 100 * cpu_limit
    /\ warnings' = warnings + 1
    /\ UNCHANGED <<cpu_limit, cpu_timeout, granted, granted_children, granted_at,
                   life, place, process>>

\* Nothing to say.
WithinLimits ==
    /\ alive
    /\ ~ Now(cpu_limit)
    /\ \/ 100 * Used(exists, Reading(utime, cutime)) <= cpu_warning_limit
       \/ TotTime >= cpu_timeout
    /\ cpu_used' = Used(exists, Reading(utime, cutime))
    /\ last_cpu' = Last(exists, Reading(utime, cutime))
    /\ UNCHANGED <<cpu_limit, cpu_warning_limit, cpu_timeout, history,
                   life, place, process>>

Check == AddExtraTime \/ Disqualify \/ Warn \/ WithinLimits

-----------------------------------------------------------------------------
(***************************************************************************)
(* What goes on between two checks.                                        *)
(***************************************************************************)

\* The process, or one of its children, uses a jiffy.
UseCpu ==
    /\ exists
    /\ utime + cutime < MaxCpu
    /\ \/ utime' = utime + 1 /\ UNCHANGED cutime
       \/ cutime' = cutime + 1 /\ UNCHANGED utime
    /\ UNCHANGED <<exists, budget, history, place, life>>

\* The process exits and is reaped; the robot stays in the game.
ProcessExits ==
    /\ exists
    /\ exists' = FALSE
    /\ UNCHANGED <<utime, cutime, budget, history, place, life>>

\* Mutation of Survived: the time survived is not kept.
SurvivedNot(now) == UNCHANGED time_survived_in_sequence

\* set_stats adds the time the robot has survived in this game.
Survived(now) == time_survived_in_sequence' = time_survived_in_sequence + now

\* A tick of the game in which the robot may die; a robot that check_process has
\* killed is scored now.
Tick ==
    /\ total_time < Timeout
    /\ total_time' = total_time + 1
    /\ lived' = IF alive THEN lived + 1 ELSE lived
    /\ \/ /\ alive
          /\ UNCHANGED <<alive, unset, time_survived_in_sequence>>
       \/ /\ alive \/ unset
          /\ alive' = FALSE
          /\ unset' = FALSE
          /\ Survived(total_time')
       \/ /\ ~ alive /\ ~ unset
          /\ UNCHANGED <<alive, unset, time_survived_in_sequence>>
    /\ UNCHANGED <<process, budget, history, place>>

\* end_game and start_game: a robot that is not scored yet is scored.
NextGame ==
    /\ game < GamesPerSequence
    /\ game' = game + 1
    /\ IF alive \/ unset THEN Survived(total_time)
                         ELSE UNCHANGED time_survived_in_sequence
    /\ total_time' = 0
    /\ alive' = TRUE
    /\ unset' = FALSE
    /\ UNCHANGED <<sequence, process, budget, history, lived>>

\* set_values_at_process_start_up of a new process, at once followed by the
\* first game of the sequence.
NextSequence ==
    /\ sequence < Sequences
    /\ sequence' = sequence + 1
    /\ game' = 1
    /\ utime' = 0 /\ cutime' = 0 /\ exists' = TRUE
    /\ GrantStart(TRUE, 0, 0)
    /\ time_survived_in_sequence' = 0
    /\ lived' = 0
    /\ total_time' = 0
    /\ alive' = TRUE /\ unset' = FALSE

-----------------------------------------------------------------------------
\* The first process has been started.  last_cpu was uninitialised before.
Init ==
    /\ utime = 0 /\ cutime = 0 /\ exists = TRUE
    /\ alive = TRUE /\ unset = FALSE
    /\ total_time = 0
    /\ time_survived_in_sequence = 0
    /\ lived = 0
    /\ cpu_used = 0
    /\ last_cpu = Reading(0, 0)
    /\ cpu_limit = StartLimit
    /\ cpu_warning_limit = StartLimit * WarningPercent
    /\ cpu_timeout = 0
    /\ warnings = 0
    /\ granted = Reading(0, 0)
    /\ granted_children = 0
    /\ granted_at = -Period
    /\ game = 1
    /\ sequence = 1

Next ==
    \/ Check
    \/ UseCpu
    \/ ProcessExits
    \/ Tick
    \/ NextGame
    \/ NextSequence

Spec == Init /\ [][Next]_vars

-----------------------------------------------------------------------------
(***************************************************************************)
(* Properties.                                                             *)
(***************************************************************************)

\* What is charged to a robot is exactly what /proc has reported since the
\* current allowance began: nothing is carried over from a process of an
\* earlier sequence, nothing is counted twice (reset_cpu_time,
\* update_cpu_time_used).
ChargedFairly == cpu_used = last_cpu - granted /\ last_cpu <= Reading(utime, cutime)

\* "The extra CPU time must last an entire CPU period": two extra allowances in a
\* row are at least a period of the robot's life apart, however that is spread
\* over games (check_process, set_stats).
ExtraLasts ==
    [][AddExtraTime /\ granted_at >= 0 => lived - granted_at >= Period]_vars

\* And only then does a robot die of its processor time: its extra allowance has
\* not lasted for a period of its life.
DisqualifiedFairly ==
    [][Disqualify => granted_at >= 0 /\ lived - granted_at < Period]_vars

\* "No more warnings": a robot is warned once for an extra allowance, however
\* many checks it passes before the allowance is used up (check_process).
WarnedOnce ==
    warnings <= 1 /\ (warnings = 1 => granted_at >= 0)

\* What the four fields do limit: a robot that passes a check has children that
\* used no more than its allowance since it was granted, over all games and
\* checks in between.  Its own time is in none of the fields
\* (update_cpu_time_used, check_process).
ChildrenLimited ==
    [][exists /\ Check /\ alive' => cutime - granted_children' <= cpu_limit']_vars
=============================================================================
