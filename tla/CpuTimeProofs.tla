--------------------------- MODULE CpuTimeProofs ---------------------------
(***************************************************************************)
(* The processor time budget of CpuTime is fair for all options, all       *)
(* numbers of games and sequences, and however the process spends its      *)
(* time.                                                                   *)
(***************************************************************************)
EXTENDS CpuTime, TLAPS

\* The types the proofs need.
Flags == exists \in BOOLEAN /\ alive \in BOOLEAN /\ unset \in BOOLEAN

Types ==
    /\ Flags
    /\ utime \in Nat /\ cutime \in Nat
    /\ total_time \in Nat /\ time_survived_in_sequence \in Nat /\ lived \in Nat
    /\ cpu_used \in Int /\ last_cpu \in Int /\ granted \in Int
    /\ granted_children \in Nat
    /\ cpu_limit \in Nat /\ cpu_warning_limit \in Nat /\ cpu_timeout \in Nat
    /\ warnings \in Nat /\ granted_at \in Int

\* Nothing that the children of the process used before the allowance was granted is
\* charged to it: it had been read by then, or the process was gone.
ReadWhenGranted == granted <= Reading(0, granted_children)

\* The limit of the warning has been raised to that of the allowance by the warning.
WarningRaised == warnings >= 1 => cpu_warning_limit = 100 * cpu_limit

\* The time of the robot in this sequence as tot_time will have it in the next
\* check, and by how much it is ahead of its life: a robot that check_process has
\* killed is scored with the tick that follows.
Clock == IF alive THEN TotTime ELSE time_survived_in_sequence
Ahead == Clock - lived

\* The robot still has a first allowance, which may run out at any time ...
FirstAllowance == cpu_timeout = 0 /\ granted_at = -Period

\* ... or an extra one, whose end is a period of its life after it was granted.
ExtraAllowance == granted_at >= 0 /\ cpu_timeout = granted_at + Period + Ahead

\* A robot that check_process has killed waits to be scored with a first allowance.
AllowanceEnds ==
    /\ FirstAllowance \/ ExtraAllowance
    /\ unset => ~ alive /\ FirstAllowance

\* The inductive invariant.
CpuInv ==
    /\ Types
    /\ ChargedFairly
    /\ ReadWhenGranted
    /\ WarningRaised
    /\ WarnedOnce
    /\ AllowanceEnds

-----------------------------------------------------------------------------
\* The four fields that update_cpu_time_used adds up are the time of the children
\* and two numbers that never change.
LEMMA ReadingIs ==
    ASSUME NEW own, NEW children \in Nat
    PROVE  Reading(own, children) = children + 22
  BY DEF Reading, ProcStat

\* The limits are numbers of their unit.
LEMMA LimitsAreNumbers ==
    /\ StartLimit * WarningPercent \in Nat
    /\ Extra * WarningPercent \in Nat
  BY CpuAssumption

\* The first process starts with the invariant.
LEMMA CpuInit == Init => CpuInv
  <1>1. Reading(0, 0) = 22
    BY ReadingIs
  <1>2. Init => Flags
    BY Zenon DEF Init, Flags
  <1> QED
    BY <1>1, <1>2, CpuAssumption, LimitsAreNumbers
    DEF Init, CpuInv, Types, ChargedFairly, ReadWhenGranted, WarningRaised, WarnedOnce,
        AllowanceEnds, FirstAllowance

\* A reset keeps what an allowance begins with.
LEMMA ResetFair ==
    ASSUME CpuInv, NEW there \in BOOLEAN, NEW own \in Nat, NEW children \in Nat,
           there \/ children = cutime, Reset(there, own, children),
           utime' = own, cutime' = children
    PROVE  /\ cpu_used' = 0 /\ last_cpu' \in Int /\ granted' = last_cpu'
           /\ granted_children' = children /\ warnings' = 0
           /\ ChargedFairly' /\ ReadWhenGranted'
  <1>1. Reading(own, children) = children + 22 /\ Reading(0, children) = children + 22
        /\ Reading(utime, cutime) = cutime + 22
    BY ReadingIs DEF CpuInv, Types
  <1>2. last_cpu' \in Int /\ last_cpu' <= children + 22
    BY <1>1 DEF Reset, Last, CpuInv, Types, Flags, ChargedFairly
  <1> QED
    BY <1>1, <1>2 DEF Reset, ChargedFairly, ReadWhenGranted

\* Every action keeps it.
LEMMA CpuNext == CpuInv /\ [Next]_vars => CpuInv'
  <1> SUFFICES ASSUME CpuInv, [Next]_vars PROVE CpuInv'
    OBVIOUS
  <1> USE CpuAssumption, LimitsAreNumbers
  <1>r. /\ Reading(utime, cutime) = cutime + 22
        /\ Reading(0, granted_children) = granted_children + 22
    BY ReadingIs DEF CpuInv, Types
  <1>1. CASE AddExtraTime
    <2>1. /\ cpu_used' = 0 /\ last_cpu' \in Int /\ granted' = last_cpu'
          /\ granted_children' = cutime /\ warnings' = 0
          /\ ChargedFairly' /\ ReadWhenGranted'
      BY <1>1, ResetFair DEF AddExtraTime, CpuInv, Types, Flags, process
    <2>2. Types'
      BY <1>1, <2>1 DEF AddExtraTime, CpuInv, Types, Flags, process, life, TotTime
    <2>3. WarningRaised' /\ WarnedOnce'
      BY <2>1 DEF WarningRaised, WarnedOnce
    <2>4. AllowanceEnds'
      BY <1>1 DEF AddExtraTime, Now, CpuInv, Types, AllowanceEnds, FirstAllowance,
                  ExtraAllowance, Ahead, Clock, TotTime, life
    <2> QED BY <2>1, <2>2, <2>3, <2>4 DEF CpuInv
  <1>2. CASE Disqualify
    <2>1. /\ cpu_used' = 0 /\ last_cpu' \in Int /\ granted' = last_cpu'
          /\ granted_children' = cutime /\ warnings' = 0
          /\ ChargedFairly' /\ ReadWhenGranted'
      BY <1>2, ResetFair DEF Disqualify, GrantStart, CpuInv, Types, Flags, process
    <2>f. Flags'
      BY <1>2, Zenon DEF Disqualify, CpuInv, Types, Flags, process
    <2>2. Types'
      BY <1>2, <2>1, <2>f DEF Disqualify, GrantStart, CpuInv, Types, process
    <2>3. WarningRaised' /\ WarnedOnce'
      BY <2>1 DEF WarningRaised, WarnedOnce
    <2>4. AllowanceEnds'
      BY <1>2 DEF Disqualify, GrantStart, AllowanceEnds, FirstAllowance
    <2> QED BY <2>1, <2>2, <2>3, <2>4 DEF CpuInv
  <1>3. CASE Warn
    <2>1. Types' /\ ChargedFairly' /\ ReadWhenGranted'
      BY <1>3, <1>r DEF Warn, Used, Last, CpuInv, Types, Flags, ChargedFairly, ReadWhenGranted,
                        process, life
    <2>2. WarningRaised'
      BY <1>3 DEF Warn, WarningRaised
    <2>3. warnings = 0
      BY <1>3, <1>r DEF Warn, Now, Used, CpuInv, Types, WarningRaised
    <2>4. granted_at >= 0
      BY <1>3 DEF Warn, CpuInv, Types, AllowanceEnds, FirstAllowance, ExtraAllowance,
                  TotTime
    <2>5. WarnedOnce'
      BY <1>3, <2>3, <2>4 DEF Warn, WarnedOnce
    <2>6. AllowanceEnds'
      BY <1>3 DEF Warn, CpuInv, AllowanceEnds, FirstAllowance, ExtraAllowance, Ahead,
                  Clock, TotTime, life
    <2> QED BY <2>1, <2>2, <2>5, <2>6 DEF CpuInv
  <1>4. CASE WithinLimits
    <2>1. Types' /\ ChargedFairly' /\ ReadWhenGranted'
      BY <1>4, <1>r DEF WithinLimits, Used, Last, CpuInv, Types, Flags, ChargedFairly,
                        ReadWhenGranted, history, process, life
    <2>2. WarningRaised' /\ WarnedOnce'
      BY <1>4 DEF WithinLimits, CpuInv, WarningRaised, WarnedOnce, history
    <2>3. AllowanceEnds'
      BY <1>4 DEF WithinLimits, CpuInv, AllowanceEnds, FirstAllowance, ExtraAllowance,
                  Ahead, Clock, TotTime, life, history
    <2> QED BY <2>1, <2>2, <2>3 DEF CpuInv
  <1>5. CASE UseCpu
    <2>1. Types'
      BY <1>5 DEF UseCpu, CpuInv, Types, Flags, budget, history, life
    <2>2. Reading(utime', cutime') = cutime' + 22
      BY <2>1, ReadingIs DEF Types
    <2>3. ChargedFairly'
      BY <1>5, <1>r, <2>2 DEF UseCpu, CpuInv, Types, Flags, ChargedFairly, budget, history
    <2>4. ReadWhenGranted' /\ WarningRaised' /\ WarnedOnce'
      BY <1>5 DEF UseCpu, CpuInv, ReadWhenGranted, WarningRaised, WarnedOnce, budget, history
    <2>5. AllowanceEnds'
      BY <1>5 DEF UseCpu, CpuInv, AllowanceEnds, FirstAllowance, ExtraAllowance, Ahead,
                  Clock, TotTime, life, history, budget
    <2> QED BY <2>1, <2>3, <2>4, <2>5 DEF CpuInv
  <1>6. CASE ProcessExits
    BY <1>6 DEF ProcessExits, CpuInv, Types, Flags, ChargedFairly, ReadWhenGranted, WarningRaised,
                WarnedOnce, AllowanceEnds, FirstAllowance, ExtraAllowance, Ahead, Clock,
                TotTime, budget, history, life
  <1>7. CASE Tick
    <2>f. Flags'
      BY <1>7, Zenon DEF Tick, CpuInv, Types, Flags, process
    <2>1. Types'
      BY <1>7, <2>f DEF Tick, Survived, CpuInv, Types, process, budget, history
    <2>2. ChargedFairly' /\ ReadWhenGranted' /\ WarningRaised' /\ WarnedOnce'
      BY <1>7 DEF Tick, CpuInv, ChargedFairly, ReadWhenGranted, WarningRaised, WarnedOnce,
                  process, budget, history
    <2>3. AllowanceEnds'
      <3>1. FirstAllowance => FirstAllowance'
        BY <1>7 DEF Tick, FirstAllowance, budget, history
      <3>2. ASSUME alive, ExtraAllowance, alive', UNCHANGED time_survived_in_sequence
            PROVE  ExtraAllowance'
        BY <1>7, <3>2 DEF Tick, CpuInv, Types, ExtraAllowance, Ahead, Clock, TotTime,
                          budget, history
      <3>3. ASSUME alive, ExtraAllowance, ~ alive', Survived(total_time')
            PROVE  ExtraAllowance'
        BY <1>7, <3>3 DEF Tick, Survived, CpuInv, Types, ExtraAllowance, Ahead, Clock,
                          TotTime, budget, history
      <3>5. ASSUME ~ alive, ExtraAllowance, ~ alive', UNCHANGED time_survived_in_sequence
            PROVE  ExtraAllowance'
        BY <1>7, <3>5 DEF Tick, CpuInv, Types, ExtraAllowance, Ahead, Clock, budget, history
      <3>6. \/ alive /\ alive' /\ UNCHANGED time_survived_in_sequence
            \/ (alive \/ unset) /\ ~ alive' /\ Survived(total_time')
            \/ ~ alive /\ ~ alive' /\ UNCHANGED time_survived_in_sequence
        BY <1>7 DEF Tick
      <3>7. ExtraAllowance => ExtraAllowance' \/ FirstAllowance'
        BY <3>1, <3>2, <3>3, <3>5, <3>6 DEF CpuInv, AllowanceEnds
      <3>4. unset' => ~ alive' /\ FirstAllowance'
        BY <1>7, <3>1 DEF Tick, CpuInv, AllowanceEnds
      <3> QED BY <3>1, <3>4, <3>7 DEF CpuInv, AllowanceEnds
    <2> QED BY <2>1, <2>2, <2>3 DEF CpuInv
  <1>8. CASE NextGame
    <2>f. Flags'
      BY <1>8, Zenon DEF NextGame, CpuInv, Types, Flags, process
    <2>1. Types'
      BY <1>8, <2>f DEF NextGame, Survived, CpuInv, Types, process, budget, history
    <2>2. ChargedFairly' /\ ReadWhenGranted' /\ WarningRaised' /\ WarnedOnce'
      BY <1>8 DEF NextGame, CpuInv, ChargedFairly, ReadWhenGranted, WarningRaised,
                  WarnedOnce, process, budget, history
    <2>3. AllowanceEnds'
      <3>1. FirstAllowance => FirstAllowance'
        BY <1>8 DEF NextGame, FirstAllowance, budget, history
      <3>2. CASE ExtraAllowance /\ ~ FirstAllowance
        BY <1>8, <3>2 DEF NextGame, Survived, CpuInv, Types, AllowanceEnds, ExtraAllowance,
                          Ahead, Clock, TotTime, budget, history
      <3> QED BY <1>8, <3>1, <3>2 DEF NextGame, CpuInv, AllowanceEnds
    <2> QED BY <2>1, <2>2, <2>3 DEF CpuInv
  <1>9. CASE NextSequence
    <2>1. /\ cpu_used' = 0 /\ last_cpu' \in Int /\ granted' = last_cpu'
          /\ granted_children' = 0 /\ warnings' = 0
          /\ ChargedFairly' /\ ReadWhenGranted'
      BY <1>9, ResetFair DEF NextSequence, GrantStart
    <2>f. Flags'
      BY <1>9, Zenon DEF NextSequence, CpuInv, Types, Flags, process
    <2>2. Types'
      BY <1>9, <2>1, <2>f DEF NextSequence, GrantStart, CpuInv, Types
    <2>3. WarningRaised' /\ WarnedOnce'
      BY <2>1 DEF WarningRaised, WarnedOnce
    <2>4. AllowanceEnds'
      BY <1>9 DEF NextSequence, GrantStart, AllowanceEnds, FirstAllowance
    <2> QED BY <2>1, <2>2, <2>3, <2>4 DEF CpuInv
  <1>10. CASE UNCHANGED vars
    BY <1>10 DEF vars, CpuInv, Types, Flags, ChargedFairly, ReadWhenGranted, WarningRaised,
                 WarnedOnce, AllowanceEnds, FirstAllowance, ExtraAllowance, Ahead, Clock,
                 TotTime, budget, history, life, process, place
  <1> QED
    BY <1>1, <1>2, <1>3, <1>4, <1>5, <1>6, <1>7, <1>8, <1>9, <1>10 DEF Next, Check

\* The invariant of the budget.
LEMMA CpuInvariant == Spec => []CpuInv
  <1>1. Init => CpuInv
    BY CpuInit
  <1>2. CpuInv /\ [Next]_vars => CpuInv'
    BY CpuNext
  <1> QED BY <1>1, <1>2, PTL DEF Spec

\* What is charged to a robot is what /proc has reported since its allowance began,
\* whatever the process does and whichever of its sequences it is in
\* (reset_cpu_time, update_cpu_time_used).
THEOREM ChargedFairlyAlways == Spec => []ChargedFairly
  <1>1. CpuInv => ChargedFairly
    BY DEF CpuInv
  <1> QED BY <1>1, CpuInvariant, PTL

\* A robot is warned at most once for an allowance, and only for an extra one, for
\* every limit and every share of it (check_process).
THEOREM WarnedOnceAlways == Spec => []WarnedOnce
  <1>1. CpuInv => WarnedOnce
    BY DEF CpuInv
  <1> QED BY <1>1, CpuInvariant, PTL

\* Two extra allowances in a row are a period of the robot's life apart, for every
\* period and every split of it into games (check_process, set_stats).
THEOREM ExtraLastsAlways == Spec => ExtraLasts
  <1>1. ASSUME CpuInv, AddExtraTime, granted_at >= 0
        PROVE  lived - granted_at >= Period
    BY <1>1, CpuAssumption
    DEF AddExtraTime, Now, CpuInv, Types, AllowanceEnds, FirstAllowance, ExtraAllowance,
        Ahead, Clock, TotTime
  <1>2. CpuInv /\ [Next]_vars => [AddExtraTime /\ granted_at >= 0 =>
                                    lived - granted_at >= Period]_vars
    BY <1>1
  <1> QED BY <1>2, CpuInvariant, PTL DEF Spec, ExtraLasts

\* A robot is disqualified only while its extra allowance has not lasted for a period
\* of its life, and never in its first allowance (check_process).
THEOREM DisqualifiedFairlyAlways == Spec => DisqualifiedFairly
  <1>1. ASSUME CpuInv, Disqualify
        PROVE  granted_at >= 0 /\ lived - granted_at < Period
    BY <1>1, CpuAssumption
    DEF Disqualify, Now, CpuInv, Types, AllowanceEnds, FirstAllowance, ExtraAllowance,
        Ahead, Clock, TotTime
  <1>2. CpuInv /\ [Next]_vars => [Disqualify => granted_at >= 0
                                                /\ lived - granted_at < Period]_vars
    BY <1>1
  <1> QED BY <1>2, CpuInvariant, PTL DEF Spec, DisqualifiedFairly

\* A robot that passes a check has children that used no more than its allowance since
\* it was granted (update_cpu_time_used, check_process).
THEOREM ChildrenLimitedAlways == Spec => ChildrenLimited
  <1>1. ASSUME CpuInv, exists, Check, alive'
        PROVE  cutime - granted_children' <= cpu_limit'
    <2> USE CpuAssumption
    <2>r. /\ Reading(utime, cutime) = cutime + 22
          /\ Reading(0, granted_children) = granted_children + 22
      BY <1>1, ReadingIs DEF CpuInv, Types
    <2>1. CASE AddExtraTime
      BY <1>1, <2>1 DEF AddExtraTime, Reset, CpuInv, Types
    <2>2. CASE Disqualify
      BY <1>1, <2>2 DEF Disqualify
    <2>3. CASE Warn
      BY <1>1, <2>r, <2>3 DEF Warn, Now, Used, CpuInv, Types, ChargedFairly, ReadWhenGranted
    <2>4. CASE WithinLimits
      BY <1>1, <2>r, <2>4 DEF WithinLimits, Now, Used, CpuInv, Types, ChargedFairly,
                              ReadWhenGranted, history
    <2> QED BY <1>1, <2>1, <2>2, <2>3, <2>4 DEF Check
  <1>2. CpuInv /\ [Next]_vars => [exists /\ Check /\ alive' =>
                                    cutime - granted_children' <= cpu_limit']_vars
    BY <1>1
  <1> QED BY <1>2, CpuInvariant, PTL DEF Spec, ChildrenLimited
=============================================================================
