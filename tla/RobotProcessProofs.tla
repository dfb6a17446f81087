------------------------- MODULE RobotProcessProofs -------------------------
(***************************************************************************)
(* No robot process escapes the server and no descriptor leaks, for any    *)
(* number of robots, process numbers and restarts.                         *)
(***************************************************************************)
EXTENDS RobotProcess, FiniteSetTheorems, TLAPS

\* The robots of the sequence are those that run as far as the server knows; this
\* is why start_sequence_follow_up drops nobody and end_sequence_follow_up kills
\* everybody.
FlagsMatch == in_sequence \subseteq process_running

ProcessInv == TypeOK /\ NoOrphans /\ FlagsMatch /\ PipesMatchSequence

\* What the functions of Robot hand on.
Handed ==
    [running : [Pids -> Robots \cup {None, Other}], zombie : SUBSET Pids,
     sigchld : BOOLEAN, flag : SUBSET Robots, pipes : SUBSET Robots, fds : Int]

-----------------------------------------------------------------------------
\* Sets of robots are finite.
LEMMA RobotsFinite ==
    \A S \in SUBSET Robots : IsFiniteSet(S) /\ Cardinality(S) \in Nat
BY ProcessAssumption, FS_Subset, FS_CardinalityType

\* The current values of what they hand on.
LEMMA CurrentHanded == TypeOK => Current \in Handed
BY DEF TypeOK, Current, Handed

\* What a signal changes.
LEMMA SignalEffect ==
    ASSUME NEW m \in Handed, NEW who \in SUBSET Robots, TypeOK
    PROVE  /\ Signal(m, who) \in Handed
           /\ \A p \in Pids : Signal(m, who).running[p] \in {m.running[p], None}
           /\ \A p \in Targets(who) : Signal(m, who).running[p] = None
           /\ Signal(m, who).flag = m.flag
           /\ Signal(m, who).pipes = m.pipes
           /\ Signal(m, who).fds = m.fds
<1>1. Targets(who) \subseteq Pids
  BY DEF Targets, TypeOK
<1>2. [p \in Pids |-> IF p \in Targets(who) THEN None ELSE m.running[p]]
        \in [Pids -> Robots \cup {None, Other}]
  BY DEF Handed
<1>3. m.zombie \cup {p \in Targets(who) : m.running[p] \in Robots} \in SUBSET Pids
  BY <1>1 DEF Handed
<1>4. (m.sigchld \/ {p \in Targets(who) : m.running[p] \in Robots} # {}) \in BOOLEAN
  OBVIOUS
<1>5. m.flag \in SUBSET Robots /\ m.pipes \in SUBSET Robots /\ m.fds \in Int
  BY DEF Handed
<1>6. Signal(m, who) \in Handed
  BY <1>2, <1>3, <1>4, <1>5 DEF Signal, Handed
<1> QED
  BY <1>1, <1>6 DEF Signal

\* What kill_process_forcefully changes.
LEMMA KillEffect ==
    ASSUME NEW m \in Handed, NEW who \in SUBSET Robots, TypeOK
    PROVE  /\ KillForcefully(m, who) \in Handed
           /\ \A p \in Pids : KillForcefully(m, who).running[p] \in {m.running[p], None}
           /\ \A p \in Targets(who) : KillForcefully(m, who).running[p] = None
           /\ KillForcefully(m, who).flag = m.flag \ who
           /\ KillForcefully(m, who).pipes = m.pipes \ who
           /\ KillForcefully(m, who).fds = m.fds - 2 * Cardinality(who \cap m.pipes)
<1> DEFINE f == [m EXCEPT !.flag = @ \ who]
           g == Signal(f, who)
<1>1. /\ f \in Handed /\ f.flag = m.flag \ who /\ f.running = m.running
      /\ f.pipes = m.pipes /\ f.fds = m.fds
  BY DEF Handed
<1> HIDE DEF f
<1>2. /\ g \in Handed /\ g.flag = f.flag /\ g.pipes = f.pipes /\ g.fds = f.fds
      /\ \A p \in Pids : g.running[p] \in {f.running[p], None}
      /\ \A p \in Targets(who) : g.running[p] = None
  BY <1>1, SignalEffect
<1>3. Cardinality(who \cap m.pipes) \in Nat
  BY RobotsFinite
<1>4. KillForcefully(m, who) = DeletePipes(g, who)
  BY DEF KillForcefully, f, g
<1> HIDE DEF g
<1>5. DeletePipes(g, who) \in Handed
  <2>1. g.fds - 2 * Cardinality(who \cap g.pipes) \in Int
    <3>1. g.fds \in Int /\ Cardinality(who \cap g.pipes) \in Nat
      BY <1>1, <1>2, <1>3 DEF Handed
    <3> QED
      BY <3>1
  <2>2. g.pipes \ who \in SUBSET Robots
    BY <1>2 DEF Handed
  <2> QED
    BY <1>2, <2>1, <2>2 DEF DeletePipes, Handed
<1>6. /\ DeletePipes(g, who).running = g.running
      /\ DeletePipes(g, who).flag = g.flag
      /\ DeletePipes(g, who).pipes = g.pipes \ who
      /\ DeletePipes(g, who).fds = g.fds - 2 * Cardinality(who \cap g.pipes)
  BY <1>2 DEF DeletePipes, Handed
<1> QED
  BY <1>1, <1>2, <1>4, <1>5, <1>6

\* Nothing is open in an empty set of robots.
LEMMA DeleteNothing ==
    ASSUME NEW m \in Handed, NEW who \in SUBSET Robots, m.pipes = {}
    PROVE  DeletePipes(m, who) = m
<1>1. Cardinality(who \cap m.pipes) = 0
  BY FS_EmptySet
<1>2. m.fds - 2 * 0 = m.fds /\ m.pipes \ who = m.pipes
  BY DEF Handed
<1> QED
  BY <1>1, <1>2 DEF DeletePipes, Handed

\* The processes of the current sequence are all there are to kill.
LEMMA KillAll ==
    ASSUME ProcessInv, NEW who \in SUBSET Robots, in_sequence \subseteq who
    PROVE  /\ KillForcefully(Current, who) \in Handed
           /\ \A p \in Pids : KillForcefully(Current, who).running[p] \notin Robots
           /\ KillForcefully(Current, who).pipes = {}
           /\ KillForcefully(Current, who).fds = 0
<1>1. TypeOK /\ Current \in Handed
  BY CurrentHanded DEF ProcessInv
<1>2. /\ Current.running = running /\ Current.pipes = in_sequence
      /\ Current.fds = 2 * Cardinality(in_sequence)
  BY DEF Current, ProcessInv, PipesMatchSequence
<1>3. \A p \in Pids : running[p] \in Robots => p \in Targets(who)
  BY ProcessAssumption DEF ProcessInv, NoOrphans, Targets
<1>4. who \cap in_sequence = in_sequence /\ in_sequence \ who = {}
  OBVIOUS
<1>5. Cardinality(in_sequence) \in Nat
  BY RobotsFinite DEF ProcessInv, TypeOK
<1>6. \A p \in Pids : KillForcefully(Current, who).running[p] \notin Robots
  <2>1. /\ \A p \in Pids : KillForcefully(Current, who).running[p] \in {running[p], None}
        /\ \A p \in Targets(who) : KillForcefully(Current, who).running[p] = None
    BY <1>1, <1>2, KillEffect
  <2>2. None \notin Robots
    BY ProcessAssumption
  <2> QED
    BY <1>3, <2>1, <2>2
<1>7. /\ KillForcefully(Current, who) \in Handed
      /\ KillForcefully(Current, who).pipes = {}
      /\ KillForcefully(Current, who).fds
           = 2 * Cardinality(in_sequence) - 2 * Cardinality(in_sequence)
  BY <1>1, <1>2, <1>4, KillEffect
<1> QED
  BY <1>5, <1>6, <1>7

\* What becomes of a step that ends without starting a process.
LEMMA BecomeStep ==
    ASSUME TypeOK, NEW m \in Handed, Become(m), UNCHANGED forks,
           pid' \in [Robots -> Pids \cup {None}],
           in_sequence' \in SUBSET Robots,
           state' \in {"NOT_STARTED", "STARTING_ROBOTS", "GAME", "SHUTTING_DOWN_ROBOTS",
                       "FINISHED"},
           \A p \in Pids : m.running[p] \in Robots =>
              m.running[p] \in in_sequence' /\ pid'[m.running[p]] = p,
           in_sequence' \subseteq m.flag,
           m.pipes = in_sequence',
           m.fds = 2 * Cardinality(in_sequence')
    PROVE  ProcessInv'
<1>1. Cardinality(in_sequence') \in Nat
  BY RobotsFinite
<1>2. m.fds \in Nat
  BY <1>1
<1>3. TypeOK'
  BY <1>2 DEF TypeOK, Become, Handed
<1> QED
  BY <1>3 DEF ProcessInv, NoOrphans, FlagsMatch, PipesMatchSequence, Become

\* What becomes of a step that ends with start_process.
LEMMA StartStep ==
    ASSUME TypeOK, NEW m \in Handed, NEW who \in SUBSET Robots,
           NEW pids \in [Robots -> Pids \cup {None}],
           Start(m, pids, who),
           in_sequence' \in SUBSET Robots,
           state' \in {"NOT_STARTED", "STARTING_ROBOTS", "GAME", "SHUTTING_DOWN_ROBOTS",
                       "FINISHED"},
           \A p \in Pids : m.running[p] \in Robots =>
              /\ m.running[p] \in in_sequence' \ who
              /\ pids[m.running[p]] = p,
           in_sequence' \subseteq m.flag \cup who,
           m.pipes \cup who = in_sequence',
           m.fds + 2 * Cardinality(who) = 2 * Cardinality(in_sequence')
    PROVE  ProcessInv'
<1> DEFINE free == {p \in Pids : m.running[p] = None /\ p \notin m.zombie}
<1>1. PICK new \in [who -> free] :
        /\ \A r, q \in who : new[r] = new[q] => r = q
        /\ pid' = [r \in Robots |-> IF r \in who THEN new[r] ELSE pids[r]]
        /\ Become([m EXCEPT !.running = [p \in Pids |->
                                           IF \E r \in who : new[r] = p
                                           THEN CHOOSE r \in who : new[r] = p
                                           ELSE m.running[p]],
                            !.flag    = @ \cup who,
                            !.pipes   = @ \cup who,
                            !.fds     = @ + 2 * Cardinality(who)])
  BY DEF Start
<1>2. Cardinality(who) \in Nat /\ Cardinality(in_sequence') \in Nat
  BY RobotsFinite
<1>3. /\ running' = [p \in Pids |-> IF \E r \in who : new[r] = p
                                    THEN CHOOSE r \in who : new[r] = p
                                    ELSE m.running[p]]
      /\ process_running' = m.flag \cup who
      /\ pipes' = in_sequence'
      /\ fds' = 2 * Cardinality(in_sequence')
      /\ zombie' = m.zombie /\ sigchld' = m.sigchld
  BY <1>1 DEF Become, Handed
<1>4. pid' \in [Robots -> Pids \cup {None}]
  BY <1>1
<1>5. \A p \in Pids :
        \/ running'[p] \in who /\ new[running'[p]] = p
        \/ running'[p] = m.running[p]
  BY <1>3
<1>6. NoOrphans'
  <2> SUFFICES ASSUME NEW p \in Pids, running'[p] \in Robots
               PROVE  running'[p] \in in_sequence' /\ pid'[running'[p]] = p
    BY DEF NoOrphans
  <2>1. CASE running'[p] \in who /\ new[running'[p]] = p
    BY <1>1, <2>1
  <2>2. CASE running'[p] = m.running[p]
    BY <1>1, <2>2
  <2> QED
    BY <1>5, <2>1, <2>2
<1>7. running' \in [Pids -> Robots \cup {None, Other}]
  <2>1. \A p \in Pids : running'[p] \in Robots \cup {None, Other}
    BY <1>5 DEF Handed
  <2> QED
    BY <1>3, <2>1
<1>8. forks' \in 0 .. MaxForks
  BY <1>2, ProcessAssumption DEF Start, TypeOK
<1>9. fds' \in Nat
  BY <1>2, <1>3
<1>10. process_running' \subseteq Robots /\ zombie' \subseteq Pids /\ sigchld' \in BOOLEAN
  BY <1>3 DEF Handed
<1>11. TypeOK'
  BY <1>3, <1>4, <1>7, <1>8, <1>9, <1>10 DEF TypeOK
<1> QED
  BY <1>3, <1>6, <1>11 DEF ProcessInv, FlagsMatch, PipesMatchSequence

-----------------------------------------------------------------------------
\* The invariant holds in the beginning.
LEMMA ProcessInvInit == Init => ProcessInv
<1> SUFFICES ASSUME Init PROVE ProcessInv
  OBVIOUS
<1>1. Cardinality(in_sequence) = 0
  BY FS_EmptySet DEF Init
<1>2. TypeOK
  <2>1. FALSE \in BOOLEAN
    OBVIOUS
  <2>2. sigchld \in BOOLEAN
    BY <2>1, Zenon DEF Init
  <2>3. running \in [Pids -> Robots \cup {None, Other}]
    BY DEF Init
  <2>4. pid \in [Robots -> Pids \cup {None}]
    BY DEF Init
  <2> QED
    BY <2>2, <2>3, <2>4, ProcessAssumption DEF Init, TypeOK
<1>3. NoOrphans
  BY ProcessAssumption DEF Init, NoOrphans
<1> QED
  BY <1>1, <1>2, <1>3 DEF Init, ProcessInv, FlagsMatch, PipesMatchSequence

\* A closed arena leaves no process and no pipe.
LEMMA ArenaClosedEffect ==
    ASSUME ProcessInv
    PROVE  /\ ArenaClosed \in Handed
           /\ \A p \in Pids : ArenaClosed.running[p] \notin Robots
           /\ ArenaClosed.pipes = {} /\ ArenaClosed.fds = 0
<1> DEFINE m == KillForcefully(Current, in_sequence)
           k == KillForcefully(m, m.flag)
<1>1. TypeOK /\ in_sequence \in SUBSET Robots
  BY DEF ProcessInv, TypeOK
<1>2. /\ m \in Handed /\ \A p \in Pids : m.running[p] \notin Robots
      /\ m.pipes = {} /\ m.fds = 0
  BY <1>1, KillAll
<1>3. ArenaClosed = DeletePipes(k, Robots)
  BY DEF ArenaClosed
<1> HIDE DEF m
<1>4. m.flag \in SUBSET Robots
  BY <1>2 DEF Handed
<1>5. /\ k \in Handed
      /\ \A p \in Pids : k.running[p] \in {m.running[p], None}
      /\ k.pipes = m.pipes \ m.flag
      /\ k.fds = m.fds - 2 * Cardinality(m.flag \cap m.pipes)
  BY <1>1, <1>2, <1>4, KillEffect
<1>6. m.flag \cap m.pipes = {} /\ k.pipes = {}
  BY <1>2, <1>5
<1>7. Cardinality(m.flag \cap m.pipes) = 0
  BY <1>6, FS_EmptySet
<1>8. k.fds = 0
  BY <1>2, <1>5, <1>7
<1>9. None \notin Robots
  BY ProcessAssumption
<1>10. \A p \in Pids : k.running[p] \notin Robots
  BY <1>2, <1>5, <1>9
<1> HIDE DEF k
<1>11. DeletePipes(k, Robots) = k
  BY <1>5, <1>6, DeleteNothing
<1> QED
  BY <1>3, <1>5, <1>6, <1>8, <1>10, <1>11

\* The first half of end_sequence_follow_up does so, too.
LEMMA ReapedEffect ==
    ASSUME ProcessInv
    PROVE  /\ Reaped \in Handed
           /\ \A p \in Pids : Reaped.running[p] \notin Robots
           /\ Reaped.pipes = {} /\ Reaped.fds = 0
<1> DEFINE m == KillForcefully(Current, in_sequence \cap process_running)
<1>1. in_sequence \in SUBSET Robots /\ in_sequence \cap process_running = in_sequence
  BY DEF ProcessInv, TypeOK, FlagsMatch
<1>2. /\ m \in Handed /\ \A p \in Pids : m.running[p] \notin Robots
      /\ m.pipes = {} /\ m.fds = 0
  BY <1>1, KillAll
<1>3. Reaped = DeletePipes(m, in_sequence)
  BY DEF Reaped
<1> HIDE DEF m
<1> QED
  BY <1>1, <1>2, <1>3, DeleteNothing

\* A sequence begins when nothing is left of the one before.
LEMMA FreshStart ==
    ASSUME TypeOK, NEW m \in Handed, NEW pids \in [Robots -> Pids \cup {None}],
           \A p \in Pids : m.running[p] \notin Robots,
           m.pipes = {}, m.fds = 0, state' = "STARTING_ROBOTS",
           NEW who \in Lineups, in_sequence' = who, Start(m, pids, who)
    PROVE  ProcessInv'
<1>1. who \in SUBSET Robots
  BY DEF Lineups
<1>2. Cardinality(who) \in Nat
  BY <1>1, RobotsFinite
<1>3. m.fds + 2 * Cardinality(who) = 2 * Cardinality(in_sequence')
  BY <1>2
<1> QED
  BY <1>1, <1>3, StartStep

\* Nothing is left and nothing is started.
LEMMA CleanStop ==
    ASSUME TypeOK, NEW m \in Handed, Become(m), UNCHANGED forks,
           pid' \in [Robots -> Pids \cup {None}],
           \A p \in Pids : m.running[p] \notin Robots,
           m.pipes = {}, m.fds = 0, in_sequence' = {},
           state' \in {"NOT_STARTED", "FINISHED"}
    PROVE  ProcessInv'
<1>1. Cardinality(in_sequence') = 0
  BY FS_EmptySet
<1>2. m.fds = 2 * Cardinality(in_sequence')
  BY <1>1
<1> QED
  BY <1>2, BecomeStep

\* A line-up without processes.
LEMMA NoPidsType == NoPids \in [Robots -> Pids \cup {None}]
BY DEF NoPids

\* A robot is restarted.
LEMMA RestartStep ==
    ASSUME ProcessInv, Restart
    PROVE  ProcessInv'
<1>1. PICK r \in in_sequence : Start(KillForcefully(Current, {r}), pid, {r})
  BY DEF Restart
<1> DEFINE m == KillForcefully(Current, {r})
<1>2. /\ TypeOK /\ Current \in Handed /\ {r} \in SUBSET Robots
      /\ in_sequence \in SUBSET Robots /\ pid \in [Robots -> Pids \cup {None}]
  BY CurrentHanded DEF ProcessInv, TypeOK
<1>3. /\ Current.running = running /\ Current.pipes = in_sequence
      /\ Current.fds = 2 * Cardinality(in_sequence) /\ Current.flag = process_running
  BY DEF Current, ProcessInv, PipesMatchSequence
<1>4. /\ m \in Handed
      /\ \A p \in Pids : m.running[p] \in {running[p], None}
      /\ \A p \in Targets({r}) : m.running[p] = None
      /\ m.flag = process_running \ {r}
      /\ m.pipes = in_sequence \ {r}
      /\ m.fds = 2 * Cardinality(in_sequence) - 2 * Cardinality({r} \cap in_sequence)
  BY <1>2, <1>3, KillEffect
<1>5. {r} \cap in_sequence = {r} /\ Cardinality({r}) = 1
  BY FS_Singleton
<1>6. Cardinality(in_sequence) \in Nat
  BY <1>2, RobotsFinite
<1>7. UNCHANGED <<state, in_sequence>>
  BY DEF Restart
<1>8. m.fds + 2 * Cardinality({r}) = 2 * Cardinality(in_sequence')
  <2>1. m.fds = 2 * Cardinality(in_sequence) - 2 * Cardinality({r})
    BY <1>4, <1>5
  <2>2. m.fds = 2 * Cardinality(in_sequence) - 2
    BY <1>5, <2>1
  <2> HIDE DEF m
  <2> QED
    BY <1>5, <1>6, <1>7, <2>2
<1>9. None \notin Robots
  BY ProcessAssumption
<1>10. \A p \in Pids : m.running[p] \in Robots =>
         m.running[p] \in in_sequence' \ {r} /\ pid[m.running[p]] = p
  <2> SUFFICES ASSUME NEW p \in Pids, m.running[p] \in Robots
               PROVE  m.running[p] \in in_sequence' \ {r} /\ pid[m.running[p]] = p
    OBVIOUS
  <2>1. m.running[p] = running[p]
    BY <1>4, <1>9
  <2>2. running[p] \in in_sequence /\ pid[running[p]] = p
    BY <2>1 DEF ProcessInv, NoOrphans
  <2>3. running[p] # r
    <3> SUFFICES ASSUME running[p] = r PROVE FALSE
      OBVIOUS
    <3>1. p \in Targets({r})
      BY <2>2, ProcessAssumption DEF Targets
    <3> QED
      BY <1>4, <1>9, <3>1
  <2> QED
    BY <1>7, <2>1, <2>2, <2>3
<1>11. in_sequence' \subseteq m.flag \cup {r} /\ m.pipes \cup {r} = in_sequence'
  BY <1>4, <1>7 DEF ProcessInv, FlagsMatch
<1>12. state' \in {"NOT_STARTED", "STARTING_ROBOTS", "GAME", "SHUTTING_DOWN_ROBOTS",
                   "FINISHED"}
  BY <1>7 DEF ProcessInv, TypeOK
<1>13. Start(m, pid, {r})
  BY <1>1
<1> HIDE DEF m
<1> QED
  BY <1>2, <1>4, <1>7, <1>8, <1>10, <1>11, <1>12, <1>13, StartStep

\* A robot is sent a signal.
LEMMA SendSignalStep ==
    ASSUME ProcessInv, SendSignal
    PROVE  ProcessInv'
<1>1. PICK r \in in_sequence : Become(Signal(Current, {r}))
  BY DEF SendSignal
<1> DEFINE m == Signal(Current, {r})
<1>2. /\ TypeOK /\ Current \in Handed /\ {r} \in SUBSET Robots
      /\ in_sequence \in SUBSET Robots /\ pid \in [Robots -> Pids \cup {None}]
      /\ state \in {"NOT_STARTED", "STARTING_ROBOTS", "GAME", "SHUTTING_DOWN_ROBOTS",
                    "FINISHED"}
  BY CurrentHanded DEF ProcessInv, TypeOK
<1>3. /\ Current.running = running /\ Current.pipes = in_sequence
      /\ Current.fds = 2 * Cardinality(in_sequence) /\ Current.flag = process_running
  BY DEF Current, ProcessInv, PipesMatchSequence
<1>4. /\ m \in Handed
      /\ \A p \in Pids : m.running[p] \in {running[p], None}
      /\ m.flag = process_running /\ m.pipes = in_sequence
      /\ m.fds = 2 * Cardinality(in_sequence)
  BY <1>2, <1>3, SignalEffect
<1>5. UNCHANGED <<state, in_sequence, pid, forks>>
  BY DEF SendSignal
<1>6. None \notin Robots
  BY ProcessAssumption
<1>7. \A p \in Pids : m.running[p] \in Robots =>
         m.running[p] \in in_sequence' /\ pid'[m.running[p]] = p
  BY <1>4, <1>5, <1>6 DEF ProcessInv, NoOrphans
<1>8. in_sequence' \subseteq m.flag
  BY <1>4, <1>5 DEF ProcessInv, FlagsMatch
<1>9. Become(m)
  BY <1>1
<1> HIDE DEF m
<1> QED
  BY <1>2, <1>4, <1>5, <1>7, <1>8, <1>9, BecomeStep

\* A sequence ends and the next one begins.
LEMMA EndSequenceFollowUpStep ==
    ASSUME ProcessInv, EndSequenceFollowUp
    PROVE  ProcessInv'
<1>1. TypeOK /\ pid \in [Robots -> Pids \cup {None}]
  BY DEF ProcessInv, TypeOK
<1>2. /\ Reaped \in Handed /\ \A p \in Pids : Reaped.running[p] \notin Robots
      /\ Reaped.pipes = {} /\ Reaped.fds = 0
  BY ReapedEffect
<1>3. CASE state' = "FINISHED" /\ in_sequence' = {} /\ Become(Reaped) /\ UNCHANGED <<pid, forks>>
  BY <1>1, <1>2, <1>3, CleanStop
<1>4. CASE /\ state' = "STARTING_ROBOTS"
           /\ \E who \in Lineups : in_sequence' = who /\ Start(Reaped, pid, who)
  BY <1>1, <1>2, <1>4, FreshStart
<1> QED
  BY <1>3, <1>4 DEF EndSequenceFollowUp

\* A process exits or is reaped; processes come and go.
LEMMA MachineStep ==
    ASSUME ProcessInv, RobotExits \/ SigHandler \/ OtherStarts \/ OtherExits
    PROVE  ProcessInv'
<1>1. UNCHANGED <<state, server, forks>>
  BY DEF RobotExits, SigHandler, OtherStarts, OtherExits
<1>2. None \notin Robots /\ Other \notin Robots
  BY ProcessAssumption
<1>3. /\ running' \in [Pids -> Robots \cup {None, Other}]
      /\ \A p \in Pids : running'[p] \in {running[p], None, Other}
  BY DEF RobotExits, SigHandler, OtherStarts, OtherExits, ProcessInv, TypeOK
<1>4. zombie' \subseteq Pids
  BY DEF RobotExits, SigHandler, OtherStarts, OtherExits, ProcessInv, TypeOK
<1>5. sigchld' \in BOOLEAN
  BY DEF RobotExits, SigHandler, OtherStarts, OtherExits, ProcessInv, TypeOK
<1>6. TypeOK'
  BY <1>1, <1>3, <1>4, <1>5 DEF server, ProcessInv, TypeOK
<1>7. NoOrphans'
  BY <1>1, <1>2, <1>3 DEF server, ProcessInv, NoOrphans
<1> QED
  BY <1>1, <1>6, <1>7 DEF server, ProcessInv, FlagsMatch, PipesMatchSequence

\* Every step keeps the invariant.
LEMMA ProcessInvStep == ProcessInv /\ [Next]_vars => ProcessInv'
<1> SUFFICES ASSUME ProcessInv, [Next]_vars PROVE ProcessInv'
  OBVIOUS
<1>0. TypeOK /\ in_sequence \in SUBSET Robots /\ pid \in [Robots -> Pids \cup {None}]
  BY DEF ProcessInv, TypeOK
<1>1. CASE StartTournament
  BY <1>0, <1>1, ArenaClosedEffect, NoPidsType, FreshStart DEF StartTournament
<1>2. CASE Restart
  BY <1>2, RestartStep
<1>3. CASE StartSequenceFollowUp
  <2>1. in_sequence' = in_sequence
    BY <1>3 DEF StartSequenceFollowUp, ProcessInv, FlagsMatch
  <2> QED
    BY <1>3, <2>1 DEF StartSequenceFollowUp, machine, ProcessInv, TypeOK, NoOrphans,
                      FlagsMatch, PipesMatchSequence
<1>4. CASE EndGameWhileStarting \/ EndSequence
  BY <1>4 DEF EndGameWhileStarting, EndSequence, server, machine, ProcessInv, TypeOK,
              NoOrphans, FlagsMatch, PipesMatchSequence
<1>5. CASE SendSignal
  BY <1>5, SendSignalStep
<1>6. CASE EndSequenceFollowUp
  BY <1>6, EndSequenceFollowUpStep
<1>7. CASE InterruptTournament
  <2>1. /\ KillForcefully(Current, in_sequence) \in Handed
        /\ \A p \in Pids : KillForcefully(Current, in_sequence).running[p] \notin Robots
        /\ KillForcefully(Current, in_sequence).pipes = {}
        /\ KillForcefully(Current, in_sequence).fds = 0
    BY <1>0, KillAll
  <2> QED
    BY <1>0, <1>7, <2>1, CleanStop DEF InterruptTournament
<1>8. CASE CloseArena
  BY <1>0, <1>8, ArenaClosedEffect, NoPidsType, CleanStop DEF CloseArena
<1>9. CASE RobotExits \/ SigHandler \/ OtherStarts \/ OtherExits
  BY <1>9, MachineStep
<1>10. CASE UNCHANGED vars
  BY <1>10 DEF vars, server, machine, ProcessInv, TypeOK, NoOrphans, FlagsMatch,
               PipesMatchSequence
<1> QED
  BY <1>1, <1>2, <1>3, <1>4, <1>5, <1>6, <1>7, <1>8, <1>9, <1>10 DEF Next, Server

\* So it always holds.
THEOREM ProcessInvariant == Spec => []ProcessInv
BY ProcessInvInit, ProcessInvStep, PTL DEF Spec

\* Whatever robots do and whenever they exit, every robot process that runs is the
\* one process of a robot of the current sequence that the server would kill.
THEOREM NoProcessEscapes == Spec => []NoOrphans
<1>1. ProcessInv => NoOrphans
  BY DEF ProcessInv
<1> QED
  BY <1>1, ProcessInvariant, PTL

\* No descriptor leaks, and no robot of the sequence is without its streams.
THEOREM NoDescriptorLeaks == Spec => []PipesMatchSequence
<1>1. ProcessInv => PipesMatchSequence
  BY DEF ProcessInv
<1> QED
  BY <1>1, ProcessInvariant, PTL
=============================================================================
