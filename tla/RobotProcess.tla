---------------------------- MODULE RobotProcess ----------------------------
(***************************************************************************)
(* The robot processes: how the server forks, restarts, signals, kills and *)
(* reaps them, and the pipes it holds to them (Robot::start_process,       *)
(* kill_process_forcefully, delete_pipes, set_non_blocking_state and the   *)
(* functions of the arena that call them for a whole sequence).            *)
(*                                                                         *)
(* A robot is known to the server by its pid and by the flag               *)
(* process_running.  The operating system gives a pid away again once its  *)
(* process has been reaped; the processes of the rest of the machine are   *)
(* called Other.  Steps of the server are atomic against each other, but   *)
(* processes exit, and the handler of SIGCHLD runs, between any two.       *)
(***************************************************************************)
EXTENDS Integers, FiniteSets

CONSTANTS
    Robots,    \* the Robot objects
    Pids,      \* process numbers
    None,      \* no process
    Other,     \* a process that is no robot
    MaxForks   \* bound: processes started in a behaviour

ASSUME ProcessAssumption ==
    /\ IsFiniteSet(Robots)
    /\ IsFiniteSet(Pids)
    /\ None \notin Robots \cup Pids \cup {Other}
    /\ Other \notin Robots
    /\ MaxForks \in Nat

VARIABLES
    state,            \* of the arena; "GAME" is any state between the games' start and end
    in_sequence,      \* all_robots_in_sequence
    pid,              \* per robot; None is -1
    process_running,  \* robots with that flag
    pipes,            \* robots whose streams and descriptors are open
    fds,              \* descriptors of robot pipes open in the server
    running,          \* per pid, the robot or other process that runs under it
    zombie,           \* pids of children that have exited and are not reaped
    sigchld,          \* is SIGCHLD pending
    forks             \* processes started so far

server  == <<in_sequence, pid, process_running, pipes, fds>>
machine == <<running, zombie, sigchld>>
vars    == <<state, server, machine, forks>>

-----------------------------------------------------------------------------
(***************************************************************************)
(* What the functions of Robot do, for a set of robots.  A record m        *)
(* carries what one call hands on to the next.                             *)
(***************************************************************************)
Current ==
    [running |-> running, zombie |-> zombie, sigchld |-> sigchld,
     flag |-> process_running, pipes |-> pipes, fds |-> fds]

Become(m) ==
    /\ running' = m.running
    /\ zombie' = m.zombie
    /\ sigchld' = m.sigchld
    /\ process_running' = m.flag
    /\ pipes' = m.pipes
    /\ fds' = m.fds

\* The processes that a signal to the robots in `who' reaches.
Targets(who) == {pid[r] : r \in who} \ {None}

\* The signal goes to whatever runs under the pids of the robots in `who'; a
\* child of the server that dies of it waits to be reaped.
Signal(m, who) ==
    LET children == {p \in Targets(who) : m.running[p] \in Robots}
    IN  [running |-> [p \in Pids |-> IF p \in Targets(who) THEN None ELSE m.running[p]],
         zombie  |-> m.zombie \cup children,
         sigchld |-> (m.sigchld \/ children # {}),
         flag    |-> m.flag,
         pipes   |-> m.pipes,
         fds     |-> m.fds]

\* delete_pipes looks whether they are open.
DeletePipes(m, who) ==
    [m EXCEPT !.pipes = @ \ who, !.fds = @ - 2 * Cardinality(who \cap m.pipes)]

\* Mutation of KillForcefully: the process is not killed.
KillForcefullyMisses(m, who) ==
    DeletePipes([m EXCEPT !.flag = @ \ who], who)

\* Mutation of KillForcefully: the pipes are not closed.
KillForcefullyLeaks(m, who) == Signal([m EXCEPT !.flag = @ \ who], who)

\* kill_process_forcefully
KillForcefully(m, who) ==
    DeletePipes(Signal([m EXCEPT !.flag = @ \ who], who), who)

\* start_process: the new processes get pids that are not in use; `pids' are those
\* of the other robots.
Start(m, pids, who) ==
    /\ forks + Cardinality(who) <= MaxForks
    /\ forks' = forks + Cardinality(who)
    /\ \E new \in [who -> {p \in Pids : m.running[p] = None /\ p \notin m.zombie}] :
          /\ \A r, q \in who : new[r] = new[q] => r = q
          /\ pid' = [r \in Robots |-> IF r \in who THEN new[r] ELSE pids[r]]
          /\ Become([m EXCEPT !.running = [p \in Pids |->
                                             IF \E r \in who : new[r] = p
                                             THEN CHOOSE r \in who : new[r] = p
                                             ELSE m.running[p]],
                              !.flag    = @ \cup who,
                              !.pipes   = @ \cup who,
                              !.fds     = @ + 2 * Cardinality(who)])

-----------------------------------------------------------------------------
(***************************************************************************)
(* The server.                                                             *)
(***************************************************************************)
Lineups == SUBSET Robots \ {{}}

NoPids == [r \in Robots |-> None]

\* close_arena: the robots of the sequence are killed and all Robot objects
\* deleted.
ArenaClosed ==
    LET m == KillForcefully(Current, in_sequence)
    IN  DeletePipes(KillForcefully(m, m.flag), Robots)

\* The program quits, or an arena for a replay is opened.
CloseArena ==
    /\ state' = "NOT_STARTED"
    /\ in_sequence' = {}
    /\ Become(ArenaClosed)
    /\ pid' = NoPids
    /\ UNCHANGED forks

\* A new arena is opened, and start_tournament starts the first sequence.
StartTournament ==
    /\ state \in {"NOT_STARTED", "FINISHED"}
    /\ state' = "STARTING_ROBOTS"
    /\ \E who \in Lineups : in_sequence' = who /\ Start(ArenaClosed, NoPids, who)

\* set_non_blocking_state: a robot has asked for the other kind of pipe and is
\* started again.  The server may read the request when the robot has already
\* exited.
Restart ==
    /\ state = "STARTING_ROBOTS"
    /\ \E r \in in_sequence : Start(KillForcefully(Current, {r}), pid, {r})
    /\ UNCHANGED <<state, in_sequence>>

\* start_sequence_follow_up drops the robots whose process is not running, then
\* starts a game; if it cannot, the sequence is ended.
StartSequenceFollowUp ==
    /\ state = "STARTING_ROBOTS"
    /\ state' \in {"GAME", "SHUTTING_DOWN_ROBOTS"}
    /\ in_sequence' = in_sequence \cap process_running
    /\ UNCHANGED <<pid, process_running, pipes, fds, machine, forks>>

\* The End Game button, while the robots are starting, starts a game at once.
EndGameWhileStarting ==
    /\ state = "STARTING_ROBOTS"
    /\ state' = "GAME"
    /\ UNCHANGED <<server, machine, forks>>

\* send_signal to a robot that has asked for one; whoever gets the signal either
\* handles it, and nothing changes here, or dies of it.
SendSignal ==
    /\ state \in {"STARTING_ROBOTS", "GAME", "SHUTTING_DOWN_ROBOTS"}
    /\ \E r \in in_sequence : Become(Signal(Current, {r}))
    /\ UNCHANGED <<state, in_sequence, pid, forks>>

\* end_sequence asks the robots to exit.
EndSequence ==
    /\ state = "GAME"
    /\ state' = "SHUTTING_DOWN_ROBOTS"
    /\ UNCHANGED <<server, machine, forks>>

\* The first half of end_sequence_follow_up: every robot that is running as far
\* as the server knows is killed, and all pipes are deleted.
Reaped ==
    DeletePipes(KillForcefully(Current, in_sequence \cap process_running), in_sequence)

\* end_sequence_follow_up, then end_tournament or start_sequence.
EndSequenceFollowUp ==
    /\ state = "SHUTTING_DOWN_ROBOTS"
    /\ \/ /\ state' = "FINISHED"
          /\ in_sequence' = {}
          /\ Become(Reaped)
          /\ UNCHANGED <<pid, forks>>
       \/ /\ state' = "STARTING_ROBOTS"
          /\ \E who \in Lineups : in_sequence' = who /\ Start(Reaped, pid, who)

\* interrupt_tournament: delete_lists kills the robots of the sequence.
InterruptTournament ==
    /\ state = "GAME"
    /\ state' = "FINISHED"
    /\ in_sequence' = {}
    /\ Become(KillForcefully(Current, in_sequence))
    /\ UNCHANGED <<pid, forks>>

-----------------------------------------------------------------------------
(***************************************************************************)
(* The operating system.                                                   *)
(***************************************************************************)

\* A robot exits: it could not be executed, it crashes, or it has been told to.
RobotExits ==
    /\ \E p \in Pids :
          /\ running[p] \in Robots
          /\ running' = [running EXCEPT ![p] = None]
          /\ zombie' = zombie \cup {p}
    /\ sigchld' = TRUE
    /\ UNCHANGED <<state, server, forks>>

\* Mutation of SigHandler: waitpid is called once for a signal.
SigHandlerOnce ==
    /\ sigchld
    /\ sigchld' = FALSE
    /\ zombie' = zombie \ {CHOOSE p \in Pids : zombie # {} => p \in zombie}
    /\ UNCHANGED <<state, server, running, forks>>

\* sig_handler reaps every child that has exited; signals that arrive before it
\* has run are one signal.
SigHandler ==
    /\ sigchld
    /\ sigchld' = FALSE
    /\ zombie' = {}
    /\ UNCHANGED <<state, server, running, forks>>

\* Other processes come and go.
OtherStarts ==
    /\ \E p \in Pids : /\ running[p] = None
                       /\ p \notin zombie
                       /\ running' = [running EXCEPT ![p] = Other]
    /\ UNCHANGED <<state, server, zombie, sigchld, forks>>

OtherExits ==
    /\ \E p \in Pids : /\ running[p] = Other
                       /\ running' = [running EXCEPT ![p] = None]
    /\ UNCHANGED <<state, server, zombie, sigchld, forks>>

-----------------------------------------------------------------------------
Init ==
    /\ state = "NOT_STARTED"
    /\ in_sequence = {}
    /\ pid = [r \in Robots |-> None]
    /\ process_running = {}
    /\ pipes = {}
    /\ fds = 0
    /\ running = [p \in Pids |-> None]
    /\ zombie = {}
    /\ sigchld = FALSE
    /\ forks = 0

Server ==
    \/ StartTournament
    \/ Restart
    \/ StartSequenceFollowUp
    \/ EndGameWhileStarting
    \/ SendSignal
    \/ EndSequence
    \/ EndSequenceFollowUp
    \/ InterruptTournament
    \/ CloseArena

Next ==
    \/ Server
    \/ RobotExits
    \/ SigHandler
    \/ OtherStarts
    \/ OtherExits

Spec == Init /\ [][Next]_vars

\* A pending signal is delivered.
FairSpec == Spec /\ WF_vars(SigHandler)

-----------------------------------------------------------------------------
(***************************************************************************)
(* Properties.                                                             *)
(***************************************************************************)

\* The type of every variable.
TypeOK ==
    /\ state \in {"NOT_STARTED", "STARTING_ROBOTS", "GAME", "SHUTTING_DOWN_ROBOTS",
                  "FINISHED"}
    /\ in_sequence \subseteq Robots
    /\ pid \in [Robots -> Pids \cup {None}]
    /\ process_running \subseteq Robots
    /\ pipes \subseteq Robots
    /\ fds \in Nat
    /\ running \in [Pids -> Robots \cup {None, Other}]
    /\ zombie \subseteq Pids
    /\ sigchld \in BOOLEAN
    /\ forks \in 0 .. MaxForks

\* No robot process is left behind: whatever a robot does, every process that
\* the server has forked and that still runs belongs to a robot of the current
\* sequence and is the one the server would kill (start_process,
\* set_non_blocking_state, end_sequence_follow_up, delete_lists, ~Robot).
NoOrphans ==
    \A p \in Pids : running[p] \in Robots =>
       /\ running[p] \in in_sequence
       /\ pid[running[p]] = p

\* The server has two descriptors open for every robot of the sequence and no
\* others: none leaks when a robot is restarted or a sequence ends, and
\* send_message and get_messages never meet a deleted stream.
PipesMatchSequence ==
    /\ pipes = in_sequence
    /\ fds = 2 * Cardinality(in_sequence)

\* A child that has exited does not stay a zombie, though signals are merged
\* (sig_handler).
ZombiesReaped == \A p \in Pids : p \in zombie ~> p \notin zombie
=============================================================================
