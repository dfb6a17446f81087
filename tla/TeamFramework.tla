--------------------------- MODULE TeamFramework ---------------------------
(***************************************************************************)
(* The processes of a team built with rtb-team-framework, in the hands of  *)
(* the engine.  The first process that binds the name of the socket is the *)
(* master: it accepts the others until the engine speaks to it, and then   *)
(* plays the games round by round.  In a round every robot of the team     *)
(* reports what the engine told it, and the master answers with tips of    *)
(* the Brotfrucht strategy: rotate, or stop rotating, at every collision.  *)
(* Messages that are only delegated to a state that ignores them (Radar,   *)
(* Info, Coordinates, RobotInfo, RotationReached, RobotsLeft, Warning and  *)
(* the options besides SEND_ROBOT_COORDINATES) are left out.               *)
(***************************************************************************)
EXTENDS Integers, Sequences, FiniteSets

CONSTANTS
    Team,          \* the robots of the team
    Nobody,        \* no robot: the socket has no name, or there is no connection
    Coordinates,   \* kinds of coordinates the engine may announce
    MaxSequences,  \* bound: sequences
    MaxGames,      \* games in a sequence
    MaxTicks,      \* bound: updates of a game, besides its end
    MaxHits,       \* bound: collisions of the team
    MaxFaults,     \* bound: processes killed, and changes of the debug level
    MaxLag         \* bound: lines a robot that waits for nobody may be behind the engine

ASSUME TeamAssumption ==
    /\ IsFiniteSet(Team) /\ Nobody \notin Team
    /\ Coordinates \subseteq {"Absolute", "Relative"}
    /\ {MaxSequences, MaxGames, MaxTicks, MaxHits, MaxFaults, MaxLag} \subseteq Nat

VARIABLES
    pc,           \* where the process of each robot is
    stdin,        \* what the engine has sent it, not yet read
    file,         \* the robot that bound the name of the socket
    link,         \* the master that a client has connected to
    backlog,      \* connections that a listening socket has not accepted
    robots,       \* _clientConnections of a master, itself first
    alive,        \* _alive, in the master
    current,      \* the master's position in robots
    coordinator,  \* the master's ServerCoordinator for each robot
    up, down,     \* what a client has sent and what it has been sent
    hits,         \* collisions a robot has read in this round
    ordered,      \* the rotation a robot has ordered last in this game
    struck,       \* history: an odd number of collisions in this game
    engine,       \* the engine's view
    crashes       \* processes that were killed from outside

startup == <<file, link, backlog>>
master  == <<robots, alive, current, coordinator>>
player  == <<hits, ordered, struck>>
outside == <<engine, crashes>>
vars == <<pc, stdin, startup, master, up, down, player, outside>>

-----------------------------------------------------------------------------
(***************************************************************************)
(* The end of a process.                                                   *)
(***************************************************************************)
Ended(r) == pc[r] \in {"exited", "killed"}

\* The states of a process that owns a UnixServerCommunicator.
ServerStates == {"bound", "waiting", "serving", "reading", "tipping"}

Listening(r) == r \in Team /\ pc[r] \in ServerStates \ {"bound"}

\* main returns, after an exception or without one.  The destructor of the
\* communicator unlinks the name of the socket.
Exit(r) ==
    /\ pc' = [pc EXCEPT ![r] = "exited"]
    /\ file' = IF pc[r] \in ServerStates THEN Nobody ELSE file
    /\ backlog' = [backlog EXCEPT ![r] = <<>>]
    /\ UNCHANGED link

\* A signal ends the process, and no destructor runs.
Killed(r) ==
    /\ pc' = [pc EXCEPT ![r] = "killed"]
    /\ backlog' = [backlog EXCEPT ![r] = <<>>]
    /\ UNCHANGED <<file, link>>

Goto(r, label) ==
    /\ pc' = [pc EXCEPT ![r] = label]
    /\ UNCHANGED startup

-----------------------------------------------------------------------------
(***************************************************************************)
(* Finding each other: MasterResourceControl::getGameController.           *)
(***************************************************************************)
\* The name is free: this process is the master.
Bind(r) ==
    /\ pc[r] = "new" /\ file = Nobody
    /\ file' = r
    /\ pc' = [pc EXCEPT ![r] = "bound"]
    /\ UNCHANGED <<stdin, link, backlog, master, up, down, player, outside>>

\* Mutation of BindFails: the failing constructor cleans up like the destructor.
BindFailsUnlinks(r) ==
    /\ pc[r] = "new" /\ file # Nobody
    /\ file' = Nobody
    /\ pc' = [pc EXCEPT ![r] = "joining"]
    /\ UNCHANGED <<stdin, link, backlog, master, up, down, player, outside>>

\* The name is taken: ServerIsPresentException, and the process becomes a client.
BindFails(r) ==
    /\ pc[r] = "new" /\ file # Nobody
    /\ Goto(r, "joining")
    /\ UNCHANGED <<stdin, master, up, down, player, outside>>

Listen(r) ==
    /\ pc[r] = "bound"
    /\ Goto(r, "waiting")
    /\ robots' = [robots EXCEPT ![r] = <<r>>]
    /\ UNCHANGED <<stdin, alive, current, coordinator, up, down, player, outside>>

\* obtainServerConnection.  The client also sends its name, which is left out.
\* Without a listening socket behind the name, connect fails.
Connect(r) ==
    /\ pc[r] = "joining"
    /\ UNCHANGED <<stdin, master, up, down, player, outside>>
    /\ \/ /\ Listening(file)
          /\ pc' = [pc EXCEPT ![r] = "greeting"]
          /\ link' = [link EXCEPT ![r] = file]
          /\ backlog' = [backlog EXCEPT ![file] = Append(@, r)]
          /\ UNCHANGED file
       \/ /\ ~ Listening(file)
          /\ Exit(r)

\* createRemoteClientConnection while the engine is silent.  The length given to
\* accept is not initialised: the call may fail, which ends the master.  Sending the
\* name to a client that is gone raises SIGPIPE.
Accept(m) ==
    /\ pc[m] = "waiting" /\ stdin[m] = <<>> /\ backlog[m] # <<>>
    /\ UNCHANGED <<stdin, alive, current, coordinator, up, player, outside>>
    /\ LET c == Head(backlog[m]) IN
       \/ /\ ~ Ended(c)
          /\ backlog' = [backlog EXCEPT ![m] = Tail(@)]
          /\ robots' = [robots EXCEPT ![m] = Append(@, c)]
          /\ down' = [down EXCEPT ![c] = Append(@, <<"name">>)]
          /\ UNCHANGED <<pc, file, link>>
       \/ /\ Ended(c)
          /\ Killed(m)
          /\ UNCHANGED <<robots, down>>
       \/ /\ Exit(m)
          /\ UNCHANGED <<robots, down>>

\* The engine has spoken: no pending connection will be accepted any more.
StopWaiting(m) ==
    /\ pc[m] = "waiting" /\ stdin[m] # <<>>
    /\ Goto(m, "serving")
    /\ UNCHANGED <<stdin, master, up, down, player, outside>>

\* The client reads the master's name, or the end of the connection.
Greet(c) ==
    /\ pc[c] = "greeting"
    /\ UNCHANGED <<stdin, master, up, player, outside>>
    /\ \/ /\ down[c] # <<>>
          /\ down' = [down EXCEPT ![c] = Tail(@)]
          /\ Goto(c, "playing")
       \/ /\ down[c] = <<>> /\ Ended(link[c])
          /\ Exit(c)
          /\ UNCHANGED down

-----------------------------------------------------------------------------
(***************************************************************************)
(* The main loops of ClientGameController and ServerGameController.        *)
(***************************************************************************)
Members(s) == {s[i] : i \in 1 .. Len(s)}

NewCoordinator == [rotate |-> FALSE, tips |-> <<>>]

\* Mutation of Reset: tips that were not sent stay in the buffer.
ResetKeepsTips(co) == [co EXCEPT !.rotate = FALSE]

\* ServerCoordinator::resetGame.
Reset(co) == NewCoordinator

\* The positions of living robots, given who lives, from the first to the last.
Living(m, lives) == {i \in 1 .. Len(robots[m]) : lives[robots[m][i]]}
First(S) == CHOOSE i \in S : \A j \in S : i <= j
Last(S)  == CHOOSE i \in S : \A j \in S : j <= i

InMainLoop(r) == pc[r] \in {"serving", "playing"}

\* A line from the engine outside of a game.
ReadCommand(r) ==
    /\ InMainLoop(r) /\ stdin[r] # <<>>
    /\ stdin' = [stdin EXCEPT ![r] = Tail(@)]
    /\ UNCHANGED <<robots, up, down, outside>>
    /\ LET message == Head(stdin[r]) IN
       \/ /\ message = "GameStarts"
          /\ UNCHANGED <<pc, startup, alive, current>>
          /\ coordinator' = [x \in Team |-> IF x \in Members(robots[r])
                                            THEN Reset(coordinator[x])
                                            ELSE coordinator[x]]
          /\ hits' = [hits EXCEPT ![r] = 0]
          /\ ordered' = [ordered EXCEPT ![r] = FALSE]
          /\ struck' = [struck EXCEPT ![r] = FALSE]
       \/ /\ message \in {"GameFinishes", "DebugLevel"}
          /\ UNCHANGED <<pc, startup, alive, current, coordinator, player>>
       \/ /\ message = "Absolute"
          /\ Goto(r, IF pc[r] = "serving" THEN "reading" ELSE "round")
          /\ alive' = [x \in Team |-> x \in Members(robots[r]) \/ alive[x]]
          /\ current' = [current EXCEPT ![r] = 1]
          /\ UNCHANGED <<coordinator, player>>
       \/ /\ message \notin {"GameStarts", "GameFinishes", "DebugLevel", "Absolute"}
          /\ Exit(r)
          /\ UNCHANGED <<alive, current, coordinator, player>>

-----------------------------------------------------------------------------
(***************************************************************************)
(* A round of a client.                                                    *)
(***************************************************************************)
\* The rotation ordered when the tips have been obeyed one after the other.
Obeyed(rotation, tips) ==
    IF tips = <<>> THEN rotation ELSE tips[Len(tips)] = "STARTROTATION"

Collide(r) ==
    /\ hits' = [hits EXCEPT ![r] = @ + 1]
    /\ struck' = [struck EXCEPT ![r] = ~ @]
    /\ UNCHANGED ordered

\* The lines of the round go to the master.  If it is gone, SIGPIPE ends the client.
Report(c, dead, label) ==
    /\ hits' = [hits EXCEPT ![c] = 0]
    /\ UNCHANGED <<ordered, struck>>
    /\ IF Ended(link[c])
       THEN Killed(c) /\ UNCHANGED up
       ELSE /\ Goto(c, label)
            /\ up' = [up EXCEPT ![c] = Append(@, [hits |-> hits[c], dead |-> dead])]

\* Mutation of AfterReport: a dead client waits for tips too.
AfterReportWaits(dead) == "tips"

\* Where a client goes when it has sent its report.
AfterReport(dead) == IF dead THEN "playing" ELSE "tips"

\* A line from the engine in a game.
ReadRound(c) ==
    /\ pc[c] = "round" /\ stdin[c] # <<>>
    /\ stdin' = [stdin EXCEPT ![c] = Tail(@)]
    /\ UNCHANGED <<master, down, outside>>
    /\ LET message == Head(stdin[c]) IN
       \/ /\ message = "Collision"
          /\ Collide(c)
          /\ UNCHANGED <<pc, startup, up>>
       \/ /\ message \in {"Energy", "Dead"}
          /\ Report(c, message = "Dead", AfterReport(message = "Dead"))
       \/ /\ message \notin {"Collision", "Energy", "Dead"}
          /\ Exit(c)
          /\ UNCHANGED <<up, player>>

\* The tips of one round, up to the finishing string, arrive together.
ReadTips(c) ==
    /\ pc[c] = "tips"
    /\ UNCHANGED <<stdin, master, up, hits, struck, outside>>
    /\ \/ /\ down[c] # <<>>
          /\ ordered' = [ordered EXCEPT ![c] = Obeyed(@, Head(down[c]))]
          /\ down' = [down EXCEPT ![c] = Tail(@)]
          /\ Goto(c, "round")
       \/ /\ down[c] = <<>> /\ Ended(link[c])
          /\ Exit(c)
          /\ UNCHANGED <<ordered, down>>

-----------------------------------------------------------------------------
(***************************************************************************)
(* A round of the master.                                                  *)
(***************************************************************************)
\* BFServerNoRotateState and BFServerRotateState at a collision.
Collided(co) ==
    [rotate |-> ~ co.rotate,
     tips   |-> Append(co.tips, IF co.rotate THEN "STOPROTATION" ELSE "STARTROTATION")]

CollidedTimes(co, n) ==
    LET after[i \in 0 .. n] == IF i = 0 THEN co ELSE Collided(after[i - 1])
    IN  after[n]

\* The robot at `current' has said all it says in this round: on to the next one,
\* or to the tips, or out of the game when nobody lives.
NextRobot(m, lives) ==
    LET later == {i \in Living(m, lives) : i > current[m]}
    IN  /\ alive' = lives
        /\ IF later # {}
           THEN /\ current' = [current EXCEPT ![m] = First(later)]
                /\ UNCHANGED <<pc, startup>>
           ELSE IF Living(m, lives) # {}
           THEN /\ current' = [current EXCEPT ![m] = Last(Living(m, lives))]
                /\ Goto(m, "tipping")
           ELSE /\ UNCHANGED current
                /\ Goto(m, "serving")

\* A line from the engine to the master itself.
ReadOwn(m) ==
    /\ pc[m] = "reading" /\ robots[m][current[m]] = m /\ stdin[m] # <<>>
    /\ stdin' = [stdin EXCEPT ![m] = Tail(@)]
    /\ UNCHANGED <<robots, up, down, outside>>
    /\ LET message == Head(stdin[m]) IN
       \/ /\ message = "Collision"
          /\ Collide(m)
          /\ coordinator' = [coordinator EXCEPT ![m] = Collided(@)]
          /\ UNCHANGED <<pc, startup, alive, current>>
       \/ /\ message \in {"Energy", "Dead"}
          /\ NextRobot(m, [alive EXCEPT ![m] = message = "Energy"])
          /\ UNCHANGED <<coordinator, player>>
       \/ /\ message \notin {"Collision", "Energy", "Dead"}
          /\ Exit(m)
          /\ UNCHANGED <<alive, current, coordinator, player>>

\* The report of a client, or the end of its connection.
ReadReport(m) ==
    /\ pc[m] = "reading" /\ robots[m][current[m]] # m
    /\ UNCHANGED <<stdin, robots, down, player, outside>>
    /\ LET c == robots[m][current[m]] IN
       \/ /\ up[c] # <<>>
          /\ up' = [up EXCEPT ![c] = Tail(@)]
          /\ coordinator' = [coordinator EXCEPT ![c] = CollidedTimes(@, Head(up[c]).hits)]
          /\ NextRobot(m, [alive EXCEPT ![c] = ~ Head(up[c]).dead])
       \/ /\ up[c] = <<>> /\ Ended(c)
          /\ Exit(m)
          /\ UNCHANGED <<alive, current, coordinator, up>>

\* processReceivedRTBMessages for the living robot at `current', from the last to
\* the first.  The master obeys its own tips at once.
SendTips(m) ==
    /\ pc[m] = "tipping"
    /\ UNCHANGED <<stdin, robots, alive, up, struck, outside>>
    /\ LET x       == robots[m][current[m]]
           earlier == {i \in Living(m, alive) : i < current[m]}
       IN
       \/ /\ x # m /\ Ended(x)
          /\ Killed(m)
          /\ UNCHANGED <<current, coordinator, down, hits, ordered>>
       \/ /\ x = m \/ ~ Ended(x)
          /\ coordinator' = [coordinator EXCEPT ![x].tips = <<>>]
          /\ IF x = m
             THEN /\ ordered' = [ordered EXCEPT ![m] = Obeyed(@, coordinator[m].tips)]
                  /\ hits' = [hits EXCEPT ![m] = 0]
                  /\ UNCHANGED down
             ELSE /\ down' = [down EXCEPT ![x] = Append(@, coordinator[x].tips)]
                  /\ UNCHANGED <<ordered, hits>>
          /\ IF earlier # {}
             THEN /\ current' = [current EXCEPT ![m] = Last(earlier)]
                  /\ UNCHANGED <<pc, startup>>
             ELSE /\ current' = [current EXCEPT ![m] = First(Living(m, alive))]
                  /\ Goto(m, "reading")

-----------------------------------------------------------------------------
(***************************************************************************)
(* The engine, which writes to the robots and never waits for them.  It    *)
(* ends a game as it likes: other robots fight in it.                      *)
(***************************************************************************)
\* The process waits for another one, however much the engine has sent it.
Blocked(r) ==
    \/ pc[r] \in {"greeting", "tips"}
    \/ pc[r] = "reading" /\ robots[r][current[r]] # r

\* Every robot r is sent the messages said[r].
Tell(said) ==
    /\ \A r \in Team : Len(stdin[r]) > MaxLag => Ended(r) \/ Blocked(r)
    /\ stdin' = [r \in Team |-> IF Ended(r) THEN <<>> ELSE stdin[r] \o said[r]]

GameStart(option) == <<"GameStarts", option>>

StartGame ==
    /\ engine.phase = "starting"
    /\ \E option \in Coordinates : Tell([r \in Team |-> GameStart(option)])
    /\ engine' = [engine EXCEPT !.phase = "game", !.game = 1, !.tick = 0, !.playing = Team]
    /\ UNCHANGED <<pc, startup, master, up, down, player, crashes>>

\* One update: some robots collide, some of them die.
Update ==
    /\ engine.phase = "game" /\ engine.tick < MaxTicks
    /\ \E hit, dead \in SUBSET engine.playing :
          /\ engine.hits + Cardinality(hit) <= MaxHits
          /\ Tell([r \in Team |->
                     IF r \notin engine.playing THEN <<>>
                     ELSE (IF r \in hit THEN <<"Collision">> ELSE <<>>)
                          \o (IF r \in dead THEN <<"Dead">> ELSE <<"Energy">>)])
          /\ engine' = [engine EXCEPT !.tick = @ + 1, !.playing = @ \ dead,
                                      !.hits = @ + Cardinality(hit)]
    /\ UNCHANGED <<pc, startup, master, up, down, player, crashes>>

\* The debug level is changed by the user: the living robots are told.
SetDebugLevel ==
    /\ engine.phase = "game" /\ crashes + engine.levels < MaxFaults
    /\ Tell([r \in Team |-> IF r \in engine.playing THEN <<"DebugLevel">> ELSE <<>>])
    /\ engine' = [engine EXCEPT !.levels = @ + 1]
    /\ UNCHANGED <<pc, startup, master, up, down, player, crashes>>

\* The end of a game, and at once the start of the next one or the end of the
\* sequence.
EndGame ==
    /\ engine.phase = "game"
    /\ LET survived(r) == IF r \in engine.playing THEN <<"Dead", "GameFinishes">> ELSE <<>>
       IN
       \/ /\ engine.game < MaxGames
          /\ \E option \in Coordinates :
                Tell([r \in Team |-> survived(r) \o GameStart(option)])
          /\ engine' = [engine EXCEPT !.game = @ + 1, !.tick = 0, !.playing = Team]
       \/ /\ engine.game = MaxGames
          /\ Tell([r \in Team |-> survived(r) \o <<"ExitRobot">>])
          /\ engine' = [engine EXCEPT !.phase = "over", !.playing = {}]
    /\ UNCHANGED <<pc, startup, master, up, down, player, crashes>>

Everyone(value) == [r \in Team |-> value]

\* end_sequence_follow_up kills what is still there, and start_sequence starts
\* every process anew.  Only the name of the socket outlives them.
StartSequence ==
    /\ engine.phase = "over" /\ engine.sequence < MaxSequences
    /\ crashes' = crashes + Cardinality({r \in Team : ~ Ended(r)})
    /\ engine' = [engine EXCEPT !.phase = "starting", !.sequence = @ + 1]
    /\ pc' = Everyone("new")
    /\ stdin' = Everyone(<<>>)
    /\ link' = Everyone(Nobody)
    /\ backlog' = Everyone(<<>>)
    /\ robots' = Everyone(<<>>)
    /\ alive' = Everyone(FALSE)
    /\ current' = Everyone(1)
    /\ coordinator' = Everyone(NewCoordinator)
    /\ up' = Everyone(<<>>) /\ down' = Everyone(<<>>)
    /\ hits' = Everyone(0)
    /\ ordered' = Everyone(FALSE) /\ struck' = Everyone(FALSE)
    /\ UNCHANGED file

\* A process is killed in mid-sequence.
Crash(r) ==
    /\ ~ Ended(r) /\ crashes + engine.levels < MaxFaults
    /\ crashes' = crashes + 1
    /\ Killed(r)
    /\ UNCHANGED <<stdin, master, up, down, player, engine>>

-----------------------------------------------------------------------------
Init ==
    /\ pc = Everyone("new") /\ stdin = Everyone(<<>>)
    /\ file = Nobody /\ link = Everyone(Nobody) /\ backlog = Everyone(<<>>)
    /\ robots = Everyone(<<>>) /\ alive = Everyone(FALSE) /\ current = Everyone(1)
    /\ coordinator = Everyone(NewCoordinator)
    /\ up = Everyone(<<>>) /\ down = Everyone(<<>>)
    /\ hits = Everyone(0) /\ ordered = Everyone(FALSE) /\ struck = Everyone(FALSE)
    /\ engine = [phase |-> "starting", sequence |-> 1, game |-> 0, tick |-> 0,
                 playing |-> {}, hits |-> 0, levels |-> 0]
    /\ crashes = 0

Join(r) == Bind(r) \/ BindFails(r) \/ Listen(r) \/ Connect(r) \/ Accept(r)
           \/ StopWaiting(r) \/ Greet(r)

Play(r) == ReadCommand(r) \/ ReadRound(r) \/ ReadTips(r)
           \/ ReadOwn(r) \/ ReadReport(r) \/ SendTips(r)

Process(r) == Join(r) \/ Play(r)

Engine == StartGame \/ Update \/ SetDebugLevel \/ EndGame \/ StartSequence

Next ==
    \/ \E r \in Team : Process(r)
    \/ \E r \in Team : Crash(r)
    \/ Engine

\* A process that can go on does so; the engine and its user may do nothing.
Spec == Init /\ [][Next]_vars /\ \A r \in Team : WF_vars(Process(r))

-----------------------------------------------------------------------------
(***************************************************************************)
(* Properties.                                                             *)
(***************************************************************************)

\* The name of the socket belongs to the master as long as it runs, so that there is
\* one master at a time and nobody takes its name away; and unless a process was
\* killed from outside, no way of ending leaves the name behind, which would keep
\* the team out of every later sequence.
SocketFileOwned ==
    /\ \A r \in Team : pc[r] \in ServerStates => file = r
    /\ crashes = 0 /\ file # Nobody => pc[file] \in ServerStates

\* At the start of each of its rounds a robot has ordered its cannon to rotate exactly
\* when it was hit an odd number of times in this game: no tip is lost, doubled, given
\* to another robot or carried over from an earlier game.
RotatesAsHit ==
    \A r \in Team : pc[r] \in {"round", "reading"} /\ hits[r] = 0 =>
                      (ordered[r] <=> struck[r])

\* Once the engine has told the robots to exit, every process of the team ends by
\* itself: no master and client wait for each other, whoever died or was killed.
TeamQuits ==
    engine.phase = "over" ~> (engine.phase # "over" \/ \A r \in Team : Ended(r))
=============================================================================
