------------------------ MODULE TeamFrameworkProofs ------------------------
(***************************************************************************)
(* A team of any size shares the socket and rotates as it is hit, whatever *)
(* the engine sends, in whatever order the processes run, and whoever is   *)
(* killed.                                                                 *)
(***************************************************************************)
EXTENDS TeamFramework, FiniteSetTheorems, WellFoundedInduction, TLAPS

Odd(n) == n % 2 = 1

\* A rotation that has been changed n times.
Turned(rotation, n) == IF Odd(n) THEN ~ rotation ELSE rotation

Clients == {"joining", "greeting", "playing", "round", "tips"}
Labels  == {"new", "exited", "killed"} \cup ServerStates \cup Clients

\* What the engine sends, and what a master sends.
Messages == {"GameStarts", "GameFinishes", "DebugLevel", "Absolute", "Relative", "Collision",
             "Energy", "Dead", "ExitRobot"}
Lines    == {"name", "STARTROTATION", "STOPROTATION"}

Coordinators == [rotate : BOOLEAN, tips : Seq(Lines)]

\* The types the proofs need.
Types ==
    /\ pc \in [Team -> Labels]
    /\ stdin \in [Team -> Seq(Messages)]
    /\ file \in Team \cup {Nobody}
    /\ link \in [Team -> Team \cup {Nobody}]
    /\ backlog \in [Team -> Seq(Team)]
    /\ robots \in [Team -> Seq(Team)]
    /\ alive \in [Team -> BOOLEAN]
    /\ current \in [Team -> Nat]
    /\ DOMAIN coordinator = Team
    /\ up \in [Team -> Seq([hits : Nat, dead : BOOLEAN])]
    /\ down \in [Team -> Seq(Seq(Lines))]
    /\ hits \in [Team -> Nat]
    /\ ordered \in [Team -> BOOLEAN]
    /\ struck \in [Team -> BOOLEAN]
    /\ crashes \in Nat

\* A process that has ended because of a process that was killed from outside.
Gone(r) == Ended(r) /\ crashes > 0

\* No rotation is ordered, and no robot of r is known to rotate.
Fresh(r) ==
    /\ hits[r] = 0 /\ ordered[r] = FALSE /\ struck[r] = FALSE
    /\ \A x \in Members(robots[r]) : coordinator[x] = NewCoordinator

\* Coordinates follow the announcement of a game, at which everything is reset.
Paired(lines) ==
    \A i \in 2 .. Len(lines) : lines[i] = "Absolute" => lines[i - 1] = "GameStarts"

Announced(r) ==
    /\ Paired(stdin[r])
    /\ stdin[r] # <<>> /\ stdin[r][1] = "Absolute" =>
          Ended(r) \/ (InMainLoop(r) /\ Fresh(r))

\* A process that is not connected yet, and one that has no robots to lead.
Starting(r) ==
    /\ pc[r] \in {"new", "bound"} =>
          hits[r] = 0 /\ ordered[r] = FALSE /\ struck[r] = FALSE
          /\ coordinator[r] = NewCoordinator
    /\ pc[r] \in {"new", "bound", "joining", "greeting"} => up[r] = <<>>
    /\ pc[r] \in {"new", "bound", "joining"} => down[r] = <<>>
    /\ pc[r] \in {"new", "bound"} \cup Clients => robots[r] = <<>>

\* A client: what it was told to do, and what it still has to tell its master, is what
\* its collisions call for.
Obedient(c) ==
    /\ Len(down[c]) <= 1
    /\ pc[c] \in {"playing", "round"} => down[c] = <<>>
    /\ pc[c] = "round" => (struck[c] <=> Turned(ordered[c], hits[c]))
    /\ pc[c] = "tips" => hits[c] = 0
    /\ pc[c] = "tips" /\ down[c] # <<>> => (struck[c] <=> Obeyed(ordered[c], Head(down[c])))

\* The master is a robot of the team itself.
OwnRobot(m) ==
    pc[m] \in ServerStates =>
      /\ coordinator[m] \in Coordinators
      /\ struck[m] <=> coordinator[m].rotate
      /\ struck[m] <=> Obeyed(ordered[m], coordinator[m].tips)
      /\ hits[m] = 0 => coordinator[m].tips = <<>>

\* The connections of a master, itself first.
Connected(m) ==
    /\ robots[m] # <<>> /\ robots[m][1] = m
    /\ \A i, j \in 1 .. Len(robots[m]) : robots[m][i] = robots[m][j] => i = j
    /\ \A i \in 2 .. Len(robots[m]) :
          /\ link[robots[m][i]] = m
          /\ Ended(robots[m][i]) \/ pc[robots[m][i]] \in Clients \ {"joining"}

\* The connections it has not accepted, as long as it may accept them.
Queued(m) ==
    pc[m] = "waiting" =>
      /\ \A i, j \in 1 .. Len(backlog[m]) : backlog[m][i] = backlog[m][j] => i = j
      /\ \A i \in 1 .. Len(backlog[m]) :
            LET c == backlog[m][i] IN
            /\ c \notin Members(robots[m]) /\ link[c] = m
            /\ Gone(c) \/ (pc[c] = "greeting" /\ down[c] = <<>>)

\* The master is in a game in which client c, to its knowledge, still plays, and c has
\* not yet said that it is dead.
InGame(m, c) ==
    /\ pc[m] \in {"reading", "tipping"} /\ alive[c]
    /\ \A i \in 1 .. Len(up[c]) : ~ up[c][i].dead

\* The client waits for tips, and the master has read its report.
Waiting(c) == pc[c] = "tips" /\ down[c] = <<>> /\ up[c] = <<>>

\* A client of m: reports of games it has died in may be on the way, and one report of
\* its present round.  The master's coordinator knows of its rotation as soon as both
\* are in the same game.
Led(m, c) ==
    /\ \A i \in 1 .. Len(up[c]) - 1 : up[c][i].dead
    /\ up[c] # <<>> /\ ~ up[c][Len(up[c])].dead =>
          Gone(c) \/ ( /\ pc[c] = "tips" /\ down[c] = <<>>
                       /\ struck[c] <=> Turned(ordered[c], up[c][Len(up[c])].hits) )
    /\ pc[c] = "tips" /\ up[c] # <<>> => ~ up[c][Len(up[c])].dead
    /\ pc[c] \in {"greeting", "playing"} /\ InGame(m, c) => coordinator[c] = NewCoordinator
    /\ pc[c] = "round" \/ (pc[c] = "tips" /\ up[c] # <<>>) =>
          IF InGame(m, c) THEN coordinator[c] = [rotate |-> ordered[c], tips |-> <<>>]
                          ELSE ordered[c] = FALSE
    /\ pc[c] = "tips" /\ down[c] # <<>> =>
          up[c] = <<>> /\ InGame(m, c) /\ coordinator[c] = [rotate |-> struck[c], tips |-> <<>>]
    /\ Waiting(c) => /\ InGame(m, c)
                     /\ coordinator[c] \in Coordinators
                     /\ struck[c] <=> coordinator[c].rotate
                     /\ struck[c] <=> Obeyed(ordered[c], coordinator[c].tips)

\* In a round the clients at the positions before `current' have reported, and when tips
\* are sent those at the later ones have got theirs: the others wait.
Round(m) ==
    pc[m] \in {"reading", "tipping"} =>
      /\ current[m] \in Living(m, alive)
      /\ \A i \in Living(m, alive) :
            robots[m][i] # m
            /\ (i < current[m] \/ (i = current[m] /\ pc[m] = "tipping")) =>
              Gone(robots[m][i]) \/ Waiting(robots[m][i])

Leading(m) ==
    Listening(m) =>
      /\ Connected(m)
      /\ Queued(m)
      /\ Round(m)
      /\ \A i \in 2 .. Len(robots[m]) : Led(m, robots[m][i])

\* What concerns one process, whoever leads it.
Own(r) == Announced(r) /\ Starting(r) /\ Obedient(r) /\ OwnRobot(r)

\* The inductive invariant.
TeamInv ==
    /\ Types
    /\ SocketFileOwned
    /\ \A r \in Team : Own(r) /\ Leading(r)

-----------------------------------------------------------------------------
(***************************************************************************)
(* Numbers and sequences.                                                  *)
(***************************************************************************)

\* A set of numbers has a least one.  Induction over data is done with this fact.
LEMMA LeastNumber ==
    ASSUME NEW T \in SUBSET Nat, T # {}
    PROVE  \E x \in T : \A y \in T : x <= y
  <1> DEFINE R == {ss \in Nat \X Nat : ss[1] < ss[2]}
  <1>1. \E x \in T : \A y \in T : ~ (<<y, x>> \in R)
    <2> HIDE DEF R
    <2>1. IsWellFoundedOn(R, Nat)
      BY NatLessThanWellFounded DEF R, OpToRel
    <2> QED BY <2>1, WFMin
  <1>2. \A x, y \in Nat : ~ (<<y, x>> \in R) => x <= y
    OBVIOUS
  <1> QED BY <1>1, <1>2

\* The first and the last of some positions.
LEMMA FirstIs ==
    ASSUME NEW n \in Nat, NEW S \in SUBSET (1 .. n), S # {}
    PROVE  First(S) \in S /\ \A j \in S : First(S) <= j
  <1>1. \E i \in S : \A j \in S : i <= j
    BY LeastNumber
  <1> QED BY <1>1 DEF First

\* The last of a set of positions is the largest of them.
LEMMA LastIs ==
    ASSUME NEW n \in Nat, NEW S \in SUBSET (1 .. n), S # {}
    PROVE  Last(S) \in S /\ \A j \in S : j <= Last(S)
  <1> DEFINE T == {k \in Nat : n - k \in S}
  <1>1. T # {}
    <2>1. PICK i \in S : TRUE
      OBVIOUS
    <2>2. n - i \in T
      BY <2>1
    <2> QED BY <2>2
  <1>2. PICK k \in T : \A l \in T : k <= l
    BY <1>1, LeastNumber
  <1>3. n - k \in S /\ \A j \in S : j <= n - k
    <2>1. \A j \in S : n - j \in T
      OBVIOUS
    <2> QED BY <1>2, <2>1
  <1>4. \E i \in S : \A j \in S : j <= i
    BY <1>3
  <1> QED BY <1>4 DEF Last

\* What is left of a sequence, and what is added to it.
LEMMA TailIs ==
    ASSUME NEW X, NEW s \in Seq(X), s # <<>>
    PROVE  /\ Head(s) = s[1] /\ Head(s) \in X
           /\ Tail(s) \in Seq(X) /\ Len(Tail(s)) = Len(s) - 1
           /\ Len(s) \in Nat \ {0}
           /\ \A i \in 1 .. Len(s) - 1 : Tail(s)[i] = s[i + 1]
  OBVIOUS

\* The elements of a sequence to which one is added.
LEMMA AppendIs ==
    ASSUME NEW X, NEW s \in Seq(X), NEW e \in X
    PROVE  /\ Append(s, e) \in Seq(X) /\ Append(s, e) # <<>>
           /\ Len(Append(s, e)) = Len(s) + 1 /\ Len(s) \in Nat
           /\ \A i \in 1 .. Len(s) : Append(s, e)[i] = s[i]
           /\ Append(s, e)[Len(s) + 1] = e
  OBVIOUS

\* The members of a sequence are its elements.
LEMMA MembersAre ==
    ASSUME NEW X, NEW s \in Seq(X)
    PROVE  /\ Members(s) \subseteq X
           /\ Members(<<>>) = {}
           /\ \A e \in X : Members(Append(s, e)) = Members(s) \cup {e}
  <1>1. Members(s) \subseteq X
    <2> SUFFICES ASSUME NEW i \in 1 .. Len(s) PROVE s[i] \in X
      BY DEF Members
    <2> QED OBVIOUS
  <1>2. Members(<<>>) = {}
    BY DEF Members
  <1>3. ASSUME NEW e \in X PROVE Members(Append(s, e)) = Members(s) \cup {e}
    <2>1. ASSUME NEW y \in Members(Append(s, e)) PROVE y \in Members(s) \cup {e}
      BY AppendIs DEF Members
    <2>2. ASSUME NEW y \in Members(s) PROVE y \in Members(Append(s, e))
      BY AppendIs DEF Members
    <2>3. e \in Members(Append(s, e))
      BY AppendIs DEF Members
    <2> QED BY <2>1, <2>2, <2>3
  <1> QED BY <1>1, <1>2, <1>3

\* A sequence of at most one element has no rest.
LEMMA ShortIs ==
    ASSUME NEW X, NEW s \in Seq(X), Len(s) <= 1
    PROVE  s # <<>> => Tail(s) = <<>>
  OBVIOUS

-----------------------------------------------------------------------------
(***************************************************************************)
(* Collisions.                                                             *)
(***************************************************************************)
\* A coordinator without tips after i collisions.
After(rotation, i) ==
    [rotate |-> Turned(rotation, i),
     tips   |-> [j \in 1 .. i |-> IF Turned(rotation, j - 1) THEN "STOPROTATION"
                                                             ELSE "STARTROTATION"]]

\* Every hit turns the rotation round.
LEMMA TurnedAgain ==
    ASSUME NEW rotation \in BOOLEAN, NEW n \in Nat
    PROVE  /\ Turned(rotation, n) \in BOOLEAN
           /\ Turned(rotation, n + 1) = ~ Turned(rotation, n)
           /\ Turned(rotation, 0) = rotation
  <1>1. (Odd(n + 1) <=> ~ Odd(n)) /\ ~ Odd(0)
    BY DEF Odd
  <1> QED BY <1>1, Zenon DEF Turned

\* The rotation after i hits is that after i - 1, turned round.
LEMMA AfterNext ==
    ASSUME NEW rotation \in BOOLEAN, NEW i \in Nat \ {0}
    PROVE  After(rotation, i) = Collided(After(rotation, i - 1))
  <1> DEFINE t(j) == IF Turned(rotation, j - 1) THEN "STOPROTATION" ELSE "STARTROTATION"
             s == [j \in 1 .. i - 1 |-> t(j)]
             u == [j \in 1 .. i |-> t(j)]
  <1>1. Turned(rotation, i) = ~ Turned(rotation, i - 1)
    <2>1. i - 1 \in Nat /\ (i - 1) + 1 = i
      OBVIOUS
    <2>2. Turned(rotation, (i - 1) + 1) = ~ Turned(rotation, i - 1)
      BY <2>1, TurnedAgain
    <2> QED BY <2>1, <2>2
  <1>2. Append(s, t(i)) = u
    <2> HIDE DEF t
    <2> QED OBVIOUS
  <1> QED BY <1>1, <1>2 DEF After, Collided

\* CollidedTimes is what its recursion says.
LEMMA CollidedTimesIs ==
    ASSUME NEW rotation \in BOOLEAN, NEW n \in Nat
    PROVE  CollidedTimes([rotate |-> rotation, tips |-> <<>>], n) = After(rotation, n)
  <1> DEFINE co == [rotate |-> rotation, tips |-> <<>>]
             Is(f) == f = [i \in 0 .. n |-> IF i = 0 THEN co ELSE Collided(f[i - 1])]
             w == [i \in 0 .. n |-> After(rotation, i)]
  <1>1. After(rotation, 0) = co
    BY DEF After, Turned, Odd
  <1>2. Is(w)
    <2> SUFFICES ASSUME NEW i \in 0 .. n
        PROVE  w[i] = IF i = 0 THEN co ELSE Collided(w[i - 1])
      OBVIOUS
    <2> QED BY <1>1, AfterNext
  <1>3. ASSUME NEW f, Is(f) PROVE f[n] = w[n]
    <2> DEFINE wrong == {i \in 0 .. n : f[i] # w[i]}
    <2>1. ASSUME NEW i \in wrong, \A j \in wrong : i <= j PROVE FALSE
      <3>1. i # 0
        BY <1>1, <1>3, <2>1
      <3>2. i - 1 \in 0 .. n /\ f[i - 1] = w[i - 1]
        BY <2>1, <3>1
      <3>3. f[i] = Collided(f[i - 1]) /\ w[i] = Collided(w[i - 1])
        BY <1>2, <1>3, <3>1, <2>1
      <3> QED BY <2>1, <3>2, <3>3
    <2>2. wrong \in SUBSET Nat
      OBVIOUS
    <2>3. n \notin wrong
      <3> HIDE DEF wrong
      <3> QED BY <2>1, <2>2, LeastNumber
    <2> QED BY <2>3
  <1>4. CollidedTimes(co, n) = (CHOOSE f : Is(f))[n]
    BY DEF CollidedTimes
  <1>5. w[n] = After(rotation, n)
    OBVIOUS
  <1> HIDE DEF Is, w
  <1>6. Is(CHOOSE f : Is(f))
    BY <1>2
  <1>7. (CHOOSE f : Is(f))[n] = w[n]
    BY <1>3, <1>6
  <1> QED BY <1>4, <1>5, <1>7

\* The tips of a report of n collisions turn the rotation as often as the robot was hit.
LEMMA TipsOfReport ==
    ASSUME NEW rotation \in BOOLEAN, NEW n \in Nat,
           NEW co, co = CollidedTimes([rotate |-> rotation, tips |-> <<>>], n)
    PROVE  /\ co \in Coordinators
           /\ co.rotate = Turned(rotation, n)
           /\ Obeyed(rotation, co.tips) = Turned(rotation, n)
  <1>1. co = After(rotation, n)
    BY CollidedTimesIs
  <1>2. co.rotate = Turned(rotation, n)
    BY <1>1 DEF After
  <1>3. co.tips = [j \in 1 .. n |-> IF Turned(rotation, j - 1) THEN "STOPROTATION"
                                                              ELSE "STARTROTATION"]
    BY <1>1 DEF After
  <1>4. co.tips \in Seq(Lines) /\ Len(co.tips) = n
    <2> DEFINE t(j) == IF Turned(rotation, j - 1) THEN "STOPROTATION" ELSE "STARTROTATION"
    <2>1. \A j \in 1 .. n : t(j) \in Lines
      BY DEF Lines
    <2>2. co.tips = [j \in 1 .. n |-> t(j)]
      BY <1>3
    <2> HIDE DEF t
    <2> QED BY <2>1, <2>2
  <1>5. co \in Coordinators
    <2>1. Turned(rotation, n) \in BOOLEAN
      BY TurnedAgain
    <2>2. co = [rotate |-> Turned(rotation, n), tips |-> co.tips]
      BY <1>1 DEF After
    <2> QED BY <1>4, <2>1, <2>2 DEF Coordinators
  <1>6. CASE n = 0
    <2>1. co.tips = <<>>
      BY <1>4, <1>6
    <2>2. Turned(rotation, n) = rotation
      BY <1>6, TurnedAgain
    <2> QED BY <1>2, <1>5, <2>1, <2>2, Zenon DEF Obeyed
  <1>7. CASE n # 0
    <2>1. n - 1 \in Nat /\ (n - 1) + 1 = n
      BY <1>7
    <2>2. Turned(rotation, n) = ~ Turned(rotation, n - 1) /\ Turned(rotation, n) \in BOOLEAN
          /\ Turned(rotation, n - 1) \in BOOLEAN
      <3>1. Turned(rotation, (n - 1) + 1) = ~ Turned(rotation, n - 1)
        BY <2>1, TurnedAgain
      <3> QED BY <2>1, <3>1, TurnedAgain
    <2>3. co.tips # <<>>
      BY <1>4, <1>7
    <2>4. co.tips[n] = IF Turned(rotation, n - 1) THEN "STOPROTATION" ELSE "STARTROTATION"
      BY <1>3, <1>7
    <2>5. (co.tips[n] = "STARTROTATION") = ~ Turned(rotation, n - 1)
      BY <2>2, <2>4
    <2> QED BY <1>2, <1>4, <1>5, <2>2, <2>3, <2>5 DEF Obeyed
  <1> QED BY <1>2, <1>5, <1>6, <1>7
-----------------------------------------------------------------------------
(***************************************************************************)
(* What a step leaves alone.                                               *)
(***************************************************************************)
\* Nothing of process r changes that it could see itself.
Untouched(r) ==
    /\ pc'[r] = pc[r] /\ stdin'[r] = stdin[r] /\ up'[r] = up[r] /\ down'[r] = down[r]
    /\ hits'[r] = hits[r] /\ ordered'[r] = ordered[r] /\ struck'[r] = struck[r]
    /\ robots'[r] = robots[r]

\* A process that a step does not touch keeps its part of the invariant.
LEMMA OwnKept ==
    ASSUME NEW r \in Team, Own(r), Untouched(r),
           pc[r] \in ServerStates \cup {"new"} => coordinator'[r] = coordinator[r],
           Ended(r) \/ \A x \in Members(robots[r]) : coordinator'[x] = coordinator[x]
    PROVE  Own(r)'
  <1>1. Announced(r)'
    BY DEF Own, Announced, Untouched, Ended, InMainLoop, Fresh
  <1>2. Starting(r)'
    BY DEF Own, Starting, Untouched, ServerStates
  <1>3. Obedient(r)'
    BY DEF Own, Obedient, Untouched
  <1>4. OwnRobot(r)'
    BY DEF Own, OwnRobot, Untouched
  <1> QED BY <1>1, <1>2, <1>3, <1>4 DEF Own

\* A process that ends has nothing left to go wrong.
LEMMA OwnEnded ==
    ASSUME NEW r \in Team, Own(r), Ended(r)', Paired(stdin[r])', down'[r] = down[r]
    PROVE  Own(r)'
  BY DEF Own, Announced, Starting, Obedient, OwnRobot, Ended, ServerStates, Clients

\* When the first line has been read, the others are still paired.
LEMMA PairedTail ==
    ASSUME NEW s \in Seq(Messages), s # <<>>, Paired(s)
    PROVE  /\ Paired(Tail(s))
           /\ Tail(s) # <<>> /\ Tail(s)[1] = "Absolute" => s[1] = "GameStarts"
  BY TailIs DEF Paired

\* There is one process with a UnixServerCommunicator at most.
LEMMA OneServer ==
    ASSUME SocketFileOwned, NEW m \in Team, NEW r \in Team,
           pc[m] \in ServerStates, pc[r] \in ServerStates
    PROVE  r = m
  BY DEF SocketFileOwned

\* The socket file stays owned as long as nobody becomes or ceases to be a server.
LEMMA SocketKept ==
    ASSUME TeamInv, file' = file, crashes' = 0 => crashes = 0,
           \A r \in Team : pc'[r] \in ServerStates <=> pc[r] \in ServerStates
    PROVE  SocketFileOwned'
  BY DEF TeamInv, Types, SocketFileOwned

\* While a master leads, nobody else does.
LEMMA OnlyLeader ==
    ASSUME SocketFileOwned', NEW m \in Team, pc'[m] \in ServerStates, Leading(m)'
    PROVE  \A r \in Team : Leading(r)'
  BY DEF SocketFileOwned, Leading, Listening

\* When the master ends nobody leads, and the name of the socket is free or somebody was
\* killed.
LEMMA LeaderEnds ==
    ASSUME TeamInv, NEW m \in Team, pc[m] \in ServerStates,
           NEW label \in {"exited", "killed"}, pc' = [pc EXCEPT ![m] = label],
           file' = Nobody \/ (file' = file /\ crashes' > 0)
    PROVE  SocketFileOwned' /\ \A r \in Team : Leading(r)'
  <1>1. \A r \in Team : pc'[r] \notin ServerStates
    BY OneServer DEF TeamInv, Types, ServerStates
  <1>2. file' \in Team => crashes' > 0
    BY TeamAssumption DEF TeamInv, Types
  <1> QED BY <1>1, <1>2 DEF SocketFileOwned, Leading, Listening

\* A client that a master has accepted.
LEMMA MemberLed ==
    ASSUME TeamInv, NEW m \in Team, Listening(m), NEW c \in Members(robots[m]), c # m
    PROVE  /\ Led(m, c) /\ link[c] = m
           /\ Ended(c) \/ pc[c] \in Clients \ {"joining"}
  <1>1. PICK i \in 1 .. Len(robots[m]) : robots[m][i] = c
    BY DEF Members
  <1>2. i \in 2 .. Len(robots[m])
    BY <1>1 DEF TeamInv, Leading, Connected
  <1> QED BY <1>1, <1>2 DEF TeamInv, Leading, Connected

\* What a step of client c has to keep for its master m.
Follows(m, c) ==
    /\ link'[c] = m
    /\ Ended(c)' \/ pc'[c] \in Clients \ {"joining"}
    /\ Led(m, c)'
    /\ Gone(c) \/ Waiting(c) => Gone(c)' \/ Waiting(c)'

\* A step of process c that is no master.
Aside(c) ==
    /\ \A x \in Team \ {c} : Untouched(x) /\ link'[x] = link[x] /\ current'[x] = current[x]
    /\ robots' = robots /\ alive' = alive
    /\ \A x \in Team : coordinator'[x] = coordinator[x]
    /\ crashes' >= crashes

\* A step of a client keeps what its master knows of it.
LEMMA ClientMoves ==
    ASSUME TeamInv, NEW c \in Team, pc[c] \notin ServerStates,
           pc'[c] \notin ServerStates \ {"bound"},
           Aside(c), crashes' \in Nat,
           \A m \in Team \ {c} : Listening(m) =>
             Queued(m)' /\ (c \in Members(robots[m]) => Follows(m, c))
    PROVE  \A m \in Team : Leading(m)'
  <1> SUFFICES ASSUME NEW m \in Team, Listening(m)' PROVE
        Connected(m)' /\ Queued(m)' /\ Round(m)'
        /\ \A i \in 2 .. Len(robots'[m]) : Led(m, robots[m][i])'
    BY DEF Leading
  <1>1. m # c /\ Listening(m) /\ pc'[m] = pc[m] /\ robots'[m] = robots[m]
        /\ current'[m] = current[m]
    BY DEF Listening, Aside, Untouched
  <1>2. Connected(m) /\ Round(m) /\ Queued(m)'
    BY <1>1 DEF TeamInv, Leading
  <1>3. robots[m] \in Seq(Team) /\ alive \in [Team -> BOOLEAN] /\ crashes \in Nat
    BY DEF TeamInv, Types
  <1>4. ASSUME NEW i \in 1 .. Len(robots[m]), robots[m][i] = c
        PROVE  Follows(m, c)
    BY <1>1, <1>4 DEF Members
  <1>5. ASSUME NEW x \in Team \ {c}, Gone(x) \/ Waiting(x)
        PROVE  Gone(x)' \/ Waiting(x)'
    BY <1>3, <1>5 DEF Gone, Ended, Waiting, Aside, Untouched
  <1>6. Connected(m)'
    BY <1>1, <1>2, <1>3, <1>4 DEF Connected, Follows, Aside, Untouched, Ended
  <1>7. Round(m)'
    <2>1. Living(m, alive)' = Living(m, alive)
      BY <1>1 DEF Living, Aside
    <2>2. \A i \in Living(m, alive) : Gone(robots[m][i]) \/ Waiting(robots[m][i]) =>
                                      (Gone(robots[m][i]) \/ Waiting(robots[m][i]))'
      <3> SUFFICES ASSUME NEW i \in 1 .. Len(robots[m]),
                          Gone(robots[m][i]) \/ Waiting(robots[m][i])
          PROVE  (Gone(robots[m][i]) \/ Waiting(robots[m][i]))'
        BY DEF Living
      <3>1. robots[m][i] \in Team
        BY <1>3
      <3>2. CASE robots[m][i] = c
        BY <1>1, <1>4, <3>2 DEF Follows
      <3>3. CASE robots[m][i] # c
        BY <1>1, <1>5, <3>1, <3>3
      <3> QED BY <3>2, <3>3
    <2> QED BY <1>1, <1>2, <2>1, <2>2 DEF Round
  <1>8. ASSUME NEW i \in 2 .. Len(robots[m])
        PROVE  Led(m, robots[m][i])'
    <2>1. robots[m][i] \in Team /\ i \in 1 .. Len(robots[m])
      BY <1>3
    <2>2. CASE robots[m][i] = c
      BY <1>1, <1>4, <2>1, <2>2 DEF Follows
    <2>3. CASE robots[m][i] # c
      <3>1. Led(m, robots[m][i])
        BY <1>1 DEF TeamInv, Leading
      <3>2. Gone(robots[m][i]) => Gone(robots[m][i])'
        BY <1>3, <2>1, <2>3 DEF Gone, Ended, Aside, Untouched
      <3>3. InGame(m, robots[m][i])' <=> InGame(m, robots[m][i])
        BY <1>1, <2>1, <2>3 DEF InGame, Aside, Untouched
      <3>4. Waiting(robots[m][i])' <=> Waiting(robots[m][i])
        BY <1>1, <2>1, <2>3 DEF Waiting, Aside, Untouched
      <3> QED BY <1>1, <2>1, <2>3, <3>1, <3>2, <3>3, <3>4 DEF Led, Aside, Untouched
    <2> QED BY <2>2, <2>3
  <1> QED BY <1>1, <1>2, <1>6, <1>7, <1>8

\* A step of a client: what has to be shown of it.
LEMMA ClientStep ==
    ASSUME TeamInv, Types', NEW c \in Team, pc[c] \notin ServerStates,
           pc'[c] \notin ServerStates,
           Aside(c), file' = file, Own(c)',
           \A m \in Team \ {c} : Listening(m) =>
             Queued(m)' /\ (c \in Members(robots[m]) => Follows(m, c))
    PROVE  TeamInv'
  <1>1. crashes' \in Nat /\ crashes \in Nat
    BY DEF Types, TeamInv
  <1>2. SocketFileOwned'
    <2>1. \A r \in Team : pc'[r] \in ServerStates <=> pc[r] \in ServerStates
      BY DEF Aside, Untouched
    <2>2. crashes' = 0 => crashes = 0
      BY <1>1 DEF Aside
    <2> QED BY <2>1, <2>2, SocketKept
  <1>3. \A m \in Team : Leading(m)'
    BY <1>1, ClientMoves
  <1>4. ASSUME NEW r \in Team \ {c} PROVE Own(r)'
    <2>1. \A x \in Members(robots[r]) : x \in Team
      BY MembersAre DEF TeamInv, Types
    <2> QED BY <2>1, OwnKept DEF TeamInv, Aside
  <1> QED BY <1>2, <1>3, <1>4 DEF TeamInv

\* The queue of a master that client c is not in, or in which it is known to be gone.
LEMMA QueueKept ==
    ASSUME TeamInv, NEW c \in Team, Aside(c), crashes' \in Nat,
           NEW m \in Team \ {c}, Listening(m), backlog'[m] = backlog[m],
           \/ Gone(c)' /\ link'[c] = link[c]
           \/ pc[m] = "waiting" => c \notin Members(backlog[m])
    PROVE  Queued(m)'
  <1> SUFFICES ASSUME pc[m] = "waiting" PROVE Queued(m)'
    BY DEF Queued, Aside, Untouched
  <1>1. Queued(m) /\ backlog[m] \in Seq(Team) /\ crashes \in Nat
    BY DEF TeamInv, Types, Leading
  <1>2. ASSUME NEW i \in 1 .. Len(backlog[m])
        PROVE  /\ backlog[m][i] \notin Members(robots'[m]) /\ link'[backlog[m][i]] = m
               /\ Gone(backlog[m][i])' \/ (pc'[backlog[m][i]] = "greeting"
                                           /\ down'[backlog[m][i]] = <<>>)
    <2>1. backlog[m][i] \in Team /\ backlog[m][i] \in Members(backlog[m])
      BY <1>1 DEF Members
    <2>2. CASE backlog[m][i] = c
      BY <1>1, <2>1, <2>2 DEF Queued, Aside
    <2>3. CASE backlog[m][i] # c
      BY <1>1, <2>1, <2>3 DEF Queued, Aside, Untouched, Gone, Ended
    <2> QED BY <2>2, <2>3
  <1> QED BY <1>1, <1>2 DEF Queued

\* A process that runs and does not wait for its master's name is in no queue.
LEMMA NotQueued ==
    ASSUME TeamInv, NEW c \in Team, ~ Ended(c), pc[c] \notin ServerStates,
           pc[c] = "greeting" => down[c] # <<>> \/ Ended(link[c]),
           NEW m \in Team \ {c}, Listening(m), pc[m] = "waiting"
    PROVE  c \notin Members(backlog[m])
  <1>1. Queued(m)
    BY DEF TeamInv, Leading
  <1>2. ~ Ended(m)
    BY DEF Ended
  <1> QED BY <1>1, <1>2 DEF Queued, Members, Gone

\* The end of a process that is no master: by itself, or from outside.
LEMMA ClientEnds ==
    ASSUME TeamInv, Types', NEW c \in Team, pc[c] \notin ServerStates, ~ Ended(c),
           NEW label \in {"exited", "killed"}, pc' = [pc EXCEPT ![c] = label],
           backlog' = [backlog EXCEPT ![c] = <<>>], file' = file, link' = link,
           up' = up, down' = down, Aside(c), Paired(stdin[c])',
           crashes' > 0 \/ Ended(link[c]) \/ pc[c] \notin {"tips", "greeting"}
    PROVE  TeamInv'
  <1>1. pc \in [Team -> Labels] /\ backlog \in [Team -> Seq(Team)]
        /\ crashes \in Nat /\ crashes' \in Nat /\ up \in [Team -> Seq([hits : Nat, dead : BOOLEAN])]
    BY DEF TeamInv, Types
  <1>2. Ended(c)' /\ pc'[c] \notin ServerStates /\ pc'[c] \notin Clients
    BY <1>1 DEF Ended, ServerStates, Clients
  <1>3. Own(c)'
    BY <1>2, OwnEnded DEF TeamInv
  <1>4. ASSUME NEW m \in Team \ {c}, Listening(m) PROVE Queued(m)'
    <2>1. backlog'[m] = backlog[m]
      BY <1>1
    <2>2. CASE crashes' > 0
      BY <1>1, <1>2, <1>4, <2>1, <2>2, QueueKept DEF Gone
    <2>3. CASE Ended(link[c]) \/ pc[c] \notin {"tips", "greeting"}
      <3>1. pc[m] = "waiting" => c \notin Members(backlog[m])
        BY <1>4, <2>3, NotQueued
      <3> QED BY <1>1, <1>4, <2>1, <3>1, QueueKept
    <2> QED BY <2>2, <2>3
  <1>5. ASSUME NEW m \in Team \ {c}, Listening(m), c \in Members(robots[m])
        PROVE  Follows(m, c)
    <2>1. Led(m, c) /\ link[c] = m
      BY <1>5, MemberLed
    <2>2. crashes' > 0 \/ pc[c] # "tips"
      BY <1>5, <2>1 DEF Ended, Listening, ServerStates
    <2>3. Gone(c) \/ Waiting(c) => Gone(c)'
      BY <1>2, <2>2 DEF Gone, Waiting
    <2>4. Led(m, c)'
      BY <1>2, <2>1, <2>2 DEF Led, Gone, Waiting, Clients
    <2> QED BY <1>2, <2>1, <2>3, <2>4 DEF Follows
  <1> QED BY <1>2, <1>3, <1>4, <1>5, ClientStep
-----------------------------------------------------------------------------
(***************************************************************************)
(* The steps of a client.                                                  *)
(***************************************************************************)
\* Reading a line leaves the lines behind it as they were sent.
LEMMA ReadsLine ==
    ASSUME TeamInv, NEW r \in Team, stdin[r] # <<>>, stdin' = [stdin EXCEPT ![r] = Tail(@)]
    PROVE  /\ stdin' \in [Team -> Seq(Messages)]
           /\ Paired(stdin'[r])
           /\ stdin'[r] # <<>> /\ stdin'[r][1] = "Absolute" => Head(stdin[r]) = "GameStarts"
           /\ \A x \in Team \ {r} : stdin'[x] = stdin[x]
  <1>1. stdin \in [Team -> Seq(Messages)] /\ stdin'[r] = Tail(stdin[r])
    BY DEF TeamInv, Types
  <1>2. Tail(stdin[r]) \in Seq(Messages) /\ Head(stdin[r]) = stdin[r][1]
    BY <1>1, TailIs
  <1>3. Paired(stdin[r])
    BY DEF TeamInv, Own, Announced
  <1> QED BY <1>1, <1>2, <1>3, PairedTail

\* The name is free: the process becomes the master.
LEMMA BindStep == ASSUME TeamInv, NEW r \in Team, Bind(r) PROVE TeamInv'
  <1>1. Types'
    BY DEF Bind, TeamInv, Types, Labels, ServerStates, master, player, outside
  <1>2. pc \in [Team -> Labels] /\ pc' = [pc EXCEPT ![r] = "bound"] /\ file' = r
        /\ \A x \in Team : pc[x] \notin ServerStates
    BY TeamAssumption DEF Bind, TeamInv, Types, SocketFileOwned
  <1>3. SocketFileOwned'
    BY <1>2, TeamAssumption DEF SocketFileOwned, ServerStates
  <1>4. \A m \in Team : Leading(m)'
    BY <1>2 DEF Leading, Listening
  <1>5. Own(r)'
    <2>1. Own(r) /\ pc[r] = "new"
      BY DEF TeamInv, Bind
    <2>2. Announced(r)'
      BY <1>2, <2>1 DEF Own, Announced, Bind, Ended, InMainLoop
    <2>3. Starting(r)'
      BY <1>2, <2>1 DEF Own, Starting, Bind, master, player
    <2>4. Obedient(r)'
      BY <1>2, <2>1 DEF Own, Obedient, Bind, master, player
    <2>5. OwnRobot(r)'
      <3>1. coordinator'[r] = [rotate |-> FALSE, tips |-> <<>>] /\ hits'[r] = 0
            /\ ordered'[r] = FALSE /\ struck'[r] = FALSE
        BY <1>2, <2>1 DEF Own, Starting, Bind, NewCoordinator, master, player
      <3>2. coordinator'[r] \in Coordinators
        BY <3>1 DEF Coordinators
      <3> QED BY <3>1, <3>2 DEF OwnRobot, Obeyed
    <2> QED BY <2>2, <2>3, <2>4, <2>5 DEF Own
  <1>6. ASSUME NEW x \in Team \ {r} PROVE Own(x)'
    BY <1>2, OwnKept DEF TeamInv, Untouched, Bind, master, player
  <1> QED BY <1>1, <1>3, <1>4, <1>5, <1>6 DEF TeamInv

\* The name is taken: the process becomes a client.
LEMMA BindFailsStep == ASSUME TeamInv, NEW r \in Team, BindFails(r) PROVE TeamInv'
  <1>1. Types'
    BY DEF BindFails, Goto, TeamInv, Types, Labels, Clients, master, player, outside, startup
  <1>2. pc \in [Team -> Labels] /\ pc' = [pc EXCEPT ![r] = "joining"] /\ pc[r] = "new"
    BY DEF BindFails, Goto, TeamInv, Types
  <1>3. Own(r)'
    <2>1. Own(r)
      BY DEF TeamInv
    <2> QED BY <1>2, <2>1 DEF Own, Announced, Starting, Obedient, OwnRobot, BindFails, Ended,
                  InMainLoop, ServerStates, Clients, master, player
  <1>4. Aside(r) /\ file' = file /\ backlog' = backlog /\ crashes' \in Nat
    BY <1>2 DEF Aside, Untouched, BindFails, Goto, TeamInv, Types, master, player, outside,
                startup
  <1>5. ASSUME NEW m \in Team \ {r}, Listening(m)
        PROVE  Queued(m)' /\ r \notin Members(robots[m])
    <2>1. r \notin Members(robots[m])
      BY <1>2, <1>5, MemberLed DEF Ended, Clients
    <2>2. pc[m] = "waiting" => r \notin Members(backlog[m])
      BY <1>2, <1>5, NotQueued DEF Ended, ServerStates
    <2> QED BY <1>4, <1>5, <2>1, <2>2, QueueKept
  <1> QED BY <1>1, <1>2, <1>3, <1>4, <1>5, ClientStep DEF ServerStates

\* A client connects to the master, or fails to.
LEMMA ConnectStep == ASSUME TeamInv, NEW r \in Team, Connect(r) PROVE TeamInv'
  <1>0. pc \in [Team -> Labels] /\ pc[r] = "joining" /\ Own(r)
    BY DEF Connect, TeamInv, Types
  <1>1. CASE Listening(file) /\ pc' = [pc EXCEPT ![r] = "greeting"]
             /\ link' = [link EXCEPT ![r] = file]
             /\ backlog' = [backlog EXCEPT ![file] = Append(@, r)] /\ UNCHANGED file
    <2>1. Types'
      BY <1>1 DEF Connect, Listening, TeamInv, Types, Labels, Clients, master, player, outside
    <2>2. Own(r)'
      BY <1>0, <1>1 DEF Own, Announced, Starting, Obedient, OwnRobot, Connect, Ended,
                    InMainLoop, ServerStates, Clients, master, player
    <2>3. Aside(r) /\ crashes' \in Nat
      BY <1>0, <1>1 DEF Aside, Untouched, Connect, TeamInv, Types, master, player, outside
    <2>4. ASSUME NEW m \in Team \ {r}, Listening(m)
          PROVE  Queued(m)' /\ r \notin Members(robots[m])
      <3>1. r \notin Members(robots[m])
        BY <1>0, <2>4, MemberLed DEF Ended, Clients
      <3>2. m = file
        BY <1>1, <2>4 DEF TeamInv, SocketFileOwned, Listening
      <3> SUFFICES ASSUME pc[m] = "waiting" PROVE Queued(m)'
        BY <2>3, <3>1 DEF Queued, Aside, Untouched
      <3>3. r \notin Members(backlog[m])
        BY <1>0, <2>4, NotQueued DEF Ended, ServerStates
      <3>4. backlog[m] \in Seq(Team) /\ backlog'[m] = Append(backlog[m], r)
        BY <1>1, <3>2 DEF TeamInv, Types
      <3>5. down'[r] = <<>> /\ pc'[r] = "greeting" /\ link'[r] = m /\ robots'[m] = robots[m]
        BY <1>0, <1>1, <3>2, <2>3 DEF Own, Starting, Connect, TeamInv, Types, Aside
      <3>6. Queued(m) /\ crashes \in Nat
        BY <2>4 DEF TeamInv, Leading, Types
      <3>7. ASSUME NEW i \in 1 .. Len(backlog[m])
            PROVE  /\ backlog[m][i] \in Team \ {r} /\ backlog'[m][i] = backlog[m][i]
                   /\ backlog[m][i] \notin Members(robots'[m]) /\ link'[backlog[m][i]] = m
                   /\ Gone(backlog[m][i])' \/ (pc'[backlog[m][i]] = "greeting"
                                               /\ down'[backlog[m][i]] = <<>>)
        <4>1. backlog[m][i] \in Team /\ backlog[m][i] # r /\ backlog'[m][i] = backlog[m][i]
          BY <3>3, <3>4, AppendIs DEF Members
        <4> QED BY <4>1, <3>5, <3>6, <2>3 DEF Queued, Aside, Untouched, Gone, Ended
      <3>8. Len(backlog'[m]) = Len(backlog[m]) + 1 /\ Len(backlog[m]) \in Nat
            /\ backlog'[m][Len(backlog[m]) + 1] = r
        BY <3>4, AppendIs
      <3>9. \A i \in 1 .. Len(backlog'[m]) : i \in 1 .. Len(backlog[m]) \/ i = Len(backlog[m]) + 1
        BY <3>8
      <3>10. \A i, j \in 1 .. Len(backlog'[m]) : backlog'[m][i] = backlog'[m][j] => i = j
        BY <3>6, <3>7, <3>8, <3>9 DEF Queued
      <3> QED BY <3>1, <3>5, <3>7, <3>8, <3>9, <3>10 DEF Queued
    <2> QED BY <1>0, <1>1, <2>1, <2>2, <2>3, <2>4, ClientStep DEF ServerStates
  <1>2. CASE ~ Listening(file) /\ Exit(r)
    <2>1. Types'
      BY <1>2 DEF Connect, Exit, TeamInv, Types, Labels, master, player, outside
    <2>2. file' = file /\ Aside(r)
      BY <1>0, <1>2 DEF Exit, ServerStates, Aside, Untouched, Connect, TeamInv, Types, master,
                        player, outside
    <2> QED BY <1>0, <1>2, <2>1, <2>2, ClientEnds DEF Connect, Exit, ServerStates, Ended, Own,
               Announced
  <1> QED BY <1>1, <1>2 DEF Connect

\* A client reads the master's name, or the end of the connection.
LEMMA GreetStep == ASSUME TeamInv, NEW c \in Team, Greet(c) PROVE TeamInv'
  <1>0. pc \in [Team -> Labels] /\ pc[c] = "greeting" /\ Own(c)
        /\ down \in [Team -> Seq(Seq(Lines))]
    BY DEF Greet, TeamInv, Types
  <1>1. CASE down[c] # <<>> /\ down' = [down EXCEPT ![c] = Tail(@)] /\ Goto(c, "playing")
    <2>1. down'[c] = <<>> /\ pc' = [pc EXCEPT ![c] = "playing"]
      BY <1>0, <1>1, ShortIs DEF Own, Obedient, Goto
    <2>2. Types'
      BY <1>1 DEF Greet, Goto, TeamInv, Types, Labels, Clients, master, player, outside,
                  startup
    <2>3. Own(c)'
      BY <1>0, <1>1, <2>1 DEF Own, Announced, Starting, Obedient, OwnRobot, Greet, Goto, Ended,
                  InMainLoop, ServerStates, Clients, master, player
    <2>4. Aside(c) /\ file' = file /\ link' = link /\ backlog' = backlog /\ crashes' \in Nat
      BY <1>0, <1>1 DEF Aside, Untouched, Greet, Goto, TeamInv, Types, master, player, outside,
                        startup
    <2>5. ASSUME NEW m \in Team \ {c}, Listening(m) PROVE Queued(m)'
      <3>1. pc[m] = "waiting" => c \notin Members(backlog[m])
        BY <1>0, <1>1, <2>5, NotQueued DEF Ended, ServerStates
      <3> QED BY <2>4, <2>5, <3>1, QueueKept
    <2>6. ASSUME NEW m \in Team \ {c}, Listening(m), c \in Members(robots[m])
          PROVE  Follows(m, c)
      <3>1. Led(m, c) /\ link[c] = m
        BY <2>6, MemberLed
      <3>2. up'[c] = <<>> /\ up[c] = <<>> /\ coordinator'[c] = coordinator[c] /\ alive' = alive
            /\ pc'[m] = pc[m] /\ pc'[c] = "playing"
        BY <1>0, <2>1, <2>4 DEF Own, Starting, Greet, Aside, Untouched
      <3>3. InGame(m, c)' => InGame(m, c)
        BY <3>2 DEF InGame
      <3>4. Led(m, c)'
        BY <1>0, <3>1, <3>2, <3>3 DEF Led, Waiting
      <3> QED BY <1>0, <2>4, <3>1, <3>2, <3>4 DEF Follows, Clients, Gone, Waiting, Ended
    <2> QED BY <1>0, <2>1, <2>2, <2>3, <2>4, <2>5, <2>6, ClientStep DEF ServerStates
  <1>2. CASE down[c] = <<>> /\ Ended(link[c]) /\ Exit(c) /\ UNCHANGED down
    <2>1. Types'
      BY <1>2 DEF Greet, Exit, TeamInv, Types, Labels, master, player, outside
    <2>2. file' = file /\ Aside(c)
      BY <1>0, <1>2 DEF Exit, ServerStates, Aside, Untouched, Greet, TeamInv, Types, master,
                        player, outside
    <2> QED BY <1>0, <1>2, <2>1, <2>2, ClientEnds DEF Greet, Exit, ServerStates, Ended, Own,
               Announced
  <1> QED BY <1>1, <1>2 DEF Greet

\* A client obeys the tips of a round.
LEMMA ReadTipsStep == ASSUME TeamInv, NEW c \in Team, ReadTips(c) PROVE TeamInv'
  <1>0. pc \in [Team -> Labels] /\ pc[c] = "tips" /\ Own(c)
        /\ down \in [Team -> Seq(Seq(Lines))] /\ ordered \in [Team -> BOOLEAN]
        /\ struck \in [Team -> BOOLEAN]
    BY DEF ReadTips, TeamInv, Types
  <1>1. CASE /\ down[c] # <<>>
             /\ ordered' = [ordered EXCEPT ![c] = Obeyed(@, Head(down[c]))]
             /\ down' = [down EXCEPT ![c] = Tail(@)]
             /\ Goto(c, "round")
    <2>1. down'[c] = <<>> /\ pc' = [pc EXCEPT ![c] = "round"]
      BY <1>0, <1>1, ShortIs DEF Own, Obedient, Goto
    <2>2. Obeyed(ordered[c], Head(down[c])) = struck[c]
      <3>1. Obeyed(ordered[c], Head(down[c])) \in BOOLEAN
        BY <1>0 DEF Obeyed
      <3>2. struck[c] \in BOOLEAN
        BY <1>0
      <3> QED BY <1>0, <1>1, <3>1, <3>2 DEF Own, Obedient
    <2>3. ordered'[c] = struck[c] /\ hits'[c] = 0 /\ struck'[c] = struck[c]
          /\ ordered' \in [Team -> BOOLEAN]
      BY <1>0, <1>1, <2>2 DEF Own, Obedient, ReadTips
    <2>4. Types'
      BY <1>1, <2>3 DEF ReadTips, Goto, TeamInv, Types, Labels, Clients, master, outside,
                  startup
    <2>5. Own(c)'
      <3>1. struck'[c] <=> Turned(ordered'[c], hits'[c])
        BY <1>0, <2>3, TurnedAgain
      <3> QED BY <1>0, <1>1, <2>1, <2>3, <3>1 DEF Own, Announced, Starting, Obedient, OwnRobot,
                  ReadTips, Ended, InMainLoop, ServerStates, Clients, master
    <2>6. Aside(c) /\ file' = file /\ link' = link /\ backlog' = backlog /\ crashes' \in Nat
      BY <1>0, <1>1 DEF Aside, Untouched, ReadTips, Goto, TeamInv, Types, master, outside,
                        startup
    <2>7. ASSUME NEW m \in Team \ {c}, Listening(m) PROVE Queued(m)'
      <3>1. pc[m] = "waiting" => c \notin Members(backlog[m])
        BY <1>0, <2>7, NotQueued DEF Ended, ServerStates
      <3> QED BY <2>6, <2>7, <3>1, QueueKept
    <2>8. ASSUME NEW m \in Team \ {c}, Listening(m), c \in Members(robots[m])
          PROVE  Follows(m, c)
      <3>1. Led(m, c) /\ link[c] = m
        BY <2>8, MemberLed
      <3>2. up'[c] = up[c] /\ coordinator'[c] = coordinator[c] /\ alive' = alive
            /\ pc'[m] = pc[m] /\ pc'[c] = "round"
        BY <1>0, <2>1, <2>6 DEF ReadTips, Aside, Untouched
      <3>3. up[c] = <<>> /\ InGame(m, c) /\ coordinator[c] = [rotate |-> struck[c], tips |-> <<>>]
        BY <1>0, <1>1, <3>1 DEF Led
      <3>4. InGame(m, c)'
        BY <3>2, <3>3 DEF InGame
      <3>5. Led(m, c)'
        BY <2>1, <2>3, <3>2, <3>3, <3>4 DEF Led, Waiting
      <3> QED BY <1>0, <1>1, <2>6, <3>1, <3>2, <3>5 DEF Follows, Clients, Gone, Waiting, Ended
    <2> QED BY <1>0, <2>1, <2>4, <2>5, <2>6, <2>7, <2>8, ClientStep DEF ServerStates
  <1>2. CASE down[c] = <<>> /\ Ended(link[c]) /\ Exit(c) /\ UNCHANGED <<ordered, down>>
    <2>1. Types'
      <3>1. pc' \in [Team -> Labels] /\ backlog' \in [Team -> Seq(Team)] /\ link' = link
            /\ file' \in Team \cup {Nobody}
        BY <1>2 DEF Exit, TeamInv, Types, Labels
      <3>2. UNCHANGED <<stdin, robots, alive, current, coordinator, up, down, hits, ordered,
                        struck, crashes>>
        BY <1>2 DEF ReadTips, master, outside
      <3> QED BY <3>1, <3>2 DEF TeamInv, Types
    <2>2. file' = file /\ Aside(c)
      BY <1>0, <1>2 DEF Exit, ServerStates, Aside, Untouched, ReadTips, TeamInv, Types, master,
                        outside
    <2> QED BY <1>0, <1>2, <2>1, <2>2, ClientEnds DEF ReadTips, Exit, ServerStates, Ended, Own,
               Announced
  <1> QED BY <1>1, <1>2 DEF ReadTips

\* In a round a client has no report of this game on the way.
LEMMA OnlyDeadReports ==
    ASSUME TeamInv, NEW m \in Team, Listening(m), NEW c \in Members(robots[m]), c \in Team,
           c # m, ~ Ended(c), pc[c] # "tips"
    PROVE  \A i \in 1 .. Len(up[c]) : up[c][i].dead
  <1>1. Led(m, c)
    BY MemberLed
  <1>2. up[c] \in Seq([hits : Nat, dead : BOOLEAN])
    BY DEF TeamInv, Types
  <1>3. up[c] # <<>> => up[c][Len(up[c])].dead
    BY <1>1 DEF Led, Gone
  <1>4. \A i \in 1 .. Len(up[c]) - 1 : up[c][i].dead
    BY <1>1 DEF Led
  <1>5. Len(up[c]) \in Nat /\ (Len(up[c]) # 0 => up[c] # <<>>)
    BY <1>2
  <1>6. \A i \in 1 .. Len(up[c]) : i \in 1 .. Len(up[c]) - 1 \/ i = Len(up[c])
    BY <1>5
  <1> QED BY <1>3, <1>4, <1>5, <1>6

\* A client reads a line from the engine in a game.
LEMMA ReadRoundStep == ASSUME TeamInv, NEW c \in Team, ReadRound(c) PROVE TeamInv'
  <1>0. /\ pc \in [Team -> Labels] /\ pc[c] = "round" /\ Own(c) /\ stdin[c] # <<>>
        /\ stdin' = [stdin EXCEPT ![c] = Tail(@)] /\ UNCHANGED <<master, down, outside>>
        /\ hits \in [Team -> Nat] /\ struck \in [Team -> BOOLEAN] /\ ordered \in [Team -> BOOLEAN]
        /\ up \in [Team -> Seq([hits : Nat, dead : BOOLEAN])]
    BY DEF ReadRound, TeamInv, Types
  <1>r. /\ stdin' \in [Team -> Seq(Messages)]
        /\ Paired(stdin'[c])
        /\ stdin'[c] # <<>> /\ stdin'[c][1] = "Absolute" => Head(stdin[c]) = "GameStarts"
        /\ \A x \in Team \ {c} : stdin'[x] = stdin[x]
    BY <1>0, ReadsLine
  <1>q. ASSUME NEW m \in Team \ {c}, Listening(m), pc[m] = "waiting"
        PROVE  c \notin Members(backlog[m])
    BY <1>0, <1>q, NotQueued DEF Ended, ServerStates
  <1>1. CASE Head(stdin[c]) = "Collision" /\ Collide(c) /\ UNCHANGED <<pc, startup, up>>
    <2>1. /\ hits'[c] = hits[c] + 1 /\ ordered' = ordered /\ hits' \in [Team -> Nat]
          /\ struck'[c] = ~ struck[c] /\ struck' \in [Team -> BOOLEAN]
      BY <1>0, <1>1 DEF Collide
    <2>2. Types'
      BY <1>0, <1>1, <1>r, <2>1 DEF TeamInv, Types, master, outside, startup
    <2>3. Own(c)'
      <3>1. struck'[c] <=> Turned(ordered'[c], hits'[c])
        <4>1. Turned(ordered[c], hits[c] + 1) = ~ Turned(ordered[c], hits[c])
          <5>1. ordered[c] \in BOOLEAN /\ hits[c] \in Nat
            BY <1>0
          <5> QED BY <5>1, TurnedAgain
        <4>2. struck[c] <=> Turned(ordered[c], hits[c])
          BY <1>0 DEF Own, Obedient
        <4> QED BY <2>1, <4>1, <4>2
      <3> QED BY <1>0, <1>1, <1>r, <3>1 DEF Own, Announced, Starting, Obedient, OwnRobot,
                 ServerStates, Clients, master
    <2>4. Aside(c) /\ file' = file /\ link' = link /\ backlog' = backlog /\ crashes' \in Nat
      BY <1>0, <1>1, <1>r DEF Aside, Untouched, Collide, TeamInv, Types, master, outside, startup
    <2>5. ASSUME NEW m \in Team \ {c}, Listening(m), c \in Members(robots[m])
          PROVE  Follows(m, c)
      <3>1. Led(m, c) /\ link[c] = m
        BY <2>5, MemberLed
      <3>2. up'[c] = up[c] /\ down'[c] = down[c] /\ coordinator' = coordinator /\ alive' = alive
            /\ pc' = pc /\ ordered'[c] = ordered[c]
        BY <1>0, <1>1, <2>1 DEF master
      <3>3. InGame(m, c)' <=> InGame(m, c)
        BY <3>2 DEF InGame
      <3>4. Led(m, c)'
        BY <1>0, <3>1, <3>2, <3>3 DEF Led, Waiting, Gone, Ended
      <3> QED BY <1>0, <2>4, <3>1, <3>2, <3>4 DEF Follows, Clients, Gone, Waiting, Ended
    <2> QED BY <1>0, <1>1, <1>q, <2>2, <2>3, <2>4, <2>5, QueueKept, ClientStep DEF ServerStates
  <1>2. CASE Head(stdin[c]) \in {"Energy", "Dead"}
             /\ Report(c, Head(stdin[c]) = "Dead", AfterReport(Head(stdin[c]) = "Dead"))
    <2> DEFINE dead == Head(stdin[c]) = "Dead"
    <2>0. hits' = [hits EXCEPT ![c] = 0] /\ hits' \in [Team -> Nat] /\ ordered' = ordered
          /\ struck' = struck
      BY <1>0, <1>2 DEF Report
    <2>1. CASE Ended(link[c])
      <3>1. Killed(c) /\ up' = up
        BY <1>2, <2>1 DEF Report
      <3>2. Types'
        BY <1>0, <1>r, <2>0, <3>1 DEF Killed, TeamInv, Types, Labels, master, outside
      <3>3. file' = file /\ Aside(c)
        BY <1>0, <1>r, <2>0, <3>1 DEF Killed, Aside, Untouched, TeamInv, Types, master, outside
      <3> QED BY <1>0, <1>r, <2>1, <3>1, <3>2, <3>3, ClientEnds DEF Killed, ServerStates, Ended
    <2>2. CASE ~ Ended(link[c])
      <3> DEFINE report == [hits |-> hits[c], dead |-> dead]
                 label  == IF dead THEN "playing" ELSE "tips"
      <3>1. /\ pc' = [pc EXCEPT ![c] = label]
            /\ UNCHANGED startup /\ up' = [up EXCEPT ![c] = Append(@, report)]
        BY <1>2, <2>2 DEF Report, Goto, AfterReport
      <3>2. report \in [hits : Nat, dead : BOOLEAN]
        BY <1>0
      <3>3. /\ up'[c] = Append(up[c], report) /\ up' \in [Team -> Seq([hits : Nat, dead : BOOLEAN])]
            /\ Len(up'[c]) = Len(up[c]) + 1 /\ Len(up[c]) \in Nat /\ up'[c] # <<>>
            /\ \A i \in 1 .. Len(up[c]) : up'[c][i] = up[c][i]
            /\ up'[c][Len(up[c]) + 1] = report
        <4> HIDE DEF report
        <4>1. up'[c] = Append(up[c], report)
          BY <1>0, <3>1
        <4>2. up[c] \in Seq([hits : Nat, dead : BOOLEAN])
          BY <1>0
        <4>3. /\ Append(up[c], report) \in Seq([hits : Nat, dead : BOOLEAN])
              /\ Len(Append(up[c], report)) = Len(up[c]) + 1 /\ Len(up[c]) \in Nat
              /\ Append(up[c], report) # <<>>
              /\ \A i \in 1 .. Len(up[c]) : Append(up[c], report)[i] = up[c][i]
              /\ Append(up[c], report)[Len(up[c]) + 1] = report
          BY <3>2, <4>2, AppendIs
        <4> QED BY <1>0, <3>1, <4>1, <4>3
      <3>4. pc'[c] = label
        BY <1>0, <3>1
      <3>5. Types'
        <4>1. pc' \in [Team -> Labels]
          BY <1>0, <3>1 DEF Labels, Clients
        <4> QED BY <1>0, <1>r, <2>0, <3>1, <3>3, <4>1 DEF TeamInv, Types, master, outside, startup
      <3>6. Own(c)'
        BY <1>0, <1>2, <1>r, <2>0, <3>1, <3>4 DEF Own, Announced, Starting, Obedient, OwnRobot,
           ServerStates, Clients, master
      <3>7. Aside(c) /\ file' = file /\ link' = link /\ backlog' = backlog /\ crashes' \in Nat
        <4> HIDE DEF label, report
        <4> QED BY <1>0, <1>r, <2>0, <3>1 DEF Aside, Untouched, TeamInv, Types, master, outside,
                   startup
      <3>8. ASSUME NEW m \in Team \ {c}, Listening(m), c \in Members(robots[m])
            PROVE  Follows(m, c)
        <4>1. Led(m, c) /\ link[c] = m
          BY <3>8, MemberLed
        <4>2. \A i \in 1 .. Len(up[c]) : up[c][i].dead
          BY <1>0, <3>8, OnlyDeadReports DEF Ended
        <4>3. \A i \in 1 .. Len(up'[c]) - 1 : up'[c][i].dead
          BY <3>3, <4>2
        <4>4. down'[c] = <<>> /\ pc'[m] = pc[m] /\ alive' = alive
              /\ coordinator'[c] = coordinator[c] /\ ordered'[c] = ordered[c]
              /\ struck'[c] = struck[c]
          BY <1>0, <2>0, <3>7 DEF Own, Obedient, Aside, Untouched
        <4>5. struck[c] <=> Turned(ordered[c], hits[c])
          BY <1>0 DEF Own, Obedient
        <4>6. up'[c][Len(up'[c])] = report
          BY <3>3
        <4>7. CASE dead
          <5>1. ~ InGame(m, c)'
            BY <3>3, <4>7 DEF InGame
          <5>2. pc'[c] = "playing" /\ report.dead
            BY <3>4, <4>7
          <5>3. Led(m, c)'
            BY <4>3, <4>4, <4>6, <5>1, <5>2 DEF Led, Waiting
          <5> QED BY <1>0, <3>7, <4>1, <5>2, <5>3 DEF Follows, Waiting, Gone, Ended, Clients
        <4>8. CASE ~ dead
          <5>1. InGame(m, c)' <=> InGame(m, c)
            <6>1. (\A i \in 1 .. Len(up'[c]) : ~ up'[c][i].dead)
                    <=> (\A i \in 1 .. Len(up[c]) : ~ up[c][i].dead)
              <7>1. \A i \in 1 .. Len(up'[c]) : i \in 1 .. Len(up[c]) \/ i = Len(up[c]) + 1
                BY <3>3
              <7>2. 1 .. Len(up[c]) \subseteq 1 .. Len(up'[c])
                BY <3>3
              <7>3. ~ up'[c][Len(up[c]) + 1].dead
                BY <3>3, <4>8
              <7> QED BY <3>3, <7>1, <7>2, <7>3
            <6> QED BY <4>4, <6>1 DEF InGame
          <5>2. pc'[c] = "tips"
            BY <3>4, <4>8
          <5>r. report.dead = FALSE /\ report.hits = hits[c]
            BY <4>8
          <5>3. Led(m, c)'
            <6> HIDE DEF report, dead
            <6> QED BY <1>0, <3>3, <4>1, <4>3, <4>4, <4>5, <4>6, <5>1, <5>2, <5>r DEF Led, Waiting
          <5> QED BY <1>0, <3>7, <4>1, <5>2, <5>3 DEF Follows, Waiting, Gone, Ended, Clients
        <4> QED BY <4>7, <4>8
      <3>9. pc'[c] \notin ServerStates
        BY <3>4 DEF ServerStates
      <3> QED BY <1>0, <1>q, <3>5, <3>6, <3>7, <3>8, <3>9, QueueKept, ClientStep DEF ServerStates
    <2> QED BY <2>1, <2>2
  <1>3. CASE Head(stdin[c]) \notin {"Collision", "Energy", "Dead"} /\ Exit(c)
             /\ UNCHANGED <<up, player>>
    <2>1. file' = file /\ Aside(c) /\ pc' \in [Team -> Labels] /\ link' = link
          /\ backlog' = [backlog EXCEPT ![c] = <<>>]
      BY <1>0, <1>3, <1>r DEF Exit, ServerStates, Aside, Untouched, Labels, TeamInv, Types,
                              master, player, outside
    <2>2. Types'
      BY <1>0, <1>3, <1>r, <2>1 DEF TeamInv, Types, master, player, outside
    <2> QED BY <1>0, <1>3, <1>r, <2>1, <2>2, ClientEnds DEF Exit, ServerStates, Ended
  <1> QED BY <1>1, <1>2, <1>3 DEF ReadRound

\* A client reads a line from the engine outside of a game.
LEMMA ClientCommandStep ==
    ASSUME TeamInv, NEW c \in Team, ReadCommand(c), pc[c] = "playing"
    PROVE  TeamInv'
  <1>0. /\ pc \in [Team -> Labels] /\ Own(c) /\ stdin[c] # <<>>
        /\ stdin' = [stdin EXCEPT ![c] = Tail(@)] /\ UNCHANGED <<robots, up, down, outside>>
        /\ hits \in [Team -> Nat] /\ struck \in [Team -> BOOLEAN] /\ ordered \in [Team -> BOOLEAN]
        /\ alive \in [Team -> BOOLEAN]
    BY DEF ReadCommand, TeamInv, Types
  <1>r. /\ stdin' \in [Team -> Seq(Messages)]
        /\ Paired(stdin'[c])
        /\ stdin'[c] # <<>> /\ stdin'[c][1] = "Absolute" => Head(stdin[c]) = "GameStarts"
        /\ \A x \in Team \ {c} : stdin'[x] = stdin[x]
    BY <1>0, ReadsLine
  <1>n. Members(robots[c]) = {} /\ robots'[c] = <<>>
    BY <1>0 DEF Own, Starting, Clients, Members
  <1>q. ASSUME NEW m \in Team \ {c}, Listening(m), pc[m] = "waiting"
        PROVE  c \notin Members(backlog[m])
    BY <1>q, NotQueued DEF Ended, ServerStates
  <1>l. ASSUME NEW m \in Team \ {c}, Listening(m), c \in Members(robots[m])
        PROVE  Led(m, c) /\ link[c] = m /\ (up[c] # <<>> => up[c][Len(up[c])].dead)
    BY <1>l, MemberLed DEF Led, Gone, Ended
  <1>1. CASE /\ Head(stdin[c]) = "GameStarts"
             /\ UNCHANGED <<pc, startup, alive, current>>
             /\ coordinator' = [x \in Team |-> IF x \in Members(robots[c])
                                               THEN Reset(coordinator[x])
                                               ELSE coordinator[x]]
             /\ hits' = [hits EXCEPT ![c] = 0]
             /\ ordered' = [ordered EXCEPT ![c] = FALSE]
             /\ struck' = [struck EXCEPT ![c] = FALSE]
    <2>1. /\ hits'[c] = 0 /\ ordered'[c] = FALSE /\ struck'[c] = FALSE
          /\ hits' \in [Team -> Nat] /\ ordered' \in [Team -> BOOLEAN]
          /\ struck' \in [Team -> BOOLEAN]
          /\ DOMAIN coordinator' = Team /\ \A x \in Team : coordinator'[x] = coordinator[x]
      BY <1>0, <1>1, <1>n
    <2>2. Types'
      BY <1>0, <1>1, <1>r, <2>1 DEF TeamInv, Types, outside, startup
    <2>3. Own(c)'
      <3>1. Announced(c)'
        BY <1>0, <1>1, <1>r, <1>n, <2>1 DEF Announced, InMainLoop, Fresh, Members
      <3> QED BY <1>0, <1>1, <1>r, <2>1, <3>1 DEF Own, Starting, Obedient, OwnRobot,
                 ServerStates, Clients
    <2>4. Aside(c) /\ file' = file /\ link' = link /\ backlog' = backlog /\ crashes' \in Nat
      BY <1>0, <1>1, <1>r, <2>1 DEF Aside, Untouched, TeamInv, Types, outside, startup
    <2>5. ASSUME NEW m \in Team \ {c}, Listening(m), c \in Members(robots[m])
          PROVE  Follows(m, c)
      <3>1. Led(m, c) /\ link[c] = m /\ (up[c] # <<>> => up[c][Len(up[c])].dead)
        BY <1>l, <2>5
      <3>2. InGame(m, c)' <=> InGame(m, c)
        BY <1>0, <1>1 DEF InGame
      <3>3. Led(m, c)'
        BY <1>0, <1>1, <2>1, <3>1, <3>2 DEF Led, Waiting
      <3> QED BY <1>0, <1>1, <2>4, <3>1, <3>3 DEF Follows, Clients, Gone, Waiting, Ended
    <2> QED BY <1>0, <1>1, <1>q, <2>2, <2>3, <2>4, <2>5, QueueKept, ClientStep DEF ServerStates
  <1>2. CASE /\ Head(stdin[c]) \in {"GameFinishes", "DebugLevel"}
             /\ UNCHANGED <<pc, startup, alive, current, coordinator, player>>
    <2>2. Types'
      BY <1>0, <1>2, <1>r DEF TeamInv, Types, outside, startup, player
    <2>3. Own(c)'
      <3>1. Announced(c)'
        BY <1>2, <1>r DEF Announced
      <3> QED BY <1>0, <1>2, <3>1 DEF Own, Starting, Obedient, OwnRobot, player
    <2>4. Aside(c) /\ file' = file /\ link' = link /\ backlog' = backlog /\ crashes' \in Nat
      BY <1>0, <1>2, <1>r DEF Aside, Untouched, TeamInv, Types, outside, startup, player
    <2>5. ASSUME NEW m \in Team \ {c}, Listening(m), c \in Members(robots[m])
          PROVE  Follows(m, c)
      <3>1. Led(m, c) /\ link[c] = m
        BY <1>l, <2>5
      <3>2. InGame(m, c)' <=> InGame(m, c)
        BY <1>0, <1>2 DEF InGame
      <3>3. Led(m, c)'
        BY <1>0, <1>2, <3>1, <3>2 DEF Led, Waiting, Gone, Ended, player
      <3> QED BY <1>0, <1>2, <2>4, <3>1, <3>3 DEF Follows, Clients, Gone, Waiting, Ended
    <2> QED BY <1>0, <1>2, <1>q, <2>2, <2>3, <2>4, <2>5, QueueKept, ClientStep DEF ServerStates
  <1>3. CASE /\ Head(stdin[c]) = "Absolute"
             /\ Goto(c, IF pc[c] = "serving" THEN "reading" ELSE "round")
             /\ alive' = [x \in Team |-> x \in Members(robots[c]) \/ alive[x]]
             /\ current' = [current EXCEPT ![c] = 1]
             /\ UNCHANGED <<coordinator, player>>
    <2>1. pc' = [pc EXCEPT ![c] = "round"] /\ UNCHANGED startup /\ pc'[c] = "round"
      BY <1>0, <1>3 DEF Goto
    <2>2. alive' = alive
      BY <1>0, <1>3, <1>n
    <2>3. Fresh(c)
      <3>1. stdin[c][1] = "Absolute"
        BY <1>0, <1>3, TailIs DEF TeamInv, Types
      <3> QED BY <1>0, <3>1 DEF Own, Announced, Ended
    <2>4. Types'
      BY <1>0, <1>3, <1>r, <2>1, <2>2 DEF TeamInv, Types, Labels, Clients, outside, startup,
                                          player
    <2>5. Own(c)'
      <3>1. struck'[c] <=> Turned(ordered'[c], hits'[c])
        BY <1>3, <2>3, TurnedAgain DEF Fresh, player
      <3> QED BY <1>0, <1>3, <1>r, <2>1, <3>1 DEF Own, Announced, Starting, Obedient, OwnRobot,
                 ServerStates, Clients, player
    <2>6. Aside(c) /\ file' = file /\ link' = link /\ backlog' = backlog /\ crashes' \in Nat
      BY <1>0, <1>3, <1>r, <2>1, <2>2 DEF Aside, Untouched, TeamInv, Types, outside, startup,
                                          player
    <2>7. ASSUME NEW m \in Team \ {c}, Listening(m), c \in Members(robots[m])
          PROVE  Follows(m, c)
      <3>1. Led(m, c) /\ link[c] = m /\ (up[c] # <<>> => up[c][Len(up[c])].dead)
        BY <1>l, <2>7
      <3>2. InGame(m, c)' <=> InGame(m, c)
        BY <1>0, <2>1, <2>2 DEF InGame
      <3>3. ordered'[c] = FALSE /\ down'[c] = down[c] /\ up'[c] = up[c]
            /\ coordinator' = coordinator
        BY <1>0, <1>3, <2>3 DEF Fresh, player
      <3>4. Led(m, c)'
        BY <2>1, <3>1, <3>2, <3>3 DEF Led, Waiting, NewCoordinator
      <3> QED BY <1>0, <2>1, <2>6, <3>1, <3>4 DEF Follows, Clients, Gone, Waiting, Ended
    <2> QED BY <1>0, <1>q, <2>1, <2>4, <2>5, <2>6, <2>7, QueueKept, ClientStep DEF ServerStates
  <1>4. CASE /\ Head(stdin[c]) \notin {"GameStarts", "GameFinishes", "DebugLevel", "Absolute"}
             /\ Exit(c)
             /\ UNCHANGED <<alive, current, coordinator, player>>
    <2>1. file' = file /\ Aside(c) /\ pc' \in [Team -> Labels] /\ link' = link
          /\ backlog' = [backlog EXCEPT ![c] = <<>>]
      BY <1>0, <1>4, <1>r DEF Exit, ServerStates, Aside, Untouched, Labels, TeamInv, Types,
                              player, outside
    <2>2. Types'
      BY <1>0, <1>4, <1>r, <2>1 DEF TeamInv, Types, player, outside
    <2> QED BY <1>0, <1>4, <1>r, <2>1, <2>2, ClientEnds DEF Exit, ServerStates, Ended
  <1> QED BY <1>1, <1>2, <1>3, <1>4 DEF ReadCommand
-----------------------------------------------------------------------------
(***************************************************************************)
(* The engine.                                                             *)
(***************************************************************************)
\* Lines the engine may send at once.
Sayable(lines) ==
    lines \in Seq(Messages) /\ Paired(lines) /\ (lines # <<>> => lines[1] # "Absolute")

\* What the engine says keeps the lines of a robot paired.
LEMMA PairedConcat ==
    ASSUME NEW s \in Seq(Messages), Paired(s), NEW t, Sayable(t)
    PROVE  /\ s \o t \in Seq(Messages) /\ Paired(s \o t)
           /\ s \o t # <<>> => ((s \o t)[1] = s[1] /\ s # <<>>) \/ (s \o t)[1] # "Absolute"
  <1>1. t \in Seq(Messages) /\ Len(s) \in Nat /\ Len(t) \in Nat
    BY DEF Sayable
  <1>2. /\ s \o t \in Seq(Messages) /\ Len(s \o t) = Len(s) + Len(t)
        /\ \A i \in 1 .. Len(s) : (s \o t)[i] = s[i]
        /\ \A i \in 1 .. Len(t) : (s \o t)[Len(s) + i] = t[i]
    BY <1>1
  <1>3. ASSUME NEW i \in 2 .. Len(s \o t), (s \o t)[i] = "Absolute"
        PROVE  (s \o t)[i - 1] = "GameStarts"
    <2>1. CASE i \in 2 .. Len(s)
      BY <1>1, <1>2, <1>3, <2>1 DEF Paired
    <2>2. CASE i = Len(s) + 1
      <3>1. 1 \in 1 .. Len(t) /\ t # <<>>
        BY <1>1, <1>2, <2>2
      <3>2. (s \o t)[Len(s) + 1] = t[1]
        BY <1>2, <3>1
      <3> QED BY <1>3, <2>2, <3>1, <3>2 DEF Sayable
    <2>3. CASE i > Len(s) + 1
      <3> DEFINE j == i - Len(s)
      <3>1. j \in 2 .. Len(t) /\ j - 1 \in 1 .. Len(t) /\ i = Len(s) + j
            /\ i - 1 = Len(s) + (j - 1)
        BY <1>1, <1>2, <2>3
      <3>2. (s \o t)[i] = t[j] /\ (s \o t)[i - 1] = t[j - 1]
        BY <1>2, <3>1
      <3> QED BY <1>3, <3>1, <3>2 DEF Sayable, Paired
    <2> QED BY <1>1, <1>2, <2>1, <2>2, <2>3
  <1>4. CASE s = <<>>
    <2>1. s \o t = t
      BY <1>1, <1>4
    <2> QED BY <1>2, <1>3, <2>1 DEF Sayable, Paired
  <1>5. CASE s # <<>>
    <2>1. 1 \in 1 .. Len(s)
      BY <1>1, <1>5
    <2> QED BY <1>2, <1>3, <1>5, <2>1 DEF Paired
  <1> QED BY <1>4, <1>5

\* All that the engine says is sayable.
LEMMA SayableLines ==
    /\ Sayable(<<>>)
    /\ \A e \in Messages \ {"Absolute"} : Sayable(<<e>>)
    /\ \A s, t : Sayable(s) /\ Sayable(t) => Sayable(s \o t)
    /\ \A option \in Coordinates : Sayable(GameStart(option))
    /\ Sayable(<<"Dead", "GameFinishes">>)
  <1>1. Sayable(<<>>)
    BY DEF Sayable, Paired
  <1>2. ASSUME NEW e \in Messages \ {"Absolute"} PROVE Sayable(<<e>>)
    BY DEF Sayable, Paired
  <1>3. ASSUME NEW s, NEW t, Sayable(s), Sayable(t) PROVE Sayable(s \o t)
    BY <1>3, PairedConcat DEF Sayable
  <1>4. ASSUME NEW option \in Coordinates PROVE Sayable(GameStart(option))
    BY TeamAssumption DEF Sayable, Paired, GameStart, Messages
  <1>5. Sayable(<<"Dead", "GameFinishes">>)
    BY DEF Sayable, Paired, Messages
  <1> QED BY <1>1, <1>2, <1>3, <1>4, <1>5

\* The engine speaks to the robots.
LEMMA TellStep ==
    ASSUME TeamInv, NEW said, \A r \in Team : Sayable(said[r]), Tell(said),
           UNCHANGED <<pc, startup, master, up, down, player, crashes>>
    PROVE  TeamInv'
  <1>0. /\ stdin \in [Team -> Seq(Messages)]
        /\ \A r \in Team : stdin'[r] = IF Ended(r) THEN <<>> ELSE stdin[r] \o said[r]
        /\ \A r \in Team : Paired(stdin[r])
    BY DEF TeamInv, Types, Own, Announced, Tell
  <1>1. ASSUME NEW r \in Team
        PROVE  /\ stdin'[r] \in Seq(Messages) /\ Paired(stdin'[r])
               /\ stdin'[r] # <<>> /\ stdin'[r][1] = "Absolute" =>
                    stdin[r] # <<>> /\ stdin[r][1] = "Absolute"
    <2>1. CASE Ended(r)
      <3>1. stdin'[r] = <<>>
        BY <1>0, <2>1
      <3> QED BY <3>1 DEF Paired
    <2>2. CASE ~ Ended(r)
      <3>1. stdin'[r] = stdin[r] \o said[r]
        BY <1>0, <2>2
      <3>2. stdin[r] \in Seq(Messages) /\ Paired(stdin[r]) /\ Sayable(said[r])
        BY <1>0
      <3> QED BY <3>1, <3>2, PairedConcat
    <2> QED BY <2>1, <2>2
  <1>2. Types'
    <2>1. stdin' \in [Team -> Seq(Messages)]
      BY <1>0, <1>1 DEF Tell
    <2> QED BY <2>1 DEF TeamInv, Types, startup, master, player
  <1>3. SocketFileOwned'
    BY DEF TeamInv, SocketFileOwned, startup
  <1>4. ASSUME NEW r \in Team PROVE Own(r)'
    <2>1. Own(r)
      BY DEF TeamInv
    <2>2. Announced(r)'
      BY <1>1, <2>1 DEF Own, Announced, Ended, InMainLoop, Fresh, master, player
    <2> QED BY <2>1, <2>2 DEF Own, Starting, Obedient, OwnRobot, master, player
  <1>5. ASSUME NEW r \in Team PROVE Leading(r)'
    <2>1. Leading(r)
      BY DEF TeamInv
    <2>u. UNCHANGED <<pc, link, backlog, robots, alive, current, coordinator, up, down, hits,
                      ordered, struck, crashes>>
      BY DEF startup, master, player
    <2>2. Connected(r)' <=> Connected(r)
      BY <2>u DEF Connected, Ended
    <2>3. Queued(r)' <=> Queued(r)
      BY <2>u DEF Queued, Gone, Ended
    <2>4. Round(r)' <=> Round(r)
      BY <2>u DEF Round, Living, Gone, Ended, Waiting
    <2>5. \A c : Led(r, c)' <=> Led(r, c)
      BY <2>u DEF Led, Gone, Ended, Waiting, InGame
    <2> QED BY <2>1, <2>u, <2>2, <2>3, <2>4, <2>5 DEF Leading, Listening
  <1> QED BY <1>2, <1>3, <1>4, <1>5 DEF TeamInv

\* The steps of the engine in a sequence.
LEMMA EngineStep ==
    ASSUME TeamInv, StartGame \/ Update \/ SetDebugLevel \/ EndGame
    PROVE  TeamInv'
  <1>m. {"Collision", "Dead", "Energy", "DebugLevel", "ExitRobot"} \subseteq Messages \ {"Absolute"}
    BY DEF Messages
  <1>1. CASE StartGame
    <2>1. PICK option \in Coordinates : Tell([r \in Team |-> GameStart(option)])
      BY <1>1 DEF StartGame
    <2> QED BY <1>1, <2>1, SayableLines, TellStep DEF StartGame
  <1>2. CASE Update
    <2>1. PICK hit, dead \in SUBSET engine.playing :
            Tell([r \in Team |->
                     IF r \notin engine.playing THEN <<>>
                     ELSE (IF r \in hit THEN <<"Collision">> ELSE <<>>)
                          \o (IF r \in dead THEN <<"Dead">> ELSE <<"Energy">>)])
      BY <1>2 DEF Update
    <2> DEFINE first(r)  == IF r \in hit THEN <<"Collision">> ELSE <<>>
               second(r) == IF r \in dead THEN <<"Dead">> ELSE <<"Energy">>
               said == [r \in Team |-> IF r \notin engine.playing THEN <<>>
                                       ELSE first(r) \o second(r)]
    <2>2. ASSUME NEW r \in Team PROVE Sayable(said[r])
      <3>1. Sayable(first(r)) /\ Sayable(second(r))
        BY <1>m, SayableLines
      <3> HIDE DEF first, second
      <3>2. Sayable(first(r) \o second(r)) /\ Sayable(<<>>)
        BY <3>1, SayableLines
      <3> QED BY <3>2
    <2>3. Tell(said)
      BY <2>1
    <2> HIDE DEF said
    <2> QED BY <1>2, <2>2, <2>3, TellStep DEF Update
  <1>3. CASE SetDebugLevel
    <2> DEFINE said == [r \in Team |-> IF r \in engine.playing THEN <<"DebugLevel">> ELSE <<>>]
    <2>1. \A r \in Team : Sayable(said[r])
      BY <1>m, SayableLines
    <2>2. Tell(said)
      BY <1>3 DEF SetDebugLevel
    <2> HIDE DEF said
    <2> QED BY <1>3, <2>1, <2>2, TellStep DEF SetDebugLevel
  <1>4. CASE EndGame
    <2> DEFINE survived(r) == IF r \in engine.playing THEN <<"Dead", "GameFinishes">> ELSE <<>>
    <2>1. ASSUME NEW r \in Team PROVE Sayable(survived(r))
      BY SayableLines
    <2>2. \/ \E option \in Coordinates :
                Tell([r \in Team |-> survived(r) \o GameStart(option)])
          \/ Tell([r \in Team |-> survived(r) \o <<"ExitRobot">>])
      BY <1>4 DEF EndGame
    <2>3. UNCHANGED <<pc, startup, master, up, down, player, crashes>>
      BY <1>4 DEF EndGame
    <2> HIDE DEF survived
    <2>4. CASE \E option \in Coordinates :
                Tell([r \in Team |-> survived(r) \o GameStart(option)])
      <3>1. PICK option \in Coordinates :
                Tell([r \in Team |-> survived(r) \o GameStart(option)])
        BY <2>4
      <3> DEFINE said == [r \in Team |-> survived(r) \o GameStart(option)]
      <3>2. \A r \in Team : Sayable(said[r])
        BY <2>1, SayableLines
      <3> QED BY <2>3, <3>1, <3>2, TellStep
    <2>5. CASE Tell([r \in Team |-> survived(r) \o <<"ExitRobot">>])
      <3> DEFINE said == [r \in Team |-> survived(r) \o <<"ExitRobot">>]
      <3>1. Sayable(<<"ExitRobot">>)
        BY <1>m, SayableLines
      <3>2. \A r \in Team : Sayable(said[r])
        BY <2>1, <3>1, SayableLines
      <3> QED BY <2>3, <2>5, <3>2, TellStep
    <2> QED BY <2>2, <2>4, <2>5
  <1> QED BY <1>1, <1>2, <1>3, <1>4

\* The end of a master: by itself, or from outside.
LEMMA MasterEnds ==
    ASSUME TeamInv, Types', NEW m \in Team, pc[m] \in ServerStates,
           NEW label \in {"exited", "killed"}, pc' = [pc EXCEPT ![m] = label],
           file' = Nobody \/ (file' = file /\ crashes' > 0),
           \A x \in Team \ {m} : Untouched(x),
           \A x \in Team : coordinator'[x] = coordinator[x],
           down' = down, Paired(stdin[m])'
    PROVE  TeamInv'
  <1>1. SocketFileOwned' /\ \A r \in Team : Leading(r)'
    BY LeaderEnds
  <1>2. Own(m)'
    <2>1. Ended(m)'
      BY DEF TeamInv, Types, Ended
    <2> QED BY <2>1, OwnEnded DEF TeamInv
  <1>3. ASSUME NEW r \in Team \ {m} PROVE Own(r)'
    <2>1. \A x \in Members(robots[r]) : x \in Team
      BY MembersAre DEF TeamInv, Types
    <2> QED BY <2>1, OwnKept DEF TeamInv
  <1> QED BY <1>1, <1>2, <1>3 DEF TeamInv

\* A process is killed.
LEMMA CrashStep == ASSUME TeamInv, NEW r \in Team, Crash(r) PROVE TeamInv'
  <1>1. /\ pc' = [pc EXCEPT ![r] = "killed"] /\ backlog' = [backlog EXCEPT ![r] = <<>>]
        /\ UNCHANGED <<file, link>>
        /\ UNCHANGED <<stdin, robots, alive, current, coordinator, up, down, hits, ordered, struck>>
        /\ crashes' = crashes + 1 /\ crashes \in Nat /\ ~ Ended(r)
    BY DEF Crash, Killed, master, player, TeamInv, Types
  <1>2. Types'
    <2>1. pc' \in [Team -> Labels] /\ backlog' \in [Team -> Seq(Team)]
      BY <1>1 DEF TeamInv, Types, Labels
    <2> QED BY <1>1, <2>1 DEF TeamInv, Types
  <1>3. /\ \A x \in Team \ {r} : Untouched(x)
        /\ \A x \in Team : coordinator'[x] = coordinator[x]
        /\ Aside(r)
    BY <1>1 DEF Untouched, Aside, TeamInv, Types
  <1>4. Paired(stdin[r])'
    BY <1>1 DEF TeamInv, Own, Announced
  <1>c. crashes' > 0
    BY <1>1
  <1>5. CASE pc[r] \in ServerStates
    <2> QED BY <1>1, <1>2, <1>3, <1>4, <1>c, <1>5, MasterEnds, Zenon
  <1>6. CASE pc[r] \notin ServerStates
    BY <1>1, <1>2, <1>3, <1>4, <1>c, <1>6, ClientEnds, Zenon
  <1> QED BY <1>5, <1>6

\* The first processes have nothing to do with each other.
LEMMA TeamInit == Init => TeamInv
  <1> SUFFICES ASSUME Init PROVE TeamInv
    OBVIOUS
  <1>1. ASSUME NEW r \in Team
        PROVE  /\ pc[r] = "new" /\ stdin[r] = <<>> /\ robots[r] = <<>>
               /\ coordinator[r] = NewCoordinator /\ up[r] = <<>> /\ down[r] = <<>>
               /\ hits[r] = 0 /\ ordered[r] = FALSE /\ struck[r] = FALSE
    BY DEF Init, Everyone
  <1>2. Types
    <2>1. ordered \in [Team -> BOOLEAN] /\ struck \in [Team -> BOOLEAN]
          /\ alive \in [Team -> BOOLEAN]
      BY DEF Init, Everyone
    <2> QED BY <2>1 DEF Init, Everyone, Types, Labels
  <1>3. SocketFileOwned
    BY <1>1 DEF Init, SocketFileOwned, ServerStates
  <1>4. ASSUME NEW r \in Team PROVE Own(r)
    <2>1. Announced(r)
      <3>1. Paired(<<>>)
        BY SayableLines DEF Sayable
      <3> QED BY <1>1, <3>1 DEF Announced
    <2>2. Starting(r)
      BY <1>1 DEF Starting
    <2>3. Obedient(r)
      <3>1. Len(<<>>) <= 1
        OBVIOUS
      <3> QED BY <1>1, <3>1 DEF Obedient
    <2>4. OwnRobot(r)
      BY <1>1 DEF OwnRobot, ServerStates
    <2> QED BY <2>1, <2>2, <2>3, <2>4 DEF Own
  <1>5. ASSUME NEW r \in Team PROVE Leading(r)
    BY <1>1 DEF Leading, Listening, ServerStates
  <1> QED BY <1>2, <1>3, <1>4, <1>5 DEF TeamInv

\* A new sequence starts every process anew.
LEMMA StartSequenceStep == ASSUME TeamInv, StartSequence PROVE TeamInv'
  <1>1. ASSUME NEW r \in Team
        PROVE  /\ pc'[r] = "new" /\ stdin'[r] = <<>> /\ robots'[r] = <<>>
               /\ coordinator'[r] = NewCoordinator /\ up'[r] = <<>> /\ down'[r] = <<>>
               /\ hits'[r] = 0 /\ ordered'[r] = FALSE /\ struck'[r] = FALSE
    BY DEF StartSequence, Everyone
  <1> DEFINE running == {r \in Team : ~ Ended(r)}
  <1>2. IsFiniteSet(running) /\ Cardinality(running) \in Nat
    BY TeamAssumption, FS_Subset, FS_CardinalityType
  <1>3. crashes' = crashes + Cardinality(running) /\ crashes \in Nat /\ file' = file
    BY DEF StartSequence, TeamInv, Types
  <1>4. Types'
    <2>1. ordered' \in [Team -> BOOLEAN] /\ struck' \in [Team -> BOOLEAN]
          /\ alive' \in [Team -> BOOLEAN]
      BY DEF StartSequence, Everyone
    <2>2. crashes' \in Nat
      BY <1>2, <1>3
    <2> QED BY <2>1, <2>2 DEF StartSequence, Everyone, Types, Labels, TeamInv
  <1>5. SocketFileOwned'
    <2>1. crashes' = 0 => file' = Nobody
      <3> SUFFICES ASSUME crashes' = 0 PROVE file = Nobody
        BY <1>3
      <3>1. crashes = 0 /\ Cardinality(running) = 0
        BY <1>2, <1>3
      <3>2. running = {}
        BY <1>2, <3>1, FS_EmptySet
      <3> QED BY <3>1, <3>2 DEF TeamInv, Types, SocketFileOwned, Ended, ServerStates
    <2> QED BY <1>1, <2>1 DEF SocketFileOwned, ServerStates
  <1>6. ASSUME NEW r \in Team PROVE Own(r)'
    <2>1. Announced(r)'
      <3>1. Paired(<<>>)
        BY SayableLines DEF Sayable
      <3> QED BY <1>1, <3>1 DEF Announced
    <2>2. Starting(r)'
      BY <1>1 DEF Starting
    <2>3. Obedient(r)'
      <3>1. Len(<<>>) <= 1
        OBVIOUS
      <3> QED BY <1>1, <3>1 DEF Obedient
    <2>4. OwnRobot(r)'
      BY <1>1 DEF OwnRobot, ServerStates
    <2> QED BY <2>1, <2>2, <2>3, <2>4 DEF Own
  <1>7. ASSUME NEW r \in Team PROVE Leading(r)'
    BY <1>1 DEF Leading, Listening, ServerStates
  <1> QED BY <1>4, <1>5, <1>6, <1>7 DEF TeamInv
-----------------------------------------------------------------------------
(***************************************************************************)
(* The steps of a master.                                                  *)
(***************************************************************************)
\* The processes besides the master lead nobody, and its coordinators are for its robots.
LEMMA OtherKept ==
    ASSUME TeamInv, NEW m \in Team, Listening(m), NEW x \in Team \ {m}, Untouched(x),
           \A y \in Team : y \notin Members(robots[m]) => coordinator'[y] = coordinator[y]
    PROVE  Own(x)'
  <1>1. pc[x] \notin ServerStates
    BY OneServer DEF TeamInv, Listening
  <1>2. Ended(x) \/ Members(robots[x]) = {}
    <2>1. pc[x] \in Labels
      BY DEF TeamInv, Types
    <2>2. pc[x] \in {"new", "bound"} \cup Clients => robots[x] = <<>>
      BY DEF TeamInv, Own, Starting
    <2> QED BY <1>1, <2>1, <2>2 DEF Labels, Ended, Members
  <1>3. pc[x] = "new" => x \notin Members(robots[m])
    BY MemberLed DEF Ended, Clients
  <1> QED BY <1>1, <1>2, <1>3, OwnKept DEF TeamInv

\* A step of a master that goes on: what has to be shown of it.
LEMMA MasterStep ==
    ASSUME TeamInv, Types', NEW m \in Team, pc[m] \in ServerStates, pc'[m] \in ServerStates,
           \A x \in Team \ {m} : pc'[x] = pc[x],
           file' = file, crashes' = crashes, \A x \in Team : Own(x)', Leading(m)'
    PROVE  TeamInv'
  <1>1. SocketFileOwned'
    <2>1. \A r \in Team : pc'[r] \in ServerStates <=> pc[r] \in ServerStates
      OBVIOUS
    <2> QED BY <2>1, SocketKept
  <1>2. \A r \in Team : Leading(r)'
    BY <1>1, OnlyLeader
  <1> QED BY <1>1, <1>2 DEF TeamInv

\* A client for which nothing changes.
LEMMA LedKept ==
    ASSUME NEW m \in Team, NEW x \in Team, Led(m, x), Untouched(x),
           coordinator'[x] = coordinator[x], crashes' = crashes,
           InGame(m, x)' <=> InGame(m, x)
    PROVE  Led(m, x)'
  <1>1. Gone(x)' <=> Gone(x)
    BY DEF Gone, Ended, Untouched
  <1>2. Waiting(x)' <=> Waiting(x)
    BY DEF Waiting, Untouched
  <1> QED BY <1>1, <1>2 DEF Led, Untouched

\* The robots of a master.
LEMMA LeaderFacts ==
    ASSUME TeamInv, NEW m \in Team, Listening(m)
    PROVE  /\ Leading(m) /\ Connected(m) /\ Queued(m) /\ Round(m)
           /\ robots[m] \in Seq(Team) /\ Len(robots[m]) \in Nat \ {0}
           /\ m \in Members(robots[m]) /\ Members(robots[m]) \subseteq Team
           /\ \A i \in 1 .. Len(robots[m]) : robots[m][i] \in Team
           /\ \A i \in 2 .. Len(robots[m]) :
                 robots[m][i] \in Team \ {m} /\ robots[m][i] \in Members(robots[m])
                 /\ Led(m, robots[m][i])
  <1>1. /\ Leading(m) /\ Connected(m) /\ Queued(m) /\ Round(m) /\ robots[m] \in Seq(Team)
        /\ robots[m] # <<>> /\ robots[m][1] = m
    BY DEF TeamInv, Types, Leading, Connected
  <1>2. Len(robots[m]) \in Nat \ {0} /\ \A i \in 1 .. Len(robots[m]) : robots[m][i] \in Team
    BY <1>1
  <1>3. m \in Members(robots[m]) /\ Members(robots[m]) \subseteq Team
    BY <1>1, <1>2 DEF Members
  <1>4. ASSUME NEW i \in 2 .. Len(robots[m])
        PROVE  robots[m][i] \in Team \ {m} /\ robots[m][i] \in Members(robots[m])
               /\ Led(m, robots[m][i])
    BY <1>1, <1>2 DEF Members, Connected, Leading
  <1> QED BY <1>1, <1>2, <1>3, <1>4

\* The master begins to listen.
LEMMA ListenStep ==
    ASSUME TeamInv, NEW m \in Team, Listen(m), backlog[m] = <<>>
    PROVE  TeamInv'
  <1>0. /\ pc \in [Team -> Labels] /\ pc[m] = "bound" /\ Own(m)
        /\ pc' = [pc EXCEPT ![m] = "waiting"] /\ robots' = [robots EXCEPT ![m] = <<m>>]
        /\ robots \in [Team -> Seq(Team)] /\ backlog' = backlog /\ link' = link /\ file' = file
        /\ UNCHANGED <<stdin, alive, current, coordinator, up, down, hits, ordered, struck, crashes>>
    BY DEF Listen, Goto, startup, TeamInv, Types, player, outside
  <1>1. Types'
    <2>1. pc' \in [Team -> Labels] /\ robots' \in [Team -> Seq(Team)]
      BY <1>0 DEF Labels, ServerStates
    <2> QED BY <1>0, <2>1 DEF TeamInv, Types
  <1>2. pc'[m] = "waiting" /\ robots'[m] = <<m>> /\ \A x \in Team \ {m} : Untouched(x)
    BY <1>0 DEF Untouched, TeamInv, Types
  <1>3. Own(m)'
    BY <1>0, <1>2 DEF Own, Announced, Starting, Obedient, OwnRobot, Ended, InMainLoop,
                      ServerStates, Clients
  <1>4. \A x \in Team \ {m} : Own(x)'
    BY <1>0, <1>2, OwnKept DEF TeamInv
  <1>5. Leading(m)'
    <2>1. Len(<<m>>) = 1 /\ <<m>>[1] = m /\ <<m>> # <<>>
      OBVIOUS
    <2>2. Connected(m)'
      BY <1>2, <2>1 DEF Connected
    <2>3. Queued(m)'
      <3>1. Len(backlog'[m]) = 0
        BY <1>0
      <3> QED BY <3>1 DEF Queued
    <2>4. Round(m)'
      BY <1>2 DEF Round
    <2>5. 2 .. Len(robots'[m]) = {}
      BY <1>2, <2>1
    <2> QED BY <2>2, <2>3, <2>4, <2>5 DEF Leading
  <1> QED BY <1>0, <1>1, <1>2, <1>3, <1>4, <1>5, MasterStep DEF ServerStates, Untouched

\* The master stops waiting for clients.
LEMMA StopWaitingStep == ASSUME TeamInv, NEW m \in Team, StopWaiting(m) PROVE TeamInv'
  <1>0. /\ pc \in [Team -> Labels] /\ pc[m] = "waiting" /\ Own(m) /\ Listening(m)
        /\ pc' = [pc EXCEPT ![m] = "serving"] /\ backlog' = backlog /\ link' = link /\ file' = file
        /\ UNCHANGED <<stdin, robots, alive, current, coordinator, up, down, hits, ordered, struck,
                       crashes>>
    BY DEF StopWaiting, Goto, startup, TeamInv, Types, master, player, outside, Listening,
           ServerStates
  <1>1. Types'
    <2>1. pc' \in [Team -> Labels]
      BY <1>0 DEF Labels, ServerStates
    <2> QED BY <1>0, <2>1 DEF TeamInv, Types
  <1>2. pc'[m] = "serving" /\ \A x \in Team \ {m} : Untouched(x)
    BY <1>0 DEF Untouched
  <1>3. Own(m)'
    BY <1>0, <1>2 DEF Own, Announced, Starting, Obedient, OwnRobot, Ended, InMainLoop,
                      ServerStates, Clients
  <1>4. \A x \in Team \ {m} : Own(x)'
    BY <1>0, <1>2, OtherKept
  <1>5. Leading(m)'
    <2>1. Connected(m)'
      <3>1. \A i \in 2 .. Len(robots[m]) : pc'[robots[m][i]] = pc[robots[m][i]]
        BY <1>0, <1>2, LeaderFacts DEF Untouched
      <3> QED BY <1>0, <3>1, LeaderFacts DEF Connected, Ended
    <2>2. Queued(m)' /\ Round(m)'
      BY <1>2 DEF Queued, Round
    <2>3. \A i \in 2 .. Len(robots[m]) : Led(m, robots[m][i])'
      <3> SUFFICES ASSUME NEW i \in 2 .. Len(robots[m]) PROVE Led(m, robots[m][i])'
        OBVIOUS
      <3>1. robots[m][i] \in Team \ {m} /\ Led(m, robots[m][i])
        BY <1>0, LeaderFacts
      <3>2. ~ InGame(m, robots[m][i]) /\ ~ InGame(m, robots[m][i])'
        BY <1>0, <1>2 DEF InGame
      <3> QED BY <1>0, <1>2, <3>1, <3>2, LedKept
    <2> QED BY <1>0, <2>1, <2>2, <2>3 DEF Leading
  <1> QED BY <1>0, <1>1, <1>2, <1>3, <1>4, <1>5, MasterStep DEF ServerStates, Untouched

\* The master accepts a client, or dies of it.
LEMMA AcceptStep == ASSUME TeamInv, NEW m \in Team, Accept(m) PROVE TeamInv'
  <1>0. /\ pc \in [Team -> Labels] /\ pc[m] = "waiting" /\ Own(m) /\ Listening(m)
        /\ backlog \in [Team -> Seq(Team)] /\ backlog[m] # <<>>
        /\ UNCHANGED <<stdin, alive, current, coordinator, up, hits, ordered, struck, crashes>>
        /\ pc[m] \in ServerStates /\ Paired(stdin[m])' /\ crashes \in Nat
        /\ down \in [Team -> Seq(Seq(Lines))] /\ robots \in [Team -> Seq(Team)]
    BY DEF Accept, TeamInv, Types, player, outside, Listening, ServerStates, Own, Announced
  <1>p. PICK c \in Team : c = Head(backlog[m])
    <2>1. Head(backlog[m]) \in Team
      BY <1>0, TailIs
    <2> QED BY <2>1
  <1>n. PICK n \in Nat : n = Len(backlog[m])
    BY <1>0
  <1>b. /\ c = backlog[m][1] /\ c \in Team /\ n \in Nat \ {0}
        /\ Tail(backlog[m]) \in Seq(Team) /\ Len(Tail(backlog[m])) = n - 1
        /\ \A i \in 1 .. n - 1 : Tail(backlog[m])[i] = backlog[m][i + 1]
    BY <1>0, <1>p, <1>n, TailIs
  <1>c. /\ c \notin Members(robots[m]) /\ link[c] = m
        /\ Gone(c) \/ (pc[c] = "greeting" /\ down[c] = <<>>)
    <2>1. Queued(m) /\ 1 \in 1 .. Len(backlog[m])
      BY <1>0, <1>b, <1>n, LeaderFacts
    <2> QED BY <1>0, <1>b, <2>1 DEF Queued
  <1>1. CASE /\ ~ Ended(c)
             /\ backlog' = [backlog EXCEPT ![m] = Tail(@)]
             /\ robots' = [robots EXCEPT ![m] = Append(@, c)]
             /\ down' = [down EXCEPT ![c] = Append(@, <<"name">>)]
             /\ UNCHANGED <<pc, file, link>>
    <2>1. pc[c] = "greeting" /\ down[c] = <<>> /\ c # m
      BY <1>0, <1>1, <1>c DEF Gone
    <2>2. down'[c] = Append(<<>>, <<"name">>) /\ <<"name">> \in Seq(Lines)
      <3>1. <<"name">> \in Seq(Lines)
        BY DEF Lines
      <3> QED BY <1>0, <1>1, <2>1, <3>1
    <2>3. /\ Len(down'[c]) = 1 /\ Append(<<>>, <<"name">>) \in Seq(Seq(Lines))
      BY <2>2
    <2>4. /\ backlog'[m] = Tail(backlog[m]) /\ backlog' \in [Team -> Seq(Team)]
          /\ robots'[m] = Append(robots[m], c) /\ robots' \in [Team -> Seq(Team)]
          /\ down' \in [Team -> Seq(Seq(Lines))]
          /\ \A x \in Team \ {m} : robots'[x] = robots[x]
          /\ \A x \in Team \ {c} : down'[x] = down[x]
      <3>1. Append(robots[m], c) \in Seq(Team)
        BY <1>0, <1>b
      <3> QED BY <1>0, <1>1, <1>b, <2>1, <2>3, <3>1
    <2>5. Types'
      BY <1>0, <1>1, <2>4 DEF TeamInv, Types
    <2>6. \A x \in Team \ {m, c} : Untouched(x)
      BY <1>0, <1>1, <2>4 DEF Untouched
    <2>7. Own(m)'
      BY <1>0, <1>1, <2>1, <2>4 DEF Own, Announced, Starting, Obedient, OwnRobot, Ended,
                        InMainLoop, ServerStates, Clients
    <2>8. Own(c)'
      <3>1. Own(c) /\ robots'[c] = robots[c]
        BY <1>b, <2>1, <2>4 DEF TeamInv
      <3>2. Announced(c)'
        BY <1>0, <1>1, <2>1, <3>1 DEF Own, Announced, Ended, InMainLoop
      <3> QED BY <1>0, <1>1, <1>b, <2>1, <2>3, <3>1, <3>2 DEF Own, Starting, Obedient,
                 OwnRobot, ServerStates, Clients
    <2>9. \A x \in Team \ {m, c} : Own(x)'
      BY <1>0, <2>6, OtherKept
    <2>10. Leading(m)'
      <3> DEFINE k == Len(robots[m])
      <3>1. /\ k \in Nat \ {0} /\ Len(robots'[m]) = k + 1 /\ robots'[m] # <<>>
            /\ \A i \in 1 .. k : robots'[m][i] = robots[m][i]
            /\ robots'[m][k + 1] = c
        <4>1. robots[m] \in Seq(Team) /\ k \in Nat \ {0}
          BY <1>0, LeaderFacts
        <4>2. /\ Len(Append(robots[m], c)) = k + 1 /\ Append(robots[m], c) # <<>>
              /\ \A i \in 1 .. k : Append(robots[m], c)[i] = robots[m][i]
              /\ Append(robots[m], c)[k + 1] = c
          BY <4>1, AppendIs
        <4> QED BY <2>4, <4>1, <4>2
      <3>2. \A i \in 1 .. Len(robots'[m]) : i \in 1 .. k \/ i = k + 1
        BY <3>1
      <3>3. \A i \in 1 .. k : robots[m][i] # c /\ robots[m][i] \in Team
        BY <1>0, <1>c, LeaderFacts DEF Members
      <3>4. Connected(m)'
        <4>1. Connected(m) /\ robots[m][1] = m
          BY <1>0, LeaderFacts DEF Connected
        <4>2. \A i, j \in 1 .. Len(robots'[m]) : robots'[m][i] = robots'[m][j] => i = j
          BY <3>1, <3>2, <3>3, <4>1 DEF Connected
        <4>3. ASSUME NEW i \in 2 .. Len(robots'[m])
              PROVE  link'[robots'[m][i]] = m
                     /\ (Ended(robots[m][i])' \/ pc'[robots'[m][i]] \in Clients \ {"joining"})
          <5>1. CASE i \in 2 .. k
            <6>1. robots'[m][i] = robots[m][i]
              BY <3>1, <5>1
            <6> QED BY <1>1, <4>1, <5>1, <6>1 DEF Connected, Ended
          <5>2. CASE i = k + 1
            BY <1>1, <1>c, <2>1, <3>1, <5>2 DEF Clients
          <5> QED BY <3>1, <3>2, <5>1, <5>2
        <4> QED BY <3>1, <4>1, <4>2, <4>3 DEF Connected
      <3>5. Queued(m)'
        <4>1. Queued(m)
          BY <1>0, LeaderFacts
        <4>2. ASSUME NEW i \in 1 .. Len(backlog'[m])
              PROVE  /\ i + 1 \in 1 .. n /\ backlog'[m][i] = backlog[m][i + 1]
                     /\ backlog'[m][i] # c /\ backlog'[m][i] \in Team
          <5>0. n \in Nat \ {0} /\ Len(backlog'[m]) = n - 1
            BY <1>b, <2>4, Zenon
          <5>1. i \in 1 .. n - 1 /\ i + 1 \in 1 .. n /\ 1 \in 1 .. n /\ i + 1 # 1
            <6> SUFFICES i \in 1 .. n - 1
              BY <5>0
            <6> QED BY <5>0
          <5>2. backlog'[m][i] = backlog[m][i + 1]
            BY <1>b, <2>4, <5>1
          <5>3. backlog[m][i + 1] # backlog[m][1]
            BY <1>0, <1>n, <4>1, <5>1 DEF Queued
          <5>4. backlog[m] \in Seq(Team)
            BY <1>0
          <5>5. backlog[m][i + 1] \in Team
            BY <1>n, <5>1, <5>4
          <5> QED BY <1>b, <5>1, <5>2, <5>3, <5>5
        <4>3. Members(robots'[m]) = Members(robots[m]) \cup {c}
          <5>1. robots[m] \in Seq(Team)
            BY <1>0
          <5> QED BY <2>4, <5>1, MembersAre
        <4>4. \A i, j \in 1 .. Len(backlog'[m]) : backlog'[m][i] = backlog'[m][j] => i = j
          <5> SUFFICES ASSUME NEW i \in 1 .. Len(backlog'[m]), NEW j \in 1 .. Len(backlog'[m]),
                              backlog'[m][i] = backlog'[m][j]
              PROVE  i = j
            OBVIOUS
          <5>1. backlog[m][i + 1] = backlog[m][j + 1] /\ i + 1 \in 1 .. n /\ j + 1 \in 1 .. n
            BY <4>2
          <5>2. i + 1 = j + 1
            BY <1>0, <1>n, <4>1, <5>1 DEF Queued
          <5>3. i \in Int /\ j \in Int
            OBVIOUS
          <5> QED BY <5>2, <5>3
        <4>5. ASSUME NEW i \in 1 .. Len(backlog'[m])
              PROVE  /\ backlog'[m][i] \notin Members(robots'[m])
                     /\ link'[backlog'[m][i]] = m
                     /\ Gone(backlog[m][i])' \/ (pc'[backlog'[m][i]] = "greeting"
                                                  /\ down'[backlog'[m][i]] = <<>>)
          <5>1. /\ i + 1 \in 1 .. n /\ backlog'[m][i] = backlog[m][i + 1]
                /\ backlog'[m][i] # c /\ backlog'[m][i] \in Team
            BY <4>2
          <5>2. /\ backlog[m][i + 1] \notin Members(robots[m]) /\ link[backlog[m][i + 1]] = m
                /\ Gone(backlog[m][i + 1]) \/ (pc[backlog[m][i + 1]] = "greeting"
                                               /\ down[backlog[m][i + 1]] = <<>>)
            BY <1>0, <1>n, <4>1, <5>1 DEF Queued
          <5>3. down'[backlog'[m][i]] = down[backlog[m][i + 1]]
            BY <2>4, <5>1
          <5> QED BY <1>0, <1>1, <4>3, <5>1, <5>2, <5>3 DEF Gone, Ended
        <4> QED BY <4>4, <4>5 DEF Queued
      <3>6. Round(m)'
        BY <1>0, <1>1 DEF Round
      <3>7. ASSUME NEW i \in 2 .. Len(robots'[m]) PROVE Led(m, robots[m][i])'
        <4>1. CASE i \in 2 .. k
          <5>1. robots'[m][i] = robots[m][i]
            BY <3>1, <4>1
          <5> DEFINE x == robots[m][i]
          <5>2. x \in Team \ {m, c} /\ Led(m, x)
            <6>1. x \in Team \ {m} /\ Led(m, x)
              BY <1>0, <4>1, LeaderFacts
            <6>2. x # c
              BY <3>1, <3>3, <4>1
            <6> QED BY <6>1, <6>2
          <5>3. (\A y \in Team : ~ InGame(m, y)) /\ (\A y \in Team : ~ InGame(m, y)')
            BY <1>0, <1>1 DEF InGame
          <5>4. ASSUME NEW y \in Team, y = x PROVE Led(m, y)'
            BY <1>0, <2>6, <5>2, <5>3, <5>4, LedKept
          <5> QED BY <5>1, <5>2, <5>4
        <4>2. CASE i = k + 1
          <5>1. ASSUME NEW y \in Team, y = c PROVE Led(m, y)'
            <6>1. up'[y] = <<>> /\ pc'[y] = "greeting" /\ pc'[m] = "waiting"
              BY <1>0, <1>1, <2>1, <5>1 DEF TeamInv, Own, Starting
            <6>2. Len(up'[y]) = 0
              BY <6>1
            <6>3. ~ InGame(m, y)'
              BY <6>1 DEF InGame
            <6> QED BY <6>1, <6>2, <6>3 DEF Led, Waiting
          <5> QED BY <1>b, <3>1, <4>2, <5>1
        <4> QED BY <3>1, <3>2, <4>1, <4>2
      <3> QED BY <3>4, <3>5, <3>6, <3>7 DEF Leading
    <2> QED BY <1>0, <1>1, <2>5, <2>7, <2>8, <2>9, <2>10, MasterStep
  <1>2. CASE Ended(c) /\ Killed(m) /\ UNCHANGED <<robots, down>>
    <2>1. crashes' > 0
      BY <1>0, <1>2, <1>c DEF Gone, Ended
    <2>2. pc' = [pc EXCEPT ![m] = "killed"] /\ UNCHANGED <<file, link>>
          /\ backlog' = [backlog EXCEPT ![m] = <<>>]
      BY <1>2 DEF Killed
    <2>3. Types'
      <3>1. pc' \in [Team -> Labels] /\ backlog' \in [Team -> Seq(Team)]
        BY <1>0, <2>2 DEF Labels
      <3> QED BY <1>0, <1>2, <2>2, <3>1 DEF TeamInv, Types
    <2>4. \A x \in Team \ {m} : Untouched(x)
      BY <1>0, <1>2, <2>2 DEF Untouched
    <2> QED BY <1>0, <1>2, <2>1, <2>2, <2>3, <2>4, MasterEnds
  <1>3. CASE Exit(m) /\ UNCHANGED <<robots, down>>
    <2>2. pc' = [pc EXCEPT ![m] = "exited"] /\ file' = Nobody /\ link' = link
          /\ backlog' = [backlog EXCEPT ![m] = <<>>]
      BY <1>0, <1>3 DEF Exit
    <2>3. Types'
      <3>1. pc' \in [Team -> Labels] /\ backlog' \in [Team -> Seq(Team)]
        BY <1>0, <2>2 DEF Labels
      <3> QED BY <1>0, <1>3, <2>2, <3>1 DEF TeamInv, Types
    <2>4. \A x \in Team \ {m} : Untouched(x)
      BY <1>0, <1>3, <2>2 DEF Untouched
    <2> QED BY <1>0, <1>3, <2>2, <2>3, <2>4, MasterEnds
  <1> QED BY <1>1, <1>2, <1>3, <1>p DEF Accept

\* The connections of a master, when no client of it moves.
LEMMA ConnectedKept ==
    ASSUME TeamInv, NEW m \in Team, Listening(m), robots'[m] = robots[m], link' = link,
           \A x \in Team \ {m} : pc'[x] = pc[x]
    PROVE  Connected(m)'
  <1>1. \A i \in 2 .. Len(robots[m]) : pc'[robots[m][i]] = pc[robots[m][i]]
    BY LeaderFacts
  <1> QED BY <1>1, LeaderFacts DEF Connected, Ended

\* The master reads a line from the engine outside of a game.
LEMMA MasterCommandStep ==
    ASSUME TeamInv, NEW m \in Team, ReadCommand(m), pc[m] = "serving"
    PROVE  TeamInv'
  <1>0. /\ pc \in [Team -> Labels] /\ Own(m) /\ stdin[m] # <<>> /\ Listening(m)
        /\ pc[m] \in ServerStates
        /\ stdin' = [stdin EXCEPT ![m] = Tail(@)] /\ UNCHANGED <<robots, up, down, crashes>>
        /\ hits \in [Team -> Nat] /\ struck \in [Team -> BOOLEAN] /\ ordered \in [Team -> BOOLEAN]
        /\ alive \in [Team -> BOOLEAN] /\ current \in [Team -> Nat]
    BY DEF ReadCommand, TeamInv, Types, outside, Listening, ServerStates
  <1>r. /\ stdin' \in [Team -> Seq(Messages)]
        /\ Paired(stdin'[m])
        /\ stdin'[m] # <<>> /\ stdin'[m][1] = "Absolute" => Head(stdin[m]) = "GameStarts"
        /\ \A x \in Team \ {m} : stdin'[x] = stdin[x]
    BY <1>0, ReadsLine
  <1>g. \A y \in Team : ~ InGame(m, y)
    BY DEF InGame
  <1>l. ASSUME NEW x \in Members(robots[m]), x \in Team, x # m
        PROVE  Led(m, x) /\ ~ Waiting(x) /\ ~ (pc[x] = "tips" /\ down[x] # <<>>)
    BY <1>0, <1>g, <1>l, MemberLed DEF Led
  <1>1. CASE /\ Head(stdin[m]) = "GameStarts"
             /\ UNCHANGED <<pc, startup, alive, current>>
             /\ coordinator' = [x \in Team |-> IF x \in Members(robots[m])
                                               THEN Reset(coordinator[x])
                                               ELSE coordinator[x]]
             /\ hits' = [hits EXCEPT ![m] = 0]
             /\ ordered' = [ordered EXCEPT ![m] = FALSE]
             /\ struck' = [struck EXCEPT ![m] = FALSE]
    <2>1. /\ hits'[m] = 0 /\ ordered'[m] = FALSE /\ struck'[m] = FALSE
          /\ hits' \in [Team -> Nat] /\ ordered' \in [Team -> BOOLEAN]
          /\ struck' \in [Team -> BOOLEAN] /\ DOMAIN coordinator' = Team
      BY <1>0, <1>1
    <2>2. \A x \in Team : coordinator'[x] = IF x \in Members(robots[m]) THEN NewCoordinator
                                                                     ELSE coordinator[x]
      BY <1>1 DEF Reset
    <2>3. Types'
      BY <1>0, <1>1, <1>r, <2>1 DEF TeamInv, Types, startup
    <2>4. \A x \in Team \ {m} : Untouched(x)
      BY <1>0, <1>1, <1>r DEF Untouched
    <2>5. \A x \in Team \ {m} : Own(x)'
      BY <1>0, <2>2, <2>4, OtherKept
    <2>6. Own(m)'
      <3>1. Fresh(m)'
        BY <1>0, <2>1, <2>2, LeaderFacts DEF Fresh
      <3>2. Announced(m)'
        BY <1>0, <1>1, <1>r, <3>1 DEF Announced, InMainLoop
      <3>3. coordinator'[m] = [rotate |-> FALSE, tips |-> <<>>]
        BY <1>0, <2>2, LeaderFacts DEF NewCoordinator
      <3>4. coordinator'[m] \in Coordinators
        BY <3>3 DEF Coordinators
      <3>5. OwnRobot(m)'
        BY <2>1, <3>3, <3>4 DEF OwnRobot, Obeyed
      <3> QED BY <1>0, <1>1, <3>2, <3>5 DEF Own, Starting, Obedient, Clients
    <2>7. Leading(m)'
      <3>1. Connected(m)'
        BY <1>0, <1>1, ConnectedKept DEF startup
      <3>2. Queued(m)' /\ Round(m)'
        BY <1>1 DEF Queued, Round
      <3>3. ASSUME NEW x \in Members(robots[m]), x \in Team, x # m PROVE Led(m, x)'
        <4>1. ~ InGame(m, x)'
          BY <1>1 DEF InGame
        <4>2. Untouched(x) /\ Led(m, x) /\ ~ Waiting(x) /\ ~ (pc[x] = "tips" /\ down[x] # <<>>)
          BY <1>l, <2>4, <3>3
        <4> QED BY <1>0, <1>g, <4>1, <4>2, <3>3 DEF Led, Untouched, Waiting, Gone, Ended
      <3>4. ASSUME NEW i \in 2 .. Len(robots[m]) PROVE Led(m, robots[m][i])'
        BY <1>0, <3>3, LeaderFacts
      <3> QED BY <1>0, <3>1, <3>2, <3>4 DEF Leading
    <2> QED BY <1>0, <1>1, <2>3, <2>5, <2>6, <2>7, MasterStep DEF startup
  <1>2. CASE /\ Head(stdin[m]) \in {"GameFinishes", "DebugLevel"}
             /\ UNCHANGED <<pc, startup, alive, current, coordinator, player>>
    <2>3. Types'
      BY <1>0, <1>2, <1>r DEF TeamInv, Types, startup, player
    <2>4. \A x \in Team \ {m} : Untouched(x)
      BY <1>0, <1>2, <1>r DEF Untouched, player
    <2>5. \A x \in Team \ {m} : Own(x)'
      BY <1>0, <1>2, <2>4, OtherKept
    <2>6. Own(m)'
      <3>1. Announced(m)'
        BY <1>2, <1>r DEF Announced
      <3> QED BY <1>0, <1>2, <3>1 DEF Own, Starting, Obedient, OwnRobot, player
    <2>7. Leading(m)'
      <3>1. Connected(m)'
        BY <1>0, <1>2, ConnectedKept DEF startup
      <3>2. Queued(m)' /\ Round(m)'
        BY <1>2 DEF Queued, Round
      <3>3. ASSUME NEW x \in Members(robots[m]), x \in Team, x # m PROVE Led(m, x)'
        <4>1. ~ InGame(m, x)'
          BY <1>2 DEF InGame
        <4> QED BY <1>0, <1>2, <1>g, <1>l, <2>4, <3>3, <4>1, LedKept
      <3>4. ASSUME NEW i \in 2 .. Len(robots[m]) PROVE Led(m, robots[m][i])'
        BY <1>0, <3>3, LeaderFacts
      <3> QED BY <1>0, <3>1, <3>2, <3>4 DEF Leading
    <2> QED BY <1>0, <1>2, <2>3, <2>5, <2>6, <2>7, MasterStep DEF startup
  <1>3. CASE /\ Head(stdin[m]) = "Absolute"
             /\ Goto(m, IF pc[m] = "serving" THEN "reading" ELSE "round")
             /\ alive' = [x \in Team |-> x \in Members(robots[m]) \/ alive[x]]
             /\ current' = [current EXCEPT ![m] = 1]
             /\ UNCHANGED <<coordinator, player>>
    <2>1. pc' = [pc EXCEPT ![m] = "reading"] /\ UNCHANGED startup /\ pc'[m] = "reading"
      BY <1>0, <1>3 DEF Goto
    <2>2. /\ alive' \in [Team -> BOOLEAN] /\ \A x \in Members(robots[m]) : alive'[x]
          /\ current' \in [Team -> Nat] /\ current'[m] = 1
      BY <1>0, <1>3, LeaderFacts
    <2>3. Fresh(m)
      <3>1. stdin[m][1] = "Absolute"
        BY <1>0, <1>3, TailIs DEF TeamInv, Types
      <3> QED BY <1>0, <3>1 DEF Own, Announced, Ended
    <2>4. Types'
      <3>1. pc' \in [Team -> Labels]
        BY <1>0, <2>1 DEF Labels, ServerStates
      <3> QED BY <1>0, <1>3, <1>r, <2>1, <2>2, <3>1 DEF TeamInv, Types, startup, player
    <2>5. \A x \in Team \ {m} : Untouched(x)
      BY <1>0, <1>3, <1>r, <2>1 DEF Untouched, player
    <2>6. \A x \in Team \ {m} : Own(x)'
      BY <1>0, <1>3, <2>5, OtherKept
    <2>7. Own(m)'
      <3>1. Announced(m)'
        BY <1>3, <1>r DEF Announced
      <3> QED BY <1>0, <1>3, <2>1, <3>1 DEF Own, Starting, Obedient, OwnRobot, player,
                 ServerStates, Clients
    <2>8. Leading(m)'
      <3>1. Connected(m)'
        BY <1>0, <2>1, <2>5, ConnectedKept DEF startup, Untouched
      <3>2. Queued(m)'
        BY <2>1 DEF Queued
      <3>3. Round(m)'
        <4>1. 1 \in 1 .. Len(robots[m]) /\ robots[m][1] = m /\ alive'[m]
          BY <1>0, <2>2, LeaderFacts DEF Connected
        <4>2. Living(m, alive)' \subseteq 1 .. Len(robots[m]) /\ 1 \in Living(m, alive)'
          BY <1>0, <4>1 DEF Living
        <4>3. \A i \in Living(m, alive)' : ~ (i < 1)
          BY <1>0, <4>2, LeaderFacts
        <4> QED BY <2>1, <2>2, <4>2, <4>3 DEF Round
      <3>4. ASSUME NEW x \in Members(robots[m]), x \in Team, x # m PROVE Led(m, x)'
        <4>1. Led(m, x) /\ ~ Waiting(x) /\ ~ (pc[x] = "tips" /\ down[x] # <<>>) /\ ~ InGame(m, x)
          BY <1>g, <1>l, <3>4
        <4>2. coordinator'[x] = [rotate |-> FALSE, tips |-> <<>>] /\ coordinator'[x] = NewCoordinator
          BY <1>3, <2>3, <3>4 DEF Fresh, NewCoordinator
        <4>3. Untouched(x) /\ Gone(x)' = Gone(x)
          BY <1>0, <2>5, <3>4 DEF Gone, Ended, Untouched
        <4>4. pc[x] = "round" \/ (pc[x] = "tips" /\ up[x] # <<>>) => ordered[x] = FALSE
          BY <4>1 DEF Led
        <4> QED BY <4>1, <4>2, <4>3, <4>4 DEF Led, Untouched, Waiting
      <3>5. ASSUME NEW i \in 2 .. Len(robots[m]) PROVE Led(m, robots[m][i])'
        BY <1>0, <3>4, LeaderFacts
      <3> QED BY <1>0, <3>1, <3>2, <3>3, <3>5 DEF Leading
    <2> QED BY <1>0, <2>1, <2>4, <2>5, <2>6, <2>7, <2>8, MasterStep DEF startup, ServerStates,
               Untouched
  <1>4. CASE /\ Head(stdin[m]) \notin {"GameStarts", "GameFinishes", "DebugLevel", "Absolute"}
             /\ Exit(m)
             /\ UNCHANGED <<alive, current, coordinator, player>>
    <2>1. pc' = [pc EXCEPT ![m] = "exited"] /\ file' = Nobody /\ link' = link
          /\ backlog' = [backlog EXCEPT ![m] = <<>>]
      BY <1>0, <1>4 DEF Exit
    <2>2. Types'
      <3>1. pc' \in [Team -> Labels] /\ backlog' \in [Team -> Seq(Team)]
        BY <1>0, <2>1 DEF Labels, TeamInv, Types
      <3> QED BY <1>0, <1>4, <1>r, <2>1, <3>1 DEF TeamInv, Types, player
    <2>3. \A x \in Team \ {m} : Untouched(x)
      BY <1>0, <1>4, <1>r, <2>1 DEF Untouched, player
    <2> QED BY <1>0, <1>4, <1>r, <2>1, <2>2, <2>3, MasterEnds
  <1> QED BY <1>1, <1>2, <1>3, <1>4 DEF ReadCommand

\* The robot at `current' has reported: the positions before the next one have too.
LEMMA NextRobotIs ==
    ASSUME TeamInv, NEW m \in Team, pc[m] = "reading", NEW y \in Team,
           y = robots[m][current[m]],
           NEW lives \in [Team -> BOOLEAN], \A x \in Team \ {y} : lives[x] = alive[x],
           NextRobot(m, lives), robots' = robots,
           \A x \in Team \ {m, y} : Gone(x) \/ Waiting(x) => Gone(x)' \/ Waiting(x)',
           y # m /\ lives[y] => Gone(y)' \/ Waiting(y)'
    PROVE  /\ alive' = lives /\ UNCHANGED startup
           /\ pc'[m] \in {"reading", "tipping", "serving"} /\ pc' \in [Team -> Labels]
           /\ \A x \in Team \ {m} : pc'[x] = pc[x]
           /\ current' \in [Team -> Nat]
           /\ Round(m)'
           /\ \A x \in Members(robots[m]) \ {y} : up'[x] = up[x] =>
                 (InGame(m, x)' <=> InGame(m, x))
           /\ lives[y] => pc'[m] \in {"reading", "tipping"}
  <1>l. Listening(m) /\ pc \in [Team -> Labels] /\ current \in [Team -> Nat]
    BY DEF Listening, ServerStates, TeamInv, Types
  <1>k. PICK k \in Nat : k = current[m]
    BY <1>l
  <1>n. PICK n \in Nat : n = Len(robots[m])
    BY <1>l, LeaderFacts
  <1>f. /\ k \in 1 .. n /\ alive[y] /\ robots[m] \in Seq(Team)
        /\ \A i, j \in 1 .. n : robots[m][i] = robots[m][j] => i = j
        /\ \A i \in 1 .. n : robots[m][i] \in Team
    BY <1>l, <1>k, <1>n, LeaderFacts DEF Round, Living, Connected
  <1> DEFINE alives == Living(m, lives)
             later == {i \in alives : i > k}
  <1>a. alives \subseteq 1 .. n /\ later \subseteq 1 .. n
    BY <1>n DEF Living
  <1>b. \A i \in 1 .. n : i \in alives <=> lives[robots[m][i]]
    BY <1>n DEF Living
  <1>s. ASSUME NEW i \in alives, i <= k, NEW x \in Team, x = robots[m][i], x # m
        PROVE  Gone(x)' \/ Waiting(x)'
    <2>1. CASE i = k
      BY <1>b, <1>a, <1>k, <1>s, <2>1
    <2>2. CASE i # k
      <3>1. i \in 1 .. n /\ i < k /\ x # y
        BY <1>a, <1>f, <1>k, <1>s, <2>2
      <3>2. alive[x]
        BY <1>b, <1>s, <3>1
      <3>3. i \in Living(m, alive)
        BY <1>n, <1>s, <3>1, <3>2 DEF Living
      <3>4. Gone(x) \/ Waiting(x)
        BY <1>k, <1>l, <1>s, <3>1, <3>3, LeaderFacts DEF Round
      <3> QED BY <1>s, <3>1, <3>4
    <2> QED BY <2>1, <2>2
  <1>0. alive' = lives /\ Living(m, alive)' = alives
    BY DEF NextRobot, Living
  <1>g. ASSUME NEW x \in Members(robots[m]) \ {y} PROVE alive'[x] = alive[x]
    BY <1>0, <1>l, LeaderFacts
  <1>r. ASSUME NEW j \in alives, current'[m] = j, \A i \in alives : i < j => i <= k,
               pc'[m] = "reading" \/ (pc'[m] = "tipping" /\ j <= k)
        PROVE  Round(m)'
    <2> SUFFICES ASSUME NEW i \in alives, robots[m][i] # m,
                        i < j \/ (i = j /\ pc'[m] = "tipping")
        PROVE  (Gone(robots[m][i]) \/ Waiting(robots[m][i]))'
      BY <1>0, <1>r DEF Round
    <2>1. i <= k
      BY <1>r
    <2>2. robots[m][i] \in Team
      BY <1>a, <1>f
    <2>3. ASSUME NEW x \in Team, x = robots[m][i] PROVE Gone(x)' \/ Waiting(x)'
      BY <1>s, <2>1, <2>3
    <2> QED BY <2>2, <2>3
  <1> HIDE DEF alives, later
  <1>1. CASE later # {}
    <2>1. current' = [current EXCEPT ![m] = First(later)] /\ UNCHANGED <<pc, startup>>
      BY <1>1, <1>k DEF NextRobot, later, alives
    <2>2. First(later) \in later /\ \A j \in later : First(later) <= j
      BY <1>1, <1>a, FirstIs
    <2>p. PICK j \in later : j = First(later)
      BY <2>2
    <2>3. j \in alives /\ j \in Nat /\ \A i \in alives : i < j => i <= k
      BY <1>a, <2>2, <2>p DEF later
    <2>4. current'[m] = j /\ current' \in [Team -> Nat] /\ pc'[m] = "reading"
      BY <1>l, <2>1, <2>3, <2>p
    <2>5. Round(m)'
      BY <1>r, <2>3, <2>4
    <2>6. ASSUME NEW x \in Members(robots[m]) \ {y}, up'[x] = up[x]
          PROVE  InGame(m, x)' <=> InGame(m, x)
      BY <1>g, <2>1, <2>6 DEF InGame
    <2> QED BY <1>0, <1>l, <2>1, <2>4, <2>5, <2>6
  <1>2. CASE later = {} /\ alives # {}
    <2>1. current' = [current EXCEPT ![m] = Last(alives)] /\ UNCHANGED startup
          /\ pc' = [pc EXCEPT ![m] = "tipping"]
      BY <1>2, <1>k DEF NextRobot, later, alives, Goto
    <2>2. Last(alives) \in alives /\ \A j \in alives : j <= Last(alives)
      BY <1>2, <1>a, LastIs
    <2>p. PICK j \in alives : j = Last(alives)
      BY <2>2
    <2>3. j \in alives /\ j \in Nat /\ \A i \in alives : i <= k
      BY <1>2, <1>a DEF later
    <2>4. current'[m] = j /\ current' \in [Team -> Nat] /\ pc'[m] = "tipping"
          /\ pc' \in [Team -> Labels] /\ \A x \in Team \ {m} : pc'[x] = pc[x]
      BY <1>l, <2>1, <2>3, <2>p DEF Labels, ServerStates
    <2>5. Round(m)'
      BY <1>r, <2>3, <2>4
    <2>6. ASSUME NEW x \in Members(robots[m]) \ {y}, up'[x] = up[x]
          PROVE  InGame(m, x)' <=> InGame(m, x)
      BY <1>g, <2>4, <2>6 DEF InGame
    <2> QED BY <1>0, <1>l, <2>1, <2>4, <2>5, <2>6
  <1>3. CASE alives = {}
    <2>1. UNCHANGED current /\ UNCHANGED startup /\ pc' = [pc EXCEPT ![m] = "serving"]
      BY <1>3, <1>k DEF NextRobot, later, alives, Goto
    <2>2. pc'[m] = "serving" /\ pc' \in [Team -> Labels] /\ \A x \in Team \ {m} : pc'[x] = pc[x]
      BY <1>l, <2>1 DEF Labels, ServerStates
    <2>3. Round(m)'
      BY <2>2 DEF Round
    <2>4. ASSUME NEW x \in Members(robots[m]) \ {y} PROVE ~ InGame(m, x)' /\ ~ InGame(m, x)
      <3>1. PICK i \in 1 .. n : robots[m][i] = x
        BY <1>n DEF Members
      <3>2. ~ lives[x]
        BY <1>3, <1>b, <3>1
      <3>3. ~ alive[x]
        BY <1>0, <1>g, <3>2
      <3> QED BY <2>2, <3>3 DEF InGame
    <2>5. ~ lives[y]
      BY <1>3, <1>b, <1>f, <1>k
    <2> QED BY <1>0, <1>l, <2>1, <2>2, <2>3, <2>4, <2>5
  <1> QED BY <1>1, <1>2, <1>3

\* The master collides: its own coordinator has one tip more.
LEMMA OwnCollision ==
    ASSUME NEW m \in Team, pc[m] \in ServerStates, OwnRobot(m), struck[m] \in BOOLEAN,
           hits[m] \in Nat, hits'[m] = hits[m] + 1, struck'[m] = ~ struck[m],
           ordered'[m] = ordered[m], coordinator'[m] = Collided(coordinator[m])
    PROVE  OwnRobot(m)'
  <1>1. PICK co \in Coordinators : co = coordinator[m]
    BY DEF OwnRobot
  <1>2. co.rotate \in BOOLEAN /\ co.tips \in Seq(Lines) /\ struck[m] = co.rotate
    BY <1>1 DEF OwnRobot, Coordinators
  <1> DEFINE tip == IF co.rotate THEN "STOPROTATION" ELSE "STARTROTATION"
             new == Append(co.tips, tip)
  <1>3. tip \in Lines
    BY DEF Lines
  <1>4. /\ new \in Seq(Lines) /\ new # <<>>
        /\ Len(new) = Len(co.tips) + 1 /\ Len(co.tips) \in Nat
        /\ new[Len(co.tips) + 1] = tip
    <2> HIDE DEF tip
    <2> QED BY <1>2, <1>3, AppendIs
  <1>5. coordinator'[m] = [rotate |-> ~ co.rotate, tips |-> new]
    BY <1>1 DEF Collided
  <1>6. coordinator'[m] \in Coordinators
    <2> HIDE DEF new
    <2> QED BY <1>2, <1>4, <1>5 DEF Coordinators
  <1>7. (new[Len(new)] = "STARTROTATION") = ~ co.rotate
    <2>1. new[Len(new)] = tip
      BY <1>4
    <2> QED BY <2>1, <1>2
  <1>8. coordinator'[m].rotate = ~ co.rotate /\ coordinator'[m].tips = new
    BY <1>5
  <1>9. Obeyed(ordered'[m], coordinator'[m].tips) = ~ co.rotate
    <2> HIDE DEF new
    <2> QED BY <1>4, <1>7, <1>8 DEF Obeyed
  <1>10. struck'[m] = ~ co.rotate /\ hits'[m] # 0
    BY <1>2
  <1> HIDE DEF new
  <1> QED BY <1>6, <1>8, <1>9, <1>10, Zenon DEF OwnRobot

\* The robots of a master for which nothing changes.
LEMMA LedAllKept ==
    ASSUME TeamInv, NEW m \in Team, Listening(m), robots' = robots, crashes' = crashes,
           \A x \in Members(robots[m]) \ {m} : Untouched(x) /\ coordinator'[x] = coordinator[x]
                                              /\ (InGame(m, x)' <=> InGame(m, x))
    PROVE  \A i \in 2 .. Len(robots'[m]) : Led(m, robots[m][i])'
  <1>1. ASSUME NEW x \in Members(robots[m]) \ {m} PROVE Led(m, x)'
    BY <1>1, MemberLed, LeaderFacts, LedKept
  <1> SUFFICES ASSUME NEW i \in 2 .. Len(robots[m]) PROVE Led(m, robots[m][i])'
    OBVIOUS
  <1>2. robots[m][i] \in Members(robots[m]) \ {m}
    BY LeaderFacts
  <1> QED BY <1>1, <1>2

\* The master reads a line from the engine to itself.
LEMMA ReadOwnStep == ASSUME TeamInv, NEW m \in Team, ReadOwn(m) PROVE TeamInv'
  <1>0. /\ pc \in [Team -> Labels] /\ Own(m) /\ stdin[m] # <<>> /\ Listening(m)
        /\ pc[m] = "reading" /\ pc[m] \in ServerStates /\ robots[m][current[m]] = m
        /\ stdin' = [stdin EXCEPT ![m] = Tail(@)] /\ UNCHANGED <<robots, up, down, crashes>>
        /\ hits \in [Team -> Nat] /\ struck \in [Team -> BOOLEAN] /\ ordered \in [Team -> BOOLEAN]
        /\ alive \in [Team -> BOOLEAN] /\ current \in [Team -> Nat] /\ DOMAIN coordinator = Team
    BY DEF ReadOwn, TeamInv, Types, outside, Listening, ServerStates
  <1>r. /\ stdin' \in [Team -> Seq(Messages)]
        /\ Paired(stdin'[m])
        /\ stdin'[m] # <<>> /\ stdin'[m][1] = "Absolute" => Head(stdin[m]) = "GameStarts"
        /\ \A x \in Team \ {m} : stdin'[x] = stdin[x]
    BY <1>0, ReadsLine
  <1>1. CASE /\ Head(stdin[m]) = "Collision" /\ Collide(m)
             /\ coordinator' = [coordinator EXCEPT ![m] = Collided(@)]
             /\ UNCHANGED <<pc, startup, alive, current>>
    <2>1. /\ hits'[m] = hits[m] + 1 /\ struck'[m] = ~ struck[m] /\ UNCHANGED ordered
          /\ hits' \in [Team -> Nat] /\ struck' \in [Team -> BOOLEAN]
          /\ coordinator'[m] = Collided(coordinator[m]) /\ DOMAIN coordinator' = Team
          /\ \A x \in Team \ {m} : hits'[x] = hits[x] /\ struck'[x] = struck[x]
                                  /\ coordinator'[x] = coordinator[x]
      BY <1>0, <1>1 DEF Collide
    <2>2. Types'
      BY <1>0, <1>1, <1>r, <2>1 DEF TeamInv, Types, startup
    <2>3. \A x \in Team \ {m} : Untouched(x)
      BY <1>0, <1>1, <1>r, <2>1 DEF Untouched
    <2>4. \A x \in Team \ {m} : Own(x)'
      BY <1>0, <2>1, <2>3, OtherKept, LeaderFacts
    <2>5. Own(m)'
      <3>1. Announced(m)'
        BY <1>1, <1>r DEF Announced
      <3>2. OwnRobot(m)'
        <4>1. struck[m] \in BOOLEAN /\ hits[m] \in Nat /\ OwnRobot(m)
          BY <1>0 DEF Own
        <4> QED BY <1>0, <2>1, <4>1, OwnCollision
      <3> QED BY <1>0, <1>1, <3>1, <3>2 DEF Own, Starting, Obedient, ServerStates, Clients
    <2>6. Leading(m)'
      <3>1. Connected(m)'
        BY <1>0, <1>1, ConnectedKept DEF startup
      <3>2. Queued(m)'
        BY <1>0, <1>1 DEF Queued
      <3>3. ASSUME NEW x \in Team \ {m}, Gone(x) \/ Waiting(x) PROVE Gone(x)' \/ Waiting(x)'
        BY <1>0, <2>3, <3>3 DEF Gone, Ended, Waiting, Untouched
      <3>4. Round(m)'
        <4>1. Living(m, alive)' = Living(m, alive)
          BY <1>0, <1>1 DEF Living
        <4>2. ASSUME NEW i \in Living(m, alive), robots[m][i] # m,
                     Gone(robots[m][i]) \/ Waiting(robots[m][i])
              PROVE  (Gone(robots[m][i]) \/ Waiting(robots[m][i]))'
          <5>1. robots[m][i] \in Team \ {m}
            BY <1>0, <4>2, LeaderFacts DEF Living
          <5> QED BY <1>0, <3>3, <4>2, <5>1
        <4> QED BY <1>0, <1>1, <4>1, <4>2, LeaderFacts DEF Round
      <3>5. \A i \in 2 .. Len(robots'[m]) : Led(m, robots[m][i])'
        <4>1. ASSUME NEW x \in Members(robots[m]) \ {m}
              PROVE  Untouched(x) /\ coordinator'[x] = coordinator[x]
                     /\ (InGame(m, x)' <=> InGame(m, x))
          BY <1>0, <1>1, <2>1, <2>3, LeaderFacts DEF InGame
        <4> QED BY <1>0, <4>1, LedAllKept
      <3> QED BY <3>1, <3>2, <3>4, <3>5 DEF Leading
    <2> QED BY <1>0, <1>1, <2>2, <2>4, <2>5, <2>6, MasterStep DEF startup
  <1>2. CASE /\ Head(stdin[m]) \in {"Energy", "Dead"}
             /\ NextRobot(m, [alive EXCEPT ![m] = Head(stdin[m]) = "Energy"])
             /\ UNCHANGED <<coordinator, player>>
    <2>1. PICK lives \in [Team -> BOOLEAN] :
            lives = [alive EXCEPT ![m] = Head(stdin[m]) = "Energy"]
      BY <1>0
    <2>2. \A x \in Team \ {m} : lives[x] = alive[x]
      BY <1>0, <2>1
    <2>3. NextRobot(m, lives)
      BY <1>2, <2>1
    <2>4. /\ alive' = lives /\ UNCHANGED startup
          /\ pc'[m] \in {"reading", "tipping", "serving"} /\ pc' \in [Team -> Labels]
          /\ \A x \in Team \ {m} : pc'[x] = pc[x]
          /\ current' \in [Team -> Nat]
          /\ Round(m)'
          /\ \A x \in Members(robots[m]) \ {m} : up'[x] = up[x] =>
                (InGame(m, x)' <=> InGame(m, x))
      <3>1. ASSUME NEW x \in Team \ {m}, Gone(x) \/ Waiting(x), pc'[x] = pc[x]
            PROVE  Gone(x)' \/ Waiting(x)'
        BY <1>0, <3>1 DEF Gone, Ended, Waiting
      <3>2. \A x \in Team \ {m} : pc'[x] = pc[x]
        BY <1>0, <2>3 DEF NextRobot, Goto
      <3>3. \A x \in Team \ {m, m} : Gone(x) \/ Waiting(x) => Gone(x)' \/ Waiting(x)'
        BY <3>1, <3>2
      <3>4. robots' = robots /\ m = robots[m][current[m]] /\ pc[m] = "reading"
        BY <1>0
      <3> QED BY <2>2, <2>3, <3>3, <3>4, NextRobotIs
    <2>5. Types'
      BY <1>0, <1>2, <1>r, <2>4 DEF TeamInv, Types, startup, player
    <2>6. \A x \in Team \ {m} : Untouched(x)
      BY <1>0, <1>2, <1>r, <2>4 DEF Untouched, player
    <2>7. \A x \in Team \ {m} : Own(x)'
      BY <1>0, <1>2, <2>6, OtherKept
    <2>8. Own(m)'
      <3>1. Announced(m)'
        BY <1>2, <1>r DEF Announced
      <3> QED BY <1>0, <1>2, <2>4, <3>1 DEF Own, Starting, Obedient, OwnRobot, player,
                 ServerStates, Clients
    <2>9. Leading(m)'
      <3>1. Connected(m)'
        BY <1>0, <2>4, ConnectedKept DEF startup
      <3>2. Queued(m)'
        BY <2>4 DEF Queued
      <3>3. \A i \in 2 .. Len(robots'[m]) : Led(m, robots[m][i])'
        <4>1. ASSUME NEW x \in Members(robots[m]) \ {m}
              PROVE  Untouched(x) /\ coordinator'[x] = coordinator[x]
                     /\ (InGame(m, x)' <=> InGame(m, x))
          BY <1>0, <1>2, <2>4, <2>6, LeaderFacts
        <4> QED BY <1>0, <4>1, LedAllKept
      <3> QED BY <2>4, <3>1, <3>2, <3>3 DEF Leading
    <2> QED BY <1>0, <2>4, <2>5, <2>7, <2>8, <2>9, MasterStep DEF startup, ServerStates
  <1>3. CASE /\ Head(stdin[m]) \notin {"Collision", "Energy", "Dead"}
             /\ Exit(m)
             /\ UNCHANGED <<alive, current, coordinator, player>>
    <2>1. pc' = [pc EXCEPT ![m] = "exited"] /\ file' = Nobody /\ link' = link
          /\ backlog' = [backlog EXCEPT ![m] = <<>>]
      BY <1>0, <1>3 DEF Exit
    <2>2. Types'
      <3>0. backlog \in [Team -> Seq(Team)] /\ <<>> \in Seq(Team)
        BY DEF TeamInv, Types
      <3>1. pc' \in [Team -> Labels] /\ backlog' \in [Team -> Seq(Team)]
        BY <1>0, <2>1, <3>0 DEF Labels
      <3>2. UNCHANGED <<alive, current, coordinator, hits, ordered, struck>>
        BY <1>3 DEF player
      <3> QED BY <1>0, <1>r, <2>1, <3>1, <3>2 DEF TeamInv, Types
    <2>3. \A x \in Team \ {m} : Untouched(x)
      BY <1>0, <1>3, <1>r, <2>1 DEF Untouched, player
    <2> QED BY <1>0, <1>3, <1>r, <2>1, <2>2, <2>3, MasterEnds
  <1> QED BY <1>1, <1>2, <1>3 DEF ReadOwn

Reports == [hits : Nat, dead : BOOLEAN]

\* The report of a client that is dead: its master plays without it.
LEMMA DeadReport ==
    ASSUME TeamInv, NEW m \in Team, Listening(m), NEW c \in Team \ {m}, Led(m, c),
           up[c] # <<>>, up[c][1].dead, up' = [up EXCEPT ![c] = Tail(@)],
           ~ alive'[c], pc'[c] = pc[c], crashes' = crashes, UNCHANGED <<down, ordered, struck>>
    PROVE  Led(m, c)'
  <1>1. up \in [Team -> Seq([hits : Nat, dead : BOOLEAN])]
    BY DEF TeamInv, Types
  <1>2. up'[c] = Tail(up[c])
    BY <1>1
  <1>u. PICK u \in Seq(Reports) : u = up[c]
    BY <1>1 DEF Reports
  <1>3. PICK n \in Nat : n = Len(up[c])
    BY <1>u
  <1>4. /\ n # 0 /\ Len(up'[c]) = n - 1 /\ up'[c] \in Seq(Reports)
        /\ \A i \in 1 .. n - 1 : up'[c][i] = up[c][i + 1]
    <2>1. /\ Tail(u) \in Seq(Reports) /\ Len(Tail(u)) = Len(u) - 1
          /\ Len(u) \in Nat \ {0}
          /\ \A i \in 1 .. Len(u) - 1 : Tail(u)[i] = u[i + 1]
      BY <1>u, TailIs
    <2> QED BY <1>2, <1>3, <1>u, <2>1
  <1>5. up'[c] # <<>> => n > 1 /\ up'[c][Len(up'[c])] = up[c][Len(up[c])]
    <2> SUFFICES ASSUME up'[c] # <<>> PROVE n > 1 /\ up'[c][Len(up'[c])] = up[c][Len(up[c])]
      OBVIOUS
    <2>2. n > 1
      BY <1>4
    <2>3. n - 1 \in 1 .. n - 1 /\ (n - 1) + 1 = n
      BY <2>2
    <2> QED BY <1>3, <1>4, <2>2, <2>3
  <1>6. \A i \in 1 .. Len(up'[c]) - 1 : up'[c][i].dead
    <2>1. \A i \in 1 .. (n - 1) - 1 : i \in 1 .. n - 1 /\ i + 1 \in 1 .. n - 1
      BY <1>4
    <2>2. \A i \in 1 .. n - 1 : up[c][i].dead
      BY <1>3 DEF Led
    <2> QED BY <1>4, <2>1, <2>2
  <1>7. ~ InGame(m, c) /\ ~ InGame(m, c)'
    BY <1>3, <1>4 DEF InGame
  <1>8. ~ Waiting(c)'
    <2> SUFFICES ASSUME pc[c] = "tips", up'[c] = <<>> PROVE FALSE
      BY DEF Waiting
    <2>1. Len(up'[c]) = 0
      OBVIOUS
    <2>2. n = 1
      BY <1>4, <2>1
    <2> QED BY <1>3, <2>2 DEF Led
  <1>9. Gone(c)' <=> Gone(c)
    BY DEF Gone, Ended
  <1> QED BY <1>5, <1>6, <1>7, <1>8, <1>9 DEF Led

\* The report of a client that plays on: its master has the tips for it.
LEMMA LivingReport ==
    ASSUME TeamInv, NEW m \in Team, Listening(m), NEW c \in Team \ {m}, Led(m, c),
           pc[m] = "reading", alive[c],
           up[c] # <<>>, ~ up[c][1].dead, up' = [up EXCEPT ![c] = Tail(@)],
           coordinator'[c] = CollidedTimes(coordinator[c], up[c][1].hits),
           pc'[c] = pc[c], crashes' = crashes, UNCHANGED <<down, ordered, struck>>
    PROVE  /\ Gone(c)' \/ Waiting(c)'
           /\ pc'[m] \in {"reading", "tipping"} /\ alive'[c] => Led(m, c)'
  <1>1. up \in [Team -> Seq([hits : Nat, dead : BOOLEAN])] /\ ordered \in [Team -> BOOLEAN]
    BY DEF TeamInv, Types
  <1>2. up'[c] = Tail(up[c]) /\ ordered[c] \in BOOLEAN
    BY <1>1
  <1>u. PICK u \in Seq(Reports) : u = up[c]
    BY <1>1 DEF Reports
  <1>3. Len(up[c]) = 1
    <2>1. PICK n \in Nat \ {0} : n = Len(up[c])
      BY <1>u
    <2>2. n # 1 => 1 \in 1 .. n - 1
      OBVIOUS
    <2> QED BY <2>1, <2>2 DEF Led
  <1>4. up'[c] = <<>> /\ Len(up'[c]) = 0
    <2>1. Len(u) <= 1 /\ u # <<>>
      BY <1>u, <1>3
    <2>2. Tail(u) = <<>>
      BY <2>1, ShortIs
    <2>3. up'[c] = <<>>
      BY <1>2, <1>u, <2>2, Zenon
    <2>4. Len(<<>>) = 0
      OBVIOUS
    <2> QED BY <2>3, <2>4, Zenon
  <1>5. PICK n \in Nat : n = up[c][1].hits
    <2>1. u[1] \in Reports
      BY <1>u, <1>3
    <2>2. u[1].hits \in Nat
      BY <2>1 DEF Reports
    <2> QED BY <1>u, <2>2
  <1>6. Gone(c) \/ ( /\ pc[c] = "tips" /\ down[c] = <<>>
                     /\ struck[c] <=> Turned(ordered[c], n) )
    BY <1>3, <1>5 DEF Led
  <1>7. Gone(c)' <=> Gone(c)
    BY DEF Gone, Ended
  <1>8. Gone(c)' \/ Waiting(c)'
    BY <1>4, <1>6, <1>7 DEF Waiting
  <1>9. ASSUME pc'[m] \in {"reading", "tipping"}, alive'[c]
        PROVE  Led(m, c)'
    <2>1. InGame(m, c)'
      BY <1>4, <1>9 DEF InGame
    <2>2. CASE Gone(c)
      BY <1>4, <1>7, <2>2 DEF Led, Gone, Ended, Waiting
    <2>3. CASE ~ Gone(c)
      <3>1. InGame(m, c)
        BY <1>3 DEF InGame
      <3>2. coordinator[c] = [rotate |-> ordered[c], tips |-> <<>>]
        BY <1>6, <2>3, <3>1 DEF Led
      <3>3. coordinator'[c] = CollidedTimes([rotate |-> ordered[c], tips |-> <<>>], n)
        BY <1>5, <3>2
      <3>4. /\ coordinator'[c] \in Coordinators
            /\ coordinator'[c].rotate = Turned(ordered[c], n)
            /\ Obeyed(ordered[c], coordinator'[c].tips) = Turned(ordered[c], n)
        BY <1>2, <3>3, TipsOfReport
      <3>5. pc'[c] = "tips" /\ down'[c] = <<>> /\ (struck'[c] <=> Turned(ordered[c], n))
            /\ ordered'[c] = ordered[c]
        BY <1>6, <2>3
      <3>6. /\ struck'[c] <=> coordinator'[c].rotate
            /\ struck'[c] <=> Obeyed(ordered'[c], coordinator'[c].tips)
        BY <3>4, <3>5, Zenon
      <3> QED BY <1>4, <2>1, <3>4, <3>5, <3>6 DEF Led
    <2> QED BY <2>2, <2>3
  <1> QED BY <1>8, <1>9

\* The master reads the report of a client, or the end of its connection.
LEMMA ReadReportStep == ASSUME TeamInv, NEW m \in Team, ReadReport(m) PROVE TeamInv'
  <1>0. /\ pc \in [Team -> Labels] /\ Own(m) /\ Listening(m)
        /\ pc[m] = "reading" /\ pc[m] \in ServerStates /\ robots[m][current[m]] # m
        /\ UNCHANGED <<stdin, robots, down, hits, ordered, struck, crashes>>
        /\ alive \in [Team -> BOOLEAN] /\ current \in [Team -> Nat] /\ DOMAIN coordinator = Team
    BY DEF ReadReport, TeamInv, Types, player, outside, Listening, ServerStates
  <1>p. PICK c \in Team : c = robots[m][current[m]]
    <2>1. current[m] \in 1 .. Len(robots[m])
      BY <1>0, LeaderFacts DEF Round, Living
    <2> QED BY <1>0, <2>1, LeaderFacts
  <1>c. /\ c \in Team \ {m} /\ alive[c] /\ c \in Members(robots[m]) /\ Led(m, c)
        /\ Ended(c) \/ pc[c] \in Clients \ {"joining"}
    <2>1. current[m] \in 1 .. Len(robots[m]) /\ alive[c]
      BY <1>0, <1>p, LeaderFacts DEF Round, Living
    <2>2. c \in Members(robots[m]) /\ c # m
      BY <1>0, <1>p, <2>1 DEF Members
    <2> QED BY <1>0, <2>1, <2>2, MemberLed
  <1>1. CASE /\ up[c] # <<>>
             /\ up' = [up EXCEPT ![c] = Tail(@)]
             /\ coordinator' = [coordinator EXCEPT ![c] = CollidedTimes(@, Head(up[c]).hits)]
             /\ NextRobot(m, [alive EXCEPT ![c] = ~ Head(up[c]).dead])
    <2>u. up \in [Team -> Seq(Reports)]
      BY DEF TeamInv, Types, Reports
    <2>h. /\ Head(up[c]) = up[c][1] /\ up[c][1] \in Reports /\ Tail(up[c]) \in Seq(Reports)
      <3>1. up[c] \in Seq(Reports)
        BY <2>u
      <3> QED BY <1>1, <3>1, TailIs
    <2>b. up[c][1].dead \in BOOLEAN
      BY <2>h DEF Reports
    <2>1. /\ up' \in [Team -> Seq(Reports)] /\ \A x \in Team \ {c} : up'[x] = up[x]
          /\ DOMAIN coordinator' = Team
          /\ coordinator'[c] = CollidedTimes(coordinator[c], up[c][1].hits)
          /\ \A x \in Team \ {c} : coordinator'[x] = coordinator[x]
      BY <1>0, <1>1, <1>c, <2>u, <2>h
    <2>2. PICK lives \in [Team -> BOOLEAN] : lives = [alive EXCEPT ![c] = ~ up[c][1].dead]
      BY <1>0, <2>b
    <2>3. (lives[c] <=> ~ up[c][1].dead) /\ \A x \in Team \ {c} : lives[x] = alive[x]
      BY <1>0, <2>2
    <2>4. NextRobot(m, lives)
      BY <1>1, <2>2, <2>h
    <2>5. \A x \in Team \ {m} : pc'[x] = pc[x]
      BY <1>0, <2>4 DEF NextRobot, Goto
    <2>6. ~ up[c][1].dead =>
            /\ Gone(c)' \/ Waiting(c)'
            /\ pc'[m] \in {"reading", "tipping"} /\ alive'[c] => Led(m, c)'
      BY <1>0, <1>1, <1>c, <2>1, <2>5, LivingReport
    <2>7. /\ alive' = lives /\ UNCHANGED startup
          /\ pc'[m] \in {"reading", "tipping", "serving"} /\ pc' \in [Team -> Labels]
          /\ current' \in [Team -> Nat]
          /\ Round(m)'
          /\ \A x \in Members(robots[m]) \ {c} : up'[x] = up[x] =>
                (InGame(m, x)' <=> InGame(m, x))
          /\ lives[c] => pc'[m] \in {"reading", "tipping"}
      <3>1. ASSUME NEW x \in Team \ {m, c}, Gone(x) \/ Waiting(x) PROVE Gone(x)' \/ Waiting(x)'
        BY <1>0, <2>1, <2>5, <3>1 DEF Gone, Ended, Waiting
      <3>2. c # m /\ lives[c] => Gone(c)' \/ Waiting(c)'
        BY <2>3, <2>6
      <3>3. robots' = robots
        BY <1>0
      <3> QED BY <1>0, <1>p, <2>3, <2>4, <3>1, <3>2, <3>3, NextRobotIs
    <2>8. Led(m, c)'
      <3>1. CASE up[c][1].dead
        <4>1. ~ alive'[c]
          BY <2>3, <2>7, <3>1
        <4> QED BY <1>0, <1>1, <1>c, <2>5, <3>1, <4>1, DeadReport
      <3>2. CASE ~ up[c][1].dead
        BY <2>3, <2>6, <2>7, <3>2
      <3> QED BY <3>1, <3>2
    <2>9. Types'
      BY <1>0, <2>1, <2>7 DEF TeamInv, Types, startup, Reports
    <2>10. \A x \in Team \ {m, c} : Untouched(x)
      BY <1>0, <2>1, <2>5 DEF Untouched
    <2>11. \A x \in Team \ {m, c} : Own(x)'
      BY <1>0, <1>c, <2>1, <2>10, OtherKept
    <2>12. Own(m)'
      <3>1. up'[m] = up[m] /\ coordinator'[m] = coordinator[m]
        BY <1>c, <2>1
      <3>2. Announced(m)'
        BY <1>0 DEF Own, Announced, InMainLoop, Ended
      <3> QED BY <1>0, <2>7, <3>1, <3>2 DEF Own, Starting, Obedient, OwnRobot, ServerStates,
                 Clients
    <2>13. Own(c)'
      <3>1. Own(c) /\ pc'[c] = pc[c] /\ robots'[c] = robots[c]
        BY <1>0, <1>c, <2>5 DEF TeamInv
      <3>2. pc[c] \notin {"new", "bound", "joining", "greeting"} /\ pc[c] \notin ServerStates
        BY <1>1, <1>c, <3>1 DEF Own, Starting, Ended, Clients, ServerStates
      <3>3. Ended(c) \/ Members(robots[c]) = {}
        <4>1. Ended(c) \/ robots[c] = <<>>
          BY <1>c, <3>1 DEF Own, Starting
        <4>2. Members(<<>>) = {}
          BY DEF Members
        <4> QED BY <4>1, <4>2
      <3>4. Announced(c)'
        BY <1>0, <3>1, <3>3 DEF Own, Announced, Ended, InMainLoop, Fresh
      <3> QED BY <1>0, <3>1, <3>2, <3>4 DEF Own, Starting, Obedient, OwnRobot
    <2>14. Leading(m)'
      <3>1. Connected(m)'
        BY <1>0, <2>5, <2>7, ConnectedKept DEF startup
      <3>2. Queued(m)'
        BY <2>7 DEF Queued
      <3>3. ASSUME NEW x \in Members(robots[m]) \ {m, c} PROVE Led(m, x)'
        <4>1. x \in Team /\ Led(m, x)
          BY <1>0, MemberLed, LeaderFacts
        <4> QED BY <1>0, <2>1, <2>7, <2>10, <4>1, LedKept
      <3>4. ASSUME NEW i \in 2 .. Len(robots[m]) PROVE Led(m, robots[m][i])'
        <4>1. robots[m][i] \in Members(robots[m]) \ {m} /\ robots'[m][i] = robots[m][i]
          BY <1>0, LeaderFacts
        <4>2. CASE robots[m][i] = c
          BY <1>0, <2>8, <4>2
        <4>3. CASE robots[m][i] # c
          BY <1>0, <3>3, <4>1, <4>3
        <4> QED BY <4>2, <4>3
      <3> QED BY <1>0, <2>7, <3>1, <3>2, <3>4 DEF Leading
    <2> QED BY <1>0, <2>5, <2>7, <2>9, <2>11, <2>12, <2>13, <2>14, MasterStep DEF startup,
               ServerStates
  <1>2. CASE /\ up[c] = <<>> /\ Ended(c)
             /\ Exit(m)
             /\ UNCHANGED <<alive, current, coordinator, up>>
    <2>1. pc' = [pc EXCEPT ![m] = "exited"] /\ file' = Nobody /\ link' = link
          /\ backlog' = [backlog EXCEPT ![m] = <<>>]
      BY <1>0, <1>2 DEF Exit
    <2>2. Types'
      <3>0. backlog \in [Team -> Seq(Team)] /\ <<>> \in Seq(Team)
        BY DEF TeamInv, Types
      <3>1. pc' \in [Team -> Labels] /\ backlog' \in [Team -> Seq(Team)]
        BY <1>0, <2>1, <3>0 DEF Labels
      <3> QED BY <1>0, <1>2, <2>1, <3>1 DEF TeamInv, Types
    <2>3. \A x \in Team \ {m} : Untouched(x)
      BY <1>0, <1>2, <2>1 DEF Untouched
    <2>4. Paired(stdin[m])'
      BY <1>0 DEF Own, Announced
    <2> QED BY <1>0, <1>2, <2>1, <2>2, <2>3, <2>4, MasterEnds
  <1> QED BY <1>1, <1>2, <1>p DEF ReadReport

\* The tips of the robot at `current' are sent: the robots before it still wait.
LEMMA TipsRound ==
    ASSUME TeamInv, NEW m \in Team, pc[m] = "tipping", NEW x \in Team,
           x = robots[m][current[m]], UNCHANGED <<robots, alive, up>>,
           LET earlier == {i \in Living(m, alive) : i < current[m]} IN
             IF earlier # {}
             THEN /\ current' = [current EXCEPT ![m] = Last(earlier)]
                  /\ UNCHANGED <<pc, startup>>
             ELSE /\ current' = [current EXCEPT ![m] = First(Living(m, alive))]
                  /\ Goto(m, "reading"),
           \A y \in Team \ {m, x} : Gone(y) \/ Waiting(y) => Gone(y)' \/ Waiting(y)'
    PROVE  /\ pc' \in [Team -> Labels] /\ pc'[m] \in {"reading", "tipping"}
           /\ \A y \in Team \ {m} : pc'[y] = pc[y]
           /\ UNCHANGED startup /\ current' \in [Team -> Nat]
           /\ Round(m)'
           /\ \A y \in Team : InGame(m, y)' <=> InGame(m, y)
  <1>l. Listening(m) /\ pc \in [Team -> Labels] /\ current \in [Team -> Nat]
    BY DEF Listening, ServerStates, TeamInv, Types
  <1>k. PICK k \in Nat : k = current[m]
    BY <1>l
  <1>n. PICK n \in Nat : n = Len(robots[m])
    BY <1>l, LeaderFacts
  <1> DEFINE alives == Living(m, alive)
             earlier == {i \in alives : i < k}
  <1>f. /\ k \in alives
        /\ \A i, j \in 1 .. n : robots[m][i] = robots[m][j] => i = j
        /\ \A i \in 1 .. n : robots[m][i] \in Team
    BY <1>l, <1>k, <1>n, LeaderFacts DEF Round, Connected
  <1>a. alives \subseteq 1 .. n /\ earlier \subseteq 1 .. n
    BY <1>n DEF Living
  <1>0. Living(m, alive)' = alives
    BY DEF Living
  <1>s. ASSUME NEW i \in earlier, NEW y \in Team, y = robots[m][i], y # m
        PROVE  Gone(y)' \/ Waiting(y)'
    <2>1. i \in 1 .. n /\ i < k /\ i \in alives /\ y # x
      BY <1>a, <1>f, <1>k, <1>s
    <2>2. Gone(y) \/ Waiting(y)
      BY <1>k, <1>l, <1>s, <2>1, LeaderFacts DEF Round
    <2> QED BY <1>s, <2>1, <2>2
  <1>g. ASSUME pc'[m] \in {"reading", "tipping"}, NEW y \in Team
        PROVE  InGame(m, y)' <=> InGame(m, y)
    BY <1>g DEF InGame
  <1>e. earlier = {i \in Living(m, alive) : i < current[m]}
    BY <1>k
  <1> HIDE DEF alives, earlier
  <1>1. CASE earlier # {}
    <2>1. current' = [current EXCEPT ![m] = Last(earlier)] /\ UNCHANGED <<pc, startup>>
      BY <1>1, <1>e
    <2>2. Last(earlier) \in earlier /\ \A i \in earlier : i <= Last(earlier)
      BY <1>1, <1>a, LastIs
    <2>p. PICK j \in earlier : j = Last(earlier)
      BY <2>2
    <2>3. j \in alives /\ j \in Nat /\ j < k
      BY <1>a DEF earlier
    <2>4. current'[m] = j /\ current' \in [Team -> Nat]
      BY <1>l, <2>1, <2>3, <2>p
    <2>5. Round(m)'
      <3> SUFFICES ASSUME NEW i \in alives, robots[m][i] # m, i <= j
          PROVE  (Gone(robots[m][i]) \/ Waiting(robots[m][i]))'
        BY <1>0, <1>a, <2>3, <2>4 DEF Round
      <3>1. i \in earlier /\ robots[m][i] \in Team
        BY <1>a, <1>f, <2>3 DEF earlier
      <3>2. ASSUME NEW y \in Team, y = robots[m][i] PROVE Gone(y)' \/ Waiting(y)'
        BY <1>s, <3>1, <3>2
      <3> QED BY <3>1, <3>2
    <2> QED BY <1>g, <1>l, <2>1, <2>4, <2>5
  <1>2. CASE earlier = {}
    <2>1. /\ current' = [current EXCEPT ![m] = First(alives)] /\ UNCHANGED startup
          /\ pc' = [pc EXCEPT ![m] = "reading"]
      BY <1>2, <1>e DEF alives, Goto
    <2>2. First(alives) \in alives /\ \A i \in alives : First(alives) <= i
      BY <1>a, <1>f, FirstIs
    <2>p. PICK j \in alives : j = First(alives)
      BY <2>2
    <2>3. j \in Nat /\ \A i \in alives : ~ (i < j)
      BY <1>a, <2>2, <2>p
    <2>4. current'[m] = j /\ current' \in [Team -> Nat] /\ pc'[m] = "reading"
          /\ pc' \in [Team -> Labels] /\ \A y \in Team \ {m} : pc'[y] = pc[y]
      BY <1>l, <2>1, <2>3, <2>p DEF Labels, ServerStates
    <2>5. Round(m)'
      BY <1>0, <2>3, <2>4 DEF Round
    <2> QED BY <1>g, <1>l, <2>1, <2>4, <2>5
  <1> QED BY <1>1, <1>2

\* A coordinator whose tips have been sent.
LEMMA TipsSent ==
    ASSUME NEW x \in Team, DOMAIN coordinator = Team, coordinator[x] \in Coordinators,
           coordinator' = [coordinator EXCEPT ![x].tips = <<>>]
    PROVE  /\ coordinator'[x] = [rotate |-> coordinator[x].rotate, tips |-> <<>>]
           /\ coordinator'[x] \in Coordinators
           /\ DOMAIN coordinator' = Team
           /\ \A y \in Team \ {x} : coordinator'[y] = coordinator[y]
  <1>1. PICK co \in Coordinators : co = coordinator[x]
    OBVIOUS
  <1>2. co.rotate \in BOOLEAN /\ co = [rotate |-> co.rotate, tips |-> co.tips]
    BY <1>1 DEF Coordinators
  <1>3. [co EXCEPT !.tips = <<>>] = [rotate |-> co.rotate, tips |-> <<>>]
    BY <1>1 DEF Coordinators
  <1>4. coordinator'[x] = [co EXCEPT !.tips = <<>>] /\ DOMAIN coordinator' = Team
        /\ \A y \in Team \ {x} : coordinator'[y] = coordinator[y]
    BY <1>1
  <1>5. <<>> \in Seq(Lines)
    OBVIOUS
  <1>6. [rotate |-> co.rotate, tips |-> <<>>] \in Coordinators
    BY <1>2, <1>5 DEF Coordinators
  <1> QED BY <1>1, <1>3, <1>4, <1>6

\* The master sends tips to a robot.
LEMMA SendTipsStep == ASSUME TeamInv, NEW m \in Team, SendTips(m) PROVE TeamInv'
  <1>0. /\ pc \in [Team -> Labels] /\ Own(m) /\ Listening(m)
        /\ pc[m] = "tipping" /\ pc[m] \in ServerStates
        /\ UNCHANGED <<stdin, robots, alive, up, struck, crashes>>
        /\ alive \in [Team -> BOOLEAN] /\ current \in [Team -> Nat] /\ DOMAIN coordinator = Team
        /\ hits \in [Team -> Nat] /\ struck \in [Team -> BOOLEAN] /\ ordered \in [Team -> BOOLEAN]
        /\ down \in [Team -> Seq(Seq(Lines))]
    BY DEF SendTips, TeamInv, Types, outside, Listening, ServerStates
  <1>k. current[m] \in 1 .. Len(robots[m]) /\ current[m] \in Living(m, alive)
    BY <1>0, LeaderFacts DEF Round, Living
  <1>p. PICK x \in Team : x = robots[m][current[m]]
    BY <1>0, <1>k, LeaderFacts
  <1>c. /\ alive[x] /\ x \in Members(robots[m])
        /\ x # m => Led(m, x) /\ (Gone(x) \/ Waiting(x))
    <2>1. alive[x] /\ x \in Members(robots[m])
      BY <1>k, <1>p DEF Living, Members
    <2>2. x # m => Gone(x) \/ Waiting(x)
      BY <1>0, <1>k, <1>p, LeaderFacts DEF Round
    <2> QED BY <1>0, <2>1, <2>2, MemberLed
  <1>m. Announced(m) /\ (stdin[m] # <<>> => stdin[m][1] # "Absolute")
    BY <1>0 DEF Own, Announced, Ended, InMainLoop
  <1>1. CASE /\ x # m /\ Ended(x)
             /\ Killed(m)
             /\ UNCHANGED <<current, coordinator, down, hits, ordered>>
    <2>1. crashes' > 0
      BY <1>0, <1>1, <1>c DEF Gone, Waiting, Ended
    <2>2. pc' = [pc EXCEPT ![m] = "killed"] /\ UNCHANGED <<file, link>>
          /\ backlog' = [backlog EXCEPT ![m] = <<>>]
      BY <1>1 DEF Killed
    <2>3. Types'
      <3>0. backlog \in [Team -> Seq(Team)] /\ <<>> \in Seq(Team)
        BY DEF TeamInv, Types
      <3>1. pc' \in [Team -> Labels] /\ backlog' \in [Team -> Seq(Team)]
        BY <1>0, <2>2, <3>0 DEF Labels
      <3> QED BY <1>0, <1>1, <2>2, <3>1 DEF TeamInv, Types
    <2>4. \A y \in Team \ {m} : Untouched(y)
      BY <1>0, <1>1, <2>2 DEF Untouched
    <2>5. Paired(stdin[m])'
      BY <1>0, <1>m DEF Announced
    <2> QED BY <1>0, <1>1, <2>1, <2>2, <2>3, <2>4, <2>5, MasterEnds
  <1> DEFINE Onwards ==
        LET earlier == {i \in Living(m, alive) : i < current[m]} IN
        IF earlier # {}
        THEN /\ current' = [current EXCEPT ![m] = Last(earlier)]
             /\ UNCHANGED <<pc, startup>>
        ELSE /\ current' = [current EXCEPT ![m] = First(Living(m, alive))]
             /\ Goto(m, "reading")
  <1>2. CASE /\ x = m
             /\ coordinator' = [coordinator EXCEPT ![x].tips = <<>>]
             /\ ordered' = [ordered EXCEPT ![m] = Obeyed(@, coordinator[m].tips)]
             /\ hits' = [hits EXCEPT ![m] = 0]
             /\ UNCHANGED down
             /\ Onwards
    <2>1. OwnRobot(m) /\ coordinator[m] \in Coordinators
      BY <1>0 DEF Own, OwnRobot
    <2>2. /\ coordinator'[m] = [rotate |-> coordinator[m].rotate, tips |-> <<>>]
          /\ coordinator'[m] \in Coordinators
          /\ DOMAIN coordinator' = Team
          /\ \A y \in Team \ {m} : coordinator'[y] = coordinator[y]
      BY <1>0, <1>2, <2>1, TipsSent
    <2>3. struck[m] \in BOOLEAN /\ ordered[m] \in BOOLEAN
      BY <1>0
    <2>4. Obeyed(ordered[m], coordinator[m].tips) \in BOOLEAN
      BY <2>3 DEF Obeyed
    <2>5. /\ ordered'[m] = Obeyed(ordered[m], coordinator[m].tips)
          /\ ordered' \in [Team -> BOOLEAN] /\ hits'[m] = 0 /\ hits' \in [Team -> Nat]
          /\ \A y \in Team \ {m} : ordered'[y] = ordered[y] /\ hits'[y] = hits[y]
      BY <1>0, <1>2, <2>4
    <2>6. OwnRobot(m)'
      <3>1. coordinator'[m].rotate = coordinator[m].rotate /\ coordinator'[m].tips = <<>>
        BY <2>2
      <3>2. struck[m] <=> Obeyed(ordered'[m], coordinator'[m].tips)
        <4>1. struck[m] <=> ordered'[m]
          BY <1>0, <2>1, <2>5 DEF OwnRobot
        <4>2. Obeyed(ordered'[m], <<>>) = ordered'[m]
          BY DEF Obeyed
        <4> QED BY <3>1, <4>1, <4>2
      <3>3. struck[m] <=> coordinator'[m].rotate
        BY <1>0, <2>1, <3>1 DEF OwnRobot
      <3> QED BY <1>0, <2>2, <3>1, <3>2, <3>3 DEF OwnRobot
    <2>7. /\ pc' \in [Team -> Labels] /\ pc'[m] \in {"reading", "tipping"}
          /\ \A y \in Team \ {m} : pc'[y] = pc[y]
          /\ UNCHANGED startup /\ current' \in [Team -> Nat]
          /\ Round(m)'
          /\ \A y \in Team : InGame(m, y)' <=> InGame(m, y)
      <3>1. \A y \in Team \ {m} : pc'[y] = pc[y]
        BY <1>0, <1>2 DEF Goto
      <3>2. ASSUME NEW y \in Team \ {m, x}, Gone(y) \/ Waiting(y) PROVE Gone(y)' \/ Waiting(y)'
        BY <1>0, <1>2, <3>1, <3>2 DEF Gone, Ended, Waiting
      <3>3. UNCHANGED <<robots, alive, up>>
        BY <1>0
      <3> QED BY <1>0, <1>2, <1>p, <3>2, <3>3, TipsRound
    <2>8. Types'
      BY <1>0, <1>2, <2>2, <2>5, <2>7 DEF TeamInv, Types, startup
    <2>9. \A y \in Team \ {m} : Untouched(y)
      BY <1>0, <1>2, <2>5, <2>7 DEF Untouched
    <2>10. \A y \in Team \ {m} : Own(y)'
      BY <1>0, <2>2, <2>9, OtherKept, LeaderFacts
    <2>11. Own(m)'
      <3>1. Announced(m)'
        BY <1>0, <1>m DEF Announced
      <3> QED BY <1>0, <1>2, <2>6, <2>7, <3>1 DEF Own, Starting, Obedient, ServerStates, Clients
    <2>12. Leading(m)'
      <3>1. Connected(m)'
        BY <1>0, <2>7, ConnectedKept DEF startup
      <3>2. Queued(m)'
        BY <2>7 DEF Queued
      <3>3. \A i \in 2 .. Len(robots'[m]) : Led(m, robots[m][i])'
        <4>1. ASSUME NEW y \in Members(robots[m]) \ {m}
              PROVE  Untouched(y) /\ coordinator'[y] = coordinator[y]
                     /\ (InGame(m, y)' <=> InGame(m, y))
          BY <1>0, <2>2, <2>7, <2>9, LeaderFacts
        <4> QED BY <1>0, <4>1, LedAllKept
      <3> QED BY <2>7, <3>1, <3>2, <3>3 DEF Leading
    <2> QED BY <1>0, <2>7, <2>8, <2>10, <2>11, <2>12, MasterStep DEF startup, ServerStates
  <1>3. CASE /\ x # m /\ ~ Ended(x)
             /\ coordinator' = [coordinator EXCEPT ![x].tips = <<>>]
             /\ down' = [down EXCEPT ![x] = Append(@, coordinator[x].tips)]
             /\ UNCHANGED <<ordered, hits>>
             /\ Onwards
    <2>0. /\ Waiting(x) /\ InGame(m, x) /\ coordinator[x] \in Coordinators
          /\ struck[x] <=> coordinator[x].rotate
          /\ struck[x] <=> Obeyed(ordered[x], coordinator[x].tips)
      BY <1>3, <1>c DEF Gone, Led
    <2>t. PICK tips \in Seq(Lines) : tips = coordinator[x].tips
      BY <2>0 DEF Coordinators
    <2>1. /\ coordinator'[x] = [rotate |-> coordinator[x].rotate, tips |-> <<>>]
          /\ DOMAIN coordinator' = Team
          /\ \A y \in Team \ {x} : coordinator'[y] = coordinator[y]
      BY <1>0, <1>3, <2>0, TipsSent
    <2>2. coordinator'[x] = [rotate |-> struck[x], tips |-> <<>>]
      <3>1. struck[x] \in BOOLEAN /\ coordinator[x].rotate \in BOOLEAN
        BY <1>0, <2>0 DEF Coordinators
      <3>2. struck[x] = coordinator[x].rotate
        BY <2>0, <3>1
      <3> QED BY <2>1, <3>2
    <2>3. /\ down'[x] = Append(<<>>, tips) /\ \A y \in Team \ {x} : down'[y] = down[y]
          /\ down' = [down EXCEPT ![x] = Append(<<>>, tips)]
      BY <1>0, <1>3, <2>0, <2>t DEF Waiting
    <2>4. /\ Append(<<>>, tips) \in Seq(Seq(Lines)) /\ Append(<<>>, tips) # <<>>
          /\ Len(Append(<<>>, tips)) = 1 /\ Head(Append(<<>>, tips)) = tips
      OBVIOUS
    <2>5. down' \in [Team -> Seq(Seq(Lines))]
      BY <1>0, <2>3, <2>4
    <2>7. /\ pc' \in [Team -> Labels] /\ pc'[m] \in {"reading", "tipping"}
          /\ \A y \in Team \ {m} : pc'[y] = pc[y]
          /\ UNCHANGED startup /\ current' \in [Team -> Nat]
          /\ Round(m)'
          /\ \A y \in Team : InGame(m, y)' <=> InGame(m, y)
      <3>1. \A y \in Team \ {m} : pc'[y] = pc[y]
        BY <1>0, <1>3 DEF Goto
      <3>2. ASSUME NEW y \in Team \ {m, x}, Gone(y) \/ Waiting(y) PROVE Gone(y)' \/ Waiting(y)'
        BY <1>0, <2>3, <3>1, <3>2 DEF Gone, Ended, Waiting
      <3>3. UNCHANGED <<robots, alive, up>>
        BY <1>0
      <3>4. pc[m] = "tipping" /\ x = robots[m][current[m]]
        BY <1>0, <1>p
      <3>5. Onwards
        BY <1>3
      <3> QED BY <3>2, <3>3, <3>4, <3>5, TipsRound
    <2>8. Types'
      BY <1>0, <1>3, <2>1, <2>5, <2>7 DEF TeamInv, Types, startup
    <2>9. \A y \in Team \ {m, x} : Untouched(y)
      BY <1>0, <1>3, <2>3, <2>7 DEF Untouched
    <2>10. \A y \in Team \ {m, x} : Own(y)'
      BY <1>0, <1>c, <2>1, <2>9, OtherKept
    <2>11. Own(m)'
      <3>1. Announced(m)'
        BY <1>0, <1>m DEF Announced
      <3>2. coordinator'[m] = coordinator[m] /\ down'[m] = down[m]
        BY <1>3, <2>1, <2>3
      <3> QED BY <1>0, <1>3, <2>7, <3>1, <3>2 DEF Own, Starting, Obedient, OwnRobot,
                 ServerStates, Clients
    <2>12. Own(x)'
      <3>1. Own(x) /\ pc[x] = "tips" /\ pc'[x] = "tips" /\ robots'[x] = robots[x]
        BY <1>0, <1>3, <2>0, <2>7 DEF TeamInv, Waiting
      <3>2. Announced(x)'
        BY <1>0, <3>1 DEF Own, Announced, Ended, InMainLoop
      <3>3. Obedient(x)'
        BY <1>0, <1>3, <2>0, <2>t, <2>3, <2>4, <3>1 DEF Own, Obedient
      <3> QED BY <1>0, <3>1, <3>2, <3>3 DEF Own, Starting, OwnRobot, ServerStates, Clients
    <2>13. Led(m, x)'
      <3>1. /\ pc'[x] = "tips" /\ up'[x] = <<>> /\ down'[x] # <<>> /\ InGame(m, x)'
            /\ struck'[x] = struck[x]
        BY <1>0, <1>3, <2>0, <2>3, <2>4, <2>7 DEF Waiting
      <3>2. Len(<<>>) = 0
        OBVIOUS
      <3>3. \A i \in 1 .. Len(up'[x]) - 1 : up'[x][i].dead
        BY <3>1, <3>2
      <3> QED BY <2>2, <3>1, <3>3, Zenon DEF Led, Waiting
    <2>14. Leading(m)'
      <3>1. Connected(m)'
        BY <1>0, <2>7, ConnectedKept DEF startup
      <3>2. Queued(m)'
        BY <2>7 DEF Queued
      <3>3. ASSUME NEW y \in Members(robots[m]) \ {m, x} PROVE Led(m, y)'
        <4>1. y \in Team /\ Led(m, y)
          BY <1>0, MemberLed, LeaderFacts
        <4> QED BY <1>0, <2>1, <2>7, <2>9, <4>1, LedKept
      <3>4. ASSUME NEW i \in 2 .. Len(robots[m]) PROVE Led(m, robots[m][i])'
        <4>1. robots[m][i] \in Members(robots[m]) \ {m} /\ robots'[m][i] = robots[m][i]
          BY <1>0, LeaderFacts
        <4>2. CASE robots[m][i] = x
          BY <1>0, <2>13, <4>2
        <4>3. CASE robots[m][i] # x
          BY <1>0, <3>3, <4>1, <4>3
        <4> QED BY <4>2, <4>3
      <3> QED BY <1>0, <2>7, <3>1, <3>2, <3>4 DEF Leading
    <2> QED BY <1>0, <2>7, <2>8, <2>10, <2>11, <2>12, <2>14, MasterStep DEF startup, ServerStates
  <1> QED BY <1>1, <1>2, <1>3, <1>p DEF SendTips
-----------------------------------------------------------------------------
(***************************************************************************)
(* The theorems.                                                           *)
(***************************************************************************)
\* Nobody has asked for a connection before there is a socket that listens.
Unasked == \A r \in Team : pc[r] \in {"new", "bound"} => backlog[r] = <<>>

\* A step that makes no process new, and queues nothing at a process that is not listening.
LEMMA UnaskedKept ==
    ASSUME Unasked, \A r \in Team : pc'[r] \in {"new", "bound"} =>
                      backlog'[r] = <<>> \/ (pc[r] \in {"new", "bound"} /\ backlog'[r] = backlog[r])
    PROVE  Unasked'
  BY DEF Unasked

\* The steps of process r.
LEMMA UnaskedProcess ==
    ASSUME TeamInv, Unasked, NEW r \in Team, Process(r) \/ Crash(r)
    PROVE  Unasked'
  <1>0. pc \in [Team -> Labels] /\ backlog \in [Team -> Seq(Team)] /\ current \in [Team -> Nat]
    BY DEF TeamInv, Types
  <1>e. ASSUME NEW label \in {"exited", "killed"}, pc' = [pc EXCEPT ![r] = label],
               backlog' = [backlog EXCEPT ![r] = <<>>]
        PROVE  Unasked'
    BY <1>0, <1>e, UnaskedKept
  <1>k. ASSUME Exit(r) \/ Killed(r) PROVE Unasked'
    BY <1>e, <1>k DEF Exit, Killed
  <1>g. ASSUME NEW label, pc' = [pc EXCEPT ![r] = label], backlog' = backlog,
               label \in {"new", "bound"} => pc[r] \in {"new", "bound"}
        PROVE  Unasked'
    BY <1>0, <1>g, UnaskedKept
  <1>u. ASSUME UNCHANGED <<pc, backlog>> PROVE Unasked'
    BY <1>u DEF Unasked
  <1>o. ASSUME NEW label, Goto(r, label), label \notin {"new", "bound"} PROVE Unasked'
    BY <1>g, <1>o DEF Goto, startup
  <1>n. ASSUME NEW lives, NextRobot(r, lives) PROVE Unasked'
    <2>1. Goto(r, "tipping") \/ Goto(r, "serving") \/ UNCHANGED <<pc, startup>>
      BY <1>n DEF NextRobot
    <2> QED BY <1>o, <1>u, <2>1 DEF startup
  <1>1. CASE Bind(r)
    BY <1>g, <1>1 DEF Bind
  <1>2. CASE BindFails(r)
    BY <1>o, <1>2 DEF BindFails
  <1>3. CASE Listen(r)
    BY <1>o, <1>3 DEF Listen
  <1>4. CASE Connect(r)
    <2>1. CASE Listening(file) /\ pc' = [pc EXCEPT ![r] = "greeting"]
               /\ backlog' = [backlog EXCEPT ![file] = Append(@, r)]
      <3>1. pc[file] \notin {"new", "bound"}
        BY <2>1 DEF Listening, ServerStates
      <3> QED BY <1>0, <2>1, <3>1, UnaskedKept
    <2> QED BY <1>k, <1>4, <2>1 DEF Connect
  <1>5. CASE Accept(r)
    <2>1. CASE UNCHANGED pc /\ backlog' = [backlog EXCEPT ![r] = Tail(@)]
      BY <1>0, <1>5, <2>1, UnaskedKept DEF Accept
    <2> QED BY <1>k, <1>5, <2>1 DEF Accept
  <1>6. CASE StopWaiting(r)
    BY <1>o, <1>6 DEF StopWaiting
  <1>7. CASE Greet(r)
    BY <1>k, <1>o, <1>7 DEF Greet
  <1>8. CASE ReadCommand(r)
    <2>1. \/ UNCHANGED <<pc, startup>> \/ Exit(r)
          \/ Goto(r, "reading") \/ Goto(r, "round")
      BY <1>8 DEF ReadCommand
    <2> QED BY <1>k, <1>o, <1>u, <2>1 DEF startup
  <1>9. CASE ReadRound(r)
    <2>1. \/ UNCHANGED <<pc, startup>> \/ Exit(r) \/ Killed(r)
          \/ Goto(r, "playing") \/ Goto(r, "tips")
      BY <1>9 DEF ReadRound, Report, AfterReport
    <2> QED BY <1>k, <1>o, <1>u, <2>1 DEF startup
  <1>10. CASE ReadTips(r)
    BY <1>k, <1>o, <1>10 DEF ReadTips
  <1>11. CASE ReadOwn(r)
    <2>1. UNCHANGED <<pc, startup>> \/ Exit(r) \/ \E lives : NextRobot(r, lives)
      BY <1>11 DEF ReadOwn
    <2> QED BY <1>k, <1>n, <1>u, <2>1 DEF startup
  <1>12. CASE ReadReport(r)
    <2>1. Exit(r) \/ \E lives : NextRobot(r, lives)
      BY <1>12 DEF ReadReport
    <2> QED BY <1>k, <1>n, <2>1
  <1>13. CASE SendTips(r)
    <2>1. UNCHANGED <<pc, startup>> \/ Killed(r) \/ Goto(r, "reading")
      BY <1>13 DEF SendTips
    <2> QED BY <1>k, <1>o, <1>u, <2>1 DEF startup
  <1>14. CASE Crash(r)
    BY <1>k, <1>14 DEF Crash
  <1> QED BY <1>1, <1>2, <1>3, <1>4, <1>5, <1>6, <1>7, <1>8, <1>9, <1>10, <1>11, <1>12, <1>13,
             <1>14 DEF Process, Join, Play

\* Every step keeps the invariant.
LEMMA TeamNext == TeamInv /\ Unasked /\ [Next]_vars => TeamInv' /\ Unasked'
  <1> SUFFICES ASSUME TeamInv, Unasked, [Next]_vars PROVE TeamInv' /\ Unasked'
    OBVIOUS
  <1>1. ASSUME NEW r \in Team, Process(r) PROVE TeamInv' /\ Unasked'
    <2>0. Unasked'
      BY <1>1, UnaskedProcess
    <2>1. CASE Join(r)
      <3>1. CASE Listen(r)
        <4>1. backlog[r] = <<>>
          BY <3>1 DEF Listen, Unasked
        <4> QED BY <2>0, <3>1, <4>1, ListenStep
      <3> QED BY <2>0, <2>1, <3>1, BindStep, BindFailsStep, ConnectStep, AcceptStep,
                 StopWaitingStep, GreetStep DEF Join
    <2>2. CASE Play(r)
      <3>1. CASE ReadCommand(r)
        BY <2>0, <3>1, ClientCommandStep, MasterCommandStep DEF ReadCommand, InMainLoop
      <3> QED BY <2>0, <2>2, <3>1, ReadRoundStep, ReadTipsStep, ReadOwnStep, ReadReportStep,
                 SendTipsStep DEF Play
    <2> QED BY <1>1, <2>1, <2>2 DEF Process
  <1>2. ASSUME NEW r \in Team, Crash(r) PROVE TeamInv' /\ Unasked'
    BY <1>2, CrashStep, UnaskedProcess
  <1>3. CASE StartGame \/ Update \/ SetDebugLevel \/ EndGame
    <2>1. UNCHANGED <<pc, startup>>
      BY <1>3 DEF StartGame, Update, SetDebugLevel, EndGame
    <2>2. Unasked'
      BY <2>1 DEF Unasked, startup
    <2> QED BY <1>3, <2>2, EngineStep
  <1>4. CASE StartSequence
    <2>1. Unasked'
      BY <1>4 DEF StartSequence, Everyone, Unasked
    <2> QED BY <1>4, <2>1, StartSequenceStep
  <1>5. CASE UNCHANGED vars
    <2> USE <1>5 DEF vars, startup, master, player, outside
    <2>1. Types' /\ SocketFileOwned' /\ Unasked'
      BY DEF TeamInv, Types, SocketFileOwned, Unasked
    <2>2. ASSUME NEW r \in Team PROVE Own(r)'
      BY DEF TeamInv, Own, Announced, Starting, Obedient, OwnRobot, Ended, InMainLoop, Fresh
    <2>3. ASSUME NEW r \in Team PROVE Leading(r)'
      BY DEF TeamInv, Leading, Listening, Connected, Queued, Round, Led, Gone, Waiting, InGame,
             Ended, Living
    <2> QED BY <2>1, <2>2, <2>3 DEF TeamInv
  <1> QED BY <1>1, <1>2, <1>3, <1>4, <1>5 DEF Next, Engine

\* So it always holds.
LEMMA TeamAlways == Spec => [](TeamInv /\ Unasked)
  <1>1. Init => TeamInv /\ Unasked
    BY TeamInit DEF Init, Everyone, Unasked
  <1> QED BY <1>1, TeamNext, PTL DEF Spec

\* However many robots a team has, whoever is killed and whenever, in every sequence: the
\* name of the socket belongs to the running master and to nobody else, and no way of ending
\* leaves it behind unless a process was killed from outside.
THEOREM SocketFileOwnedAlways == Spec => []SocketFileOwned
  <1>1. TeamInv => SocketFileOwned
    BY DEF TeamInv
  <1> QED BY <1>1, TeamAlways, PTL

\* In a team of any size, with any number of games and collisions, each robot starts each
\* round with its cannon rotating exactly if it was hit an odd number of times in the game,
\* however far its reports and the tips of its master lag behind the engine.
THEOREM RotatesAsHitAlways == Spec => []RotatesAsHit
  <1>1. TeamInv => RotatesAsHit
    <2> SUFFICES ASSUME TeamInv, NEW r \in Team, pc[r] \in {"round", "reading"}, hits[r] = 0
        PROVE  ordered[r] <=> struck[r]
      BY DEF RotatesAsHit
    <2>1. Own(r) /\ ordered[r] \in BOOLEAN
      BY DEF TeamInv, Types
    <2>2. CASE pc[r] = "round"
      BY <2>1, <2>2, TurnedAgain DEF Own, Obedient
    <2>3. CASE pc[r] = "reading"
      <3>1. struck[r] <=> Obeyed(ordered[r], <<>>)
        BY <2>1, <2>3 DEF Own, OwnRobot, ServerStates
      <3> QED BY <3>1 DEF Obeyed
    <2> QED BY <2>2, <2>3
  <1> QED BY <1>1, TeamAlways, PTL
=============================================================================
