------------------------ MODULE RobotMessagesProofs ------------------------
(***************************************************************************)
(* Proofs about the names and colours of robots, for any number of robots, *)
(* any lines that they write and any sequences in which they play: no two  *)
(* robots appear under the same name, and a robot that is in no team has a *)
(* colour of its own.                                                      *)
(*                                                                         *)
(* Names and colours change while a loop runs: over the robots of the      *)
(* tournament, over those of a sequence, or over the messages in a buffer. *)
(* Each loop is a recursive function of the model; it is shown to exist,   *)
(* and the invariant is carried from turn to turn.                         *)
(***************************************************************************)
EXTENDS RobotMessages, FiniteSetTheorems, NaturalsInduction, WellFoundedInduction, TLAPS

\* The fields of a robot object.
Fields == {"plain", "nr", "named", "team", "colour", "coloured", "competed", "signal",
           "rotation", "nonblocking"}

\* R has an object for every robot.
Objects(R) == DOMAIN R = Robots /\ \A q \in Robots : DOMAIN R[q] = Fields

\* Two robots with the same name have different numbers, and both have one.
Apart(R, p, q) ==
    p # q /\ R[p].plain # <<>> /\ R[p].plain = R[q].plain =>
      R[p].nr # R[q].nr /\ R[p].nr # 0

\* All robots have numbers, and those of one name are apart.
NamesKept(R) ==
    /\ \A q \in Robots : R[q].nr \in Nat
    /\ \A p, q \in Robots : Apart(R, p, q)

\* R is S but for the numbers of the robots.
SameButNumbers(R, S) ==
    \A q \in Robots :
      /\ R[q].plain = S[q].plain /\ R[q].team = S[q].team
      /\ R[q].colour = S[q].colour /\ R[q].coloured = S[q].coloured
      /\ R[q].competed = S[q].competed

\* R has the names and numbers of S.
SameNames(R, S) == \A q \in Robots : R[q].plain = S[q].plain /\ R[q].nr = S[q].nr

\* Induction over the numbers up to n, for a property given as the set of the
\* numbers that have it.
LEMMA UpTo ==
    ASSUME NEW n \in Nat, NEW S, 0 \in S, \A i \in 1 .. n : i - 1 \in S => i \in S
    PROVE  n \in S
<1> DEFINE wrong == {i \in 0 .. n : i \notin S}
           R == {ss \in Nat \X Nat : ss[1] < ss[2]}
<1>1. SUFFICES ASSUME wrong # {} PROVE FALSE
  OBVIOUS
<1>2. wrong \subseteq Nat
  OBVIOUS
<1>3. IsWellFoundedOn(R, Nat)
  BY NatLessThanWellFounded DEF OpToRel
<1>4. PICK x \in wrong : \A y \in wrong : ~ (<<y, x>> \in R)
  <2> HIDE DEF R, wrong
  <2> QED
    BY <1>1, <1>2, <1>3, WFMin
<1>5. x \in 1 .. n /\ x - 1 \in 0 .. n /\ <<x - 1, x>> \in R
  BY <1>4
<1> QED
  BY <1>4, <1>5

\* A set of numbers that are at most b has a largest one.
LEMMA LargestNumber ==
    ASSUME NEW b \in Nat, NEW T \in SUBSET (0 .. b), T # {}
    PROVE  \E x \in T : \A y \in T : y <= x
<1> DEFINE U == {k \in 0 .. b : b - k \in T}
           R == {ss \in Nat \X Nat : ss[1] < ss[2]}
<1>1. \A x \in 0 .. b : b - x \in 0 .. b /\ b - (b - x) = x
  OBVIOUS
<1>2. \A y \in T : b - y \in U
  BY <1>1
<1>8. U \subseteq Nat
  OBVIOUS
<1>3. U # {}
  <2>1. PICK x \in T : TRUE
    OBVIOUS
  <2>2. b - x \in U
    BY <1>2
  <2> HIDE DEF U
  <2> QED
    BY <2>2
<1>4. IsWellFoundedOn(R, Nat)
  BY NatLessThanWellFounded DEF OpToRel
<1>5. PICK k \in U : \A l \in U : ~ (<<l, k>> \in R)
  <2> HIDE DEF R, U
  <2> QED
    BY <1>8, <1>3, <1>4, WFMin
<1>6. b - k \in T /\ \A y \in T : ~ (b - y < k)
  <2>1. \A l, j \in 0 .. b : l < j => <<l, j>> \in R
    OBVIOUS
  <2> HIDE DEF R
  <2> QED
    BY <1>5, <1>2, <2>1
<1>7. \A y \in T : y <= b - k
  BY <1>6
<1> QED
  BY <1>6, <1>7

\* f is the loop of check_name_uniqueness up to robot number n.
IsCheck(f, n, R, r) ==
    f = [i \in 0 .. n |-> IF i = 0 THEN R ELSE CheckedAgainst(f[i - 1], r, i)]

\* f[i] is what the loop has come to after robot i.
CheckLoop(f, R, r) ==
    /\ f[0] = R
    /\ \A i \in 1 .. NumberOfRobots : f[i] = CheckedAgainst(f[i - 1], r, i)
    /\ CheckNameUniqueness(R, r) = f[NumberOfRobots]

\* The loop of check_name_uniqueness can be carried on from every robot: it is a function.
LEMMA CheckIs ==
    ASSUME NEW R, NEW r
    PROVE  \E f : CheckLoop(f, R, r)
<1> DEFINE S == {n \in 0 .. NumberOfRobots : \E f : IsCheck(f, n, R, r)}
<1>1. 0 \in S
  <2> DEFINE f == [i \in 0 .. 0 |-> R]
  <2>1. f = [i \in 0 .. 0 |-> IF i = 0 THEN R ELSE CheckedAgainst(f[i - 1], r, i)]
    <3>1. \A i \in 0 .. 0 : i = 0
      OBVIOUS
    <3> QED
      BY <3>1
  <2>2. IsCheck(f, 0, R, r)
    BY <2>1 DEF IsCheck
  <2> HIDE DEF f
  <2> QED
    BY <2>2, MessagesAssumption
<1>2. ASSUME NEW n \in 1 .. NumberOfRobots, n - 1 \in S
      PROVE  n \in S
  <2>1. PICK f : IsCheck(f, n - 1, R, r)
    BY <1>2
  <2>0. n \in Nat /\ n # 0
    BY MessagesAssumption
  <2> DEFINE g == [i \in 0 .. n |-> IF i = n THEN CheckedAgainst(f[n - 1], r, n) ELSE f[i]]
  <2>2. \A i \in 0 .. n - 1 : g[i] = f[i]
    BY <2>0
  <2>3. ASSUME NEW i \in 0 .. n
        PROVE  g[i] = IF i = 0 THEN R ELSE CheckedAgainst(g[i - 1], r, i)
    <3>1. CASE i = 0
      <4>1. 0 \in 0 .. n - 1
        BY <2>0
      <4>2. g[0] = f[0] /\ f[0] = R
        BY <2>1, <2>2, <4>1 DEF IsCheck
      <4> QED
        BY <3>1, <4>2
    <3>2. CASE i = n
      <4>1. n - 1 \in 0 .. n - 1 /\ n # 0
        BY <2>0
      <4>2. g[n] = CheckedAgainst(f[n - 1], r, n) /\ g[n - 1] = f[n - 1]
        BY <2>0, <2>2, <4>1
      <4> HIDE DEF g
      <4> QED
        BY <3>2, <4>1, <4>2
    <3>3. CASE i # 0 /\ i # n
      <4>1. i \in 0 .. n - 1 /\ i - 1 \in 0 .. n - 1
        BY <2>0, <3>3
      <4>2. g[i] = f[i] /\ g[i - 1] = f[i - 1]
        BY <2>2, <4>1
      <4>3. f[i] = CheckedAgainst(f[i - 1], r, i)
        BY <2>1, <3>3, <4>1 DEF IsCheck
      <4> HIDE DEF g
      <4> QED
        BY <3>3, <4>2, <4>3
    <3> QED
      BY <3>1, <3>2, <3>3
  <2>4. IsCheck(g, n, R, r)
    <3>1. g = [i \in 0 .. n |-> g[i]]
      OBVIOUS
    <3> HIDE DEF g
    <3> QED
      BY <2>3, <3>1 DEF IsCheck
  <2> HIDE DEF g
  <2> QED
    BY <2>4
<1>3. NumberOfRobots \in S
  <2> HIDE DEF S
  <2> QED
    BY <1>1, <1>2, UpTo, MessagesAssumption
<1> DEFINE Is(f) == IsCheck(f, NumberOfRobots, R, r)
<1>4. PICK f : Is(f) /\ CheckNameUniqueness(R, r) = f[NumberOfRobots]
  <2>1. \E f : Is(f)
    BY <1>3
  <2>2. CheckNameUniqueness(R, r) = (CHOOSE f : Is(f))[NumberOfRobots]
    BY DEF CheckNameUniqueness, IsCheck
  <2> HIDE DEF Is
  <2> QED
    BY <2>1, <2>2
<1>5. f[0] = R
  BY <1>4, MessagesAssumption DEF IsCheck
<1>6. \A i \in 1 .. NumberOfRobots : f[i] = CheckedAgainst(f[i - 1], r, i)
  <2>1. \A i \in 1 .. NumberOfRobots : i \in 0 .. NumberOfRobots /\ i # 0
    BY MessagesAssumption
  <2> QED
    BY <1>4, <2>1 DEF IsCheck
<1> QED
  BY <1>4, <1>5, <1>6 DEF CheckLoop

-----------------------------------------------------------------------------
(***************************************************************************)
(* Names.                                                                  *)
(***************************************************************************)

\* The numbers of robots have a bound.
LEMMA NumbersBounded ==
    ASSUME NEW R, NEW n \in 0 .. NumberOfRobots, \A p \in Robots : R[p].nr \in Nat
    PROVE  \E b \in Nat : \A p \in 1 .. n : R[p].nr <= b
<1> DEFINE S == {k \in 0 .. n : \E b \in Nat : \A p \in 1 .. k : R[p].nr <= b}
<1>0. n \in Nat /\ \A p \in 1 .. n : R[p].nr \in Nat
  BY MessagesAssumption DEF Robots
<1>1. 0 \in S
  <2>1. \A p \in 1 .. 0 : R[p].nr <= 0
    OBVIOUS
  <2> QED
    BY <1>0, <2>1
<1>2. ASSUME NEW k \in 1 .. n, k - 1 \in S
      PROVE  k \in S
  <2>1. PICK b \in Nat : \A p \in 1 .. k - 1 : R[p].nr <= b
    BY <1>2
  <2>2. R[k].nr \in Nat
    BY <1>0
  <2>3. PICK c \in Nat : b <= c /\ R[k].nr <= c
    <3>1. b <= b + R[k].nr /\ R[k].nr <= b + R[k].nr /\ b + R[k].nr \in Nat
      BY <2>2
    <3> QED
      BY <3>1
  <2>4. ASSUME NEW p \in 1 .. k
        PROVE  R[p].nr <= c
    <3>1. CASE p = k
      BY <2>3, <3>1
    <3>2. CASE p # k
      <4>1. p \in 1 .. k - 1 /\ p \in 1 .. n
        BY <1>0, <3>2
      <4>2. R[p].nr <= b /\ R[p].nr \in Nat
        BY <1>0, <2>1, <4>1
      <4> QED
        BY <2>3, <4>2
    <3> QED
      BY <3>1, <3>2
  <2> QED
    BY <1>0, <2>4
<1>3. n \in S
  <2> HIDE DEF S
  <2> QED
    BY <1>0, <1>1, <1>2, UpTo
<1> QED
  BY <1>3

\* What holds in check_name_uniqueness of robot r when it has come to robot q: the
\* other robots are apart, and r is apart from those that the loop has met.
CheckInv(R, S, r, q) ==
    /\ Objects(S)
    /\ SameButNumbers(S, R)
    /\ \A p \in Robots : S[p].nr \in Nat
    /\ \A o, p \in Robots \ {r} : Apart(S, o, p)
    /\ \A p \in 1 .. q : p # r /\ S[p].plain = S[r].plain =>
         S[p].nr # 0 /\ S[r].nr # 0 /\ S[r].nr # S[p].nr

\* A turn of the loop: first_avail is larger than all numbers met, and a robot that
\* had no number was the only one of the name.
LEMMA CheckStep ==
    ASSUME NEW R, NEW S, NEW r \in Robots, NEW q \in Robots, CheckInv(R, S, r, q - 1)
    PROVE  CheckInv(R, CheckedAgainst(S, r, q), r, q)
<1>0. /\ NumberOfRobots \in Nat /\ q \in Nat /\ q \in 1 .. NumberOfRobots
      /\ q - 1 \in 0 .. NumberOfRobots
      /\ \A p \in 1 .. q : p = q \/ p \in 1 .. q - 1
      /\ \A p \in 1 .. q - 1 : p # q /\ p \in Robots
  BY MessagesAssumption DEF Robots
<1>1. /\ Objects(S) /\ SameButNumbers(S, R)
      /\ \A p \in Robots : S[p].nr \in Nat
      /\ \A o, p \in Robots \ {r} : Apart(S, o, p)
      /\ \A p \in 1 .. q - 1 : p # r /\ S[p].plain = S[r].plain =>
           S[p].nr # 0 /\ S[r].nr # 0 /\ S[r].nr # S[p].nr
  BY DEF CheckInv
<1>2. CASE q = r \/ S[q].plain # S[r].plain
  <2>1. CheckedAgainst(S, r, q) = S
    BY <1>2 DEF CheckedAgainst
  <2>2. \A p \in 1 .. q : p # r /\ S[p].plain = S[r].plain => p \in 1 .. q - 1
    BY <1>0, <1>2
  <2>3. CheckInv(R, S, r, q)
    BY <1>1, <2>2 DEF CheckInv
  <2> QED
    BY <2>1, <2>3
<1>3. CASE q # r /\ S[q].plain = S[r].plain
  <2> DEFINE n == IF S[q].nr = 0 THEN 1 ELSE S[q].nr
             seen == {S[p].nr : p \in {p \in 1 .. q - 1 : p # r /\ S[p].plain = S[r].plain}}
             max == CHOOSE m \in seen \cup {n} : \A k \in seen \cup {n} : k <= m
             avail == 1 + max
             new == IF S[r].nr \in {0, n} THEN avail ELSE S[r].nr
             T == [S EXCEPT ![q].nr = n, ![r].nr = new]
  <2>1. CheckedAgainst(S, r, q) = T
    <3>1. [S EXCEPT ![q].nr = n, ![r].nr = IF @ \in {0, n} THEN avail ELSE @] = T
      BY <1>1, <1>3 DEF Objects
    <3> QED
      BY <1>3, <3>1 DEF CheckedAgainst
  <2>2. n \in Nat /\ n # 0 /\ (S[q].nr # 0 => n = S[q].nr)
    BY <1>1
  <2>3. seen \subseteq Nat
    BY <1>0, <1>1
  <2>4. max \in seen \cup {n} /\ \A k \in seen \cup {n} : k <= max
    <3>1. PICK b \in Nat : \A p \in 1 .. q - 1 : S[p].nr <= b
      BY <1>0, <1>1, NumbersBounded
    <3>2. PICK c \in Nat : b <= c /\ n <= c
      <4>1. b <= b + n /\ n <= b + n /\ b + n \in Nat
        BY <2>2
      <4> QED
        BY <4>1
    <3>3. \A k \in seen : k <= b
      BY <3>1
    <3>4. seen \cup {n} \in SUBSET (0 .. c)
      <4> HIDE DEF seen, n
      <4>1. \A k \in seen : k \in 0 .. c
        BY <2>3, <3>2, <3>3
      <4>2. n \in 0 .. c
        BY <2>2, <3>2
      <4> QED
        BY <4>1, <4>2
    <3>5. \E m \in seen \cup {n} : \A k \in seen \cup {n} : k <= m
      <4> HIDE DEF seen, n
      <4>1. seen \cup {n} # {}
        OBVIOUS
      <4> QED
        BY <3>4, <4>1, LargestNumber
    <3> HIDE DEF seen, n
    <3> QED
      BY <3>5
  <2>5. avail \in Nat /\ avail # 0 /\ avail # n /\ \A k \in seen : avail # k
    <3> HIDE DEF seen, n, max
    <3>1. max \in Nat
      BY <2>2, <2>3, <2>4
    <3>2. n <= max /\ \A k \in seen : k \in Nat /\ k <= max
      BY <2>3, <2>4
    <3> QED
      BY <2>2, <3>1, <3>2
  <2>6. new \in Nat /\ new # 0 /\ new # n
    <3> HIDE DEF n, avail
    <3> QED
      BY <1>1, <2>5
  <2>7. ASSUME NEW p \in 1 .. q - 1, p # r, S[p].plain = S[r].plain
        PROVE  new # S[p].nr
    <3>1. S[p].nr \in seen
      BY <2>7
    <3> HIDE DEF n, avail, seen
    <3> QED
      BY <1>1, <2>5, <2>7, <3>1
  <2> HIDE DEF n, avail, seen, max, new
  <2>8. /\ Objects(T) /\ SameButNumbers(T, S)
        /\ T[q].nr = n /\ T[r].nr = new
        /\ \A p \in Robots \ {q, r} : T[p].nr = S[p].nr
    <3>1. DOMAIN S = Robots /\ \A p \in Robots : DOMAIN S[p] = Fields
      BY <1>1 DEF Objects
    <3>2. "nr" \in Fields /\ {"plain", "team", "colour", "coloured", "competed"} \subseteq Fields \ {"nr"}
      BY DEF Fields
    <3>3. /\ DOMAIN T = Robots
          /\ T[q] = [S[q] EXCEPT !.nr = n] /\ T[r] = [S[r] EXCEPT !.nr = new]
          /\ \A p \in Robots \ {q, r} : T[p] = S[p]
      BY <1>3, <3>1
    <3> HIDE DEF T
    <3>4. Objects(T)
      BY <3>1, <3>3 DEF Objects
    <3>5. T[q].nr = n /\ T[r].nr = new
      BY <3>1, <3>2, <3>3
    <3>6. ASSUME NEW p \in Robots
          PROVE  /\ T[p].plain = S[p].plain /\ T[p].team = S[p].team
                 /\ T[p].colour = S[p].colour /\ T[p].coloured = S[p].coloured
                 /\ T[p].competed = S[p].competed
      BY <3>1, <3>2, <3>3
    <3> QED
      BY <3>3, <3>4, <3>5, <3>6 DEF SameButNumbers
  <2> HIDE DEF T
  <2>9. \A p \in Robots : T[p].nr \in Nat
    BY <1>1, <2>2, <2>6, <2>8
  <2>10. ASSUME NEW o \in Robots \ {r}, NEW p \in Robots \ {r}
         PROVE  Apart(T, o, p)
    <3>1. SUFFICES ASSUME o # p, S[o].plain # <<>>, S[o].plain = S[p].plain
                   PROVE  T[o].nr # T[p].nr /\ T[o].nr # 0
      BY <2>8 DEF Apart, SameButNumbers
    <3>2. S[o].nr # S[p].nr /\ S[o].nr # 0 /\ S[p].nr # 0
      BY <1>1, <3>1 DEF Apart
    <3>3. T[o].nr = S[o].nr /\ T[p].nr = S[p].nr
      BY <2>2, <2>8, <3>2
    <3> QED
      BY <3>2, <3>3
  <2>11. ASSUME NEW p \in 1 .. q, p # r, T[p].plain = T[r].plain
         PROVE  T[p].nr # 0 /\ T[r].nr # 0 /\ T[r].nr # T[p].nr
    <3>1. CASE p = q
      BY <2>2, <2>6, <2>8, <3>1
    <3>2. CASE p # q
      <4>1. p \in 1 .. q - 1 /\ p \in Robots \ {q, r}
        BY <1>0, <2>11, <3>2
      <4>2. S[p].plain = S[r].plain /\ T[p].nr = S[p].nr
        BY <2>8, <2>11, <4>1 DEF SameButNumbers
      <4> QED
        BY <1>1, <2>6, <2>7, <2>8, <2>11, <4>1, <4>2
    <3> QED
      BY <3>1, <3>2
  <2>12. SameButNumbers(T, R)
    BY <1>1, <2>8 DEF SameButNumbers
  <2> QED
    BY <2>1, <2>8, <2>9, <2>10, <2>11, <2>12 DEF CheckInv
<1> QED
  BY <1>2, <1>3

\* check_name_uniqueness makes names unique if they were before r changed its own.
LEMMA CheckKeeps ==
    ASSUME NEW R, NEW r \in Robots, Objects(R), \A p \in Robots : R[p].nr \in Nat,
           \A o, p \in Robots \ {r} : Apart(R, o, p)
    PROVE  /\ Objects(CheckNameUniqueness(R, r))
           /\ SameButNumbers(CheckNameUniqueness(R, r), R)
           /\ NamesKept(CheckNameUniqueness(R, r))
<1>0. NumberOfRobots \in Nat /\ Robots = 1 .. NumberOfRobots
  BY MessagesAssumption DEF Robots
<1>9. PICK f : CheckLoop(f, R, r)
  BY CheckIs
<1>1. /\ f[0] = R
      /\ \A i \in 1 .. NumberOfRobots : f[i] = CheckedAgainst(f[i - 1], r, i)
      /\ CheckNameUniqueness(R, r) = f[NumberOfRobots]
  BY <1>9 DEF CheckLoop
<1> DEFINE S == {i \in 0 .. NumberOfRobots : CheckInv(R, f[i], r, i)}
<1>2. 0 \in S
  <2>1. \A p \in 1 .. 0 : FALSE
    OBVIOUS
  <2>2. CheckInv(R, R, r, 0)
    BY <2>1 DEF CheckInv, SameButNumbers
  <2> QED
    BY <1>0, <1>1, <2>2
<1>3. ASSUME NEW i \in 1 .. NumberOfRobots, i - 1 \in S
      PROVE  i \in S
  <2>1. CheckInv(R, CheckedAgainst(f[i - 1], r, i), r, i)
    BY <1>0, <1>3, CheckStep
  <2> QED
    BY <1>0, <1>1, <2>1
<1>4. NumberOfRobots \in S
  <2> HIDE DEF S
  <2> QED
    BY <1>0, <1>2, <1>3, UpTo
<1>5. CheckInv(R, f[NumberOfRobots], r, NumberOfRobots)
  BY <1>4
<1> DEFINE T == f[NumberOfRobots]
<1>6. ASSUME NEW o \in Robots, NEW p \in Robots
      PROVE  Apart(T, o, p)
  <2>1. CASE o # r /\ p # r
    BY <1>5, <2>1 DEF CheckInv
  <2>2. CASE o = r \/ p = r
    BY <1>0, <1>5, <2>2 DEF CheckInv, Apart
  <2> QED
    BY <2>1, <2>2
<1> QED
  BY <1>1, <1>5, <1>6 DEF CheckInv, NamesKept

-----------------------------------------------------------------------------
(***************************************************************************)
(* Colours.                                                                *)
(***************************************************************************)

\* A set of numbers has a least one.
LEMMA LeastNumber ==
    ASSUME NEW T \in SUBSET Nat, T # {}
    PROVE  \E x \in T : \A y \in T : x <= y
<1> DEFINE R == {ss \in Nat \X Nat : ss[1] < ss[2]}
<1>1. \E x \in T : \A y \in T : ~ (<<y, x>> \in R)
  <2> HIDE DEF R
  <2>1. IsWellFoundedOn(R, Nat)
    BY NatLessThanWellFounded DEF R, OpToRel
  <2> QED
    BY <2>1, WFMin
<1>2. \A x, y \in Nat : ~ (<<y, x>> \in R) => x <= y
  OBVIOUS
<1> QED
  BY <1>1, <1>2

\* There is only one team.
OneTeam(t) == \A name : TeamOf(name) \in {"", t}

\* With one team only, everybody is in it or in none.
TeamsKept(R) == \A t : OneTeam(t) => \A q \in Robots : R[q].team \in {"", t}

\* Nobody has been given the colour of the background, and whoever has played has
\* a colour.
Given(R) ==
    \A q \in Robots :
      /\ R[q].coloured => R[q].colour # Background
      /\ R[q].competed => R[q].coloured

\* The robots of S that have a colour and are in no team have it alone in s.
Settled(R, s, S) ==
    \A p \in S : R[p].coloured /\ R[p].team = "" =>
      \A q \in s \ {p} : R[q].colour # R[p].colour

\* The colours of all robots, and of those of S in the sequence s.
ColoursKept(R, s, S) == Given(R) /\ Settled(R, s, S)

\* The colour c may be given to r.
Fits(R, s, S, r, c) ==
    /\ c # Background
    /\ R[r].team = "" => \A q \in s \ {r} : R[q].colour # c
    /\ \A p \in S \ {r} : R[p].coloured /\ R[p].team = "" => R[p].colour # c

\* R and T have the same names, numbers, teams and colours.
Alike(R, T) ==
    \A q \in Robots :
      /\ R[q].plain = T[q].plain /\ R[q].nr = T[q].nr /\ R[q].team = T[q].team
      /\ R[q].colour = T[q].colour /\ R[q].coloured = T[q].coloured
      /\ R[q].competed = T[q].competed

\* There are more colours than robots in a sequence.
LEMMA SomeColour ==
    ASSUME NEW R, NEW s \in Lineups, NEW r \in s
    PROVE  AllowedColours(R, s, r) # {}
<1> DEFINE used == {R[q].colour : q \in s \ {r}}
<1>0. s \subseteq Robots /\ IsFiniteSet(Colours) /\ Cardinality(s) < Cardinality(Colours)
  BY MessagesAssumption
<1>1. IsFiniteSet(s)
  <2>1. IsFiniteSet(1 .. NumberOfRobots)
    BY FS_Interval, MessagesAssumption
  <2> QED
    BY <1>0, <2>1, FS_Subset DEF Robots
<1>2. /\ IsFiniteSet(s \ {r}) /\ Cardinality(s \ {r}) = Cardinality(s) - 1
      /\ Cardinality(s) \in Nat /\ Cardinality(s \ {r}) \in Nat
  BY <1>1, FS_RemoveElement, FS_CardinalityType
<1>3. IsFiniteSet(used) /\ Cardinality(used) <= Cardinality(s \ {r}) /\ Cardinality(used) \in Nat
  <2>1. PICK f : f = [q \in s \ {r} |-> R[q].colour]
    OBVIOUS
  <2>2. f \in Surjection(s \ {r}, used)
    BY <2>1 DEF Surjection
  <2> HIDE DEF used
  <2> QED
    BY <1>2, <2>2, FS_Surjection, FS_CardinalityType
<1> HIDE DEF used
<1>4. /\ IsFiniteSet(used \cup {Background})
      /\ Cardinality(used \cup {Background}) <= Cardinality(used) + 1
      /\ Cardinality(used \cup {Background}) \in Nat
  <2>1. IsFiniteSet(used \cup {Background})
    BY <1>3, FS_AddElement
  <2>2. Cardinality(used \cup {Background}) \in Nat
    BY <2>1, FS_CardinalityType
  <2>3. Cardinality(used \cup {Background}) =
          IF Background \in used THEN Cardinality(used) ELSE Cardinality(used) + 1
    BY <1>3, FS_AddElement
  <2> QED
    BY <1>3, <2>1, <2>2, <2>3
<1>5. SUFFICES ASSUME AllowedColours(R, s, r) = {} PROVE FALSE
  OBVIOUS
<1>6. Colours \subseteq used \cup {Background}
  BY <1>5 DEF AllowedColours, IsColourAllowed, used
<1>7. Cardinality(Colours) <= Cardinality(used \cup {Background}) /\ Cardinality(Colours) \in Nat
  BY <1>0, <1>4, <1>6, FS_Subset, FS_CardinalityType
<1> QED
  BY <1>0, <1>2, <1>3, <1>4, <1>7

\* find_free_colour finds a colour.
LEMMA SomeFree ==
    ASSUME NEW R, NEW s \in Lineups, NEW r \in s, NEW home, NEW away, NEW colour
    PROVE  Picked(colour, FreeColours(R, s, r, home, away)) \in FreeColours(R, s, r, home, away)
<1>1. FreeColours(R, s, r, home, away) # {}
  BY SomeColour DEF FreeColours
<1> QED
  BY <1>1 DEF Picked

\* The colour it finds fits: that of a team mate is nobody's who is in no team, and
\* others are compared with all robots of the sequence.
LEMMA FreeFits ==
    ASSUME NEW R, NEW s \in Lineups, NEW r \in s, NEW S \in SUBSET s, ColoursKept(R, s, S),
           NEW home, NEW away, NEW c \in FreeColours(R, s, r, home, away)
    PROVE  Fits(R, s, S, r, c)
<1>0. s \subseteq Robots /\ Robots \subseteq Nat
  <2>1. s \subseteq Robots
    BY MessagesAssumption
  <2>2. Robots \subseteq Nat
    BY MessagesAssumption DEF Robots
  <2> QED
    BY <2>1, <2>2
<1>1. CASE TeamMates(R, s, r) # {}
  <2> DEFINE mates == TeamMates(R, s, r)
             m == CHOOSE q \in mates : \A p \in mates : q <= p
  <2>1. \E q \in mates : \A p \in mates : q <= p
    <3>1. mates \in SUBSET Nat
      BY <1>0 DEF TeamMates
    <3> HIDE DEF mates
    <3> QED
      BY <1>1, <3>1, LeastNumber DEF mates
  <2>2. m \in mates
    <3> HIDE DEF mates
    <3> QED
      BY <2>1
  <2>3. c = R[m].colour
    BY <1>1 DEF FreeColours
  <2> HIDE DEF m
  <2>4. m \in s \ {r} /\ R[r].team # "" /\ R[m].coloured /\ R[m].team = R[r].team
    BY <2>2 DEF TeamMates
  <2>5. c # Background
    BY <1>0, <2>3, <2>4 DEF ColoursKept, Given
  <2>6. ASSUME NEW p \in S \ {r}, R[p].coloured, R[p].team = ""
        PROVE  R[p].colour # c
    <3>1. m \in s \ {p}
      BY <2>4, <2>6
    <3> QED
      BY <2>3, <2>6, <3>1 DEF ColoursKept, Settled
  <2> QED
    BY <2>4, <2>5, <2>6 DEF Fits
<1>2. CASE TeamMates(R, s, r) = {}
  <2>1. c \in AllowedColours(R, s, r)
    BY <1>2 DEF FreeColours
  <2> QED
    BY <2>1 DEF Fits, AllowedColours, IsColourAllowed
<1> QED
  BY <1>1, <1>2

\* The robots are given in T the looks they have in R, but for r, which gets another
\* colour or loses it.
LEMMA Recoloured ==
    ASSUME NEW R, NEW T, NEW s \in SUBSET Robots, NEW r \in s, NEW S \in SUBSET s,
           ColoursKept(R, s, S),
           \A q \in Robots : T[q].team = R[q].team /\ T[q].competed = R[q].competed,
           \A q \in Robots \ {r} : T[q].colour = R[q].colour /\ T[q].coloured = R[q].coloured,
           T[r].competed => T[r].coloured,
           \/ Fits(R, s, S, r, T[r].colour)
           \/ ~ T[r].coloured /\ T[r].colour = R[r].colour
    PROVE  ColoursKept(T, s, S \cup {r})
<1>1. Given(T)
  BY DEF ColoursKept, Given, Fits
<1>2. ASSUME NEW p \in S \cup {r}, T[p].coloured, T[p].team = "", NEW q \in s \ {p}
      PROVE  T[q].colour # T[p].colour
  <2>1. CASE p = r
    BY <1>2, <2>1 DEF Fits
  <2>2. CASE p # r
    <3>1. p \in S \ {r} /\ R[p].coloured /\ R[p].team = "" /\ T[p].colour = R[p].colour
      BY <1>2, <2>2
    <3>2. R[q].colour # R[p].colour
      BY <1>2, <3>1 DEF ColoursKept, Settled
    <3>3. CASE q = r
      BY <3>1, <3>2, <3>3 DEF Fits
    <3>4. CASE q # r
      BY <3>1, <3>2, <3>4
    <3> QED
      BY <3>3, <3>4
  <2> QED
    BY <2>1, <2>2
<1> QED
  BY <1>1, <1>2 DEF ColoursKept, Settled

\* set_values_at_process_start_up.
LEMMA StartedUpKeeps ==
    ASSUME NEW R, NEW s \in Lineups, NEW r \in s, NEW S \in SUBSET s,
           Objects(R), ColoursKept(R, s, S),
           NEW home, NEW away, NEW c \in FreeColours(R, s, r, home, away)
    PROVE  /\ Objects(StartedUp(R, r, c))
           /\ SameNames(StartedUp(R, r, c), R)
           /\ \A q \in Robots : StartedUp(R, r, c)[q].team = R[q].team
           /\ ColoursKept(StartedUp(R, r, c), s, S \cup {r})
<1> DEFINE T == StartedUp(R, r, c)
<1>0. s \in SUBSET Robots /\ DOMAIN R = Robots /\ \A q \in Robots : DOMAIN R[q] = Fields
  BY MessagesAssumption DEF Objects
<1>1. CASE ~ R[r].competed
  <2>1. T = [R EXCEPT ![r].coloured = FALSE, ![r].named = FALSE]
    BY <1>1 DEF StartedUp
  <2>2. /\ DOMAIN T = Robots /\ \A q \in Robots \ {r} : T[q] = R[q]
        /\ DOMAIN T[r] = Fields /\ ~ T[r].coloured
        /\ T[r].plain = R[r].plain /\ T[r].nr = R[r].nr /\ T[r].team = R[r].team
        /\ T[r].colour = R[r].colour /\ T[r].competed = R[r].competed
    BY <1>0, <2>1 DEF Fields
  <2> HIDE DEF T
  <2>3. ColoursKept(T, s, S \cup {r})
    <3>1. /\ \A q \in Robots : T[q].team = R[q].team /\ T[q].competed = R[q].competed
          /\ \A q \in Robots \ {r} : T[q].colour = R[q].colour /\ T[q].coloured = R[q].coloured
          /\ T[r].competed => T[r].coloured
      BY <1>1, <2>2
    <3> QED
      BY <1>0, <2>2, <3>1, Recoloured
  <2>4. Objects(T) /\ SameNames(T, R) /\ \A q \in Robots : T[q].team = R[q].team
    BY <1>0, <2>2 DEF Objects, SameNames
  <2> QED
    BY <2>3, <2>4 DEF T
<1>2. CASE R[r].competed
  <2>1. T = [R EXCEPT ![r].colour = c]
    BY <1>2 DEF StartedUp
  <2>2. /\ DOMAIN T = Robots /\ \A q \in Robots \ {r} : T[q] = R[q]
        /\ DOMAIN T[r] = Fields /\ T[r].colour = c
        /\ T[r].plain = R[r].plain /\ T[r].nr = R[r].nr /\ T[r].team = R[r].team
        /\ T[r].coloured = R[r].coloured /\ T[r].competed = R[r].competed
    BY <1>0, <2>1 DEF Fields
  <2> HIDE DEF T
  <2>3. ColoursKept(T, s, S \cup {r})
    <3>1. /\ \A q \in Robots : T[q].team = R[q].team /\ T[q].competed = R[q].competed
          /\ \A q \in Robots \ {r} : T[q].colour = R[q].colour /\ T[q].coloured = R[q].coloured
          /\ T[r].competed => T[r].coloured
      BY <1>0, <2>2 DEF ColoursKept, Given
    <3>2. Fits(R, s, S, r, T[r].colour)
      BY <2>2, FreeFits
    <3> QED
      BY <1>0, <3>1, <3>2, Recoloured
  <2>4. Objects(T) /\ SameNames(T, R) /\ \A q \in Robots : T[q].team = R[q].team
    BY <1>0, <2>2 DEF Objects, SameNames
  <2> QED
    BY <2>3, <2>4 DEF T
<1> QED
  BY <1>1, <1>2

\* f is the loop of start_sequence up to robot number n.
IsStart(f, n, s, colour) ==
    f = [i \in 0 .. n |-> IF i = 0 THEN robot ELSE StartProcess(f[i - 1], s, i, colour)]

\* f[i] is what the loop has come to after robot i.
StartLoop(f, s, colour) ==
    /\ f[0] = robot
    /\ \A i \in 1 .. NumberOfRobots : f[i] = StartProcess(f[i - 1], s, i, colour)
    /\ StartProcesses(s, colour) = f[NumberOfRobots]

\* The loop of start_sequence can be carried on from every robot: it is a function.
LEMMA StartIs ==
    ASSUME NEW s, NEW colour
    PROVE  \E f : StartLoop(f, s, colour)
<1> DEFINE S == {n \in 0 .. NumberOfRobots : \E f : IsStart(f, n, s, colour)}
<1>1. 0 \in S
  <2> DEFINE f == [i \in 0 .. 0 |-> robot]
  <2>1. f = [i \in 0 .. 0 |-> IF i = 0 THEN robot ELSE StartProcess(f[i - 1], s, i, colour)]
    <3>1. \A i \in 0 .. 0 : i = 0
      OBVIOUS
    <3> QED
      BY <3>1
  <2>2. IsStart(f, 0, s, colour)
    BY <2>1 DEF IsStart
  <2> HIDE DEF f
  <2> QED
    BY <2>2, MessagesAssumption
<1>2. ASSUME NEW n \in 1 .. NumberOfRobots, n - 1 \in S
      PROVE  n \in S
  <2>1. PICK f : IsStart(f, n - 1, s, colour)
    BY <1>2
  <2>0. n \in Nat /\ n # 0
    BY MessagesAssumption
  <2> DEFINE g == [i \in 0 .. n |-> IF i = n THEN StartProcess(f[n - 1], s, n, colour) ELSE f[i]]
  <2>2. \A i \in 0 .. n - 1 : g[i] = f[i]
    BY <2>0
  <2>3. ASSUME NEW i \in 0 .. n
        PROVE  g[i] = IF i = 0 THEN robot ELSE StartProcess(g[i - 1], s, i, colour)
    <3>1. CASE i = 0
      <4>1. 0 \in 0 .. n - 1
        BY <2>0
      <4>2. g[0] = f[0] /\ f[0] = robot
        BY <2>1, <2>2, <4>1 DEF IsStart
      <4> QED
        BY <3>1, <4>2
    <3>2. CASE i = n
      <4>1. n - 1 \in 0 .. n - 1 /\ n # 0
        BY <2>0
      <4>2. g[n] = StartProcess(f[n - 1], s, n, colour) /\ g[n - 1] = f[n - 1]
        BY <2>0, <2>2, <4>1
      <4> HIDE DEF g
      <4> QED
        BY <3>2, <4>1, <4>2
    <3>3. CASE i # 0 /\ i # n
      <4>1. i \in 0 .. n - 1 /\ i - 1 \in 0 .. n - 1
        BY <2>0, <3>3
      <4>2. g[i] = f[i] /\ g[i - 1] = f[i - 1]
        BY <2>2, <4>1
      <4>3. f[i] = StartProcess(f[i - 1], s, i, colour)
        BY <2>1, <3>3, <4>1 DEF IsStart
      <4> HIDE DEF g
      <4> QED
        BY <3>3, <4>2, <4>3
    <3> QED
      BY <3>1, <3>2, <3>3
  <2>4. IsStart(g, n, s, colour)
    <3>1. g = [i \in 0 .. n |-> g[i]]
      OBVIOUS
    <3> HIDE DEF g
    <3> QED
      BY <2>3, <3>1 DEF IsStart
  <2> HIDE DEF g
  <2> QED
    BY <2>4
<1>3. NumberOfRobots \in S
  <2> HIDE DEF S
  <2> QED
    BY <1>1, <1>2, UpTo, MessagesAssumption
<1> DEFINE Is(f) == IsStart(f, NumberOfRobots, s, colour)
<1>4. PICK f : Is(f) /\ StartProcesses(s, colour) = f[NumberOfRobots]
  <2>1. \E f : Is(f)
    BY <1>3
  <2>2. StartProcesses(s, colour) = (CHOOSE f : Is(f))[NumberOfRobots]
    BY DEF StartProcesses, IsStart
  <2> HIDE DEF Is
  <2> QED
    BY <2>1, <2>2
<1>5. f[0] = robot
  BY <1>4, MessagesAssumption DEF IsStart
<1>6. \A i \in 1 .. NumberOfRobots : f[i] = StartProcess(f[i - 1], s, i, colour)
  <2>1. \A i \in 1 .. NumberOfRobots : i \in 0 .. NumberOfRobots /\ i # 0
    BY MessagesAssumption
  <2> QED
    BY <1>4, <2>1 DEF IsStart
<1> QED
  BY <1>4, <1>5, <1>6 DEF StartLoop

\* f is the loop of start_sequence_follow_up up to robot number n.
IsGive(f, n, colour) ==
    f = [i \in 0 .. n |-> IF i = 0 THEN robot ELSE GiveColour(f[i - 1], i, colour)]

\* f[i] is what the loop has come to after robot i.
GiveLoop(f, colour) ==
    /\ f[0] = robot
    /\ \A i \in 1 .. NumberOfRobots : f[i] = GiveColour(f[i - 1], i, colour)
    /\ GiveColours(colour) = f[NumberOfRobots]

\* The loop of start_sequence_follow_up can be carried on from every robot: it is a function.
LEMMA GiveIs ==
    ASSUME NEW colour
    PROVE  \E f : GiveLoop(f, colour)
<1> DEFINE S == {n \in 0 .. NumberOfRobots : \E f : IsGive(f, n, colour)}
<1>1. 0 \in S
  <2> DEFINE f == [i \in 0 .. 0 |-> robot]
  <2>1. f = [i \in 0 .. 0 |-> IF i = 0 THEN robot ELSE GiveColour(f[i - 1], i, colour)]
    <3>1. \A i \in 0 .. 0 : i = 0
      OBVIOUS
    <3> QED
      BY <3>1
  <2>2. IsGive(f, 0, colour)
    BY <2>1 DEF IsGive
  <2> HIDE DEF f
  <2> QED
    BY <2>2, MessagesAssumption
<1>2. ASSUME NEW n \in 1 .. NumberOfRobots, n - 1 \in S
      PROVE  n \in S
  <2>1. PICK f : IsGive(f, n - 1, colour)
    BY <1>2
  <2>0. n \in Nat /\ n # 0
    BY MessagesAssumption
  <2> DEFINE g == [i \in 0 .. n |-> IF i = n THEN GiveColour(f[n - 1], n, colour) ELSE f[i]]
  <2>2. \A i \in 0 .. n - 1 : g[i] = f[i]
    BY <2>0
  <2>3. ASSUME NEW i \in 0 .. n
        PROVE  g[i] = IF i = 0 THEN robot ELSE GiveColour(g[i - 1], i, colour)
    <3>1. CASE i = 0
      <4>1. 0 \in 0 .. n - 1
        BY <2>0
      <4>2. g[0] = f[0] /\ f[0] = robot
        BY <2>1, <2>2, <4>1 DEF IsGive
      <4> QED
        BY <3>1, <4>2
    <3>2. CASE i = n
      <4>1. n - 1 \in 0 .. n - 1 /\ n # 0
        BY <2>0
      <4>2. g[n] = GiveColour(f[n - 1], n, colour) /\ g[n - 1] = f[n - 1]
        BY <2>0, <2>2, <4>1
      <4> HIDE DEF g
      <4> QED
        BY <3>2, <4>1, <4>2
    <3>3. CASE i # 0 /\ i # n
      <4>1. i \in 0 .. n - 1 /\ i - 1 \in 0 .. n - 1
        BY <2>0, <3>3
      <4>2. g[i] = f[i] /\ g[i - 1] = f[i - 1]
        BY <2>2, <4>1
      <4>3. f[i] = GiveColour(f[i - 1], i, colour)
        BY <2>1, <3>3, <4>1 DEF IsGive
      <4> HIDE DEF g
      <4> QED
        BY <3>3, <4>2, <4>3
    <3> QED
      BY <3>1, <3>2, <3>3
  <2>4. IsGive(g, n, colour)
    <3>1. g = [i \in 0 .. n |-> g[i]]
      OBVIOUS
    <3> HIDE DEF g
    <3> QED
      BY <2>3, <3>1 DEF IsGive
  <2> HIDE DEF g
  <2> QED
    BY <2>4
<1>3. NumberOfRobots \in S
  <2> HIDE DEF S
  <2> QED
    BY <1>1, <1>2, UpTo, MessagesAssumption
<1> DEFINE Is(f) == IsGive(f, NumberOfRobots, colour)
<1>4. PICK f : Is(f) /\ GiveColours(colour) = f[NumberOfRobots]
  <2>1. \E f : Is(f)
    BY <1>3
  <2>2. GiveColours(colour) = (CHOOSE f : Is(f))[NumberOfRobots]
    BY DEF GiveColours, IsGive
  <2> HIDE DEF Is
  <2> QED
    BY <2>1, <2>2
<1>5. f[0] = robot
  BY <1>4, MessagesAssumption DEF IsGive
<1>6. \A i \in 1 .. NumberOfRobots : f[i] = GiveColour(f[i - 1], i, colour)
  <2>1. \A i \in 1 .. NumberOfRobots : i \in 0 .. NumberOfRobots /\ i # 0
    BY MessagesAssumption
  <2> QED
    BY <1>4, <2>1 DEF IsGive
<1> QED
  BY <1>4, <1>5, <1>6 DEF GiveLoop

\* What holds of the robots R when the sequence s plays: names, teams and colours.
Good(R, s) == Objects(R) /\ NamesKept(R) /\ TeamsKept(R) /\ ColoursKept(R, s, s)

\* A change of other fields is harmless.
LEMMA AlikeGood ==
    ASSUME NEW R, NEW T, NEW s \in SUBSET Robots, Good(R, s), Objects(T), Alike(T, R)
    PROVE  Good(T, s)
<1>1. NamesKept(T)
  BY DEF Good, NamesKept, Apart, Alike
<1>2. TeamsKept(T)
  BY DEF Good, TeamsKept, Alike
<1>3. ColoursKept(T, s, s)
  <2>1. Given(T)
    BY DEF Good, ColoursKept, Given, Alike
  <2>2. ASSUME NEW p \in s, T[p].coloured, T[p].team = "", NEW q \in s \ {p}
        PROVE  T[q].colour # T[p].colour
    <3>1. /\ R[p].coloured /\ R[p].team = ""
          /\ T[q].colour = R[q].colour /\ T[p].colour = R[p].colour
      BY <2>2 DEF Alike
    <3> QED
      BY <3>1 DEF Good, ColoursKept, Settled
  <2> QED
    BY <2>1, <2>2 DEF ColoursKept, Settled
<1> QED
  BY <1>1, <1>2, <1>3 DEF Good

\* Names and teams are what they are in R.
LEMMA SameNamesKept ==
    ASSUME NEW R, NEW T, NamesKept(R), TeamsKept(R), SameNames(T, R),
           \A q \in Robots : T[q].team = R[q].team
    PROVE  NamesKept(T) /\ TeamsKept(T)
<1>1. NamesKept(T)
  BY DEF NamesKept, Apart, SameNames
<1>2. TeamsKept(T)
  BY DEF TeamsKept
<1> QED
  BY <1>1, <1>2

\* A robot whose process is started anew in the middle of a sequence.
LEMMA RestartGood ==
    ASSUME NEW R, NEW s \in Lineups, NEW r \in s, Good(R, s),
           NEW home, NEW away, NEW c \in FreeColours(R, s, r, home, away)
    PROVE  Good(StartedUp(R, r, c), s)
<1> DEFINE T == StartedUp(R, r, c)
<1>1. s \cup {r} = s /\ s \in SUBSET s
  OBVIOUS
<1>2. Objects(R) /\ ColoursKept(R, s, s) /\ NamesKept(R) /\ TeamsKept(R)
  BY DEF Good
<1>3. /\ Objects(T) /\ SameNames(T, R) /\ \A q \in Robots : T[q].team = R[q].team
      /\ ColoursKept(T, s, s \cup {r})
  BY <1>1, <1>2, StartedUpKeeps
<1> HIDE DEF T
<1>4. NamesKept(T) /\ TeamsKept(T)
  BY <1>2, <1>3, SameNamesKept
<1>5. Good(T, s)
  BY <1>1, <1>3, <1>4 DEF Good
<1> QED
  BY <1>5 DEF T

\* What holds in start_sequence when the robots up to q have been started.
Starting(R, s, q) ==
    /\ Objects(R) /\ NamesKept(R) /\ TeamsKept(R)
    /\ ColoursKept(R, s, {p \in s : p <= q})

\* start_sequence: robots that come from different sequences, with colours that are
\* not compared yet, get colours that fit.
LEMMA StartGood ==
    ASSUME NEW s \in Lineups, NEW colour, Objects(robot), NamesKept(robot), TeamsKept(robot),
           Given(robot)
    PROVE  Good(StartProcesses(s, colour), s)
<1>0. NumberOfRobots \in Nat /\ Robots = 1 .. NumberOfRobots
  BY MessagesAssumption DEF Robots
<1>1. s \subseteq Robots /\ \A p \in s : p \in Nat /\ 1 <= p /\ p <= NumberOfRobots
  <2>1. s \subseteq Robots
    BY MessagesAssumption
  <2> QED
    BY <1>0, <2>1
<1>2. PICK f : StartLoop(f, s, colour)
  BY StartIs
<1>3. /\ f[0] = robot
      /\ \A i \in 1 .. NumberOfRobots : f[i] = StartProcess(f[i - 1], s, i, colour)
      /\ StartProcesses(s, colour) = f[NumberOfRobots]
  BY <1>2 DEF StartLoop
<1> DEFINE S == {i \in 0 .. NumberOfRobots : Starting(f[i], s, i)}
<1>4. 0 \in S
  <2>1. {p \in s : p <= 0} = {}
    BY <1>1
  <2>2. Starting(robot, s, 0)
    BY <2>1 DEF Starting, ColoursKept, Settled
  <2> QED
    BY <1>0, <1>3, <2>2
<1>5. ASSUME NEW i \in 1 .. NumberOfRobots, i - 1 \in S
      PROVE  i \in S
  <2> DEFINE R == f[i - 1]
             T == StartProcess(R, s, i, colour)
             before == {p \in s : p <= i - 1}
             upto == {p \in s : p <= i}
  <2>1. Objects(R) /\ NamesKept(R) /\ TeamsKept(R) /\ ColoursKept(R, s, before)
    BY <1>5 DEF Starting
  <2>2. i \in 0 .. NumberOfRobots /\ \A p \in Nat : p <= i <=> p <= i - 1 \/ p = i
    BY <1>0
  <2>3. before \in SUBSET s
    OBVIOUS
  <2>4. CASE i \notin s
    <3>1. T = R
      BY <2>4 DEF StartProcess
    <3>2. upto = before
      BY <1>1, <2>2, <2>4
    <3> QED
      BY <1>3, <2>1, <2>2, <3>1, <3>2 DEF Starting
  <2>5. CASE i \in s
    <3> DEFINE c == Picked(colour, FreeColours(R, s, i, R[i].colour, R[i].colour))
    <3>1. T = StartedUp(R, i, c)
      BY <2>5 DEF StartProcess
    <3>2. c \in FreeColours(R, s, i, R[i].colour, R[i].colour)
      BY <2>5, SomeFree
    <3>3. upto = before \cup {i}
      BY <1>1, <2>2, <2>5
    <3> HIDE DEF c, R, before
    <3>4. /\ Objects(T) /\ SameNames(T, R) /\ \A q \in Robots : T[q].team = R[q].team
          /\ ColoursKept(T, s, before \cup {i})
      <4> HIDE DEF T
      <4> QED
        BY <2>1, <2>3, <2>5, <3>1, <3>2, StartedUpKeeps
    <3> HIDE DEF T, upto
    <3>5. NamesKept(T) /\ TeamsKept(T)
      BY <2>1, <3>4, SameNamesKept
    <3>6. f[i] = T
      BY <1>3 DEF T, R
    <3>7. ColoursKept(T, s, upto)
      BY <3>3, <3>4
    <3>8. Starting(T, s, i)
      BY <3>4, <3>5, <3>7 DEF Starting, upto
    <3> QED
      BY <2>2, <3>6, <3>8
  <2> QED
    BY <2>4, <2>5
<1>6. NumberOfRobots \in S
  <2> HIDE DEF S
  <2> QED
    BY <1>0, <1>4, <1>5, UpTo
<1>7. {p \in s : p <= NumberOfRobots} = s
  BY <1>1
<1> QED
  BY <1>3, <1>6, <1>7 DEF Starting, Good

\* What holds in start_sequence_follow_up when robots up to q have been looked at.
Giving(R, q) ==
    /\ Good(R, members)
    /\ \A p \in members : p <= q => R[p].coloured

\* start_sequence_follow_up: every robot of the sequence has a colour then.
LEMMA GiveGood ==
    ASSUME NEW colour, members \in Lineups, Good(robot, members)
    PROVE  /\ Good(GiveColours(colour), members)
           /\ \A r \in members : GiveColours(colour)[r].coloured
<1>0. NumberOfRobots \in Nat /\ Robots = 1 .. NumberOfRobots
  BY MessagesAssumption DEF Robots
<1>1. /\ members \in SUBSET Robots
      /\ \A p \in members : p \in Nat /\ 1 <= p /\ p <= NumberOfRobots
  <2>1. members \subseteq Robots
    BY MessagesAssumption
  <2> QED
    BY <1>0, <2>1
<1>2. PICK f : GiveLoop(f, colour)
  BY GiveIs
<1>3. /\ f[0] = robot
      /\ \A i \in 1 .. NumberOfRobots : f[i] = GiveColour(f[i - 1], i, colour)
      /\ GiveColours(colour) = f[NumberOfRobots]
  BY <1>2 DEF GiveLoop
<1> DEFINE S == {i \in 0 .. NumberOfRobots : Giving(f[i], i)}
<1>4. 0 \in S
  <2>1. \A p \in members : ~ (p <= 0)
    BY <1>1
  <2>2. Giving(robot, 0)
    BY <2>1 DEF Giving
  <2> QED
    BY <1>0, <1>3, <2>2
<1>5. ASSUME NEW i \in 1 .. NumberOfRobots, i - 1 \in S
      PROVE  i \in S
  <2> DEFINE R == f[i - 1]
             T == GiveColour(R, i, colour)
  <2>1. Good(R, members) /\ \A p \in members : p <= i - 1 => R[p].coloured
    BY <1>5 DEF Giving
  <2>2. i \in 0 .. NumberOfRobots /\ \A p \in Nat : p <= i <=> p <= i - 1 \/ p = i
    BY <1>0
  <2>3. f[i] = T
    BY <1>3
  <2>4. CASE i \notin members \/ R[i].coloured
    <3>1. T = R
      BY <2>4 DEF GiveColour
    <3>2. \A p \in members : p <= i => R[p].coloured
      <4> HIDE DEF R
      <4> QED
        BY <1>1, <2>1, <2>2, <2>4
    <3> QED
      BY <2>1, <2>2, <2>3, <3>1, <3>2 DEF Giving
  <2>5. CASE i \in members /\ ~ R[i].coloured
    <3> DEFINE c == Picked(colour, FreeColours(R, members, i, Background, Background))
    <3>1. T = [R EXCEPT ![i].coloured = TRUE, ![i].colour = c]
      BY <2>5 DEF GiveColour
    <3>2. c \in FreeColours(R, members, i, Background, Background)
      BY <2>5, SomeFree
    <3> HIDE DEF c, R
    <3>3. /\ Objects(R) /\ NamesKept(R) /\ TeamsKept(R) /\ ColoursKept(R, members, members)
          /\ members \in SUBSET members /\ members \cup {i} = members
      BY <2>1, <2>5 DEF Good
    <3>4. /\ DOMAIN T = Robots /\ \A q \in Robots \ {i} : T[q] = R[q]
          /\ DOMAIN T[i] = Fields /\ T[i].colour = c /\ T[i].coloured
          /\ T[i].plain = R[i].plain /\ T[i].nr = R[i].nr /\ T[i].team = R[i].team
          /\ T[i].competed = R[i].competed
      <4>1. DOMAIN R = Robots /\ \A q \in Robots : DOMAIN R[q] = Fields
        BY <3>3 DEF Objects
      <4> HIDE DEF T
      <4> QED
        BY <1>0, <3>1, <4>1 DEF Fields
    <3> HIDE DEF T
    <3>5. Objects(T) /\ SameNames(T, R) /\ \A q \in Robots : T[q].team = R[q].team
      BY <3>3, <3>4 DEF Objects, SameNames
    <3>6. NamesKept(T) /\ TeamsKept(T)
      BY <3>3, <3>5, SameNamesKept
    <3>7. ColoursKept(T, members, members)
      <4>1. /\ \A q \in Robots : T[q].team = R[q].team /\ T[q].competed = R[q].competed
            /\ \A q \in Robots \ {i} : T[q].colour = R[q].colour /\ T[q].coloured = R[q].coloured
            /\ T[i].competed => T[i].coloured
        BY <3>4
      <4>2. Fits(R, members, members, i, T[i].colour)
        BY <2>5, <3>2, <3>3, <3>4, FreeFits
      <4>3. ColoursKept(T, members, members \cup {i})
        BY <1>1, <2>5, <3>3, <4>1, <4>2, Recoloured
      <4> QED
        BY <3>3, <4>3
    <3>8. Good(T, members)
      BY <3>5, <3>6, <3>7 DEF Good
    <3>9. \A p \in members : p <= i => T[p].coloured
      BY <1>1, <2>1, <2>2, <3>4
    <3> QED
      BY <2>2, <2>3, <3>8, <3>9 DEF Giving
  <2> QED
    BY <2>4, <2>5
<1>6. NumberOfRobots \in S
  <2> HIDE DEF S
  <2> QED
    BY <1>0, <1>4, <1>5, UpTo
<1> QED
  BY <1>1, <1>3, <1>6 DEF Giving

\* f is the loop of get_messages up to turn number n.
IsParse(f, n, m, r) ==
    f = [i \in 0 .. n |-> IF i = 0 THEN m ELSE TakeMessage(f[i - 1], r)]

\* f[i] is what the loop has come to after turn i.
ParseLoop(f, m, r) ==
    /\ f[0] = m
    /\ \A i \in 1 .. Len(m.buf) : f[i] = TakeMessage(f[i - 1], r)
    /\ Parse(m, r) = f[Len(m.buf)]

\* The loop of get_messages can be carried on from every turn: it is a function.
LEMMA ParseIs ==
    ASSUME NEW m, NEW r, Len(m.buf) \in Nat
    PROVE  \E f : ParseLoop(f, m, r)
<1> DEFINE S == {n \in 0 .. Len(m.buf) : \E f : IsParse(f, n, m, r)}
<1>1. 0 \in S
  <2> DEFINE f == [i \in 0 .. 0 |-> m]
  <2>1. f = [i \in 0 .. 0 |-> IF i = 0 THEN m ELSE TakeMessage(f[i - 1], r)]
    <3>1. \A i \in 0 .. 0 : i = 0
      OBVIOUS
    <3> QED
      BY <3>1
  <2>2. IsParse(f, 0, m, r)
    BY <2>1 DEF IsParse
  <2> HIDE DEF f
  <2> QED
    BY <2>2
<1>2. ASSUME NEW n \in 1 .. Len(m.buf), n - 1 \in S
      PROVE  n \in S
  <2>1. PICK f : IsParse(f, n - 1, m, r)
    BY <1>2
  <2>0. n \in Nat /\ n # 0
    OBVIOUS
  <2> DEFINE g == [i \in 0 .. n |-> IF i = n THEN TakeMessage(f[n - 1], r) ELSE f[i]]
  <2>2. \A i \in 0 .. n - 1 : g[i] = f[i]
    BY <2>0
  <2>3. ASSUME NEW i \in 0 .. n
        PROVE  g[i] = IF i = 0 THEN m ELSE TakeMessage(g[i - 1], r)
    <3>1. CASE i = 0
      <4>1. 0 \in 0 .. n - 1
        BY <2>0
      <4>2. g[0] = f[0] /\ f[0] = m
        BY <2>1, <2>2, <4>1 DEF IsParse
      <4> QED
        BY <3>1, <4>2
    <3>2. CASE i = n
      <4>1. n - 1 \in 0 .. n - 1 /\ n # 0
        BY <2>0
      <4>2. g[n] = TakeMessage(f[n - 1], r) /\ g[n - 1] = f[n - 1]
        BY <2>0, <2>2, <4>1
      <4> HIDE DEF g
      <4> QED
        BY <3>2, <4>1, <4>2
    <3>3. CASE i # 0 /\ i # n
      <4>1. i \in 0 .. n - 1 /\ i - 1 \in 0 .. n - 1
        BY <2>0, <3>3
      <4>2. g[i] = f[i] /\ g[i - 1] = f[i - 1]
        BY <2>2, <4>1
      <4>3. f[i] = TakeMessage(f[i - 1], r)
        BY <2>1, <3>3, <4>1 DEF IsParse
      <4> HIDE DEF g
      <4> QED
        BY <3>3, <4>2, <4>3
    <3> QED
      BY <3>1, <3>2, <3>3
  <2>4. IsParse(g, n, m, r)
    <3>1. g = [i \in 0 .. n |-> g[i]]
      OBVIOUS
    <3> HIDE DEF g
    <3> QED
      BY <2>3, <3>1 DEF IsParse
  <2> HIDE DEF g
  <2> QED
    BY <2>4
<1>3. Len(m.buf) \in S
  <2> HIDE DEF S
  <2> QED
    BY <1>1, <1>2, UpTo
<1> DEFINE Is(f) == IsParse(f, Len(m.buf), m, r)
<1>4. PICK f : Is(f) /\ Parse(m, r) = f[Len(m.buf)]
  <2>1. \E f : Is(f)
    BY <1>3
  <2>2. Parse(m, r) = (CHOOSE f : Is(f))[Len(m.buf)]
    BY DEF Parse, IsParse
  <2> HIDE DEF Is
  <2> QED
    BY <2>1, <2>2
<1>5. f[0] = m
  BY <1>4 DEF IsParse
<1>6. \A i \in 1 .. Len(m.buf) : f[i] = TakeMessage(f[i - 1], r)
  <2>1. \A i \in 1 .. Len(m.buf) : i \in 0 .. Len(m.buf) /\ i # 0
    OBVIOUS
  <2> QED
    BY <1>4, <2>1 DEF IsParse
<1> QED
  BY <1>4, <1>5, <1>6 DEF ParseLoop

-----------------------------------------------------------------------------
(***************************************************************************)
(* get_messages.                                                           *)
(***************************************************************************)

\* The fields of what get_messages works on.
Parts == {"buf", "failed", "pipe", "in", "state", "robot", "applied", "warned", "pick"}

\* What a pipe holds.
Tokens == Words \cup {"NL"}

\* n is m after a step that leaves the robots alone.
Quiet(m, n) ==
    /\ DOMAIN n = Parts /\ n.robot = m.robot /\ n.state = m.state
    /\ m.pipe \in Seq(Tokens) => n.pipe \in Seq(Tokens)

\* What a step from m to n must keep.  The robots change at the start only.
Taken(m, n) ==
    /\ DOMAIN n = Parts /\ n.state = m.state
    /\ Good(n.robot, members)
    /\ m.state # "STARTING_ROBOTS" => n.robot = m.robot
    /\ m.pipe \in Seq(Tokens) => n.pipe \in Seq(Tokens)

\* The end of a line, or of the buffer, is found.
LEMMA LineLengthIs ==
    ASSUME NEW W, NEW b \in Seq(W)
    PROVE  AfterLine(b) \in Seq(W) /\ SkipSpace(b) \in Seq(W)
<1>0. Len(b) \in Nat
  OBVIOUS
<1> DEFINE T == {k \in 0 .. Len(b) : k = Len(b) \/ IsNL(b[k + 1])}
           U == {k \in 0 .. Len(b) : k = Len(b) \/ ~ IsNL(b[k + 1])}
<1>1. Len(b) \in T /\ Len(b) \in U /\ T \in SUBSET Nat /\ U \in SUBSET Nat
  BY <1>0
<1>2. \A i, k \in Nat : i \in 1 .. k => i - 1 \in Nat /\ i - 1 < k /\ (i - 1) + 1 = i /\ i - 1 <= k
  OBVIOUS
<1>3. \E k \in 0 .. Len(b) :
        /\ k = Len(b) \/ IsNL(b[k + 1])
        /\ \A i \in 1 .. k : ~ IsNL(b[i])
  <2>1. PICK k \in T : \A l \in T : k <= l
    <3> HIDE DEF T
    <3> QED
      BY <1>1, LeastNumber
  <2>2. ASSUME NEW i \in 1 .. k, IsNL(b[i])
        PROVE  FALSE
    <3>1. i - 1 \in 0 .. Len(b) /\ (i - 1) + 1 = i /\ ~ (k <= i - 1)
      BY <1>0, <2>1
    <3>2. i - 1 \in T
      BY <2>2, <3>1
    <3> QED
      BY <2>1, <3>1, <3>2
  <2> QED
    BY <2>1, <2>2
<1>4. \E k \in 0 .. Len(b) :
        /\ k = Len(b) \/ ~ IsNL(b[k + 1])
        /\ \A i \in 1 .. k : IsNL(b[i])
  <2>1. PICK k \in U : \A l \in U : k <= l
    <3> HIDE DEF U
    <3> QED
      BY <1>1, LeastNumber
  <2>2. ASSUME NEW i \in 1 .. k, ~ IsNL(b[i])
        PROVE  FALSE
    <3>1. i - 1 \in 0 .. Len(b) /\ (i - 1) + 1 = i /\ ~ (k <= i - 1)
      BY <1>0, <2>1
    <3>2. i - 1 \in U
      BY <2>2, <3>1
    <3> QED
      BY <2>1, <3>1, <3>2
  <2> QED
    BY <2>1, <2>2
<1>5. LineLength(b) \in 0 .. Len(b)
  BY <1>3 DEF LineLength
<1>6. \A k \in 0 .. Len(b) : SubSeq(b, k + 1, Len(b)) \in Seq(W)
  OBVIOUS
<1>7. AfterLine(b) \in Seq(W)
  BY <1>5, <1>6 DEF AfterLine
<1>8. SkipSpace(b) \in Seq(W)
  <2> DEFINE n == CHOOSE k \in 0 .. Len(b) :
                    /\ k = Len(b) \/ ~ IsNL(b[k + 1])
                    /\ \A i \in 1 .. k : IsNL(b[i])
  <2>1. n \in 0 .. Len(b)
    BY <1>4
  <2>2. SkipSpace(b) = SubSeq(b, n + 1, Len(b))
    BY DEF SkipSpace
  <2> HIDE DEF n
  <2> QED
    BY <1>6, <2>1, <2>2
<1> QED
  BY <1>7, <1>8

\* The small steps are quiet.
LEMMA QuietSteps ==
    ASSUME NEW m, DOMAIN m = Parts, NEW k, NEW line
    PROVE  /\ Quiet(m, m) /\ Quiet(m, DropLine(m)) /\ Quiet(m, ReadNumbers(m, k))
           /\ Quiet(m, Applied(m, line)) /\ Quiet(m, Warned(m)) /\ Quiet(m, WrongState(m))
<1>1. Quiet(m, m) /\ Quiet(m, DropLine(m)) /\ Quiet(m, ReadNumbers(m, k))
  BY DEF Quiet, Parts, DropLine, ReadNumbers
<1>2. Quiet(m, Applied(m, line)) /\ Quiet(m, Warned(m))
  BY DEF Quiet, Parts, Applied, Warned
<1>3. Quiet(m, WrongState(m))
  <2> DEFINE n == IF m.state = "BEFORE_GAME_START" THEN m ELSE Warned(m)
  <2>1. Quiet(m, n)
    BY <1>1, <1>2
  <2>2. WrongState(m) = IF n.in THEN [n EXCEPT !.pipe = AfterLine(@), !.in = FALSE] ELSE n
    BY DEF WrongState
  <2> HIDE DEF n
  <2>3. CASE ~ n.in
    BY <2>1, <2>2, <2>3
  <2>4. CASE n.in
    <3>1. WrongState(m) = [n EXCEPT !.pipe = AfterLine(@), !.in = FALSE]
      BY <2>2, <2>4
    <3>2. n.pipe \in Seq(Tokens) => AfterLine(n.pipe) \in Seq(Tokens)
      BY LineLengthIs
    <3> QED
      BY <2>1, <3>1, <3>2 DEF Quiet, Parts
  <2> QED
    BY <2>3, <2>4
<1> QED
  BY <1>1, <1>2, <1>3

\* Quiet steps after each other are quiet, and they keep what is good.
LEMMA QuietKeeps ==
    ASSUME NEW m, NEW n, NEW o, Quiet(m, n), Quiet(n, o)
    PROVE  Quiet(m, o)
BY DEF Quiet

\* A quiet step keeps what is good.
LEMMA QuietTaken ==
    ASSUME NEW m, NEW n, Quiet(m, n), Good(m.robot, members)
    PROVE  Taken(m, n)
BY DEF Quiet, Taken

\* An option of a robot.
LEMMA FieldTaken ==
    ASSUME NEW m, NEW n, NEW r \in Robots, NEW val, NEW w, members \in Lineups,
           Quiet(m, n), Good(m.robot, members), m.state = "STARTING_ROBOTS"
    PROVE  /\ Taken(m, [n EXCEPT !.robot[r].signal = val])
           /\ Taken(m, [n EXCEPT !.robot[r].signal = val, !.warned = w])
           /\ Taken(m, [n EXCEPT !.robot[r].rotation = val])
<1> DEFINE R == n.robot
           T == [R EXCEPT ![r].signal = val]
           U == [R EXCEPT ![r].rotation = val]
<1>0. members \in SUBSET Robots
  BY MessagesAssumption
<1>1. /\ DOMAIN n = Parts /\ Good(R, members) /\ n.state = m.state
      /\ m.pipe \in Seq(Tokens) => n.pipe \in Seq(Tokens)
  BY DEF Quiet
<1>2. /\ [n EXCEPT !.robot[r].signal = val] = [n EXCEPT !.robot = T]
      /\ [n EXCEPT !.robot[r].rotation = val] = [n EXCEPT !.robot = U]
      /\ [n EXCEPT !.robot[r].signal = val, !.warned = w] = [n EXCEPT !.robot = T, !.warned = w]
  OBVIOUS
<1>3. DOMAIN R = Robots /\ \A q \in Robots : DOMAIN R[q] = Fields
  BY <1>1 DEF Good, Objects
<1> HIDE DEF R
<1>4. Objects(T) /\ Alike(T, R)
  <2>1. /\ DOMAIN T = Robots /\ T[r] = [R[r] EXCEPT !.signal = val]
        /\ \A q \in Robots \ {r} : T[q] = R[q]
    BY <1>3
  <2> HIDE DEF T
  <2> QED
    BY <1>3, <2>1 DEF Objects, Alike, Fields
<1>5. Objects(U) /\ Alike(U, R)
  <2>1. /\ DOMAIN U = Robots /\ U[r] = [R[r] EXCEPT !.rotation = val]
        /\ \A q \in Robots \ {r} : U[q] = R[q]
    BY <1>3
  <2> HIDE DEF U
  <2> QED
    BY <1>3, <2>1 DEF Objects, Alike, Fields
<1> HIDE DEF T, U
<1>6. Good(T, members) /\ Good(U, members)
  BY <1>0, <1>1, <1>4, <1>5, AlikeGood
<1> QED
  BY <1>1, <1>2, <1>6 DEF Taken, Parts

\* set_non_blocking_state.
LEMMA NonBlockingTaken ==
    ASSUME NEW m, NEW n, NEW r \in members, NEW val, members \in Lineups,
           Quiet(m, n), Good(m.robot, members), m.state = "STARTING_ROBOTS"
    PROVE  Taken(m, SetNonBlocking(n, r, val))
<1>0. members \in SUBSET Robots
  BY MessagesAssumption
<1>1. /\ DOMAIN n = Parts /\ Good(n.robot, members) /\ n.state = m.state
      /\ m.pipe \in Seq(Tokens) => n.pipe \in Seq(Tokens)
  BY DEF Quiet
<1>2. CASE val = n.robot[r].nonblocking
  BY <1>1, <1>2 DEF SetNonBlocking, Taken
<1>3. CASE val # n.robot[r].nonblocking
  <2> DEFINE S == n.robot
             R == [S EXCEPT ![r].nonblocking = val]
             free == FreeColours(R, members, r, R[r].colour, R[r].colour)
             c == Picked(n.pick.colour, free)
  <2>1. SetNonBlocking(n, r, val) =
          [n EXCEPT !.robot = StartedUp(R, r, c), !.pipe = <<>>, !.in = FALSE]
    BY <1>3 DEF SetNonBlocking
  <2>2. Good(R, members)
    <3>1. DOMAIN S = Robots /\ \A q \in Robots : DOMAIN S[q] = Fields
      BY <1>1 DEF Good, Objects
    <3>2. Good(S, members)
      BY <1>1
    <3> HIDE DEF S
    <3>3. /\ DOMAIN R = Robots /\ R[r] = [S[r] EXCEPT !.nonblocking = val]
          /\ \A q \in Robots \ {r} : R[q] = S[q]
      BY <1>0, <3>1
    <3> HIDE DEF R
    <3>4. Objects(R) /\ Alike(R, S)
      BY <1>0, <3>1, <3>3 DEF Objects, Alike, Fields
    <3> QED
      BY <1>0, <3>2, <3>4, AlikeGood
  <2> HIDE DEF R
  <2>3. c \in free
    BY SomeFree
  <2> HIDE DEF c
  <2>4. Good(StartedUp(R, r, c), members)
    BY <2>2, <2>3, RestartGood
  <2> QED
    BY <1>1, <2>1, <2>4 DEF Taken, Parts
<1> QED
  BY <1>2, <1>3

\* case ROBOT_OPTION.
LEMMA OptionTaken ==
    ASSUME NEW m, NEW r \in members, members \in Lineups, DOMAIN m = Parts,
           Good(m.robot, members), m.state = "STARTING_ROBOTS"
    PROVE  Taken(m, RobotOption(m, r))
<1> DEFINE opt == Value(m, 1, 1)
           val == Value(m, 2, 2)
           k == ReadNumbers(m, 2)
           n == Applied(k, <<"RobotOption">> \o Arguments(m.buf, 2))
           w == Warned(ReadNumbers(m, 1))
<1>0. r \in Robots
  BY MessagesAssumption
<1>1. Quiet(m, n)
  <2>1. Quiet(m, k)
    BY QuietSteps
  <2>2. Quiet(k, n)
    BY <2>1, QuietSteps DEF Quiet
  <2> HIDE DEF k, n
  <2> QED
    BY <2>1, <2>2, QuietKeeps
<1>2. Quiet(m, w)
  <2> DEFINE l == ReadNumbers(m, 1)
  <2>1. Quiet(m, l)
    BY QuietSteps
  <2>2. Quiet(l, w)
    BY <2>1, QuietSteps DEF Quiet
  <2> HIDE DEF l, w
  <2> QED
    BY <2>1, <2>2, QuietKeeps
<1>3. \/ RobotOption(m, r) = [n EXCEPT !.robot[r].signal = IF val = 1 THEN SIGUSR1 ELSE 0]
      \/ RobotOption(m, r) = [n EXCEPT !.robot[r].signal = IF val \in 1 .. NSIG - 1 THEN val ELSE 0,
                                       !.warned = @ \/ val >= NSIG]
      \/ RobotOption(m, r) = [n EXCEPT !.robot[r].rotation = IF val > 2 THEN 2 ELSE val]
      \/ RobotOption(m, r) = SetNonBlocking(n, r, val # 0)
      \/ RobotOption(m, r) = w
  <2> HIDE DEF opt, val
  <2> QED
    BY DEF RobotOption, opt, val
<1> HIDE DEF n, w, val
<1>4. \A x : Taken(m, [n EXCEPT !.robot[r].signal = x])
  BY <1>0, <1>1, FieldTaken
<1>5. \A x, y : Taken(m, [n EXCEPT !.robot[r].signal = x, !.warned = y])
  BY <1>0, <1>1, FieldTaken
<1>6. \A x : Taken(m, [n EXCEPT !.robot[r].rotation = x])
  BY <1>0, <1>1, FieldTaken
<1>7. Taken(m, SetNonBlocking(n, r, val # 0))
  BY <1>1, NonBlockingTaken
<1>8. Taken(m, w)
  BY <1>2, QuietTaken
<1>9. Taken(m, [n EXCEPT !.robot[r].signal = IF val = 1 THEN SIGUSR1 ELSE 0])
  BY <1>4
<1>10. Taken(m, [n EXCEPT !.robot[r].signal = IF val \in 1 .. NSIG - 1 THEN val ELSE 0,
                          !.warned = @ \/ val >= NSIG])
  <2>1. PICK x : x = IF val \in 1 .. NSIG - 1 THEN val ELSE 0
    OBVIOUS
  <2>2. PICK y : y = (n.warned \/ val >= NSIG)
    OBVIOUS
  <2>3. Taken(m, [n EXCEPT !.robot[r].signal = x, !.warned = y])
    BY <1>5
  <2> QED
    BY <2>1, <2>2, <2>3
<1>11. Taken(m, [n EXCEPT !.robot[r].rotation = IF val > 2 THEN 2 ELSE val])
  BY <1>6
<1> QED
  BY <1>3, <1>7, <1>8, <1>9, <1>10, <1>11

\* case NAME: the only message that changes names.
LEMMA NameTaken ==
    ASSUME NEW m, NEW r \in members, members \in Lineups, DOMAIN m = Parts,
           Good(m.robot, members), m.state = "STARTING_ROBOTS"
    PROVE  Taken(m, TakeName(m, r))
<1> DEFINE name == RestOfLine(m.buf)
           team == TeamOf(name)
           S == m.robot
           R == [S EXCEPT ![r].plain = name, ![r].team = IF team # "" THEN team ELSE @,
                          ![r].named = TRUE]
           T == CheckNameUniqueness(R, r)
           k == DropLine(m)
           n == [k EXCEPT !.robot = T]
           o == Applied(n, <<"Name">> \o name)
<1>0. members \in SUBSET Robots
  BY MessagesAssumption
<1>1. TakeName(m, r) = o
  BY DEF TakeName
<1>2. DOMAIN S = Robots /\ \A q \in Robots : DOMAIN S[q] = Fields
  BY DEF Good, Objects
<1>3. Good(S, members)
  OBVIOUS
<1>4. Quiet(m, k)
  BY QuietSteps
<1>5. /\ DOMAIN n = Parts /\ n.robot = T /\ n.state = m.state
      /\ m.pipe \in Seq(Tokens) => n.pipe \in Seq(Tokens)
  <2> HIDE DEF k, T
  <2> QED
    BY <1>4 DEF Quiet, Parts
<1> HIDE DEF S, name
<1>6. /\ DOMAIN R = Robots /\ \A q \in Robots \ {r} : R[q] = S[q]
      /\ DOMAIN R[r] = Fields /\ R[r].nr = S[r].nr
      /\ R[r].team = (IF team # "" THEN team ELSE S[r].team)
      /\ R[r].colour = S[r].colour /\ R[r].coloured = S[r].coloured
      /\ R[r].competed = S[r].competed
  <2> HIDE DEF team
  <2> QED
    BY <1>0, <1>2 DEF Fields
<1> HIDE DEF R, n, k
<1>7. Objects(R) /\ (\A p \in Robots : R[p].nr \in Nat)
  BY <1>0, <1>2, <1>3, <1>6 DEF Good, Objects, NamesKept
<1>8. ASSUME NEW p \in Robots \ {r}, NEW q \in Robots \ {r}
      PROVE  Apart(R, p, q)
  <2>1. R[p] = S[p] /\ R[q] = S[q]
    BY <1>6
  <2>2. Apart(S, p, q)
    BY <1>3 DEF Good, NamesKept
  <2> QED
    BY <2>1, <2>2 DEF Apart
<1>9. Objects(T) /\ SameButNumbers(T, R) /\ NamesKept(T)
  BY <1>0, <1>7, <1>8, CheckKeeps
<1> HIDE DEF T
<1>10. TeamsKept(T)
  <2>1. SUFFICES ASSUME NEW t, OneTeam(t), NEW q \in Robots
                 PROVE  T[q].team \in {"", t}
    BY DEF TeamsKept
  <2>2. S[q].team \in {"", t} /\ team \in {"", t}
    BY <1>3, <2>1 DEF Good, TeamsKept, OneTeam
  <2>3. T[q].team = R[q].team
    BY <1>9 DEF SameButNumbers
  <2> HIDE DEF team
  <2> QED
    BY <1>6, <2>2, <2>3
<1>11. ColoursKept(T, members, members)
  <2>1. \A q \in Robots : /\ T[q].colour = S[q].colour /\ T[q].coloured = S[q].coloured
                          /\ T[q].competed = S[q].competed
    BY <1>0, <1>6, <1>9 DEF SameButNumbers
  <2>2. \A q \in Robots : T[q].team = "" => S[q].team = ""
    <3>1. \A q \in Robots : T[q].team = R[q].team
      BY <1>9 DEF SameButNumbers
    <3> HIDE DEF team
    <3> QED
      BY <1>0, <1>6, <3>1
  <2>3. Given(T)
    BY <1>3, <2>1 DEF Good, ColoursKept, Given
  <2>4. ASSUME NEW p \in members, T[p].coloured, T[p].team = "", NEW q \in members \ {p}
        PROVE  T[q].colour # T[p].colour
    <3>1. /\ S[p].coloured /\ S[p].team = ""
          /\ T[q].colour = S[q].colour /\ T[p].colour = S[p].colour
      BY <1>0, <2>1, <2>2, <2>4
    <3> QED
      BY <1>3, <3>1 DEF Good, ColoursKept, Settled
  <2> QED
    BY <2>3, <2>4 DEF ColoursKept, Settled
<1>12. Good(T, members)
  BY <1>9, <1>10, <1>11 DEF Good
<1>13. Quiet(n, o)
  BY <1>5, QuietSteps
<1> HIDE DEF o
<1>14. Taken(m, o)
  BY <1>5, <1>12, <1>13 DEF Taken, Quiet
<1> QED
  BY <1>1, <1>14

\* case COLOUR.
LEMMA ColourTaken ==
    ASSUME NEW m, NEW r \in members, members \in Lineups, DOMAIN m = Parts,
           Good(m.robot, members), m.state = "STARTING_ROBOTS"
    PROVE  Taken(m, TakeColour(m, r))
<1> DEFINE args == Arguments(m.buf, 2)
           S == m.robot
           home == IF Len(args) = 2 THEN args[1] ELSE Background
           away == IF Len(args) = 2 THEN args[2] ELSE Background
           free == FreeColours(S, members, r, home, away)
           c == Picked(m.pick.colour, free)
           k == ReadNumbers(m, 2)
           T == [S EXCEPT ![r].colour = c, ![r].coloured = TRUE]
           n == [k EXCEPT !.robot = T]
           o == Applied(n, <<"Colour">> \o args)
<1>0. members \in SUBSET Robots
  BY MessagesAssumption
<1>1. Quiet(m, k)
  BY QuietSteps
<1>2. TakeColour(m, r) = o
  <2>1. free = IF Len(args) = 2 THEN FreeColours(S, members, r, args[1], args[2])
               ELSE FreeColours(S, members, r, Background, Background)
    OBVIOUS
  <2>2. TakeColour(m, r) =
          Applied([k EXCEPT !.robot[r].colour = c, !.robot[r].coloured = TRUE],
                  <<"Colour">> \o args)
    BY <2>1 DEF TakeColour
  <2>3. [k EXCEPT !.robot[r].colour = c, !.robot[r].coloured = TRUE] = n
    <3> HIDE DEF c
    <3>1. k.robot = S /\ "robot" \in DOMAIN k
      BY <1>1 DEF Quiet, Parts
    <3>2. r \in DOMAIN S
      BY <1>0 DEF Good, Objects
    <3> HIDE DEF k, S
    <3>3. [k EXCEPT !.robot[r].colour = c, !.robot[r].coloured = TRUE]
            = [k EXCEPT !.robot = [k.robot EXCEPT ![r].colour = c, ![r].coloured = TRUE]]
      BY <3>1, <3>2
    <3> QED
      BY <3>1, <3>3
  <2> QED
    BY <2>2, <2>3
<1>3. c \in free
  BY SomeFree
<1> HIDE DEF c, home, away
<1>4. Good(S, members) /\ DOMAIN S = Robots /\ \A q \in Robots : DOMAIN S[q] = Fields
  BY DEF Good, Objects
<1>5. /\ DOMAIN n = Parts /\ n.robot = T /\ n.state = m.state
      /\ m.pipe \in Seq(Tokens) => n.pipe \in Seq(Tokens)
  <2> HIDE DEF k, T
  <2> QED
    BY <1>1 DEF Quiet, Parts
<1> HIDE DEF S, n, k
<1>6. /\ DOMAIN T = Robots /\ \A q \in Robots \ {r} : T[q] = S[q]
      /\ DOMAIN T[r] = Fields /\ T[r].colour = c /\ T[r].coloured
      /\ T[r].plain = S[r].plain /\ T[r].nr = S[r].nr /\ T[r].team = S[r].team
      /\ T[r].competed = S[r].competed
  BY <1>0, <1>4 DEF Fields
<1> HIDE DEF T
<1>7. Objects(T) /\ SameNames(T, S) /\ \A q \in Robots : T[q].team = S[q].team
  BY <1>4, <1>6 DEF Objects, SameNames
<1>8. NamesKept(T) /\ TeamsKept(T)
  BY <1>4, <1>7, SameNamesKept DEF Good
<1>9. ColoursKept(T, members, members)
  <2>1. /\ \A q \in Robots : T[q].team = S[q].team /\ T[q].competed = S[q].competed
        /\ \A q \in Robots \ {r} : T[q].colour = S[q].colour /\ T[q].coloured = S[q].coloured
        /\ T[r].competed => T[r].coloured
    BY <1>6
  <2>2. ColoursKept(S, members, members) /\ members \in SUBSET members /\ members \cup {r} = members
    BY <1>4 DEF Good
  <2>3. Fits(S, members, members, r, T[r].colour)
    BY <1>3, <1>6, <2>2, FreeFits
  <2>4. ColoursKept(T, members, members \cup {r})
    BY <1>0, <2>1, <2>2, <2>3, Recoloured
  <2> QED
    BY <2>2, <2>4
<1>10. Good(T, members)
  BY <1>7, <1>8, <1>9 DEF Good
<1>11. Quiet(n, o)
  BY <1>5, QuietSteps
<1> HIDE DEF o
<1>12. Taken(m, o)
  BY <1>5, <1>10, <1>11 DEF Taken, Quiet
<1> QED
  BY <1>2, <1>12

\* The names that get_messages tells apart.
LEMMA MessageNames ==
    ASSUME NEW b
    PROVE  MessageName(b) \in Known \cup {"Unknown"}
BY DEF MessageName

\* The switch over the message types.
LEMMA HandleTaken ==
    ASSUME NEW m, NEW r \in members, members \in Lineups, DOMAIN m = Parts,
           Good(m.robot, members), NEW msg \in Known \cup {"Unknown"}
    PROVE  Taken(m, Handle(m, r, msg))
<1> DEFINE starting == m.state = "STARTING_ROBOTS"
           playing == m.state = "GAME_IN_PROGRESS"
           games == DOMAIN Commands \cup DOMAIN Drawings
           u == Warned(DropLine(m))
           b == WrongState(Warned(m))
           ca == Applied(ReadNumbers(m, Commands[msg]), <<msg>> \o Arguments(m.buf, Commands[msg]))
           da == Applied(ReadNumbers(m, Drawings[msg]), <<msg>> \o Arguments(m.buf, Drawings[msg]))
           ta == Applied(DropLine(m), <<msg>> \o RestOfLine(m.buf))
<1>1. \/ Handle(m, r, msg) = u
      \/ Handle(m, r, msg) = WrongState(m)
      \/ Handle(m, r, msg) = b
      \/ starting /\ Handle(m, r, msg) = RobotOption(m, r)
      \/ starting /\ Handle(m, r, msg) = TakeName(m, r)
      \/ starting /\ Handle(m, r, msg) = TakeColour(m, r)
      \/ Handle(m, r, msg) = ca
      \/ Handle(m, r, msg) = Warned(ca)
      \/ Handle(m, r, msg) = da
      \/ Handle(m, r, msg) = Warned(m)
      \/ Handle(m, r, msg) = ta
  <2>1. /\ DOMAIN Commands = {"Rotate", "RotateTo", "RotateAmount", "Sweep", "Accelerate",
                              "Brake", "Break", "Shoot"}
        /\ DOMAIN Drawings = {"DebugLine", "DebugCircle"}
    BY DEF Commands, Drawings
  <2>2. \/ msg = "Unknown"
        \/ msg = "RobotOption" \/ msg = "Name" \/ msg = "Colour"
        \/ msg \in DOMAIN Commands \/ msg \in DOMAIN Drawings \/ msg \in Texts
    BY DEF Known, StartMessages
  <2>3. CASE msg = "Unknown"
    BY <2>1, <2>3 DEF Handle, StartMessages, Texts
  <2>4. CASE msg \in StartMessages /\ ~ starting
    BY <2>1, <2>4 DEF Handle, StartMessages, Texts
  <2>5. CASE msg = "RobotOption" /\ starting
    BY <2>1, <2>5 DEF Handle, StartMessages, Texts
  <2>6. CASE msg = "Name" /\ starting
    BY <2>1, <2>6 DEF Handle, StartMessages, Texts
  <2>7. CASE msg = "Colour" /\ starting
    BY <2>1, <2>7 DEF Handle, StartMessages, Texts
  <2>8. CASE msg \in games /\ ~ playing
    BY <2>1, <2>8 DEF Handle, StartMessages, Texts
  <2>9. CASE msg \in DOMAIN Commands /\ playing
    BY <2>1, <2>9 DEF Handle, StartMessages, Texts
  <2>10. CASE msg \in DOMAIN Drawings /\ playing
    BY <2>1, <2>10 DEF Handle, StartMessages, Texts
  <2>11. CASE msg \in Texts
    BY <2>1, <2>11 DEF Handle, StartMessages, Texts
  <2> QED
    BY <2>2, <2>3, <2>4, <2>5, <2>6, <2>7, <2>8, <2>9, <2>10, <2>11 DEF StartMessages
<1>2. Quiet(m, DropLine(m)) /\ Quiet(m, Warned(m)) /\ Quiet(m, WrongState(m))
  BY QuietSteps
<1>3. \A k : Quiet(m, ReadNumbers(m, k))
  BY QuietSteps
<1>4. ASSUME NEW n, Quiet(m, n), NEW line
      PROVE  Quiet(m, Applied(n, line)) /\ Quiet(m, Warned(n)) /\ Quiet(m, WrongState(n))
  <2>1. Quiet(n, Applied(n, line)) /\ Quiet(n, Warned(n)) /\ Quiet(n, WrongState(n))
    BY <1>4, QuietSteps DEF Quiet
  <2> QED
    BY <1>4, <2>1 DEF Quiet
<1>5. Quiet(m, u) /\ Quiet(m, b) /\ Quiet(m, ta)
  BY <1>2, <1>4
<1>6. Quiet(m, ca) /\ Quiet(m, da)
  BY <1>3, <1>4
<1>7. Quiet(m, Warned(ca))
  <2> HIDE DEF ca
  <2> QED
    BY <1>4, <1>6
<1> HIDE DEF u, b, ca, da, ta
<1>8. \A n : Quiet(m, n) => Taken(m, n)
  BY QuietTaken
<1> QED
  BY <1>1, <1>2, <1>5, <1>6, <1>7, <1>8, OptionTaken, NameTaken, ColourTaken

\* A turn of the loop.
LEMMA MessageTaken ==
    ASSUME NEW m, NEW r \in members, members \in Lineups, DOMAIN m = Parts,
           Good(m.robot, members)
    PROVE  Taken(m, TakeMessage(m, r))
<1>1. CASE m.failed \/ m.buf = <<>>
  BY <1>1 DEF TakeMessage, Taken
<1>2. CASE ~ (m.failed \/ m.buf = <<>>)
  <2> DEFINE rest == SkipSpace(SubSeq(m.buf, NameLength(m.buf) + 1, Len(m.buf)))
             k == [m EXCEPT !.buf = rest]
             n == Handle(k, r, MessageName(m.buf))
  <2>1. TakeMessage(m, r) = [n EXCEPT !.buf = SkipSpace(@)]
    BY <1>2 DEF TakeMessage
  <2>2. DOMAIN k = Parts /\ k.robot = m.robot /\ k.state = m.state /\ k.pipe = m.pipe
    <3> HIDE DEF rest
    <3> QED
      BY DEF Parts
  <2> HIDE DEF k
  <2>3. Taken(k, n)
    BY <2>2, MessageNames, HandleTaken
  <2> HIDE DEF n
  <2> QED
    BY <2>1, <2>2, <2>3 DEF Taken, Parts
<1> QED
  BY <1>1, <1>2

\* The loop.
LEMMA ParseTaken ==
    ASSUME NEW m, NEW r \in members, members \in Lineups, DOMAIN m = Parts,
           Good(m.robot, members), Len(m.buf) \in Nat
    PROVE  Taken(m, Parse(m, r))
<1>1. PICK f : ParseLoop(f, m, r)
  BY ParseIs
<1>2. /\ f[0] = m
      /\ \A i \in 1 .. Len(m.buf) : f[i] = TakeMessage(f[i - 1], r)
      /\ Parse(m, r) = f[Len(m.buf)]
  BY <1>1 DEF ParseLoop
<1> DEFINE S == {i \in 0 .. Len(m.buf) : Taken(m, f[i])}
<1>3. 0 \in S
  BY <1>2 DEF Taken
<1>4. ASSUME NEW i \in 1 .. Len(m.buf), i - 1 \in S
      PROVE  i \in S
  <2> DEFINE n == f[i - 1]
  <2>1. Taken(m, n)
    BY <1>4
  <2>2. f[i] = TakeMessage(n, r)
    BY <1>2
  <2> HIDE DEF n
  <2>3. Taken(n, TakeMessage(n, r))
    BY <2>1, MessageTaken DEF Taken
  <2>4. Taken(m, TakeMessage(n, r))
    BY <2>1, <2>3 DEF Taken
  <2> QED
    BY <2>2, <2>4
<1>5. Len(m.buf) \in S
  <2> HIDE DEF S
  <2> QED
    BY <1>3, <1>4, UpTo
<1> QED
  BY <1>2, <1>5

-----------------------------------------------------------------------------
(***************************************************************************)
(* The theorems.                                                           *)
(***************************************************************************)

\* In a game every robot of the sequence has a colour.
Playing == state = "GAME_IN_PROGRESS" => \A r \in members : robot[r].coloured

\* The inductive invariant.  Of the pipes it says that they are sequences, since the
\* loop of get_messages goes as far as its buffer.
MessagesInv ==
    /\ members \in Lineups \cup {{}}
    /\ state \notin {"NOT_STARTED"} => members \in Lineups
    /\ pipe \in [Robots -> Seq(Tokens)]
    /\ Good(robot, members)
    /\ Playing

\* What get_messages begins with is what Parse can be given.
LEMMA BufferIs ==
    ASSUME NEW p \in Seq(Tokens)
    PROVE  /\ Len(SkipSpace(SubSeq(p, 1, ReadLength(p)))) \in Nat
           /\ Unread(p) \in Seq(Tokens)
<1>0. ReadLimit \in Nat
  BY MessagesAssumption
<1>1. ReadLength(p) \in 0 .. Len(p)
  BY <1>0 DEF ReadLength
<1> DEFINE b == SubSeq(p, 1, ReadLength(p))
<1>2. b \in Seq(Tokens)
  BY <1>1
<1> HIDE DEF b
<1>3. SkipSpace(b) \in Seq(Tokens)
  BY <1>2, LineLengthIs
<1>4. Len(SkipSpace(b)) \in Nat
  BY <1>3
<1>5. \A k \in 0 .. Len(p) : SubSeq(p, k + 1, Len(p)) \in Seq(Tokens)
  OBVIOUS
<1> QED
  BY <1>1, <1>4, <1>5 DEF Unread, b

\* get_messages of a robot of the sequence in arena state st.
LEMMA MessagesTaken ==
    ASSUME NEW r \in members, members \in Lineups, pipe[r] \in Seq(Tokens),
           Good(robot, members), NEW st, NEW pick
    PROVE  /\ Good(GetMessages(r, st, pick).robot, members)
           /\ st # "STARTING_ROBOTS" => GetMessages(r, st, pick).robot = robot
           /\ GetMessages(r, st, pick).pipe \in Seq(Tokens)
<1> DEFINE b == SkipSpace(SubSeq(pipe[r], 1, ReadLength(pipe[r])))
           m == [buf |-> b, failed |-> FALSE, pipe |-> Unread(pipe[r]),
                 in |-> Len(pipe[r]) >= ReadLimit, state |-> st, robot |-> robot,
                 applied |-> <<>>, warned |-> FALSE, pick |-> pick]
<1>1. GetMessages(r, st, pick) = Parse(m, r)
  BY DEF GetMessages
<1>2. Len(b) \in Nat /\ Unread(pipe[r]) \in Seq(Tokens)
  BY BufferIs
<1> HIDE DEF b
<1>3. /\ DOMAIN m = Parts /\ m.robot = robot /\ m.state = st
      /\ m.buf = b /\ m.pipe = Unread(pipe[r])
  BY DEF Parts
<1> HIDE DEF m
<1>4. Taken(m, Parse(m, r))
  BY <1>2, <1>3, ParseTaken
<1> QED
  BY <1>1, <1>2, <1>3, <1>4 DEF Taken

\* The end of a game: competed is set, and everybody who has played has a colour.
LEMMA ScoredGood ==
    ASSUME members \in SUBSET Robots, Good(robot, members), \A r \in members : robot[r].coloured
    PROVE  /\ Good(Scored, members)
           /\ \A r \in Robots : Scored[r].coloured = robot[r].coloured
<1>1. DOMAIN robot = Robots /\ \A q \in Robots : DOMAIN robot[q] = Fields
  BY DEF Good, Objects
<1> DEFINE T == Scored
<1>2. ASSUME NEW q \in Robots
      PROVE  /\ DOMAIN T[q] = Fields
             /\ T[q].plain = robot[q].plain /\ T[q].nr = robot[q].nr
             /\ T[q].team = robot[q].team /\ T[q].colour = robot[q].colour
             /\ T[q].coloured = robot[q].coloured
             /\ T[q].competed <=> (robot[q].competed \/ q \in members)
  <2>1. T[q] = [robot[q] EXCEPT !.competed = @ \/ q \in members]
    BY DEF Scored
  <2> QED
    BY <1>1, <2>1 DEF Fields
<1>3. DOMAIN T = Robots
  BY DEF Scored
<1> HIDE DEF T
<1>4. Objects(T) /\ SameNames(T, robot)
  BY <1>2, <1>3 DEF Objects, SameNames
<1>5. NamesKept(T) /\ TeamsKept(T)
  BY <1>2, <1>4, SameNamesKept DEF Good
<1>6. Given(T)
  BY <1>2 DEF Good, ColoursKept, Given
<1>7. ASSUME NEW p \in members, T[p].coloured, T[p].team = "", NEW q \in members \ {p}
      PROVE  T[q].colour # T[p].colour
  <2>1. /\ robot[p].coloured /\ robot[p].team = ""
        /\ T[q].colour = robot[q].colour /\ T[p].colour = robot[p].colour
    BY <1>2, <1>7
  <2> QED
    BY <1>7, <2>1 DEF Good, ColoursKept, Settled
<1>8. Good(T, members)
  BY <1>4, <1>5, <1>6, <1>7 DEF Good, ColoursKept, Settled
<1> QED
  BY <1>2, <1>8 DEF T

\* start_game reads what was written before, which changes nobody.
LEMMA StartGameKeeps ==
    ASSUME NEW R, MessagesInv, state # "NOT_STARTED", StartGame(R), Good(R, members),
           \A r \in members : R[r].coloured
    PROVE  MessagesInv'
<1>1. /\ members' = members /\ robot' = R /\ state' = "GAME_IN_PROGRESS"
  BY DEF StartGame
<1>2. members \in Lineups /\ pipe \in [Robots -> Seq(Tokens)] /\ Good(robot, members)
  BY DEF MessagesInv
<1>3. members \subseteq Robots
  BY <1>2, MessagesAssumption
<1>4. pipe' \in [Robots -> Seq(Tokens)]
  <2> DEFINE pick == CHOOSE p \in Picks : TRUE
             m(r) == GetMessages(r, "BEFORE_GAME_START", pick)
  <2>1. pipe' = [r \in Robots |-> IF r \in members THEN m(r).pipe ELSE pipe[r]]
    BY DEF StartGame
  <2>2. ASSUME NEW r \in members
        PROVE  m(r).pipe \in Seq(Tokens)
    <3>1. pipe[r] \in Seq(Tokens)
      BY <1>2, <1>3
    <3> HIDE DEF pick
    <3> QED
      BY <1>2, <3>1, MessagesTaken
  <2> HIDE DEF m
  <2> QED
    BY <1>2, <2>1, <2>2
<1>5. Good(robot, members)' /\ Playing'
  BY <1>1 DEF Playing
<1> QED
  BY <1>1, <1>2, <1>4, <1>5 DEF MessagesInv

\* The invariant holds at the beginning.
LEMMA InitInv == Init => MessagesInv
<1> SUFFICES ASSUME Init PROVE MessagesInv
  OBVIOUS
<1>1. /\ members = {} /\ state = "NOT_STARTED" /\ pipe = [r \in Robots |-> <<>>]
      /\ robot = [r \in Robots |-> NewRobot]
  BY DEF Init
<1>2. DOMAIN robot = Robots /\ \A r \in Robots : robot[r] = NewRobot
  BY <1>1
<1>3. /\ DOMAIN NewRobot = Fields /\ NewRobot.nr = 0 /\ NewRobot.plain = <<>>
      /\ NewRobot.team = "" /\ ~ NewRobot.coloured /\ ~ NewRobot.competed
  BY DEF NewRobot, Fields
<1>4. Objects(robot) /\ NamesKept(robot) /\ TeamsKept(robot)
  <2>1. Objects(robot)
    BY <1>2, <1>3 DEF Objects
  <2>2. NamesKept(robot)
    <3>1. \A q \in Robots : robot[q].nr = 0 /\ robot[q].plain = <<>>
      BY <1>2, <1>3
    <3>2. \A p, q \in Robots : Apart(robot, p, q)
      BY <3>1 DEF Apart
    <3>3. \A q \in Robots : robot[q].nr \in Nat
      BY <3>1
    <3> QED
      BY <3>2, <3>3 DEF NamesKept
  <2>3. TeamsKept(robot)
    BY <1>2, <1>3 DEF TeamsKept
  <2> QED
    BY <2>1, <2>2, <2>3
<1>5. ColoursKept(robot, members, members)
  BY <1>1, <1>2, <1>3 DEF ColoursKept, Given, Settled
<1>6. pipe \in [Robots -> Seq(Tokens)]
  BY <1>1
<1> QED
  BY <1>1, <1>4, <1>5, <1>6 DEF MessagesInv, Good, Playing

\* Every step keeps it.
LEMMA NextInv == MessagesInv /\ [Next]_vars => MessagesInv'
<1> SUFFICES ASSUME MessagesInv, [Next]_vars PROVE MessagesInv'
  OBVIOUS
<1>0. /\ members \in Lineups \cup {{}} /\ pipe \in [Robots -> Seq(Tokens)]
      /\ state # "NOT_STARTED" => members \in Lineups
      /\ Good(robot, members) /\ Playing
  BY DEF MessagesInv
<1>1. members \in SUBSET Robots
  BY <1>0, MessagesAssumption
<1>2. CASE StartSequence
  <2>1. PICK s \in Lineups, colour \in Colours :
          members' = s /\ robot' = StartProcesses(s, colour)
    BY <1>2 DEF StartSequence
  <2>2. state' = "STARTING_ROBOTS" /\ pipe' = [r \in Robots |-> <<>>]
    BY <1>2 DEF StartSequence
  <2>3. Good(StartProcesses(s, colour), s)
    BY <1>0, StartGood DEF Good, ColoursKept
  <2>4. Good(robot, members)'
    BY <2>1, <2>3
  <2>5. pipe' \in [Robots -> Seq(Tokens)]
    BY <2>2
  <2> QED
    BY <2>1, <2>2, <2>4, <2>5 DEF MessagesInv, Playing
<1>3. CASE StartSequenceFollowUp
  <2>1. PICK colour \in Colours : StartGame(GiveColours(colour))
    BY <1>3 DEF StartSequenceFollowUp
  <2>2. state = "STARTING_ROBOTS"
    BY <1>3 DEF StartSequenceFollowUp
  <2>3. /\ Good(GiveColours(colour), members)
        /\ \A r \in members : GiveColours(colour)[r].coloured
    BY <1>0, <2>2, GiveGood
  <2> QED
    BY <2>1, <2>2, <2>3, StartGameKeeps
<1>4. CASE NextGame
  <2>1. state = "GAME_IN_PROGRESS" /\ StartGame(Scored)
    BY <1>4 DEF NextGame
  <2>2. \A r \in members : robot[r].coloured
    BY <1>0, <2>1 DEF Playing
  <2>3. Good(Scored, members) /\ \A r \in members : Scored[r].coloured
    BY <1>0, <1>1, <2>2, ScoredGood
  <2> QED
    BY <2>1, <2>3, StartGameKeeps
<1>5. CASE EndSequence
  <2>1. /\ state = "GAME_IN_PROGRESS" /\ state' = "SHUTTING_DOWN_ROBOTS" /\ robot' = Scored
        /\ members' = members /\ pipe' = pipe
    BY <1>5 DEF EndSequence
  <2>2. Good(Scored, members)
    BY <1>0, <1>1, <2>1, ScoredGood DEF Playing
  <2>3. Good(robot, members)'
    BY <2>1, <2>2
  <2> QED
    BY <1>0, <2>1, <2>3 DEF MessagesInv, Playing
<1>6. ASSUME NEW r \in Robots, Write(r)
      PROVE  MessagesInv'
  <2>1. state' = state /\ members' = members /\ robot' = robot
    BY <1>6 DEF Write
  <2>2. PICK line \in Lines : pipe' = [pipe EXCEPT ![r] = @ \o line \o <<"NL">>]
    BY <1>6 DEF Write
  <2>3. line \in Seq(Tokens) /\ <<"NL">> \in Seq(Tokens) /\ pipe[r] \in Seq(Tokens)
    <3>1. line \in Seq(Words)
      BY MessagesAssumption
    <3>2. Words \subseteq Tokens /\ "NL" \in Tokens
      BY DEF Tokens
    <3>3. \A T : Words \subseteq T => line \in Seq(T)
      BY <3>1
    <3> QED
      BY <1>0, <3>2, <3>3
  <2>4. pipe' \in [Robots -> Seq(Tokens)]
    BY <1>0, <2>2, <2>3
  <2>5. Good(robot, members)' /\ Playing'
    BY <1>0, <2>1 DEF Playing
  <2> QED
    BY <1>0, <2>1, <2>4, <2>5 DEF MessagesInv
<1>7. ASSUME NEW r \in Robots, ReadMessages(r)
      PROVE  MessagesInv'
  <2>1. /\ state' = state /\ members' = members /\ r \in members
        /\ state \in {"STARTING_ROBOTS", "GAME_IN_PROGRESS", "SHUTTING_DOWN_ROBOTS"}
    BY <1>7 DEF ReadMessages
  <2>2. PICK m \in Outcomes(r) : robot' = m.robot /\ pipe' = [pipe EXCEPT ![r] = m.pipe]
    BY <1>7 DEF ReadMessages
  <2>3. PICK pick : m = GetMessages(r, state, pick)
    BY <2>2 DEF Outcomes
  <2>4. /\ Good(m.robot, members) /\ m.pipe \in Seq(Tokens)
        /\ state # "STARTING_ROBOTS" => m.robot = robot
    BY <1>0, <2>1, <2>3, MessagesTaken
  <2>5. pipe' \in [Robots -> Seq(Tokens)]
    BY <1>0, <2>2, <2>4
  <2>6. Good(robot, members)' /\ Playing'
    BY <1>0, <2>1, <2>2, <2>4 DEF Playing
  <2> QED
    BY <1>0, <2>1, <2>5, <2>6 DEF MessagesInv
<1>8. ASSUME NEW r \in Robots, RobotDies(r)
      PROVE  MessagesInv'
  BY <1>0, <1>8 DEF RobotDies, MessagesInv, Playing
<1>9. CASE UNCHANGED vars
  BY <1>0, <1>9 DEF vars, MessagesInv, Playing
<1> QED
  BY <1>2, <1>3, <1>4, <1>5, <1>6, <1>7, <1>8, <1>9 DEF Next

\* The invariant holds in every state.
LEMMA MessagesInvAlways == Spec => []MessagesInv
BY InitInv, NextInv, PTL DEF Spec

\* No two robots of a tournament appear under the same name, for any number of robots
\* and any names, in whatever order they choose and change them.  A robot keeps its
\* number when it changes its name, and gets one from another robot's check: the
\* numbers stay different because a robot without one is the only one of its name.
THEOREM UniqueNamesAlways == Spec => []UniqueNames
<1>1. MessagesInv => UniqueNames
  BY DEF MessagesInv, Good, NamesKept, Apart, UniqueNames
<1> QED
  BY <1>1, MessagesInvAlways, PTL

\* In a game a robot that is in no team has a colour of its own, and nobody has that
\* of the background, for any lines, teams and sequences: find_free_colour compares
\* with all robots of the sequence, also those that still have a colour from another
\* sequence, and a team's colour is nobody else's when the next of the team takes it.
THEOREM DistinctColoursAlways == Spec => []DistinctColours
<1>1. MessagesInv => DistinctColours
  <2> SUFFICES ASSUME MessagesInv, state = "GAME_IN_PROGRESS", NEW r \in members
               PROVE  /\ robot[r].colour # Background
                      /\ \A q \in members \ {r} :
                           robot[q].colour = robot[r].colour =>
                             robot[r].team # "" /\ robot[q].team # ""
    BY DEF DistinctColours
  <2>1. members \subseteq Robots
    BY MessagesAssumption DEF MessagesInv
  <2>2. \A q \in members : robot[q].coloured
    BY DEF MessagesInv, Playing
  <2>3. Given(robot) /\ Settled(robot, members, members)
    BY DEF MessagesInv, Good, ColoursKept
  <2>4. robot[r].colour # Background
    BY <2>1, <2>2, <2>3 DEF Given
  <2>5. \A p \in members : robot[p].team = "" =>
          \A q \in members \ {p} : robot[q].colour # robot[p].colour
    BY <2>2, <2>3 DEF Settled
  <2> QED
    BY <2>4, <2>5
<1> QED
  BY <1>1, MessagesInvAlways, PTL

\* Robots that look the same in a game are in one team.
TeamColours ==
    state = "GAME_IN_PROGRESS" =>
      \A r, q \in members :
        r # q /\ robot[q].colour = robot[r].colour =>
          robot[r].team # "" /\ robot[q].team = robot[r].team

\* If there is one team only, robots with the same colour are team mates.  With two
\* teams they need not be: a robot that goes from one team to another keeps its
\* colour, and teams that got the same colour in different sequences keep it when
\* they meet.
THEOREM TeamColoursAlways == (\E t : OneTeam(t)) => (Spec => []TeamColours)
<1> SUFFICES ASSUME NEW t, OneTeam(t) PROVE Spec => []TeamColours
  OBVIOUS
<1>1. MessagesInv /\ DistinctColours => TeamColours
  <2> SUFFICES ASSUME MessagesInv, DistinctColours, state = "GAME_IN_PROGRESS",
                      NEW r \in members, NEW q \in members, r # q,
                      robot[q].colour = robot[r].colour
               PROVE  robot[r].team # "" /\ robot[q].team = robot[r].team
    BY DEF TeamColours
  <2>1. members \subseteq Robots
    BY MessagesAssumption DEF MessagesInv
  <2>2. robot[r].team # "" /\ robot[q].team # ""
    BY DEF DistinctColours
  <2>3. robot[r].team \in {"", t} /\ robot[q].team \in {"", t}
    BY <2>1 DEF MessagesInv, Good, TeamsKept
  <2> QED
    BY <2>2, <2>3
<1> QED
  BY <1>1, MessagesInvAlways, DistinctColoursAlways, PTL
=============================================================================
