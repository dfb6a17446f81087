----------------------------- MODULE ArenaFile -----------------------------
(***************************************************************************)
(* Arena files: the parser that puts an arena together for a game, the     *)
(* copy of the file in the log, and the replay that puts the arena         *)
(* together again from the log.                                            *)
(*                                                                         *)
(* A text is a sequence of atoms: words, numerals and "NL", the end of a   *)
(* line; blanks between the other atoms are left out.  Numbers stay        *)
(* numerals, except where the parser looks at them; "?" is a number that   *)
(* was never read.  A point on a poly_curve is given by its first point    *)
(* and the subcommands that lead to it.                                    *)
(***************************************************************************)
EXTENDS Integers, Sequences, FiniteSets, TLC

CONSTANTS
    Lines,       \* the lines of arena files, sequences of atoms
    Scales,      \* values of OPTION_ARENA_SCALE
    Biggest,     \* bound: numbers in a file
    MaxLines,    \* bound: lines in the files of a tournament
    MaxGames     \* bound: games

ASSUME ArenaFileAssumption ==
    /\ {Biggest, MaxLines, MaxGames} \subseteq Nat \ {0}
    /\ Scales \subseteq 1 .. Biggest /\ Scales # {}

VARIABLES
    file,        \* the arena file that is being written: a sequence of lines
    scale,       \* OPTION_ARENA_SCALE
    logscale,    \* its value in the log, from the start of the tournament
    arena,       \* the arena of the last game: walls, boundary, exclusion points
    outcome,     \* how its file was parsed: "none", "ok", "error" or "stuck"
    games,       \* the games that were played: their files, arenas and scales
    replay,      \* the replay: its parser's state
    shown        \* which game it shows: 0 if none, -1 if it is stuck

vars == <<file, scale, logscale, arena, outcome, games, replay, shown>>

-----------------------------------------------------------------------------
(* Reading from a stream: the atoms that are left, failbit and eofbit. *)

Stream(text) == [rest |-> text, fail |-> FALSE, eof |-> FALSE]

Good(r) == ~ r.fail /\ ~ r.eof

Numerals == {ToString(n) : n \in -Biggest .. Biggest}

Num(a) == CHOOSE n \in -Biggest .. Biggest : ToString(n) = a

Newlines(t) == CHOOSE n \in 0 .. Len(t) :
                  /\ \A i \in 1 .. n : t[i] = "NL"
                  /\ n < Len(t) => t[n + 1] # "NL"

SkipSpace(t) == SubSeq(t, Newlines(t) + 1, Len(t))

Failed(r) == [r EXCEPT !.fail = TRUE]

AtEnd(r) == [rest |-> <<>>, fail |-> TRUE, eof |-> TRUE]

\* One atom is taken from s; the end is only noticed when nothing follows it.
Taken(s) == [rest |-> Tail(s), fail |-> FALSE, eof |-> Tail(s) = <<>>]

\* file >> x for a number x, which keeps its value old at the end of the file
\* and becomes 0 when something else is there; s is what follows the blanks.
ReadNumberAt(r, s, old) ==
    CASE ~ Good(r)           -> [v |-> old, r |-> Failed(r)]
      [] Good(r) /\ s = <<>> -> [v |-> old, r |-> AtEnd(r)]
      [] OTHER -> IF s[1] \in Numerals THEN [v |-> s[1], r |-> Taken(s)]
                                       ELSE [v |-> "0", r |-> Failed([r EXCEPT !.rest = s])]

ReadNumber(r, old) == ReadNumberAt(r, SkipSpace(r.rest), old)

\* Numbers one after the other, into variables with the values old; got are
\* the numbers before them.
RECURSIVE ReadMore(_, _, _)
ReadMore(x, got, old) ==
    IF old = <<>> THEN [v |-> Append(got, x.v), r |-> x.r]
    ELSE ReadMore(ReadNumber(x.r, old[1]), Append(got, x.v), Tail(old))

ReadNumbers(r, old) == ReadMore(ReadNumber(r, old[1]), <<>>, Tail(old))

Unset(n) == [i \in 1 .. n |-> "?"]

Origin == <<"0", "0">>

-----------------------------------------------------------------------------
(* The arena that is put together. *)

EmptyArena == [walls |-> <<>>, boundary |-> <<>>, exclusion |-> <<>>]

\* The parser's variables: the arena, scale, succession and angle_factor.
ParserFor(ar, sc) == [ar |-> ar, scale |-> sc, succession |-> 1, unit |-> "radians"]

Wall(p, kind, args) == [kind |-> kind, args |-> args, scale |-> p.scale]

AddWalls(p, ws) == [p EXCEPT !.succession = 4, !.ar.walls = @ \o ws]

\* Results of parse_arena_line.
Done(p, r)  == [st |-> "ok", p |-> p, r |-> r]
Error(p, r) == [st |-> "error", p |-> p, r |-> r]
Stuck(p, r) == [st |-> "stuck", p |-> p, r |-> r]

\* The corners of a polygon after the first one, n of them, q the next.  A
\* corner that can't be read is the same as the one before it, and the line
\* between them has no length.
RECURSIVE Corners(_, _, _, _, _)
Corners(p, mat, at, q, n) ==
    IF n <= 0 THEN [st |-> "ok", p |-> p, r |-> at.r, last |-> at.v]
    ELSE IF q.v = at.v THEN [st |-> "error", p |-> p, r |-> q.r, last |-> at.v]
    ELSE Corners(AddWalls(p, <<Wall(p, "line", mat \o at.v \o q.v), Wall(p, "circle", mat \o q.v)>>),
                 mat, q, ReadNumbers(q.r, q.v), n - 1)

\* The end of a polygon: the last line of a closed one.
EndPolygon(c, mat, first, closed) ==
    CASE c.st = "error"               -> Error(c.p, c.r)
      [] c.st = "ok" /\ ~ closed      -> Done(c.p, c.r)
      [] c.st = "ok" /\ closed        ->
            IF c.last = first THEN Error(c.p, c.r)
            ELSE Done(AddWalls(c.p, <<Wall(c.p, "line", mat \o c.last \o first)>>), c.r)

PolygonFrom(p, mat, n, first, closed) ==
    EndPolygon(Corners(AddWalls(p, <<Wall(p, "circle", mat \o first.v)>>), mat, first,
                       ReadNumbers(first.r, first.v), n - 1),
               mat, first.v, closed)

\* The commands polygon and closed_polygon, after the material and the number of
\* vertices.  many: an uninitialized number of vertices is more than one.
Polygon(p, head, closed, many) ==
    PolygonFrom(p, SubSeq(head.v, 1, 3),
                IF head.v[4] = "?" THEN (IF many THEN 2 ELSE 0) ELSE Num(head.v[4]),
                ReadNumbers(head.r, Origin), closed)

\* The subcommands of poly_curve, at the point that the atoms at lead to.  The
\* loop never looks at the state of the stream: at the end of the file it goes
\* on with the letter and the numbers that it read last.  moved: the curve has
\* left its first point (arithmetic does not lead back to it exactly).
RECURSIVE Curve(_, _, _, _, _)
CurveLine(p, mat, at, moved, one) ==
    CASE one.v = "?" -> Stuck(p, one.r)
      [] one.v # "?" ->
            IF Num(one.v) <= 0 THEN Error(p, one.r)
            ELSE Curve(AddWalls(p, <<Wall(p, "line", mat \o at \o <<"L", one.v>>),
                                     Wall(p, "circle", mat \o at \o <<"L", one.v>>)>>),
                       one.r, mat, at \o <<"L", one.v>>, TRUE)

CurveArc(p, mat, at, moved, two) ==
    IF two.r.fail THEN Stuck(p, two.r)
    ELSE Curve(AddWalls(p, <<Wall(p, "arc", mat \o at \o <<"A">> \o two.v \o <<p.unit>>),
                             Wall(p, "circle", mat \o at \o <<"A">> \o two.v)>>),
               two.r, mat, at \o <<"A">> \o two.v, TRUE)

CurveTurn(p, mat, at, moved, one) ==
    IF one.r.fail THEN Stuck(p, one.r)
    ELSE Curve(p, one.r, mat, at \o <<"T", one.v>>, moved)

CurveClose(p, mat, at, moved, r) ==
    IF ~ moved THEN Error(p, r)
    ELSE Done(AddWalls(p, <<Wall(p, "line", mat \o at \o <<"C">>)>>), r)

\* The subcommand with the letter c, its arguments in r.
SubCommand(p, c, r, mat, at, moved) ==
    CASE c = "L" -> CurveLine(p, mat, at, moved, ReadNumber(r, "?"))
      [] c = "A" -> CurveArc(p, mat, at, moved, ReadNumbers(r, Unset(2)))
      [] c = "T" -> CurveTurn(p, mat, at, moved, ReadNumber(r, "?"))
      [] c = "C" -> CurveClose(p, mat, at, moved, r)
      [] c = "Q" -> Done(p, r)
      [] OTHER   -> Error(p, r)

Curve(p, r, mat, at, moved) ==
    LET s == SkipSpace(r.rest)
    IN  IF ~ Good(r) \/ s = <<>> THEN Stuck(p, AtEnd(r))
        ELSE SubCommand(p, s[1], Taken(s), mat, at, moved)

\* The command poly_curve, after its material and first point and its direction.
PolyCurve(p, head, dir) ==
    LET mat   == SubSeq(head.v, 1, 3)
        start == SubSeq(head.v, 4, 5)
        begun == AddWalls(p, <<Wall(p, "circle", mat \o start)>>)
    IN  IF dir.v = Origin THEN Error(begun, dir.r)
        ELSE Curve(begun, dir.r, mat, start \o dir.v, FALSE)

-----------------------------------------------------------------------------
(* parse_arena_line *)

\* What a command reads into before it makes its wall.
WallVariables(k) ==
    CASE k \in {"circle", "inner_circle"} -> Unset(2) \o Origin \o Unset(1)
      [] k = "arc"                        -> Unset(2) \o Origin \o Unset(4)
      [] k = "line"                       -> Unset(3) \o Origin \o Origin

BeforeBoundary(p) == p.succession < 3

\* Mutation of ScaleCommand: the file's scale replaces the option's.
ScaleCommandAlone(p, x) ==
    IF p.succession # 1 THEN Error(p, x.r)
    ELSE Done([p EXCEPT !.succession = 2, !.scale = Num(x.v)], x.r)

\* A scale that is missing at the end of the file has nothing left to scale.
ScaleCommand(p, x) ==
    IF p.succession # 1 THEN Error(p, x.r)
    ELSE Done([p EXCEPT !.succession = 2, !.scale = @ * Num(x.v)], x.r)

\* The unit is all the rest of the line.
AngleUnit(p, r, s) ==
    IF s # <<>> /\ s[1] \in {"radians", "degrees"} /\ (Len(s) > 1 => s[2] = "NL")
    THEN Done([p EXCEPT !.unit = s[1]], Taken(s)) ELSE Error(p, r)

\* negative: the outcome of the test of the boundary on uninitialized numbers.
Boundary(p, b, negative) ==
    LET bad == IF "?" \in {b.v[i] : i \in 1 .. 4} THEN negative
               ELSE Num(b.v[3]) <= Num(b.v[1]) \/ Num(b.v[4]) <= Num(b.v[2])
        q  == [p EXCEPT !.succession = 3, !.ar.boundary = <<p.scale>> \o b.v]
    IN  IF p.succession > 2 THEN Error(p, b.r)
        ELSE IF bad THEN Error(q, b.r) ELSE Done(q, b.r)

\* The commands that make one wall, with the numbers x.
OneWall(p, x, k) ==
    LET w == Wall(p, k, IF k = "arc" THEN x.v \o <<p.unit>> ELSE x.v)
    IN  CASE k = "line" /\ SubSeq(x.v, 4, 5) = SubSeq(x.v, 6, 7) ->
                Error([p EXCEPT !.succession = 4], x.r)
          [] k = "inner_circle" ->
                Done([p EXCEPT !.succession = 4, !.ar.walls = <<w>> \o @], x.r)
          [] OTHER -> Done(AddWalls(p, <<w>>), x.r)

ExclusionPoint(p, x) ==
    Done([p EXCEPT !.ar.exclusion = Append(@, <<p.scale>> \o x.v)], x.r)

\* The commands that need a boundary, their arguments in r.
InArena(p, word, r, garbage) ==
    CASE word = "exclusion_point" -> ExclusionPoint(p, ReadNumbers(r, Origin))
      [] word \in {"polygon", "closed_polygon"} ->
            Polygon(p, ReadNumbers(r, Unset(4)), word = "closed_polygon", garbage)
      [] word = "poly_curve" ->
            LET head == ReadNumbers(r, Unset(3) \o Origin)
            IN  PolyCurve(p, head, ReadNumbers(head.r, Origin))
      [] OTHER -> OneWall(p, ReadNumbers(r, WallVariables(word)), word)

WallWords == {"circle", "inner_circle", "arc", "line", "polygon", "closed_polygon", "poly_curve"}

Command(p, word, r, garbage) ==
    CASE word = "scale"      -> ScaleCommand(p, ReadNumber(r, "1"))
      [] word = "angle_unit" -> AngleUnit(p, r, SkipSpace(r.rest))
      [] word = "boundary"   -> Boundary(p, ReadNumbers(r, Unset(4)), garbage)
      [] word \in WallWords \cup {"exclusion_point"} ->
            IF BeforeBoundary(p) THEN Error(p, r) ELSE InArena(p, word, r, garbage)
      [] OTHER -> Error(p, r)

\* A line of the arena.  The word is read up to a blank, so one that ends its
\* line is not a command.  garbage decides what an uninitialized number does.
parse_arena_line(p, r, garbage) ==
    LET s == SkipSpace(r.rest)
    IN  IF s = <<>> THEN Done(p, [rest |-> <<>>, fail |-> TRUE, eof |-> TRUE])
        ELSE Command(p, IF Len(s) > 1 /\ s[2] = "NL" THEN "NL" ELSE s[1], Taken(s), garbage)

\* The loop of parse_arena_file, with the result q of a line.
RECURSIVE AfterLine(_, _)
AfterLine(q, garbage) ==
    CASE q.st # "ok" \/ q.r.eof -> q
      [] OTHER -> IF ~ Good(q.r) THEN Error(q.p, q.r)
                  ELSE AfterLine(parse_arena_line(q.p, q.r, garbage), garbage)

ParseFrom(p, r, garbage) == AfterLine(parse_arena_line(p, r, garbage), garbage)

TextOf(lines, newline) ==
    LET text[i \in 0 .. Len(lines)] ==
            IF i = 0 THEN <<>>
            ELSE text[i - 1] \o lines[i] \o (IF i < Len(lines) \/ newline THEN <<"NL">> ELSE <<>>)
    IN  text[Len(lines)]

-----------------------------------------------------------------------------
(* The log and the replay. *)

\* The lines of the file in the log.
LogOf(lines) ==
    LET text[i \in 0 .. Len(lines)] ==
            IF i = 0 THEN <<>> ELSE text[i - 1] \o <<"A">> \o lines[i] \o <<"NL">>
    IN  text[Len(lines)]

\* The log lines of a game up to its first time step.  Errors are ignored; a
\* stream that failed never ends, and the replay with it.  A line whose first
\* letter is not A is passed over.
RECURSIVE ReplayFrom(_, _)
ReplayLine(q, s, garbage) ==
    LET line == CHOOSE n \in 1 .. Len(s) : s[n] = "NL" /\ \A i \in 1 .. n - 1 : s[i] # "NL"
    IN  IF s[1] = "A" THEN ReplayFrom(parse_arena_line(q.p, [q.r EXCEPT !.rest = Tail(s)], garbage), garbage)
        ELSE ReplayFrom(Done(q.p, [q.r EXCEPT !.rest = SubSeq(s, line + 1, Len(s))]), garbage)

ReplayFrom(q, garbage) ==
    LET s == SkipSpace(q.r.rest)
    IN  CASE q.st = "stuck" \/ q.r.fail -> Stuck(q.p, q.r)
          [] OTHER -> IF s = <<>> THEN q ELSE ReplayLine(q, s, garbage)

\* Mutation of GameBegins: the angle unit of the game before is kept.
GameBeginsOldUnit(p, sc) ==
    [ParserFor([EmptyArena EXCEPT !.boundary = p.ar.boundary], sc) EXCEPT !.unit = p.unit]

\* The 'G' line: delete_lists, and the parser's variables for the new game.
GameBegins(p, sc) == ParserFor([EmptyArena EXCEPT !.boundary = p.ar.boundary], sc)

-----------------------------------------------------------------------------
LinesSoFar ==
    LET lines[k \in 0 .. Len(games)] == IF k = 0 THEN Len(file) ELSE lines[k - 1] + Len(games[k].file)
    IN  lines[Len(games)]

\* Somebody writes a line of an arena file.
WriteLine ==
    /\ LinesSoFar < MaxLines /\ Len(games) < MaxGames /\ outcome \in {"none", "ok"} /\ shown = 0
    /\ \E l \in Lines : file' = Append(file, l)
    /\ UNCHANGED <<scale, logscale, arena, outcome, games, replay, shown>>

\* start_game: the file is parsed and copied to the log.  The boundary is the
\* one thing that the arena before leaves.
StartGame ==
    /\ file # <<>> /\ Len(games) < MaxGames /\ outcome \in {"none", "ok"}
    /\ \E newline, garbage \in BOOLEAN :
          \E q \in {ParseFrom(ParserFor([EmptyArena EXCEPT !.boundary = arena.boundary], scale),
                             Stream(TextOf(file, newline)), garbage)} :
              /\ outcome' = q.st
              /\ arena' = q.p.ar
              /\ games' = Append(games, [file |-> file, scale |-> scale, arena |-> q.p.ar,
                                         st |-> q.st])
    /\ file' = <<>>
    /\ UNCHANGED <<scale, logscale, replay, shown>>

\* The scale is changed in the options window while the tournament goes on.
ChangeScale ==
    /\ file = <<>> /\ games # <<>> /\ Len(games) < MaxGames /\ outcome = "ok"
    /\ scale' \in Scales \ {scale}
    /\ UNCHANGED <<file, logscale, arena, outcome, games, replay, shown>>

\* The replay of the log comes to a game, or jumps to it.
ReplayGame(k) ==
    /\ k \in 1 .. Len(games) /\ games[k].st = "ok" /\ file = <<>> /\ shown # -1
    /\ \E garbage \in BOOLEAN :
          \E q \in {ReplayFrom(Done(GameBegins(replay, logscale), Stream(LogOf(games[k].file))), garbage)} :
             replay' = q.p /\ shown' = IF q.st = "stuck" THEN -1 ELSE k
    /\ UNCHANGED <<file, scale, logscale, arena, outcome, games>>

Init ==
    /\ file = <<>> /\ scale \in Scales /\ logscale = scale
    /\ arena = EmptyArena /\ outcome = "none" /\ games = <<>>
    /\ replay = ParserFor(EmptyArena, scale) /\ shown = 0

Next ==
    \/ WriteLine \/ StartGame \/ ChangeScale
    \/ \E k \in 1 .. MaxGames : ReplayGame(k)

Spec == Init /\ [][Next]_vars

-----------------------------------------------------------------------------
(* Properties.  What a file means is said here line by line. *)

Word(l) == l[1]

Args(l) == SubSeq(l, 2, Len(l))

Corner(l, i) == SubSeq(l, 4 + 2 * i, 5 + 2 * i)

Letters(l) == {i \in 9 .. Len(l) : l[i] \in {"L", "A", "T", "C", "Q"}}

\* The last atom of the subcommand that begins at i.
SubEnd(l, i) == i + (CASE l[i] \in {"L", "T"} -> 1 [] l[i] = "A" -> 2 [] OTHER -> 0)

\* A line that is one command with all its arguments.
Whole(l) ==
    CASE Word(l) = "scale"           -> Len(l) = 2 /\ l[2] \in Numerals
      [] Word(l) = "angle_unit"      -> Len(l) = 2 /\ l[2] \in {"radians", "degrees"}
      [] Word(l) = "boundary"        -> Len(l) = 5 /\ {l[i] : i \in 2 .. 5} \subseteq Numerals
                                        /\ Num(l[2]) < Num(l[4]) /\ Num(l[3]) < Num(l[5])
      [] Word(l) = "exclusion_point" -> Len(l) = 3 /\ {l[2], l[3]} \subseteq Numerals
      [] Word(l) \in {"circle", "inner_circle", "arc", "line"} ->
            /\ Len(Args(l)) = Len(WallVariables(Word(l)))
            /\ {l[i] : i \in 2 .. Len(l)} \subseteq Numerals
            /\ Word(l) = "line" => SubSeq(l, 5, 6) # SubSeq(l, 7, 8)
      [] Word(l) \in {"polygon", "closed_polygon"} ->
            /\ Len(l) >= 7 /\ {l[i] : i \in 2 .. Len(l)} \subseteq Numerals
            /\ Num(l[5]) >= 1 /\ Len(l) = 5 + 2 * Num(l[5])
            /\ \A i \in 1 .. Num(l[5]) - 1 : Corner(l, i) # Corner(l, i + 1)
            /\ Word(l) = "closed_polygon" => Corner(l, 1) # Corner(l, Num(l[5]))
      [] Word(l) = "poly_curve" ->
            /\ Len(l) >= 9 /\ 9 \in Letters(l)
            /\ {l[i] : i \in 2 .. Len(l)} \subseteq Numerals \cup {"L", "A", "T", "C", "Q"}
            /\ SubSeq(l, 7, 8) # Origin
            /\ \A i \in 9 .. Len(l) :
                  /\ i \in Letters(l) => SubEnd(l, i) <= Len(l)
                  /\ i \notin Letters(l) <=> \E j \in Letters(l) : i \in j + 1 .. SubEnd(l, j)
                  /\ l[i] \in {"C", "Q"} <=> i = Len(l)
                  /\ l[i] = "L" => Num(l[i + 1]) > 0
            /\ l[Len(l)] = "C" => \E i \in Letters(l) : l[i] \in {"L", "A"}
      [] OTHER -> FALSE

\* The order of the commands that the parser asks for.
Ordered(f) ==
    \A i, j \in 1 .. Len(f) :
       /\ Word(f[i]) = "scale" /\ j < i => Word(f[j]) = "angle_unit"
       /\ Word(f[i]) = "boundary" /\ j < i => Word(f[j]) \in {"scale", "angle_unit"}
       /\ Word(f[i]) \in WallWords \cup {"exclusion_point"}
          => \E k \in 1 .. i - 1 : Word(f[k]) = "boundary"

Legal(f) == Ordered(f) /\ \A i \in 1 .. Len(f) : Whole(f[i])

Only(f, W) == SelectSeq(f, LAMBDA l : Word(l) \in W)

ScaleOf(f, sc) == LET s == Only(f, {"scale"})
                  IN  IF s = <<>> THEN sc ELSE sc * Num(s[1][2])

\* The unit in force at line i.
UnitAt(f, i) == LET u == Only(SubSeq(f, 1, i), {"angle_unit"})
                IN  IF u = <<>> THEN "radians" ELSE u[Len(u)][2]

Flat(ss) == LET flat[i \in 0 .. Len(ss)] == IF i = 0 THEN <<>> ELSE flat[i - 1] \o ss[i]
            IN  flat[Len(ss)]

\* The walls of line i of file f.
WallsOf(f, i, sc) ==
    LET l       == f[i]
        mat     == SubSeq(l, 2, 4)
        n       == Num(l[5])
        w(k, a) == [kind |-> k, args |-> a, scale |-> sc]
        drawn   == SelectSeq([j \in 1 .. Len(l) |-> j],
                             LAMBDA j : j \in Letters(l) /\ l[j] \in {"L", "A"})
        upto(j) == mat \o SubSeq(l, 5, SubEnd(l, j))
    IN  CASE Word(l) \in {"circle", "inner_circle", "line"} -> <<w(Word(l), Args(l))>>
          [] Word(l) = "arc" -> <<w("arc", Args(l) \o <<UnitAt(f, i)>>)>>
          [] Word(l) \in {"polygon", "closed_polygon"} ->
                [k \in 1 .. 2 * n - 1 |->
                   IF k % 2 = 1 THEN w("circle", mat \o Corner(l, (k + 1) \div 2))
                   ELSE w("line", mat \o Corner(l, k \div 2) \o Corner(l, k \div 2 + 1))]
                \o (IF Word(l) = "polygon" THEN <<>>
                    ELSE <<w("line", mat \o Corner(l, n) \o Corner(l, 1))>>)
          [] Word(l) = "poly_curve" ->
                <<w("circle", mat \o SubSeq(l, 5, 6))>>
                \o Flat([k \in 1 .. Len(drawn) |->
                           IF l[drawn[k]] = "L"
                           THEN <<w("line", upto(drawn[k])), w("circle", upto(drawn[k]))>>
                           ELSE <<w("arc", upto(drawn[k]) \o <<UnitAt(f, i)>>),
                                  w("circle", upto(drawn[k]))>>])
                \o (IF l[Len(l)] = "C" THEN <<w("line", mat \o SubSeq(l, 5, Len(l)))>> ELSE <<>>)
          [] OTHER -> <<>>

\* All walls: inner circles are put in front of the others.
Meant(f, sc) ==
    LET k       == ScaleOf(f, sc)
        each    == [i \in 1 .. Len(f) |-> WallsOf(f, i, k)]
        inner   == SelectSeq(Flat(each), LAMBDA w : w.kind = "inner_circle")
        outer   == SelectSeq(Flat(each), LAMBDA w : w.kind # "inner_circle")
    IN  [i \in 1 .. Len(inner) |-> inner[Len(inner) + 1 - i]] \o outer

HasBoundary(f) == \E i \in 1 .. Len(f) : Word(f[i]) = "boundary"

\* parse_arena_file accepts a file of whole commands exactly when they are in
\* the right order, and then puts together the walls, in order, with the
\* scale and the angle units that the file says.
ParsedAsMeant ==
    \A k \in 1 .. Len(games) :
       (\A i \in 1 .. Len(games[k].file) : Whole(games[k].file[i]))
       => /\ games[k].st = "ok" <=> Legal(games[k].file)
          /\ games[k].st = "ok" => games[k].arena.walls = Meant(games[k].file, games[k].scale)

\* A replay shows a game on the arena that it was played on, whichever games
\* it showed before: if every line of the arena file is a command, there is a
\* boundary among them, and the arena scale was not changed since the
\* tournament started.
ReplayAsPlayed ==
    shown > 0 /\ Legal(games[shown].file) /\ HasBoundary(games[shown].file)
              /\ games[shown].scale = logscale
    => replay.ar = games[shown].arena
=============================================================================
