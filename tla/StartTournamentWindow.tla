----------------------- MODULE StartTournamentWindow -----------------------
(***************************************************************************)
(* The window in which a tournament is put together: the lists of robots   *)
(* and arenas, each kept twice, as a list of start_tournament_info_t and   *)
(* as the rows of a GtkCList; the three number entries; and the tournament *)
(* files that Save, Load and Start write and read.  Each callback is one   *)
(* step.                                                                   *)
(***************************************************************************)
EXTENDS TournamentParser, FiniteSets

CONSTANTS
    Typed,        \* numbers a user may type into an entry
    MaxAllowed,   \* OPTION_MAX_ROBOTS_ALLOWED
    MaxListed,    \* bound: robots, and arenas, in the window's lists
    MaxClicks     \* bound: callbacks in a behaviour

ASSUME WindowAssumption ==
    /\ Typed \subseteq Nat
    /\ MaxAllowed \in Nat \ {0}
    /\ MaxListed \in Nat /\ MaxClicks \in Nat

Kinds == {"robot", "arena"}

VARIABLES
    list,      \* selected_robot_tournament, selected_arena_tournament
    clist,     \* the rows shown for them, by GTK
    picked,    \* the selected files of the directory lists
    entries,   \* the text of an entry: {n}, or {} if it is no number
    disk,      \* the tournament files "tmp.tour" and "user", as words
    running,   \* what start_tournament was last given: {} or {tournament}
    busy,      \* that tournament is not over
    clicks

window == <<list, clist, picked, entries>>
vars   == <<window, disk, running, busy, clicks>>

-----------------------------------------------------------------------------
Dir(k) == IF k = "robot" THEN RobotDir ELSE ArenaDir

Files(infos) == [i \in 1 .. Len(infos) |-> infos[i].file]

\* Rows count from 0, as in GTK.
Info(f, row) == [file |-> f, row |-> row, selected |-> FALSE]

Infos(files) == [i \in 1 .. Len(files) |-> Info(files[i], i - 1)]

WithoutIndex(s, i) == SubSeq(s, 1, i - 1) \o SubSeq(s, i + 1, Len(s))

SelectedIn(infos) == {i \in 1 .. Len(infos) : infos[i].selected}

\* Mutation of RemoveFirst: the rows below the removed one keep their numbers.
RemoveFirstOnly(w) ==
    LET i == CHOOSE i \in SelectedIn(w.infos) : \A j \in SelectedIn(w.infos) : i <= j
    IN  [rows  |-> WithoutIndex(w.rows, w.infos[i].row + 1),
         infos |-> WithoutIndex(w.infos, i)]

\* One iteration of remove_all_selected that removes: the first selected entry
\* leaves the widget, by its row, and the list; the rows below it move up.
RemoveFirst(w) ==
    LET i   == CHOOSE i \in SelectedIn(w.infos) : \A j \in SelectedIn(w.infos) : i <= j
        row == w.infos[i].row
        up  == [j \in 1 .. Len(w.infos) |->
                  [w.infos[j] EXCEPT !.row = IF @ > row THEN @ - 1 ELSE @]]
    IN  [rows |-> WithoutIndex(w.rows, row + 1), infos |-> WithoutIndex(up, i)]

\* The whole loop.
Removed(w) ==
    LET count == Cardinality(SelectedIn(w.infos))
        after[n \in 0 .. count] == IF n = 0 THEN w ELSE RemoveFirst(after[n - 1])
    IN  after[count]

\* The files of a directory that have been picked, in the order of its rows.
Chosen(dir, files) ==
    LET chosen[n \in 0 .. Len(dir)] ==
          IF n = 0 THEN <<>>
          ELSE IF dir[n] \in files THEN Append(chosen[n - 1], dir[n])
          ELSE chosen[n - 1]
    IN  chosen[Len(dir)]

\* What string2number reads from an entry; tmp is not initialised.
ReadEntry(k) == IF entries[k] # {} THEN entries[k]
                ELSE IF FailedReadIsZero THEN {0} ELSE {0, MaxAllowed + 1}

Smaller(a, b) == IF a < b THEN a ELSE b
Larger(a, b)  == IF a > b THEN a ELSE b

\* Mutation of Clamp: the number of robots chosen is not looked at.
ClampAllowed(k, n) ==
    IF k = "robots" THEN Larger(2, Smaller(MaxAllowed, n))
                    ELSE Larger(1, Smaller(10000, n))

\* The loop over the entries in start and in save_tournament_file.
Clamp(k, n) ==
    IF k = "robots" THEN Larger(2, Smaller(Smaller(MaxAllowed, Len(list["robot"])), n))
                    ELSE Larger(1, Smaller(10000, n))

\* Two robots and an arena have been chosen.
Complete == Len(list["robot"]) > 1 /\ list["arena"] # <<>>

\* Mutation of Written: the numbers come first, and the lists are not told apart.
WrittenInOneList(robots, arenas, number) ==
    <<Keyword("list robots")>>
      \o [i \in 1 .. Len(robots) |-> FileName(robots[i])]
      \o [i \in 1 .. Len(arenas) |-> FileName(arenas[i])]
      \o <<Keyword("robots"), Number(number["robots"]),
           Keyword("games"), Number(number["games"]),
           Keyword("sequences"), Number(number["sequences"])>>

\* The file that save_tournament_file writes.
Written(robots, arenas, number) ==
    <<Keyword("list robots")>>
      \o [i \in 1 .. Len(robots) |-> FileName(robots[i])]
      \o <<Keyword("list arenas")>>
      \o [i \in 1 .. Len(arenas) |-> FileName(arenas[i])]
      \o <<Keyword("robots"), Number(number["robots"]),
           Keyword("games"), Number(number["games"]),
           Keyword("sequences"), Number(number["sequences"])>>

\* parse_tournament_file of a file that ends with white space.
Parse(words) ==
    LET after[n \in 0 .. Len(words)] ==
          IF n = 0 THEN NewParser ELSE Read(after[n - 1], words[n])
    IN  Outcome(after[Len(words)])

-----------------------------------------------------------------------------
Click == clicks < MaxClicks /\ clicks' = clicks + 1

\* The lists and entries shown become those of a tournament.
NewTournament(t) ==
    /\ list' = [k \in Kinds |-> Infos(IF k = "robot" THEN t.robot_list ELSE t.arena_list)]
    /\ clist' = [k \in Kinds |-> IF k = "robot" THEN t.robot_list ELSE t.arena_list]
    /\ entries' = [k \in NumberKeywords |-> {t[k]}]

EmptyList == [k \in Kinds |-> <<>>]
Defaults  == [k \in NumberKeywords |-> IF k = "robots" THEN {2} ELSE {1}]

\* Load tournament: a file that is rejected changes nothing.
LoadTournament ==
    /\ Click
    /\ LET o == Parse(disk["user"])
       IN  IF o.how = "started" THEN NewTournament(o.tournament)
           ELSE UNCHANGED <<list, clist, entries>>
    /\ UNCHANGED <<picked, disk, running, busy>>

\* The window is closed and opened again: the constructor fills the lists from
\* the last tournament.
Reopen ==
    /\ Click
    /\ picked' = [k \in Kinds |-> {}]
    /\ LET o == Parse(disk["tmp.tour"])
       IN  IF o.how = "started" THEN NewTournament(o.tournament)
           ELSE list' = EmptyList /\ clist' = EmptyList /\ entries' = Defaults
    /\ UNCHANGED <<disk, running, busy>>

\* selection_made: a row of a list is clicked.
SelectRow ==
    /\ Click
    /\ \E k \in Kinds, row \in 0 .. MaxListed - 1 :
          /\ row < Len(clist[k])
          /\ \E i \in 1 .. Len(list[k]) :
                /\ list[k][i].row = row
                /\ \A j \in 1 .. i - 1 : list[k][j].row # row
                /\ list' = [list EXCEPT ![k][i].selected = ~ @]
    /\ UNCHANGED <<clist, picked, entries, disk, running, busy>>

\* selection_made and change_all_selection for the list of a directory.
PickFiles ==
    /\ Click
    /\ \E k \in Kinds : \E fs \in SUBSET Members(Dir(k)) : picked' = [picked EXCEPT ![k] = fs]
    /\ UNCHANGED <<list, clist, entries, disk, running, busy>>

\* change_all_selection for a list of the tournament.
SelectAll ==
    /\ Click
    /\ \E k \in Kinds, all \in BOOLEAN :
          list' = [list EXCEPT ![k] = [i \in 1 .. Len(@) |-> [@[i] EXCEPT !.selected = all]]]
    /\ UNCHANGED <<clist, picked, entries, disk, running, busy>>

\* add_all_selected: the selected files of a directory, in its order.
AddAllSelected ==
    /\ Click
    /\ \E k \in Kinds :
         LET new == Chosen(Dir(k), picked[k])
         IN  /\ Len(list[k]) + Len(new) <= MaxListed
             /\ clist' = [clist EXCEPT ![k] = @ \o new]
             /\ list' = [list EXCEPT ![k] = @ \o [i \in 1 .. Len(new) |->
                                  Info(new[i], Len(clist[k]) + i - 1)]]
    /\ UNCHANGED <<picked, entries, disk, running, busy>>

RemoveAllSelected ==
    /\ Click
    /\ \E k \in Kinds :
         LET w == Removed([rows |-> clist[k], infos |-> list[k]])
         IN  /\ clist' = [clist EXCEPT ![k] = w.rows]
             /\ list' = [list EXCEPT ![k] = w.infos]
    /\ UNCHANGED <<picked, entries, disk, running, busy>>

\* A number is typed, or the entry emptied.
TypeEntry ==
    /\ Click
    /\ \E k \in NumberKeywords, e \in {{}} \cup {{n} : n \in Typed} :
          entries' = [entries EXCEPT ![k] = e]
    /\ UNCHANGED <<list, clist, picked, disk, running, busy>>

\* set_entry: the buttons Min, Max, Full Round and All Arenas.
SetEntry ==
    /\ Click
    /\ \/ \E k \in NumberKeywords : entries' = [entries EXCEPT ![k] = Defaults[k]]
       \/ \E k \in NumberKeywords :
             entries' = [entries EXCEPT ![k] =
                           {IF k = "robots" THEN Smaller(MaxAllowed, Len(list["robot"]))
                                            ELSE 9999}]
       \/ \E n \in ReadEntry("robots") :
             LET robots == Larger(2, Smaller(MaxAllowed, Smaller(Len(list["robot"]), n)))
             IN  entries' = [entries EXCEPT !["sequences"] =
                               {Smaller(9999, binomial(Len(list["robot"]), robots))}]
       \/ entries' = [entries EXCEPT !["games"] =
                        {Larger(1, Smaller(MaxAllowed, Len(list["arena"])))}]
    /\ UNCHANGED <<list, clist, picked, disk, running, busy>>

\* The file is opened for writing, and so emptied, before it is known whether
\* there is anything to write.
Saved(number) ==
    IF Complete THEN Written(Files(list["robot"]), Files(list["arena"]), number) ELSE <<>>

\* The numbers that the entries stand for.
Values == {v \in [NumberKeywords -> UNION {{Clamp(k, n) : n \in ReadEntry(k)} :
                                              k \in NumberKeywords}] :
             \A k \in NumberKeywords : \E n \in ReadEntry(k) : v[k] = Clamp(k, n)}

SaveTournament ==
    /\ Click
    /\ \E v \in Values : disk' = [disk EXCEPT !["user"] = Saved(v)]
    /\ UNCHANGED <<window, running, busy>>

\* start: the tournament begins and is saved; the window closes and is opened
\* again some time.
Start ==
    /\ Click
    /\ ~ busy
    /\ Complete
    /\ \E v, w \in Values :
          /\ running' = {[robot_list |-> Files(list["robot"]),
                          arena_list |-> Files(list["arena"]),
                          games |-> v["games"], robots |-> v["robots"],
                          sequences |-> v["sequences"]]}
          /\ disk' = [disk EXCEPT !["tmp.tour"] = Saved(w)]
    /\ busy' = TRUE
    /\ UNCHANGED window

\* The tournament is over.
Finished ==
    /\ busy
    /\ busy' = FALSE
    /\ UNCHANGED <<window, disk, running, clicks>>

-----------------------------------------------------------------------------
Init ==
    /\ list = EmptyList
    /\ clist = EmptyList
    /\ picked = [k \in Kinds |-> {}]
    /\ entries = Defaults
    /\ disk = [f \in {"tmp.tour", "user"} |-> <<>>]
    /\ running = {}
    /\ busy = FALSE
    /\ clicks = 0

Next ==
    \/ LoadTournament
    \/ Reopen
    \/ SelectRow
    \/ PickFiles
    \/ SelectAll
    \/ AddAllSelected
    \/ RemoveAllSelected
    \/ TypeEntry
    \/ SetEntry
    \/ SaveTournament
    \/ Start
    \/ Finished

Spec == Init /\ [][Next]_vars

-----------------------------------------------------------------------------
(***************************************************************************)
(* Properties.                                                             *)
(***************************************************************************)

\* The two copies of a list agree after any sequence of additions and removals:
\* entry i of the list is row i of the widget.  So a click selects the entry
\* the user sees, find_row_in_clist finds one, and Remove removes that one
\* (add_all_selected, remove_all_selected, new_tournament).
RowsMatch ==
    \A k \in Kinds :
       /\ Files(list[k]) = clist[k]
       /\ \A i \in 1 .. Len(list[k]) : list[k][i].row = i - 1

\* Whatever the entries say, the tournament that Start begins is one that
\* start_tournament can play: it has an arena, and no match needs more robots
\* than there are.
StartsPlayable ==
    \A t \in running :
       /\ t.arena_list # <<>>
       /\ t.robots \in 2 .. Len(t.robot_list)
       /\ t.games >= 1
       /\ t.sequences >= 1

\* "The last tournament played is stored in /tmp/rtb/tmp.tour and is always
\* displayed when this window opens": reading the file back gives the very
\* tournament that was started.
LastTournamentKept ==
    \A t \in running : Parse(disk["tmp.tour"]) = [how |-> "started", tournament |-> t]
=============================================================================
