------------------------------ MODULE Options ------------------------------
(***************************************************************************)
(* The options: their values and defaults, the options files they are      *)
(* saved to and read from, the window in which they are edited, the log    *)
(* that takes them to a replay.  Each callback of the window is one step.  *)
(*                                                                         *)
(* A file is a sequence of atoms: words, ":" and " ", which stands for any *)
(* run of white space.  Numbers are printed and parsed: a double keeps six *)
(* digits, here the multiples of Grain; colours are hexadecimal.           *)
(***************************************************************************)
EXTENDS Integers, Sequences, FiniteSets, TLC

CONSTANTS
    Table,       \* the options in the order of the file: a sequence of records
                 \* name, kind, label, low, high, builtin, logged, grabbed
    Grain,       \* what six digits can tell apart
    Biggest,     \* bound: numbers that are written somewhere
    Typed,       \* texts that a user types: sequences of at most one word
    WindowSizes, \* sizes and positions of the windows on the screen
    HandWritten, \* options files written by somebody else, sequences of atoms
    Competition, \* game_mode = COMPETITION_MODE
    MaxClicks    \* bound: callbacks in a behaviour

Kinds == {"double", "int", "hex", "string"}

Option == {Table[i].name : i \in 1 .. Len(Table)}

Info(o) == Table[CHOOSE i \in 1 .. Len(Table) : Table[i].name = o]

OptionsNamed(label) == {o \in Option : Info(o).label = label}

OfKind(K) == {o \in Option : Info(o).kind \in K}

ASSUME OptionsAssumption ==
    /\ {Grain, Biggest} \subseteq Nat \ {0} /\ MaxClicks \in Nat
    /\ Competition \in BOOLEAN
    /\ \A o \in Option : Info(o).kind \in Kinds /\ OptionsNamed(Info(o).label) = {o}
    /\ \A o \in OfKind({"double", "int", "hex"}) :
          Info(o).low <= Info(o).builtin /\ Info(o).builtin <= Info(o).high

VARIABLES
    value,       \* value[o], a number, or a text for a string option
    default,     \* default_value
    up,          \* optionswindow_p /= NULL
    entry,       \* the texts of its entries
    filesel,     \* its file selection: "none", "load" or "save"
    orphan,      \* a file selection whose options window is gone
    disk,        \* the files "rtbrc" and "user": {} or {text}
    home,        \* the environment has a HOME
    arena,       \* "none", or a tournament that is not over: "game", "replay"
    log,         \* the options in the last tournament's log: {} or {values}
    crashed,     \* undefined behaviour ended the program
    touched,     \* history: typed in, or values changed behind the window
    replayed,    \* history: a replay set options since the program started
    saved,       \* history: the values that a file was saved from: {} or {values}
    clicks

window  == <<up, entry, filesel, orphan>>
history == <<touched, replayed, saved>>
vars    == <<value, default, window, disk, home, arena, log, crashed, history, clicks>>

-----------------------------------------------------------------------------
(* Printing and parsing. *)

HexDigits == <<"0", "1", "2", "3", "4", "5", "6", "7", "8", "9", "a", "b", "c", "d", "e", "f">>

Digit(n) == HexDigits[n + 1]

Dec(n) == ToString(n)

HexText(n) == IF n < 16 THEN Digit(n) ELSE Digit(n \div 16) \o Digit(n % 16)

\* The numbers that a word reads as: one, or none.
FromDec(w) == {n \in -Biggest .. Biggest : Dec(n) = w}

FromHex(w) == {n \in 0 .. Biggest : HexText(n) = w}

Rounded(n) == ((n + Grain \div 2) \div Grain) * Grain

\* The value of option o as text: an ostream, with std::hex for colours.
Printed(o, v) ==
    CASE Info(o).kind = "string" -> v
      [] Info(o).kind = "double" -> <<Dec(Rounded(v))>>
      [] Info(o).kind = "int"    -> <<Dec(v)>>
      [] Info(o).kind = "hex"    -> <<HexText(v)>>

Limited(o, v) ==
    CASE v > Info(o).high -> Info(o).high
      [] v < Info(o).low  -> Info(o).low
      [] OTHER            -> v

\* The values o may get from extracting a number that is not there: a double
\* is not initialized, a long is 0.
NoNumber(o) ==
    IF Info(o).kind = "double" THEN Info(o).low .. Info(o).high ELSE {Limited(o, 0)}

FromNumbers(o, N) == IF N = {} THEN NoNumber(o) ELSE {Limited(o, n) : n \in N}

-----------------------------------------------------------------------------
(* save_all_options_to_file and read_options_file. *)

Line(o, v) == Info(o).label \o <<":", " ">> \o Printed(o, v) \o <<" ">>

\* Mutation of FileOf: a colour is written as it is.
FileOfDecimals(vals) ==
    LET line(i) ==
            LET o == Table[i].name
            IN  IF Info(o).kind = "hex" THEN Info(o).label \o <<":", " ", Dec(vals[o]), " ">>
                                        ELSE Line(o, vals[o])
        lines[i \in 0 .. Len(Table)] == IF i = 0 THEN <<>> ELSE lines[i - 1] \o line(i)
    IN  lines[Len(Table)]

FileOf(vals) ==
    LET lines[i \in 0 .. Len(Table)] ==
            IF i = 0 THEN <<>> ELSE lines[i - 1] \o Line(Table[i].name, vals[Table[i].name])
    IN  lines[Len(Table)]

Blanks(t) == CHOOSE n \in 0 .. Len(t) :
                /\ \A i \in 1 .. n : t[i] = " "
                /\ n < Len(t) => t[n + 1] # " "

SkipSpace(t) == SubSeq(t, Blanks(t) + 1, Len(t))

\* The part of t before the first atom of A, the whole of t if there is none.
Before(t, A) ==
    SubSeq(t, 1, CHOOSE n \in 0 .. Len(t) :
                    /\ \A i \in 1 .. n : t[i] \notin A
                    /\ n < Len(t) => t[n + 1] \in A)

After(t, part) == SubSeq(t, Len(part) + 1, Len(t))

\* The value of option o at the beginning of t, what is left of t, and whether
\* the stream is still good.  There is one result for every value that an
\* uninitialized double may have.
ReadValue(o, t) ==
    LET s      == SkipSpace(t)
        word   == Before(s, {" "})
        number == Before(s, {" ", ":"})
        N      == IF Len(number) = 1 THEN FromDec(number[1]) ELSE {}
    IN  CASE Info(o).kind = "string" -> {[v |-> word, rest |-> After(s, word), good |-> s # <<>>]}
          [] Info(o).kind = "hex" ->
                {[v |-> v, rest |-> After(s, word), good |-> s # <<>>] :
                    v \in FromNumbers(o, IF Len(word) = 1 THEN FromHex(word[1]) ELSE {})}
          [] OTHER -> {[v |-> v, rest |-> After(s, number), good |-> N # {}] :
                         v \in FromNumbers(o, N)}

\* One turn of the loop after another.  A label that isn't known is only
\* passed over, its value is not.
RECURSIVE ReadFrom(_, _)
ReadFrom(t, vals) ==
    LET s     == SkipSpace(t)
        label == Before(s, {":"})
        rest  == SubSeq(s, Len(label) + 2, Len(s))
    IN  IF label = <<>> THEN {vals}
        ELSE IF OptionsNamed(label) = {} THEN ReadFrom(rest, vals)
        ELSE LET o == CHOOSE o \in OptionsNamed(label) : TRUE
             IN  UNION {IF r.good THEN ReadFrom(r.rest, [vals EXCEPT ![o] = r.v])
                                  ELSE {[vals EXCEPT ![o] = r.v]} : r \in ReadValue(o, rest)}

\* The outcomes of reading file f (a missing file changes nothing).
Read(f, vals) == IF f = {} THEN {vals} ELSE UNION {ReadFrom(t, vals) : t \in f}

-----------------------------------------------------------------------------
(* The window. *)

\* entry_handler: only digits stay in the entry of a number, without a sign
\* when none is allowed; the entry of a double is not checked.
Accepted(o, t) ==
    CASE Info(o).kind = "int" /\ t # <<>> -> IF FromDec(t[1]) = {} THEN <<>> ELSE t
      [] Info(o).kind = "hex" /\ t # <<>> -> IF FromHex(t[1]) = {} THEN <<>> ELSE t
      [] OTHER                            -> t

Sign(v) == IF v < 0 THEN -v ELSE v

\* gtk_entry_set_text with a value.
EntryText(o, v) == IF Info(o).kind = "int" THEN <<Dec(Sign(v))>> ELSE Printed(o, v)

EntryTexts(vals) == [o \in Option |-> EntryText(o, vals[o])]

NoEntries == [o \in Option |-> <<>>]

\* Changing options is refused while a competition tournament is going on.
Allowed == ~ Competition \/ arena = "none"

EntryValue(o, t) ==
    CASE Info(o).kind = "string" -> {t}
      [] Info(o).kind = "hex"    -> FromNumbers(o, IF t = <<>> THEN {} ELSE FromHex(t[1]))
      [] OTHER                   -> FromNumbers(o, IF t = <<>> THEN {} ELSE FromDec(t[1]))

\* The values that set_all_options may set from the texts e; only those of
\* doubles may be left open.
FromEntries(e) ==
    LET doubles == OfKind({"double"})
        any     == UNION {EntryValue(o, e[o]) : o \in doubles}
    IN  {[o \in Option |-> IF o \in doubles THEN d[o]
                           ELSE CHOOSE v \in EntryValue(o, e[o]) : TRUE] :
            d \in {d \in [doubles -> any] : \A o \in doubles : d[o] \in EntryValue(o, e[o])}}

FromEntriesIfAllowed(e) == IF Allowed THEN FromEntries(e) ELSE {value}

Click == ~ crashed /\ clicks < MaxClicks /\ clicks' = clicks + 1

\* Mutation of Filled: the entries are left as they are.
FilledLater == entry' = entry

\* update_all_gtk_entries
Filled == entry' = EntryTexts(value')

open_optionswindow ==
    /\ Click /\ Allowed /\ ~ up
    /\ up' = TRUE /\ entry' = EntryTexts(value) /\ filesel' = "none" /\ touched' = FALSE
    /\ UNCHANGED <<value, default, orphan, disk, home, arena, log, crashed, replayed, saved>>

\* A user types a text, or presses the Min, Def or Max button of an entry.
Edit(o) ==
    /\ Click /\ up
    /\ \E t \in {Accepted(o, t) : t \in Typed}
                   \cup {EntryText(o, default[o])}
                   \cup (IF Info(o).kind = "string" THEN {}
                         ELSE {EntryText(o, Info(o).low), EntryText(o, Info(o).high)}) :
          entry' = [entry EXCEPT ![o] = t]
    /\ touched' = TRUE
    /\ UNCHANGED <<value, default, up, filesel, orphan, disk, home, arena, log, crashed,
                   replayed, saved>>

default_opts ==
    /\ Click /\ up
    /\ value' = default /\ Filled /\ touched' = FALSE
    /\ UNCHANGED <<default, up, filesel, orphan, disk, home, arena, log, crashed, replayed, saved>>

apply ==
    /\ Click /\ up
    /\ value' \in FromEntriesIfAllowed(entry)
    /\ touched' = TRUE
    /\ UNCHANGED <<default, window, disk, home, arena, log, crashed, replayed, saved>>

\* close_optionswindow: the window's file selection is not closed with it.
Closed ==
    /\ up' = FALSE /\ filesel' = "none" /\ entry' = NoEntries
    /\ orphan' = IF filesel = "none" THEN orphan ELSE filesel

ok ==
    /\ Click /\ up
    /\ value' \in FromEntriesIfAllowed(entry)
    /\ Closed /\ touched' = FALSE
    /\ UNCHANGED <<default, disk, home, arena, log, crashed, replayed, saved>>

cancel ==
    /\ Click /\ up
    /\ Closed /\ touched' = FALSE
    /\ UNCHANGED <<value, default, disk, home, arena, log, crashed, replayed, saved>>

\* load and save open the file selection.
choose_file(what) ==
    /\ Click /\ up /\ filesel = "none"
    /\ filesel' = what
    /\ UNCHANGED <<value, default, up, entry, orphan, disk, home, arena, log, crashed, history>>

destroy_filesel ==
    /\ Click /\ up /\ filesel # "none"
    /\ filesel' = "none"
    /\ UNCHANGED <<value, default, up, entry, orphan, disk, home, arena, log, crashed, history>>

load_options ==
    /\ Click /\ up /\ filesel = "load"
    /\ value' \in Read(disk["user"], value)
    /\ Filled /\ filesel' = "none" /\ touched' = FALSE
    /\ UNCHANGED <<default, up, orphan, disk, home, arena, log, crashed, replayed, saved>>

\* save_all_options_to_file: what is in the entries is applied and written.
Save(f) ==
    /\ value' \in FromEntriesIfAllowed(entry)
    /\ disk' = [disk EXCEPT ![f] = {FileOf(value')}]
    /\ saved' = [saved EXCEPT ![f] = {value'}]
    /\ touched' = TRUE

CannotOpen == UNCHANGED <<value, disk, saved, touched>>

save_options ==
    /\ Click /\ up /\ filesel = "save"
    /\ Save("user") \/ CannotOpen
    /\ filesel' = "none"
    /\ UNCHANGED <<default, up, entry, orphan, home, arena, log, crashed, replayed>>

save_def ==
    /\ Click /\ up
    /\ IF home THEN Save("rtbrc") \/ CannotOpen ELSE CannotOpen
    /\ UNCHANGED <<default, window, home, arena, log, crashed, replayed>>

\* A button of a file selection whose options window was deleted: its callback
\* reads the deleted object, and loading sets entries that are gone or belong
\* to another window.
orphan_clicked ==
    /\ Click /\ orphan # "none"
    /\ \/ crashed' = TRUE /\ UNCHANGED <<value, orphan>>
       \/ crashed' = FALSE /\ orphan' = "none"
          /\ value' \in {value} \cup (IF orphan = "load" THEN Read(disk["user"], value) ELSE {})
    /\ touched' = TRUE
    /\ UNCHANGED <<default, up, entry, filesel, disk, home, arena, log, replayed, saved>>

grab_windows ==
    /\ Click /\ up
    /\ \E size \in WindowSizes :
          value' = [o \in Option |-> IF Info(o).grabbed THEN size ELSE value[o]]
    /\ Filled /\ touched' = FALSE
    /\ UNCHANGED <<default, up, filesel, orphan, disk, home, arena, log, crashed, replayed, saved>>

-----------------------------------------------------------------------------
(* The program and its tournaments. *)

\* Somebody else writes the file.
WriteFile(f) ==
    /\ Click
    /\ \E t \in HandWritten : disk' = [disk EXCEPT ![f] = {t}]
    /\ saved' = [saved EXCEPT ![f] = {}]
    /\ UNCHANGED <<value, default, window, home, arena, log, crashed, touched, replayed>>

\* A tournament starts: log_all_options.
StartTournament ==
    /\ Click /\ arena = "none"
    /\ arena' = "game"
    /\ log' = {[o \in {p \in Option : Info(p).logged} |-> Printed(o, value[o])]}
    /\ UNCHANGED <<value, default, window, disk, home, crashed, history>>

\* The log of the last tournament is replayed: its options become the values.
StartReplay ==
    /\ Click /\ arena = "none" /\ log # {}
    /\ arena' = "replay"
    /\ \E logged \in log :
          value' = [o \in Option |-> IF Info(o).logged
                                     THEN CHOOSE n \in FromDec(logged[o][1]) : TRUE
                                     ELSE value[o]]
    /\ touched' = TRUE /\ replayed' = TRUE
    /\ UNCHANGED <<default, window, disk, home, log, crashed, saved>>

EndTournament ==
    /\ Click /\ arena # "none"
    /\ arena' = "none"
    /\ UNCHANGED <<value, default, window, disk, home, log, crashed, history>>

BuiltIn == [o \in Option |-> Info(o).builtin]

\* What the program starts with: an options file named on the command line or
\* .rtbrc, whose options become the defaults.
StartValues(d) ==
    UNION {Read(f, BuiltIn) : f \in {d["user"], IF home THEN d["rtbrc"] ELSE {}}}

\* The program ends, or crashed, and is started again.
Restart ==
    /\ clicks < MaxClicks /\ clicks' = clicks + 1
    /\ value' \in StartValues(disk) /\ default' = value'
    /\ up' = FALSE /\ entry' = NoEntries /\ filesel' = "none" /\ orphan' = "none"
    /\ arena' = "none" /\ crashed' = FALSE /\ touched' = FALSE /\ replayed' = FALSE
    /\ UNCHANGED <<disk, home, log, saved>>

Init ==
    /\ home \in BOOLEAN
    /\ disk = [f \in {"rtbrc", "user"} |-> {}]
    /\ value \in StartValues(disk) /\ default = value
    /\ up = FALSE /\ entry = NoEntries /\ filesel = "none" /\ orphan = "none"
    /\ arena = "none" /\ crashed = FALSE /\ touched = FALSE /\ replayed = FALSE
    /\ log = {} /\ saved = [f \in {"rtbrc", "user"} |-> {}]
    /\ clicks = 0

Next ==
    \/ open_optionswindow \/ default_opts \/ apply \/ ok \/ cancel
    \/ \E o \in Option : Edit(o)
    \/ \E what \in {"load", "save"} : choose_file(what)
    \/ destroy_filesel \/ load_options \/ save_options \/ save_def \/ orphan_clicked
    \/ grab_windows
    \/ \E f \in {"rtbrc", "user"} : WriteFile(f)
    \/ StartTournament \/ StartReplay \/ EndTournament \/ Restart

Spec == Init /\ [][Next]_vars

-----------------------------------------------------------------------------
(* Properties. *)

\* A string that is one word: what read_options_file can read.
Plain(t) == t # <<>> /\ " " \notin {t[i] : i \in 1 .. Len(t)}

\* A file that the program saved is read as it was saved, up to the digits
\* that are printed and to the limits, whatever values the options have now:
\* when every string option is one word.
SavedIsLoaded ==
    \A f \in {"rtbrc", "user"} : \A vals \in saved[f] :
       (\A o \in OfKind({"string"}) : Plain(vals[o]))
       => Read(disk[f], value) =
             {[o \in Option |->
                 CASE Info(o).kind = "string" -> vals[o]
                   [] Info(o).kind = "double" -> Limited(o, Rounded(vals[o]))
                   [] OTHER                   -> Limited(o, vals[o])]}

\* Applying entries that nobody has touched leaves the options as they are: the
\* entries show the current values, up to the digits that are printed and to
\* the limits (a negative window position is shown without its sign).
UntouchedEntries ==
    up /\ ~ touched /\ Allowed =>
       \A vals \in FromEntriesIfAllowed(entry) : \A o \in Option :
          CASE Info(o).kind = "string" -> vals[o] = value[o]
            [] Info(o).kind = "double" -> vals[o] = Limited(o, Rounded(value[o]))
            [] OTHER                   -> vals[o] = Limited(o, Sign(value[o]))
=============================================================================
