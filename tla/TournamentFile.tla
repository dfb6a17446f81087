--------------------------- MODULE TournamentFile ---------------------------
(***************************************************************************)
(* parse_tournament_file as it reads a file.  The file is written word by  *)
(* word as it is read, so that a behaviour is the reading of one file.     *)
(***************************************************************************)
EXTENDS TournamentParser, FiniteSets

CONSTANTS
    OtherFiles,  \* names that are neither robots nor arenas
    Numbers,     \* numbers that may stand in the file
    MaxWords     \* bound: words in a file

VARIABLES
    file,    \* the words read so far
    parser,  \* the local variables of parse_tournament_file
    result   \* how it ended

vars == <<file, parser, result>>

-----------------------------------------------------------------------------
\* Words of the file that are followed by white space.
ReadWord(w) ==
    /\ result.how = "reading"
    /\ Len(file) < MaxWords
    /\ file' = Append(file, w)
    /\ parser' = Read(parser, w)
    /\ UNCHANGED result

\* The file ends with white space.  An argument that is missing is a failed read.
EndOfFile ==
    /\ result.how = "reading"
    /\ parser' = IF parser.argument = "none" THEN parser
                 ELSE Read(parser, <<"nothing", "">>)
    /\ result' = Outcome(parser')
    /\ UNCHANGED file

\* The file ends with the word w: the stream is at its end when the word has been
\* read, which ends the loop.  Only an argument is not lost.
EndOfFileAfter(w) ==
    /\ result.how = "reading"
    /\ Len(file) < MaxWords
    /\ file' = Append(file, w)
    /\ parser' = IF parser.argument = "none" THEN parser ELSE Read(parser, w)
    /\ result' = Outcome(parser')

-----------------------------------------------------------------------------
Init ==
    /\ file = <<>>
    /\ parser = NewParser
    /\ result = [how |-> "reading"]

Word(w) == ReadWord(w) \/ EndOfFileAfter(w)

Next ==
    \/ \E k \in Keywords : Word(Keyword(k))
    \/ \E n \in Numbers : Word(Number(n))
    \/ Word(Asterisk)
    \/ \E f \in Members(RobotDir) \cup Members(ArenaDir) \cup OtherFiles : Word(FileName(f))
    \/ EndOfFile

Spec == Init /\ [][Next]_vars

-----------------------------------------------------------------------------
(***************************************************************************)
(* Properties.  They speak of the whole file, where the code sees a word   *)
(* at a time.                                                              *)
(***************************************************************************)

\* Word i is taken for an argument: it follows an odd number of keywords that
\* want one.
IsArgument(i) ==
    \E n \in 1 .. i - 1 :
       /\ n % 2 = 1
       /\ \A j \in i - n .. i - 1 : IsNumberKeyword(file[j])
       /\ i - n = 1 \/ ~ IsNumberKeyword(file[i - n - 1])

\* The arguments for keyword k that can be read.
ArgumentsOf(k) ==
    {i \in 2 .. Len(file) : /\ IsArgument(i)
                            /\ file[i - 1] = Keyword(k)
                            /\ \/ FailedReadIsZero
                               \/ file[i][1] \in {"asterisk", "number"}}

\* "only the last one of the keywords that takes a number as argument is
\* counted", wherever it stands and whatever stands before it.
LastNumberCounts ==
    result.how = "reading" =>
      \A k \in NumberKeywords :
         LET last == CHOOSE i \in ArgumentsOf(k) : \A j \in ArgumentsOf(k) : j <= i
         IN  parser.number[k] = IF ArgumentsOf(k) = {} THEN NewParser.number[k]
                                ELSE ReadNumber(file[last], NewParser.number[k])

\* Word i is in a list of kind k.
InList(i, k) ==
    /\ ~ IsKeyword(file[i])
    /\ ~ IsArgument(i)
    /\ \E j \in 1 .. i - 1 :
          /\ file[j] = Keyword(k)
          /\ ~ IsArgument(j)
          /\ \A m \in j + 1 .. i - 1 : IsKeyword(file[m]) => IsArgument(m)

\* How often the words of list kind k name file f.
Mentions(f, k) ==
    Cardinality({i \in 1 .. Len(file) : /\ InList(i, k)
                                        /\ file[i][1] = "asterisk" \/ file[i] = FileName(f)})

Occurrences(f, list) == Cardinality({i \in 1 .. Len(list) : list[i] = f})

\* Every robot and every arena is in the tournament as often as the file names
\* it, in however many lists, and nothing else is.
ListsAsWritten ==
    result.how = "reading" =>
      /\ \A f \in Members(RobotDir) :
            Occurrences(f, parser.robot_list) = Mentions(f, "list robots")
      /\ \A f \in Members(ArenaDir) :
            Occurrences(f, parser.arena_list) = Mentions(f, "list arenas")
      /\ Members(parser.robot_list) \subseteq Members(RobotDir)
      /\ Members(parser.arena_list) \subseteq Members(ArenaDir)

\* The file means what is written in it; and what is started satisfies what
\* start_tournament relies on: no match of more robots than there are, at least one
\* game and one sequence.
FileAsWritten ==
    /\ LastNumberCounts /\ ListsAsWritten
    /\ result.how = "started" =>
         /\ result.tournament.robots \in 2 .. Len(result.tournament.robot_list)
         /\ result.tournament.games >= 1
         /\ result.tournament.sequences >= 1
=============================================================================
