----------------------------- MODULE MCOptions -----------------------------
(***************************************************************************)
(* An instance of Options for TLC: a double whose upper limit is rounded   *)
(* up when it is printed, a colour, the width of a window and two paths,   *)
(* with labels of two words as in the table of Options.cc.                 *)
(***************************************************************************)
EXTENDS Options

MCTable ==
    <<[name |-> "frontsize", kind |-> "double", label |-> <<"Robot", " ", "frontsize">>,
       low |-> 1, high |-> 5, builtin |-> 3, logged |-> TRUE, grabbed |-> FALSE],
      [name |-> "colour", kind |-> "hex", label |-> <<"Mine", " ", "colour">>,
       low |-> 0, high |-> 15, builtin |-> 12, logged |-> FALSE, grabbed |-> FALSE],
      [name |-> "width", kind |-> "int", label |-> <<"Window", " ", "width">>,
       low |-> 2, high |-> 14, builtin |-> 10, logged |-> FALSE, grabbed |-> TRUE],
      [name |-> "robotpath", kind |-> "string", label |-> <<"Robot", " ", "path">>,
       builtin |-> <<>>, logged |-> FALSE, grabbed |-> FALSE],
      [name |-> "arenapath", kind |-> "string", label |-> <<"Arena", " ", "path">>,
       builtin |-> <<"/a", ":", "/b">>, logged |-> FALSE, grabbed |-> FALSE]>>

MCTyped == {<<>>, <<"10">>, <<"a">>}

\* An unknown option in front of known ones; a number that is missing.
MCHandWritten ==
    {<<"Window", " ", "width", ":", " ", "16", " ", "Old", " ", "option", ":", " ", "1", " ",
       "Mine", " ", "colour", ":", " ", "a", " ">>,
     <<"Robot", " ", "path", ":", "/c", " ", "Robot", " ", "frontsize", ":", " ", "a", " ">>}

MCWindowSizes == {-5, 1, 16}
=============================================================================
