--------------------------- MODULE MCCommandLoop ---------------------------
(* Small instances of CommandLoop for TLC.                                 *)
EXTENDS CommandLoop

P(line, newline) == [line |-> line, newline |-> newline, quit |-> FALSE]
Quit(line, newline) == [line |-> line, newline |-> newline, quit |-> TRUE]

\* A line of one piece, a line of two, and a quit without its newline.
Typed == <<P(1, TRUE), P(2, FALSE), P(2, TRUE), Quit(3, FALSE)>>

\* Nothing is typed.
Silent == <<>>
=============================================================================
