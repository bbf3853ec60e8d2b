------------------------------ MODULE MCPasses ------------------------------
(* Instances of Passes for TLC. *)
EXTENDS Passes

\* "once" may be loaded once and lies in one directory, "twice" in two of them.
FewPlaces == [dump |-> {2}, example |-> {2, 4}, once |-> {3}, twice |-> {2, 5}]
OnceOnly == {"once", "twice"}

W(s) == <<s>>
WithComma(s) == <<s, "">>

PassWords ==
    {W(""), W("dump"), WithComma("dump"), W("example"), W("once"), WithComma("once"),
     W("to-file"), W("help"), W("list"), W("f"), WithComma("f"), <<"f", "dump">>, Comma, Dashes}

\* Lines of at most four words, "help" in those of three at most; with options,
\* of a program of at most two.
Lines ==
    UNION {[1 .. n -> PassWords] : n \in 1 .. 3}
    \cup [1 .. 4 -> PassWords \ {W("help")}]
    \cup {<<Unknown>> \o l : l \in [1 .. 2 -> {W("dump"), Dashes}]}
    \cup {o \o l : o \in UNION {[1 .. n -> OptionWords] : n \in 1 .. 2},
                   l \in {<<>>, <<W("f")>>, <<Dashes, W("f")>>, <<W("once")>>}}

FewFiles == {W("f")}
=============================================================================
