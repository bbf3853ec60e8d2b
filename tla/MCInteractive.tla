--------------------------- MODULE MCInteractive ---------------------------
(* Instances of Interactive for TLC. *)
EXTENDS Interactive

SomeMessages == {"request", "event"}

Plain(op) == [op |-> op]
Of(op, re) == [op |-> op, re |-> re]
Auto(re, cmd) == [op |-> "autocmd add", re |-> re, cmd |-> cmd]
Del(op, id) == [op |-> op, id |-> id]

\* Filters of both sorts, for one message or the other; autocmds that stop,
\* quit, make an autocmd or delete one, themselves included; the pass commands
\* that end the process and that take the interactive pass itself away.
AllCommands ==
    {Plain("next"), Plain("continue"), Plain("quit"), Plain("")}
    \cup {Of("showonly", {"request"}), Of("showonly", {"event"}), Of("hide", {"request"})}
    \cup {Of("break", {"request"}), Del("break delete", 1), Del("autocmd remove", 0)}
    \cup {Auto({"request"}, Plain("next")), Auto({"request"}, Plain("quit")),
          Auto({"request"}, Auto({"request"}, Del("break delete", 1))),
          Auto(SomeMessages, Del("autocmd remove", 1))}
    \cup {[op |-> "pass add", name |-> "list"], [op |-> "pass remove", name |-> "interactive"]}

FewIds == [filters |-> 2, breakpoints |-> 2, autocmds |-> 3]

Pipeline == <<"resolve", "interactive">>
=============================================================================
