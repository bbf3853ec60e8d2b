---------------------------- MODULE Interactive ----------------------------
(***************************************************************************)
(* The interactive pass (src/interactive/interactive.c) and the commands   *)
(* that steer it (interactive-commands.c, filters.c, breakpoints.c,        *)
(* autocmd.c, pass.c): what happens to a message that reaches the pass,    *)
(* and what the user and the automatic commands can do meanwhile to the    *)
(* lists the pass walks.                                                   *)
(*                                                                         *)
(* A regular expression or a condition of a breakpoint is the set of the   *)
(* messages it holds for.  A command is a record with its name op and its  *)
(* arguments; "other" is any command that changes nothing here, one that   *)
(* is refused included, "" is an empty line.                               *)
(***************************************************************************)
EXTENDS Naturals, Sequences, SequencesExt

CONSTANTS
    Messages,   \* the messages, by what breakpoints and expressions tell apart
    Commands,   \* what the user may type
    Started,    \* the passes in the pipeline when the client starts
    MaxIds      \* bound: MaxIds[kind] is where the memory for that list runs out

Op == {"hide", "showonly", "filter remove", "break", "break delete",
       "autocmd add", "autocmd remove", "pass add", "pass remove",
       "next", "continue", "quit", "other", ""}

ASSUME InteractiveAssumption ==
    /\ MaxIds \in [{"filters", "breakpoints", "autocmds"} -> Nat \ {0}]
    /\ Started # <<>> /\ Last(Started) = "interactive"
    /\ \A c \in Commands : c.op \in Op

VARIABLES
    phase,      \* see Phase
    lists,      \* lists[kind]: wldbgi->filters, breakpoints, autocmds
    nextId,     \* nextId[kind]: pf_id, breakpoint_next_id, autocmd_id
    passes,     \* wldbg->passes
    stop,       \* wldbgi->stop
    seen,       \* whether the statistics count any message
    exit,       \* wldbg->flags.exit
    connected,  \* whether wldbg->connections has any
    last,       \* the last command typed, for an empty line
    message,    \* the message in the pass, until the autocmds are through
    skip,       \* skip_message of process_interactive
    cursor,     \* the id of the autocmd its loop is at, or AtEnd
    asker,      \* what runs the command that asks for a confirmation
    arrival,    \* history: the autocmds due and the breakpoints hit when it came
    ran,        \* history: the autocmds run for it, in order
    asked       \* history: whether a stop is wanted by more than a breakpoint

settings == <<lists, nextId, passes>>
loop == <<message, skip, cursor, arrival, ran>>
vars == <<phase, settings, stop, seen, exit, connected, last, loop, asker, asked>>

Kind == {"filters", "breakpoints", "autocmds"}

\* "idle": in the main loop; "discard": cmd_quit reads to the end of a line;
\* "stuck": ... and the input has ended; "undefined": freed memory is used.
Phase == {"idle", "autocmds", "query", "confirm", "discard", "stuck", "left", "undefined"}

\* No autocmd has this id.
AtEnd == MaxIds["autocmds"]

None == [op |-> "none"]

NoArrival == [due |-> {}, broke |-> FALSE]

Init ==
    /\ phase = "idle"
    /\ lists = [k \in Kind |-> <<>>]
    /\ nextId = [k \in Kind |-> IF k = "breakpoints" THEN 1 ELSE 0]
    /\ passes = Started
    /\ stop = FALSE /\ seen = FALSE /\ exit = FALSE
    /\ connected \in BOOLEAN   \* no client yet: server mode
    /\ last = None
    /\ message = "none" /\ skip = FALSE /\ cursor = AtEnd
    /\ arrival = NoArrival /\ ran = <<>>
    /\ asker = "query" /\ asked = FALSE

-----------------------------------------------------------------------------
(* The lists. *)

Ids(list) == {list[i].id : i \in DOMAIN list}

\* wl_list_insert(list.next, ...): behind the first element.
Insert(list, x) == IF list = <<>> THEN <<x>> ELSE <<Head(list), x>> \o Tail(list)

\* The entry with its id.
Numbered(entry, id) ==
    [f \in DOMAIN entry \cup {"id"} |-> IF f = "id" THEN id ELSE entry[f]]

\* Mutant of Create: the new entry is numbered by its place.
CreateNumbered(kind, entry) ==
    IF nextId[kind] >= MaxIds[kind]
       THEN UNCHANGED <<lists, nextId>>
       ELSE /\ lists' = [lists EXCEPT ![kind] =
                           Insert(@, Numbered(entry, Len(lists[kind])))]
            /\ nextId' = [nextId EXCEPT ![kind] = @ + 1]

\* create_filter, create_breakpoint, create_autocmd: out of memory, nothing is
\* changed.
Create(kind, entry) ==
    IF nextId[kind] >= MaxIds[kind]
       THEN UNCHANGED <<lists, nextId>>
       ELSE /\ lists' = [lists EXCEPT ![kind] =
                           Insert(@, Numbered(entry, nextId[kind]))]
            /\ nextId' = [nextId EXCEPT ![kind] = @ + 1]

\* remove_filter, delete_breakpoint, remove_autocmd
Delete(kind, id) ==
    /\ UNCHANGED nextId
    /\ lists' = [lists EXCEPT ![kind] = RemoveFirstMatch(@, LAMBDA e : e.id = id)]

\* Mutant of FilterMatch: a message is hidden at the first showonly filter it
\* does not match.
FilterMatchEager(filters, m) ==
    LET i == SelectInSeq(filters, LAMBDA f : m \in f.re \/ f.show)
    IN  i # 0 /\ (~filters[i].show \/ m \notin filters[i].re)

\* filter_match: the first filter that matches decides.
FilterMatch(filters, m) ==
    LET i == SelectInSeq(filters, LAMBDA f : m \in f.re)
    IN  IF i # 0 THEN ~filters[i].show ELSE \E f \in Range(filters) : f.show

-----------------------------------------------------------------------------
(* Commands. *)

\* cmd_hide, cmd_showonly and cmd_filter
CmdFilter(c) ==
    CASE c.op = "hide" -> Create("filters", [re |-> c.re, show |-> FALSE])
      [] c.op = "showonly" -> Create("filters", [re |-> c.re, show |-> TRUE])
      [] c.op = "filter remove" -> Delete("filters", c.id)

CmdBreak(c) ==
    CASE c.op = "break" -> Create("breakpoints", [re |-> c.re])
      [] c.op = "break delete" -> Delete("breakpoints", c.id)

CmdAutocmd(c) ==
    CASE c.op = "autocmd add" -> Create("autocmds", [re |-> c.re, cmd |-> c.cmd])
      [] c.op = "autocmd remove" -> Delete("autocmds", c.id)

\* pass add list: the init function of that pass ends the process.
EndsProcess(c) == c.op = "pass add" /\ c.name = "list"

CmdPass(c) ==
    passes' = CASE EndsProcess(c) -> passes
                [] c.op = "pass add" /\ ~EndsProcess(c) -> Insert(passes, c.name)
                [] c.op = "pass remove" -> RemoveFirst(passes, c.name)

\* What a command does to the lists, the pipeline and the stop flag; quitting
\* and the end of the query are left to who runs it.
Apply(c) ==
    /\ CASE c.op \in {"hide", "showonly", "filter remove"} ->
               CmdFilter(c) /\ UNCHANGED passes
         [] c.op \in {"break", "break delete"} -> CmdBreak(c) /\ UNCHANGED passes
         [] c.op \in {"autocmd add", "autocmd remove"} ->
               CmdAutocmd(c) /\ UNCHANGED passes
         [] c.op \in {"pass add", "pass remove"} ->
               CmdPass(c) /\ UNCHANGED <<lists, nextId>>
         [] OTHER -> UNCHANGED settings
    /\ stop' = (stop \/ c.op = "next")
    /\ asked' = (asked \/ c.op = "next")

\* cmd_quit, run by who: with clients connected the user is asked first; done
\* is where who goes having quit.
Quit(who, done) ==
    IF connected THEN phase' = "confirm" /\ asker' = who /\ UNCHANGED exit
                 ELSE phase' = done /\ exit' = TRUE /\ UNCHANGED asker

-----------------------------------------------------------------------------
(* A message comes to the pass. *)

\* Mutant of Arrive: a breakpoint does not show what a filter hides.
ArriveHidden(m) ==
    LET broke == \E b \in Range(lists.breakpoints) : m \in b.re
    IN  /\ arrival' = [due |-> {a.id : a \in {x \in Range(lists.autocmds) : m \in x.re}},
                       broke |-> broke]
        /\ stop' = (stop \/ broke \/ ~seen)
        /\ skip' = FilterMatch(lists.filters, m)

\* What process_interactive makes of message m before the autocmds.
Arrive(m) ==
    LET broke == \E b \in Range(lists.breakpoints) : m \in b.re
    IN  /\ arrival' = [due |-> {a.id : a \in {x \in Range(lists.autocmds) : m \in x.re}},
                       broke |-> broke]
        /\ stop' = (stop \/ broke \/ ~seen)
        /\ skip' = (FilterMatch(lists.filters, m) /\ ~broke)

Message(m) ==
    /\ phase = "idle" /\ ~exit /\ connected
    /\ "interactive" \in Range(passes)
    /\ phase' = "autocmds" /\ message' = m
    /\ seen' = TRUE /\ asked' = (asked \/ ~seen)
    /\ Arrive(m)
    /\ cursor' = IF lists.autocmds = <<>> THEN AtEnd ELSE Head(lists.autocmds).id
    /\ ran' = <<>>
    /\ UNCHANGED <<settings, exit, connected, last, asker>>

\* The autocmd behind the one at cursor, in the list as the command left it.
Following(list) ==
    LET i == SelectInSeq(list, LAMBDA a : a.id = cursor)
    IN  IF i = Len(list) THEN AtEnd ELSE list[i + 1].id

\* Mutant of Advance: the loop starts anew when the list has changed.
AdvanceAnew ==
    cursor' = IF lists'.autocmds # lists.autocmds /\ lists'.autocmds # <<>>
                 THEN Head(lists'.autocmds).id ELSE Following(lists'.autocmds)

Advance == cursor' = Following(lists'.autocmds)

\* One turn of the loop over the autocmds.  The loop reads the link of the
\* element it is at when the command has run; what the command returns is not
\* looked at.
RunAutocmd ==
    /\ phase = "autocmds" /\ cursor # AtEnd
    /\ LET ac == lists.autocmds[SelectInSeq(lists.autocmds, LAMBDA a : a.id = cursor)]
           matches == message \in ac.re
           c == IF matches THEN ac.cmd ELSE None
       IN  /\ Apply(c)
           /\ ran' = IF matches THEN Append(ran, ac.id) ELSE ran
           /\ IF EndsProcess(c)
                 THEN phase' = "left" /\ UNCHANGED <<exit, asker, cursor>>
              ELSE IF cursor \notin Ids(lists'.autocmds)
                 THEN phase' = "undefined" /\ UNCHANGED <<exit, asker, cursor>>
              ELSE /\ Advance
                   /\ IF c.op = "quit" THEN Quit("autocmds", "autocmds")
                                       ELSE UNCHANGED <<phase, exit, asker>>
    /\ UNCHANGED <<seen, connected, last, message, skip, arrival>>

\* The autocmds are through: nothing of the loop is looked at any more.
EndLoop ==
    /\ message' = "none" /\ skip' = FALSE /\ cursor' = AtEnd
    /\ arrival' = NoArrival /\ ran' = <<>>

\* Mutant of ProcessMessage: the stop flag is not reset.
ProcessMessageStops ==
    /\ phase = "autocmds" /\ cursor = AtEnd
    /\ phase' = IF ~skip /\ stop THEN "query" ELSE "idle"
    /\ asked' = IF ~skip /\ stop THEN FALSE ELSE asked
    /\ EndLoop
    /\ UNCHANGED <<settings, stop, seen, exit, connected, last, asker>>

\* process_message, if the message is not skipped.
ProcessMessage ==
    /\ phase = "autocmds" /\ cursor = AtEnd
    /\ IF ~skip /\ stop
          THEN phase' = "query" /\ stop' = FALSE /\ asked' = FALSE
          ELSE phase' = "idle" /\ UNCHANGED <<stop, asked>>
    /\ EndLoop
    /\ UNCHANGED <<settings, seen, exit, connected, last, asker>>

-----------------------------------------------------------------------------
(* The prompt. *)

\* handle_sigint
Interrupt ==
    /\ phase = "idle" /\ ~exit
    /\ phase' = "query"
    /\ UNCHANGED <<settings, stop, seen, exit, connected, last, loop, asker, asked>>

\* query_user: a line is read and its command run.
Command(line) ==
    /\ phase = "query" /\ ~exit
    /\ last' = IF line.op = "" THEN last ELSE line
    /\ LET c == IF line.op = "" THEN last ELSE line
       IN  /\ Apply(c)
           /\ IF EndsProcess(c) THEN phase' = "left" /\ UNCHANGED <<exit, asker>>
              ELSE IF c.op = "quit" THEN Quit("query", "idle")
              ELSE /\ phase' = IF c.op \in {"next", "continue"} THEN "idle" ELSE "query"
                   /\ UNCHANGED <<exit, asker>>
    /\ UNCHANGED <<seen, connected, loop>>

\* The input has ended: query_user quits.
EndOfInput ==
    /\ phase = "query" /\ ~exit
    /\ Quit("query", "idle")
    /\ UNCHANGED <<settings, stop, seen, connected, last, loop, asked>>

\* An autocmd has quit: the query ends before it asks.
QueryEnds ==
    /\ phase = "query" /\ exit
    /\ phase' = "idle"
    /\ UNCHANGED <<settings, stop, seen, exit, connected, last, loop, asker, asked>>

\* cmd_quit: the answer is "y", another one, an empty line, for which a whole
\* line more is read, or the end of the input.
Answer ==
    /\ phase = "confirm"
    /\ \/ exit' = TRUE /\ phase' = IF asker = "query" THEN "idle" ELSE asker
       \/ phase' \in {asker, "discard", "stuck"} /\ UNCHANGED exit
    /\ UNCHANGED <<settings, stop, seen, connected, last, loop, asker, asked>>

Discard ==
    /\ phase = "discard"
    /\ phase' \in {asker, "stuck"}
    /\ UNCHANGED <<settings, stop, seen, exit, connected, last, loop, asker, asked>>

-----------------------------------------------------------------------------
(* The main loop around the pass (module MainLoop). *)

Connect ==
    /\ phase = "idle" /\ ~exit /\ ~connected
    /\ connected' = TRUE
    /\ UNCHANGED <<phase, settings, stop, seen, exit, last, loop, asker, asked>>

\* The exit flag is set or the last connection ends.
Leave ==
    /\ phase = "idle" /\ (exit \/ connected)
    /\ phase' = "left"
    /\ UNCHANGED <<settings, stop, seen, exit, connected, last, loop, asker, asked>>

Next ==
    \/ \E m \in Messages : Message(m)
    \/ RunAutocmd \/ ProcessMessage
    \/ Interrupt \/ \E line \in Commands : Command(line)
    \/ EndOfInput \/ QueryEnds \/ Answer \/ Discard
    \/ Connect \/ Leave

Spec == Init /\ [][Next]_vars

-----------------------------------------------------------------------------
(* Properties. *)

TypeOK ==
    /\ phase \in Phase
    /\ DOMAIN lists = Kind /\ nextId \in [Kind -> Nat]
    /\ \A k \in Kind :
          /\ lists[k] \in Seq(Range(lists[k]))
          /\ Ids(lists[k]) \subseteq 0 .. nextId[k] - 1 /\ nextId[k] <= MaxIds[k]
    /\ {stop, seen, exit, connected, skip, asked} \subseteq BOOLEAN
    /\ message \in Messages \cup {"none"}
    /\ cursor \in 0 .. AtEnd
    /\ asker \in {"query", "autocmds"}

\* An id names one filter, breakpoint or autocmd, however many were made and
\* deleted before: "delete ID" takes away the one that "info" showed.
UniqueIds ==
    \A k \in Kind : \A i, j \in DOMAIN lists[k] :
       lists[k][i].id = lists[k][j].id => i = j

\* Filters accumulate (filters.c:122): with showonly filters alone a message is
\* hidden when it matches none, with hide filters alone when it matches any,
\* and in a mixture a message that only filters of one sort match is theirs.
\* Which wins over a message that filters of both sorts match is not said here.
FiltersAccumulate ==
    \A m \in Messages :
       LET shows == {f \in Range(lists.filters) : f.show}
           hides == Range(lists.filters) \ shows
           shown == \E f \in shows : m \in f.re
           hid == \E f \in hides : m \in f.re
       IN  /\ hid /\ ~shown => FilterMatch(lists.filters, m)
           /\ shown /\ ~hid => ~FilterMatch(lists.filters, m)
           /\ ~shown /\ ~hid => (FilterMatch(lists.filters, m) <=> shows # {})

\* When the loop is through, every autocmd that was there for the message when
\* it came, and still is, has been run for it, and none twice, whatever the
\* commands that ran did to the list.
AutocmdsRun ==
    phase = "autocmds" /\ cursor = AtEnd =>
       /\ arrival.due \cap Ids(lists.autocmds) \subseteq Range(ran)
       /\ IsInjective(ran)

\* A message that hits a breakpoint does not pass without a prompt, even if a
\* filter hides it or an autocmd deletes the breakpoint or hides more.
BreakpointStops ==
    [][phase = "autocmds" /\ phase' = "idle" => ~arrival.broke]_vars

\* There is a prompt for a message when one was asked for and only then: by
\* the first message, by "next" since the last prompt for a message, or by a
\* breakpoint.
StopsWhenAsked ==
    [][phase = "autocmds" /\ cursor = AtEnd /\ phase' # phase
         => (phase' = "query" <=> ~skip /\ (asked \/ arrival.broke))]_vars
=============================================================================
