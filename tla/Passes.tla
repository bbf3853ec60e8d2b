------------------------------- MODULE Passes -------------------------------
(***************************************************************************)
(* From the command line to the pipeline: the options (src/getopt.c), the  *)
(* split of the rest into passes and their loading (src/passes.c), the     *)
(* passes that come with wldbg (src/list-pass.c, passes/dump.c and         *)
(* example.c), the ones wldbg inserts itself, and "pass add" and "pass     *)
(* remove" at the prompt (src/interactive/pass.c).                         *)
(*                                                                         *)
(* A word of the command line is the sequence of its parts between commas: *)
(* "x" is <<"x">>, "x," is <<"x", "">> and "," alone <<"", "">>.  An       *)
(* option is a word of OptionWords, however it was abbreviated.            *)
(***************************************************************************)
EXTENDS Naturals, Sequences, SequencesExt, FiniteSets

CONSTANTS
    CommandLines,  \* the command lines to start wldbg with
    Where,         \* Where[n]: the directories with n.so, by their place in the search
    Once,          \* names of the passes with WLDBG_PASS_LOAD_ONCE
    Fallible,      \* names of passes from elsewhere, whose init may fail at will
    Existing,      \* files there may be before wldbg starts, by name
    MaxCommands    \* bound: "pass" commands at the prompt

Help == <<"--help">>
Interactive == <<"--interactive">>
ServerMode == <<"--server-mode">>
WholeBuffer == <<"--pass-whole-buffer">>
ObjInfo == <<"--objinfo">>
Unknown == <<"--unknown">>
OptionWords == {Help, Interactive, ServerMode, WholeBuffer, ObjInfo, Unknown}

Dashes == <<"--">>
Comma == <<"", "">>

Hardcoded == {"list", "resolve", "interactive", "objinfo"}

\* A word has a part at least.
Word == Seq(STRING) \ {<<>>}

ASSUME PassesAssumption ==
    /\ Hardcoded \cap DOMAIN Where = {}
    /\ Fallible \subseteq DOMAIN Where \ {"dump", "example"}
    /\ \A n \in DOMAIN Where : Where[n] \subseteq Nat /\ IsFiniteSet(Where[n])
    /\ MaxCommands \in Nat
    /\ CommandLines \subseteq Seq(Word)

VARIABLES
    phase,    \* see Phase
    argv,     \* the words load_passes gets, as it leaves them
    at,       \* the place in argv it is at (argc - rest)
    opts,     \* options on the command line
    passes,   \* wldbg->passes: names
    created,  \* pass_created, or the 1 of server mode
    program,  \* opts->path and opts->argv
    libs,     \* libraries the linker holds: <<directory, name>>
    files,    \* names of the files there are
    exit,     \* wldbg->flags.exit
    commands, \* "pass" commands so far
    words,    \* history: argv as it was given
    tried,    \* history: what load_passes took for a pass and its arguments so far
    refused   \* history: an init has failed; tried ends there

start == <<opts, words>>
load == <<argv, at, created, program, exit, tried, refused>>
vars == <<phase, start, load, passes, libs, files, commands>>

(***************************************************************************)
(* "options": main has the command line; "loading": in load_passes;        *)
(* "loaded": parse_opts is about to return; "running": in wldbg_run;       *)
(* "undefined": wldbg_destroy uses a pass that was freed, or strdup NULL.  *)
(***************************************************************************)
Phase == {"options", "loading", "loaded", "running", "exited", "undefined"}

Init ==
    /\ phase = "options"
    /\ argv \in CommandLines /\ words = argv /\ at = 1
    /\ files \in SUBSET Existing
    /\ opts = {} /\ passes = <<"resolve">> /\ created = 0 /\ program = <<>>
    /\ libs = {} /\ exit = FALSE /\ commands = 0 /\ tried = <<>> /\ refused = FALSE

-----------------------------------------------------------------------------
(* The pipeline. *)

\* Mutant of Insert: at the head.
InsertFirst(list, x) == <<x>> \o list

\* wl_list_insert(wldbg->passes.next, ...): behind the first pass.
Insert(list, x) == IF list = <<>> THEN <<x>> ELSE <<Head(list), x>> \o Tail(list)

\* How many passes run_passes runs for a message, of those that come with wldbg
\* the interactive one alone stops it.
Served(list) ==
    LET stop == SelectInSeq(list, LAMBDA n : n = "interactive")
    IN  IF stop = 0 THEN Len(list) ELSE stop

-----------------------------------------------------------------------------
(* Finding a pass and calling its init. *)

\* Mutant of Found: a pass that was loaded is taken again.
FoundAgain(name) == Where[name]

\* The directories from which load_pass takes the library.
Found(name) == {d \in Where[name] : name \in Once => <<d, name>> \notin libs}

\* create_pass finds a pass of that name.
Creates(name) ==
    name = "list" \/ (name \in DOMAIN Where /\ Found(name) # {})

\* ... in the first directory that has it.
Opened(name) == IF name = "list" THEN libs ELSE libs \cup {<<Min(Found(name)), name>>}

\* "to-file" among the arguments that start at the i-th word of line: the word
\* behind the last one is the file, be it an argument or not (dump_init).
ToFile(line, i, n) == {k \in i + 1 .. i + n - 1 : line[k] = <<"to-file">>}

(***************************************************************************)
(* The outcomes of pass_init with n words of line from the i-th on, no     *)
(* words at all at the prompt.  The init functions of dump and example     *)
(* fail without memory, that of dump when open() fails: always for a file  *)
(* that exists (O_EXCL), is missing in the line or has no name, else for   *)
(* any reason.                                                             *)
(***************************************************************************)
Outcomes(name, line, i, n) ==
    LET to_file == ToFile(line, i, n)
        at_file == Max(to_file) + 1
        new == at_file <= Len(line) /\ line[at_file] \notin files \cup {<<"">>}
    IN  CASE name = "list" -> {"exits"}
          [] name = "dump" /\ to_file # {} -> {"fails"} \cup {o \in {"opens"} : new}
          [] name \in Fallible \cup {"dump", "example"} -> {"fails", "succeeds"}
          [] OTHER -> {"succeeds"}

-----------------------------------------------------------------------------
(* parse_opts *)

\* get_opts: the options end at the first word that is none; "--" there is
\* skipped.
Options(line) ==
    LET end == Min({Len(line) + 1} \cup {i \in DOMAIN line : line[i] \notin OptionWords})
    IN  [set |-> {line[i] : i \in 1 .. end - 1},
         rest |-> SubSeq(line, IF end <= Len(line) /\ line[end] = Dashes
                                  THEN end + 1 ELSE end, Len(line))]

(***************************************************************************)
(* interactive_init: the pass goes to the end.  It cannot be used with the *)
(* whole buffer; on its way out it frees the pass, which is in the         *)
(* pipeline by then, and wldbg_destroy comes across it.                    *)
(***************************************************************************)
InteractiveInit ==
    /\ passes' = Append(passes, "interactive")
    /\ phase' = IF WholeBuffer \in opts' THEN "undefined" ELSE "loaded"

ParseOpts ==
    /\ phase = "options"
    /\ LET o == Options(argv)
       IN  /\ opts' = o.set /\ argv' = o.rest /\ words' = o.rest
           /\ CASE Help \in o.set \/ (Interactive \in o.set /\ o.rest = <<>>) ->
                     phase' = "exited" /\ UNCHANGED <<passes, program, created>>
                [] Interactive \in o.set /\ Help \notin o.set /\ o.rest # <<>> ->
                     InteractiveInit /\ program' = o.rest /\ UNCHANGED created
                [] ServerMode \in o.set /\ {Help, Interactive} \cap o.set = {} ->
                     \* server_mode_init (module ServerSockets) may fail
                     \/ phase' = "exited" /\ UNCHANGED <<passes, program, created>>
                     \/ InteractiveInit /\ created' = 1 /\ UNCHANGED program
                [] OTHER ->
                     phase' = "loading" /\ UNCHANGED <<passes, program, created>>
    /\ UNCHANGED <<at, libs, files, exit, commands, tried, refused>>

-----------------------------------------------------------------------------
(* load_passes *)

\* Mutant of CountArgs: a word that ends in a comma is not counted.
CountArgsShort ==
    LET ends == {k \in at .. Len(argv) : argv[k] = Dashes \/ Len(argv[k]) > 1}
    IN  IF ends = {} THEN Len(argv) - at + 1 ELSE Min(ends) - at

\* count_args: up to "--", "," or a word with a comma in it, that included.
CountArgs ==
    LET ends == {k \in at .. Len(argv) : argv[k] = Dashes \/ Len(argv[k]) > 1}
    IN  IF ends = {} THEN Len(argv) - at + 1
        ELSE Min(ends) - at + (IF argv[Min(ends)] \in {Dashes, Comma} THEN 0 ELSE 1)

\* strrchr: the word up to its last comma.
Cut(word) == IF Len(word) > 1 THEN Front(word) ELSE word

\* "--": the rest is the program, which must be there.
Program ==
    /\ phase = "loading" /\ at <= Len(argv) /\ CountArgs = 0 /\ argv[at] = Dashes
    /\ program' = SubSeq(argv, at + 1, Len(argv))
    /\ phase' = IF at = Len(argv) THEN "undefined" ELSE "loaded"
    /\ UNCHANGED <<start, argv, at, created, exit, tried, refused, passes, libs, files, commands>>

\* Mutant of Skip: the comma stays.
SkipNot ==
    /\ phase = "loading" /\ at <= Len(argv) /\ CountArgs = 0 /\ argv[at] = Comma
    /\ UNCHANGED vars

Skip ==
    /\ phase = "loading" /\ at <= Len(argv) /\ CountArgs = 0 /\ argv[at] = Comma
    /\ at' = at + 1
    /\ UNCHANGED <<phase, start, argv, created, program, exit, tried, refused, passes, libs, files, commands>>

\* Mutant of Past: the word behind the arguments is skipped too.
PastOneMore(i, n) == i + n + 1

\* rest -= count
Past(i, n) == i + n

(***************************************************************************)
(* A pass and its arguments.  When its init fails they are not stepped     *)
(* over: the next turn comes here again, without the comma.                *)
(***************************************************************************)
LoadPass ==
    /\ phase = "loading" /\ at <= Len(argv) /\ CountArgs > 0
    /\ LET n == CountArgs
           line == [argv EXCEPT ![at + n - 1] = Cut(@)]
           args == SubSeq(line, at, at + n - 1)
           name == IF Len(args[1]) = 1 THEN args[1][1] ELSE ""
           tells == [args |-> args, name |-> name, made |-> Creates(name)]
       IN  /\ argv' = line /\ tried' = IF refused THEN tried ELSE Append(tried, tells)
           /\ IF Creates(name)
              THEN /\ libs' = Opened(name)
                   /\ exit' = (exit \/ (name = "dump" /\ <<"help">> \in Range(Tail(args))))
                   /\ \E outcome \in Outcomes(name, line, at, n) :
                         /\ phase' = IF outcome = "exits" THEN "exited" ELSE phase
                         /\ files' = IF outcome = "opens"
                                        THEN files \cup {line[Max(ToFile(line, at, n)) + 1]}
                                        ELSE files
                         /\ IF outcome \in {"fails", "exits"}
                            THEN /\ refused' = (refused \/ outcome = "fails")
                                 /\ UNCHANGED <<passes, created, at>>
                            ELSE /\ passes' = Insert(passes, name)
                                 /\ created' = created + 1 /\ at' = Past(at, n)
                                 /\ UNCHANGED refused
              ELSE /\ at' = Past(at, n)
                   /\ UNCHANGED <<phase, libs, exit, files, passes, created, refused>>
    /\ UNCHANGED <<start, program, commands>>

NoneLeft ==
    /\ phase = "loading" /\ at > Len(argv)
    /\ phase' = "loaded"
    /\ UNCHANGED <<start, load, passes, libs, files, commands>>

-----------------------------------------------------------------------------
(* main, and the prompt. *)

\* The end of parse_opts and what main does with it: nothing was loaded, objinfo
\* is added, a pass has asked for the exit.
Begin ==
    /\ phase = "loaded"
    /\ LET none == created = 0 /\ {Interactive, ServerMode} \cap opts = {}
       IN  /\ passes' = IF ~none /\ ObjInfo \in opts THEN Insert(passes, "objinfo") ELSE passes
           /\ phase' = IF none \/ exit THEN "exited" ELSE "running"
    /\ UNCHANGED <<start, load, libs, files, commands>>

Prompts == phase = "running" /\ {Interactive, ServerMode} \cap opts # {} /\ commands < MaxCommands

\* "pass add": the init function gets no arguments.
AddPass(name) ==
    /\ Prompts /\ commands' = commands + 1
    /\ IF Creates(name)
       THEN /\ libs' = Opened(name)
            /\ \E outcome \in Outcomes(name, <<>>, 1, 0) :
                  /\ phase' = IF outcome = "exits" THEN "exited" ELSE phase
                  /\ passes' = IF outcome = "succeeds" THEN Insert(passes, name) ELSE passes
       ELSE UNCHANGED <<phase, libs, passes>>
    /\ UNCHANGED <<start, load, files>>

\* "pass remove": the first of that name; its library stays.
RemovePass(name) ==
    /\ Prompts /\ commands' = commands + 1
    /\ passes' = RemoveFirst(passes, name)
    /\ UNCHANGED <<phase, start, load, libs, files>>

Leave ==
    /\ phase = "running" /\ phase' = "exited"
    /\ UNCHANGED <<start, load, passes, libs, files, commands>>

Names == Hardcoded \cup DOMAIN Where

Load == ParseOpts \/ Program \/ Skip \/ LoadPass \/ NoneLeft \/ Begin

Next == Load \/ (\E n \in Names : AddPass(n) \/ RemovePass(n)) \/ Leave

Spec == Init /\ [][Next]_vars

\* main is one thread that nothing stops before wldbg_run.
FairSpec == Spec /\ WF_vars(Load)

-----------------------------------------------------------------------------
(* Properties. *)

TypeOK ==
    /\ phase \in Phase /\ at \in 1 .. Len(argv) + 1 /\ Len(argv) = Len(words)
    /\ opts \subseteq OptionWords /\ exit \in BOOLEAN /\ refused \in BOOLEAN
    /\ Range(passes) \subseteq Names \ {"list"} /\ commands \in 0 .. MaxCommands
    /\ \A lib \in libs : lib[2] \in DOMAIN Where /\ lib[1] \in Where[lib[2]]

\* The command line as README.md:25 writes it, "pass1 ARGUMENTS, pass2 ARGUMENTS
\* -- wayland-client": the program is behind the first "--", the passes with their
\* arguments in front of it.
DashesAt == SelectInSeq(words, LAMBDA w : w = Dashes)
PassLine == IF DashesAt = 0 THEN words ELSE SubSeq(words, 1, DashesAt - 1)
ProgramLine == IF DashesAt = 0 THEN <<>> ELSE SubSeq(words, DashesAt + 1, Len(words))

\* Commas stand at the ends of words or alone only.
Proper == \A i \in DOMAIN PassLine : Tail(PassLine[i]) \in {<<>>, <<"">>}

\* A comma ends the arguments of a pass, if there is one.
Close(r) == IF r.open = <<>> THEN r
            ELSE [closed |-> Append(r.closed, r.open), open |-> <<>>]

\* What is read so far of the passes: those that a comma has ended, each a sequence
\* of arguments, and the one that is open; and the next word of a proper line.
NothingRead == [closed |-> <<>>, open |-> <<>>]

ReadWord(r, word) ==
    LET more == IF word = Comma THEN r
                ELSE [closed |-> r.closed, open |-> Append(r.open, <<word[1]>>)]
    IN  IF Len(word) = 1 THEN more ELSE Close(more)

Read[k \in 0 .. Len(PassLine)] ==
    IF k = 0 THEN NothingRead ELSE ReadWord(Read[k - 1], PassLine[k])

AskedFor == Close(Read[Len(PassLine)]).closed

\* The passes found of those that were tried, the last one first.
LastFirst(tries) ==
    LET piled[k \in 0 .. Len(tries)] ==
          IF k = 0 THEN <<>>
          ELSE IF tries[k].made THEN <<tries[k].name>> \o piled[k - 1] ELSE piled[k - 1]
    IN  piled[Len(tries)]

\* As long as no init has failed, and unless there is a comma within a word
\* (count_args takes it for the end, and what is behind it is lost), every pass
\* is tried in turn with exactly the arguments it was given, those found are in
\* the pipeline behind "resolve", the last one first, and the program is what
\* stands behind "--" (load_passes).
LoadedAsAsked ==
    (phase \in {"loading", "loaded"} /\ {Interactive, ServerMode} \cap opts = {}
     /\ ~refused /\ Proper) =>
       /\ IsPrefix([k \in DOMAIN tried |-> tried[k].args], AskedFor)
       /\ passes = <<"resolve">> \o LastFirst(tried)
       /\ phase = "loaded" => Len(tried) = Len(AskedFor) /\ program = ProgramLine

\* As long as "resolve" is in the pipeline it is the first, so that every other
\* pass gets messages resolved, and every pass is run: none was put behind the
\* interactive one (interactive.c:231 promises the latter without the condition,
\* but "pass add" inserts behind the first pass, whichever that is).
AllServed ==
    "resolve" \in Range(passes) => Head(passes) = "resolve" /\ Served(passes) = Len(passes)

\* A pass that is to be loaded once is in the pipeline once, however often it is
\* named, fails, is removed and added again; unless it lies in two directories,
\* as load_pass knows a pass by its file.
LoadedOnce ==
    \A n \in Once \cap DOMAIN Where : Cardinality(Where[n]) = 1 =>
       Cardinality({i \in DOMAIN passes : passes[i] = n}) <= 1

\* Loading comes to an end for every command line, unless the init function of
\* a pass fails: load_passes calls it again and may do so for ever.
Settles == phase = "options" ~> phase \in {"running", "exited", "undefined"} \/ refused
=============================================================================
