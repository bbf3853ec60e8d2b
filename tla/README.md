# A TLA+ model of wldbg

wldbg stands between a Wayland client and the compositor. It reads what either
side writes, cuts it into messages, hands each message to a pipeline of passes
(one of which may be an interactive debugger) and writes it on to the other
side. This directory holds a model of that program: TLA+ modules translated
from its source, TLC configurations that check them on small instances, and
proofs that TLAPS checks for every value of the constants.

`PROJECT.json` gives, for every definition, the lines of source it stands for,
and for every property a mutated definition that breaks it.

    tlc -config relay.cfg MCRelay       check a run (module and cfg as listed below)
    tlapm RelayProofs.tla               check proofs

## The system

One process, one thread. `main` takes the command line apart, loads passes and
starts the client (or waits for clients); `wldbg_run` calls `wldbg_dispatch`
until it returns 0 or less or a flag is set; each dispatch takes one epoll event
and runs one callback to its end, a prompt to the user included. So the
concurrency is that of the environment: clients, compositor, kernel, signals,
the user, and other instances of wldbg.

| component | state | operations | module |
|---|---|---|---|
| connection data path (`wldbg.c`, `wayland/connection.c`, `edit.c`, `send.c`) | `wldbg->buffer`, `message`, in and out rings, sockets | `dispatch_messages`, `process_data`, `process_one_by_one`, `wl_connection_read/write/flush`, edit, send | `Relay`, with `Pipe` above it |
| rings and descriptors (`wayland/connection.c`) | the memory and counters of four rings, the descriptors in them | put, copy, iovecs, `wl_connection_copy_fds`, `build_cmsg`, `close_fds`, destroy | `Ring`, `Rings` |
| main loop and life cycle (`wldbg.c`, `loop.c`) | `flags`, `connections`, `connections_num`, `monitored_fds`, the epoll set, signals | start, spawn, accept, dispatch, remove, signals, destroy | `MainLoop` |
| server-mode sockets (`sockets.c`, `wldbg.c`) | two names in `XDG_RUNTIME_DIR`, a lock file | rename, bind, lock, unlink, rename back | `ServerSockets` |
| options and pass loading (`getopt.c`, `passes.c`, `list-pass.c`, the `init`s in `passes/`) | the options, the words still to be read, the pipeline, the libraries loaded | `get_opts`, `load_passes`, `create_pass`, `load_pass`, pass add and remove | `Passes` |
| object resolution (`resolve-pass.c`, `resolve.c`, `wldbg-ids-map.c`) | per connection two tables id → interface | `resolve_in`, `resolve_out`, insert, get | `Resolver`, `IdsMap` |
| message parser (`parse-message.c`) | an iterator over the arguments | header, next argument | `ParseMessage` |
| printing (`print.c`) | none | what is said of an object and of each argument | `Printing` (partly: names and layout are left out) |
| object information (`objinfo*`, `objinfo-info.c`) | per object a record of what was said of it | one handler per interface, the listing, the destruction | `ObjInfo` |
| interactive pass (`interactive/`) | filters, breakpoints, autocmds, `stop`, the pipeline | `process_interactive`, `query_user`, `handle_sigint`, the commands | `Interactive` |
| shipped passes (`passes/dump.c`, `example.c`) | dump's file | init | `Passes` (partly: what they print is left out) |
| listings (`info.c`), debug output | none | | not modelled: they print |
| vendored wayland, protocol tables, tests | | | not modelled |

How they meet: epoll (MainLoop) calls `dispatch_messages` (Relay) for a
connection, which moves bytes and descriptors from ring to ring (Rings) and runs
the passes on each message: first the resolve pass (Resolver), then those loaded
(Passes), objinfo (ObjInfo) among them, last the interactive one (Interactive).
What a pass leaves behind comes back as flags, which end the loop (MainLoop's
`Relayed`, Interactive's `Leave`), as an edited message (Relay's `Edit`) or as
an injected one (Relay's `UserSend`, Rings' `Inject`). In server mode the sockets
(ServerSockets) are set up before the loop and taken down by `wldbg_destroy`.
ObjInfo, Printing, ParseMessage and Resolver are composed by EXTENDS: one
behaviour is that of two peers and all that wldbg makes of what they say. The
other modules keep the part of the others they need as nondeterministic steps:
MainLoop's `Relayed(fd)` may set any flags, Relay's `Quit` may happen at any
message, Interactive's `Connect` and `Leave` stand for the loop, Rings'
`Forward` takes a message of any size.

What is hard in this program:

- a stream is cut twice, by reads and by message headers, in places that need
  not agree, while edits change the size and a flush may stop half way;
- descriptors travel beside the words, in rings of their own, and only their
  order says which message they belong to;
- two fds belong to one connection, either may hang up first, and the count of
  connections decides whether the process goes on;
- the names in the file system are shared with the compositor and with other
  instances, changed call by call, and a kill can come between two calls;
- ids are reused while messages about the old object still travel the other
  way, and wldbg sees both directions at a time of its own; records point at
  each other by such ids;
- commands run automatically change the list they are run from;
- the words of a command line are eaten in place, and a step that fails leaves
  them half eaten.

`hazards` in `PROJECT.json` lists them one by one, at their lines.

## The modules

**Relay** (one connection). The unit is the 32-bit word; a word knows the
message it belongs to, so that a property can tell whether it arrived, where
and in what order. `inq`, `outq` are the sockets, `out` the ring of the
`wl_connection` written to, `todo` the unprocessed rest of `wldbg->buffer`,
`from` is `message->from`. The in ring is left out: `wl_connection_read`
empties the socket into it and `process_data` consumes all of it in the same
dispatch, so it is empty between two (Rings has it). One `Read` is one
`recvmsg`; one `PassOn` or `Edit` is one turn of `process_one_by_one` with its
write and flush, `Forward`; a flush refused by the socket (EAGAIN and EPIPE are
treated alike by the code) leaves the connection `gone`. `Torn` is the point
where the code reads a header that is not there or runs past the data; what
follows is undefined, and the model stops. `whole` is `pass_whole_buffer`,
chosen in `Init`. `touched` is a history of the ways a stream was tampered with,
so that each property says what it says of exactly the streams it should.

**Pipe** is the promise: two pipes. `Relay!PipeSpec` maps `tampered[s]` to
`touched[s] # {}`; `sent` and `got` are the same.

**Ring** is `wl_buffer` as operators: free-running counters of limited width,
masked at each use, puts and copies in one part or two, the iovecs a read or a
flush goes through. **Rings** is one direction of a connection on four such
rings: `Receive` is `wl_connection_read`, `CopyFds` `wl_connection_copy_fds`,
`Forward` a turn of `process_one_by_one`, `Flush` the loop of
`wl_connection_flush`, `Teardown` the destruction. Words and descriptors are
numbered as the peer writes them; in the socket from A each word carries the
descriptors that ride on it, in `toB` each says how many had been sent by then,
which is how `FdsInTime` can say when each has come. What is read behind the end
of a ring is `Garbage`.

**MainLoop** (the process). One action is one `wldbg_dispatch` with the test
`wldbg_run` makes of its result (`LoopTest`). `struct` is the memory of each
connection, `callbacks` is `monitored_fds`, `watched` the epoll set, from which
the kernel drops fds that are closed. `mode` is chosen in `Init`: passes,
interactive, server. Where the code uses memory it has freed, or takes one
structure for another, `phase` becomes `"undefined"` and `fault` says why
(`SpawnHalf`, `AcceptFails`, `Prompt` with a connection that is gone).

**ServerSockets** (several instances). One action is one system call. Without
an address wldbg renames the compositor's socket and binds its own; with one it
binds, then locks. `Calm` (no overlap, no kill) is what the instances without
an address stand; `mixed` and `killed` are histories that record when it ends.

**Passes** (one run of `main`, up to the prompt). A word of the command line is
the sequence of its parts between commas, which is all `count_args` and the cut
at the last comma see. `ParseOpts` is `parse_opts` with the branches of `main`;
`Program`, `Skip`, `LoadPass` are the three cases of a turn of `load_passes`,
which changes `argv` as it goes; `Outcomes` is what an init function may do:
succeed, fail, open a file, end the process. dump and example may fail for want
of memory, dump also because `open` fails, for a file that is not there as well
as for one that is. `Begin` is what `main` does with
what was loaded, `AddPass` and `RemovePass` the commands. `AskedFor` and
`ProgramLine` are the reading of the command line the README of wldbg describes,
word by word (`Read`); `LoadedAsAsked` compares the two. `"undefined"` is a use of a freed pass or of a NULL path.

**IdsMap** is the growing array. **Resolver** puts the resolve pass between a
client and a compositor that make objects by request, by bind and by event,
destroy them, release ids with `delete_id` and use them again. Messages are
their words: the pass finds the new id by walking the signature over the data,
as the code does. `client` and `server` are the two ends' own views of the ids.
Opcodes and sequences count from 1. **ParseMessage** steps over the arguments of
a resolved message as `wldbg_resolved_message_next_argument` does; **Printing**
says what is printed of an object and of each argument, with `Meant`, what the
sender put there, to compare it with.

**ObjInfo** is the pass behind the resolve pass: `info[id]` is the record an id
leads to, `Gather` the handler the interface chooses, `Show` the listing. A
record is what tells ids apart: of a surface the buffer and the callback pending
and committed, of an xdg_surface its surface and the ring of configures, of a
seat whether it has a name. `account` is what the two peers would say of their
objects; `Lost` in it is an object that was destroyed while another still
names it.

**Interactive**. A regular expression or a condition of a breakpoint is the set
of messages it holds for; a name longer than the 128 bytes the code reserves
does not occur in the protocols wldbg loads. `Message` is `process_interactive`
up to the loop over the autocmds, `RunAutocmd` one turn of it, `ProcessMessage`
the rest; `Command`, `EndOfInput`, `Answer`, `Discard` are the prompt.
`phase = "undefined"` is an autocmd that deletes itself, `"stuck"` the loop in
`cmd_quit` at the end of the input. `flags.running` is set whenever the pass
can run, so the branch of `next` and `continue` for a client that is not
running is never taken and left out; nothing sets `skip_first_query`. Here the
libraries behind `pass add` are left to Passes: any name is found.

Modules named `MC*` instantiate a module for TLC, `*Proofs` hold its theorems.

## The runs

| run | instance | shows |
|---|---|---|
| `relay` | messages of 2 and 3 words, 5 words one way and 3 the other, 2 injected messages, rings and buffer of 3 words, sockets of 4, both values of `pass_whole_buffer` | `TypeOK`, `Transparent`, the refinement of `Pipe`, `StreamsFramed`, `SendKeepsStream`, `EditInPlace` |
| `relay_live` | 5 words each way, one injected message, ring 4, socket 5, fair | `MessagesArrive`: words arrive or the connection ends; what is injected leaves with the next traffic |
| `relay_torn` | ring of 3, two messages of 3 and 2 words | violated: `LoopEndsAtTheEnd` |
| `rings` | rings of 3 whose counters wrap at 6, socket of 3, 6 words, 4 descriptors, at most 2 in a message, 2 injected words | `TypeOK`, `WordsInOrder`, `FdsInTime`, `FdsAccounted` |
| `rings_fds` | rings of 4, 6 descriptors | violated: `FdsPiped` |
| `loop` | two connections, the three modes, fair | `TypeOK`, `AssertionsHold` (the count and the flags), `WatchedIsLive`, `LeavesClean`, `OthersSurvive`, `LastEnds`; `HangUpReleases`, `InterruptEnds` |
| `loop_error` | one connection | violated: `ErrorFails` |
| `sockets` | three instances, started twice each, fair | `Redirected`, `CompositorKept` (it is never lost and is put back), `DirectExclusive`, `LeavingRestores` |
| `passes` | every line of up to three words out of fourteen or of four out of thirteen, two options in any order, a file that may exist, inits that fail, four commands, fair | `TypeOK`, `LoadedAsAsked`, `AllServed`, `LoadedOnce`, `Settles` |
| `resolver_drm` | `wl_drm.create_prime_buffer` | violated: `NamesObjects` |
| `objinfo` | fifteen interfaces, five beginnings, two ids to use again, one of the compositor's, one request and two events in a queue, two configures kept | `Resolved` and `ResolvedAtRest` (the resolve pass), `PrintedAsMeant` (parser and printer), `Recorded`, `ShownAtRest`, `ShowsSafely` (records and listing), `ObjTypeOK` |
| `interactive` | 2 messages, 2 filters, 1 breakpoint, 3 autocmds, 16 commands | `UniqueIds`, `FiltersAccumulate`, `AutocmdsRun`, `BreakpointStops`, `StopsWhenAsked` |

Why the bounds are enough. In `relay` a read of 3 words cuts the message behind
one of 2; the two directions are alike in Relay, so one of them may write less; a
ring of 3 words refuses a second message until it is flushed, and the socket of 4
is full or nearly so behind one unread message: torn reads, partial flushes,
flushes before a write and refusals all occur, and a changed size puts the loop
off the boundary as well. `relay_live` has rings of 4 words and sockets of 5,
which hold more than one message, `relay_torn` 6 words to write over reads of 3.
In `rings` six words take the counters once around and every put, read and flush
lies across the end of the ring at some time; the four descriptors are one more
than a ring holds, so that the condition of `FdsInTime` is met on both sides. In
`loop` two connections are what it takes for one's end to matter to the other; a
third adds only permutations. In `sockets` three instances allow a third to come
between two that conflict, and two starts each give every instance a predecessor.
In `passes` four words are two passes with an argument each, or a pass, its comma
and another; four commands add, remove and add a pass again with one to spare. In
`objinfo` an id can be destroyed, released and used again for an object of
another kind while a message about the first is under way; two configures make a
ring that is overwritten. In `interactive` three autocmds are needed for one to
delete another while a third follows, and for an insertion behind the first that
the loop has or has not passed; two filters for both orders of every pair.
Deadlock is not checked where the program may simply end (`phase` gone, done,
left, exited; a bound reached).

Fairness. Relay: epoll is level triggered and hands ready fds out in turn, so a
side that stays readable is served however often the other one is taken (strong
fairness of `Read` and `HangUp`); passes return; a peer reads what arrives.
Nothing is assumed of peers that write or close, of the user's commands or of
signals. MainLoop: the same for hang-ups, signals and the listening socket.
ServerSockets: a process that sets up or cleans up goes on with it unless it is
killed. Passes: `main` is one thread that waits for nobody before `wldbg_run`
(weak fairness of `Load`). The other modules make no claim that needs fairness.

## What the runs refute

Each is a `findings` entry with the line of the repository it contradicts.

- A message that crosses the end of a read makes `process_one_by_one` run past
  the data (`wldbg.c:324`; the assertion is at 328, `rest` is unsigned).
- `wl_connection_copy_fds` does not mask the tail it reads at: from the 1025th
  descriptor of a connection on it passes on what lies behind the ring
  (`connection.c:432`).
- An error a pass raises while the last connection is served ends in
  `EXIT_SUCCESS` (`wldbg.c:305`).
- The version digit of a signature is counted as an argument, so the buffers of
  `wl_drm` are never named and another object may be (`resolve-pass.c:302`).

Other behaviour the models contain, which the properties except by name or which
contradicts nothing the repository states:

- *the data path*: an edit that changes the size of a message makes the loop go
  on off the boundary (Relay's `Edit("resize")`, which `Torn` ends; the
  properties speak of the stream up to there); an injected message stays in the
  ring until other traffic flushes it; `EPOLLHUP` is looked at before `EPOLLIN`,
  so what a peer wrote right before it closed is dropped (`wldbg.c:247`);
- *descriptors*: a flush that fails within `copy_fds` is ignored and the words
  go without their descriptors; `close_fds` advances the ring by all of them
  whatever it was to close at most, so that more than 28 at once are neither
  sent nor closed (one `recvmsg` does not bring more, a failed flush gathers
  them); `FdsInTime` and `FdsAccounted` except both, `FdsPiped` does not;
- *the loop*: a failing accept, a spawn that fails half way and the Ctrl-C
  prompt with a connection that is gone use memory as what it is not; only the
  callback of the fd that fired is freed, the other stays in `monitored_fds`
  until the end; the loop ends at the last hang-up with clients in the backlog;
- *sockets*: two server-mode instances without an address at one time lose the
  compositor's socket; after a kill the next one renames the dead socket over
  the compositor's (`sockets.c:302`); with an address every start after a kill
  fails to bind; between rename and bind the name is free, and a bind that fails
  there uses freed paths;
- *pass loading*: passes run in the reverse order of the command line; a pass
  whose init fails is tried again for ever, after it has lost its comma and so
  taken the next pass for arguments (`dump to-file` on a file that exists hangs
  wldbg); what follows a comma within a word is lost; `to-file` takes the word
  behind the pass's own arguments for the file; `--` with nothing behind it is
  `strdup(NULL)`; a load-once pass that lies in two directories is loaded twice,
  and none can be loaded again once it was removed; `wldbg -i
  --pass-whole-buffer` leaves a freed pass in the pipeline, which `wldbg_destroy`
  calls; a pass added after `pass remove resolve` goes behind the interactive one
  and never runs;
- *resolution*: of two new ids in one signature the position is looked up for
  the first only; an `h` argument is stepped over like a word though it is none
  on the wire, so what is printed behind it is one word off, and names a wrong
  object if there is one;
- *records*: those of seats outlive their seats, and their name is uninitialised
  until the event; a commit without an attach shows no buffer; `info objects`
  runs into an assertion for an xdg_surface whose surface was destroyed, and
  takes whatever has the id of a destroyed buffer for a buffer;
- *the prompt*: an autocmd that deletes itself is read after it is freed; `pass
  add list` ends the process; an end of input at the confirmation of `quit`
  never returns; a hide filter tried earlier wins over a later showonly one;
  `continue` at the Ctrl-C prompt does not take back a `next`.

Seen while reading and not modelled: `break client` and `break server` are
compared with a newline that the input no longer has (`breakpoints.c:169`), and
`break interface@message` cuts the last letter for the same reason (229); the
lookups of `resolve.c:86,108` add `WL_SERVER_ID_START` to an index into a table
that does not hold it, so no object of the compositor's is listed;
`wldbg_get_message_name` (`parse-message.c:263`) does not check the opcode; the
counters dump prints at its end are uninitialised (`dump.c:193`).

## The proofs

Every theorem is for arbitrary constants: any message sizes, ring and socket
sizes, any number of connections or instances, any command line, under the
modules' named assumptions, which TLC evaluates in every run. `RelayAssumption`
says that a message has at least its header's two words and fits a ring, and
that a socket holds at least a ring (which makes a flush one step);
`RingAssumption` that the counters go round the ring a whole number of times,
twice at least (2^32 is 2^20 times 4096), `RingsAssumption` that a sendmsg takes
a descriptor at least and no more than a ring holds;
`MainLoopAssumption` that the connections are finitely many; `PassesAssumption`
that a library is not named like one of the built-in passes (`create_pass` looks
at those first), that the directories searched are finitely many and that a
command line is a sequence of words of a part at least, be it an empty one;
`ObjInfoAssumption` that the protocol can be resolved (see ObjInfoProofs), read
and handled (see RecordsProofs).

**RelayProofs** proves `TypeCorrect`, `RelayIsTransparent` and
`RelayImplementsPipe`. `Transparent` is nearly inductive; `IInv` adds that the
queues are sequences (`Typing`), that each holds no more than it can (`Bounds`,
without which a partial flush could not be cut) and that `from` and `todo` fit
`phase` (`Turning`). The argument is about concatenation: every step of wldbg
moves a boundary between two neighbouring parts of `Line(s)`, and `Cut`,
`FlushAll` and `FlushPart` say that a cut and its rest make up the whole; a step
on one side leaves the other side's line alone. The refinement follows: `got`
is a prefix of `Line`, hence of `sent`.

The second half of RelayProofs proves what holds of streams that are touched:
`StreamsStayFramed`, `EditsStayInPlace` and `SendsKeepStreams`. The line from a
side is split in what has been put on its way (`Ahead`) and what is still to
come (`Behind`), and `StepMoves` shows that each step of the program moves it in
one of six ways: it stays, the peer writes a message behind it, a message is
passed on, edited, injected, or resized with an unknown part of the data. Then
each property is an invariant of the six ways. For framing that is `Framing`:
what is ahead is a row of whole messages, what is to come ends at the end of
one, and begins at the beginning of one while no size was changed; `Cutting`
adds what `phase = "runaway"` says of the read that led there. For the others
(`InPlace`, `Kept`) the line is compared with what was sent, position by
position; a word's own numbers give the position, so that no filtered sequence
has to be reasoned about.

**RingsProofs** proves all the properties of the run `rings`. It begins with the
counters: a counter of limited width moved on by at most a ring's size and then
masked is the place moved on, round the end once at most (`MaskedOn`). With it
the places of a put, a copy, a read and a flush go round the ring, one cell at a
time, and `RingIsQueue` says that a ring, whatever its two counters, is the
sequence `Contents` with puts and reads behind it and copies, flushes and
consumption in front. `Contents` needs no induction: it is a function of the
place. Then four invariants, each on top of those before. `Fit`: no ring holds
more than it can; the ring read into is empty whenever a read comes, which is
why `wl_connection_read` never finds it full, and that for descriptors to B is
empty when some are copied into it. `Numbered`: the words in A's socket are the
last it wrote, with their own descriptors. `Ordered`: outside the buffer there
is nothing of A's between two steps but what was sent, since a message is
flushed as it is written, and a ring to B holds the user's words only; so
`WordsStayInOrder`. `Piped`: descriptors sent, those in the ring the phase says
and those in the socket are one row of numbers, and every word was sent with at
least its own. It holds under `Right`, the condition of `FdsInTime`, which no
step restores once it is lost (`RightBefore`); there the unmasked tail still
points into the ring (`PointedIs`), and that every read brings one lot, of at
most `MaxFds` (`LotFew`), is why `close_fds` closes all that it drops. From it
`DescriptorsInTime` and `DescriptorsAccounted`.

**MainLoopProofs** proves all the safety and action properties of the run
`loop` (`LoopTypeCorrect`, `AssertionsDoHold`, `NoStaleEvent`, `EndsClean`,
`OthersDoSurvive`, `LastDoesEnd`). `WatchedIsLive` alone is not inductive: `IInv`
adds that nothing has happened before the loop and no flag is set in it
(`Fresh`), that the count is the size of the list (`Counted`), that exactly the
listed connections are alive (`Listed`) and that a client in the backlog has no
connection yet (`Unmade`), which removal and addition need of each other. The
lemma `Removal` is the heart: an event of either end frees the connection, and
both fds leave the epoll set.

**ServerSocketsProofs** proves all the safety properties of the run `sockets`
(`Redirects`, `KeepsCompositor`, `DirectExcludes`) and `SocketsTypeCorrect`.
Types hold unconditionally; while no instance without an address has had another
beside it, it is the only one (`Apart`), and one with an address has the name
from its bind to its unlink and the lock from lock to unlock (`DirectInv`); while
`Calm`, either the compositor has its lock and the layout of the names follows
from the one instance's `pc` (`Between`), or there is none and the names are
those instances' that are past their bind (`InPlace`).

**PassesProofs** proves all the safety properties of the run `passes`
(`ServesAll`, `LoadsOnce`, `LoadsAsAsked`, `PassesTypeCorrect`). The pipeline
changes in three ways only: the interactive pass is appended when `"resolve"` is alone,
something else is inserted behind the first pass, and the first pass of some
name is taken out. `Ordered` says where `"resolve"` and the interactive pass may
stand, and for `LoadedOnce` the invariant needs the libraries: a load-once pass
in the pipeline has had its library opened, in the one directory it lies in, and
`Found` refuses a second opening. `PassesTypeCorrect` adds that the place in the
command line is one past its end at most: `CountArgsFits` bounds what
`count_args` finds by what is left, through every cut of a comma. For
`LoadedAsAsked` the invariant `Told` says that `load_passes` is always behind
some `k` words of the line as it was given (`Follows`), though it has cut the
commas off some of them: what it has tried is what `k` words ask for, nothing is
open in front of the word it is at, and the words still to come are untouched.
What `count_args` finds is then the words that `Read` takes up to the next comma
(`CountedArgs`, `ReadAhead`), and what is read first stays the beginning of what
is asked for in the end (`ReadIsAsked`). `Read` is a recursive function; `UpTo`
does the inductions, by the least place at which a claim would fail.

**ObjInfoProofs** proves `EveryMessageResolved` and `TableRightAtRest` of the
run `objinfo`, and `ObjectsNamed`, which the run `resolver_drm` violates for a
protocol that is not `Resolvable`. That is the hypothesis, a condition on the
constant `Protocol` and part of `ObjInfoAssumption`: TLC evaluates it for the
fifteen interfaces of `objinfo`. It says what the code counts on: only
interfaces it has loaded make objects, since `resolve_out` stops at any other;
the type of a new object is in the message or named by bind (`Typed`), and
`get_new_id` finds the id whatever the other words say (`Readable`), which is
what the digit in front of `create_prime_buffer` breaks, and all it breaks; the
display never ends; and an object that ends with an event, as `wl_callback`
does, was made by the client and has no requests, or else a request about it
could cross its end. `Readable` cannot be derived from the shape of a signature
here, since `get_new_id` is a fold over it: that it holds of the signatures wldbg
meets is TLC's to say.

`Resolved` is far from inductive: an id may be destroyed, released and used
again while messages about the first object are still under way, and nothing in
the table tells the two apart. The invariant `Lives` gives each id the stage of
its life. `Asked`, `Seen`, `Known`, `Released` and `Gone` of a client's id say
where the request that makes it is, or the `delete_id` that releases it, that
there is just one of them, that no request about the id comes before the one
and no event behind the other, and what the table has for it meanwhile;
`Speaks` says where the request that destroys it is. `Vacant`, `Announced`,
`Introduced` and `Present` do that for a compositor's id, where events about
the last object may still be on their way to wldbg when the next is made:
`MadeAgain` has the table right for those in front of the making event and the
new interface right for those behind it. A queue is cut at the message that
matters (`Parts`), and the lemmas `PartsAppend` and `PartsTail` say what the
cuts of a longer or shorter queue are; `Follows` then carries everything that
is said of an id over a step that does not concern it, which leaves, for each of
the six actions, the id the message is about and the one it makes, ends or
releases. Connections that are destroyed (`Destroyed`) have nothing to resolve.
`InsertThenGet` and `EmptyGivesNull` are about the growing table alone.

**RecordsProofs** goes on from `Lives` and proves `PrintedRight`
(`PrintedAsMeant`), `RecordsFound` (`Recorded`), `ObjTypes` (`ObjTypeOK`),
`ShownRight` (`ShownAtRest`) and `ShowsSafe` (`ShowsSafely`).
Its hypotheses are the other two parts of `ObjInfoAssumption`, which TLC
evaluates for the fifteen interfaces. `Legible` says that the arguments of a
message are found at their words whatever the words say, and that what a request
names is of a kind that no event ends. `Handled` says what the handlers of
objinfo rely on: the messages they look at have the arguments they take and are
requests or events as they take them to be, and surfaces, xdg_surfaces and the
buffers of a pool are made by the requests they know, and go by "destroy". For
`PrintedAsMeant` the invariant `Naming` follows the objects that a message under
way names: a request may name one whose end is still behind it in the queue, an
event one that the table will show by the time wldbg sees the event. For
`Recorded`, `Records` and `Buffers` say what an id leads to at each stage of its
life: what is still there of the last object until the request that makes the
next has come, the record of its own kind while it lives, and when that goes.
`ObjTypeOK` needs that what the handlers store are ids and words of the size
they have (`Shapes`, `Bounded`).

`ShownAtRest` compares the records with the peers' own account, which is ahead
of them by all that is under way. `Accounts` says what there is an account of
and what it may name: a surface's names buffers that live, but those that are
lost. For a surface, `Surfaces` has a course (`Tracks`) through the requests on
their way: the account the client would have given at each of them, the first
of which the record depicts (`Depicts`) and the last of which is the account it
gives now. A request that is written prolongs the course (`CourseAppend`), one
that wldbg handles shortens it at the front (`CourseTail`), and what an account
on it names still stands, or is ended by a request behind (`Stands`). For an
xdg_surface, `XdgSurfaces` has the number v of configures that have come to
wldbg: those behind the v-th are on their way in their order (`Due`), and the
ring of the record has the last of the v (`Latest`; `LatestFirst`, `LatestNext` and
`LatestPlace` are its arithmetic), marked if they are acknowledged, unless the acknowledgement is on
its way (`RingShows`). A serial is then in the ring at most once when it is
acknowledged, so the first that is found is the right one (`RingAcknowledged`).
At rest nothing is ahead of anything, and `ShownAtRest` is what remains.
`ShowsSafely` follows from the same invariant: what the account of a surface
names and is not lost has a buffer's record or none.

**InteractiveProofs** proves all the properties of the run `interactive`, and
types. `IInv` has the lists (`ListsOK`: ids are distinct and below the next one,
which `Creating` and `Deleting` keep) and the reason of the stop flag
(`StopHasReason`: it is set exactly if `asked` or the message in the pass hit a
breakpoint, and then that message is not skipped), from which both action
properties follow. For `AutocmdsRun` there is `LInv`: the cursor splits the
autocmds into those in front of it, which have run if they were due, and the
others, which have not; by the lemma `Shifted` no command moves an autocmd
across the cursor, and what a command makes has an id that cannot be due. The
theorem on filters says nothing of a message that a hide and a showonly filter
both match: there the help promises what the code does not do. The
bounds of `InteractiveAssumption` are only those of TLC's instance: the memory
lasts for one filter, breakpoint and autocmd, or longer.

Only model-checked: all liveness (`MessagesArrive`, `HangUpReleases`,
`InterruptEnds`, `LeavingRestores`, `Settles`), which the prover does not reach.
Every invariant and action property of the passing runs has a theorem.

## Not modelled

Texts: names of keys, states and capabilities, the layout of what is printed,
the parsing of a typed command into its arguments, regular expressions. The
marshalling of closures in `connection.c`, which wldbg links and never calls.
Failures of malloc, but where the code's handling of them changes shared state
(Interactive's `MaxIds`) or they end an init function (Passes' `Outcomes`). The listings of `info.c` and the debug output change
nothing. The vendored lists, arrays and protocol tables appear as the sequences,
functions and signatures the modules use.

## Plan

A composition of MainLoop and Interactive for the prompt: its flags and the
dangling `message.connection`.
