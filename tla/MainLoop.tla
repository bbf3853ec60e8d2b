------------------------------ MODULE MainLoop ------------------------------
(***************************************************************************)
(* The life of the wldbg process (main, wldbg_run and wldbg_dispatch of    *)
(* src/wldbg.c, the callbacks of src/loop.c): it starts, spawns a client   *)
(* or accepts clients, takes one epoll event at a time, removes the        *)
(* connections that end and stops.  One action is one wldbg_dispatch with  *)
(* the test wldbg_run makes of what it returned.  What a connection does   *)
(* with its data is module Relay's; here it is Relayed.                    *)
(***************************************************************************)
EXTENDS Integers, FiniteSets

CONSTANTS
    Conns,    \* bound: the connections that can be made, none reused
    NoConn,   \* the NULL connection
    Modes     \* the ways to start wldbg that are looked at, see mode

ASSUME MainLoopAssumption ==
    /\ IsFiniteSet(Conns)
    /\ NoConn \notin Conns
    /\ Modes \subseteq {"passes", "interactive", "server"}

VARIABLES
    mode,             \* "passes" (wldbg PASS -- PROGRAM), "interactive" (-i), "server" (-s)
    phase,            \* see Phase
    status,           \* what main will return
    flags,            \* wldbg->flags.exit and wldbg->flags.error, those set
    struct,           \* struct[c]: the memory of struct wldbg_connection c
    connections,      \* wldbg->connections
    connectionsNum,   \* wldbg->connections_num
    callbacks,        \* wldbg->monitored_fds, by the fd of the callback
    watched,          \* the fds in the epoll set (the kernel drops closed ones)
    message,          \* wldbg->message.connection
    closed,           \* the fds whose other end is closed
    waiting,          \* clients in the backlog of the listening socket
    signals,          \* signals pending on wldbg's signal fds
    fault             \* history: what failed beneath wldbg, or "none"

data == <<struct, connections, connectionsNum, callbacks, watched>>
world == <<closed, waiting, signals>>
process == <<phase, status, flags, data, message, world, fault>>
vars == <<mode, process>>

\* "undefined": the code has used memory that is not what it takes it for.
Phase == {"start", "running", "stopped", "done", "undefined"}

Fd == Conns \X {"client", "server"}

Fds(c) == {<<c, "client">>, <<c, "server">>}

\* An fd of wldbg's own, whose callback carries no connection.
Own(name) == <<NoConn, name>>

\* What wldbg_init, interactive_init and server_mode_init have epoll watch.
OwnFds ==
    {Own("signals")}
        \cup (IF mode = "passes" THEN {} ELSE {Own("sigint")})
        \cup (IF mode = "server" THEN {Own("listen")} ELSE {})

Init ==
    /\ mode \in Modes
    /\ phase = "start" /\ status = "none" /\ flags = {}
    /\ struct = [c \in Conns |-> "none"]
    /\ connections = {} /\ connectionsNum = 0
    /\ callbacks = OwnFds /\ watched = OwnFds
    /\ message = NoConn
    /\ closed = {} /\ waiting = {} /\ signals = {}
    /\ fault = "none"

-----------------------------------------------------------------------------
(* What happens around wldbg. *)

ClientArrives(c) ==
    /\ mode = "server" /\ phase = "running"
    /\ struct[c] = "none" /\ c \notin waiting
    /\ waiting' = waiting \cup {c}
    /\ UNCHANGED <<phase, status, flags, data, message, closed, signals, fault>>

\* A client or the compositor goes; a spawned client leaves a SIGCHLD too.
PeerCloses(fd) ==
    /\ struct[fd[1]] = "live" /\ fd \notin closed
    /\ closed' = closed \cup {fd}
    /\ signals' = IF mode # "server" /\ fd[2] = "client"
                     THEN signals \cup {"SIGCHLD"} ELSE signals
    /\ UNCHANGED <<phase, status, flags, data, message, waiting, fault>>

CtrlC ==
    /\ phase = "running" /\ "SIGINT" \notin signals
    /\ signals' = signals \cup {"SIGINT"}
    /\ UNCHANGED <<phase, status, flags, data, message, closed, waiting, fault>>

-----------------------------------------------------------------------------
(* Starting. *)

\* wldbg_connection_create, create_client_connection(_for_fd) and
\* wldbg_add_connection, all going well.
AddConnection(c) ==
    /\ struct' = [struct EXCEPT ![c] = "live"]
    /\ connections' = connections \cup {c}
    /\ connectionsNum' = connectionsNum + 1
    /\ callbacks' = callbacks \cup Fds(c)
    /\ watched' = watched \cup Fds(c)

\* Options or passes are refused, or a pass asks for an end while it is loaded.
StartRefused ==
    /\ phase = "start"
    /\ phase' = "stopped"
    /\ \/ flags' \in (SUBSET {"exit", "error"}) \ {{}} /\ UNCHANGED fault
       \/ flags' = flags /\ fault' = "options"
    /\ status' = IF flags' = {"exit"} THEN "success" ELSE "failure"
    /\ UNCHANGED <<data, message, world>>

StartServer ==
    /\ phase = "start" /\ mode = "server"
    /\ phase' = "running"
    /\ UNCHANGED <<status, flags, data, message, world, fault>>

Spawn ==
    /\ phase = "start" /\ mode # "server"
    /\ \E c \in Conns : AddConnection(c)
    /\ phase' = "running"
    /\ UNCHANGED <<status, flags, message, world, fault>>

\* No compositor to connect to: nothing is left of the connection.
SpawnUnconnected ==
    /\ phase = "start" /\ mode # "server"
    /\ phase' = "stopped" /\ status' = "failure" /\ fault' = "connect"
    /\ UNCHANGED <<flags, data, message, world>>

\* fork (or setenv) fails: the connection, complete but not listed, is
\* destroyed; its callbacks stay.
SpawnUnforked ==
    /\ phase = "start" /\ mode # "server"
    /\ \E c \in Conns :
          /\ struct' = [struct EXCEPT ![c] = "freed"]
          /\ callbacks' = callbacks \cup Fds(c)
    /\ phase' = "stopped" /\ status' = "failure" /\ fault' = "fork"
    /\ UNCHANGED <<flags, connections, connectionsNum, watched, message, world>>

\* The client's end cannot be made: wldbg_connection_destroy is given a
\* connection whose client.connection is NULL or already destroyed.
SpawnHalf ==
    /\ phase = "start" /\ mode # "server"
    /\ phase' = "undefined" /\ fault' = "client"
    /\ UNCHANGED <<status, flags, data, message, world>>

-----------------------------------------------------------------------------
(* The loop. *)

\* Mutant of LoopTest: the flags are not looked at.
LoopTestBlind(ret) ==
    IF ret > 0
       THEN phase' = "running" /\ UNCHANGED status
       ELSE phase' = "stopped" /\ status' = IF ret < 0 THEN "failure" ELSE "success"

\* What wldbg_run does with the value wldbg_dispatch has returned.
LoopTest(ret) ==
    IF ret > 0 /\ flags' = {}
       THEN phase' = "running" /\ UNCHANGED status
       ELSE /\ phase' = "stopped"
            /\ status' = IF ret < 0 \/ (ret > 0 /\ "error" \in flags')
                            THEN "failure" ELSE "success"

\* Connection c goes at an event of fd: the count becomes num, and the fds in
\* silenced leave the epoll set.
Dismantle(c, fd, num, silenced) ==
    /\ connections' = connections \ {c}
    /\ connectionsNum' = num
    /\ callbacks' = callbacks \ {fd}
    /\ struct' = [struct EXCEPT ![c] = "freed"]
    /\ watched' = watched \ silenced

\* Mutants of RemoveConnection: only the fd that fired is closed; each end of
\* the connection is counted; the loop is told to end, or to go on, whatever
\* the count.
RemoveOneFd(c, fd) ==
    Dismantle(c, fd, connectionsNum - 1, {fd}) /\ LoopTest(connectionsNum')
RemoveTwice(c, fd) ==
    Dismantle(c, fd, connectionsNum - 2, Fds(c)) /\ LoopTest(connectionsNum')
RemoveEndsLoop(c, fd) ==
    Dismantle(c, fd, connectionsNum - 1, Fds(c)) /\ LoopTest(0)
RemoveGoesOn(c, fd) ==
    Dismantle(c, fd, connectionsNum - 1, Fds(c)) /\ LoopTest(1)

\* remove_connection: the callback of the fd that fired is freed and that fd
\* leaves the epoll set; wl_connection_destroy closes both, so the kernel
\* drops the other.  The count of those left is what the loop tests.
RemoveConnection(c, fd) ==
    Dismantle(c, fd, connectionsNum - 1, Fds(c)) /\ LoopTest(connectionsNum')

\* Mutant of HangUp: the compositor's end is not listened to.
HangUpOfClient(fd) ==
    /\ phase = "running" /\ fd \in watched /\ fd \in closed
    /\ fd[2] = "client"
    /\ flags' = flags /\ RemoveConnection(fd[1], fd)
    /\ UNCHANGED <<message, world, fault>>

\* EPOLLHUP, whether there is data left or not.
HangUp(fd) ==
    /\ phase = "running" /\ fd \in watched /\ fd \in closed
    /\ flags' = flags /\ RemoveConnection(fd[1], fd)
    /\ UNCHANGED <<message, world, fault>>

\* dispatch_messages: the data went through the passes, and they or the user
\* at the prompt may have asked for an end, which ends the connection first.
Relayed(fd) ==
    /\ phase = "running" /\ fd \in watched \cap Fd /\ fd \notin closed
    /\ message' = fd[1]
    /\ flags' \in SUBSET {"exit", "error"}
    /\ IF flags' = {}
          THEN LoopTest(1) /\ UNCHANGED data
          ELSE RemoveConnection(fd[1], fd)
    /\ UNCHANGED <<world, fault>>

\* The read fails (message is as it was) or the write or the flush does.
Broken(fd) ==
    /\ phase = "running" /\ fd \in watched \cap Fd /\ fd \notin closed
    /\ message' \in {message, fd[1]}
    /\ flags' = flags /\ RemoveConnection(fd[1], fd)
    /\ UNCHANGED <<world, fault>>

\* epoll_wait fails with EINTR (a stop and a continue are enough) or an event
\* is an EPOLLERR.
EpollFails ==
    /\ phase = "running"
    /\ flags' = flags /\ LoopTest(-1) /\ fault' = "epoll"
    /\ UNCHANGED <<data, message, world>>

\* dispatch_signals reports the child's exit and leaves the rest to the HUP.
ChildExited ==
    /\ phase = "running" /\ Own("signals") \in watched /\ "SIGCHLD" \in signals
    /\ signals' = signals \ {"SIGCHLD"}
    /\ flags' = flags /\ LoopTest(1)
    /\ UNCHANGED <<data, message, closed, waiting, fault>>

\* Mutant of Interrupted: the clients are killed and the loop waits for them.
InterruptedKills ==
    /\ phase = "running" /\ mode = "passes" /\ "SIGINT" \in signals
    /\ signals' = signals \ {"SIGINT"}
    /\ flags' = flags /\ LoopTest(1)
    /\ UNCHANGED <<data, message, closed, waiting, fault>>

\* dispatch_signals: the clients are sent a SIGTERM and the exit flag is set.
Interrupted ==
    /\ phase = "running" /\ mode = "passes" /\ "SIGINT" \in signals
    /\ signals' = signals \ {"SIGINT"}
    /\ flags' = flags \cup {"exit"}
    /\ LoopTest(1)
    /\ UNCHANGED <<data, message, closed, waiting, fault>>

\* handle_sigint: the user continues, quits, or gives a command about the
\* connection of the last message, whether or not there (still) is one.
Prompt ==
    /\ phase = "running" /\ Own("sigint") \in watched /\ "SIGINT" \in signals
    /\ signals' = signals \ {"SIGINT"}
    /\ \/ flags' \in {flags, flags \cup {"exit"}} /\ LoopTest(1) /\ UNCHANGED fault
       \/ /\ message \notin connections
          /\ phase' = "undefined" /\ fault' = "prompt"
          /\ UNCHANGED <<flags, status>>
    /\ UNCHANGED <<data, message, closed, waiting>>

Accept(c) ==
    /\ phase = "running" /\ Own("listen") \in watched /\ c \in waiting
    /\ waiting' = waiting \ {c}
    /\ AddConnection(c)
    /\ flags' = flags /\ LoopTest(1)
    /\ UNCHANGED <<message, closed, signals, fault>>

\* server_mode_accept fails, or the connection to the compositor or the
\* client's side of it does: -1 is returned, and wldbg_dispatch goes on to
\* remove_connection with the callback's data, which is struct wldbg.
AcceptFails(c) ==
    /\ phase = "running" /\ Own("listen") \in watched /\ c \in waiting
    /\ phase' = "undefined" /\ fault' = "accept"
    /\ UNCHANGED <<status, flags, data, message, world>>

-----------------------------------------------------------------------------
(* Stopping. *)

\* Mutant of Destroy: the connections that are left are forgotten.
DestroyForgets ==
    /\ phase = "stopped"
    /\ phase' = "done"
    /\ callbacks' = {} /\ watched' = {}
    /\ UNCHANGED <<status, flags, struct, connections, connectionsNum, message,
                   world, fault>>

\* wldbg_destroy: the connections that got no HUP are freed where they are.
Destroy ==
    /\ phase = "stopped"
    /\ phase' = "done"
    /\ callbacks' = {} /\ watched' = {}
    /\ struct' = [c \in Conns |-> IF c \in connections THEN "freed" ELSE struct[c]]
    /\ UNCHANGED <<status, flags, connections, connectionsNum, message, world, fault>>

Begin == StartRefused \/ StartServer \/ Spawn \/ SpawnUnconnected
             \/ SpawnUnforked \/ SpawnHalf

Dispatch ==
    \/ \E fd \in Fd : HangUp(fd) \/ Relayed(fd) \/ Broken(fd)
    \/ EpollFails \/ ChildExited \/ Interrupted \/ Prompt
    \/ \E c \in Conns : Accept(c) \/ AcceptFails(c)

Around ==
    \/ \E c \in Conns : ClientArrives(c)
    \/ \E fd \in Fd : PeerCloses(fd)
    \/ CtrlC

Step == Begin \/ Dispatch \/ Destroy \/ Around

Next == Step /\ UNCHANGED mode

Spec == Init /\ [][Next]_vars

(***************************************************************************)
(* The program runs, and epoll hands out ready fds in turn: an fd that     *)
(* stays ready is reported however busy the others are.  The user answers  *)
(* a prompt; nobody around wldbg has to do anything.                       *)
(***************************************************************************)
Fairness ==
    /\ WF_process(Begin)
    /\ WF_process(Destroy)
    /\ \A fd \in Fd : WF_process(HangUp(fd))
    /\ WF_process(ChildExited) /\ WF_process(Interrupted) /\ WF_process(Prompt)
    /\ \A c \in Conns : WF_process(Accept(c))

FairSpec == Spec /\ Fairness

-----------------------------------------------------------------------------
(* Properties. *)

TypeOK ==
    /\ mode \in Modes
    /\ phase \in Phase
    /\ status \in {"none", "success", "failure"}
    /\ flags \subseteq {"exit", "error"}
    /\ struct \in [Conns -> {"none", "live", "freed"}]
    /\ connections \subseteq Conns
    /\ connectionsNum \in Nat
    /\ callbacks \subseteq OwnFds \cup Fd
    /\ watched \subseteq OwnFds \cup Fd
    /\ message \in Conns \cup {NoConn}
    /\ closed \subseteq Fd
    /\ waiting \subseteq Conns
    /\ signals \subseteq {"SIGINT", "SIGCHLD"}
    /\ fault \in {"none", "options", "connect", "fork", "client", "epoll",
                  "prompt", "accept"}

\* When the loop tests connections_num to go on, it counts the list (the
\* assertions of wldbg_add_connection and wldbg_remove_connection hang on it),
\* and both flags are clear, as wldbg_dispatch asserts: none that a callback sets
\* survives the test that follows it.
AssertionsHold ==
    phase = "running" => connectionsNum = Cardinality(connections) /\ flags = {}

\* Whatever epoll can report, its callback is allocated and the connection the
\* callback carries is neither freed nor off the list: with two fds to a
\* connection, removing it at one's event must silence the other.
WatchedIsLive ==
    \A fd \in watched :
       /\ fd \in callbacks
       /\ fd \in Fd => struct[fd[1]] = "live" /\ fd[1] \in connections

\* One client's end does not end the others': the loop stops with connections
\* left only when a flag was set or epoll itself failed.
OthersSurvive ==
    [][phase = "running" /\ phase' = "stopped"
         => connections' = {} \/ flags' # {} \/ fault' = "epoll"]_vars

\* The loop does not wait on after the last connection is gone ("if
\* connections_num is 0, that we're done").
LastEnds ==
    [][connections # {} /\ connections' = {} => phase' = "stopped"]_vars

FailureHasCause == status = "failure" => "error" \in flags \/ fault # "none"

NothingLeft == phase = "done" => \A c \in Conns : struct[c] # "live"

\* wldbg leaves with a failure only if a pass raised the error flag or something
\* beneath it failed (a client that hangs up is no failure), and with every
\* connection destroyed, the ones that never got their HUP and the one that was
\* never listed included (wldbg_run, wldbg_destroy).
LeavesClean == FailureHasCause /\ NothingLeft

\* A connection one of whose peers has gone is destroyed in the end, however
\* busy the other connections are.
HangUpReleases ==
    \A c \in Conns :
       (struct[c] = "live" /\ Fds(c) \cap closed # {})
           ~> (struct[c] = "freed" \/ phase = "undefined")

\* Ctrl-C ends wldbg when it runs passes only, however busy the clients are.
InterruptEnds ==
    mode = "passes" /\ "SIGINT" \in signals ~> phase = "done"

\* src/wldbg.h, wldbg_error: "wldbg will clean up and exit with error on next
\* iteration".
ErrorFails == phase = "done" /\ "error" \in flags => status = "failure"
=============================================================================
