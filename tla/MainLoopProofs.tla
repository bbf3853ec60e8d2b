--------------------------- MODULE MainLoopProofs ---------------------------
(***************************************************************************)
(* Proofs about MainLoop, for every set of connections and every mode: the *)
(* inductive invariant IInv, and what follows from it.                     *)
(*                                                                         *)
(* The heart of it: as long as the loop runs, the live structs, the list,  *)
(* the count and the fds epoll watches tell the same story, so the event   *)
(* wldbg_dispatch takes names a callback that is allocated and a           *)
(* connection that is listed, and removing that connection leaves the      *)
(* story told of the others.                                               *)
(***************************************************************************)
EXTENDS MainLoop, FiniteSetTheorems, TLAPS

\* Before the loop nothing has happened yet, and in the loop nothing that
\* ends it has.
Fresh ==
    /\ phase = "start" => connections = {} /\ waiting = {} /\ fault = "none"
    /\ phase \in {"start", "running"} => flags = {} /\ status = "none"

\* The count, from before the loop on.
Counted ==
    phase \in {"start", "running"} => connectionsNum = Cardinality(connections)

\* Exactly the listed connections are alive, until wldbg_destroy.
Listed ==
    /\ phase \in {"start", "running", "stopped"} =>
          \A c \in Conns : struct[c] = "live" <=> c \in connections
    /\ NothingLeft

\* A client in the backlog has no connection yet.
Unmade == \A c \in waiting : struct[c] = "none"

IInv ==
    /\ TypeOK
    /\ Fresh
    /\ Counted
    /\ Listed
    /\ Unmade
    /\ WatchedIsLive
    /\ FailureHasCause

-----------------------------------------------------------------------------

\* An fd of wldbg's own is no connection's, and they stay what they are.
LEMMA OwnApart == OwnFds \cap Fd = {} /\ (mode' = mode => OwnFds' = OwnFds)
BY MainLoopAssumption DEF OwnFds, Own, Fd

\* The fds of a connection are Fd's members with that connection in front.
LEMMA FdsOf ==
    /\ \A c \in Conns : Fds(c) \subseteq Fd
    /\ \A c \in Conns : \A fd \in Fds(c) : fd[1] = c
    /\ \A fd \in Fd : fd[1] \in Conns /\ fd \in Fds(fd[1])
BY DEF Fds, Fd

\* Counting the list after an addition and after a removal.
LEMMA Counting ==
    ASSUME NEW S \in SUBSET Conns, NEW c \in Conns
    PROVE  /\ Cardinality(S) \in Nat
           /\ c \notin S => Cardinality(S \cup {c}) = Cardinality(S) + 1
           /\ c \in S => Cardinality(S \ {c}) = Cardinality(S) - 1
           /\ c \in S => Cardinality(S) \in Nat \ {0}
           /\ (Cardinality(S) = 0) <=> (S = {})
<1>1. IsFiniteSet(S)
  BY FS_Subset, MainLoopAssumption
<1>2. Cardinality(S) \in Nat
  BY <1>1, FS_CardinalityType
<1>3. c \notin S => Cardinality(S \cup {c}) = Cardinality(S) + 1
  BY <1>1, FS_AddElement
<1>4. c \in S => Cardinality(S \ {c}) = Cardinality(S) - 1
  BY <1>1, FS_RemoveElement
<1>5. (Cardinality(S) = 0) <=> (S = {})
  BY <1>1, FS_EmptySet
<1> QED
  BY <1>2, <1>3, <1>4, <1>5

\* The invariant holds before wldbg starts.
LEMMA InitInv == Init => IInv
<1> SUFFICES ASSUME Init PROVE IInv
  OBVIOUS
<1>1. TypeOK
  BY MainLoopAssumption DEF Init, TypeOK, Phase
<1>2. Fresh /\ Listed /\ Unmade /\ FailureHasCause
  BY DEF Init, Fresh, Listed, Unmade, FailureHasCause, NothingLeft
<1>3. Counted
  BY FS_EmptySet DEF Init, Counted
<1>4. WatchedIsLive
  BY OwnApart DEF Init, WatchedIsLive
<1> QED
  BY <1>1, <1>2, <1>3, <1>4 DEF IInv

-----------------------------------------------------------------------------

\* What the test at the end of a dispatch leaves when nothing else moved but
\* the flags: the loop goes on with no flag set, or stops for one.
LEMMA TestAlone ==
    ASSUME IInv, mode' = mode, phase = "running", NEW ret \in Int, LoopTest(ret),
           flags' \subseteq {"exit", "error"},
           fault' \in {fault, "epoll"}, ret < 0 => fault' # "none",
           UNCHANGED <<data, closed>>,
           message' \in Conns \cup {NoConn},
           waiting' \subseteq waiting, signals' \subseteq signals
    PROVE  IInv'
<1> USE DEF IInv, LoopTest, data
<1>1. TypeOK'
  BY OwnApart DEF TypeOK, Phase
<1>2. Fresh' /\ Unmade'
  BY DEF Fresh, Unmade
<1>3. Counted' /\ Listed'
  BY DEF Counted, Listed, NothingLeft
<1>4. WatchedIsLive'
  BY DEF WatchedIsLive
<1>5. FailureHasCause'
  BY DEF FailureHasCause, Fresh
<1> QED
  BY <1>1, <1>2, <1>3, <1>4, <1>5

\* A connection removed at an event of one of its fds, with the test after it.
LEMMA Removal ==
    ASSUME IInv, mode' = mode, phase = "running", NEW fd \in watched, fd \in Fd,
           RemoveConnection(fd[1], fd),
           flags' \subseteq {"exit", "error"},
           message' \in Conns \cup {NoConn},
           UNCHANGED <<world, fault>>
    PROVE  /\ IInv'
           /\ connectionsNum' = Cardinality(connections')
           /\ phase' = "stopped" => connections' = {} \/ flags' # {}
           /\ connections' = {} => phase' = "stopped"
<1> DEFINE c == fd[1]
<1>1. c \in Conns /\ c \in connections /\ struct[c] = "live"
  BY FdsOf DEF IInv, WatchedIsLive
<1>2. /\ connections' = connections \ {c}
      /\ connectionsNum' = connectionsNum - 1
      /\ callbacks' = callbacks \ {fd}
      /\ struct' = [struct EXCEPT ![c] = "freed"]
      /\ watched' = watched \ Fds(c)
      /\ LoopTest(connectionsNum')
  BY DEF RemoveConnection, Dismantle
<1> HIDE DEF c
<1>3. /\ connectionsNum' = Cardinality(connections')
      /\ connectionsNum' \in Nat
      /\ connectionsNum' = 0 <=> connections' = {}
  <2>1. connections \in SUBSET Conns /\ connections' \in SUBSET Conns
    BY <1>2 DEF IInv, TypeOK
  <2>2. connectionsNum = Cardinality(connections)
    BY DEF IInv, Counted
  <2>3. connectionsNum' = Cardinality(connections')
    BY <1>1, <1>2, <2>1, <2>2, Counting
  <2> QED
    BY <2>1, <2>3, <1>1, Counting
<1>4. /\ phase' \in {"running", "stopped"}
      /\ phase' = "running" => flags' = {} /\ status' = "none"
      /\ phase' = "running" <=> connectionsNum' > 0 /\ flags' = {}
      /\ status' \in {"none", "success", "failure"}
      /\ status' = "failure" => "error" \in flags'
  BY <1>2, <1>3 DEF LoopTest, IInv, Fresh
<1>5. TypeOK'
  BY <1>1, <1>2, <1>3, <1>4, OwnApart DEF IInv, TypeOK, Phase, world
<1>6. Fresh' /\ Counted' /\ FailureHasCause'
  BY <1>3, <1>4 DEF Fresh, Counted, FailureHasCause
<1>7. \A d \in Conns : struct'[d] = IF d = c THEN "freed" ELSE struct[d]
  BY <1>1, <1>2 DEF IInv, TypeOK
<1>8. Listed'
  BY <1>2, <1>4, <1>7 DEF IInv, Listed, NothingLeft
<1>9. Unmade'
  BY <1>1, <1>7 DEF IInv, Unmade, TypeOK, world
<1>10. WatchedIsLive'
  <2> SUFFICES ASSUME NEW g \in watched'
               PROVE  /\ g \in callbacks'
                      /\ g \in Fd => struct'[g[1]] = "live" /\ g[1] \in connections'
    BY DEF WatchedIsLive
  <2>1. g \in watched /\ g \notin Fds(c)
    BY <1>2
  <2>2. g \in callbacks'
    BY <1>2, <2>1, FdsOf DEF c, IInv, WatchedIsLive
  <2>3. ASSUME g \in Fd PROVE struct'[g[1]] = "live" /\ g[1] \in connections'
    <3>1. g[1] # c /\ g[1] \in Conns
      BY <2>1, <2>3, FdsOf
    <3> QED
      BY <1>2, <1>7, <2>1, <2>3, <3>1 DEF IInv, WatchedIsLive
  <2> QED
    BY <2>2, <2>3
<1>11. /\ phase' = "stopped" => connections' = {} \/ flags' # {}
       /\ connections' = {} => phase' = "stopped"
  BY <1>3, <1>4
<1> QED
  BY <1>3, <1>5, <1>6, <1>8, <1>9, <1>10, <1>11 DEF IInv

\* A connection made and listed.
LEMMA Addition ==
    ASSUME IInv, mode' = mode, phase \in {"start", "running"}, phase' = "running",
           NEW c \in Conns, c \notin connections, AddConnection(c),
           waiting' \subseteq waiting \ {c}, signals' = signals,
           UNCHANGED <<status, flags, message, closed, fault>>
    PROVE  IInv'
<1>1. \A d \in Conns : struct'[d] = IF d = c THEN "live" ELSE struct[d]
  BY DEF IInv, TypeOK, AddConnection
<1>2. connectionsNum' = Cardinality(connections') /\ connectionsNum' \in Nat
  BY Counting DEF IInv, TypeOK, Counted, AddConnection
<1>3. TypeOK'
  BY <1>2, FdsOf, OwnApart DEF IInv, TypeOK, Phase, AddConnection
<1>4. Fresh' /\ Counted' /\ FailureHasCause'
  BY <1>2 DEF IInv, Fresh, Counted, FailureHasCause
<1>5. Listed'
  BY <1>1 DEF IInv, Listed, NothingLeft, AddConnection
<1>6. Unmade'
  BY <1>1 DEF IInv, TypeOK, Unmade
<1>7. WatchedIsLive'
  BY <1>1, FdsOf DEF IInv, WatchedIsLive, AddConnection
<1> QED
  BY <1>3, <1>4, <1>5, <1>6, <1>7 DEF IInv

-----------------------------------------------------------------------------

\* Starting establishes what the loop needs.
LEMMA BeginInv == IInv /\ Begin /\ mode' = mode => IInv'
<1> SUFFICES ASSUME IInv, Begin, mode' = mode PROVE IInv'
  OBVIOUS
<1>1. CASE StartRefused
  <2>1. /\ phase = "start" /\ phase' = "stopped"
        /\ flags' \subseteq {"exit", "error"}
        /\ fault' \in {fault, "options"}
        /\ status' \in {"success", "failure"}
        /\ status' = "failure" => "error" \in flags' \/ fault' # "none"
        /\ UNCHANGED <<data, message, world>>
    BY <1>1 DEF StartRefused, IInv, TypeOK
  <2>2. TypeOK'
    BY <2>1, OwnApart DEF IInv, TypeOK, Phase, data, world
  <2> QED
    BY <2>1, <2>2 DEF IInv, Fresh, Counted, Listed, NothingLeft,
       Unmade, WatchedIsLive, FailureHasCause, data, world
<1>2. CASE StartServer
  BY <1>2, OwnApart DEF IInv, StartServer, TypeOK, Phase, Fresh, Counted, Listed, NothingLeft,
     Unmade, WatchedIsLive, FailureHasCause, data, world
<1>3. CASE Spawn
  <2>1. PICK c \in Conns : AddConnection(c)
    BY <1>3 DEF Spawn
  <2>2. connections = {} /\ waiting = {}
    BY <1>3 DEF Spawn, IInv, Fresh
  <2> QED
    BY <1>3, <2>1, <2>2, Addition DEF Spawn, world
<1>4. CASE SpawnUnconnected
  BY <1>4, OwnApart DEF IInv, SpawnUnconnected, TypeOK, Phase, Fresh, Counted, Listed,
     NothingLeft, Unmade, WatchedIsLive, FailureHasCause, data, world
<1>5. CASE SpawnUnforked
  <2>1. PICK c \in Conns : /\ struct' = [struct EXCEPT ![c] = "freed"]
                           /\ callbacks' = callbacks \cup Fds(c)
    BY <1>5 DEF SpawnUnforked
  <2>2. \A d \in Conns : struct'[d] = IF d = c THEN "freed" ELSE struct[d]
    BY <2>1 DEF IInv, TypeOK
  <2>3. phase = "start" /\ connections = {} /\ waiting = {}
    BY <1>5 DEF SpawnUnforked, IInv, Fresh
  <2>4. TypeOK'
    BY <1>5, <2>1, FdsOf, OwnApart DEF IInv, SpawnUnforked, TypeOK, Phase, world
  <2>5. Fresh' /\ Counted' /\ FailureHasCause'
    BY <1>5 DEF SpawnUnforked, Fresh, Counted, FailureHasCause
  <2>6. Listed' /\ Unmade'
    BY <1>5, <2>2, <2>3 DEF IInv, SpawnUnforked, Listed, NothingLeft, Unmade, world
  <2>7. WatchedIsLive'
    BY <1>5, <2>1, <2>2, <2>3, FdsOf DEF IInv, SpawnUnforked, WatchedIsLive
  <2> QED
    BY <2>4, <2>5, <2>6, <2>7 DEF IInv
<1>6. CASE SpawnHalf
  BY <1>6, OwnApart DEF IInv, SpawnHalf, TypeOK, Phase, Fresh, Counted, Listed, NothingLeft,
     Unmade, WatchedIsLive, FailureHasCause, data, world
<1> QED
  BY <1>1, <1>2, <1>3, <1>4, <1>5, <1>6 DEF Begin

\* Every turn of the loop keeps the invariant.
LEMMA DispatchInv == IInv /\ Dispatch /\ mode' = mode => IInv'
<1> SUFFICES ASSUME IInv, Dispatch, mode' = mode PROVE IInv'
  OBVIOUS
<1>0. TypeOK /\ closed \subseteq Fd /\ message \in Conns \cup {NoConn}
  BY DEF IInv, TypeOK
<1>1. ASSUME NEW fd \in Fd, HangUp(fd) PROVE IInv'
  BY <1>0, <1>1, Removal DEF HangUp, TypeOK
<1>2. ASSUME NEW fd \in Fd, Relayed(fd) PROVE IInv'
  <2>1. /\ phase = "running" /\ fd \in watched
        /\ message' \in Conns \cup {NoConn}
        /\ flags' \subseteq {"exit", "error"}
        /\ UNCHANGED <<world, fault>>
    BY <1>2, FdsOf DEF Relayed
  <2>2. CASE flags' = {}
    BY <1>2, <2>1, <2>2, TestAlone DEF Relayed, world
  <2>3. CASE flags' # {}
    BY <1>2, <2>1, <2>3, Removal DEF Relayed
  <2> QED
    BY <2>2, <2>3
<1>3. ASSUME NEW fd \in Fd, Broken(fd) PROVE IInv'
  <2>1. message' \in Conns \cup {NoConn}
    BY <1>0, <1>3, FdsOf DEF Broken
  <2> QED
    BY <1>0, <1>3, <2>1, Removal DEF Broken, TypeOK
<1>4. CASE EpollFails
  BY <1>0, <1>4, TestAlone DEF EpollFails, TypeOK, world
<1>5. CASE ChildExited
  BY <1>0, <1>5, TestAlone DEF ChildExited, TypeOK
<1>6. CASE Interrupted
  BY <1>0, <1>6, TestAlone DEF Interrupted, TypeOK
<1>7. CASE Prompt
  <2>1. CASE flags' \in {flags, flags \cup {"exit"}} /\ LoopTest(1) /\ UNCHANGED fault
    BY <1>0, <1>7, <2>1, TestAlone DEF Prompt, TypeOK
  <2>2. CASE phase' = "undefined" /\ fault' = "prompt" /\ UNCHANGED <<flags, status>>
    BY <1>7, <2>2, OwnApart DEF Prompt, IInv, TypeOK, Phase, Fresh, Counted, Listed,
       NothingLeft, Unmade, WatchedIsLive, FailureHasCause, data
  <2> QED
    BY <1>7, <2>1, <2>2 DEF Prompt
<1>8. ASSUME NEW c \in Conns, Accept(c) PROVE IInv'
  <2>1. phase' = "running" /\ UNCHANGED status
    BY <1>8 DEF Accept, LoopTest, IInv, Fresh
  <2>2. c \notin connections
    BY <1>8 DEF Accept, IInv, Unmade, Listed
  <2> QED
    BY <1>8, <2>1, <2>2, Addition DEF Accept
<1>9. ASSUME NEW c \in Conns, AcceptFails(c) PROVE IInv'
  BY <1>9, OwnApart DEF AcceptFails, IInv, TypeOK, Phase, Fresh, Counted, Listed,
     NothingLeft, Unmade, WatchedIsLive, FailureHasCause, data, world
<1> QED
  BY <1>1, <1>2, <1>3, <1>4, <1>5, <1>6, <1>7, <1>8, <1>9 DEF Dispatch

\* wldbg_destroy leaves no live connection behind.
LEMMA DestroyInv == IInv /\ Destroy /\ mode' = mode => IInv'
<1> SUFFICES ASSUME IInv, Destroy, mode' = mode PROVE IInv'
  OBVIOUS
<1>1. TypeOK'
  BY OwnApart DEF IInv, Destroy, TypeOK, Phase, world
<1>2. Fresh' /\ Counted' /\ WatchedIsLive' /\ FailureHasCause'
  BY DEF IInv, Destroy, Fresh, Counted, WatchedIsLive, FailureHasCause
<1>3. Listed'
  BY DEF IInv, Destroy, Listed, NothingLeft
<1>4. Unmade'
  BY DEF IInv, Destroy, Listed, Unmade, TypeOK, world
<1> QED
  BY <1>1, <1>2, <1>3, <1>4 DEF IInv

\* What happens around wldbg touches none of it.
LEMMA AroundInv == IInv /\ Around /\ mode' = mode => IInv'
<1> SUFFICES ASSUME IInv, Around, mode' = mode PROVE IInv'
  OBVIOUS
<1>1. /\ UNCHANGED <<phase, status, flags, data, message, fault>>
      /\ closed' \subseteq Fd /\ waiting' \subseteq Conns
      /\ signals' \subseteq {"SIGINT", "SIGCHLD"}
      /\ \A c \in waiting' : c \in waiting \/ (phase = "running" /\ struct[c] = "none")
  BY DEF IInv, TypeOK, Around, ClientArrives, PeerCloses, CtrlC
<1>2. phase = "start" => waiting' = waiting
  BY DEF Around, ClientArrives, PeerCloses, CtrlC
<1> QED
  BY <1>1, <1>2, OwnApart DEF IInv, TypeOK, Fresh, Counted, Listed, NothingLeft, Unmade,
     WatchedIsLive, FailureHasCause, data

\* Every step keeps the invariant.
LEMMA StepInv == IInv /\ [Next]_vars => IInv'
<1> SUFFICES ASSUME IInv, [Next]_vars PROVE IInv'
  OBVIOUS
<1>1. CASE UNCHANGED vars
  BY <1>1, OwnApart DEF IInv, vars, process, data, world, TypeOK, Fresh, Counted, Listed, NothingLeft,
     Unmade, WatchedIsLive, FailureHasCause
<1> QED
  BY <1>1, BeginInv, DispatchInv, DestroyInv, AroundInv DEF Next, Step

\* So it holds throughout.
LEMMA Invariance == Spec => []IInv
BY InitInv, StepInv, PTL DEF Spec

-----------------------------------------------------------------------------

\* Type correctness of MainLoop.
THEOREM LoopTypeCorrect == Spec => []TypeOK
<1>1. IInv => TypeOK
  BY DEF IInv
<1> QED
  BY <1>1, Invariance, PTL

\* The assertions on the count and on the flags never fail.
THEOREM AssertionsDoHold == Spec => []AssertionsHold
<1>1. IInv => AssertionsHold
  BY DEF IInv, Counted, Fresh, AssertionsHold
<1> QED
  BY <1>1, Invariance, PTL

\* No event epoll can report names a freed callback or a freed connection.
THEOREM NoStaleEvent == Spec => []WatchedIsLive
<1>1. IInv => WatchedIsLive
  BY DEF IInv
<1> QED
  BY <1>1, Invariance, PTL

\* wldbg ends with every connection destroyed, and with a failure only for a
\* cause.
THEOREM EndsClean == Spec => []LeavesClean
<1>1. IInv => LeavesClean
  BY DEF IInv, Listed, LeavesClean
<1> QED
  BY <1>1, Invariance, PTL

\* Only a flag or a failure of epoll stops the loop while connections are left.
THEOREM OthersDoSurvive == Spec => OthersSurvive
<1> DEFINE A == phase = "running" /\ phase' = "stopped"
                  => connections' = {} \/ flags' # {} \/ fault' = "epoll"
<1>1. IInv /\ [Next]_vars => [A]_vars
  <2> SUFFICES ASSUME IInv, Next, phase = "running", phase' = "stopped",
                      flags' = {}, fault' # "epoll"
               PROVE  connections' = {}
    OBVIOUS
  <2>0. TypeOK /\ flags = {} /\ mode' = mode
    BY DEF IInv, Fresh, Next
  <2>1. ASSUME NEW fd \in Fd, HangUp(fd) PROVE connections' = {}
    BY <2>0, <2>1, Removal DEF HangUp, TypeOK
  <2>2. ASSUME NEW fd \in Fd, Relayed(fd) PROVE connections' = {}
    BY <2>2 DEF Relayed, LoopTest
  <2>3. ASSUME NEW fd \in Fd, Broken(fd) PROVE connections' = {}
    <3>1. message' \in Conns \cup {NoConn}
      BY <2>0, <2>3, FdsOf DEF Broken, TypeOK
    <3> QED
      BY <2>0, <2>3, <3>1, Removal DEF Broken, TypeOK
  <2>4. ~EpollFails
    BY DEF EpollFails
  <2>5. ~ChildExited /\ ~Interrupted /\ ~Prompt
    BY DEF ChildExited, Interrupted, Prompt, LoopTest
  <2>6. \A c \in Conns : ~Accept(c) /\ ~AcceptFails(c)
    BY DEF Accept, AcceptFails, LoopTest
  <2>7. ~Begin /\ ~Destroy
    BY DEF Begin, StartRefused, StartServer, Spawn, SpawnUnconnected,
       SpawnUnforked, SpawnHalf, Destroy
  <2>8. ~Around
    BY DEF Around, ClientArrives, PeerCloses, CtrlC
  <2> QED
    BY <2>1, <2>2, <2>3, <2>4, <2>5, <2>6, <2>7, <2>8 DEF Next, Step, Dispatch
<1> QED
  BY <1>1, Invariance, PTL DEF Spec, OthersSurvive

\* The loop stops with the removal of its last connection.
THEOREM LastDoesEnd == Spec => LastEnds
<1> DEFINE A == connections # {} /\ connections' = {} => phase' = "stopped"
<1>1. IInv /\ [Next]_vars => [A]_vars
  <2> SUFFICES ASSUME IInv, Next, connections # {}, connections' = {}
               PROVE  phase' = "stopped"
    OBVIOUS
  <2>0. TypeOK /\ mode' = mode
    BY DEF IInv, Next
  <2>1. ASSUME NEW fd \in Fd, HangUp(fd) PROVE phase' = "stopped"
    BY <2>0, <2>1, Removal DEF HangUp, TypeOK
  <2>2. ASSUME NEW fd \in Fd, Relayed(fd) PROVE phase' = "stopped"
    <3>1. message' \in Conns \cup {NoConn}
      BY <2>2, FdsOf DEF Relayed
    <3>2. RemoveConnection(fd[1], fd)
      BY <2>2 DEF Relayed, data
    <3> QED
      BY <2>0, <2>2, <3>1, <3>2, Removal DEF Relayed
  <2>3. ASSUME NEW fd \in Fd, Broken(fd) PROVE phase' = "stopped"
    <3>1. message' \in Conns \cup {NoConn}
      BY <2>0, <2>3, FdsOf DEF Broken, TypeOK
    <3> QED
      BY <2>0, <2>3, <3>1, Removal DEF Broken, TypeOK
  <2>4. ~EpollFails /\ ~ChildExited /\ ~Interrupted /\ ~Prompt
    BY DEF EpollFails, ChildExited, Interrupted, Prompt, data
  <2>5. \A c \in Conns : ~Accept(c) /\ ~AcceptFails(c)
    BY DEF Accept, AcceptFails, AddConnection, data
  <2>6. ~Begin
    BY DEF Begin, StartRefused, StartServer, Spawn, AddConnection,
       SpawnUnconnected, SpawnUnforked, SpawnHalf, data
  <2>7. ~Destroy /\ ~Around
    BY DEF Destroy, Around, ClientArrives, PeerCloses, CtrlC, data
  <2> QED
    BY <2>1, <2>2, <2>3, <2>4, <2>5, <2>6, <2>7 DEF Next, Step, Dispatch
<1> QED
  BY <1>1, Invariance, PTL DEF Spec, LastEnds
=============================================================================
