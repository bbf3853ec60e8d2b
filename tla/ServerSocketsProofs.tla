------------------------ MODULE ServerSocketsProofs ------------------------
(***************************************************************************)
(* Proofs about ServerSockets, for every set of instances and any number   *)
(* of starts: instances that follow one another put themselves between and *)
(* go away again without losing the compositor's socket, and instances     *)
(* with an address keep out of each other's way even when they are killed. *)
(***************************************************************************)
EXTENDS ServerSockets, TLAPS

\* What mixed says: without an address, an instance is the only one.
Apart ==
    \A v, w \in Wldbgs : pc[v] # "off" /\ pc[w] # "off" /\ v \notin direct => v = w

\* From its bind to its unlink the name is the instance's, and from its lock to
\* its unlock the lock is.
DirectInv ==
    \A w \in direct :
       /\ pc[w] \in {"bound", "serving", "leaving", "unlinked"} => name["display"] = w
       /\ pc[w] \in {"serving", "leaving"} => lock = w

Idle(w) == pc[w] \in {"off", "starting"}

\* With a compositor at the name, no instance with an address gets anywhere, and
\* the sockets are laid out as the pc of the one without says.
Between ==
    /\ \A w \in direct : Idle(w)
    /\ (\A w \in Wldbgs : Idle(w)) => name = [display |-> "compositor", aside |-> "none"]
    /\ \A w \in Wldbgs \ direct :
          /\ pc[w] \in {"renamed", "unlinked"}
                => name = [display |-> "none", aside |-> "compositor"]
          /\ pc[w] \in {"serving", "leaving"}
                => name = [display |-> w, aside |-> "compositor"]

\* With none, no instance without an address does, and the name and the lock are
\* nobody's but those instances' that are past their bind and their lock.
InPlace ==
    /\ \A w \in Wldbgs \ direct : Idle(w)
    /\ name["aside"] = "none"
    /\ \/ name["display"] = "none"
       \/ \E w \in direct : ~Idle(w) /\ name["display"] = w
    /\ \/ lock = "none"
       \/ \E w \in direct : pc[w] \in {"serving", "leaving"} /\ lock = w

CalmInv ==
    /\ \A w \in Wldbgs : pc[w] # "undefined"
    /\ lock = "compositor" => Between
    /\ lock # "compositor" => InPlace

IInv ==
    /\ TypeOK
    /\ ~mixed => Apart /\ DirectInv
    /\ Calm => CalmInv

-----------------------------------------------------------------------------

\* It all starts from the compositor's own layout.
LEMMA InitInv == Init => IInv
<1> SUFFICES ASSUME Init PROVE IInv
  OBVIOUS
<1>1. TypeOK
  <2>1. mixed \in BOOLEAN /\ killed \in BOOLEAN
    BY Zenon DEF Init
  <2>2. name \in [Name -> Socket] /\ lock \in {"none", "compositor"}
    BY DEF Init, Name, Socket
  <2>3. pc \in [Wldbgs -> Pc] /\ \A w \in Wldbgs : pc[w] = "off"
    BY DEF Init, Pc
  <2>4. starts \in [Wldbgs -> 0 .. MaxStarts] /\ direct \subseteq Wldbgs
    BY ServerSocketsAssumption DEF Init
  <2> QED
    BY <2>1, <2>2, <2>3, <2>4 DEF TypeOK
<1>2. Apart /\ DirectInv
  BY DEF Init, Apart, DirectInv
<1>3. /\ \A w \in Wldbgs : pc[w] = "off"
      /\ direct = {}
      /\ name["aside"] = "none" /\ name["display"] = lock /\ lock \in {"none", "compositor"}
  BY DEF Init, Name
<1>4. lock = "compositor" => name = [display |-> "compositor", aside |-> "none"]
  BY DEF Init, Name
<1>5. CalmInv
  BY <1>3, <1>4 DEF CalmInv, Between, InPlace, Idle
<1> QED
  BY <1>1, <1>2, <1>5 DEF IInv

\* Types, for every mixture of instances.
LEMMA TypeStep == TypeOK /\ [Next]_vars => TypeOK'
<1> SUFFICES ASSUME TypeOK, [Next]_vars PROVE TypeOK'
  OBVIOUS
<1> USE ServerSocketsAssumption DEF TypeOK, Name, Socket, Pc, Goes, history
<1>1. ASSUME NEW w \in Wldbgs, Start(w) PROVE TypeOK'
  BY <1>1 DEF Start
<1>2. ASSUME NEW w \in Wldbgs, Rename(w) PROVE TypeOK'
  BY <1>2 DEF Rename
<1>3. ASSUME NEW w \in Wldbgs, Bind(w) PROVE TypeOK'
  BY <1>3 DEF Bind
<1>4. ASSUME NEW w \in Wldbgs, BindDirect(w) PROVE TypeOK'
  BY <1>4 DEF BindDirect
<1>5. ASSUME NEW w \in Wldbgs, Lock(w) PROVE TypeOK'
  BY <1>5 DEF Lock, Without
<1>6. ASSUME NEW w \in Wldbgs, Leave(w) PROVE TypeOK'
  BY <1>6 DEF Leave
<1>7. ASSUME NEW w \in Wldbgs, Unlink(w) PROVE TypeOK'
  BY <1>7 DEF Unlink
<1>8. ASSUME NEW w \in Wldbgs, RenameBack(w) PROVE TypeOK'
  BY <1>8 DEF RenameBack, Without
<1>9. ASSUME NEW w \in Wldbgs, Unlock(w) PROVE TypeOK'
  BY <1>9 DEF Unlock
<1>10. ASSUME NEW w \in Wldbgs, UnlinkDirect(w) PROVE TypeOK'
  BY <1>10 DEF UnlinkDirect, Without
<1>11. ASSUME NEW w \in Wldbgs, Kill(w) PROVE TypeOK'
  BY <1>11 DEF Kill, Without
<1>12. CASE UNCHANGED vars
  BY <1>12 DEF vars, history
<1> QED
  BY <1>1, <1>2, <1>3, <1>4, <1>5, <1>6, <1>7, <1>8, <1>9, <1>10, <1>11, <1>12
     DEF Next, SetUp, CleanUp

\* Without a mixture, an instance without an address stays the only one.
LEMMA ApartStep ==
    ASSUME TypeOK, Apart, ~mixed', [Next]_vars
    PROVE  Apart'
<1>0. /\ pc \in [Wldbgs -> Pc] /\ name \in [Name -> Socket]
      /\ Wldbgs \cap {"none", "compositor", "dead"} = {}
      /\ direct \subseteq Wldbgs /\ mixed \in BOOLEAN /\ killed \in BOOLEAN
      /\ "display" \in Name /\ "aside" \in Name
  BY ServerSocketsAssumption DEF TypeOK, Name
<1>1. ASSUME NEW w \in Wldbgs, Start(w) PROVE Apart'
  BY <1>0, <1>1 DEF Start, Goes, history, Apart
<1>2. ASSUME NEW w \in Wldbgs, Leave(w) PROVE Apart'
  BY <1>0, <1>2 DEF Leave, Goes, history, Apart
<1>3. ASSUME NEW w \in Wldbgs, Rename(w) PROVE Apart'
  BY <1>0, <1>3 DEF Rename, Goes, history, Apart
<1>4. ASSUME NEW w \in Wldbgs, Bind(w) PROVE Apart'
  BY <1>0, <1>4 DEF Bind, Goes, history, Apart
<1>5. ASSUME NEW w \in Wldbgs, BindDirect(w) PROVE Apart'
  BY <1>0, <1>5 DEF BindDirect, Goes, history, Apart
<1>6. ASSUME NEW w \in Wldbgs, Lock(w) PROVE Apart'
  BY <1>0, <1>6 DEF Lock, Goes, history, Without, Apart
<1>7. ASSUME NEW w \in Wldbgs, Unlink(w) PROVE Apart'
  BY <1>0, <1>7 DEF Unlink, Goes, history, Apart
<1>8. ASSUME NEW w \in Wldbgs, RenameBack(w) PROVE Apart'
  BY <1>0, <1>8 DEF RenameBack, Goes, history, Without, Apart
<1>9. ASSUME NEW w \in Wldbgs, Unlock(w) PROVE Apart'
  BY <1>0, <1>9 DEF Unlock, Goes, history, Apart
<1>10. ASSUME NEW w \in Wldbgs, UnlinkDirect(w) PROVE Apart'
  BY <1>0, <1>10 DEF UnlinkDirect, Goes, history, Without, Apart
<1>11. ASSUME NEW w \in Wldbgs, Kill(w) PROVE Apart'
  BY <1>0, <1>11 DEF Kill, Goes, history, Without, Apart
<1>12. CASE UNCHANGED vars
  BY <1>12 DEF vars, history, Apart
<1> QED
  BY <1>1, <1>2, <1>3, <1>4, <1>5, <1>6, <1>7, <1>8, <1>9, <1>10, <1>11, <1>12
     DEF Next, SetUp, CleanUp

\* Instances with an address: nobody else's call, and nobody else's death, takes
\* the name or the lock; an instance without an address is not there.
LEMMA DirectStep ==
    ASSUME TypeOK, Apart, DirectInv, ~mixed', [Next]_vars
    PROVE  DirectInv'
<1>0. /\ pc \in [Wldbgs -> Pc] /\ name \in [Name -> Socket]
      /\ Wldbgs \cap {"none", "compositor", "dead"} = {}
      /\ direct \subseteq Wldbgs /\ mixed \in BOOLEAN /\ killed \in BOOLEAN
      /\ "display" \in Name /\ "aside" \in Name
  BY ServerSocketsAssumption DEF TypeOK, Name
<1>1. ASSUME NEW w \in Wldbgs, Start(w) PROVE DirectInv'
  BY <1>0, <1>1 DEF Start, Goes, history, Apart, DirectInv, TypeOK
<1>2. ASSUME NEW w \in Wldbgs, Leave(w) PROVE DirectInv'
  BY <1>0, <1>2 DEF Leave, Goes, history, Apart, DirectInv, TypeOK
<1>3. ASSUME NEW w \in Wldbgs, Rename(w) PROVE DirectInv'
  BY <1>0, <1>3 DEF Rename, Goes, history, Apart, DirectInv, TypeOK
<1>4. ASSUME NEW w \in Wldbgs, Bind(w) PROVE DirectInv'
  BY <1>0, <1>4 DEF Bind, Goes, history, Apart, DirectInv, TypeOK
<1>5. ASSUME NEW w \in Wldbgs, BindDirect(w) PROVE DirectInv'
  BY <1>0, <1>5 DEF BindDirect, Goes, history, Apart, DirectInv, TypeOK
<1>6. ASSUME NEW w \in Wldbgs, Lock(w) PROVE DirectInv'
  BY <1>0, <1>6 DEF Lock, Goes, history, Without, Apart, DirectInv, TypeOK
<1>7. ASSUME NEW w \in Wldbgs, Unlink(w) PROVE DirectInv'
  BY <1>0, <1>7 DEF Unlink, Goes, history, Apart, DirectInv, TypeOK
<1>8. ASSUME NEW w \in Wldbgs, RenameBack(w) PROVE DirectInv'
  BY <1>0, <1>8 DEF RenameBack, Goes, history, Without, Apart, DirectInv, TypeOK
<1>9. ASSUME NEW w \in Wldbgs, Unlock(w) PROVE DirectInv'
  BY <1>0, <1>9 DEF Unlock, Goes, history, Apart, DirectInv, TypeOK
<1>10. ASSUME NEW w \in Wldbgs, UnlinkDirect(w) PROVE DirectInv'
  BY <1>0, <1>10 DEF UnlinkDirect, Goes, history, Without, Apart, DirectInv, TypeOK
<1>11. ASSUME NEW w \in Wldbgs, Kill(w) PROVE DirectInv'
  BY <1>0, <1>11 DEF Kill, Goes, history, Without, Apart, DirectInv, TypeOK
<1>12. CASE UNCHANGED vars
  BY <1>12 DEF vars, history, Apart, DirectInv, TypeOK
<1> QED
  BY <1>1, <1>2, <1>3, <1>4, <1>5, <1>6, <1>7, <1>8, <1>9, <1>10, <1>11, <1>12
     DEF Next, SetUp, CleanUp

\* With neither mixture nor kill, each call moves the sockets to the next layout.
LEMMA CalmStep ==
    ASSUME TypeOK, Apart, DirectInv, CalmInv, Calm', [Next]_vars
    PROVE  CalmInv'
<1>0. /\ pc \in [Wldbgs -> Pc] /\ name \in [Name -> Socket]
      /\ Wldbgs \cap {"none", "compositor", "dead"} = {}
      /\ direct \subseteq Wldbgs /\ mixed \in BOOLEAN /\ killed \in BOOLEAN
      /\ "display" \in Name /\ "aside" \in Name
  BY ServerSocketsAssumption DEF TypeOK, Name
<1>1. ASSUME NEW w \in Wldbgs, Start(w) PROVE CalmInv'
  BY <1>0, <1>1 DEF Start, Goes, history, CalmInv, Apart, DirectInv, Between, InPlace, Idle, Name, TypeOK, Calm
<1>2. ASSUME NEW w \in Wldbgs, Leave(w) PROVE CalmInv'
  BY <1>0, <1>2 DEF Leave, Goes, history, CalmInv, Apart, DirectInv, Between, InPlace, Idle, Name, TypeOK, Calm
<1>3. ASSUME NEW w \in Wldbgs, Rename(w) PROVE CalmInv'
  BY <1>0, <1>3 DEF Rename, Goes, history, CalmInv, Apart, DirectInv, Between, InPlace, Idle, Name, TypeOK, Calm
<1>4. ASSUME NEW w \in Wldbgs, Bind(w) PROVE CalmInv'
  BY <1>0, <1>4 DEF Bind, Goes, history, CalmInv, Apart, DirectInv, Between, InPlace, Idle, Name, TypeOK, Calm
<1>5. ASSUME NEW w \in Wldbgs, BindDirect(w) PROVE CalmInv'
  BY <1>0, <1>5 DEF BindDirect, Goes, history, CalmInv, Apart, DirectInv, Between, InPlace, Idle, Name, TypeOK, Calm
<1>6. ASSUME NEW w \in Wldbgs, Lock(w) PROVE CalmInv'
  BY <1>0, <1>6 DEF Lock, Goes, history, Without, CalmInv, Apart, DirectInv, Between, InPlace, Idle, Name, TypeOK, Calm
<1>7. ASSUME NEW w \in Wldbgs, Unlink(w) PROVE CalmInv'
  <2>1. /\ pc[w] = "leaving" /\ w \notin direct /\ lock' = lock /\ direct' = direct
        /\ pc' = [pc EXCEPT ![w] = "unlinked"]
        /\ name' = [name EXCEPT !["display"] = "none"]
    BY <1>7 DEF Unlink, Goes
  <2>2. lock = "compositor" /\ name = [display |-> w, aside |-> "compositor"]
    BY <2>1 DEF CalmInv, InPlace, Between, Idle
  <2>3. name' = [display |-> "none", aside |-> "compositor"]
    BY <2>1, <2>2
  <2>4. \A v \in Wldbgs : v # w => pc[v] = "off"
    BY <2>1 DEF Apart
  <2>5. \A v \in Wldbgs : pc'[v] = IF v = w THEN "unlinked" ELSE "off"
    BY <1>0, <2>1, <2>4
  <2> QED
    BY <1>0, <2>1, <2>2, <2>3, <2>5 DEF CalmInv, Between, Idle
<1>8. ASSUME NEW w \in Wldbgs, RenameBack(w) PROVE CalmInv'
  <2>1. /\ pc[w] = "unlinked" /\ w \notin direct /\ lock' = lock /\ direct' = direct
        /\ pc' = [pc EXCEPT ![w] = "off"]
    BY <1>8 DEF RenameBack, Goes
  <2>2. /\ lock = "compositor" /\ Between
        /\ name = [display |-> "none", aside |-> "compositor"]
    BY <2>1 DEF CalmInv, InPlace, Between, Idle
  <2>3. name' = [display |-> "compositor", aside |-> "none"]
    <3> DEFINE back == [display |-> "compositor", aside |-> "none"]
    <3>1. name' = Without(w, back)
      BY <1>8, <2>2 DEF RenameBack
    <3>2. \A n \in Name : back[n] # w
      BY <1>0 DEF Name
    <3> QED
      BY <3>1, <3>2 DEF Without, Name
  <2>4. \A v \in Wldbgs : v # w => pc[v] = "off"
    BY <2>1 DEF Apart
  <2>5. \A v \in Wldbgs : pc'[v] = "off"
    BY <1>0, <2>1, <2>4
  <2> QED
    BY <1>0, <2>1, <2>2, <2>3, <2>5 DEF CalmInv, Between, Idle
<1>9. ASSUME NEW w \in Wldbgs, Unlock(w) PROVE CalmInv'
  BY <1>0, <1>9 DEF Unlock, Goes, history, CalmInv, Apart, DirectInv, Between, InPlace, Idle, Name, TypeOK, Calm
<1>10. ASSUME NEW w \in Wldbgs, UnlinkDirect(w) PROVE CalmInv'
  BY <1>0, <1>10 DEF UnlinkDirect, Goes, history, Without, CalmInv, Apart, DirectInv, Between, InPlace, Idle, Name, TypeOK, Calm
<1>11. ASSUME NEW w \in Wldbgs, Kill(w) PROVE CalmInv'
  BY <1>0, <1>11 DEF Kill, Goes, history, Without, CalmInv, Apart, DirectInv, Between, InPlace, Idle, Name, TypeOK, Calm
<1>12. CASE UNCHANGED vars
  BY <1>12 DEF vars, history, CalmInv, Apart, DirectInv, Between, InPlace, Idle, Name, TypeOK, Calm
<1> QED
  BY <1>1, <1>2, <1>3, <1>4, <1>5, <1>6, <1>7, <1>8, <1>9, <1>10, <1>11, <1>12
     DEF Next, SetUp, CleanUp

\* History only grows.
LEMMA HistoryStep ==
    ASSUME TypeOK, [Next]_vars
    PROVE  (~mixed' => ~mixed) /\ (Calm' => Calm)
BY DEF TypeOK, Next, SetUp, CleanUp, vars, history, Calm, Start, Rename, Bind, BindDirect,
       Lock, Leave, Unlink, RenameBack, Unlock, UnlinkDirect, Kill

\* The invariant holds throughout.
LEMMA Invariance == Spec => []IInv
<1>1. IInv /\ [Next]_vars => IInv'
  <2> SUFFICES ASSUME IInv, [Next]_vars PROVE IInv'
    OBVIOUS
  <2>1. TypeOK /\ TypeOK'
    BY TypeStep DEF IInv
  <2>2. ASSUME ~mixed' PROVE Apart' /\ DirectInv'
    BY <2>1, <2>2, HistoryStep, ApartStep, DirectStep DEF IInv
  <2>3. ASSUME Calm' PROVE CalmInv'
    BY <2>1, <2>3, HistoryStep, CalmStep DEF IInv, Calm
  <2> QED
    BY <2>1, <2>2, <2>3 DEF IInv
<1> QED
  BY InitInv, <1>1, PTL DEF Spec

-----------------------------------------------------------------------------

\* Type correctness, for every mixture of instances, overlapping and killed.
THEOREM SocketsTypeCorrect == Spec => []TypeOK
<1>1. IInv => TypeOK
  BY DEF IInv
<1> QED
  BY <1>1, Invariance, PTL

\* Instances that follow one another redirect every client through themselves to
\* the compositor while they serve.
THEOREM Redirects == Spec => []Redirected
<1>1. IInv => Redirected
  <2> SUFFICES ASSUME TypeOK, CalmInv, NEW w \in Wldbgs \ direct, pc[w] = "serving"
               PROVE  /\ name["display"] \in {v \in Wldbgs : pc[v] = "serving"}
                      /\ name["aside"] = "compositor"
    BY DEF IInv, Redirected, Redirecting
  <2>1. name = [display |-> w, aside |-> "compositor"]
    BY DEF CalmInv, InPlace, Between, Idle
  <2> QED
    BY <2>1
<1> QED
  BY <1>1, Invariance, PTL

\* They keep the compositor's socket at one of the names, and put it back.
THEOREM KeepsCompositor == Spec => []CompositorKept
<1>1. IInv => CompositorKept
  <2> SUFFICES ASSUME IInv, Calm, lock = "compositor"
               PROVE  /\ \E n \in Name : name[n] = "compositor"
                      /\ (\A w \in Wldbgs : pc[w] = "off")
                            => name = [display |-> "compositor", aside |-> "none"]
    BY DEF CompositorKept
  <2> TypeOK /\ CalmInv
    BY DEF IInv
  <2>3. (\A w \in Wldbgs : pc[w] = "off") => name = [display |-> "compositor", aside |-> "none"]
    BY DEF CalmInv, Between, Idle
  <2>1. CASE \A w \in Wldbgs : Idle(w)
    BY <2>1, <2>3 DEF CalmInv, Between, Name
  <2>2. CASE \E w \in Wldbgs : ~Idle(w)
    <3>1. PICK w \in Wldbgs : ~Idle(w)
      BY <2>2
    <3>2. w \notin direct /\ pc[w] \in {"renamed", "unlinked", "serving", "leaving"}
      BY <3>1 DEF CalmInv, Between, Idle, TypeOK, Pc
    <3>3. name["aside"] = "compositor"
      BY <3>2 DEF CalmInv, Between
    <3> QED
      BY <2>3, <3>3 DEF Name
  <2> QED
    BY <2>1, <2>2, <2>3
<1> QED
  BY <1>1, Invariance, PTL

\* Instances with an address exclude each other, killed or not, and clean up
\* after themselves.
THEOREM DirectExcludes == Spec => []DirectExclusive
<1>1. IInv => (~mixed => \A w \in direct :
                 pc[w] = "serving" => name["display"] = w /\ lock = w)
  BY DEF IInv, DirectInv
<1>2. IInv => (Calm /\ (\A w \in Wldbgs : pc[w] = "off") /\ lock # "compositor"
                 => name["display"] = "none" /\ lock = "none")
  BY DEF IInv, CalmInv, InPlace, Idle, TypeOK
<1>3. IInv => DirectExclusive
  BY <1>1, <1>2, Zenon DEF DirectExclusive
<1> QED
  BY <1>3, Invariance, PTL

=============================================================================
