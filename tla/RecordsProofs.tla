---------------------------- MODULE RecordsProofs ----------------------------
(***************************************************************************)
(* What wldbg prints of a message, and what it remembers of a client's     *)
(* objects, for every protocol that ObjInfoAssumption allows, any number   *)
(* of ids, any lengths of the queues and any objects the client begins     *)
(* with.  It stands on Lives of ObjInfoProofs, which says of every id      *)
(* where the messages are that make, end and release its object.           *)
(*                                                                         *)
(* An argument names an object by its id alone, and neither the message    *)
(* nor the table says which of the objects that had the id is meant.       *)
(* Naming says it by the order of the queues: a request names what the     *)
(* client still sees, or what it ends by a request behind it; an event     *)
(* names what the table shows, or will show when it comes to wldbg.  Then  *)
(* what is printed is what was meant.                                      *)
(*                                                                         *)
(* A record is found by an id alone, too, and taken for one of the kind of *)
(* the message.  Records says of what kind it is before the request that   *)
(* makes it has come to wldbg, while its object lives and when the object  *)
(* is over, and Buffers which buffers have one.  From both follows that    *)
(* every handler finds a record of its own kind.                           *)
(*                                                                         *)
(* What a record says is behind what the peers say by the messages on      *)
(* their way to wldbg.  Surfaces has, for every surface, the accounts that *)
(* the client would have given at each of them, the first of which is the  *)
(* record's and the last the client's own.  XdgSurfaces has the number of  *)
(* configures that have come to wldbg: the ring of the record shows the    *)
(* last of them, and those behind it are on their way in their order.      *)
(***************************************************************************)
EXTENDS ObjInfoProofs, FiniteSetTheorems

-----------------------------------------------------------------------------
(* The objects that messages name. *)

\* What the sender of m takes the object for that it names.
TakenFor(m, which) == Protocol[m.intf][which][m.op].takes

\* m is written as the protocol has it.
Written(m, which) ==
    LET msg == Protocol[m.intf][which][m.op]
    IN  /\ m.data = Wire(m.id, m.op, msg.sig, m.arg) /\ m.arg \in ArgsOf(msg)
        /\ m.arg.obj # 0 => "o" \in Range(msg.sig)
        /\ m.arg.obj = 0 => ~("o" \in Range(msg.sig) /\ "?" \notin Range(msg.sig))

IsDelete(m) == \E n \in ClientId : m = DeleteId(n)

\* m stands before n in q.
InOrder(q, m, n) == \E j, k \in 1 .. Len(q) : j < k /\ q[j] = m /\ q[k] = n

\* A request m before n: an object is not named once it is ended, nor before it
\* is made, and until it is ended it is what the last request about it says.
OutPair(m, n) ==
    /\ m.ends => n.arg.obj # m.id
    /\ n.arg.new # 0 => m.arg.obj # n.arg.new
    /\ n.ends /\ m.arg.obj = n.id => TakenFor(m, "requests") = n.intf

\* ... and the same of one request.
OutOwn(m) ==
    /\ m.arg.new # 0 => m.arg.obj # m.arg.new
    /\ m.ends /\ m.arg.obj = m.id => TakenFor(m, "requests") = m.intf

\* An event m before n: an object is not named once it is released, and what it
\* was made as is what it is named as.
InPair(m, n) ==
    /\ IsDelete(m) => n.arg.obj # m.data[3]
    /\ m.arg.new # 0 /\ n.arg.obj = m.arg.new => TakenFor(n, "events") = m.arg.made

\* Requests name what the client sees, or has ended by a request behind.
NamesOut(m) ==
    LET x == m.arg.obj
    IN  x # 0 => \/ client[x] = TakenFor(m, "requests")
                 \/ client[x] \in NoObject /\ ~Lasting(Range(Here), x)

\* Events name what the table shows, or what it will show by then.
NamesIn(k) ==
    LET m == Coming[k]
        x == m.arg.obj
    IN  x # 0 => /\ \/ \E j \in 1 .. k - 1 : Coming[j].arg.new = x
                    \/ GetObject(x) = Shown(TakenFor(m, "events"))
                 /\ x \in ClientId /\ server[x] = "none" => ~Held(Range(Coming), x)
                 /\ m.arg.new # x

Naming ==
    /\ \A m \in Range(Here) : Written(m, "requests") /\ OutOwn(m) /\ NamesOut(m)
    /\ \A m \in Range(Coming) : IsDelete(m) \/ Written(m, "events")
    /\ \A m, n : InOrder(Here, m, n) => OutPair(m, n)
    /\ \A m, n : InOrder(Coming, m, n) => InPair(m, n)
    /\ \A k \in 1 .. Len(Coming) : NamesIn(k)

-----------------------------------------------------------------------------
(* Order in a queue. *)

LEMMA OrderTail ==
    ASSUME NEW q, IsSeq(q), q # <<>>
    PROVE  /\ \A m, n : InOrder(Tail(q), m, n) => InOrder(q, m, n)
           /\ \A n \in Range(Tail(q)) : InOrder(q, Head(q), n)
<1> DEFINE t == Tail(q)
<1>1. /\ IsSeq(t) /\ Len(q) \in Nat \ {0} /\ Head(q) = q[1] /\ Len(t) = Len(q) - 1
      /\ \A k \in 1 .. Len(q) - 1 : t[k] = q[k + 1]
  BY TailIs
<1>2. Range(t) = {t[k] : k \in 1 .. Len(t)}
  BY <1>1, SeqIs
<1> HIDE DEF t
<1>3. ASSUME NEW m, NEW n, InOrder(t, m, n) PROVE InOrder(q, m, n)
  <2>1. PICK j \in 1 .. Len(t), k \in 1 .. Len(t) : j < k /\ t[j] = m /\ t[k] = n
    BY <1>3 DEF InOrder
  <2>2. /\ j + 1 \in 1 .. Len(q) /\ k + 1 \in 1 .. Len(q) /\ j + 1 < k + 1
        /\ q[j + 1] = m /\ q[k + 1] = n
    BY <1>1, <2>1
  <2> QED BY <2>2 DEF InOrder
<1>4. ASSUME NEW n \in Range(t) PROVE InOrder(q, Head(q), n)
  <2>1. PICK k \in 1 .. Len(t) : t[k] = n
    BY <1>2
  <2>2. 1 \in 1 .. Len(q) /\ k + 1 \in 1 .. Len(q) /\ 1 < k + 1 /\ q[k + 1] = n
    BY <1>1, <2>1
  <2> QED BY <1>1, <2>2 DEF InOrder
<1> QED BY <1>3, <1>4 DEF t

LEMMA OrderAppend ==
    ASSUME NEW q, IsSeq(q), NEW a, NEW m, NEW n, InOrder(Append(q, a), m, n)
    PROVE  InOrder(q, m, n) \/ (m \in Range(q) /\ n = a)
<1> DEFINE r == Append(q, a)
<1>1. /\ Len(r) = Len(q) + 1 /\ r[Len(q) + 1] = a
      /\ \A k \in 1 .. Len(q) : r[k] = q[k]
  BY AppendIs
<1>2. Len(q) \in Nat /\ \A k \in 1 .. Len(q) : q[k] \in Range(q)
  BY SeqIs
<1> HIDE DEF r
<1>3. PICK j \in 1 .. Len(r), k \in 1 .. Len(r) : j < k /\ r[j] = m /\ r[k] = n
  BY DEF InOrder, r
<1>4. j \in 1 .. Len(q) /\ q[j] = m
  BY <1>1, <1>2, <1>3
<1>5. CASE k \in 1 .. Len(q)
  BY <1>1, <1>3, <1>4, <1>5 DEF InOrder
<1>6. CASE k \notin 1 .. Len(q)
  <2>1. k = Len(q) + 1
    BY <1>1, <1>2, <1>3, <1>6
  <2> QED BY <1>1, <1>2, <1>3, <1>4, <2>1
<1> QED BY <1>5, <1>6

LEMMA OrderIn ==
    ASSUME NEW q, IsSeq(q), NEW m, NEW n, InOrder(q, m, n)
    PROVE  m \in Range(q) /\ n \in Range(q)
BY SeqIs DEF InOrder

\* What a part says of the order.
LEMMA PartsOrder ==
    ASSUME NEW q, IsSeq(q), NEW p \in Parts(q)
    PROVE  /\ \A m \in p.before : InOrder(q, m, p.at)
           /\ \A n \in p.after : InOrder(q, p.at, n)
<1>1. Len(q) \in Nat
  BY SeqIs
<1>2. PICK j \in 1 .. Len(q) : p = Part(q, j)
  BY DEF Parts
<1>3. /\ p.before = {q[k] : k \in 1 .. j - 1} /\ p.at = q[j]
      /\ p.after = {q[k] : k \in j + 1 .. Len(q)}
  BY <1>2 DEF Part
<1>4. ASSUME NEW m \in p.before PROVE InOrder(q, m, p.at)
  <2>1. PICK k \in 1 .. j - 1 : m = q[k]
    BY <1>3
  <2>2. k \in 1 .. Len(q) /\ k < j
    BY <1>1, <2>1
  <2> QED BY <1>3, <2>1, <2>2 DEF InOrder
<1>5. ASSUME NEW n \in p.after PROVE InOrder(q, p.at, n)
  <2>1. PICK k \in j + 1 .. Len(q) : n = q[k]
    BY <1>3
  <2>2. k \in 1 .. Len(q) /\ j < k
    BY <1>1, <2>1
  <2> QED BY <1>3, <2>1, <2>2 DEF InOrder
<1> QED BY <1>4, <1>5

-----------------------------------------------------------------------------
(* What the stages say of the client's and the compositor's view. *)

\* What is ended on its way to wldbg the client sees no more.
LEMMA EndedOut ==
    ASSUME Lives, NEW e \in Range(Here), e.ends
    PROVE  client[e.id] \in NoObject
<1>1. IsRequest(e) /\ IsSeq(Here) /\ Display
  BY DEF Lives, Queues
<1>2. e.id \in Id /\ e.intf \in Interface /\ (e.intf = "display" => ~e.ends)
  BY <1>1, RequestFacts
<1>3. ~Silent(Range(Here), e.id) /\ ~Lasting(Range(Here), e.id)
  BY DEF Silent, Lasting
<1>4. e.id # 1
  BY <1>1, <1>2 DEF Display, Saying
<1>5. \A i, z : Speaks(e.id, i, z) => client[e.id] = z
  BY <1>3 DEF Speaks
<1>6. CASE e.id \in ClientId
  <2>1. Clients(e.id)
    BY <1>6 DEF Lives
  <2>2. client[e.id] = "zombie"
    BY <1>3, <1>5, <2>1 DEF Clients, Unused, Unasked, Asked, Seen, Known, Released, Gone, Ended
  <2> QED BY <2>2 DEF NoObject
<1>7. CASE e.id \in ServerId
  <2>1. Servers(e.id)
    BY <1>7 DEF Lives
  <2>2. client[e.id] = "none"
    BY <1>5, <2>1 DEF Servers, Vacant, Announced, Introduced, Unsaid, Present
  <2> QED BY <2>2 DEF NoObject
<1> QED BY <1>2, <1>4, <1>6, <1>7, IdFacts

\* Of an id without an object there is nothing on its way to wldbg, and none of
\* its objects is going to be made.
LEMMA NoneOut ==
    ASSUME Lives, NEW x \in ClientId, client[x] = "none"
    PROVE  Unused(x)
<1>1. Clients(x) /\ "none" \notin Interface
  BY TableWords DEF Lives, NoObject
<1> QED BY <1>1 DEF Clients, Asked, Seen, Known, Released, Gone, Ended, Speaks

LEMMA NoneIn ==
    ASSUME Lives, NEW y \in ServerId, client[y] = "none", y \in Id
    PROVE  Lasting(Range(Here), y) => Silent(Range(Here), y)
<1>1. Servers(y) /\ IsSeq(Here) /\ "none" \notin Interface
  BY TableWords DEF Lives, Queues, NoObject
<1>2. ASSUME NEW i \in Interface, Present(y, i), Lasting(Range(Here), y)
      PROVE  Silent(Range(Here), y)
  <2>1. ~EndsLast(Here, y)
    <3> SUFFICES ASSUME EndsLast(Here, y) PROVE FALSE
      OBVIOUS
    <3>1. PICK p \in Parts(Here) : p.at.id = y /\ p.at.ends
      BY DEF EndsLast
    <3>2. p.at \in Range(Here)
      BY <1>1, PartsAre
    <3> QED BY <1>2, <3>1, <3>2 DEF Lasting
  <2> QED BY <1>1, <1>2, <2>1 DEF Present, Speaks
<1> QED BY <1>1, <1>2 DEF Servers, Vacant, Announced, Introduced, Unsaid

-----------------------------------------------------------------------------
(* Naming is kept. *)

\* What a message that is written says of the object it names.
LEMMA WrittenIs ==
    ASSUME NEW which \in {"requests", "events"}, NEW m, m.intf \in Interface,
           m.op \in DOMAIN Protocol[m.intf][which], Written(m, which), m.arg.obj # 0
    PROVE  /\ m.arg.obj \in Id /\ TakenFor(m, which) \in Interface
           /\ which = "requests" => ~Fleeting(TakenFor(m, which))
<1> DEFINE msg == Protocol[m.intf][which][m.op]
<1>1. "o" \in Range(msg.sig) /\ m.arg \in ArgsOf(msg)
  BY DEF Written
<1>2. "o" \in Range(msg.sig) =>
         msg.takes \in Interface /\ (which = "requests" => ~Fleeting(msg.takes))
  BY ObjInfoAssumption DEF Legible
<1>3. m.arg.obj \in {0} \cup Id
  <2> HIDE DEF msg
  <2> QED BY <1>1 DEF ArgsOf
<1> QED BY <1>1, <1>2, <1>3 DEF TakenFor

LEMMA MeaningIs ==
    ASSUME NEW which \in {"requests", "events"}, NEW m, NEW view, Meaning(m, which, view)
    PROVE  /\ Written(m, which)
           /\ m.arg.obj # 0 => m.arg.obj \in Id /\ view[m.arg.obj] = TakenFor(m, which)
<1> DEFINE msg == Protocol[m.intf][which][m.op]
<1>1. /\ m.data = Wire(m.id, m.op, msg.sig, m.arg) /\ m.arg \in ArgsOf(msg)
      /\ m.arg.obj \in Named(msg, view)
  BY DEF Meaning
<1> HIDE DEF msg
<1>2. /\ "o" \notin Range(msg.sig) => m.arg.obj = 0
      /\ m.arg.obj # 0 => m.arg.obj \in Id /\ view[m.arg.obj] = msg.takes
      /\ "o" \in Range(msg.sig) /\ "?" \notin Range(msg.sig) => m.arg.obj \in Id
  BY <1>1 DEF Named
<1>3. "o" \in Range(msg.sig) /\ "?" \notin Range(msg.sig) => m.arg.obj # 0
  BY <1>2, IdFacts
<1> QED BY <1>1, <1>2, <1>3 DEF Written, TakenFor, msg

\* A request on its way names an object of an interface that no event ends.
LEMMA RequestNames ==
    ASSUME Lives, Naming, NEW m \in Range(Here), m.arg.obj # 0
    PROVE  /\ m.arg.obj \in Id /\ TakenFor(m, "requests") \in Interface
           /\ TakenFor(m, "requests") \notin NoObject /\ ~Fleeting(TakenFor(m, "requests"))
<1>1. IsRequest(m) /\ Written(m, "requests")
  BY DEF Lives, Queues, Naming
<1>2. m.intf \in Interface /\ m.op \in DOMAIN Protocol[m.intf].requests
  BY <1>1 DEF IsRequest, IsMessage
<1> QED BY <1>1, <1>2, WrittenIs, TableWords

\* Where nothing is on its way nothing is named.
LEMMA NamingInit ==
    ASSUME Here = <<>>, Coming = <<>>
    PROVE  Naming
<1>1. Range(Here) = {} /\ Range(Coming) = {} /\ Len(Here) = 0 /\ Len(Coming) = 0
  BY NothingSays
<1>2. 1 .. 0 = {}
  OBVIOUS
<1> QED BY <1>1, <1>2 DEF Naming, InOrder

\* A new request names what the client sees, and what it makes or ends nobody
\* names who wrote before.
LEMMA RequestsNaming ==
    ASSUME Lives, Naming, ClientRequests
    PROVE  Naming'
<1>0. PICK m :
        /\ IsRequest(m) /\ client[m.id] = m.intf /\ Meaning(m, "requests", client)
        /\ m.arg.new # 0 => client[m.arg.new] = "none"
        /\ Here' = Append(Here, m) /\ Coming' = Coming /\ server' = server
        /\ client' = [n \in Id |->
              IF n = m.arg.new THEN m.arg.made
              ELSE IF n = m.id /\ m.ends
                   THEN IF n \in ClientId THEN "zombie" ELSE "none"
                   ELSE client[n]]
        /\ UNCHANGED <<client_objects, server_objects>>
  BY ClientRequestsIs DEF Lives
<1> DEFINE x == m.arg.obj
           T(n) == TakenFor(n, "requests")
<1>1. /\ m.id \in Id /\ m.intf \in Interface /\ m.arg.new \in ClientId \cup {0}
      /\ m.op \in DOMAIN Protocol[m.intf].requests
      /\ m.intf \notin NoObject /\ "none" \in NoObject /\ "zombie" \in NoObject
      /\ 0 \notin Id /\ ClientId \subseteq Id
  BY <1>0, RequestFacts, TableWords, IdFacts DEF IsRequest, IsMessage, NoObject
<1>2. Written(m, "requests") /\ (x # 0 => x \in Id /\ client[x] = T(m))
  BY <1>0, MeaningIs
<1>3. x # 0 => T(m) \in Interface /\ T(m) \notin NoObject
  BY <1>1, <1>2, WrittenIs, TableWords
<1>4. IsSeq(Here) /\ Range(Here') = Range(Here) \cup {m}
  BY <1>0, AppendIs DEF Lives, Queues
<1>5. ASSUME NEW n \in Range(Here), n.arg.obj # 0
      PROVE  /\ n.arg.obj \in Id /\ T(n) \notin NoObject
             /\ client[n.arg.obj] = T(n) \/ (client[n.arg.obj] \in NoObject
                                             /\ ~Lasting(Range(Here), n.arg.obj))
  BY <1>5, RequestNames DEF Naming, NamesOut
<1>6. ASSUME NEW n \in Range(Here), m.arg.new # 0 PROVE n.arg.obj # m.arg.new
  <2>1. Lasting(Range(Here), m.arg.new)
    <3>1. Unused(m.arg.new)
      BY <1>0, <1>1, <1>6, NoneOut
    <3> QED BY <3>1, SilentSays DEF Unused, Unasked
  <2> QED BY <1>0, <1>1, <1>5, <1>6, <2>1
<1>7. OutOwn(m)
  BY <1>0, <1>1, <1>2, <1>3 DEF OutOwn
<1>8. ASSUME NEW n \in Range(Here) PROVE OutPair(n, m)
  <2>1. n.ends => x # n.id
    <3>1. n.ends => n.id \in Id /\ client[n.id] \in NoObject
      BY EndedOut, RequestFacts DEF Lives, Queues
    <3> QED BY <1>1, <1>2, <1>3, <3>1
  <2>2. m.ends /\ n.arg.obj = m.id => T(n) = m.intf
    BY <1>0, <1>1, <1>5
  <2> QED BY <1>6, <2>1, <2>2 DEF OutPair
<1>9. NamesOut(m)'
  <2>1. x = 0 \/ client'[x] = client[x] \/ (x = m.id /\ m.ends /\ client'[x] \in NoObject)
    BY <1>0, <1>1, <1>2, <1>3
  <2>2. m.ends => ~Lasting(Range(Here'), m.id)
    BY <1>4 DEF Lasting
  <2> QED BY <1>2, <2>1, <2>2 DEF NamesOut
<1>10. ASSUME NEW n \in Range(Here) PROVE NamesOut(n)'
  <2> DEFINE y == n.arg.obj
  <2>1. y # 0 => y \in Id /\ y # m.arg.new
    BY <1>1, <1>5, <1>6
  <2>2. y # 0 => client'[y] = client[y] \/ (y = m.id /\ m.ends /\ client'[y] \in NoObject)
    BY <1>0, <1>1, <2>1
  <2>3. m.ends => ~Lasting(Range(Here'), m.id)
    BY <1>4 DEF Lasting
  <2>4. ~Lasting(Range(Here), y) => ~Lasting(Range(Here'), y)
    BY <1>4 DEF Lasting
  <2> QED BY <1>5, <2>2, <2>3, <2>4 DEF NamesOut
<1>11. \A a, n : InOrder(Here', a, n) => OutPair(a, n)
  BY <1>0, <1>4, <1>8, OrderAppend DEF Naming
<1>12. \A k \in 1 .. Len(Coming) : NamesIn(k) => NamesIn(k)'
  BY <1>0 DEF NamesIn, GetObject
<1>13. \A n \in Range(Here') : Written(n, "requests") /\ OutOwn(n) /\ NamesOut(n)'
  BY <1>2, <1>4, <1>7, <1>9, <1>10 DEF Naming
<1>14. /\ \A n \in Range(Coming') : IsDelete(n) \/ Written(n, "events")
       /\ \A a, n : InOrder(Coming', a, n) => InPair(a, n)
       /\ \A k \in 1 .. Len(Coming') : NamesIn(k)'
  BY <1>0, <1>12 DEF Naming
<1> QED BY <1>11, <1>13, <1>14 DEF Naming

\* An object whose request for it wldbg takes no event names yet.
LEMMA ResolveOutNaming ==
    ASSUME Lives, Naming, ResolveOut
    PROVE  Naming'
<1> DEFINE m == Head(Here)
<1>0. /\ Here # <<>> /\ IsRequest(m) /\ Here' = Tail(Here) /\ Coming' = Coming
      /\ client' = client /\ server' = server
      /\ \A x \in Id : GetObject(x)' =
            IF x = m.arg.new THEN Shown(m.arg.made) ELSE GetObject(x)
  BY ResolveOutDoes
<1>1. /\ IsSeq(Here) /\ Range(Here) = {m} \cup Range(Here')
      /\ \A a, n : InOrder(Here', a, n) => InOrder(Here, a, n)
      /\ \A n \in Range(Here') : InOrder(Here, m, n)
  BY <1>0, TailIs, OrderTail DEF Lives, Queues
<1>2. m.arg.new \in ClientId \cup {0} /\ 0 \notin Id /\ ClientId \subseteq Id
  BY <1>0, RequestFacts, IdFacts
<1> HIDE DEF m
<1>3. m.arg.new # 0 => server[m.arg.new] = "none" /\ Held(Range(Coming), m.arg.new)
  <2> SUFFICES ASSUME m.arg.new # 0
               PROVE  server[m.arg.new] = "none" /\ Held(Range(Coming), m.arg.new)
    OBVIOUS
  <2>1. ~Unmade(Range(Here), m.arg.new)
    BY <1>1 DEF Unmade
  <2>2. Clients(m.arg.new)
    BY <1>2 DEF Lives
  <2> QED BY <2>1, <2>2
        DEF Clients, Unused, Unasked, Asked, Seen, Known, Released, Gone, Ended, Untold
<1>4. ASSUME NEW n \in Range(Here') PROVE NamesOut(n)'
  <2> DEFINE y == n.arg.obj
  <2>1. NamesOut(n) /\ OutPair(m, n)
    BY <1>1, <1>4 DEF Naming
  <2>2. ~Lasting(Range(Here), y) => (y = m.id /\ m.ends) \/ ~Lasting(Range(Here'), y)
    BY <1>1 DEF Lasting
  <2>3. ~Lasting(Range(Here), y) => ~Lasting(Range(Here'), y)
    BY <2>1, <2>2 DEF OutPair
  <2> QED BY <1>0, <2>1, <2>3 DEF NamesOut
<1>5. ASSUME NEW k \in 1 .. Len(Coming) PROVE NamesIn(k)'
  <2> DEFINE n == Coming[k]
             y == n.arg.obj
  <2>1. NamesIn(k)
    BY <1>5 DEF Naming
  <2>2. ASSUME y # 0 PROVE y \in Id /\ y # m.arg.new
    <3>1. n \in Range(Coming) /\ IsEvent(n)
      BY <1>5, SeqIs DEF Lives, Queues
    <3>2. IsDelete(n) \/ Written(n, "events")
      BY <3>1 DEF Naming
    <3>3. ~IsDelete(n)
      <4>1. \A c : DeleteId(c).arg.obj = 0
        BY DEF DeleteId
      <4> HIDE DEF n
      <4> QED BY <2>2, <4>1 DEF IsDelete
    <3>4. IsMessage(n, "events", ServerId)
      BY <3>1, <3>3 DEF IsEvent, IsDelete
    <3>5. y \in Id
      BY <2>2, <3>2, <3>3, <3>4, WrittenIs DEF IsMessage
    <3>6. y # m.arg.new
      BY <1>2, <1>3, <2>1, <2>2 DEF NamesIn
    <3> QED BY <3>5, <3>6
  <2> QED BY <1>0, <2>1, <2>2 DEF NamesIn
<1>6. \A n \in Range(Here') : Written(n, "requests") /\ OutOwn(n) /\ NamesOut(n)'
  BY <1>1, <1>4 DEF Naming
<1>7. /\ \A n \in Range(Coming') : IsDelete(n) \/ Written(n, "events")
      /\ \A a, n : InOrder(Coming', a, n) => InPair(a, n)
      /\ \A a, n : InOrder(Here', a, n) => OutPair(a, n)
      /\ \A k \in 1 .. Len(Coming') : NamesIn(k)'
  BY <1>0, <1>1, <1>5 DEF Naming
<1> QED BY <1>6, <1>7 DEF Naming

\* A release names nothing; what is behind a message that names an object says
\* whether the object is released.
LEMMA DeleteNames ==
    ASSUME NEW q, IsSeq(q), \A m \in Range(q) : IsEvent(m), NEW x \in ClientId,
           \A a, n : InOrder(q, a, n) => InPair(a, n)
    PROVE  /\ DeleteId(x).arg.obj = 0 /\ IsDelete(DeleteId(x))
           /\ \A a, n : InOrder(Append(q, DeleteId(x)), a, n) => InPair(a, n)
<1>1. DeleteId(x).arg.obj = 0 /\ DeleteId(x).arg.new = 0 /\ IsDelete(DeleteId(x))
  BY DEF DeleteId, IsDelete
<1>2. ASSUME NEW a, IsEvent(a) PROVE InPair(a, DeleteId(x))
  <2>1. IsDelete(a) => a.data[3] # 0
    BY IdFacts DEF IsDelete, DeleteId
  <2> QED BY <1>1, <2>1 DEF InPair
<1>3. ASSUME NEW a, NEW n, InOrder(Append(q, DeleteId(x)), a, n) PROVE InPair(a, n)
  <2>1. InOrder(q, a, n) \/ (a \in Range(q) /\ n = DeleteId(x))
    BY <1>3, OrderAppend
  <2> QED BY <1>2, <2>1
<1> QED BY <1>1, <1>3

\* Another message behind, with what the compositor sees after it.
LEMMA NamesInAppend ==
    ASSUME NEW q, IsSeq(q), NEW k \in 1 .. Len(q), NEW m
    PROVE  /\ Append(q, m)[k] = q[k] /\ k \in 1 .. Len(Append(q, m))
           /\ \A j \in 1 .. k - 1 : Append(q, m)[j] = q[j]
           /\ \A y : ~Held(Range(q), y) => ~Held(Range(Append(q, m)), y)
           /\ \A y : Releases(m, y) => ~Held(Range(Append(q, m)), y)
<1>1. /\ Range(Append(q, m)) = Range(q) \cup {m} /\ Len(Append(q, m)) = Len(q) + 1
      /\ \A j \in 1 .. Len(q) : Append(q, m)[j] = q[j]
      /\ Len(q) \in Nat
  BY AppendIs, SeqIs
<1>2. k \in 1 .. Len(Append(q, m)) /\ \A j \in 1 .. k - 1 : j \in 1 .. Len(q)
  BY <1>1
<1>3. /\ \A y : ~Held(Range(q), y) => ~Held(Range(Append(q, m)), y)
      /\ \A y : Releases(m, y) => ~Held(Range(Append(q, m)), y)
  BY <1>1 DEF Held
<1> QED BY <1>1, <1>2, <1>3

LEMMA ServerTakesNaming ==
    ASSUME Lives, Naming, ServerTakes
    PROVE  Naming'
<1> DEFINE m == Head(Past)
           freed == m.ends /\ m.id \in ClientId
           d == DeleteId(m.id)
<1>0. /\ IsRequest(m) /\ Here' = Here /\ client' = client
      /\ Coming' = IF freed THEN Append(Coming, d) ELSE Coming
      /\ \A x : GetObject(x)' = GetObject(x)
      /\ server' = [n \in Id |->
            IF n = m.arg.new THEN m.arg.made
            ELSE IF n = m.id /\ m.ends THEN "none" ELSE server[n]]
  BY ServerTakesDoes
<1>1. /\ IsSeq(Coming) /\ \A n \in Range(Coming) : IsEvent(n)
      /\ \A n \in Range(Coming) : IsDelete(n) \/ Written(n, "events")
      /\ \A a, n : InOrder(Coming, a, n) => InPair(a, n)
      /\ \A k \in 1 .. Len(Coming) : NamesIn(k)
      /\ Len(Coming) \in Nat /\ ClientId \subseteq Id
  BY SeqIs, IdFacts DEF Lives, Queues, Naming
<1>2. m.arg.new # 0 => m.arg.made # "none"
  BY <1>0, RequestFacts, TableWords DEF NoObject
<1> HIDE DEF m
<1>3. ASSUME NEW k \in 1 .. Len(Coming), k \in 1 .. Len(Coming'), Coming'[k] = Coming[k],
             \A j \in 1 .. k - 1 : Coming'[j] = Coming[j],
             \A y : ~Held(Range(Coming), y) => ~Held(Range(Coming'), y),
             freed => ~Held(Range(Coming'), m.id)
      PROVE  NamesIn(k)'
  <2> DEFINE y == Coming[k].arg.obj
  <2>1. NamesIn(k)
    BY <1>1
  <2>2. y \in ClientId /\ y # 0 /\ server'[y] = "none" => ~Held(Range(Coming'), y)
    <3> SUFFICES ASSUME y \in ClientId, y # 0, server'[y] = "none"
                 PROVE  ~Held(Range(Coming'), y)
      OBVIOUS
    <3>1. y # m.arg.new
      BY <1>0, <1>1, <1>2
    <3>2. server[y] = "none" \/ (y = m.id /\ m.ends)
      BY <1>0, <1>1, <3>1
    <3> QED BY <1>3, <2>1, <3>2 DEF NamesIn
  <2> HIDE DEF freed
  <2> QED BY <1>0, <1>3, <2>1, <2>2 DEF NamesIn
<1>4. CASE ~freed
  <2>1. \A k \in 1 .. Len(Coming') : NamesIn(k)'
    BY <1>0, <1>3, <1>4
  <2> QED BY <1>0, <1>4, <2>1 DEF Naming, NamesOut
<1>5. CASE freed
  <2>1. Coming' = Append(Coming, d) /\ m.id \in ClientId
    BY <1>0, <1>5
  <2>2. /\ d.arg.obj = 0 /\ IsDelete(d)
        /\ \A a, n : InOrder(Coming', a, n) => InPair(a, n)
    BY <1>1, <2>1, DeleteNames
  <2>3. /\ Range(Coming') = Range(Coming) \cup {d} /\ Len(Coming') = Len(Coming) + 1
        /\ Coming'[Len(Coming) + 1] = d
    BY <1>1, <2>1, AppendIs
  <2>4. Releases(d, m.id)
    BY <2>1, DeleteIdFacts
  <2>5. \A k \in 1 .. Len(Coming) : NamesIn(k)'
    <3> HIDE DEF freed, d
    <3> QED BY <1>1, <1>3, <2>1, <2>4, NamesInAppend
  <2>6. \A k : k = Len(Coming) + 1 => NamesIn(k)'
    BY <2>2, <2>3 DEF NamesIn
  <2>7. 1 .. Len(Coming') = (1 .. Len(Coming)) \cup {Len(Coming) + 1}
    BY <1>1, <2>3
  <2>8. \A k \in 1 .. Len(Coming') : NamesIn(k)'
    BY <2>5, <2>6, <2>7
  <2> QED BY <1>0, <1>1, <2>2, <2>3, <2>8 DEF Naming, NamesOut
<1> QED BY <1>4, <1>5

\* What the compositor sees and the events that are on their way.
LEMMA SeenByServer ==
    ASSUME Lives, NEW x \in Id, server[x] # "none"
    PROVE  /\ \/ \E k \in 1 .. Len(Coming) : Coming[k].arg.new = x
              \/ GetObject(x) = Shown(server[x])
           /\ Held(Range(Coming), x)
           /\ \A a \in Range(Coming) : a.arg.new = x => a.arg.made = server[x]
<1>0. /\ IsSeq(Coming) /\ Range(Coming) = {Coming[k] : k \in 1 .. Len(Coming)}
      /\ \A a \in Range(Coming) : IsEvent(a)
  BY SeqIs DEF Lives, Queues
<1>1. CASE x \in ClientId
  <2>1. GetObject(x) = Shown(server[x]) /\ Held(Range(Coming), x)
    BY <1>1 DEF Lives, Clients, Unused, Asked, Seen, Known, Released, Gone, Ended
  <2>2. \A a \in Range(Coming) : a.arg.new # x
    BY <1>0, <1>1, EventFacts, IdFacts
  <2> QED BY <2>1, <2>2
<1>2. CASE x \in ServerId
  <2>1. PICK i \in Interface : Announced(x, i) \/ Introduced(x, i) \/ Present(x, i)
    BY <1>2 DEF Lives, Servers, Vacant
  <2>2. server[x] = i
    BY <2>1 DEF Announced, Introduced, Present
  <2>3. Held(Range(Coming), x)
    BY <1>0, <1>2, EventFacts, IdFacts DEF Held
  <2>4. CASE Announced(x, i)
    <3>1. PICK p \in Parts(Coming) : /\ p.at.arg.new = x /\ p.at.arg.made = i
                                     /\ Unmade(p.before, x) /\ Unmade(p.after, x)
      BY <2>4 DEF Announced, MadeAgain
    <3>2. Range(Coming) = p.before \cup {p.at} \cup p.after
      BY <1>0, PartsAre
    <3>3. \E k \in 1 .. Len(Coming) : Coming[k].arg.new = x
      BY <1>0, <3>1, <3>2
    <3>4. \A a \in Range(Coming) : a.arg.new = x => a.arg.made = i
      BY <3>1, <3>2 DEF Unmade
    <3> QED BY <2>2, <2>3, <3>3, <3>4
  <2>5. CASE Introduced(x, i) \/ Present(x, i)
    <3>1. GetObject(x) = Shown(i) /\ Unmade(Range(Coming), x)
      BY <2>5 DEF Introduced, Present
    <3> QED BY <2>2, <2>3, <3>1 DEF Unmade
  <2> QED BY <2>1, <2>4, <2>5
<1>3. CASE x = 1
  <2>1. server[x] = "display" /\ GetObject(x) = "display" /\ Shown("display") = "display"
    BY <1>3, TableWords DEF Lives, Display
  <2>2. Held(Range(Coming), x) /\ \A a \in Range(Coming) : a.arg.new # x
    BY <1>0, <1>3, EventFacts, IdFacts DEF Held
  <2> QED BY <2>1, <2>2
<1> QED BY <1>1, <1>2, <1>3, IdFacts

\* An event names what the compositor sees, and that is not released yet.
LEMMA SendsNaming ==
    ASSUME Lives, Naming, ServerSends
    PROVE  Naming'
<1>0. PICK m :
        /\ IsEvent(m) /\ ~IsDeleteId(m) /\ server[m.id] = m.intf
        /\ m.arg.new # 0 => server[m.arg.new] = "none"
        /\ Meaning(m, "events", server)
        /\ m.ends => m.id \in ClientId
        /\ Here' = Here
        /\ Coming' = (IF m.ends THEN Append(Append(Coming, m), DeleteId(m.id))
                      ELSE Append(Coming, m))
        /\ client' = client /\ \A x : GetObject(x)' = GetObject(x)
        /\ server' = [n \in Id |->
              IF n = m.arg.new THEN m.arg.made
              ELSE IF n = m.id /\ m.ends THEN "none" ELSE server[n]]
  BY ServerSendsDoes
<1> DEFINE x == m.arg.obj
           T == TakenFor(m, "events")
           d == DeleteId(m.id)
           q == Append(Coming, m)
           n0 == Len(Coming)
<1>1. /\ IsSeq(Coming) /\ \A n \in Range(Coming) : IsEvent(n)
      /\ \A n \in Range(Coming) : IsDelete(n) \/ Written(n, "events")
      /\ \A a, n : InOrder(Coming, a, n) => InPair(a, n)
      /\ \A k \in 1 .. n0 : NamesIn(k)
      /\ n0 \in Nat /\ ClientId \subseteq Id /\ 0 \notin Id
      /\ Range(Coming) = {Coming[k] : k \in 1 .. n0}
  BY SeqIs, IdFacts DEF Lives, Queues, Naming
<1>2. IsMessage(m, "events", ServerId)
  BY <1>0, DeleteIdFacts DEF IsEvent
<1>3. Written(m, "events") /\ (x # 0 => x \in Id /\ server[x] = T)
  BY <1>0, MeaningIs
<1>4. x # 0 => T # "none"
  <2>1. x # 0 => T \in Interface
    BY <1>2, <1>3, WrittenIs DEF IsMessage
  <2> QED BY <2>1, TableWords DEF NoObject
<1>5. m.arg.new # 0 => m.arg.made # "none"
  BY <1>0, EventFacts, TableWords DEF NoObject
<1>6. /\ IsSeq(q) /\ Range(q) = Range(Coming) \cup {m} /\ Len(q) = n0 + 1 /\ q[n0 + 1] = m
      /\ \A k \in 1 .. n0 : q[k] = Coming[k]
  BY <1>1, AppendIs
<1>7. /\ ~m.ends => Coming' = q
      /\ m.ends => /\ m.id \in ClientId /\ Coming' = Append(q, d)
                   /\ Range(Coming') = Range(q) \cup {d} /\ Len(Coming') = Len(q) + 1
                   /\ Coming'[Len(q) + 1] = d /\ \A k \in 1 .. Len(q) : Coming'[k] = q[k]
  <2> HIDE DEF d
  <2> QED BY <1>0, <1>6, AppendIs DEF d
<1> HIDE DEF q
<1>8. ASSUME NEW a \in Range(Coming) PROVE InPair(a, m)
  <2>1. x # 0 => Held(Range(Coming), x) /\ (a.arg.new = x => a.arg.made = T)
    BY <1>3, <1>4, <1>8, SeenByServer
  <2>2. IsDelete(a) => Releases(a, a.data[3]) /\ a.data[3] \in ClientId
    <3> SUFFICES ASSUME NEW c \in ClientId, a = DeleteId(c)
                 PROVE  Releases(a, a.data[3]) /\ a.data[3] \in ClientId
      BY DEF IsDelete
    <3>1. Releases(a, c)
      BY DeleteIdFacts
    <3>2. a.data[3] = c
      BY <3>1 DEF Releases
    <3> QED BY <3>1, <3>2
  <2>3. IsDelete(a) => x # a.data[3]
    BY <1>1, <1>8, <2>1, <2>2 DEF Held
  <2> QED BY <2>1, <2>3 DEF InPair
<1>9. \A a, n : InOrder(q, a, n) => InPair(a, n)
  BY <1>1, <1>8, OrderAppend DEF q
<1>10. \A a, n : InOrder(Coming', a, n) => InPair(a, n)
  <2>1. \A n \in Range(q) : IsEvent(n)
    BY <1>0, <1>1, <1>6
  <2> HIDE DEF d
  <2>2. m.ends => \A a, n : InOrder(Append(q, d), a, n) => InPair(a, n)
    BY <1>6, <1>7, <1>9, <2>1, DeleteNames DEF d
  <2> QED BY <1>7, <1>9, <2>2
<1>11. /\ \A k \in 1 .. n0 + 1 : Coming'[k] = q[k] /\ k \in 1 .. Len(Coming')
       /\ \A y : ~Held(Range(Coming), y) => ~Held(Range(Coming'), y)
       /\ m.ends => ~Held(Range(Coming'), m.id)
  <2>1. m.ends => Releases(d, m.id) /\ d \in Range(Coming')
    BY <1>7, DeleteIdFacts
  <2>2. Range(Coming) \subseteq Range(Coming')
    BY <1>6, <1>7
  <2>3. \A k \in 1 .. n0 + 1 : Coming'[k] = q[k] /\ k \in 1 .. Len(Coming')
    <3> HIDE DEF d, n0
    <3> QED BY <1>1, <1>6, <1>7
  <2> QED BY <2>1, <2>2, <2>3 DEF Held
<1>12. ASSUME NEW y \in ClientId, server'[y] = "none", server[y] = "none" => ~Held(Range(Coming), y)
       PROVE  ~Held(Range(Coming'), y)
  <2>1. y # m.arg.new
    BY <1>0, <1>1, <1>5, <1>12
  <2>2. server[y] = "none" \/ (y = m.id /\ m.ends)
    BY <1>0, <1>1, <1>12, <2>1
  <2> QED BY <1>11, <1>12, <2>2
<1>13. ASSUME NEW k \in 1 .. n0 PROVE NamesIn(k)'
  <2>1. NamesIn(k) /\ k \in 1 .. n0 + 1 /\ \A j \in 1 .. k - 1 : j \in 1 .. n0
    BY <1>1, <1>13
  <2>2. Coming'[k] = Coming[k] /\ \A j \in 1 .. k - 1 : Coming'[j] = Coming[j]
    BY <1>1, <1>6, <1>11, <2>1
  <2> HIDE DEF n0
  <2> QED BY <1>0, <1>12, <2>1, <2>2 DEF NamesIn
<1>14. ASSUME NEW k, k = n0 + 1 PROVE NamesIn(k)'
  <2>1. Coming'[k] = m /\ \A j \in 1 .. n0 : Coming'[j] = Coming[j]
    BY <1>1, <1>6, <1>11, <1>14
  <2>2. 1 .. k - 1 = 1 .. n0
    BY <1>1, <1>14
  <2>3. x # 0 => (\E j \in 1 .. n0 : Coming[j].arg.new = x) \/ GetObject(x) = Shown(T)
    BY <1>3, <1>4, SeenByServer
  <2>4. x # 0 => m.arg.new # x
    BY <1>0, <1>3, <1>4
  <2>5. x # 0 /\ x \in ClientId /\ server'[x] = "none" => ~Held(Range(Coming'), x)
    BY <1>3, <1>4, <1>12
  <2> HIDE DEF n0
  <2> QED BY <1>0, <2>1, <2>2, <2>3, <2>4, <2>5 DEF NamesIn
<1>15. ASSUME NEW k \in 1 .. Len(Coming') PROVE NamesIn(k)'
  <2>1. CASE k \in 1 .. n0 + 1
    BY <1>1, <1>13, <1>14, <2>1
  <2>2. CASE k \notin 1 .. n0 + 1
    <3>1. m.ends /\ k = Len(q) + 1
      BY <1>1, <1>6, <1>7, <1>15, <2>2
    <3>2. Coming'[k] = d
      BY <1>7, <3>1
    <3>3. d.arg.obj = 0
      BY DEF DeleteId
    <3> QED BY <3>2, <3>3 DEF NamesIn
  <2> QED BY <2>1, <2>2
<1>16. \A n \in Range(Coming') : IsDelete(n) \/ Written(n, "events")
  <2>1. m.ends => IsDelete(d)
    BY <1>0 DEF IsDelete
  <2> QED BY <1>1, <1>3, <1>6, <1>7, <2>1
<1> QED BY <1>0, <1>10, <1>15, <1>16 DEF Naming, NamesOut

\* What the table is told about an object is what the events behind name it as,
\* and what it is told to forget they do not name.
LEMMA ResolveInNaming ==
    ASSUME Lives, Naming, ResolveIn
    PROVE  Naming'
<1> DEFINE m == Head(Coming)
           n0 == Len(Coming)
<1>0. /\ Coming # <<>> /\ IsEvent(m) /\ Coming' = Tail(Coming) /\ Here' = Here
      /\ client' = client /\ server' = server
      /\ \A x \in Id : GetObject(x)' =
            IF x = m.arg.new THEN Shown(m.arg.made)
            ELSE IF Releases(m, x) THEN "FREE" ELSE GetObject(x)
  BY ResolveInDoes
<1>1. /\ IsSeq(Coming) /\ Range(Coming) = {m} \cup Range(Coming')
      /\ n0 \in Nat \ {0} /\ m = Coming[1] /\ Len(Coming') = n0 - 1
      /\ \A k \in 1 .. n0 - 1 : Coming'[k] = Coming[k + 1]
      /\ \A a, n : InOrder(Coming', a, n) => InOrder(Coming, a, n)
      /\ \A n \in Range(Coming') : InOrder(Coming, m, n)
      /\ IsSeq(Coming')
  BY <1>0, TailIs, OrderTail DEF Lives, Queues
<1>2. Range(Coming') = {Coming'[k] : k \in 1 .. Len(Coming')}
  BY <1>1, SeqIs
<1> HIDE DEF m, n0
<1>3. ASSUME NEW k \in 1 .. Len(Coming') PROVE NamesIn(k)'
  <2>0. PICK n, y : n = Coming'[k] /\ y = n.arg.obj
    OBVIOUS
  <2>1. /\ k + 1 \in 1 .. n0 /\ n = Coming[k + 1] /\ n \in Range(Coming')
        /\ n \in Range(Coming) /\ k \in Nat
    BY <1>1, <1>2, <1>3, <2>0
  <2>2. InPair(m, n)
    BY <1>1, <2>1 DEF Naming
  <2>3. IsEvent(n) /\ (IsDelete(n) \/ Written(n, "events")) /\ NamesIn(k + 1)
    BY <1>1, <2>1 DEF Lives, Queues, Naming, n0
  <2> SUFFICES ASSUME y # 0
               PROVE  /\ \/ \E j \in 1 .. k - 1 : Coming'[j].arg.new = y
                         \/ GetObject(y)' = Shown(TakenFor(n, "events"))
                      /\ y \in ClientId /\ server'[y] = "none" => ~Held(Range(Coming'), y)
                      /\ n.arg.new # y
    BY <2>0 DEF NamesIn
  <2>4. y \in Id
    <3>1. \A c : DeleteId(c).arg.obj = 0
      BY DEF DeleteId
    <3>2. ~IsDelete(n)
      BY <2>0, <3>1 DEF IsDelete
    <3>3. IsMessage(n, "events", ServerId)
      BY <2>3, <3>2 DEF IsEvent, IsDelete
    <3> QED BY <2>0, <2>3, <3>2, <3>3, WrittenIs DEF IsMessage
  <2>5. ~Releases(m, y)
    <3> SUFFICES ASSUME Releases(m, y) PROVE FALSE
      OBVIOUS
    <3>1. m = DeleteId(y) /\ y \in ClientId
      BY <1>0, EventFacts
    <3>2. IsDelete(m) /\ m.data[3] = y
      BY <3>1 DEF IsDelete, Releases
    <3> QED BY <2>0, <2>2, <3>2 DEF InPair
  <2>6. /\ \/ \E j \in 1 .. k : Coming[j].arg.new = y
           \/ GetObject(y) = Shown(TakenFor(n, "events"))
        /\ y \in ClientId /\ server[y] = "none" => ~Held(Range(Coming), y)
        /\ n.arg.new # y
    <3>1. k + 1 - 1 = k
      BY <2>1
    <3> QED BY <2>0, <2>1, <2>3, <3>1 DEF NamesIn
  <2>7. m.arg.new = y => GetObject(y)' = Shown(TakenFor(n, "events"))
    <3> SUFFICES ASSUME m.arg.new = y
                 PROVE  GetObject(y)' = Shown(TakenFor(n, "events"))
      OBVIOUS
    <3>1. TakenFor(n, "events") = m.arg.made
      BY <2>0, <2>2 DEF InPair
    <3> QED BY <1>0, <2>4, <3>1
  <2>8. m.arg.new # y => GetObject(y)' = GetObject(y)
    BY <1>0, <2>4, <2>5
  <2>9. ASSUME NEW j \in 1 .. k, Coming[j].arg.new = y, m.arg.new # y
        PROVE  \E i \in 1 .. k - 1 : Coming'[i].arg.new = y
    <3>1. j # 1
      BY <1>1, <2>9
    <3>2. j - 1 \in 1 .. k - 1 /\ j - 1 \in 1 .. n0 - 1 /\ j - 1 + 1 = j
      BY <1>1, <2>1, <3>1
    <3>3. Coming'[j - 1] = Coming[j]
      BY <1>1, <3>2
    <3> QED BY <2>9, <3>2, <3>3
  <2>10. y \in ClientId /\ server'[y] = "none" => ~Held(Range(Coming'), y)
    BY <1>0, <1>1, <2>5, <2>6 DEF Held
  <2> QED BY <2>6, <2>7, <2>8, <2>9, <2>10
<1>4. /\ \A n \in Range(Coming') : IsDelete(n) \/ Written(n, "events")
      /\ \A a, n : InOrder(Coming', a, n) => InPair(a, n)
  BY <1>1 DEF Naming
<1> QED BY <1>0, <1>3, <1>4 DEF Naming, NamesOut

\* What the client learns is over no request names that it has written.
LEMMA ClientTakesNaming ==
    ASSUME Lives, Naming, ClientTakes
    PROVE  Naming'
<1> DEFINE m == Head(Going)
<1>0. /\ Going # <<>> /\ IsEvent(m) /\ Here' = Here /\ Coming' = Coming
      /\ server' = server /\ \A x : GetObject(x)' = GetObject(x)
      /\ client' = [n \in Id |->
            IF n = m.arg.new THEN m.arg.made
            ELSE IF Releases(m, n) THEN "none"
            ELSE IF n = m.id /\ m.ends THEN "zombie" ELSE client[n]]
  BY ClientTakesDoes
<1>1. m \in Range(Going)
  BY <1>0, TailIs DEF Lives, Queues
<1> HIDE DEF m
<1>2. /\ m.arg.new \in ServerId \cup {0} /\ (m.ends => m.id \in ClientId)
      /\ \A x : Releases(m, x) => x \in ClientId
      /\ 0 \notin Id /\ ClientId \cap ServerId = {}
      /\ Interface \cap NoObject = {} /\ "none" \in NoObject /\ "zombie" \in NoObject
  BY <1>0, EventFacts, IdFacts, TableWords DEF NoObject
<1>3. m.arg.new # 0 => client[m.arg.new] = "none" /\ Lasting(Range(Here), m.arg.new)
  <2> SUFFICES ASSUME m.arg.new # 0
               PROVE  client[m.arg.new] = "none" /\ Lasting(Range(Here), m.arg.new)
    OBVIOUS
  <2>1. ~Unmade(Range(Going), m.arg.new)
    BY <1>1 DEF Unmade
  <2>2. Unsaid(m.arg.new)
    BY <1>2, <2>1 DEF Lives, Servers, Vacant, Announced, Introduced, Present
  <2> QED BY <2>2, SilentSays DEF Unsaid
<1>4. ASSUME NEW x \in ClientId, Releases(m, x) \/ (m.id = x /\ m.ends)
      PROVE  client[x] = "zombie" \/ Fleeting(client[x])
  <2>1. ~Held(Range(Going), x) \/ ~Lasting(Range(Going), x)
    BY <1>1, <1>4 DEF Held, Lasting
  <2>2. PICK i : Released(x, i) \/ Gone(x, i)
    BY <2>1 DEF Lives, Clients, Unused, Asked, Seen, Known, Untold
  <2> QED BY <2>2 DEF Released, Gone, Ended
<1>5. ASSUME NEW n \in Range(Here) PROVE NamesOut(n)'
  <2> DEFINE y == n.arg.obj
  <2> SUFFICES ASSUME y # 0
               PROVE  \/ client'[y] = TakenFor(n, "requests")
                      \/ client'[y] \in NoObject /\ ~Lasting(Range(Here'), y)
    BY DEF NamesOut
  <2>1. /\ y \in Id /\ TakenFor(n, "requests") \notin NoObject
        /\ ~Fleeting(TakenFor(n, "requests"))
    BY <1>5, RequestNames
  <2>2. \/ client[y] = TakenFor(n, "requests")
        \/ client[y] \in NoObject /\ ~Lasting(Range(Here), y)
    BY <1>5 DEF Naming, NamesOut
  <2>3. y # m.arg.new
    BY <1>2, <1>3, <2>1, <2>2
  <2>4. CASE client[y] = TakenFor(n, "requests")
    <3>1. ~Releases(m, y) /\ ~(y = m.id /\ m.ends)
      BY <1>2, <1>4, <2>1, <2>4
    <3> QED BY <1>0, <2>1, <2>3, <2>4, <3>1
  <2>5. CASE client[y] \in NoObject /\ ~Lasting(Range(Here), y)
    BY <1>0, <1>2, <2>1, <2>3, <2>5
  <2> QED BY <2>2, <2>4, <2>5
<1>6. \A k \in 1 .. Len(Coming) : NamesIn(k) => NamesIn(k)'
  BY <1>0 DEF NamesIn
<1>7. /\ \A n \in Range(Here') : Written(n, "requests") /\ OutOwn(n) /\ NamesOut(n)'
      /\ \A k \in 1 .. Len(Coming') : NamesIn(k)'
  BY <1>0, <1>5, <1>6 DEF Naming
<1> QED BY <1>0, <1>7 DEF Naming

LEMMA NextNaming ==
    ASSUME Lives, Naming, Next
    PROVE  Naming'
BY RequestsNaming, ServerTakesNaming, SendsNaming, ClientTakesNaming,
   ResolveOutNaming, ResolveInNaming DEF Next

LEMMA NamingKept ==
    ASSUME Lives, Naming, [ObjNext]_objVars, ~Destroy
    PROVE  Lives' /\ Naming'
<1>1. ASSUME UNCHANGED vars PROVE Lives' /\ Naming'
  <2>1. Lives'
    BY <1>1, StutterKeeps
  <2>2. Naming'
    BY <1>1 DEF Naming, NamesOut, NamesIn, GetObject, Here, Coming, vars, ways
  <2> QED BY <2>1, <2>2
<1>2. ASSUME Next PROVE Lives' /\ Naming'
  BY <1>2, NextKeeps, NextNaming
<1>3. Next \/ UNCHANGED vars
  BY DEF ObjNext, Ask, Tell, Take, PassOut, PassIn, Show, Next, objVars
<1> QED BY <1>1, <1>2, <1>3

LEMMA DestroyDoes ==
    ASSUME Lives, Destroy
    PROVE  Destroyed'
<1>1. DOMAIN requests = {"wldbg", "server"} /\ DOMAIN events = {"wldbg", "client"}
  BY DEF Lives, Queues
<1>2. /\ fault' # "none" /\ client' = [id \in Id |-> "none"]
      /\ client_objects' = Map!EmptyMap
      /\ requests' = [p \in DOMAIN requests |-> <<>>]
      /\ events' = [p \in DOMAIN events |-> <<>>]
  BY DEF Destroy
<1> QED BY <1>1, <1>2 DEF Destroyed

LEMMA DestroyedStays ==
    ASSUME Destroyed, [ObjNext]_objVars
    PROVE  Destroyed' /\ UNCHANGED objVars
<1>1. UNCHANGED objVars
  BY DEF Destroyed, ObjNext, Ask, Tell, Take, PassOut, PassIn, Show, Destroy
<1> QED BY <1>1 DEF Destroyed, objVars, vars, ways

LEMMA ObjStepNaming ==
    ASSUME (Lives /\ Naming) \/ Destroyed, [ObjNext]_objVars
    PROVE  ((Lives /\ Naming) \/ Destroyed)'
BY NamingKept, DestroyDoes, DestroyedStays

\* The objects that messages name live as the messages say.
LEMMA ObjNaming == ObjSpec => []((Lives /\ Naming) \/ Destroyed)
<1>1. ObjInit => (Lives /\ Naming) \/ Destroyed
  <2>1. ObjInit => Lives
    BY InitLives DEF ObjInit
  <2>2. ObjInit => Here = <<>> /\ Coming = <<>>
    BY DEF ObjInit, Init, Here, Coming
  <2> QED BY <2>1, <2>2, NamingInit
<1>2. ((Lives /\ Naming) \/ Destroyed) /\ [ObjNext]_objVars => ((Lives /\ Naming) \/ Destroyed)'
  BY ObjStepNaming
<1> QED BY <1>1, <1>2, PTL DEF ObjSpec

-----------------------------------------------------------------------------
(* What is printed. *)

\* The table has what the request names as its sender takes it that wldbg has
\* before it.
LEMMA HeadNames ==
    ASSUME Lives, Naming, Here # <<>>, Head(Here).arg.obj # 0
    PROVE  GetObject(Head(Here).arg.obj) = Shown(TakenFor(Head(Here), "requests"))
<1> DEFINE m == Head(Here)
           x == m.arg.obj
           T == TakenFor(m, "requests")
<1>1. /\ IsSeq(Here) /\ Range(Here) = {m} \cup Range(Tail(Here))
      /\ \A n \in Range(Tail(Here)) : InOrder(Here, m, n)
  BY TailIs, OrderTail DEF Lives, Queues
<1>2. /\ x \in Id /\ T \notin NoObject /\ ~Fleeting(T)
      /\ OutOwn(m) /\ NamesOut(m) /\ \A n \in Range(Tail(Here)) : OutPair(m, n)
      /\ GetObject(m.id) = Shown(m.intf)
  <2>1. m \in Range(Here)
    BY <1>1
  <2>2. GetObject(m.id) = Shown(m.intf)
    BY HeadsResolved DEF Resolved, Here
  <2> QED BY <1>1, <2>1, <2>2, RequestNames DEF Naming
<1> SUFFICES GetObject(x) = Shown(T)
  OBVIOUS
<1> HIDE DEF m, T
<1>3. ~(x \in ClientId /\ \E i : MadeFirst(Here, x, i))
  <2> SUFFICES ASSUME x \in ClientId, NEW i, MadeFirst(Here, x, i) PROVE FALSE
    OBVIOUS
  <2>1. PICK p \in Parts(Here) : p.at.arg.new = x
    BY DEF MadeFirst
  <2>2. p.at \in Range(Here)
    BY <1>1, <2>1, PartsAre
  <2>3. x # 0
    BY <1>2, IdFacts
  <2> QED BY <1>1, <1>2, <2>1, <2>2, <2>3 DEF OutOwn, OutPair
<1>4. CASE client[x] = T
  <2>1. CASE x = 1
    BY <1>4, <2>1, TableWords DEF Lives, Display
  <2>2. CASE x \in ClientId
    <3>1. Clients(x)
      BY <2>2 DEF Lives
    <3> QED BY <1>2, <1>3, <1>4, <2>2, <3>1
          DEF Clients, Unused, Asked, Seen, Known, Speaks, Released, Gone, Ended, NoObject
  <2>3. CASE x \in ServerId
    <3>1. Servers(x)
      BY <2>3 DEF Lives
    <3> QED BY <1>2, <1>4, <3>1
          DEF Servers, Vacant, Announced, Introduced, Unsaid, Present, Speaks, NoObject
  <2> QED BY <1>2, <2>1, <2>2, <2>3, IdFacts
<1>5. CASE ~Lasting(Range(Here), x)
  <2>1. PICK e \in Range(Here) : e.id = x /\ e.ends
    BY <1>5 DEF Lasting
  <2>2. T = e.intf
    BY <1>1, <1>2, <2>1 DEF OutOwn, OutPair, m, T
  <2>3. ~Silent(Range(Here), x) /\ IsRequest(e)
    BY <2>1 DEF Silent, Lives, Queues
  <2>4. CASE x = 1
    <3>1. e.intf = "display"
      BY <2>1, <2>4 DEF Lives, Display, Saying
    <3> QED BY <2>1, <2>3, <3>1, RequestFacts
  <2>5. CASE x \in ClientId
    <3>1. PICK i \in Interface : Asked(x, i) \/ Seen(x, i) \/ Known(x, i)
      BY <2>3, <2>5
        DEF Lives, Clients, Unused, Unasked, Released, Gone, Ended
    <3>2. Saying(Range(Here), x, i)
      BY <3>1 DEF Asked, Seen, Known, Speaks
    <3>3. e.intf = i
      BY <2>1, <3>2 DEF Saying
    <3> QED BY <1>3, <2>2, <2>5, <3>1, <3>3 DEF Asked, Seen, Known
  <2>6. CASE x \in ServerId
    <3>1. PICK i : Present(x, i)
      BY <2>3, <2>6 DEF Lives, Servers, Vacant, Announced, Introduced, Unsaid
    <3>2. e.intf = i
      BY <2>1, <3>1 DEF Present, Speaks, Saying
    <3> QED BY <2>2, <3>1, <3>2 DEF Present
  <2> QED BY <1>2, <2>4, <2>5, <2>6, IdFacts
<1>6. x # 0
  BY <1>2, IdFacts
<1> QED BY <1>2, <1>4, <1>5, <1>6 DEF NamesOut, m, T

LEMMA HeadNamesIn ==
    ASSUME Lives, Naming, Coming # <<>>, Head(Coming).arg.obj # 0
    PROVE  GetObject(Head(Coming).arg.obj) = Shown(TakenFor(Head(Coming), "events"))
<1>1. Head(Coming) = Coming[1] /\ 1 \in 1 .. Len(Coming) /\ 1 .. 1 - 1 = {}
  BY TailIs DEF Lives, Queues
<1>2. NamesIn(1)
  BY <1>1 DEF Naming
<1> QED BY <1>1, <1>2 DEF NamesIn

\* The words of a message that arrives read as they were meant.
LEMMA ArrivingReads ==
    ASSUME Lives, Naming, NEW which \in {"requests", "events"}, Arriving(which) # <<>>,
           Understood(Head(Arriving(which)), which)
    PROVE  LET m == Head(Arriving(which))
           IN  /\ GetObject(m.id) = m.intf /\ m.intf \in Loaded
               /\ ReadAsMeant(m, Protocol[m.intf][which][m.op].sig)
               /\ m.arg.obj # 0 => GetObject(m.arg.obj) = Shown(TakenFor(m, which))
<1> DEFINE m == Head(Arriving(which))
           msg == Protocol[m.intf][which][m.op]
<1>1. /\ which = "requests" => Arriving(which) = Here
      /\ which = "events" => Arriving(which) = Coming
  BY DEF Arriving, Here, Coming
<1>2. IsSeq(Arriving(which)) /\ m \in Range(Arriving(which))
  BY <1>1, TailIs DEF Lives, Queues
<1>3. GetObject(m.id) = m.intf /\ m.intf \in Loaded
  <2>1. GetObject(m.id) = Shown(m.intf)
    BY HeadsResolved DEF Resolved, Arriving
  <2>2. Shown(m.intf) \in Loaded
    BY <2>1 DEF Understood
  <2> QED BY <2>1, <2>2, TableWords
<1>4. ASSUME NEW n, which = "events", m = DeleteId(n), n \in ClientId
      PROVE  ReadAsMeant(m, msg.sig)
  <2>1. m.intf = "display" /\ m.op = 1
    BY <1>4 DEF DeleteId
  <2> QED BY <1>4, <2>1, ObjInfoAssumption DEF Legible
<1>5. ASSUME m.op \in DOMAIN Protocol[m.intf][which], m.id \in Id, Written(m, which)
      PROVE  ReadAsMeant(m, msg.sig)
  <2>1. /\ m.data = Wire(m.id, m.op, msg.sig, m.arg) /\ m.arg \in ArgsOf(msg)
        /\ m.intf \in Interface
    BY <1>3, <1>5, TableWords DEF Written
  <2>2. ReadAsMeant([arg |-> m.arg, data |-> Wire(m.id, m.op, msg.sig, m.arg)], msg.sig)
    <3>1. ASSUME NEW i \in Interface, NEW op \in DOMAIN Protocol[i][which], NEW id \in Id,
                 NEW arg \in ArgsOf(Protocol[i][which][op])
          PROVE  ReadAsMeant([arg |-> arg,
                              data |-> Wire(id, op, Protocol[i][which][op].sig, arg)],
                             Protocol[i][which][op].sig)
      BY <3>1, ObjInfoAssumption DEF Legible, ArgsOf
    <3> QED BY <1>5, <2>1, <3>1
  <2> HIDE DEF m, msg
  <2> QED BY <2>1, <2>2 DEF ReadAsMeant, Meant
<1>6. ReadAsMeant(m, msg.sig)
  <2>1. CASE which = "requests"
    <3>1. IsRequest(m) /\ Written(m, which)
      BY <1>1, <1>2, <2>1 DEF Lives, Queues, Naming
    <3> QED BY <1>5, <2>1, <3>1 DEF IsRequest, IsMessage
  <2>2. CASE which = "events"
    <3>1. IsEvent(m) /\ (IsDelete(m) \/ Written(m, which))
      BY <1>1, <1>2, <2>2 DEF Lives, Queues, Naming
    <3>2. CASE IsDelete(m)
      BY <1>4, <2>2, <3>2 DEF IsDelete
    <3>3. CASE ~IsDelete(m)
      BY <1>5, <2>2, <3>1, <3>3 DEF IsDelete, IsEvent, IsMessage
    <3> QED BY <3>2, <3>3
  <2> QED BY <2>1, <2>2
<1>7. m.arg.obj # 0 => GetObject(m.arg.obj) = Shown(TakenFor(m, which))
  BY <1>1, HeadNames, HeadNamesIn
<1> QED BY <1>3, <1>6, <1>7

LEMMA PrintsAsMeant ==
    ASSUME Lives, Naming
    PROVE  PrintedAsMeant
<1> SUFFICES ASSUME NEW which \in {"requests", "events"}, Arriving(which) # <<>>,
                    Understood(Head(Arriving(which)), which),
                    NEW k \in DOMAIN Printed(Head(Arriving(which)), which)
             PROVE  LET m == Head(Arriving(which))
                        msg == MessageOf(m, which)
                        arg == Printed(m, which)[k]
                    IN  /\ arg.type \in {"n", "o", "u", "i"}
                        /\ "h" \notin Range(SubSeq(ArgTypes(msg.sig), 1, k - 1))
                        => /\ arg.word = Meant(m, arg.type)
                           /\ arg.type = "o" /\ arg.word # 0 =>
                                 arg.intf = Shown(msg.takes)
  BY DEF PrintedAsMeant
<1> DEFINE m == Head(Arriving(which))
           msg == MessageOf(m, which)
           types == ArgTypes(msg.sig)
           n == IF Len(types) <= MaxArgs THEN Len(types) ELSE MaxArgs
           arg == Printed(m, which)[k]
<1>1. /\ msg = Protocol[m.intf][which][m.op] /\ ReadAsMeant(m, msg.sig)
      /\ m.arg.obj # 0 => GetObject(m.arg.obj) = Shown(msg.takes)
  BY ArrivingReads DEF MessageOf, TakenFor
<1>2. Printed(m, which) = [j \in 1 .. n |-> PrintArg(m, msg, j)]
  BY DEF Printed
<1>3. k \in 1 .. n /\ arg = PrintArg(m, msg, k)
  BY <1>2
<1>4. k \in 1 .. Len(types)
  <2>1. Len(types) \in Nat
    BY <1>1, LenProperties DEF ReadAsMeant
  <2> QED BY <1>3, <2>1, PrintingAssumption
<1>5. /\ arg.type = types[k] /\ arg.word = ArgWord(msg.sig, m.data, k)
      /\ arg.type = "o" => arg.intf = GetObject(arg.word)
  BY <1>3 DEF PrintArg
<1>6. /\ types[k] \in {"n", "o", "u", "i"} /\ "h" \notin Range(SubSeq(types, 1, k - 1))
      => ArgWord(msg.sig, m.data, k) = Meant(m, types[k])
  BY <1>1, <1>4 DEF ReadAsMeant
<1>7. types[k] = "o" => Meant(m, types[k]) = m.arg.obj
  BY DEF Meant
<1> QED BY <1>1, <1>5, <1>6, <1>7

\* What wldbg prints of a message is what its sender meant: the numbers and the
\* new objects it put, and of an object the interface it has for the sender,
\* whatever the id was used for before and whatever crosses the message on its
\* way; for every protocol the assumption allows, up to the first descriptor of
\* a message (print_arg).
THEOREM PrintedRight == ObjSpec => []PrintedAsMeant
<1>1. Lives /\ Naming => PrintedAsMeant
  BY PrintsAsMeant
<1>2. Destroyed => PrintedAsMeant
  BY DEF Destroyed, PrintedAsMeant, Arriving
<1> QED BY <1>1, <1>2, ObjNaming, PTL

-----------------------------------------------------------------------------
(* The records of the objinfo pass. *)

Kind(x) == info[x].kind

\* The kinds of records that no handler takes for its own.
Idle == {"none", "seat"}

\* The kinds of records that an object of interface i can have.
Fit(i) == IF i \in {"surface", "xdg_surface"} THEN {i}
          ELSE IF i = "buffer" THEN {"buffer"} \cup Idle ELSE Idle

IsState(s) == s = [buffer |-> s.buffer, frame |-> s.frame] /\ s.buffer \in Id \cup {0}

IsSurface(r) ==
    /\ r = [kind |-> "surface", pending |-> r.pending, committed |-> r.committed]
    /\ IsState(r.pending)
    /\ r.committed = {} \/ \E s : IsState(s) /\ r.committed = {s}

IsXdgSurface(r) ==
    /\ r = [kind |-> "xdg_surface", surface |-> r.surface, next |-> r.next,
            configures |-> r.configures]
    /\ r.surface \in Id /\ r.next \in 0 .. Configures - 1
    /\ DOMAIN r.configures = 0 .. Configures - 1
    /\ \A i \in 0 .. Configures - 1 : \E s : \E a \in BOOLEAN :
          r.configures[i] = [serial |-> s, acked |-> a]

IsBuffer(r) == \E b \in BOOLEAN : r = [kind |-> "buffer", released |-> b]

IsSeat(r) == \E b \in BOOLEAN : r = [kind |-> "seat", named |-> b]

IsRecord(r) == r = NoRecord \/ IsSurface(r) \/ IsXdgSurface(r) \/ IsBuffer(r) \/ IsSeat(r)

Shapes == DOMAIN info = Id /\ \A x \in Id : IsRecord(info[x])

\* The peers' account of an object is of a kind; of a buffer, that is all.
IsAccount(a) ==
    /\ "kind" \in DOMAIN a
    /\ a.kind = "buffer" => a \in [kind : {"buffer"}, pooled : BOOLEAN]

\* What a record is before its request comes to wldbg, while its object lives and
\* when it is over.
Records ==
    /\ \A m \in Range(Here) :
          /\ m.arg.new # 0 =>
                /\ Kind(m.arg.new) \in Idle
                /\ account[m.arg.new].kind = "buffer" =>
                      /\ m.arg.made = "buffer"
                      /\ account[m.arg.new].pooled <=> m.intf = "pool"
          /\ m.ends /\ Unmade(Range(Here), m.id) => Kind(m.id) \in Fit(m.intf)
    /\ \A m \in Range(Past) :
          m.ends /\ m.intf \in {"surface", "xdg_surface"} => Kind(m.id) = "none"
    /\ \A m \in Range(Coming) :
          m.intf \in {"surface", "xdg_surface"} => Kind(m.id) \in {"none", m.intf}
    /\ \A x \in Id :
          /\ client[x] \in NoObject /\ Lasting(Range(Here), x) => Kind(x) \in Idle
          /\ client[x] \notin NoObject /\ Unmade(Range(Here), x) => Kind(x) \in Fit(client[x])
          /\ x \notin ClientId => Kind(x) = "none"

\* The buffers that the peers know.
Buffers ==
    /\ DOMAIN account = Id
    /\ \A x \in Id :
          /\ IsAccount(account[x])
          /\ account[x].kind = "buffer" =>
                /\ x \in ClientId /\ client[x] = "buffer"
                /\ account[x].pooled /\ Unmade(Range(Here), x) => Kind(x) = "buffer"
                /\ ~account[x].pooled => Kind(x) \in Idle

-----------------------------------------------------------------------------
(* What the handlers make of a message. *)

\* m is the message that comes.
Comes(m, which) == Arriving(which) # <<>> /\ m = Head(Arriving(which))

\* It is taken for what it is, if its interface is loaded.
LEMMA Understands ==
    ASSUME Lives, NEW which \in {"requests", "events"}, NEW m, Comes(m, which)
    PROVE  /\ m \in Range(Arriving(which))
           /\ which = "requests" => Here # <<>> /\ m = Head(Here) /\ IsRequest(m)
           /\ which = "events" => Coming # <<>> /\ m = Head(Coming) /\ IsEvent(m)
           /\ m.id \in Id /\ m.intf \in Interface /\ m.op \in DOMAIN Protocol[m.intf][which]
           /\ m.intf \in Loaded => GetObject(m.id) = m.intf
           /\ Understood(m, which) <=> m.intf \in Loaded
<1>0. Arriving(which) # <<>> /\ m = Head(Arriving(which))
  BY DEF Comes
<1>1. /\ which = "requests" => Arriving(which) = Here
      /\ which = "events" => Arriving(which) = Coming
  BY DEF Arriving, Here, Coming
<1>2. m \in Range(Arriving(which))
  BY <1>0, <1>1, TailIs DEF Lives, Queues
<1>3. /\ which = "requests" => IsRequest(m)
      /\ which = "events" => IsEvent(m)
  BY <1>1, <1>2 DEF Lives, Queues
<1>4. GetObject(m.id) = Shown(m.intf)
  BY <1>0, HeadsResolved DEF Resolved, Arriving
<1>5. m.id \in Id /\ m.intf \in Interface /\ m.op \in DOMAIN Protocol[m.intf][which]
  <2>1. CASE which = "requests"
    BY <1>3, <2>1 DEF IsRequest, IsMessage
  <2>2. CASE which = "events" /\ IsMessage(m, "events", ServerId)
    BY <2>2 DEF IsMessage
  <2>3. CASE which = "events" /\ \E n \in ClientId : m = DeleteId(n)
    <3>1. m.id = 1 /\ m.intf = "display" /\ m.op = 1
      BY <2>3 DEF DeleteId
    <3>2. /\ Protocol["display"].events \in Seq(Range(Protocol["display"].events))
          /\ Protocol["display"].events # <<>> /\ "display" \in Interface
      BY ObjInfoAssumption, TableWords DEF Resolvable
    <3>3. 1 \in DOMAIN Protocol["display"].events
      BY <3>2, LenProperties, EmptySeq
    <3> QED BY <2>3, <3>1, <3>2, <3>3, IdFacts
  <2> QED BY <1>3, <2>1, <2>2, <2>3 DEF IsEvent
<1>6. Understood(m, which) <=> m.intf \in Loaded
  <2>1. m.op <= Len(Protocol[m.intf][which])
    BY <1>5, MessageFacts
  <2>2. Shown(m.intf) \in Loaded <=> m.intf \in Loaded
    BY TableWords
  <2>3. m.intf \in Loaded => Shown(m.intf) = m.intf
    BY TableWords
  <2> QED BY <1>4, <2>1, <2>2, <2>3 DEF Understood
<1> QED BY <1>0, <1>1, <1>2, <1>3, <1>4, <1>5, <1>6, TableWords

\* ... and handled so, if at all.
LEMMA Gathers ==
    ASSUME Lives, NEW which \in {"requests", "events"}, NEW m, Comes(m, which), Gather(m, which)
    PROVE  LET msg == Protocol[m.intf][which][m.op]
           IN  \/ m.intf \notin Loaded /\ UNCHANGED <<info, fault>>
               \/ /\ m.intf \in Loaded
                  /\ \/ Create(m, m.intf, msg.name, msg.sig)
                     \/ Change(m, m.intf, msg.name, msg.sig)
                     \/ Free(m, m.intf, msg.name)
                     \/ Ignored(m, m.intf, msg.name)
BY Understands DEF Gather, MessageOf

\* An argument that a handler looks at is what the sender put.
LEMMA Reads ==
    ASSUME Lives, Naming, NEW which \in {"requests", "events"}, NEW m, Comes(m, which),
           m.intf \in Loaded,
           NEW k, NEW a \in {"n", "o", "u"},
           Takes(Protocol[m.intf][which][m.op], k, a)
    PROVE  LET sig == Protocol[m.intf][which][m.op].sig
           IN  ArgWord(sig, m.data, k) = Meant(m, a) /\ a \in Range(sig)
<1> DEFINE sig == Protocol[m.intf][which][m.op].sig
<1>1. ReadAsMeant(m, sig)
  BY Understands, ArrivingReads DEF Comes
<1>2. /\ k \in 1 .. Len(ArgTypes(sig)) /\ ArgTypes(sig)[k] = a
      /\ "h" \notin Range(SubSeq(ArgTypes(sig), 1, k - 1))
  BY DEF Takes
<1> HIDE DEF sig
<1>3. ArgWord(sig, m.data, k) = Meant(m, a)
  BY <1>1, <1>2 DEF ReadAsMeant
<1>4. ArgTypes(sig)[k] \in Range(sig)
  BY <1>1, <1>2, ElementOfSeq DEF ReadAsMeant
<1> QED BY <1>2, <1>3, <1>4 DEF sig

\* The messages that make a record, ...
LEMMA HandledNew ==
    ASSUME NEW i \in Interface, NEW which \in {"requests", "events"},
           NEW op \in DOMAIN Protocol[i][which],
           NewIdArg(i, Protocol[i][which][op].name) # 0
    PROVE  LET msg == Protocol[i][which][op]
           IN  /\ which = "requests" /\ MakesObject(msg.sig)
               /\ Takes(msg, NewIdArg(i, msg.name), "n") /\ msg.makes \subseteq RecordFor(i)
               /\ i = "shell" => /\ Takes(msg, 2, "o") /\ msg.takes = "surface"
                                 /\ "?" \notin Range(msg.sig)
BY ObjInfoAssumption DEF Handled

\* ... those that make none, ...
LEMMA HandledOther ==
    ASSUME NEW i \in Interface, NEW which \in {"requests", "events"},
           NEW op \in DOMAIN Protocol[i][which],
           NewIdArg(i, Protocol[i][which][op].name) = 0
    PROVE  LET msg == Protocol[i][which][op]
           IN  /\ msg.makes \cap {"surface", "xdg_surface"} = {}
               /\ which = "events" \/ i = "pool" => "buffer" \notin msg.makes
BY ObjInfoAssumption DEF Handled

\* ... those that free one, ...
LEMMA HandledEnds ==
    ASSUME NEW i \in Interface \cap Freed, NEW which \in {"requests", "events"},
           NEW op \in DOMAIN Protocol[i][which]
    PROVE  LET msg == Protocol[i][which][op]
           IN  /\ msg.ends <=> which = "requests" /\ msg.name = "destroy"
               /\ which = "events" => msg.name # "destroy"
BY ObjInfoAssumption DEF Handled

\* ... and those about the two kinds that are followed.
LEMMA HandledSurface ==
    ASSUME NEW i \in Interface, i = "surface", NEW which \in {"requests", "events"},
           NEW op \in DOMAIN Protocol[i][which]
    PROVE  LET msg == Protocol[i][which][op]
           IN  /\ msg.name \in Changes.surface => which = "requests"
               /\ msg.name = "attach" => Takes(msg, 1, "o") /\ msg.takes = "buffer"
BY ObjInfoAssumption DEF Handled

LEMMA HandledXdg ==
    ASSUME NEW i \in Interface, i = "xdg_surface", NEW which \in {"requests", "events"},
           NEW op \in DOMAIN Protocol[i][which]
    PROVE  LET msg == Protocol[i][which][op]
           IN  /\ msg.name = "configure" => which = "events" /\ Takes(msg, 4, "u")
               /\ msg.name = "ack_configure" => which = "requests" /\ Takes(msg, 1, "u")
BY ObjInfoAssumption DEF Handled

\* The record that is made for the new object of m.
RecordOf(m) ==
    CASE m.intf = "compositor" -> NewSurface
      [] m.intf = "pool" -> NewBuffer
      [] m.intf = "shell" -> NewXdgSurface(m.arg.obj)
      [] OTHER -> NewSeat

\* Where wldbg makes no record though it knows the message.
Passed(m) == m.intf = "registry" /\ m.arg.made # "seat"

\* What the messages are about that make a record, and what it is.
LEMMA CreateDoes ==
    ASSUME Lives, Naming, NEW which \in {"requests", "events"}, NEW m, Comes(m, which),
           m.intf \in Loaded,
           NEW msg, msg = Protocol[m.intf][which][m.op],
           Create(m, m.intf, msg.name, msg.sig)
    PROVE  /\ which = "requests" /\ m.arg.new \in ClientId /\ m.arg.made \in RecordFor(m.intf)
           /\ NewIdArg(m.intf, msg.name) # 0
           /\ m.intf = "shell" => m.arg.obj \in Id
           /\ fault' = fault
           /\ info' = IF Passed(m) THEN info ELSE [info EXCEPT ![m.arg.new] = RecordOf(m)]
<1> DEFINE at == NewIdArg(m.intf, msg.name)
<1>1. m.intf \in Interface /\ m.op \in DOMAIN Protocol[m.intf][which]
  BY Understands
<1>2. at # 0
  BY DEF Create
<1>3. /\ which = "requests" /\ MakesObject(msg.sig) /\ Takes(msg, at, "n")
      /\ msg.makes \subseteq RecordFor(m.intf)
      /\ m.intf = "shell" => Takes(msg, 2, "o") /\ "?" \notin Range(msg.sig)
  BY <1>1, <1>2, HandledNew
<1>4. IsRequest(m) /\ m \in Range(Here)
  BY <1>3, Understands DEF Arriving, Here
<1>5. m.arg.new \in ClientId /\ m.arg.made \in RecordFor(m.intf)
  <2>1. m.arg.new # 0 /\ m.arg.new \in ClientId \cup {0} /\ m.arg.made \in msg.makes
    BY <1>3, <1>4 DEF IsRequest, IsMessage
  <2> QED BY <1>3, <2>1
<1>6. ArgWord(msg.sig, m.data, at) = m.arg.new
  BY <1>3, Reads DEF Meant
<1>7. m.intf = "shell" => ArgWord(msg.sig, m.data, 2) = m.arg.obj /\ "o" \in Range(msg.sig)
  BY <1>3, Reads DEF Meant
<1>8. m.intf = "shell" => m.arg.obj \in Id
  <2> SUFFICES ASSUME m.intf = "shell" PROVE m.arg.obj \in Id
    OBVIOUS
  <2>1. Written(m, "requests")
    BY <1>4 DEF Naming
  <2>2. m.arg.obj # 0
    BY <1>3, <1>7, <2>1 DEF Written
  <2> QED BY <1>1, <1>3, <2>1, <2>2, WrittenIs
<1>9. NewRecord(m.intf, m, msg.sig) = RecordOf(m)
  BY <1>7 DEF NewRecord, RecordOf
<1>10. /\ fault' = fault
       /\ info' = IF Passed(m) THEN info ELSE [info EXCEPT ![m.arg.new] = RecordOf(m)]
  BY <1>6, <1>9 DEF Create, Passed
<1> QED BY <1>2, <1>3, <1>5, <1>8, <1>10

LEMMA RecordKinds ==
    ASSUME NEW r, IsRecord(r)
    PROVE  /\ r.kind \in {"none", "seat", "buffer", "surface", "xdg_surface"}
           /\ r.kind = "none" => r = NoRecord
           /\ r.kind = "surface" => IsSurface(r)
           /\ r.kind = "xdg_surface" => IsXdgSurface(r)
           /\ r.kind = "buffer" => IsBuffer(r)
           /\ r.kind = "seat" => IsSeat(r)
<1>1. r = NoRecord => r.kind = "none"
  BY DEF NoRecord
<1>2. IsSurface(r) => r.kind = "surface"
  BY DEF IsSurface
<1>3. IsXdgSurface(r) => r.kind = "xdg_surface"
  BY DEF IsXdgSurface
<1>4. IsBuffer(r) => r.kind = "buffer"
  BY DEF IsBuffer, NewBuffer
<1>5. IsSeat(r) => r.kind = "seat"
  BY DEF IsSeat, NewSeat
<1> QED BY <1>1, <1>2, <1>3, <1>4, <1>5 DEF IsRecord

\* Freeing is what the client asks for with the last request about an object.
LEMMA FreeDoes ==
    ASSUME Lives, NEW which \in {"requests", "events"}, NEW m, Comes(m, which),
           m.intf \in Loaded,
           NEW msg, msg = Protocol[m.intf][which][m.op],
           Free(m, m.intf, msg.name)
    PROVE  /\ which = "requests" /\ m.ends /\ m.intf \in Freed
           /\ info' = [info EXCEPT ![m.id] = NoRecord] /\ fault' \in {fault, "name"}
<1>1. m.intf \in Interface /\ m.op \in DOMAIN Protocol[m.intf][which]
  BY Understands
<1>2. m.intf \in Freed /\ msg.name = "destroy"
  BY DEF Free, Freed
<1>3. which = "requests" /\ msg.ends
  BY <1>1, <1>2, HandledEnds
<1>4. m.ends
  BY <1>3, Understands DEF IsRequest, IsMessage
<1>5. info' = [info EXCEPT ![m.id] = NoRecord] /\ fault' \in {fault, "name"}
  BY DEF Free
<1> QED BY <1>2, <1>3, <1>4, <1>5

\* An object of these interfaces has no record when its last request is ignored.
LEMMA IgnoredDoes ==
    ASSUME Lives, NEW which \in {"requests", "events"}, NEW m, Comes(m, which),
           m.intf \in Loaded,
           NEW msg, msg = Protocol[m.intf][which][m.op],
           Ignored(m, m.intf, msg.name)
    PROVE  /\ UNCHANGED <<info, fault>> /\ NewIdArg(m.intf, msg.name) = 0
           /\ m.ends /\ m.intf \in Freed => which = "requests" /\ info[m.id] = NoRecord
<1>1. m.intf \in Interface /\ m.op \in DOMAIN Protocol[m.intf][which] /\ m.id \in Id
  BY Understands
<1>2. UNCHANGED <<info, fault>> /\ NewIdArg(m.intf, msg.name) = 0
  BY DEF Ignored
<1>3. ASSUME m.ends, m.intf \in Freed PROVE which = "requests" /\ info[m.id] = NoRecord
  <2>1. msg.ends
    <3>1. CASE which = "requests"
      BY <1>3, <3>1, Understands DEF IsRequest, IsMessage
    <3>2. CASE which = "events"
      <4>1. \A n : ~DeleteId(n).ends
        BY DEF DeleteId
      <4>2. IsEvent(m) /\ ~\E n \in ClientId : m = DeleteId(n)
        BY <1>3, <3>2, <4>1, Understands
      <4>3. IsMessage(m, "events", ServerId)
        BY <4>2 DEF IsEvent
      <4> QED BY <1>3, <3>2, <4>3 DEF IsMessage
    <3> QED BY <3>1, <3>2
  <2>2. which = "requests" /\ msg.name = "destroy"
    BY <1>1, <1>3, <2>1, HandledEnds
  <2>3. InfoGet(m.id) = NoRecord
    BY <1>3, <2>2 DEF Ignored, Freed
  <2> QED BY <1>1, <2>2, <2>3 DEF InfoGet
<1> QED BY <1>2, <1>3

LEMMA BufferMarked ==
    ASSUME NEW r, IsBuffer(r), NEW t
    PROVE  [r EXCEPT !.released = t] = [kind |-> "buffer", released |-> t]
<1>1. \A q, b, u : q = [kind |-> "buffer", released |-> b] =>
                      [q EXCEPT !.released = u] = [kind |-> "buffer", released |-> u]
  OBVIOUS
<1> QED BY <1>1 DEF IsBuffer

LEMMA SeatMarked ==
    ASSUME NEW r, IsSeat(r), NEW t
    PROVE  [r EXCEPT !.named = t] = [kind |-> "seat", named |-> t]
<1>1. \A q, b, u : q = [kind |-> "seat", named |-> b] =>
                      [q EXCEPT !.named = u] = [kind |-> "seat", named |-> u]
  OBVIOUS
<1> QED BY <1>1 DEF IsSeat

\* A change leaves every record of its kind, and a record.
LEMMA ChangedIs ==
    ASSUME NEW r, NEW name, NEW m, NEW sig, IsRecord(r), r.kind \in DOMAIN Changes,
           name \in Changes[r.kind], name = "attach" => ArgWord(sig, m.data, 1) \in Id \cup {0}
    PROVE  IsRecord(Changed(r, name, m, sig)) /\ Changed(r, name, m, sig).kind = r.kind
<1> DEFINE c == Changed(r, name, m, sig)
<1>0. /\ r.kind \in {"surface", "buffer", "xdg_surface", "seat"}
      /\ r.kind = "surface" => name \in {"frame", "attach", "commit"}
      /\ r.kind = "buffer" => name = "release"
      /\ r.kind = "xdg_surface" => name \in {"configure", "ack_configure"}
      /\ r.kind = "seat" => name = "name"
  BY DEF Changes
<1>1. CASE r.kind = "surface"
  <2>1. IsSurface(r)
    BY <1>1, RecordKinds
  <2>2. PICK p, d : r = [kind |-> "surface", pending |-> p, committed |-> d]
    BY <2>1 DEF IsSurface
  <2>3. r.pending = [buffer |-> r.pending.buffer, frame |-> r.pending.frame]
    BY <2>1 DEF IsSurface, IsState
  <2>4. CASE name = "frame"
    <3>1. c = [r EXCEPT !.pending.frame = ArgWord(sig, m.data, 1)]
      BY <2>4 DEF Changed
    <3>2. /\ c = [kind |-> "surface", pending |-> c.pending, committed |-> c.committed]
          /\ c.pending = [buffer |-> r.pending.buffer, frame |-> ArgWord(sig, m.data, 1)]
          /\ c.committed = r.committed
      BY <2>1, <2>3, <3>1 DEF IsSurface
    <3> HIDE DEF c
    <3>3. IsSurface(c)
      BY <2>1, <3>2 DEF IsSurface, IsState
    <3> QED BY <1>1, <3>2, <3>3 DEF IsRecord, c
  <2>5. CASE name = "attach"
    <3>1. c = [r EXCEPT !.pending.buffer = ArgWord(sig, m.data, 1)]
      BY <2>5 DEF Changed
    <3>2. /\ c = [kind |-> "surface", pending |-> c.pending, committed |-> c.committed]
          /\ c.pending = [buffer |-> ArgWord(sig, m.data, 1), frame |-> r.pending.frame]
          /\ c.committed = r.committed
      BY <2>1, <2>3, <3>1 DEF IsSurface
    <3> HIDE DEF c
    <3>3. IsSurface(c)
      BY <2>1, <2>5, <3>2 DEF IsSurface, IsState
    <3> QED BY <1>1, <3>2, <3>3 DEF IsRecord, c
  <2>6. CASE name = "commit"
    <3>1. c = [r EXCEPT !.committed = {r.pending}, !.pending = Clean]
      BY <2>6 DEF Changed, Committed
    <3>2. c = [kind |-> "surface", pending |-> Clean, committed |-> {p}] /\ p = r.pending
      BY <2>2, <3>1
    <3> HIDE DEF c
    <3>3. IsState(Clean)
      BY DEF IsState, Clean
    <3>4. IsState(p)
      BY <2>1, <3>2 DEF IsSurface
    <3>5. IsSurface(c)
      BY <3>2, <3>3, <3>4 DEF IsSurface
    <3> QED BY <1>1, <3>2, <3>5 DEF IsRecord, c
  <2> QED BY <1>0, <1>1, <2>4, <2>5, <2>6
<1>2. CASE r.kind = "xdg_surface"
  <2>1. IsXdgSurface(r) /\ Configures \in Nat \ {0}
    BY <1>2, RecordKinds, ObjInfoAssumption
  <2>2. PICK s0, n0, f0 : r = [kind |-> "xdg_surface", surface |-> s0, next |-> n0,
                               configures |-> f0]
    BY <2>1 DEF IsXdgSurface
  <2>0. /\ s0 \in Id /\ n0 \in 0 .. Configures - 1 /\ DOMAIN f0 = 0 .. Configures - 1
        /\ \A i \in 0 .. Configures - 1 : \E s : \E a \in BOOLEAN :
              f0[i] = [serial |-> s, acked |-> a]
    BY <2>1, <2>2 DEF IsXdgSurface
  <2>3. CASE name = "configure"
    <3> DEFINE new == [serial |-> ArgWord(sig, m.data, 4), acked |-> FALSE]
    <3>1. c = [r EXCEPT !.next = (@ + 1) % Configures, !.configures[r.next] = new]
      BY <2>3 DEF Changed, Configured
    <3> DEFINE f1 == [f0 EXCEPT ![n0] = new]
               n1 == (n0 + 1) % Configures
    <3>2. c = [kind |-> "xdg_surface", surface |-> s0, next |-> n1, configures |-> f1]
      BY <2>2, <3>1
    <3>3. n1 \in 0 .. Configures - 1
      BY <2>0, <2>1
    <3>4. DOMAIN f1 = 0 .. Configures - 1
      BY <2>0
    <3>5. ASSUME NEW j \in 0 .. Configures - 1
          PROVE  \E s : \E a \in BOOLEAN : f1[j] = [serial |-> s, acked |-> a]
      <4>1. f1[j] = IF j = n0 THEN new ELSE f0[j]
        BY <2>0, <3>5
      <4> QED BY <2>0, <3>5, <4>1
    <3> HIDE DEF c, f1, n1
    <3>6. IsXdgSurface(c)
      BY <2>0, <3>2, <3>3, <3>4, <3>5 DEF IsXdgSurface
    <3> QED BY <1>2, <3>2, <3>6 DEF IsRecord, c
  <2>4. CASE name = "ack_configure"
    <3>1. c = Acknowledged(r, ArgWord(sig, m.data, 1))
      BY <2>4 DEF Changed
    <3>2. \/ c = r
          \/ \E i : c = [r EXCEPT !.configures[i].acked = TRUE]
      BY <3>1 DEF Acknowledged
    <3>3. CASE c = r
      BY <1>2, <3>3
    <3>4. ASSUME NEW i, c = [r EXCEPT !.configures[i].acked = TRUE]
          PROVE  IsXdgSurface(c) /\ c.kind = "xdg_surface"
      <4> DEFINE new == [f0 EXCEPT ![i].acked = TRUE]
      <4>1. c = [kind |-> "xdg_surface", surface |-> s0, next |-> n0, configures |-> new]
        BY <2>2, <3>4
      <4>2. DOMAIN new = 0 .. Configures - 1
        BY <2>0
      <4>3. ASSUME NEW j \in 0 .. Configures - 1
            PROVE  \E s : \E a \in BOOLEAN : new[j] = [serial |-> s, acked |-> a]
        <5>1. PICK s : \E a \in BOOLEAN : f0[j] = [serial |-> s, acked |-> a]
          BY <2>0, <4>3
        <5>2. PICK a \in BOOLEAN : f0[j] = [serial |-> s, acked |-> a]
          BY <5>1
        <5>3. new[j] = IF j = i THEN [f0[j] EXCEPT !.acked = TRUE] ELSE f0[j]
          BY <2>0, <4>3
        <5>4. \A q, t : q = [serial |-> s, acked |-> a] =>
                 [q EXCEPT !.acked = t] = [serial |-> s, acked |-> t]
          OBVIOUS
        <5>5. [f0[j] EXCEPT !.acked = TRUE] = [serial |-> s, acked |-> TRUE]
          BY <5>2, <5>4
        <5>6. new[j] = [serial |-> s, acked |-> TRUE] \/ new[j] = [serial |-> s, acked |-> a]
          BY <5>2, <5>3, <5>5
        <5> QED BY <5>2, <5>6
      <4> HIDE DEF c, new
      <4> QED BY <2>0, <4>1, <4>2, <4>3 DEF IsXdgSurface
    <3> QED BY <1>2, <3>2, <3>3, <3>4 DEF IsRecord
  <2> QED BY <1>0, <1>2, <2>3, <2>4
<1>3. CASE r.kind = "buffer"
  <2>1. IsBuffer(r) /\ c = [r EXCEPT !.released = TRUE]
    BY <1>0, <1>3, RecordKinds DEF Changed
  <2> HIDE DEF c
  <2>2. c = [kind |-> "buffer", released |-> TRUE]
    BY <2>1, BufferMarked
  <2>3. IsRecord(c) /\ c.kind = "buffer"
    BY <2>2 DEF IsRecord, IsBuffer
  <2> QED BY <1>3, <2>3 DEF c
<1>4. CASE r.kind = "seat"
  <2>1. IsSeat(r) /\ c = [r EXCEPT !.named = TRUE]
    BY <1>0, <1>4, RecordKinds DEF Changed
  <2> HIDE DEF c
  <2>2. c = [kind |-> "seat", named |-> TRUE]
    BY <2>1, SeatMarked
  <2>3. IsRecord(c) /\ c.kind = "seat"
    BY <2>2 DEF IsRecord, IsSeat
  <2> QED BY <1>4, <2>3 DEF c
<1> QED BY <1>0, <1>1, <1>2, <1>3, <1>4

\* A message that is the last of its object is so by the protocol.
LEMMA EndsSo ==
    ASSUME Lives, NEW which \in {"requests", "events"}, NEW m, Comes(m, which), m.ends
    PROVE  Protocol[m.intf][which][m.op].ends
<1>1. CASE which = "requests"
  BY <1>1, Understands DEF IsRequest, IsMessage
<1>2. CASE which = "events"
  <2>1. \A n : ~DeleteId(n).ends
    BY DEF DeleteId
  <2>2. IsEvent(m) /\ ~\E n \in ClientId : m = DeleteId(n)
    BY <1>2, <2>1, Understands
  <2>3. IsMessage(m, "events", ServerId)
    BY <2>2 DEF IsEvent
  <2> QED BY <1>2, <2>3 DEF IsMessage
<1> QED BY <1>1, <1>2

\* A change of an object's record, and of that of a buffer it names, leaves them
\* of their kinds; it is none of the last requests about such objects.
LEMMA ChangeDoes ==
    ASSUME Lives, Naming, Shapes, NEW which \in {"requests", "events"}, NEW m,
           Comes(m, which), m.intf \in Loaded,
           NEW msg, msg = Protocol[m.intf][which][m.op],
           Change(m, m.intf, msg.name, msg.sig)
    PROVE  /\ Shapes' /\ \A x \in Id : Kind(x)' = Kind(x)
           /\ NewIdArg(m.intf, msg.name) = 0
           /\ ~(m.ends /\ m.intf \in Freed)
<1> DEFINE word == ArgWord(msg.sig, m.data, 1)
           touched == {m.id} \cup (IF msg.name = "attach" THEN {word} ELSE {})
           other == touched \ {m.id}
<1>1. m.intf \in Interface /\ m.op \in DOMAIN Protocol[m.intf][which] /\ m.id \in Id
  BY Understands
<1>2. /\ m.intf \in {"surface", "buffer", "xdg_surface", "seat"}
      /\ msg.name \in Changes[m.intf] /\ m.intf \in DOMAIN Changes
      /\ msg.name # "destroy" /\ (msg.name = "attach" => m.intf = "surface")
  <2>1. PICK i, w : i = m.intf /\ w = msg.name
    OBVIOUS
  <2>2. i \in DOMAIN Changes /\ w \in Changes[i]
    BY <2>1 DEF Change
  <2>3. /\ i \in {"surface", "buffer", "xdg_surface", "seat"}
        /\ w # "destroy" /\ (w = "attach" => i = "surface")
    BY <2>2 DEF Changes
  <2> QED BY <2>1, <2>2, <2>3
<1>3. NewIdArg(m.intf, msg.name) = 0
  BY <1>2 DEF NewIdArg
<1>4. ~(m.ends /\ m.intf \in Freed)
  <2> SUFFICES ASSUME m.ends, m.intf \in Freed PROVE FALSE
    OBVIOUS
  <2>1. msg.ends
    BY EndsSo
  <2>2. msg.name = "destroy"
    BY <1>1, <2>1, HandledEnds
  <2> QED BY <1>2, <2>2
<1>5. msg.name = "attach" => word \in Id \cup {0}
  <2> SUFFICES ASSUME msg.name = "attach" PROVE word \in Id \cup {0}
    OBVIOUS
  <2>1. Takes(msg, 1, "o") /\ m.intf = "surface"
    BY <1>1, <1>2, HandledSurface
  <2>2. word = m.arg.obj
    BY <2>1, Reads DEF Meant
  <2>3. Written(m, which)
    <3>1. CASE which = "requests"
      BY <3>1, Understands DEF Arriving, Here, Naming
    <3>2. CASE which = "events"
      <4>1. m \in Range(Coming)
        BY <3>2, Understands DEF Arriving, Coming
      <4>2. ~IsDelete(m)
        BY <2>1, DeleteIdFacts DEF IsDelete
      <4> QED BY <3>2, <4>1, <4>2 DEF Naming
    <3> QED BY <3>1, <3>2
  <2> QED BY <1>1, <2>2, <2>3, WrittenIs
<1>6. CASE fault' = "kind" /\ UNCHANGED info
  BY <1>3, <1>4, <1>6 DEF Shapes, Kind
<1>7. CASE /\ info[m.id].kind = m.intf
           /\ \A id \in other : InfoGet(id).kind \in {"none", "buffer"}
           /\ info' = [id \in Id |->
                 IF id = m.id THEN Changed(info[id], msg.name, m, msg.sig)
                 ELSE IF id \in other /\ info[id] # NoRecord
                      THEN [info[id] EXCEPT !.released = FALSE]
                 ELSE info[id]]
  <2>1. DOMAIN info' = Id
    BY <1>7
  <2>2. ASSUME NEW x \in Id PROVE IsRecord(info'[x]) /\ info'[x].kind = info[x].kind
    <3>1. IsRecord(info[x])
      BY DEF Shapes
    <3>2. CASE x = m.id
      <4>1. info'[x] = Changed(info[x], msg.name, m, msg.sig)
        BY <1>7, <3>2
      <4>2. info[x].kind = m.intf
        BY <1>7, <3>2
      <4>3. /\ info[x].kind \in DOMAIN Changes /\ msg.name \in Changes[info[x].kind]
            /\ msg.name = "attach" => ArgWord(msg.sig, m.data, 1) \in Id \cup {0}
        BY <1>2, <1>5, <4>2
      <4>4. LET c == Changed(info[x], msg.name, m, msg.sig)
            IN  IsRecord(c) /\ c.kind = info[x].kind
        <5>1. PICK r, w, sig : r = info[x] /\ w = msg.name /\ sig = msg.sig
          OBVIOUS
        <5>2. /\ IsRecord(r) /\ r.kind \in DOMAIN Changes /\ w \in Changes[r.kind]
              /\ w = "attach" => ArgWord(sig, m.data, 1) \in Id \cup {0}
          BY <3>1, <4>3, <5>1
        <5>3. IsRecord(Changed(r, w, m, sig)) /\ Changed(r, w, m, sig).kind = r.kind
          BY <5>2, ChangedIs
        <5> QED BY <5>1, <5>3
      <4> QED BY <4>1, <4>4
    <3>3. CASE x # m.id /\ x \in other /\ info[x] # NoRecord
      <4>1. info'[x] = [info[x] EXCEPT !.released = FALSE]
        BY <1>7, <3>3
      <4>2. info[x].kind \in {"none", "buffer"}
        BY <1>7, <3>3 DEF InfoGet
      <4>3. IsBuffer(info[x]) /\ info[x].kind = "buffer"
        BY <3>1, <3>3, <4>2, RecordKinds
      <4>4. info'[x] = [kind |-> "buffer", released |-> FALSE]
        BY <4>1, <4>3, BufferMarked
      <4>5. IsBuffer(info'[x]) /\ info'[x].kind = "buffer"
        <5>1. \A r : r = [kind |-> "buffer", released |-> FALSE] => IsBuffer(r)
          BY DEF IsBuffer
        <5> QED BY <4>4, <5>1
      <4> QED BY <4>3, <4>5 DEF IsRecord
    <3>4. CASE x # m.id /\ ~(x \in other /\ info[x] # NoRecord)
      BY <1>7, <3>1, <3>4
    <3> QED BY <3>2, <3>3, <3>4
  <2>3. Shapes'
    BY <2>1, <2>2 DEF Shapes
  <2> QED BY <1>3, <1>4, <2>2, <2>3 DEF Kind
<1> QED BY <1>6, <1>7 DEF Change, Touched

\* The record that is made for a new object.
LEMMA RecordOfIs ==
    ASSUME NEW m, m.intf = "shell" => m.arg.obj \in Id
    PROVE  /\ IsRecord(RecordOf(m))
           /\ RecordOf(m).kind = CASE m.intf = "compositor" -> "surface"
                                   [] m.intf = "pool" -> "buffer"
                                   [] m.intf = "shell" -> "xdg_surface"
                                   [] OTHER -> "seat"
<1>1. CASE m.intf = "compositor"
  <2>1. IsState(Clean)
    BY DEF IsState, Clean
  <2>2. \A r : r = [kind |-> "surface", pending |-> Clean, committed |-> {}] => IsSurface(r)
    BY <2>1 DEF IsSurface
  <2>3. IsSurface(NewSurface) /\ NewSurface.kind = "surface"
    BY <2>2 DEF NewSurface
  <2> QED BY <1>1, <2>3 DEF IsRecord, RecordOf
<1>2. CASE m.intf = "pool"
  <2>1. \A r : r = [kind |-> "buffer", released |-> FALSE] => IsBuffer(r)
    BY DEF IsBuffer
  <2>2. IsBuffer(NewBuffer) /\ NewBuffer.kind = "buffer"
    BY <2>1 DEF NewBuffer
  <2> QED BY <1>2, <2>2 DEF IsRecord, RecordOf
<1>3. CASE m.intf = "shell"
  <2> DEFINE f == [i \in 0 .. Configures - 1 |-> [serial |-> 0, acked |-> FALSE]]
  <2>1. /\ DOMAIN f = 0 .. Configures - 1
        /\ \A i \in 0 .. Configures - 1 : \E s : \E a \in BOOLEAN :
              f[i] = [serial |-> s, acked |-> a]
    OBVIOUS
  <2>2. m.arg.obj \in Id /\ 0 \in 0 .. Configures - 1
    BY <1>3, ObjInfoAssumption
  <2> HIDE DEF f
  <2>3. \A r : r = [kind |-> "xdg_surface", surface |-> m.arg.obj, next |-> 0,
                    configures |-> f] => IsXdgSurface(r)
    BY <2>1, <2>2 DEF IsXdgSurface
  <2>4. RecordOf(m) = [kind |-> "xdg_surface", surface |-> m.arg.obj, next |-> 0,
                       configures |-> f]
    BY <1>3 DEF RecordOf, NewXdgSurface, f
  <2>5. IsXdgSurface(RecordOf(m)) /\ RecordOf(m).kind = "xdg_surface"
    BY <2>3, <2>4
  <2> QED BY <1>3, <2>5 DEF IsRecord
<1>4. CASE m.intf \notin {"compositor", "pool", "shell"}
  <2>1. \A r : r = [kind |-> "seat", named |-> FALSE] => IsSeat(r)
    BY DEF IsSeat
  <2>2. IsSeat(NewSeat) /\ NewSeat.kind = "seat"
    BY <2>1 DEF NewSeat
  <2> QED BY <1>4, <2>2 DEF IsRecord, RecordOf
<1> QED BY <1>1, <1>2, <1>3, <1>4

\* Whatever comes, records are records.
LEMMA GatherShapes ==
    ASSUME Lives, Naming, Shapes, NEW which \in {"requests", "events"}, NEW m,
           Comes(m, which), Gather(m, which)
    PROVE  Shapes'
<1> DEFINE msg == Protocol[m.intf][which][m.op]
<1>1. CASE UNCHANGED <<info, fault>>
  BY <1>1 DEF Shapes
<1>2. CASE m.intf \in Loaded /\ Create(m, m.intf, msg.name, msg.sig)
  <2>1. /\ m.intf = "shell" => m.arg.obj \in Id
        /\ info' = IF Passed(m) THEN info ELSE [info EXCEPT ![m.arg.new] = RecordOf(m)]
    BY <1>2, CreateDoes
  <2>2. IsRecord(RecordOf(m))
    BY <2>1, RecordOfIs
  <2> QED BY <2>1, <2>2 DEF Shapes
<1>3. CASE m.intf \in Loaded /\ Change(m, m.intf, msg.name, msg.sig)
  BY <1>3, ChangeDoes
<1>4. CASE m.intf \in Loaded /\ Free(m, m.intf, msg.name)
  <2>1. info' = [info EXCEPT ![m.id] = NoRecord]
    BY <1>4, FreeDoes
  <2> QED BY <2>1 DEF Shapes, IsRecord
<1>5. CASE m.intf \in Loaded /\ Ignored(m, m.intf, msg.name)
  BY <1>1, <1>5, IgnoredDoes
<1> QED BY <1>1, <1>2, <1>3, <1>4, <1>5, Gathers

\* A request that is on its way makes an object that is asked for.
LEMMA Asks ==
    ASSUME Lives, NEW m \in Range(Here), m.arg.new # 0
    PROVE  /\ m.arg.new \in ClientId /\ m.arg.new \in Id
           /\ \E i \in Interface : Asked(m.arg.new, i)
<1>1. IsRequest(m)
  BY DEF Lives, Queues
<1>2. m.arg.new \in ClientId /\ m.arg.new \in Id
  BY <1>1, RequestFacts, IdFacts
<1>3. ~Unmade(Range(Here), m.arg.new)
  BY DEF Unmade
<1>4. \E i \in Interface : Asked(m.arg.new, i)
  BY <1>2, <1>3 DEF Lives, Clients, Unused, Unasked, Seen, Known, Released, Gone, Ended
<1> QED BY <1>2, <1>4

\* The one that comes first makes it as what it says, and is about another object.
LEMMA HeadAsks ==
    ASSUME Lives, Here # <<>>, NEW m, m = Head(Here), m.arg.new # 0
    PROVE  /\ m.arg.new \in ClientId /\ m.arg.new \in Id /\ m.arg.new # m.id
           /\ m.arg.made \in Interface /\ Asked(m.arg.new, m.arg.made)
           /\ Unmade(Range(Tail(Here)), m.arg.new)
<1>1. IsSeq(Here) /\ m \in Range(Here)
  BY TailIs DEF Lives, Queues
<1>2. PICK i \in Interface : Asked(m.arg.new, i)
  BY <1>1, Asks
<1>3. MadeFirst(Here, m.arg.new, i)
  BY <1>2 DEF Asked
<1>4. m.arg.made = i /\ Unmade(Range(Tail(Here)), m.arg.new) /\ m.arg.new # m.id
  BY <1>1, <1>3, HeadMakes
<1> QED BY <1>1, <1>2, <1>4, Asks

\* What a message makes of the kinds of the records, unless it goes wrong.
LEMMA GatherKinds ==
    ASSUME Lives, Naming, Shapes, NEW which \in {"requests", "events"}, NEW m,
           Comes(m, which), Gather(m, which)
    PROVE  /\ \A x \in Id : \/ Kind(x)' = Kind(x)
                            \/ which = "requests" /\ x = m.arg.new
                            \/ x = m.id /\ which = "requests" /\ Kind(x)' = "none"
           /\ m.ends /\ m.intf \in Freed => which = "requests" /\ Kind(m.id)' = "none"
           /\ ~(m.ends /\ m.intf \in Freed) =>
                 \A x \in Id : Kind(x)' = Kind(x) \/ (which = "requests" /\ x = m.arg.new)
           /\ which = "requests" /\ m.arg.new # 0 =>
                 /\ m.arg.made \in {"surface", "xdg_surface"} => Kind(m.arg.new)' = m.arg.made
                 /\ m.arg.made = "buffer" =>
                       Kind(m.arg.new)' = IF m.intf = "pool" THEN "buffer"
                                          ELSE Kind(m.arg.new)
                 /\ m.arg.made \notin Freed => Kind(m.arg.new)' \in {Kind(m.arg.new), "seat"}
<1> DEFINE msg == Protocol[m.intf][which][m.op]
           at == NewIdArg(m.intf, msg.name)
<1>1. /\ m.intf \in Interface /\ m.op \in DOMAIN Protocol[m.intf][which] /\ m.id \in Id
      /\ DOMAIN info = Id /\ NoRecord.kind = "none"
  BY Understands DEF Shapes, NoRecord
<1>2. which = "requests" => IsRequest(m) /\ Here # <<>> /\ m = Head(Here)
  BY Understands
<1>3. /\ m.intf \in Freed => at = 0 /\ m.intf \in Loaded
      /\ at # 0 => m.intf \in {"compositor", "pool", "shell", "registry"}
  BY <1>1, ObjInfoAssumption DEF NewIdArg, Freed, Handled
<1>4. ASSUME which = "requests", m.arg.new # 0
      PROVE  /\ m.arg.new \in Id /\ m.arg.new # m.id /\ m.intf \in Loaded
             /\ m.arg.made \in msg.makes
             /\ at = 0 => /\ m.arg.made \notin {"surface", "xdg_surface"}
                          /\ m.arg.made = "buffer" => m.intf # "pool"
  <2>1. m.arg.new \in Id /\ m.arg.new # m.id
    BY <1>2, <1>4, HeadAsks
  <2>2. m.intf \in Loaded
    BY <1>2, <1>4, NewObject DEF IsRequest
  <2>3. m.arg.made \in msg.makes
    BY <1>2, <1>4 DEF IsRequest, IsMessage
  <2> QED BY <1>1, <2>1, <2>2, <2>3, HandledOther
<1>5. CASE UNCHANGED <<info, fault>> /\ m.intf \notin Loaded
  BY <1>3, <1>4, <1>5 DEF Kind
<1>6. CASE m.intf \in Loaded /\ Create(m, m.intf, msg.name, msg.sig)
  <2>1. /\ which = "requests" /\ m.arg.new \in ClientId /\ m.arg.made \in RecordFor(m.intf)
        /\ at # 0 /\ (m.intf = "shell" => m.arg.obj \in Id)
        /\ info' = IF Passed(m) THEN info ELSE [info EXCEPT ![m.arg.new] = RecordOf(m)]
    BY <1>6, CreateDoes
  <2>2. m.arg.new \in Id /\ m.arg.new # m.id /\ m.arg.new # 0
    BY <1>4, <2>1, IdFacts
  <2>3. \A x \in Id : Kind(x)' = Kind(x) \/ x = m.arg.new
    BY <1>1, <2>1 DEF Kind
  <2>4. m.intf \notin Freed
    BY <1>3, <2>1
  <2>5. RecordOf(m).kind = CASE m.intf = "compositor" -> "surface"
                             [] m.intf = "pool" -> "buffer"
                             [] m.intf = "shell" -> "xdg_surface"
                             [] OTHER -> "seat"
    BY <2>1, RecordOfIs
  <2>6. Kind(m.arg.new)' = IF Passed(m) THEN Kind(m.arg.new) ELSE RecordOf(m).kind
    BY <1>1, <2>1, <2>2 DEF Kind
  <2>7. /\ m.arg.made \in {"surface", "xdg_surface"} => Kind(m.arg.new)' = m.arg.made
        /\ m.arg.made = "buffer" =>
              Kind(m.arg.new)' = IF m.intf = "pool" THEN "buffer" ELSE Kind(m.arg.new)
        /\ m.arg.made \notin Freed => Kind(m.arg.new)' \in {Kind(m.arg.new), "seat"}
    <3>1. CASE m.intf = "compositor"
      BY <2>1, <2>5, <2>6, <3>1 DEF RecordFor, Passed, Freed
    <3>2. CASE m.intf = "pool"
      BY <2>1, <2>5, <2>6, <3>2 DEF RecordFor, Passed, Freed
    <3>3. CASE m.intf = "shell"
      BY <2>1, <2>5, <2>6, <3>3 DEF RecordFor, Passed, Freed
    <3>4. CASE m.intf = "registry"
      BY <2>1, <2>5, <2>6, <3>4 DEF RecordFor, Passed, Freed
    <3> QED BY <1>3, <2>1, <3>1, <3>2, <3>3, <3>4
  <2> QED BY <2>1, <2>3, <2>4, <2>7
<1>7. CASE m.intf \in Loaded /\ Change(m, m.intf, msg.name, msg.sig)
  <2>1. /\ \A x \in Id : Kind(x)' = Kind(x)
        /\ at = 0 /\ ~(m.ends /\ m.intf \in Freed)
    BY <1>7, ChangeDoes
  <2> QED BY <1>4, <2>1 DEF Freed
<1>8. CASE m.intf \in Loaded /\ Free(m, m.intf, msg.name)
  <2>1. /\ which = "requests" /\ m.ends /\ m.intf \in Freed
        /\ info' = [info EXCEPT ![m.id] = NoRecord]
    BY <1>8, FreeDoes
  <2>2. Kind(m.id)' = "none" /\ \A x \in Id : Kind(x)' = Kind(x) \/ x = m.id
    BY <1>1, <2>1 DEF Kind
  <2> QED BY <1>3, <1>4, <2>1, <2>2 DEF Freed
<1>9. CASE m.intf \in Loaded /\ Ignored(m, m.intf, msg.name)
  <2>1. /\ UNCHANGED <<info, fault>> /\ at = 0
        /\ m.ends /\ m.intf \in Freed => which = "requests" /\ info[m.id] = NoRecord
    BY <1>9, IgnoredDoes
  <2> QED BY <1>1, <1>4, <2>1 DEF Kind, Freed
<1> QED BY <1>5, <1>6, <1>7, <1>8, <1>9, Gathers

-----------------------------------------------------------------------------
(* The records are kept. *)

\* The last request about an object, on its way to wldbg.
LEMMA LastOut ==
    ASSUME Lives, NEW e \in Range(Here), e.ends
    PROVE  EndsLast(Here, e.id) /\ Saying(Range(Here), e.id, e.intf) /\ e.intf \in Interface
<1>1. IsRequest(e) /\ Display
  BY DEF Lives, Queues
<1>2. e.id \in Id /\ e.intf \in Interface /\ (e.intf = "display" => ~e.ends)
  BY <1>1, RequestFacts
<1>3. ~Silent(Range(Here), e.id) /\ ~Lasting(Range(Here), e.id)
  BY DEF Silent, Lasting
<1>4. e.id # 1
  BY <1>1, <1>2 DEF Display, Saying
<1>5. \E i, z : Speaks(e.id, i, z)
  <2>1. CASE e.id \in ClientId
    BY <1>3, <2>1 DEF Lives, Clients, Unused, Unasked, Asked, Seen, Known, Released, Gone, Ended
  <2>2. CASE e.id \in ServerId
    BY <1>3, <2>2 DEF Lives, Servers, Vacant, Announced, Introduced, Unsaid, Present
  <2> QED BY <1>2, <1>4, <2>1, <2>2, IdFacts
<1>6. PICK i, z : Speaks(e.id, i, z)
  BY <1>5
<1>7. EndsLast(Here, e.id) /\ Saying(Range(Here), e.id, i)
  BY <1>3, <1>6 DEF Speaks
<1> QED BY <1>2, <1>7 DEF Saying

\* What is asked for is not spoken of by anybody else.
LEMMA AskedIs ==
    ASSUME Lives, NEW x \in ClientId, NEW i \in Interface, Asked(x, i)
    PROVE  /\ Silent(Range(Past), x) /\ Silent(Range(Coming), x)
           /\ Saying(Range(Here), x, i)
           /\ client[x] = i \/ client[x] = "zombie"
           /\ client[x] \in NoObject => ~Lasting(Range(Here), x)
<1>1. Speaks(x, i, "zombie") /\ Silent(Range(Past), x) /\ Silent(Range(Coming), x)
  BY DEF Asked, Untold
<1>2. i \notin NoObject /\ IsSeq(Here) /\ IsSeq(Past)
  BY TableWords DEF Lives, Queues
<1>3. EndsLast(Here, x) => ~Lasting(Range(Here), x)
  <2> SUFFICES ASSUME EndsLast(Here, x) PROVE ~Lasting(Range(Here), x)
    OBVIOUS
  <2>1. PICK p \in Parts(Here) : p.at.id = x /\ p.at.ends
    BY DEF EndsLast
  <2>2. p.at \in Range(Here)
    BY <1>2, PartsAre
  <2> QED BY <2>1, <2>2 DEF Lasting
<1>4. ~EndsLast(Past, x)
  <2> SUFFICES ASSUME EndsLast(Past, x) PROVE FALSE
    OBVIOUS
  <2>1. PICK p \in Parts(Past) : p.at.id = x /\ p.at.ends
    BY DEF EndsLast
  <2>2. p.at \in Range(Past)
    BY <1>2, PartsAre
  <2> QED BY <1>1, <2>1, <2>2 DEF Silent
<1> QED BY <1>1, <1>2, <1>3, <1>4 DEF Speaks

\* Events make no surfaces, xdg_surfaces and buffers, and end none.
LEMMA NotByEvents ==
    /\ MadeByEvents \cap Freed = {}
    /\ \A i \in Freed \cap Interface : ~Fleeting(i)
<1>1. ASSUME NEW i \in Interface, NEW msg \in Range(Protocol[i].events)
      PROVE  /\ msg.makes \cap Freed = {}
             /\ i \in Freed => ~msg.ends
  <2>1. PICK op \in DOMAIN Protocol[i]["events"] : msg = Protocol[i]["events"][op]
    BY RangeIs
  <2>2. NewIdArg(i, msg.name) = 0
    BY <2>1, HandledNew
  <2>3. /\ msg.makes \cap {"surface", "xdg_surface"} = {} /\ "buffer" \notin msg.makes
        /\ i \in Freed => ~msg.ends
    BY <2>1, <2>2, HandledOther, HandledEnds
  <2> QED BY <2>3 DEF Freed
<1>2. DOMAIN Protocol = Interface
  BY DEF Interface
<1> QED BY <1>1, <1>2 DEF MadeByEvents, Fleeting

\* The account of a buffer says the same of it until it is destroyed.
LEMMA SaidIs ==
    ASSUME NEW r, IsAccount(r), NEW m, NEW name, NEW id
    PROVE  /\ IsAccount(Said(r, m, name)) /\ Said(r, m, name).kind = r.kind
           /\ r.kind = "buffer" => Said(r, m, name).pooled = r.pooled
           /\ IsAccount(Without(r, id)) /\ Without(r, id).kind = r.kind
           /\ r.kind = "buffer" => Without(r, id).pooled = r.pooled
<1>1. "kind" \in DOMAIN r /\ (r.kind = "buffer" => \E b \in BOOLEAN : r = [kind |-> "buffer", pooled |-> b])
  BY DEF IsAccount
<1>2. CASE r.kind = "buffer"
  <2>1. PICK b \in BOOLEAN : r = [kind |-> "buffer", pooled |-> b]
    BY <1>1, <1>2
  <2>2. \A q : q = [kind |-> "buffer", pooled |-> b] =>
          /\ \A v : [q EXCEPT !.attached = v] = q
          /\ \A v : [q EXCEPT !.sent = v] = q
          /\ \A v : [q EXCEPT !.acked = v] = q
          /\ \A v, w, y, z : [q EXCEPT !.attached = v, !.commits = w, !.last = y, !.buffer = z] = q
    OBVIOUS
  <2>3. Without(r, id) = r
    BY <1>2 DEF Without
  <2>4. Said(r, m, name) = r
    BY <2>1, <2>2 DEF Said
  <2> QED BY <2>3, <2>4
<1>3. CASE r.kind # "buffer"
  <2> DEFINE Same(q) == "kind" \in DOMAIN q /\ q.kind = r.kind
  <2>1. /\ \A v : Same([r EXCEPT !.attached = v])
        /\ \A v : Same([r EXCEPT !.sent = v])
        /\ \A v : Same([r EXCEPT !.acked = v])
        /\ \A v : Same([r EXCEPT !.surface = v])
        /\ \A v, w : Same([r EXCEPT !.attached = v, !.buffer = w])
        /\ \A v, w, y, z : Same([r EXCEPT !.attached = v, !.commits = w, !.last = y, !.buffer = z])
        /\ Same(r)
    BY <1>1
  <2> HIDE DEF Same
  <2>2. Same(Said(r, m, name))
    BY <2>1 DEF Said
  <2>3. Same(Without(r, id))
    BY <2>1 DEF Without
  <2> USE DEF Same
  <2> QED BY <1>3, <2>2, <2>3 DEF IsAccount
<1> QED BY <1>2, <1>3

\* A message that is written makes no buffer but a new one, and ends the one it is
\* the last of.
LEMMA AccountIs ==
    ASSUME Buffers, NEW m, NEW msgs, Account(m, msgs)
    PROVE  /\ DOMAIN account' = Id
           /\ \A x \in Id :
                 /\ IsAccount(account'[x])
                 /\ x # m.arg.new /\ account'[x].kind = "buffer" =>
                       /\ account[x].kind = "buffer" /\ account'[x].pooled = account[x].pooled
                       /\ ~(x = m.id /\ m.ends)
                 /\ x = m.arg.new /\ account'[x].kind = "buffer" =>
                       /\ m.arg.made = "buffer"
                       /\ account'[x].pooled <=> m.intf = "pool"
<1>1. account' = [id \in Id |->
        IF id = m.arg.new THEN Made(m)
        ELSE IF id = m.id THEN IF m.ends THEN NoRecord
                               ELSE Said(account[id], m, msgs[m.op].name)
        ELSE IF m.ends THEN Without(account[id], m.id) ELSE account[id]]
  BY DEF Account, Accounted
<1>2. DOMAIN account' = Id
  BY <1>1
<1>3. IsAccount(NoRecord) /\ NoRecord.kind # "buffer"
  BY DEF IsAccount, NoRecord
<1>4. /\ IsAccount(Made(m))
      /\ Made(m).kind = "buffer" => m.arg.made = "buffer" /\ (Made(m).pooled <=> m.intf = "pool")
  <2>1. CASE m.arg.made = "surface"
    <3>1. Made(m) = [kind |-> "surface", attached |-> {}, commits |-> FALSE, last |-> FALSE,
                     buffer |-> 0]
      BY <2>1 DEF Made
    <3> QED BY <3>1 DEF IsAccount
  <2>2. CASE m.arg.made = "buffer"
    <3>1. PICK b \in BOOLEAN : b <=> m.intf = "pool"
      OBVIOUS
    <3>2. Made(m) = [kind |-> "buffer", pooled |-> b]
      BY <2>2, <3>1 DEF Made
    <3> QED BY <2>2, <3>1, <3>2 DEF IsAccount
  <2>3. CASE m.arg.made = "xdg_surface"
    <3>1. Made(m) = [kind |-> "xdg_surface", surface |-> m.arg.obj, sent |-> <<>>, acked |-> {}]
      BY <2>3 DEF Made
    <3> QED BY <3>1 DEF IsAccount
  <2>4. CASE m.arg.made \notin {"surface", "buffer", "xdg_surface"}
    BY <1>3, <2>4 DEF Made
  <2> QED BY <2>1, <2>2, <2>3, <2>4
<1>5. ASSUME NEW x \in Id
      PROVE  /\ IsAccount(account'[x])
             /\ x # m.arg.new /\ account'[x].kind = "buffer" =>
                   /\ account[x].kind = "buffer" /\ account'[x].pooled = account[x].pooled
                   /\ ~(x = m.id /\ m.ends)
             /\ x = m.arg.new /\ account'[x].kind = "buffer" =>
                   /\ m.arg.made = "buffer"
                   /\ account'[x].pooled <=> m.intf = "pool"
  <2>1. IsAccount(account[x])
    BY DEF Buffers
  <2>2. CASE x = m.arg.new
    BY <1>1, <1>4, <2>2
  <2>3. CASE x # m.arg.new /\ x = m.id /\ m.ends
    <3>1. account'[x] = NoRecord
      BY <1>1, <2>3
    <3> QED BY <1>3, <2>3, <3>1
  <2>4. CASE x # m.arg.new /\ x = m.id /\ ~m.ends
    <3>1. account'[x] = Said(account[x], m, msgs[m.op].name)
      BY <1>1, <2>4
    <3> QED BY <2>1, <2>4, <3>1, SaidIs
  <2>5. CASE x # m.arg.new /\ x # m.id /\ m.ends
    <3>1. account'[x] = Without(account[x], m.id)
      BY <1>1, <2>5
    <3> QED BY <2>1, <2>5, <3>1, SaidIs
  <2>6. CASE x # m.arg.new /\ x # m.id /\ ~m.ends
    BY <1>1, <2>1, <2>6
  <2> QED BY <2>2, <2>3, <2>4, <2>5, <2>6
<1> QED BY <1>2, <1>5

LEMMA AskRecords ==
    ASSUME Lives, Records, Buffers, Ask
    PROVE  (Records /\ Buffers)'
<1>1. Queues /\ Tables /\ Views /\ IsSeq(Here)
  BY DEF Lives, Queues
<1>2. ClientRequests /\ info' = info
  BY DEF Ask
<1>3. PICK m :
         /\ IsRequest(m) /\ client[m.id] = m.intf
         /\ m.arg.new # 0 => client[m.arg.new] = "none"
         /\ Here' = Append(Here, m) /\ Past' = Past /\ Coming' = Coming
         /\ requests' = [requests EXCEPT !["wldbg"] = Append(@, m)]
         /\ client' = [n \in Id |->
               IF n = m.arg.new THEN m.arg.made
               ELSE IF n = m.id /\ m.ends
                    THEN IF n \in ClientId THEN "zombie" ELSE "none"
                    ELSE client[n]]
  BY <1>1, <1>2, ClientRequestsIs
<1>4. /\ Range(Here') = Range(Here) \cup {m} /\ m \in Range(Here')
      /\ Len(Here') = Len(Here) + 1 /\ Here'[Len(Here) + 1] = m
  BY <1>1, <1>3, AppendIs
<1>5. Account(m, Protocol[m.intf].requests)
  <2>1. requests'["wldbg"] = Here' /\ Last(Here') = m
    BY <1>3, <1>4 DEF Here, Last
  <2> QED BY <2>1 DEF Ask
<1>6. /\ DOMAIN account' = Id
      /\ \A x \in Id :
            /\ IsAccount(account'[x])
            /\ x # m.arg.new /\ account'[x].kind = "buffer" =>
                  /\ account[x].kind = "buffer" /\ account'[x].pooled = account[x].pooled
                  /\ ~(x = m.id /\ m.ends)
            /\ x = m.arg.new /\ account'[x].kind = "buffer" =>
                  /\ m.arg.made = "buffer"
                  /\ account'[x].pooled <=> m.intf = "pool"
  BY <1>5, AccountIs
<1>7. /\ m.id \in Id /\ m.intf \in Interface /\ m.intf \notin NoObject
      /\ m.arg.new # 0 => /\ m.arg.new \in ClientId /\ m.arg.new \in Id
                          /\ m.arg.made \in Interface /\ m.arg.made \notin NoObject
                          /\ Unused(m.arg.new)
  BY <1>3, RequestFacts, IdFacts, TableWords, NoneOut
<1>8. m.arg.new # 0 => /\ Unmade(Range(Here), m.arg.new) /\ Lasting(Range(Here), m.arg.new)
                       /\ Kind(m.arg.new) \in Idle
  <2> SUFFICES ASSUME m.arg.new # 0
               PROVE  /\ Unmade(Range(Here), m.arg.new) /\ Lasting(Range(Here), m.arg.new)
                      /\ Kind(m.arg.new) \in Idle
    OBVIOUS
  <2>1. Unmade(Range(Here), m.arg.new) /\ Silent(Range(Here), m.arg.new)
    BY <1>7 DEF Unused, Unasked
  <2>2. Lasting(Range(Here), m.arg.new)
    BY <2>1, SilentSays
  <2> QED BY <1>3, <1>7, <2>1, <2>2 DEF Records, NoObject
<1>9. \A x : Kind(x)' = Kind(x)
  BY <1>2 DEF Kind
<1>10. \A x : /\ Unmade(Range(Here'), x) => Unmade(Range(Here), x) /\ x # m.arg.new
              /\ Lasting(Range(Here'), x) => Lasting(Range(Here), x) /\ ~(x = m.id /\ m.ends)
  BY <1>4 DEF Unmade, Lasting
<1>11. ASSUME NEW n \in Range(Here')
       PROVE  /\ n.arg.new # 0 =>
                    /\ Kind(n.arg.new) \in Idle
                    /\ account'[n.arg.new].kind = "buffer" =>
                          /\ n.arg.made = "buffer"
                          /\ account'[n.arg.new].pooled <=> n.intf = "pool"
              /\ n.ends /\ Unmade(Range(Here'), n.id) => Kind(n.id) \in Fit(n.intf)
  <2>1. CASE n = m
    <3>1. n.ends /\ Unmade(Range(Here'), n.id) => Kind(n.id) \in Fit(n.intf)
      BY <1>3, <1>7, <1>10, <2>1 DEF Records
    <3> QED BY <1>6, <1>7, <1>8, <2>1, <3>1
  <2>2. CASE n \in Range(Here)
    <3>1. n.arg.new # 0 => n.arg.new \in Id /\ n.arg.new # m.arg.new
      BY <1>8, <2>2, Asks DEF Unmade
    <3> QED BY <1>6, <1>10, <2>2, <3>1 DEF Records
  <2> QED BY <1>4, <2>1, <2>2
<1>12. ASSUME NEW x \in Id
       PROVE  /\ client'[x] \in NoObject /\ Lasting(Range(Here'), x) => Kind(x) \in Idle
              /\ client'[x] \notin NoObject /\ Unmade(Range(Here'), x) => Kind(x) \in Fit(client'[x])
              /\ x \notin ClientId => Kind(x) = "none"
  <2>1. /\ x = m.arg.new => client'[x] \notin NoObject
        /\ x # m.arg.new /\ x = m.id /\ m.ends => client'[x] \in NoObject
        /\ x # m.arg.new /\ ~(x = m.id /\ m.ends) => client'[x] = client[x]
    BY <1>3, <1>7, IdFacts DEF NoObject
  <2> QED BY <1>10, <2>1 DEF Records
<1>13. ASSUME NEW x \in Id, account'[x].kind = "buffer"
       PROVE  /\ x \in ClientId /\ client'[x] = "buffer"
              /\ account'[x].pooled /\ Unmade(Range(Here'), x) => Kind(x) = "buffer"
              /\ ~account'[x].pooled => Kind(x) \in Idle
  <2>0. x # 0
    BY IdFacts
  <2>1. CASE x = m.arg.new
    BY <1>3, <1>6, <1>7, <1>8, <1>10, <1>13, <2>0, <2>1
  <2>2. CASE x # m.arg.new
    <3>1. account[x].kind = "buffer" /\ account'[x].pooled = account[x].pooled
      BY <1>6, <1>13, <2>2
    <3>2. client'[x] = client[x]
      BY <1>3, <1>6, <1>13, <2>2
    <3> QED BY <1>10, <3>1, <3>2 DEF Buffers
  <2> QED BY <2>1, <2>2
<1>14. Buffers'
  BY <1>6, <1>9, <1>13 DEF Buffers
<1>15. Records'
  <2>1. \A n \in Range(Past') :
           n.ends /\ n.intf \in {"surface", "xdg_surface"} => Kind(n.id) = "none"
    BY <1>3 DEF Records
  <2>2. \A n \in Range(Coming') :
           n.intf \in {"surface", "xdg_surface"} => Kind(n.id) \in {"none", n.intf}
    BY <1>3 DEF Records
  <2> QED BY <1>9, <1>11, <1>12, <2>1, <2>2 DEF Records
<1> QED BY <1>14, <1>15

\* An object that the compositor sees has its record, or its last request has
\* passed wldbg.
LEMMA SeenKind ==
    ASSUME Lives, Records, NEW x \in Id, server[x] \in {"surface", "xdg_surface"}
    PROVE  Kind(x) \in {"none", server[x]}
<1> DEFINE i == server[x]
<1>0. IsSeq(Here) /\ IsSeq(Past) /\ i # "none"
  BY DEF Lives, Queues
<1>1. x # 1
  BY DEF Lives, Display
<1>2. x \notin ServerId
  <2>1. x \in ServerId => i \in MadeByEvents
    BY <1>0 DEF Lives, Servers, Vacant, Announced, Introduced, Present
  <2> QED BY <2>1, NotByEvents DEF Freed
<1>3. x \in ClientId
  BY <1>1, <1>2, IdFacts
<1>4. Known(x, i)
  BY <1>0, <1>3 DEF Lives, Clients, Unused, Asked, Seen, Known, Released, Gone, Ended
<1>5. Unmade(Range(Here), x) /\ Speaks(x, i, "zombie") /\ Fit(i) = {i} /\ i \notin NoObject
  BY <1>4 DEF Known, Fit, NoObject
<1>6. CASE client[x] = i
  BY <1>5, <1>6 DEF Records
<1>7. CASE EndsLast(Here, x)
  <2>1. PICK p \in Parts(Here) : p.at.id = x /\ p.at.ends
    BY <1>7 DEF EndsLast
  <2>2. p.at \in Range(Here)
    BY <1>0, PartsAre
  <2>3. p.at.intf = i
    BY <1>5, <2>1, <2>2 DEF Speaks, Saying
  <2> QED BY <1>5, <2>1, <2>2, <2>3 DEF Records
<1>8. CASE EndsLast(Past, x)
  <2>1. PICK p \in Parts(Past) : p.at.id = x /\ p.at.ends
    BY <1>8 DEF EndsLast
  <2>2. p.at \in Range(Past)
    BY <1>0, PartsAre
  <2>3. p.at.intf = i
    BY <1>5, <2>1, <2>2 DEF Speaks, Saying
  <2> QED BY <2>1, <2>2, <2>3 DEF Records
<1> QED BY <1>5, <1>6, <1>7, <1>8 DEF Speaks

LEMMA TellRecords ==
    ASSUME Lives, Records, Buffers, Tell
    PROVE  (Records /\ Buffers)'
<1>1. ServerSends /\ info' = info /\ IsSeq(Coming)
  BY DEF Tell, Lives, Queues
<1>2. PICK m :
        /\ IsEvent(m) /\ ~IsDeleteId(m) /\ server[m.id] = m.intf
        /\ m.ends => m.id \in ClientId
        /\ Here' = Here /\ Past' = Past
        /\ Coming' = (IF m.ends THEN Append(Append(Coming, m), DeleteId(m.id))
                      ELSE Append(Coming, m))
        /\ client' = client
  BY <1>1, ServerSendsDoes
<1>3. /\ \A n \in Range(Coming') :
            n \in Range(Coming) \/ n = m \/ (m.ends /\ n = DeleteId(m.id))
      /\ Coming'[Len(Coming) + 1] = m
  <2> DEFINE q == Append(Coming, m)
             d == DeleteId(m.id)
  <2>1. /\ IsSeq(q) /\ Range(q) = Range(Coming) \cup {m}
        /\ Len(q) = Len(Coming) + 1 /\ q[Len(q)] = m /\ Len(Coming) \in Nat
    BY <1>1, AppendIs, SeqIs
  <2> HIDE DEF q, d
  <2>2. Range(Append(q, d)) = Range(q) \cup {d} /\ Append(q, d)[Len(q)] = m
    <3>1. Len(q) \in 1 .. Len(q)
      BY <2>1
    <3> QED BY <2>1, <3>1, AppendIs
  <2>3. Coming' = IF m.ends THEN Append(q, d) ELSE q
    BY <1>2 DEF q, d
  <2> QED BY <2>1, <2>2, <2>3 DEF d
<1>4. Account(m, Protocol[m.intf].events)
  <2>1. events'["wldbg"][Len(events["wldbg"]) + 1] = m
    BY <1>3 DEF Coming
  <2> QED BY <2>1 DEF Tell
<1>5. /\ DOMAIN account' = Id
      /\ \A x \in Id :
            /\ IsAccount(account'[x])
            /\ x # m.arg.new /\ account'[x].kind = "buffer" =>
                  account[x].kind = "buffer" /\ account'[x].pooled = account[x].pooled
            /\ x = m.arg.new /\ account'[x].kind = "buffer" => m.arg.made = "buffer"
  BY <1>4, AccountIs
<1>6. /\ m.id \in Id /\ m.arg.new \in ServerId \cup {0}
      /\ m.arg.new # 0 => m.arg.made # "buffer"
  BY <1>2, EventFacts, NotByEvents DEF Freed
<1>7. ASSUME NEW x \in Id, account'[x].kind = "buffer"
      PROVE  account[x].kind = "buffer" /\ account'[x].pooled = account[x].pooled
  BY <1>5, <1>6, <1>7, IdFacts
<1>8. \A x : Kind(x)' = Kind(x)
  BY <1>1 DEF Kind
<1>9. Buffers'
  BY <1>2, <1>5, <1>7, <1>8 DEF Buffers
<1>10. ASSUME NEW n \in Range(Coming'), n.intf \in {"surface", "xdg_surface"}
       PROVE  Kind(n.id) \in {"none", n.intf}
  <2>1. CASE n \in Range(Coming)
    BY <1>10, <2>1 DEF Records
  <2>2. CASE n = m
    BY <1>2, <1>6, <1>10, <2>2, SeenKind
  <2>3. CASE m.ends /\ n = DeleteId(m.id)
    BY <1>2, <1>10, <2>3, DeleteIdFacts
  <2> QED BY <1>3, <2>1, <2>2, <2>3
<1>11. ASSUME NEW n \in Range(Here), n.arg.new # 0, account'[n.arg.new].kind = "buffer"
       PROVE  n.arg.made = "buffer" /\ (account'[n.arg.new].pooled <=> n.intf = "pool")
  <2>1. n.arg.new \in Id
    BY <1>11, Asks
  <2> QED BY <1>7, <1>11, <2>1 DEF Records
<1>12. Records'
  BY <1>2, <1>8, <1>10, <1>11 DEF Records
<1> QED BY <1>9, <1>12

LEMMA ServerTakesRecords ==
    ASSUME Lives, Records, Buffers, ServerTakes, UNCHANGED <<info, account>>
    PROVE  (Records /\ Buffers)'
<1> DEFINE m == Head(Past)
<1>1. /\ Past # <<>> /\ Here' = Here /\ Past' = Tail(Past) /\ client' = client
      /\ Coming' = (IF m.ends /\ m.id \in ClientId THEN Append(Coming, DeleteId(m.id))
                    ELSE Coming)
      /\ IsSeq(Past) /\ IsSeq(Coming)
  BY ServerTakesDoes DEF Lives, Queues
<1>2. Range(Past') \subseteq Range(Past)
  BY <1>1, TailIs
<1> HIDE DEF m
<1>3. \A n \in Range(Coming') : n \in Range(Coming) \/ n.intf = "display"
  BY <1>1, AppendIs, DeleteIdFacts
<1>4. \A x : Kind(x)' = Kind(x)
  BY DEF Kind
<1>5. Buffers'
  BY <1>1, <1>4 DEF Buffers
<1>6. \A n \in Range(Coming') :
         n.intf \in {"surface", "xdg_surface"} => Kind(n.id) \in {"none", n.intf}
  BY <1>3 DEF Records
<1>7. Records'
  BY <1>1, <1>2, <1>4, <1>6 DEF Records
<1> QED BY <1>5, <1>7

\* What the client loses by an event has no record that anybody takes for his own.
LEMMA LostKind ==
    ASSUME Lives, Records, NEW x \in ClientId, x \in Id, Going # <<>>,
           Releases(Head(Going), x) \/ (Head(Going).id = x /\ Head(Going).ends),
           client[x] \notin NoObject
    PROVE  Kind(x) \in Idle /\ client[x] # "buffer"
<1>1. IsSeq(Going)
  BY DEF Lives, Queues
<1>2. ~(Held(Range(Going), x) /\ Lasting(Range(Going), x))
  BY <1>1, HeadSays
<1>3. PICK i \in Interface : Released(x, i) \/ Gone(x, i)
  BY <1>2 DEF Lives, Clients, Unused, Asked, Seen, Known, Untold
<1>4. client[x] = i /\ Fleeting(i) /\ Unmade(Range(Here), x)
  BY <1>3 DEF Released, Gone, Ended, Unasked, NoObject
<1>5. i \notin Freed
  BY <1>4, NotByEvents
<1>6. Fit(i) = Idle /\ i # "buffer"
  BY <1>5 DEF Fit, Freed
<1> QED BY <1>4, <1>6 DEF Records

LEMMA ClientTakesRecords ==
    ASSUME Lives, Records, Buffers, ClientTakes, UNCHANGED <<info, account>>
    PROVE  (Records /\ Buffers)'
<1> DEFINE m == Head(Going)
<1>1. /\ Going # <<>> /\ IsEvent(m) /\ Here' = Here /\ Past' = Past /\ Coming' = Coming
      /\ client' = [n \in Id |->
            IF n = m.arg.new THEN m.arg.made
            ELSE IF Releases(m, n) THEN "none"
            ELSE IF n = m.id /\ m.ends THEN "zombie" ELSE client[n]]
  BY ClientTakesDoes
<1>2. /\ m.arg.new \in ServerId \cup {0}
      /\ m.arg.new # 0 => m.arg.made \in MadeByEvents
      /\ m.ends => m.id \in ClientId
      /\ \A x : Releases(m, x) => x \in ClientId
  BY <1>1, EventFacts
<1>3. ASSUME NEW x \in Id, Releases(m, x) \/ (m.id = x /\ m.ends), client[x] \notin NoObject
      PROVE  Kind(x) \in Idle /\ client[x] # "buffer"
  BY <1>1, <1>2, <1>3, LostKind
<1> HIDE DEF m
<1>4. \A x : Kind(x)' = Kind(x)
  BY DEF Kind
<1>5. ASSUME NEW x \in Id
      PROVE  /\ client'[x] \in NoObject /\ Lasting(Range(Here), x) => Kind(x) \in Idle
             /\ client'[x] \notin NoObject /\ Unmade(Range(Here), x) => Kind(x) \in Fit(client'[x])
             /\ account[x].kind = "buffer" => client'[x] = "buffer"
  <2>1. CASE x = m.arg.new
    <3>1. x \in ServerId /\ x \notin ClientId /\ x # 0
      BY <1>2, <2>1, IdFacts
    <3>2. Kind(x) = "none" /\ account[x].kind # "buffer"
      BY <3>1 DEF Records, Buffers
    <3>3. client'[x] \notin {"surface", "xdg_surface"}
      BY <1>1, <1>2, <2>1, <3>1, NotByEvents DEF Freed
    <3> QED BY <3>2, <3>3 DEF Fit, Idle
  <2>2. CASE x # m.arg.new /\ (Releases(m, x) \/ (x = m.id /\ m.ends))
    <3>1. client'[x] \in NoObject
      BY <1>1, <2>2 DEF NoObject
    <3>2. client[x] \in NoObject /\ Lasting(Range(Here), x) => Kind(x) \in Idle
      BY DEF Records
    <3>3. account[x].kind = "buffer" => client[x] = "buffer" /\ client[x] \notin NoObject
      BY DEF Buffers, NoObject
    <3> QED BY <1>3, <2>2, <3>1, <3>2, <3>3
  <2>3. CASE x # m.arg.new /\ ~(Releases(m, x) \/ (x = m.id /\ m.ends))
    <3>1. client'[x] = client[x]
      BY <1>1, <2>3
    <3> QED BY <3>1 DEF Records, Buffers
  <2> QED BY <2>1, <2>2, <2>3
<1>6. Buffers'
  BY <1>1, <1>4, <1>5 DEF Buffers
<1>7. Records'
  BY <1>1, <1>4, <1>5 DEF Records
<1> QED BY <1>6, <1>7

LEMMA PassInRecords ==
    ASSUME Lives, Naming, Shapes, Records, Buffers, PassIn
    PROVE  (Records /\ Buffers)'
<1>1. ResolveIn /\ account' = account /\ IsSeq(Coming)
  BY DEF PassIn, Lives, Queues
<1>2. PICK m : Comes(m, "events") /\ Gather(m, "events")
  <2>1. Coming # <<>>
    BY <1>1, ResolveInDoes
  <2> QED BY <2>1 DEF PassIn, Comes, Arriving, Coming
<1>3. /\ Coming # <<>> /\ Here' = Here /\ Past' = Past /\ client' = client
      /\ Coming' = Tail(Coming)
  BY <1>1, ResolveInDoes
<1>4. Range(Coming') \subseteq Range(Coming)
  BY <1>1, <1>3, TailIs
<1>5. \A x \in Id : Kind(x)' = Kind(x)
  <2>1. ~(m.ends /\ m.intf \in Freed)
    BY <1>2, GatherKinds
  <2> QED BY <1>2, <2>1, GatherKinds
<1>6. Buffers'
  BY <1>1, <1>3, <1>5 DEF Buffers
<1>7. /\ \A n \in Range(Here) : n.id \in Id /\ (n.arg.new # 0 => n.arg.new \in Id)
      /\ \A n \in Range(Past) : n.id \in Id
      /\ \A n \in Range(Coming) : n.id \in Id
  BY RequestFacts, EventFacts, IdFacts DEF Lives, Queues
<1>8. Records'
  BY <1>1, <1>3, <1>4, <1>5, <1>7 DEF Records
<1> QED BY <1>6, <1>8

LEMMA PassOutRecords ==
    ASSUME Lives, Naming, Shapes, Records, Buffers, PassOut
    PROVE  (Records /\ Buffers)'
<1>1. ResolveOut /\ account' = account /\ IsSeq(Here) /\ IsSeq(Past)
  BY DEF PassOut, Lives, Queues
<1>2. PICK m : Comes(m, "requests") /\ Gather(m, "requests")
  <2>1. Here # <<>>
    BY <1>1, ResolveOutDoes
  <2> QED BY <2>1 DEF PassOut, Comes, Arriving, Here
<1>3. /\ Here # <<>> /\ m = Head(Here) /\ IsRequest(m) /\ m.id \in Id /\ m.intf \in Interface
      /\ Here' = Tail(Here) /\ Past' = Append(Past, m) /\ Coming' = Coming /\ client' = client
  BY <1>1, <1>2, Understands, ResolveOutDoes
<1>4. Range(Here) = {m} \cup Range(Here') /\ Range(Past') = Range(Past) \cup {m}
  BY <1>1, <1>3, TailIs, AppendIs
<1>5. /\ \A x \in Id : Kind(x)' = Kind(x) \/ x = m.arg.new \/ (x = m.id /\ Kind(x)' = "none")
      /\ m.ends /\ m.intf \in Freed => Kind(m.id)' = "none"
      /\ ~(m.ends /\ m.intf \in Freed) => \A x \in Id : Kind(x)' = Kind(x) \/ x = m.arg.new
      /\ m.arg.new # 0 =>
            /\ m.arg.made \in {"surface", "xdg_surface"} => Kind(m.arg.new)' = m.arg.made
            /\ m.arg.made = "buffer" =>
                  Kind(m.arg.new)' = IF m.intf = "pool" THEN "buffer" ELSE Kind(m.arg.new)
            /\ m.arg.made \notin Freed => Kind(m.arg.new)' \in {Kind(m.arg.new), "seat"}
  BY <1>2, GatherKinds
<1>6. m.arg.new # 0 =>
         /\ m.arg.new \in ClientId /\ m.arg.new \in Id /\ m.arg.new # m.id
         /\ m.arg.made \in Interface /\ Asked(m.arg.new, m.arg.made)
         /\ Unmade(Range(Here'), m.arg.new)
         /\ Kind(m.arg.new) \in Idle /\ Kind(m.arg.new)' \in Fit(m.arg.made)
  <2> SUFFICES ASSUME m.arg.new # 0
               PROVE  /\ m.arg.new \in ClientId /\ m.arg.new \in Id /\ m.arg.new # m.id
                      /\ m.arg.made \in Interface /\ Asked(m.arg.new, m.arg.made)
                      /\ Unmade(Range(Here'), m.arg.new)
                      /\ Kind(m.arg.new) \in Idle /\ Kind(m.arg.new)' \in Fit(m.arg.made)
    OBVIOUS
  <2>1. Kind(m.arg.new) \in Idle
    BY <1>4 DEF Records
  <2>2. Kind(m.arg.new)' \in Fit(m.arg.made)
    BY <1>5, <2>1 DEF Fit, Idle, Freed
  <2> QED BY <1>3, <2>1, <2>2, HeadAsks
<1>7. m.arg.new = 0 => m.arg.new \notin Id
  BY IdFacts
<1>8. \A x : /\ Unmade(Range(Here'), x) => Unmade(Range(Here), x) \/ x = m.arg.new
             /\ Lasting(Range(Here'), x) => Lasting(Range(Here), x) \/ (x = m.id /\ m.ends)
  BY <1>4 DEF Unmade, Lasting
<1>9. m.arg.new # 0 => /\ Silent(Range(Past), m.arg.new) /\ Silent(Range(Coming), m.arg.new)
                       /\ Saying(Range(Here), m.arg.new, m.arg.made)
                       /\ client[m.arg.new] = m.arg.made \/ client[m.arg.new] = "zombie"
                       /\ client[m.arg.new] \in NoObject => ~Lasting(Range(Here), m.arg.new)
  BY <1>6, AskedIs
<1>10. ASSUME NEW n \in Range(Here')
       PROVE  /\ n.arg.new # 0 =>
                    /\ Kind(n.arg.new)' \in Idle
                    /\ account[n.arg.new].kind = "buffer" =>
                          /\ n.arg.made = "buffer"
                          /\ account[n.arg.new].pooled <=> n.intf = "pool"
              /\ n.ends /\ Unmade(Range(Here'), n.id) => Kind(n.id)' \in Fit(n.intf)
  <2>1. n \in Range(Here) /\ IsRequest(n) /\ n.id \in Id
    BY <1>4, RequestFacts DEF Lives, Queues
  <2>2. ASSUME n.arg.new # 0 PROVE Kind(n.arg.new)' \in Idle
    <3>1. n.arg.new \in Id /\ n.arg.new # m.arg.new
      BY <1>6, <2>1, <2>2, Asks DEF Unmade
    <3> QED BY <1>5, <2>1, <2>2, <3>1 DEF Records, Idle
  <2>3. ASSUME n.ends, Unmade(Range(Here'), n.id) PROVE Kind(n.id)' \in Fit(n.intf)
    <3>1. CASE n.id = m.arg.new
      <4>1. n.intf = m.arg.made
        BY <1>7, <1>9, <2>1, <3>1 DEF Saying
      <4> QED BY <1>6, <1>7, <2>1, <3>1, <4>1
    <3>2. CASE n.id # m.arg.new
      <4>1. Kind(n.id) \in Fit(n.intf)
        BY <1>8, <2>1, <2>3, <3>2 DEF Records
      <4>2. ~(n.id = m.id /\ m.ends)
        <5> SUFFICES ASSUME n.id = m.id, m.ends PROVE FALSE
          OBVIOUS
        <5>1. EndsLast(Here, m.id)
          BY <1>4, LastOut
        <5>2. Silent(Range(Here'), m.id)
          BY <1>1, <1>3, <5>1, HeadEnds
        <5> QED BY <5>2 DEF Silent
      <4>3. Kind(n.id)' = Kind(n.id)
        <5>1. CASE n.id # m.id
          BY <1>5, <2>1, <3>2, <5>1
        <5>2. CASE ~m.ends
          BY <1>5, <2>1, <3>2, <5>2
        <5> QED BY <4>2, <5>1, <5>2
      <4> QED BY <4>1, <4>3
    <3> QED BY <3>1, <3>2
  <2> QED BY <2>1, <2>2, <2>3 DEF Records
<1>11. ASSUME NEW n \in Range(Past'), n.ends, n.intf \in {"surface", "xdg_surface"}
       PROVE  Kind(n.id)' = "none"
  <2>1. CASE n = m
    BY <1>5, <1>11, <2>1 DEF Freed
  <2>2. CASE n \in Range(Past)
    <3>1. n.id \in Id /\ Kind(n.id) = "none"
      BY <1>11, <2>2, RequestFacts DEF Lives, Queues, Records
    <3>2. n.id # m.arg.new
      BY <1>7, <1>9, <2>2, <3>1 DEF Silent
    <3> QED BY <1>5, <3>1, <3>2
  <2> QED BY <1>4, <2>1, <2>2
<1>12. ASSUME NEW n \in Range(Coming), n.intf \in {"surface", "xdg_surface"}
       PROVE  Kind(n.id)' \in {"none", n.intf}
  <2>1. n.id \in Id /\ Kind(n.id) \in {"none", n.intf}
    BY <1>12, EventFacts DEF Lives, Queues, Records
  <2>2. n.id # m.arg.new
    BY <1>7, <1>9, <2>1 DEF Silent
  <2> QED BY <1>5, <2>1, <2>2
<1>13. ASSUME NEW x \in Id, client[x] \in NoObject, Lasting(Range(Here'), x)
       PROVE  Kind(x)' \in Idle
  <2>1. CASE Lasting(Range(Here), x)
    <3>1. x # m.arg.new
      BY <1>7, <1>9, <1>13, <2>1
    <3>2. Kind(x) \in Idle
      BY <1>13, <2>1 DEF Records
    <3> QED BY <1>5, <3>1, <3>2 DEF Idle
  <2>2. CASE ~Lasting(Range(Here), x)
    <3>1. x = m.id /\ m.ends
      BY <1>8, <1>13, <2>2
    <3>2. x # m.arg.new
      BY <1>6, <1>7, <3>1
    <3>3. CASE m.intf \in Freed
      BY <1>5, <3>1, <3>3 DEF Idle
    <3>4. CASE m.intf \notin Freed
      <4>1. Fit(m.intf) = Idle
        BY <3>4 DEF Fit, Freed
      <4>2. ASSUME ~Unmade(Range(Here), x) PROVE FALSE
        <5>1. PICK n \in Range(Here) : n.arg.new = x
          BY <4>2 DEF Unmade
        <5>2. PICK i \in Interface : Asked(x, i)
          BY <5>1, Asks, IdFacts
        <5>3. MadeFirst(Here, x, i)
          BY <5>2 DEF Asked
        <5> QED BY <1>1, <1>3, <3>1, <5>3, HeadMakes
      <4>3. Kind(x) \in Idle
        BY <1>4, <3>1, <4>1, <4>2 DEF Records
      <4> QED BY <1>5, <3>2, <4>3 DEF Idle
    <3> QED BY <3>3, <3>4
  <2> QED BY <2>1, <2>2
<1>14. ASSUME NEW x \in Id, client[x] \notin NoObject PROVE ~(x = m.id /\ m.ends)
  BY <1>4, <1>14, EndedOut
<1>15. ASSUME NEW x \in Id, client[x] \notin NoObject, Unmade(Range(Here'), x)
       PROVE  Kind(x)' \in Fit(client[x])
  <2>1. CASE x = m.arg.new
    BY <1>6, <1>7, <1>9, <1>15, <2>1 DEF NoObject
  <2>2. CASE x # m.arg.new
    <3>1. Kind(x) \in Fit(client[x])
      BY <1>8, <1>15, <2>2 DEF Records
    <3>2. Kind(x)' = Kind(x)
      <4>1. CASE x # m.id
        BY <1>5, <2>2, <4>1
      <4>2. CASE ~m.ends
        BY <1>5, <2>2, <4>2
      <4> QED BY <1>14, <1>15, <4>1, <4>2
    <3> QED BY <3>1, <3>2
  <2> QED BY <2>1, <2>2
<1>16. ASSUME NEW x \in Id, x \notin ClientId PROVE Kind(x)' = "none"
  <2>1. Kind(x) = "none"
    BY <1>16 DEF Records
  <2> QED BY <1>5, <1>6, <1>7, <1>16, <2>1
<1>17. ASSUME NEW x \in Id, account[x].kind = "buffer"
       PROVE  /\ x \in ClientId /\ client[x] = "buffer"
              /\ account[x].pooled /\ Unmade(Range(Here'), x) => Kind(x)' = "buffer"
              /\ ~account[x].pooled => Kind(x)' \in Idle
  <2>1. /\ x \in ClientId /\ client[x] = "buffer"
        /\ account[x].pooled /\ Unmade(Range(Here), x) => Kind(x) = "buffer"
        /\ ~account[x].pooled => Kind(x) \in Idle
    BY <1>17 DEF Buffers
  <2>2. CASE x = m.arg.new
    <3>1. m.arg.new # 0 /\ m.arg.made = "buffer" /\ (account[x].pooled <=> m.intf = "pool")
      BY <1>4, <1>7, <1>17, <2>2 DEF Records
    <3>2. Kind(x)' = IF m.intf = "pool" THEN "buffer" ELSE Kind(x)
      BY <1>5, <2>2, <3>1
    <3> QED BY <2>1, <3>1, <3>2
  <2>3. CASE x # m.arg.new
    <3>1. client[x] \notin NoObject
      BY <2>1 DEF NoObject
    <3>2. Kind(x)' = Kind(x)
      <4>1. CASE x # m.id
        BY <1>5, <2>3, <4>1
      <4>2. CASE ~m.ends
        BY <1>5, <2>3, <4>2
      <4> QED BY <1>14, <3>1, <4>1, <4>2
    <3> QED BY <1>8, <2>1, <2>3, <3>2
  <2> QED BY <2>2, <2>3
<1>18. Buffers'
  BY <1>1, <1>3, <1>17 DEF Buffers
<1>19. Records'
  BY <1>1, <1>3, <1>10, <1>11, <1>12, <1>13, <1>15, <1>16 DEF Records
<1> QED BY <1>18, <1>19

-----------------------------------------------------------------------------
(* The invariant with the records. *)

Remembers == Lives /\ Naming /\ Shapes /\ Records /\ Buffers

LEMMA RemembersFirst ==
    ASSUME ObjInit
    PROVE  Remembers
<1>1. Lives /\ Here = <<>> /\ Past = <<>> /\ Coming = <<>>
  BY InitLives DEF ObjInit, Init, Here, Past, Coming
<1>2. Naming
  BY <1>1, NamingInit
<1>3. info = [id \in Id |-> NoRecord] /\ account = [id \in Id |-> NoRecord]
  BY DEF ObjInit
<1>4. NoRecord.kind = "none" /\ IsAccount(NoRecord) /\ IsRecord(NoRecord)
  BY DEF NoRecord, IsAccount, IsRecord
<1>5. Shapes
  BY <1>3, <1>4 DEF Shapes
<1>6. Range(Here) = {} /\ Range(Past) = {} /\ Range(Coming) = {}
  BY <1>1 DEF Range
<1>7. Buffers
  BY <1>3, <1>4 DEF Buffers
<1>8. ASSUME NEW x \in Id PROVE Kind(x) = "none" /\ client[x] \notin Freed
  <2>1. PICK bound \in Bound : client = FirstObjects(bound)
    BY DEF ObjInit, Init
  <2>2. Range(bound) \cap Freed = {}
    BY <2>1, ObjInfoAssumption DEF Handled
  <2>3. client[x] \in {"display", "none"} \cup Range(bound)
    BY <2>1, RangeIs DEF FirstObjects
  <2> QED BY <1>3, <1>4, <2>2, <2>3 DEF Kind, Freed
<1>9. Records
  BY <1>6, <1>8 DEF Records, Fit, Idle, Freed
<1> QED BY <1>1, <1>2, <1>5, <1>7, <1>9 DEF Remembers

LEMMA RemembersKept ==
    ASSUME Remembers, [ObjNext]_objVars, ~Destroy
    PROVE  Remembers'
<1>1. Lives /\ Naming /\ Shapes /\ Records /\ Buffers
  BY DEF Remembers
<1>2. ASSUME UNCHANGED <<vars, info, account>> PROVE (Shapes /\ Records /\ Buffers)'
  BY <1>1, <1>2 DEF Shapes, Records, Buffers, Kind, Here, Past, Coming, vars, ways
<1>3. ASSUME Ask PROVE (Shapes /\ Records /\ Buffers)'
  BY <1>1, <1>3, AskRecords DEF Ask, Shapes
<1>4. ASSUME Tell PROVE (Shapes /\ Records /\ Buffers)'
  BY <1>1, <1>4, TellRecords DEF Tell, Shapes
<1>5. ASSUME Take PROVE (Shapes /\ Records /\ Buffers)'
  BY <1>1, <1>5, ServerTakesRecords, ClientTakesRecords DEF Take, Shapes
<1>6. ASSUME PassOut PROVE (Shapes /\ Records /\ Buffers)'
  <2>1. PICK m : Comes(m, "requests") /\ Gather(m, "requests")
    BY <1>1, <1>6, ResolveOutDoes DEF PassOut, Comes, Arriving, Here
  <2> QED BY <1>1, <1>6, <2>1, GatherShapes, PassOutRecords
<1>7. ASSUME PassIn PROVE (Shapes /\ Records /\ Buffers)'
  <2>1. PICK m : Comes(m, "events") /\ Gather(m, "events")
    BY <1>1, <1>7, ResolveInDoes DEF PassIn, Comes, Arriving, Coming
  <2> QED BY <1>1, <1>7, <2>1, GatherShapes, PassInRecords
<1>8. (Shapes /\ Records /\ Buffers)'
  BY <1>2, <1>3, <1>4, <1>5, <1>6, <1>7 DEF ObjNext, Show, objVars
<1>9. Lives' /\ Naming'
  BY <1>1, NamingKept
<1> QED BY <1>8, <1>9 DEF Remembers

LEMMA RemembersStep ==
    ASSUME Remembers \/ Destroyed, [ObjNext]_objVars
    PROVE  (Remembers \/ Destroyed)'
BY RemembersKept, DestroyDoes, DestroyedStays DEF Remembers

\* The records are as the requests about their objects have made them.
LEMMA ObjRemembers == ObjSpec => [](Remembers \/ Destroyed)
<1>1. ObjInit => Remembers \/ Destroyed
  BY RemembersFirst
<1>2. (Remembers \/ Destroyed) /\ [ObjNext]_objVars => (Remembers \/ Destroyed)'
  BY RemembersStep
<1> QED BY <1>1, <1>2, PTL DEF ObjSpec

-----------------------------------------------------------------------------
(* What a handler finds. *)

\* Nothing before the first message that comes to wldbg is going to make what it
\* is about.
LEMMA HeadIsMade ==
    ASSUME Lives, Here # <<>>
    PROVE  Unmade(Range(Here), Head(Here).id)
<1> SUFFICES ASSUME NEW n \in Range(Here), n.arg.new = Head(Here).id PROVE FALSE
  BY DEF Unmade
<1>1. IsSeq(Here) /\ Head(Here) \in Range(Here) /\ IsRequest(Head(Here))
  BY TailIs DEF Lives, Queues
<1>2. n.arg.new # 0
  BY <1>1, RequestFacts, IdFacts
<1>3. PICK i \in Interface : Asked(n.arg.new, i)
  BY <1>2, Asks
<1> QED BY <1>1, <1>3, HeadMakes DEF Asked

LEMMA HeadFits ==
    ASSUME Remembers, Here # <<>>
    PROVE  Kind(Head(Here).id) \in Fit(Head(Here).intf)
<1> DEFINE m == Head(Here)
           x == m.id
<1>0. Lives /\ Records
  BY DEF Remembers
<1>1. IsSeq(Here) /\ IsSeq(Past) /\ m \in Range(Here) /\ Unmade(Range(Here), x)
  BY <1>0, TailIs, HeadIsMade DEF Lives, Queues
<1>2. x \in Id /\ m.intf \in Interface
  BY <1>0, <1>1, RequestFacts DEF Lives, Queues
<1> SUFFICES Kind(x) \in Fit(m.intf)
  OBVIOUS
<1> HIDE DEF m
<1>3. ASSUME ~Lasting(Range(Here), x) PROVE Kind(x) \in Fit(m.intf)
  <2>1. PICK e \in Range(Here) : e.id = x /\ e.ends
    BY <1>3 DEF Lasting
  <2>2. e.intf = m.intf
    BY <1>0, <1>1, <2>1, LastOut DEF Saying
  <2> QED BY <1>0, <1>1, <2>1, <2>2 DEF Records
<1>4. CASE x = 1
  <2>1. m.intf = "display" /\ Kind(x) = "none"
    BY <1>0, <1>1, <1>2, <1>4, IdFacts DEF Lives, Display, Saying, Records
  <2> QED BY <2>1 DEF Fit, Idle
<1>5. CASE x \in ServerId
  <2>1. ~Silent(Range(Here), x)
    BY <1>1 DEF Silent
  <2>2. PICK i \in Interface \cap MadeByEvents : Present(x, i)
    BY <1>0, <1>5, <2>1 DEF Lives, Servers, Vacant, Announced, Introduced, Unsaid
  <2>3. m.intf = i
    BY <1>1, <2>2 DEF Present, Speaks, Saying
  <2>4. Kind(x) = "none" /\ m.intf \notin {"surface", "xdg_surface"}
    BY <1>0, <1>2, <1>5, <2>2, <2>3, NotByEvents, IdFacts DEF Records, Freed
  <2> QED BY <2>4 DEF Fit, Idle
<1>6. CASE x \in ClientId /\ Lasting(Range(Here), x)
  <2>1. ~Silent(Range(Here), x)
    BY <1>1 DEF Silent
  <2>2. PICK i \in Interface : Speaks(x, i, "zombie")
    BY <1>0, <1>6, <2>1
      DEF Lives, Clients, Unused, Unasked, Asked, Seen, Known, Released, Gone, Ended
  <2>3. m.intf = i
    BY <1>1, <2>2 DEF Speaks, Saying
  <2>4. ~EndsLast(Here, x)
    <3> SUFFICES ASSUME EndsLast(Here, x) PROVE FALSE
      OBVIOUS
    <3>1. PICK p \in Parts(Here) : p.at.id = x /\ p.at.ends
      BY DEF EndsLast
    <3>2. p.at \in Range(Here)
      BY <1>1, PartsAre
    <3> QED BY <1>6, <3>1, <3>2 DEF Lasting
  <2>5. client[x] = i /\ i \notin NoObject
    BY <2>1, <2>2, <2>4, TableWords DEF Speaks
  <2> QED BY <1>0, <1>1, <1>2, <2>3, <2>5 DEF Records
<1> QED BY <1>2, <1>3, <1>4, <1>5, <1>6, IdFacts

LEMMA HeadFitsIn ==
    ASSUME Remembers, Coming # <<>>
    PROVE  LET m == Head(Coming)
           IN  IF m.intf \in {"surface", "xdg_surface"} THEN Kind(m.id) \in {"none", m.intf}
               ELSE Kind(m.id) \in Fit(m.intf)
<1> DEFINE m == Head(Coming)
           x == m.id
<1>0. Lives /\ Records
  BY DEF Remembers
<1>1. IsSeq(Coming) /\ IsSeq(Here) /\ IsSeq(Past) /\ m \in Range(Coming)
  BY <1>0, TailIs DEF Lives, Queues
<1>2. x \in Id /\ m.intf \in Interface
  BY <1>0, <1>1, EventFacts DEF Lives, Queues
<1>3. m.intf \in {"surface", "xdg_surface"} => Kind(x) \in {"none", m.intf}
  BY <1>0, <1>1 DEF Records
<1> HIDE DEF m
<1>4. ASSUME m.intf \notin {"surface", "xdg_surface"} PROVE Kind(x) \in Fit(m.intf)
  <2>1. Idle \subseteq Fit(m.intf)
    BY <1>4 DEF Fit
  <2>2. CASE x \notin ClientId
    <3>1. Kind(x) = "none"
      BY <1>0, <1>2, <2>2 DEF Records
    <3> QED BY <2>1, <3>1 DEF Idle
  <2>3. CASE client[x] \in NoObject /\ Lasting(Range(Here), x)
    BY <1>0, <1>2, <2>1, <2>3 DEF Records
  <2>4. ASSUME x \in ClientId
        PROVE  \E i \in Interface :
                  /\ Saying(Range(Coming), x, i) /\ Unmade(Range(Here), x)
                  /\ \/ Speaks(x, i, "zombie")
                     \/ Ended(x, i)
    <3>1. ~Silent(Range(Coming), x)
      BY <1>1 DEF Silent
    <3>2. PICK i \in Interface : Known(x, i) \/ Released(x, i)
      BY <1>0, <2>4, <3>1 DEF Lives, Clients, Unused, Asked, Seen, Untold, Gone
    <3> QED BY <3>2 DEF Known, Released, Ended, Unasked
  <2>5. CASE x \in ClientId /\ ~(client[x] \in NoObject /\ Lasting(Range(Here), x))
    <3>1. PICK i \in Interface : /\ Saying(Range(Coming), x, i) /\ Unmade(Range(Here), x)
                                 /\ Speaks(x, i, "zombie") \/ Ended(x, i)
      BY <2>4, <2>5
    <3>2. m.intf = i
      BY <1>1, <3>1 DEF Saying
    <3>3. CASE client[x] = i
      BY <1>0, <1>2, <3>1, <3>2, <3>3, TableWords DEF Records
    <3>4. CASE client[x] # i
      <4>1. client[x] = "zombie" /\ ~Lasting(Range(Here), x)
        BY <2>5, <3>1, <3>4 DEF Speaks, Ended, NoObject
      <4>2. PICK e \in Range(Here) : e.id = x /\ e.ends
        BY <4>1 DEF Lasting
      <4>3. Speaks(x, i, "zombie")
        BY <3>1, <4>2 DEF Ended, Unasked, Silent
      <4>4. e.intf = i
        BY <4>2, <4>3 DEF Speaks, Saying
      <4> QED BY <1>0, <3>1, <3>2, <4>2, <4>4 DEF Records
    <3> QED BY <3>3, <3>4
  <2> QED BY <2>2, <2>3, <2>5
<1>5. IF m.intf \in {"surface", "xdg_surface"} THEN Kind(x) \in {"none", m.intf}
      ELSE Kind(x) \in Fit(m.intf)
  BY <1>3, <1>4
<1> QED BY <1>5 DEF m

\* What a message names is not going to be made behind it.
LEMMA NamedIsMade ==
    ASSUME Lives, Naming, NEW which \in {"requests", "events"}, NEW m, Comes(m, which),
           m.arg.obj \in ClientId
    PROVE  Unmade(Range(Here), m.arg.obj)
<1> DEFINE x == m.arg.obj
<1> SUFFICES ASSUME NEW n \in Range(Here), n.arg.new = x PROVE FALSE
  BY DEF Unmade
<1>1. x # 0 /\ IsSeq(Here)
  BY IdFacts DEF Lives, Queues
<1>2. CASE which = "requests"
  <2>1. /\ Here # <<>> /\ m = Head(Here) /\ m \in Range(Here)
    BY <1>2, Understands DEF Arriving, Here
  <2>2. n = m \/ n \in Range(Tail(Here))
    BY <1>1, <2>1, TailIs
  <2>3. \A r \in Range(Tail(Here)) : InOrder(Here, m, r)
    BY <1>1, <2>1, OrderTail
  <2> QED BY <1>1, <2>1, <2>2, <2>3 DEF Naming, OutOwn, OutPair
<1>3. CASE which = "events"
  <2>1. Coming # <<>> /\ m = Head(Coming)
    BY <1>3, Understands
  <2>2. m = Coming[1] /\ 1 \in 1 .. Len(Coming)
    BY <2>1, TailIs DEF Lives, Queues
  <2>3. NamesIn(1)
    BY <2>2 DEF Naming
  <2>4. server[x] = "none" => ~Held(Range(Coming), x)
    BY <1>1, <2>2, <2>3 DEF NamesIn
  <2>5. PICK i \in Interface : Asked(x, i)
    BY <1>1, Asks
  <2> QED BY <2>4, <2>5 DEF Asked, Untold
<1> QED BY <1>2, <1>3

LEMMA RecordsFit ==
    ASSUME Remembers
    PROVE  Recorded
<1> SUFFICES ASSUME NEW which \in {"requests", "events"}, Arriving(which) # <<>>,
                    NEW m, m = Head(Arriving(which))
             PROVE  LET kind(id) == InfoGet(id).kind
                        known(id) == IF account[id].pooled THEN kind(id) = "buffer"
                                     ELSE kind(id) \in {"none", "seat"}
                    IN  /\ CASE m.intf \in {"surface", "xdg_surface"} ->
                                  \/ kind(m.id) = m.intf
                                  \/ which = "events" /\ kind(m.id) = "none"
                             [] m.intf = "buffer" -> kind(m.id) \in {"buffer", "none", "seat"}
                             [] OTHER -> kind(m.id) \in {"none", "seat"}
                        /\ m.arg.obj \in Id /\ account[m.arg.obj].kind = "buffer" =>
                              known(m.arg.obj)
  BY DEF Recorded
<1>1. Lives /\ Naming /\ Buffers
  BY DEF Remembers
<1>2. Comes(m, which)
  BY DEF Comes
<1>3. m.id \in Id
  BY <1>1, <1>2, Understands
<1>4. \/ Kind(m.id) \in Fit(m.intf)
      \/ which = "events" /\ m.intf \in {"surface", "xdg_surface"} /\ Kind(m.id) = "none"
  <2>1. CASE which = "requests"
    <3>1. Here # <<>> /\ m = Head(Here)
      BY <1>1, <1>2, <2>1, Understands
    <3> QED BY <3>1, HeadFits
  <2>2. CASE which = "events"
    <3>1. Coming # <<>> /\ m = Head(Coming)
      BY <1>1, <1>2, <2>2, Understands
    <3>2. IF m.intf \in {"surface", "xdg_surface"} THEN Kind(m.id) \in {"none", m.intf}
          ELSE Kind(m.id) \in Fit(m.intf)
      BY <3>1, HeadFitsIn
    <3> QED BY <2>2, <3>2 DEF Fit
  <2> QED BY <2>1, <2>2
<1>5. (CASE m.intf \in {"surface", "xdg_surface"} -> \/ Kind(m.id) = m.intf
                                                     \/ which = "events" /\ Kind(m.id) = "none"
         [] m.intf = "buffer" -> Kind(m.id) \in {"buffer", "none", "seat"}
         [] OTHER -> Kind(m.id) \in {"none", "seat"})
  BY <1>4 DEF Fit, Idle
<1>6. ASSUME m.arg.obj \in Id, account[m.arg.obj].kind = "buffer"
      PROVE  IF account[m.arg.obj].pooled THEN Kind(m.arg.obj) = "buffer"
             ELSE Kind(m.arg.obj) \in {"none", "seat"}
  <2>1. m.arg.obj \in ClientId
    BY <1>1, <1>6 DEF Buffers
  <2>2. Unmade(Range(Here), m.arg.obj)
    BY <1>1, <1>2, <2>1, NamedIsMade
  <2> QED BY <1>1, <1>6, <2>2 DEF Buffers, Idle
<1>7. \A x \in Id : InfoGet(x).kind = Kind(x)
  BY DEF InfoGet, Kind
<1> QED BY <1>3, <1>5, <1>6, <1>7

\* Every handler that is called finds a record of its own kind, or none where none
\* has been made: whatever id is used again, and whatever request or event is
\* late, a surface's and an xdg_surface's handlers find what was made for them, a
\* buffer that is attached has its record if a pool made it and no other if not,
\* and what is over leaves nothing behind that another object's handler would
\* take for its own (gather_info, objects_info_get, wldbg_object_info_free).
THEOREM RecordsFound == ObjSpec => []Recorded
<1>1. Remembers => Recorded
  BY RecordsFit
<1>2. Destroyed => Recorded
  BY DEF Destroyed, Recorded
<1> QED BY <1>1, <1>2, ObjRemembers, PTL

-----------------------------------------------------------------------------
(* Types. *)

\* No queue is longer than it may be.
Bounded ==
    /\ \A p \in DOMAIN requests : Len(requests[p]) <= MaxRequests
    /\ \A p \in DOMAIN events : Len(events[p]) <= MaxEvents

LEMMA BoundedStep ==
    ASSUME Lives, Bounded, [Next]_vars
    PROVE  Bounded'
<1>1. /\ DOMAIN requests = {"wldbg", "server"} /\ DOMAIN events = {"wldbg", "client"}
      /\ IsSeq(Here) /\ IsSeq(Past) /\ IsSeq(Coming) /\ IsSeq(Going)
      /\ requests["wldbg"] = Here /\ requests["server"] = Past
      /\ events["wldbg"] = Coming /\ events["client"] = Going
  BY DEF Lives, Queues, Here, Past, Coming, Going
<1>2. /\ Len(Here) \in Nat /\ Len(Past) \in Nat /\ Len(Coming) \in Nat /\ Len(Going) \in Nat
      /\ MaxRequests \in Nat /\ MaxEvents \in Nat
      /\ Len(Here) <= MaxRequests /\ Len(Past) <= MaxRequests
      /\ Len(Coming) <= MaxEvents /\ Len(Going) <= MaxEvents
  BY <1>1, SeqIs, IdFacts DEF Bounded
<1>3. CASE UNCHANGED vars
  BY <1>3 DEF Bounded, vars, ways
<1>4. CASE ClientRequests
  <2>1. PICK m : requests' = [requests EXCEPT !["wldbg"] = Append(@, m)] /\ events' = events
    BY <1>4, ClientRequestsIs DEF Lives
  <2>2. Len(Here) < MaxRequests
    BY <1>4 DEF ClientRequests, Here
  <2>3. Len(Append(Here, m)) <= MaxRequests
    BY <1>1, <1>2, <2>2, AppendIs
  <2> QED BY <1>1, <2>1, <2>3 DEF Bounded
<1>5. CASE ServerTakes
  <2> DEFINE m == Head(Past)
             d == DeleteId(m.id)
  <2>1. /\ Past # <<>> /\ requests' = [requests EXCEPT !["server"] = Tail(Past)]
        /\ \/ events' = events
           \/ Len(Coming) < MaxEvents /\ events' = [events EXCEPT !["wldbg"] = Append(Coming, d)]
    BY <1>1, <1>5 DEF ServerTakes
  <2> HIDE DEF d
  <2>2. Len(Tail(Past)) <= MaxRequests
    BY <1>1, <1>2, <2>1, TailIs
  <2>3. Len(Coming) < MaxEvents => Len(Append(Coming, d)) <= MaxEvents
    BY <1>1, <1>2, AppendIs
  <2> QED BY <1>1, <2>1, <2>2, <2>3 DEF Bounded
<1>6. CASE ServerSends
  <2>1. requests' = requests /\ \E out : /\ Len(Coming \o out) <= MaxEvents
                                         /\ events' = [events EXCEPT !["wldbg"] = Coming \o out]
    BY <1>1, <1>6 DEF ServerSends
  <2> QED BY <1>1, <2>1 DEF Bounded
<1>7. CASE ClientTakes
  <2>1. Going # <<>> /\ requests' = requests /\ events' = [events EXCEPT !["client"] = Tail(Going)]
    BY <1>1, <1>7 DEF ClientTakes
  <2>2. Len(Tail(Going)) <= MaxEvents
    BY <1>1, <1>2, <2>1, TailIs
  <2> QED BY <1>1, <2>1, <2>2 DEF Bounded
<1>8. CASE ResolveOut
  <2> DEFINE m == Head(Here)
  <2>1. /\ Here # <<>> /\ Len(Past) < MaxRequests /\ events' = events
        /\ requests' = [wldbg |-> Tail(Here), server |-> Append(Past, m)]
    BY <1>1, <1>8 DEF ResolveOut
  <2> HIDE DEF m
  <2>2. Len(Tail(Here)) <= MaxRequests /\ Len(Append(Past, m)) <= MaxRequests
    BY <1>1, <1>2, <2>1, TailIs, AppendIs
  <2> QED BY <1>1, <2>1, <2>2 DEF Bounded
<1>9. CASE ResolveIn
  <2> DEFINE m == Head(Coming)
  <2>1. /\ Coming # <<>> /\ Len(Going) < MaxEvents /\ requests' = requests
        /\ events' = [wldbg |-> Tail(Coming), client |-> Append(Going, m)]
    BY <1>1, <1>9 DEF ResolveIn
  <2> HIDE DEF m
  <2>2. Len(Tail(Coming)) <= MaxEvents /\ Len(Append(Going, m)) <= MaxEvents
    BY <1>1, <1>2, <2>1, TailIs, AppendIs
  <2> QED BY <1>1, <2>1, <2>2 DEF Bounded
<1> QED BY <1>3, <1>4, <1>5, <1>6, <1>7, <1>8, <1>9 DEF Next

\* The types of the resolve pass's state.
LEMMA LivesTyped ==
    ASSUME Lives, Bounded
    PROVE  TypeOK
<1>1. /\ client_objects \in Seq(Entry) /\ Len(client_objects) <= MaxClient + 1
      /\ server_objects \in Seq(Entry) /\ Len(server_objects) <= MaxServer - ServerStart + 1
  BY DEF Lives, Tables
<1>2. Range(client_objects) \subseteq Entry /\ Range(server_objects) \subseteq Entry
  BY <1>1, RangeIs, ElementOfSeq, LenProperties
<1> QED BY <1>1, <1>2 DEF TypeOK, Lives, Views, Bounded

\* Every record is of a kind.
RecordTyped(r) ==
    CASE r.kind = "surface" ->
            /\ r.pending.buffer \in Id \cup {0}
            /\ Cardinality(r.committed) <= 1
      [] r.kind = "xdg_surface" ->
            r.surface \in Id /\ r.next \in 0 .. Configures - 1
      [] OTHER -> \/ r = NoRecord
                  \/ r \in [kind : {"buffer"}, released : BOOLEAN]
                  \/ r \in [kind : {"seat"}, named : BOOLEAN]

LEMMA RecordsTyped ==
    ASSUME NEW r, IsRecord(r)
    PROVE  RecordTyped(r)
<1>1. CASE r.kind = "surface"
  <2>1. IsSurface(r)
    BY <1>1, RecordKinds
  <2>2. Cardinality(r.committed) <= 1
    <3>1. r.committed = {} \/ \E s : r.committed = {s}
      BY <2>1 DEF IsSurface
    <3>2. Cardinality({}) = 0 /\ \A s : Cardinality({s}) = 1
      BY FS_EmptySet, FS_Singleton
    <3>3. CASE r.committed = {}
      BY <3>2, <3>3
    <3>4. CASE \E s : r.committed = {s}
      BY <3>2, <3>4
    <3> QED BY <3>1, <3>3, <3>4
  <2> QED BY <1>1, <2>1, <2>2 DEF RecordTyped, IsSurface, IsState
<1>2. CASE r.kind = "xdg_surface"
  BY <1>2, RecordKinds DEF RecordTyped, IsXdgSurface
<1>3. CASE r.kind = "none"
  BY <1>3, RecordKinds DEF RecordTyped
<1>4. CASE r.kind = "buffer"
  <2>1. IsBuffer(r)
    BY <1>4, RecordKinds
  <2>2. r \in [kind : {"buffer"}, released : BOOLEAN]
    BY <2>1 DEF IsBuffer
  <2> QED BY <1>4, <2>2 DEF RecordTyped
<1>5. CASE r.kind = "seat"
  <2>1. IsSeat(r)
    BY <1>5, RecordKinds
  <2>2. r \in [kind : {"seat"}, named : BOOLEAN]
    BY <2>1 DEF IsSeat
  <2> QED BY <1>5, <2>2 DEF RecordTyped
<1> QED BY <1>1, <1>2, <1>3, <1>4, <1>5, RecordKinds

LEMMA ObjTyped ==
    ASSUME Remembers, Bounded, fault \in Fault
    PROVE  ObjTypeOK
<1>1. TypeOK
  BY LivesTyped DEF Remembers
<1>2. \A id \in Id : RecordTyped(info[id])
  BY RecordsTyped DEF Remembers, Shapes
<1>3. DOMAIN info = Id /\ DOMAIN account = Id
  BY DEF Remembers, Shapes, Buffers
<1> QED BY <1>1, <1>2, <1>3 DEF ObjTypeOK, RecordTyped

\* What is left of a connection is of its types too.
LEMMA DestroyedTyped ==
    ASSUME Remembers, Destroy
    PROVE  ObjTypeOK'
<1>1. /\ info' = [id \in Id |-> NoRecord] /\ account' = info'
      /\ client' = [id \in Id |-> "none"] /\ server' = client'
      /\ requests' = [p \in DOMAIN requests |-> <<>>]
      /\ events' = [p \in DOMAIN events |-> <<>>]
      /\ client_objects' = <<>> /\ server_objects' = <<>>
      /\ fault' \in Fault
  BY DEF Destroy, Fault, Map!EmptyMap
<1>2. TypeOK'
  <2>1. Len(<<>>) = 0 /\ Range(<<>>) = {} /\ "none" \in NoObject
    BY DEF Range, NoObject
  <2>2. MaxServer - ServerStart + 1 >= 0 /\ MaxClient + 1 >= 0
    BY ResolverAssumption
  <2> QED BY <1>1, <2>1, <2>2, IdFacts DEF TypeOK
<1>3. NoRecord.kind = "none"
  BY DEF NoRecord
<1> QED BY <1>1, <1>2, <1>3 DEF ObjTypeOK

\* A message or the listing comes to an end that is known.
LEMMA FaultKept ==
    ASSUME Lives, fault \in Fault, [ObjNext]_objVars
    PROVE  fault' \in Fault
<1>1. ASSUME NEW which, NEW m, Gather(m, which) PROVE fault' \in {fault, "kind", "name"}
  <2>1. ASSUME NEW i, NEW name, NEW sig,
               Create(m, i, name, sig) \/ Change(m, i, name, sig) \/ Free(m, i, name)
               \/ Ignored(m, i, name)
        PROVE  fault' \in {fault, "kind", "name"}
    BY <2>1 DEF Create, Change, Free, Ignored
  <2> QED BY <1>1, <2>1 DEF Gather
<1>2. ASSUME NEW id PROVE ShowFault(id) \in {"none", "kind", "name", "assert"}
  BY DEF ShowFault, SurfaceFault
<1>3. {"none", "kind", "name", "assert", "gone"} = Fault
  BY DEF Fault
<1>4. CASE PassOut \/ PassIn
  BY <1>1, <1>3, <1>4 DEF PassOut, PassIn
<1>5. CASE Show
  BY <1>2, <1>3, <1>5 DEF Show
<1>6. CASE Destroy
  BY <1>3, <1>6 DEF Destroy
<1>7. CASE Ask \/ Tell \/ Take \/ UNCHANGED objVars
  BY <1>7 DEF Ask, Tell, Take, objVars
<1> QED BY <1>4, <1>5, <1>6, <1>7 DEF ObjNext

\* Queues, tables, views, records and accounts are what they should be, whatever
\* the peers do, also behind the end of a connection: no record is of another kind
\* than one of the four that the handlers make, a surface has one committed state
\* at most, and the place of the next configure stays inside of the array
\* (xdg_surface_set_configure, wl_surface_commit).
THEOREM ObjTypes == ObjSpec => []ObjTypeOK
<1> DEFINE Inv == \/ Remembers /\ Bounded /\ fault \in Fault
                  \/ Destroyed /\ ObjTypeOK
<1>1. ObjInit => Inv
  <2> SUFFICES ASSUME ObjInit PROVE Inv
    OBVIOUS
  <2>1. fault \in Fault
    BY DEF ObjInit, Fault
  <2>2. /\ requests = [p \in {"wldbg", "server"} |-> <<>>]
        /\ events = [p \in {"wldbg", "client"} |-> <<>>]
    BY DEF ObjInit, Init
  <2>3. Bounded
    BY <2>2, IdFacts DEF Bounded
  <2> QED BY <2>1, <2>3, RemembersFirst
<1>2. Inv /\ [ObjNext]_objVars => Inv'
  <2> SUFFICES ASSUME Inv, [ObjNext]_objVars PROVE Inv'
    OBVIOUS
  <2>1. CASE Destroyed /\ ObjTypeOK
    <3>1. Destroyed' /\ UNCHANGED objVars
      BY <2>1, DestroyedStays
    <3>2. ObjTypeOK'
      BY <2>1, <3>1 DEF ObjTypeOK, TypeOK, objVars, vars, ways
    <3> QED BY <3>1, <3>2
  <2>2. CASE Remembers /\ Bounded /\ fault \in Fault /\ Destroy
    <3>1. Destroyed' /\ ObjTypeOK'
      BY <2>2, DestroyDoes, DestroyedTyped DEF Remembers
    <3> QED BY <3>1
  <2>3. CASE Remembers /\ Bounded /\ fault \in Fault /\ ~Destroy
    <3>1. [Next]_vars
      BY <2>3 DEF ObjNext, Ask, Tell, Take, PassOut, PassIn, Show, Next, objVars
    <3>2. Bounded' /\ fault' \in Fault
      BY <2>3, <3>1, BoundedStep, FaultKept DEF Remembers
    <3>3. Remembers'
      BY <2>3, RemembersKept
    <3> QED BY <3>2, <3>3
  <2> QED BY <2>1, <2>2, <2>3
<1>3. Inv => ObjTypeOK
  BY ObjTyped
<1> QED BY <1>1, <1>2, <1>3, PTL DEF ObjSpec


-----------------------------------------------------------------------------
(* What the peers would say of surfaces and xdg_surfaces. *)

\* The account of a surface.
SurfaceAccount(attached, commits, last, buffer) ==
    [kind |-> "surface", attached |-> attached, commits |-> commits, last |-> last,
     buffer |-> buffer]

IsSurfaceAccount(a) ==
    /\ a = SurfaceAccount(a.attached, a.commits, a.last, a.buffer)
    /\ a.attached = {} \/ \E b : a.attached = {b}
    /\ a.commits \in BOOLEAN /\ a.last \in BOOLEAN

\* The account of an xdg_surface: its configures are numbered.
XdgAccount(surface, sent, acked) ==
    [kind |-> "xdg_surface", surface |-> surface, sent |-> sent, acked |-> acked]

IsXdgAccount(a) ==
    /\ a = XdgAccount(a.surface, a.sent, a.acked)
    /\ a.sent \in Seq(Nat) /\ \A k \in 1 .. Len(a.sent) : a.sent[k] = k
    /\ a.acked \subseteq 1 .. Len(a.sent)

\* The buffers that the account of a surface names, but those that are lost.
Names(a) == (a.attached \cup {a.buffer}) \ {0, Lost}

\* There is an account of every surface, buffer and xdg_surface the client has.
Accounts ==
    \A x \in Id :
       /\ account[x].kind = "none" => account[x] = NoRecord
       /\ account[x].kind # "none" =>
             x \in ClientId /\ account[x].kind = client[x] /\ client[x] \in Freed
       /\ x \in ClientId /\ client[x] \in Freed => account[x].kind = client[x]
       /\ account[x].kind = "surface" =>
             /\ IsSurfaceAccount(account[x])
             /\ \A b \in Names(account[x]) : b \in ClientId /\ client[b] = "buffer"
       /\ account[x].kind = "xdg_surface" =>
             /\ IsXdgAccount(account[x])
             /\ account[x].surface # Lost =>
                   account[x].surface \in ClientId /\ client[account[x].surface] = "surface"

LEMMA LostIs == Lost \notin Id /\ Lost # 0 /\ 0 \notin Id
BY ResolverAssumption DEF Lost, Id, ClientId, ServerId

\* An account of that form is a surface's.
LEMMA AccountIsSurface ==
    ASSUME NEW a, NEW attached, attached = {} \/ \E b : attached = {b},
           NEW commits \in BOOLEAN, NEW last \in BOOLEAN, NEW buffer,
           a = SurfaceAccount(attached, commits, last, buffer)
    PROVE  /\ IsSurfaceAccount(a) /\ a.kind = "surface"
           /\ a.attached = attached /\ a.commits = commits /\ a.last = last
           /\ a.buffer = buffer
<1>1. /\ a.kind = "surface" /\ a.attached = attached /\ a.commits = commits
      /\ a.last = last /\ a.buffer = buffer
  BY DEF SurfaceAccount
<1> QED BY <1>1 DEF IsSurfaceAccount

\* An account of a surface, field by field.
LEMMA SurfaceFields ==
    ASSUME NEW a, IsSurfaceAccount(a)
    PROVE  /\ a.kind = "surface"
           /\ a = [kind |-> "surface", attached |-> a.attached, commits |-> a.commits,
                   last |-> a.last, buffer |-> a.buffer]
<1>1. a = SurfaceAccount(a.attached, a.commits, a.last, a.buffer)
  BY DEF IsSurfaceAccount
<1>2. a = [kind |-> "surface", attached |-> a.attached, commits |-> a.commits,
           last |-> a.last, buffer |-> a.buffer]
  BY <1>1 DEF SurfaceAccount
<1>3. PICK t, c, l, b : a = [kind |-> "surface", attached |-> t, commits |-> c, last |-> l,
                             buffer |-> b]
  BY <1>2
<1>4. a.kind = "surface"
  BY <1>3
<1> QED BY <1>2, <1>4

\* What an attach, a commit and any other message say of a surface, ...
LEMMA SurfaceAttaches ==
    ASSUME NEW a, IsSurfaceAccount(a), NEW m, NEW name, name = "attach"
    PROVE  Said(a, m, name) = SurfaceAccount({m.arg.obj}, a.commits, a.last, a.buffer)
<1> DEFINE u == {m.arg.obj}
<1>1. /\ a.kind = "surface"
      /\ a = [kind |-> "surface", attached |-> a.attached, commits |-> a.commits,
              last |-> a.last, buffer |-> a.buffer]
  BY SurfaceFields
<1>2. Said(a, m, name) = [a EXCEPT !.attached = u]
  BY <1>1 DEF Said
<1> HIDE DEF u
<1>3. [a EXCEPT !.attached = u] =
         [kind |-> "surface", attached |-> u, commits |-> a.commits, last |-> a.last,
          buffer |-> a.buffer]
  BY <1>1
<1>4. Said(a, m, name) = SurfaceAccount(u, a.commits, a.last, a.buffer)
  BY <1>2, <1>3 DEF SurfaceAccount
<1> QED BY <1>4 DEF u

LEMMA SurfaceCommits ==
    ASSUME NEW a, IsSurfaceAccount(a), NEW m, NEW name, name = "commit"
    PROVE  Said(a, m, name) =
             SurfaceAccount({}, TRUE, a.attached # {},
                            IF a.attached = {} THEN a.buffer
                            ELSE CHOOSE b \in a.attached : TRUE)
<1> DEFINE v == IF a.attached = {} THEN a.buffer ELSE CHOOSE b \in a.attached : TRUE
<1>1. /\ a.kind = "surface"
      /\ a = [kind |-> "surface", attached |-> a.attached, commits |-> a.commits,
              last |-> a.last, buffer |-> a.buffer]
  BY SurfaceFields
<1>2. PICK w : w = (a.attached # {})
  OBVIOUS
<1>3. PICK d : d = Said(a, m, name) /\
        d = [a EXCEPT !.attached = {}, !.commits = TRUE, !.last = w, !.buffer = v]
  BY <1>1, <1>2 DEF Said
<1> HIDE DEF v
<1>4. d = [kind |-> "surface", attached |-> {}, commits |-> TRUE, last |-> w, buffer |-> v]
  BY <1>1, <1>3
<1>5. Said(a, m, name) = SurfaceAccount({}, TRUE, w, v)
  BY <1>3, <1>4 DEF SurfaceAccount
<1> QED BY <1>2, <1>5 DEF v

LEMMA SurfaceKeeps ==
    ASSUME NEW a, IsSurfaceAccount(a), NEW m, NEW name, name # "attach", name # "commit"
    PROVE  Said(a, m, name) = a
<1>1. a.kind = "surface"
  BY SurfaceFields
<1> QED BY <1>1 DEF Said

\* ... and what is left of it without an object.
LEMMA SurfaceWithout ==
    ASSUME NEW a, IsSurfaceAccount(a), NEW id
    PROVE  Without(a, id) = SurfaceAccount({IF b = id THEN Lost ELSE b : b \in a.attached},
                                           a.commits, a.last,
                                           IF a.buffer = id THEN Lost ELSE a.buffer)
<1> DEFINE u == {IF b = id THEN Lost ELSE b : b \in a.attached}
           v == IF a.buffer = id THEN Lost ELSE a.buffer
<1>1. /\ a.kind = "surface"
      /\ a = [kind |-> "surface", attached |-> a.attached, commits |-> a.commits,
              last |-> a.last, buffer |-> a.buffer]
  BY SurfaceFields
<1>2. PICK d : d = Without(a, id) /\ d = [a EXCEPT !.attached = u, !.buffer = v]
  BY <1>1 DEF Without
<1> HIDE DEF u, v
<1>3. d = [kind |-> "surface", attached |-> u, commits |-> a.commits, last |-> a.last,
           buffer |-> v]
  BY <1>1, <1>2
<1>4. Without(a, id) = SurfaceAccount(u, a.commits, a.last, v)
  BY <1>2, <1>3 DEF SurfaceAccount
<1> QED BY <1>4 DEF u, v

\* What is left of it is the account of a surface, which no more names what is destroyed.
LEMMA SurfaceLeft ==
    ASSUME NEW a, IsSurfaceAccount(a), NEW id \in Id
    PROVE  /\ IsSurfaceAccount(Without(a, id))
           /\ Names(Without(a, id)) \subseteq Names(a) \ {id}
           /\ id \notin Names(a) => Without(a, id) = a
<1> DEFINE t == {IF b = id THEN Lost ELSE b : b \in a.attached}
           c == IF a.buffer = id THEN Lost ELSE a.buffer
<1>1. /\ a = SurfaceAccount(a.attached, a.commits, a.last, a.buffer)
      /\ a.attached = {} \/ \E b : a.attached = {b}
      /\ a.commits \in BOOLEAN /\ a.last \in BOOLEAN
  BY DEF IsSurfaceAccount
<1>2. t = {} \/ \E b : t = {b}
  BY <1>1
<1>3. Without(a, id) = SurfaceAccount(t, a.commits, a.last, c)
  BY SurfaceWithout
<1>4. (t \cup {c}) \ {0, Lost} \subseteq Names(a) \ {id}
  BY LostIs DEF Names
<1>5. id \notin Names(a) => t = a.attached /\ c = a.buffer
  BY LostIs DEF Names
<1> HIDE DEF t, c
<1>6. PICK d : d = Without(a, id)
  OBVIOUS
<1>7. PICK b0, t0 : b0 = c /\ t0 = t
  OBVIOUS
<1>8. d = SurfaceAccount(t0, a.commits, a.last, b0) /\ (t0 = {} \/ \E b : t0 = {b})
  BY <1>2, <1>3, <1>6, <1>7
<1>9. IsSurfaceAccount(d) /\ d.attached = t0 /\ d.buffer = b0
  <2>1. PICK p \in BOOLEAN, q \in BOOLEAN : p = a.commits /\ q = a.last
    BY <1>1
  <2>2. d = SurfaceAccount(t0, p, q, b0) /\ (t0 = {} \/ \E b : t0 = {b})
    BY <1>8, <2>1
  <2>3. d = [kind |-> "surface", attached |-> t0, commits |-> p, last |-> q, buffer |-> b0]
    BY <2>2 DEF SurfaceAccount
  <2>4. /\ d.kind = "surface" /\ d.attached = t0 /\ d.commits = p /\ d.last = q
        /\ d.buffer = b0
    BY <2>3
  <2> QED BY <2>2, <2>3, <2>4 DEF IsSurfaceAccount, SurfaceAccount
<1>10. Names(d) \subseteq Names(a) \ {id}
  BY <1>4, <1>7, <1>9 DEF Names
<1>11. id \notin Names(a) => d = a
  BY <1>1, <1>5, <1>7, <1>8
<1> QED BY <1>6, <1>9, <1>10, <1>11

\* What is said of a surface leaves it an account of a surface, which names nothing new
\* but what is attached.
LEMMA SurfaceSaidIs ==
    ASSUME NEW a, IsSurfaceAccount(a), NEW m, NEW name
    PROVE  /\ IsSurfaceAccount(Said(a, m, name))
           /\ name # "attach" => Names(Said(a, m, name)) \subseteq Names(a)
           /\ Names(Said(a, m, name)) \subseteq Names(a) \cup {m.arg.obj}
           /\ 0 \notin Names(Said(a, m, name))
<1>1. /\ a.attached = {} \/ \E b : a.attached = {b}
      /\ a.commits \in BOOLEAN /\ a.last \in BOOLEAN
  BY DEF IsSurfaceAccount
<1>2. PICK d : d = Said(a, m, name)
  OBVIOUS
<1>3. 0 \notin Names(d)
  BY DEF Names
<1>4. CASE name = "attach"
  <2>1. PICK t : t = {m.arg.obj}
    OBVIOUS
  <2>2. Said(a, m, name) = SurfaceAccount(t, a.commits, a.last, a.buffer)
    BY <1>4, <2>1, SurfaceAttaches
  <2>3. d = SurfaceAccount(t, a.commits, a.last, a.buffer)
    BY <1>2, <2>2
  <2>4. IsSurfaceAccount(d) /\ d.attached = t /\ d.buffer = a.buffer
    <3>0. PICK b : b = a.buffer
      OBVIOUS
    <3>1. PICK p \in BOOLEAN, q \in BOOLEAN : p = a.commits /\ q = a.last
      BY <1>1
    <3>2. d = SurfaceAccount(t, p, q, b) /\ \E o : t = {o}
      BY <2>1, <2>3, <3>0, <3>1
    <3>3. IsSurfaceAccount(d) /\ d.attached = t /\ d.buffer = b
      BY <3>2, AccountIsSurface
    <3> QED BY <3>0, <3>3
  <2>5. Names(d) \subseteq Names(a) \cup {m.arg.obj}
    BY <2>1, <2>4 DEF Names
  <2> QED BY <1>2, <1>3, <1>4, <2>4, <2>5
<1>5. CASE name = "commit"
  <2> DEFINE c == IF a.attached = {} THEN a.buffer ELSE CHOOSE b \in a.attached : TRUE
  <2>1. c \in a.attached \cup {a.buffer}
    OBVIOUS
  <2>2. Said(a, m, name) = SurfaceAccount({}, TRUE, a.attached # {}, c)
    BY <1>5, SurfaceCommits
  <2> HIDE DEF c
  <2>3. PICK l \in BOOLEAN : l = (a.attached # {})
    OBVIOUS
  <2>4. PICK b0 : b0 = c
    OBVIOUS
  <2>5. d = SurfaceAccount({}, TRUE, l, b0)
    BY <1>2, <2>2, <2>3, <2>4
  <2>6. IsSurfaceAccount(d) /\ d.attached = {} /\ d.buffer = b0
    <3>1. d = [kind |-> "surface", attached |-> {}, commits |-> TRUE, last |-> l,
               buffer |-> b0]
      BY <2>5 DEF SurfaceAccount
    <3>2. /\ d.kind = "surface" /\ d.attached = {} /\ d.commits = TRUE /\ d.last = l
          /\ d.buffer = b0
      BY <3>1
    <3> QED BY <2>3, <3>1, <3>2 DEF IsSurfaceAccount, SurfaceAccount
  <2>7. Names(d) \subseteq Names(a)
    BY <2>1, <2>4, <2>6 DEF Names
  <2> QED BY <1>2, <1>3, <2>6, <2>7
<1>6. CASE name # "attach" /\ name # "commit"
  <2>1. d = a
    BY <1>2, <1>6, SurfaceKeeps
  <2> QED BY <1>2, <1>3, <2>1
<1> QED BY <1>4, <1>5, <1>6

-----------------------------------------------------------------------------
(* What the record of a surface says. *)

\* The record r of a surface says what the account a says, but of what is lost.
Depicts(r, a) ==
    /\ Lost \notin a.attached =>
          r.pending.buffer = IF a.attached = {} THEN 0 ELSE CHOOSE b \in a.attached : TRUE
    /\ r.committed # {} <=> a.commits
    /\ \A s \in r.committed : a.buffer # Lost => s.buffer = IF a.last THEN a.buffer ELSE 0

\* It does so when what it names is destroyed ...
LEMMA DepictsWithout ==
    ASSUME NEW r, NEW a, IsSurfaceAccount(a), Depicts(r, a), NEW id \in Id
    PROVE  Depicts(r, Without(a, id))
<1>1. /\ a.attached = {} \/ \E b : a.attached = {b}
      /\ a.commits \in BOOLEAN /\ a.last \in BOOLEAN
  BY DEF IsSurfaceAccount
<1>2. PICK d : d = Without(a, id)
  OBVIOUS
<1>3. d = SurfaceAccount({IF b = id THEN Lost ELSE b : b \in a.attached},
                         a.commits, a.last, IF a.buffer = id THEN Lost ELSE a.buffer)
  BY <1>2, SurfaceWithout
<1>4. /\ d.attached = {IF b = id THEN Lost ELSE b : b \in a.attached}
      /\ d.commits = a.commits /\ d.last = a.last
      /\ d.buffer = IF a.buffer = id THEN Lost ELSE a.buffer
  BY <1>3 DEF SurfaceAccount
<1>5. /\ Lost \notin d.attached => Lost \notin a.attached /\ d.attached = a.attached
      /\ d.buffer # Lost => a.buffer # Lost /\ d.buffer = a.buffer
  BY <1>1, <1>4
<1>6. Depicts(r, d)
  BY <1>1, <1>4, <1>5 DEF Depicts
<1> QED BY <1>2, <1>6

\* ... and with every message that its handlers know.
LEMMA DepictsSaid ==
    ASSUME NEW r, IsSurface(r), NEW a, IsSurfaceAccount(a), Depicts(r, a), NEW m, NEW name,
           name \in Changes.surface, NEW sig,
           name = "attach" => ArgWord(sig, m.data, 1) = m.arg.obj
    PROVE  Depicts(Changed(r, name, m, sig), Said(a, m, name))
<1>0. name \in {"frame", "attach", "commit"}
  BY DEF Changes
<1>1. /\ a.attached = {} \/ \E b : a.attached = {b}
      /\ a.commits \in BOOLEAN /\ a.last \in BOOLEAN
  BY DEF IsSurfaceAccount
<1>2. /\ r = [kind |-> "surface", pending |-> r.pending, committed |-> r.committed]
      /\ r.pending = [buffer |-> r.pending.buffer, frame |-> r.pending.frame]
  BY DEF IsSurface, IsState
<1>3. PICK p, c : r = [kind |-> "surface", pending |-> p, committed |-> c]
  BY <1>2
<1>4. PICK e, d : e = Changed(r, name, m, sig) /\ d = Said(a, m, name)
  OBVIOUS
<1>5. CASE name = "frame"
  <2>1. e = [r EXCEPT !.pending.frame = ArgWord(sig, m.data, 1)]
    BY <1>4, <1>5 DEF Changed
  <2>2. e.pending.buffer = r.pending.buffer /\ e.committed = r.committed
    BY <1>2, <2>1
  <2>3. d = a
    BY <1>4, <1>5, SurfaceKeeps
  <2>4. Depicts(e, d)
    BY <2>2, <2>3 DEF Depicts
  <2> QED BY <1>4, <2>4
<1>6. CASE name = "attach"
  <2>1. e = [r EXCEPT !.pending.buffer = m.arg.obj]
    BY <1>4, <1>6 DEF Changed
  <2>2. e.pending.buffer = m.arg.obj /\ e.committed = r.committed
    BY <1>2, <2>1
  <2>3. d = SurfaceAccount({m.arg.obj}, a.commits, a.last, a.buffer)
    BY <1>4, <1>6, SurfaceAttaches
  <2>4. /\ d.attached = {m.arg.obj} /\ d.commits = a.commits /\ d.last = a.last
        /\ d.buffer = a.buffer
    BY <2>3 DEF SurfaceAccount
  <2>5. (CHOOSE b \in d.attached : TRUE) = m.arg.obj
    BY <2>4
  <2>6. Depicts(e, d)
    BY <1>1, <2>2, <2>4, <2>5 DEF Depicts
  <2> QED BY <1>4, <2>6
<1>7. CASE name = "commit"
  <2>1. e = [r EXCEPT !.committed = {r.pending}, !.pending = Clean]
    BY <1>4, <1>7 DEF Changed, Committed
  <2>2. e.pending = Clean /\ e.committed = {r.pending}
    BY <1>3, <2>1
  <2>3. PICK v : v = IF a.attached = {} THEN a.buffer ELSE CHOOSE b \in a.attached : TRUE
    OBVIOUS
  <2>4. d = SurfaceAccount({}, TRUE, a.attached # {}, v)
    <3>1. d = SurfaceAccount({}, TRUE, a.attached # {},
                             IF a.attached = {} THEN a.buffer
                             ELSE CHOOSE b \in a.attached : TRUE)
      BY <1>4, <1>7, SurfaceCommits
    <3> QED BY <2>3, <3>1, Zenon
  <2>5. /\ d.attached = {} /\ d.commits = TRUE /\ (d.last <=> a.attached # {})
        /\ d.buffer = v
    BY <2>4 DEF SurfaceAccount
  <2>6. e.pending.buffer = 0
    BY <2>2 DEF Clean
  <2>7. v # Lost => r.pending.buffer = IF a.attached # {} THEN v ELSE 0
    <3>1. CASE a.attached = {}
      <4>1. r.pending.buffer = 0
        BY <3>1 DEF Depicts
      <4> QED BY <2>3, <3>1, <4>1
    <3>2. CASE a.attached # {}
      <4>1. PICK b : a.attached = {b}
        BY <1>1, <3>2
      <4>2. v = b
        BY <2>3, <3>2, <4>1
      <4>3. b # Lost => r.pending.buffer = b
        BY <2>3, <4>1, <4>2, <3>2 DEF Depicts
      <4> QED BY <2>3, <3>2, <4>2, <4>3
    <3> QED BY <3>1, <3>2
  <2>8. Depicts(e, d)
    BY <2>2, <2>5, <2>6, <2>7 DEF Depicts
  <2> QED BY <1>4, <2>8
<1> QED BY <1>0, <1>5, <1>6, <1>7

\* A new record says what the account of a new surface does.
LEMMA DepictsNew ==
    ASSUME NEW a, a = SurfaceAccount({}, FALSE, FALSE, 0)
    PROVE  Depicts(NewSurface, a) /\ Names(a) = {} /\ IsSurfaceAccount(a)
<1>1. /\ a.kind = "surface" /\ a.attached = {} /\ a.commits = FALSE /\ a.last = FALSE
      /\ a.buffer = 0
  BY DEF SurfaceAccount
<1>2. NewSurface.pending.buffer = 0 /\ NewSurface.committed = {}
  BY DEF NewSurface, Clean
<1> QED BY <1>1, <1>2 DEF Depicts, Names, IsSurfaceAccount

-----------------------------------------------------------------------------
(* The peers' account. *)

\* An account of an xdg_surface, field by field.
LEMMA XdgFields ==
    ASSUME NEW a, IsXdgAccount(a)
    PROVE  /\ a.kind = "xdg_surface"
           /\ a = [kind |-> "xdg_surface", surface |-> a.surface, sent |-> a.sent,
                   acked |-> a.acked]
<1>1. PICK s, t, k : a = [kind |-> "xdg_surface", surface |-> s, sent |-> t, acked |-> k]
  BY DEF IsXdgAccount, XdgAccount
<1>2. a.kind = "xdg_surface" /\ a.surface = s /\ a.sent = t /\ a.acked = k
  BY <1>1
<1> QED BY <1>1, <1>2

\* What a configure, an ack_configure and any other message say of an xdg_surface, ...
LEMMA XdgConfigures ==
    ASSUME NEW a, IsXdgAccount(a), NEW m, NEW name, name = "configure"
    PROVE  Said(a, m, name) = XdgAccount(a.surface, Append(a.sent, m.arg.number), a.acked)
<1>1. /\ a.kind = "xdg_surface"
      /\ a = [kind |-> "xdg_surface", surface |-> a.surface, sent |-> a.sent,
              acked |-> a.acked]
  BY XdgFields
<1>2. PICK u : u = Append(a.sent, m.arg.number)
  OBVIOUS
<1>3. PICK d : d = Said(a, m, name) /\ d = [a EXCEPT !.sent = u]
  BY <1>1, <1>2 DEF Said
<1>4. d = [kind |-> "xdg_surface", surface |-> a.surface, sent |-> u, acked |-> a.acked]
  BY <1>1, <1>3
<1> QED BY <1>2, <1>3, <1>4 DEF XdgAccount

LEMMA XdgAcks ==
    ASSUME NEW a, IsXdgAccount(a), NEW m, NEW name, name = "ack_configure"
    PROVE  Said(a, m, name) = XdgAccount(a.surface, a.sent, a.acked \cup {m.arg.number})
<1>1. /\ a.kind = "xdg_surface"
      /\ a = [kind |-> "xdg_surface", surface |-> a.surface, sent |-> a.sent,
              acked |-> a.acked]
  BY XdgFields
<1>2. PICK u : u = a.acked \cup {m.arg.number}
  OBVIOUS
<1>3. PICK d : d = Said(a, m, name) /\ d = [a EXCEPT !.acked = u]
  BY <1>1, <1>2 DEF Said
<1>4. d = [kind |-> "xdg_surface", surface |-> a.surface, sent |-> a.sent, acked |-> u]
  BY <1>1, <1>3
<1> QED BY <1>2, <1>3, <1>4 DEF XdgAccount

LEMMA XdgKeeps ==
    ASSUME NEW a, IsXdgAccount(a), NEW m, NEW name, name # "configure",
           name # "ack_configure"
    PROVE  Said(a, m, name) = a
<1>1. a.kind = "xdg_surface"
  BY XdgFields
<1> QED BY <1>1 DEF Said

\* ... and what is left of it without an object.
LEMMA XdgWithout ==
    ASSUME NEW a, IsXdgAccount(a), NEW id
    PROVE  Without(a, id) = XdgAccount(IF a.surface = id THEN Lost ELSE a.surface,
                                       a.sent, a.acked)
<1>1. /\ a.kind = "xdg_surface"
      /\ a = [kind |-> "xdg_surface", surface |-> a.surface, sent |-> a.sent,
              acked |-> a.acked]
  BY XdgFields
<1>2. PICK u : u = IF a.surface = id THEN Lost ELSE a.surface
  OBVIOUS
<1>3. PICK d : d = Without(a, id) /\ d = [a EXCEPT !.surface = u]
  BY <1>1, <1>2 DEF Without
<1>4. d = [kind |-> "xdg_surface", surface |-> u, sent |-> a.sent, acked |-> a.acked]
  BY <1>1, <1>3
<1> QED BY <1>2, <1>3, <1>4 DEF XdgAccount

\* Nothing is said of what there is no account of.
LEMMA NothingSaid ==
    ASSUME NEW m, NEW name, NEW id
    PROVE  Said(NoRecord, m, name) = NoRecord /\ Without(NoRecord, id) = NoRecord
<1>1. NoRecord.kind = "none"
  BY DEF NoRecord
<1> QED BY <1>1 DEF Said, Without

\* What the client sees of surfaces, buffers and xdg_surfaces.
LEMMA FreedSays ==
    ASSUME Lives, NEW x \in Id, client[x] \in Freed
    PROVE  /\ x \in ClientId
           /\ Saying(Range(Here), x, client[x]) /\ Lasting(Range(Here), x)
           /\ Saying(Range(Coming), x, client[x])
           /\ server[x] \in {"none", client[x]}
           /\ ~Unmade(Range(Here), x) => server[x] = "none" /\ Silent(Range(Coming), x)
           /\ Going # <<>> => ~Releases(Head(Going), x) /\ ~(Head(Going).id = x /\ Head(Going).ends)
<1>0. /\ IsSeq(Here) /\ IsSeq(Past) /\ IsSeq(Going) /\ client[1] = "display"
      /\ client[x] \in Interface \cup NoObject
      /\ client[x] \notin NoObject /\ client[x] # "display"
  BY DEF Lives, Queues, Views, Display, Freed, NoObject
<1>1. client[x] \in Interface /\ ~Fleeting(client[x]) /\ client[x] \notin MadeByEvents
  BY <1>0, NotByEvents
<1>2. x \notin ServerId
  <2>1. x \in ServerId => client[x] \in MadeByEvents \cup {"none"}
    BY DEF Lives, Servers, Vacant, Announced, Introduced, Present, Unsaid, Speaks
  <2> QED BY <1>0, <1>1, <2>1 DEF NoObject
<1>3. x \in ClientId
  BY <1>0, <1>2, IdFacts
<1>4. PICK i \in Interface : Asked(x, i) \/ Seen(x, i) \/ Known(x, i)
  <2>1. \A i : ~Ended(x, i)
    BY <1>0, <1>1 DEF Ended, NoObject
  <2>2. ~Unused(x)
    BY <1>0 DEF Unused, NoObject
  <2> QED BY <1>3, <2>1, <2>2 DEF Lives, Clients, Released, Gone
<1>5. Speaks(x, i, "zombie") /\ client[x] = i /\ i # "zombie"
  BY <1>0, <1>4 DEF Asked, Seen, Known, Speaks, NoObject
<1>6. Saying(Range(Here), x, i) /\ Lasting(Range(Here), x)
  BY <1>5 DEF Speaks
<1>7. /\ Saying(Range(Coming), x, i) /\ server[x] \in {"none", i}
      /\ ~Unmade(Range(Here), x) => server[x] = "none" /\ Silent(Range(Coming), x)
      /\ Lasting(Range(Going), x) /\ Held(Range(Going), x)
  BY <1>4, SilentSays DEF Asked, Seen, Known, Untold
<1>8. Going # <<>> => ~Releases(Head(Going), x) /\ ~(Head(Going).id = x /\ Head(Going).ends)
  BY <1>0, <1>7, HeadSays
<1> QED BY <1>3, <1>5, <1>6, <1>7, <1>8

\* Surfaces are made by the compositor, xdg_surfaces by the shell, of a surface.
LEMMA MadeBy ==
    ASSUME NEW m, IsRequest(m), m.arg.new # 0
    PROVE  LET msg == Protocol[m.intf]["requests"][m.op]
           IN  /\ m.arg.made = "surface" =>
                     m.intf = "compositor" /\ NewIdArg(m.intf, msg.name) # 0
               /\ m.arg.made = "xdg_surface" =>
                     /\ m.intf = "shell" /\ NewIdArg(m.intf, msg.name) # 0
                     /\ Takes(msg, 2, "o") /\ msg.takes = "surface"
                     /\ "?" \notin Range(msg.sig)
<1> DEFINE msg == Protocol[m.intf]["requests"][m.op]
           at == NewIdArg(m.intf, msg.name)
<1>1. m.intf \in Interface /\ m.op \in DOMAIN Protocol[m.intf]["requests"] /\ m.arg.made \in msg.makes
  BY DEF IsRequest, IsMessage
<1>2. /\ at # 0 => msg.makes \subseteq RecordFor(m.intf)
      /\ at = 0 => msg.makes \cap {"surface", "xdg_surface"} = {}
      /\ m.intf = "shell" /\ at # 0 =>
            /\ Takes(msg, 2, "o") /\ msg.takes = "surface"
            /\ "?" \notin Range(msg.sig)
  <2>1. CASE at # 0
    BY <1>1, <2>1, HandledNew
  <2>2. CASE at = 0
    BY <1>1, <2>2, HandledOther
  <2> HIDE DEF msg, at
  <2> QED BY <2>1, <2>2
<1>3. /\ "surface" \in RecordFor(m.intf) => m.intf = "compositor"
      /\ "xdg_surface" \in RecordFor(m.intf) => m.intf = "shell"
  BY DEF RecordFor, Freed
<1> HIDE DEF msg, at
<1>4. /\ m.arg.made = "surface" => m.intf = "compositor" /\ at # 0
      /\ m.arg.made = "xdg_surface" =>
            /\ m.intf = "shell" /\ at # 0 /\ Takes(msg, 2, "o") /\ msg.takes = "surface"
            /\ "?" \notin Range(msg.sig)
  BY <1>1, <1>2, <1>3
<1> QED BY <1>4 DEF msg, at

\* What a request that is asked does to the account.
LEMMA AskIs ==
    ASSUME Lives, Ask
    PROVE  \E m :
              /\ IsRequest(m) /\ client[m.id] = m.intf /\ m.id \in Id /\ m.intf \in Interface
              /\ m.intf \notin NoObject
              /\ Written(m, "requests")
              /\ m.arg.obj # 0 =>
                    m.arg.obj \in Id /\ client[m.arg.obj] = TakenFor(m, "requests")
              /\ m.arg.new # 0 =>
                    /\ m.arg.new \in ClientId /\ m.arg.new \in Id /\ Unused(m.arg.new)
                    /\ client[m.arg.new] = "none" /\ m.arg.new # m.id
              /\ Here' = Append(Here, m) /\ Past' = Past /\ Coming' = Coming /\ Going' = Going
              /\ info' = info /\ fault' = fault
              /\ client' = [n \in Id |->
                    IF n = m.arg.new THEN m.arg.made
                    ELSE IF n = m.id /\ m.ends
                         THEN IF n \in ClientId THEN "zombie" ELSE "none"
                         ELSE client[n]]
              /\ \A x \in Id :
                    account'[x] = Accounted(account[x], x, m, Protocol[m.intf].requests)
              /\ Acknowledges(m, Protocol[m.intf].requests[m.op].name)
<1>1. Queues /\ Tables /\ Views /\ IsSeq(Here)
  BY DEF Lives, Queues
<1>2. ClientRequests /\ info' = info /\ fault' = fault
  BY DEF Ask
<1>3. PICK m :
         /\ IsRequest(m) /\ client[m.id] = m.intf /\ Meaning(m, "requests", client)
         /\ m.arg.new # 0 => client[m.arg.new] = "none"
         /\ Here' = Append(Here, m) /\ Past' = Past /\ Coming' = Coming /\ Going' = Going
         /\ requests' = [requests EXCEPT !["wldbg"] = Append(@, m)]
         /\ client' = [n \in Id |->
               IF n = m.arg.new THEN m.arg.made
               ELSE IF n = m.id /\ m.ends
                    THEN IF n \in ClientId THEN "zombie" ELSE "none"
                    ELSE client[n]]
  BY <1>1, <1>2, ClientRequestsIs
<1>4. Last(Here') = m /\ requests'["wldbg"] = Here'
  <2>1. Len(Here') = Len(Here) + 1 /\ Here'[Len(Here) + 1] = m
    BY <1>1, <1>3, AppendIs
  <2> QED BY <1>3, <2>1 DEF Here, Last
<1>5. /\ Account(m, Protocol[m.intf].requests)
      /\ Acknowledges(m, Protocol[m.intf].requests[m.op].name)
  BY <1>4 DEF Ask
<1>6. /\ m.id \in Id /\ m.intf \in Interface /\ m.intf \notin NoObject
      /\ m.arg.new # 0 => m.arg.new \in ClientId /\ m.arg.new \in Id /\ Unused(m.arg.new)
                          /\ m.arg.new # m.id
  BY <1>3, RequestFacts, IdFacts, TableWords, NoneOut DEF NoObject
<1>7. /\ Written(m, "requests")
      /\ m.arg.obj # 0 => m.arg.obj \in Id /\ client[m.arg.obj] = TakenFor(m, "requests")
  BY <1>3, MeaningIs
<1>8. \A x \in Id : account'[x] = Accounted(account[x], x, m, Protocol[m.intf].requests)
  BY <1>5 DEF Account
<1> QED BY <1>2, <1>3, <1>5, <1>6, <1>7, <1>8

\* The client names what lives, and takes what it destroys out of its account.
LEMMA AskAccounts ==
    ASSUME Lives, Buffers, Accounts, Ask
    PROVE  Accounts'
<1>1. PICK m :
              /\ IsRequest(m) /\ client[m.id] = m.intf /\ m.id \in Id /\ m.intf \in Interface
              /\ m.intf \notin NoObject
              /\ Written(m, "requests")
              /\ m.arg.obj # 0 =>
                    m.arg.obj \in Id /\ client[m.arg.obj] = TakenFor(m, "requests")
              /\ m.arg.new # 0 =>
                    /\ m.arg.new \in ClientId /\ m.arg.new \in Id /\ Unused(m.arg.new)
                    /\ client[m.arg.new] = "none" /\ m.arg.new # m.id
              /\ client' = [n \in Id |->
                    IF n = m.arg.new THEN m.arg.made
                    ELSE IF n = m.id /\ m.ends
                         THEN IF n \in ClientId THEN "zombie" ELSE "none"
                         ELSE client[n]]
              /\ \A x \in Id :
                    account'[x] = Accounted(account[x], x, m, Protocol[m.intf].requests)
              /\ Acknowledges(m, Protocol[m.intf].requests[m.op].name)
  BY AskIs
<1> DEFINE name == Protocol[m.intf].requests[m.op].name
<1>2. \A x \in Id :
         /\ x = m.arg.new => client'[x] = m.arg.made /\ account'[x] = Made(m) /\ x # m.id
         /\ x # m.arg.new /\ x = m.id /\ m.ends =>
               client'[x] \in NoObject /\ account'[x] = NoRecord
         /\ x # m.arg.new /\ x = m.id /\ ~m.ends =>
               client'[x] = client[x] /\ account'[x] = Said(account[x], m, name)
         /\ x # m.arg.new /\ x # m.id /\ m.ends =>
               client'[x] = client[x] /\ account'[x] = Without(account[x], m.id)
         /\ x # m.arg.new /\ x # m.id /\ ~m.ends =>
               client'[x] = client[x] /\ account'[x] = account[x]
  BY <1>1, IdFacts DEF Accounted, NoObject
<1>3. NoRecord.kind = "none" /\ NoObject \cap Freed = {}
  BY DEF NoRecord, NoObject, Freed
<1>4. ASSUME NEW x \in ClientId, x \in Id, client[x] = "surface", ~(x = m.id /\ m.ends)
      PROVE  client'[x] = "surface"
  BY <1>1, <1>2, <1>4, IdFacts
<1> DEFINE Right(x) ==
       /\ account'[x].kind = "none" => account'[x] = NoRecord
       /\ account'[x].kind # "none" =>
             x \in ClientId /\ account'[x].kind = client'[x] /\ client'[x] \in Freed
       /\ x \in ClientId /\ client'[x] \in Freed => account'[x].kind = client'[x]
       /\ account'[x].kind = "surface" =>
             /\ IsSurfaceAccount(account'[x])
             /\ \A b \in Names(account'[x]) : b \in ClientId /\ client'[b] = "buffer"
       /\ account'[x].kind = "xdg_surface" =>
             /\ IsXdgAccount(account'[x])
             /\ account'[x].surface # Lost =>
                   account'[x].surface \in ClientId /\ client'[account'[x].surface] = "surface"
<1>5. ASSUME NEW x \in Id, x = m.arg.new PROVE Right(x)
  <2>1. x \in ClientId /\ client'[x] = m.arg.made /\ account'[x] = Made(m) /\ m.arg.new # 0
    BY <1>1, <1>2, <1>5, IdFacts
  <2>2. CASE m.arg.made = "surface"
    <3>1. Made(m) = SurfaceAccount({}, FALSE, FALSE, 0)
      BY <2>2 DEF Made, SurfaceAccount
    <3>2. IsSurfaceAccount(Made(m)) /\ Names(Made(m)) = {}
      BY <3>1, DepictsNew
    <3>3. Made(m).kind = "surface"
      BY <2>2 DEF Made
    <3> QED BY <2>1, <2>2, <3>2, <3>3 DEF Freed
  <2>3. CASE m.arg.made = "xdg_surface"
    <3>1. PICK d : d = Made(m)
      OBVIOUS
    <3>2. d = [kind |-> "xdg_surface", surface |-> m.arg.obj, sent |-> <<>>, acked |-> {}]
      BY <2>3, <3>1 DEF Made
    <3>3. d.kind = "xdg_surface" /\ d.surface = m.arg.obj /\ d.sent = <<>> /\ d.acked = {}
      BY <3>2
    <3>4. /\ m.intf = "shell" /\ TakenFor(m, "requests") = "surface"
          /\ Takes(Protocol[m.intf]["requests"][m.op], 2, "o")
          /\ "?" \notin Range(Protocol[m.intf]["requests"][m.op].sig)
      BY <1>1, <2>1, <2>3, MadeBy DEF TakenFor
    <3>5. m.arg.obj # 0
      <4> DEFINE sig == Protocol[m.intf]["requests"][m.op].sig
      <4>1. "o" \in Range(sig)
        <5>1. ArgTypes(sig)[2] = "o" /\ 2 \in 1 .. Len(ArgTypes(sig))
          BY <3>4 DEF Takes
        <5>2. PICK arg : m.arg = arg /\ arg \in ArgsOf(Protocol[m.intf]["requests"][m.op])
          BY <1>1 DEF Written
        <5>3. ReadAsMeant([arg |-> arg, data |-> Wire(m.id, m.op, sig, arg)], sig)
          <6>1. \A a \in [new : {0} \cup ClientId \cup ServerId,
                          made : Protocol[m.intf]["requests"][m.op].makes,
                          obj : {0} \cup Id,
                          number : Protocol[m.intf]["requests"][m.op].numbers] :
                   ReadAsMeant([arg |-> a, data |-> Wire(m.id, m.op, sig, a)], sig)
            BY <1>1, ObjInfoAssumption DEF Legible, IsRequest, IsMessage
          <6> QED BY <5>2, <6>1 DEF ArgsOf
        <5>4. ArgTypes(sig) \in Seq(Range(sig))
          BY <5>3 DEF ReadAsMeant
        <5> HIDE DEF sig
        <5> QED BY <5>1, <5>4, ElementOfSeq
      <4> QED BY <1>1, <3>4, <4>1 DEF Written
    <3>6. m.arg.obj \in Id /\ client[m.arg.obj] = "surface"
      BY <1>1, <3>4, <3>5
    <3>7. m.arg.obj \in ClientId
      BY <3>6, FreedSays DEF Freed
    <3>8. client'[m.arg.obj] = "surface"
      BY <1>1, <1>4, <3>4, <3>6, <3>7
    <3>9. IsXdgAccount(d)
      <4>1. <<>> \in Seq(Nat) /\ Len(<<>>) = 0
        OBVIOUS
      <4> QED BY <3>2, <3>3, <4>1 DEF IsXdgAccount, XdgAccount
    <3> QED BY <2>1, <2>3, <3>1, <3>3, <3>7, <3>8, <3>9 DEF Freed
  <2>4. CASE m.arg.made = "buffer"
    <3>1. Made(m).kind = "buffer"
      BY <2>4 DEF Made
    <3> QED BY <2>1, <2>4, <3>1 DEF Freed
  <2>5. CASE m.arg.made \notin Freed
    <3>1. Made(m) = NoRecord
      BY <2>5 DEF Made, Freed
    <3> QED BY <1>3, <2>1, <2>5, <3>1
  <2> QED BY <2>2, <2>3, <2>4, <2>5 DEF Freed
<1>6. ASSUME NEW x \in Id, x # m.arg.new, x = m.id, m.ends PROVE Right(x)
  BY <1>2, <1>3, <1>6
<1>7. ASSUME NEW x \in Id, x # m.arg.new, ~(x = m.id /\ m.ends) PROVE Right(x)
  <2> DEFINE a == account[x]
  <2>1. client'[x] = client[x]
    BY <1>2, <1>7
  <2>2. \/ x = m.id /\ account'[x] = Said(a, m, name)
        \/ m.ends /\ account'[x] = Without(a, m.id)
        \/ account'[x] = a /\ ~m.ends
    BY <1>2, <1>7
  <2>3. IsAccount(a)
    BY DEF Buffers
  <2>4. account'[x].kind = a.kind
    BY <2>2, <2>3, SaidIs
  <2>5. a.kind = "none" => account'[x] = NoRecord
    BY <2>2, NothingSaid DEF Accounts
  <2>6. ASSUME a.kind = "surface"
        PROVE  /\ IsSurfaceAccount(account'[x])
               /\ \A b \in Names(account'[x]) : b \in ClientId /\ client'[b] = "buffer"
    <3>1. IsSurfaceAccount(a) /\ \A b \in Names(a) : b \in ClientId /\ client[b] = "buffer"
      BY <2>6 DEF Accounts
    <3>2. ASSUME NEW b \in ClientId, client[b] = "buffer", ~(b = m.id /\ m.ends)
          PROVE  client'[b] = "buffer"
      BY <1>1, <1>2, <3>2, IdFacts
    <3> HIDE DEF a, name
    <3>3. CASE x = m.id /\ account'[x] = Said(a, m, name)
      <4>1. /\ IsSurfaceAccount(account'[x])
            /\ name # "attach" => Names(account'[x]) \subseteq Names(a)
            /\ Names(account'[x]) \subseteq Names(a) \cup {m.arg.obj}
            /\ 0 \notin Names(account'[x])
        BY <1>1, <3>1, <3>3, SurfaceSaidIs
      <4>2. ~m.ends /\ m.intf = "surface"
        BY <1>1, <1>7, <2>6, <3>3 DEF Accounts, a
      <4>3. name = "attach" /\ m.arg.obj # 0 =>
               m.arg.obj \in ClientId /\ client[m.arg.obj] = "buffer"
        BY <1>1, <4>2, HandledSurface, FreedSays DEF IsRequest, IsMessage, TakenFor, name, Freed
      <4>4. \A b \in Names(account'[x]) : b \in ClientId /\ client[b] = "buffer"
        BY <3>1, <4>1, <4>3
      <4> QED BY <3>2, <4>1, <4>2, <4>4
    <3>4. CASE m.ends /\ account'[x] = Without(a, m.id)
      <4>1. /\ IsSurfaceAccount(account'[x])
            /\ Names(account'[x]) \subseteq Names(a) \ {m.id}
        BY <1>1, <3>1, <3>4, SurfaceLeft
      <4> QED BY <3>1, <3>2, <4>1
    <3>5. CASE account'[x] = a /\ ~m.ends
      BY <3>1, <3>2, <3>5
    <3> QED BY <2>2, <3>3, <3>4, <3>5 DEF a, name
  <2>7. ASSUME a.kind = "xdg_surface"
        PROVE  /\ IsXdgAccount(account'[x])
               /\ account'[x].surface # Lost =>
                    account'[x].surface \in ClientId /\ client'[account'[x].surface] = "surface"
    <3>1. /\ IsXdgAccount(a)
          /\ a.surface # Lost => a.surface \in ClientId /\ client[a.surface] = "surface"
      BY <2>7 DEF Accounts
    <3>2. a.surface # Lost /\ ~(m.ends /\ a.surface = m.id) => client'[a.surface] = "surface"
      BY <1>4, <3>1, IdFacts
    <3> HIDE DEF a
    <3>3. CASE x = m.id /\ account'[x] = Said(a, m, name)
      <4>1. PICK d : d = account'[x]
        OBVIOUS
      <4>2. x = m.id /\ ~m.ends /\ m.intf = "xdg_surface"
        BY <1>1, <1>7, <2>7, <3>3 DEF Accounts, a
      <4>3. name # "configure"
        BY <1>1, <4>2, HandledXdg DEF IsRequest, IsMessage
      <4>4. CASE name = "ack_configure"
        <5>1. m.arg.number \in Range(a.sent)
          BY <1>1, <2>7, <3>3, <4>4 DEF Acknowledges, a
        <5>2. m.arg.number \in 1 .. Len(a.sent)
          <6>1. PICK k \in DOMAIN a.sent : m.arg.number = a.sent[k]
            BY <5>1, RangeIs
          <6> QED BY <3>1, <6>1 DEF IsXdgAccount
        <5>3. d = XdgAccount(a.surface, a.sent, a.acked \cup {m.arg.number})
          BY <3>1, <3>3, <4>1, <4>4, XdgAcks
        <5>4. d.surface = a.surface /\ d.sent = a.sent /\ d.acked = a.acked \cup {m.arg.number}
          BY <5>3 DEF XdgAccount
        <5>5. IsXdgAccount(d)
          BY <3>1, <5>2, <5>3, <5>4 DEF IsXdgAccount
        <5> QED BY <3>1, <3>2, <4>1, <4>2, <5>4, <5>5
      <4>5. CASE name # "ack_configure"
        <5>0. PICK w : w = name /\ w \notin {"configure", "ack_configure"}
          BY <4>3, <4>5
        <5>1. Said(a, m, w) = a
          BY <3>1, <5>0, XdgKeeps
        <5>2. d = a
          BY <3>3, <4>1, <5>0, <5>1
        <5> QED BY <3>1, <3>2, <4>1, <4>2, <5>2
      <4> QED BY <4>4, <4>5
    <3>4. CASE m.ends /\ account'[x] = Without(a, m.id)
      <4>1. PICK d : d = account'[x]
        OBVIOUS
      <4>2. d = XdgAccount(IF a.surface = m.id THEN Lost ELSE a.surface, a.sent, a.acked)
        BY <3>1, <3>4, <4>1, XdgWithout
      <4>3. /\ d.surface = IF a.surface = m.id THEN Lost ELSE a.surface
            /\ d.sent = a.sent /\ d.acked = a.acked
        BY <4>2 DEF XdgAccount
      <4>4. IsXdgAccount(d)
        BY <3>1, <4>2, <4>3 DEF IsXdgAccount
      <4> QED BY <3>1, <3>2, <4>1, <4>3, <4>4
    <3>5. CASE account'[x] = a /\ ~m.ends
      BY <3>1, <3>2, <3>5
    <3> QED BY <2>2, <3>3, <3>4, <3>5 DEF a
  <2> QED BY <2>1, <2>4, <2>5, <2>6, <2>7 DEF Accounts
<1> HIDE DEF Right
<1>8. \A x \in Id : Right(x)
  BY <1>5, <1>6, <1>7
<1> QED BY <1>8 DEF Accounts, Right

\* What an event that is told does to the account: it counts the configures.
LEMMA TellIs ==
    ASSUME Lives, Buffers, Accounts, Tell
    PROVE  \E m :
              /\ IsEvent(m) /\ server[m.id] = m.intf /\ m.id \in Id /\ m.intf \in Interface
              /\ Here' = Here /\ Past' = Past /\ Going' = Going /\ client' = client
              /\ info' = info /\ fault' = fault
              /\ Coming' = (IF m.ends THEN Append(Append(Coming, m), DeleteId(m.id))
                            ELSE Append(Coming, m))
              /\ ~IsDeleteId(m) /\ (m.ends => m.intf \notin Freed /\ m.id \in ClientId)
              /\ \A x \in Id :
                    \/ /\ account'[x] = account[x]
                       /\ x = m.id /\ account[x].kind = "xdg_surface" =>
                             Protocol[m.intf]["events"][m.op].name # "configure"
                    \/ /\ x = m.id /\ m.intf = "xdg_surface" /\ ~m.ends
                       /\ account[x].kind = "xdg_surface"
                       /\ Protocol[m.intf]["events"][m.op].name = "configure"
                       /\ m.arg.number = Len(account[x].sent) + 1
                       /\ account'[x] = XdgAccount(account[x].surface,
                                           Append(account[x].sent, m.arg.number),
                                           account[x].acked)
<1>1. ServerSends /\ info' = info /\ fault' = fault /\ IsSeq(Coming)
  BY DEF Tell, Lives, Queues
<1>2. PICK m :
        /\ IsEvent(m) /\ ~IsDeleteId(m) /\ server[m.id] = m.intf
        /\ m.ends => m.id \in ClientId /\ Fleeting(m.intf)
        /\ Here' = Here /\ Past' = Past /\ Going' = Going
        /\ Coming' = (IF m.ends THEN Append(Append(Coming, m), DeleteId(m.id))
                      ELSE Append(Coming, m))
        /\ client' = client
  BY <1>1, ServerSendsDoes
<1>3. Coming'[Len(Coming) + 1] = m
  <2> DEFINE q == Append(Coming, m)
             d == DeleteId(m.id)
  <2>1. /\ IsSeq(q) /\ Len(q) = Len(Coming) + 1 /\ q[Len(q)] = m /\ Len(Coming) \in Nat
    BY <1>1, AppendIs, SeqIs
  <2> HIDE DEF q, d
  <2>2. Append(q, d)[Len(q)] = m
    <3>1. Len(q) \in 1 .. Len(q)
      BY <2>1
    <3> QED BY <2>1, <3>1, AppendIs
  <2>3. Coming' = IF m.ends THEN Append(q, d) ELSE q
    BY <1>2 DEF q, d
  <2> QED BY <2>1, <2>2, <2>3
<1> DEFINE msg == Protocol[m.intf]["events"][m.op]
<1>4. /\ Account(m, Protocol[m.intf].events)
      /\ account[m.id].kind = "xdg_surface" /\ msg.name = "configure" =>
            m.arg.number = Len(account[m.id].sent) + 1
  <2>1. events'["wldbg"][Len(events["wldbg"]) + 1] = m
    BY <1>3 DEF Coming
  <2> QED BY <2>1 DEF Tell
<1>5. /\ m.id \in Id /\ m.intf \in Interface /\ m.arg.new \in ServerId \cup {0}
      /\ m.arg.new # 0 => m.arg.made \notin Freed
      /\ m.ends => m.intf \notin Freed
  BY <1>2, EventFacts, NotByEvents
<1>6. m.op \in DOMAIN Protocol[m.intf]["events"]
  <2>1. IsMessage(m, "events", ServerId)
    BY <1>2, DeleteIdFacts DEF IsEvent
  <2> QED BY <2>1 DEF IsMessage
<1>7. client[m.id] \in Freed => client[m.id] = m.intf
  BY <1>2, <1>5, FreedSays, TableWords DEF NoObject
<1>8. NoRecord.kind = "none"
  BY DEF NoRecord
<1>9. ASSUME NEW x \in Id
      PROVE  \/ /\ account'[x] = account[x]
                /\ x = m.id /\ account[x].kind = "xdg_surface" => msg.name # "configure"
             \/ /\ x = m.id /\ m.intf = "xdg_surface" /\ ~m.ends
                /\ account[x].kind = "xdg_surface" /\ msg.name = "configure"
                /\ m.arg.number = Len(account[x].sent) + 1
                /\ account'[x] = XdgAccount(account[x].surface,
                                    Append(account[x].sent, m.arg.number), account[x].acked)
  <2> DEFINE a == account[x]
  <2>0. /\ account'[x] = Accounted(a, x, m, Protocol[m.intf].events)
        /\ a.kind # "none" => x \in ClientId /\ a.kind = client[x] /\ client[x] \in Freed
        /\ a.kind = "none" => a = NoRecord
        /\ a.kind = "surface" =>
              IsSurfaceAccount(a) /\ \A b \in Names(a) : b \in ClientId /\ client[b] = "buffer"
        /\ a.kind = "xdg_surface" =>
              /\ IsXdgAccount(a)
              /\ a.surface # Lost => a.surface \in ClientId /\ client[a.surface] = "surface"
    BY <1>4 DEF Account, Accounts
  <2>1. CASE x = m.arg.new
    <3>1. a = NoRecord /\ x # 0
      BY <1>5, <2>0, <2>1, IdFacts
    <3>2. Made(m) = NoRecord
      BY <1>5, <2>1, <3>1 DEF Made, Freed
    <3> QED BY <1>8, <2>0, <2>1, <3>1, <3>2 DEF Accounted
  <2>2. CASE x # m.arg.new /\ x = m.id /\ m.ends
    <3>1. a = NoRecord
      BY <1>5, <1>7, <2>0, <2>2
    <3> QED BY <1>8, <2>0, <2>2, <3>1 DEF Accounted
  <2>3. CASE x # m.arg.new /\ x = m.id /\ ~m.ends
    <3>0. account'[x] = Said(a, m, msg.name)
      BY <2>0, <2>3 DEF Accounted
    <3>1. CASE a.kind \notin {"surface", "xdg_surface"}
      BY <3>0, <3>1 DEF Said
    <3>2. CASE a.kind = "surface"
      <4>1. m.intf = "surface"
        BY <1>7, <2>0, <2>3, <3>2
      <4>2. msg.name \notin Changes.surface
        BY <1>5, <1>6, <4>1, HandledSurface
      <4>3. msg.name \notin {"attach", "commit"}
        BY <4>2 DEF Changes
      <4> QED BY <3>0, <3>2, <4>3 DEF Said
    <3>3. CASE a.kind = "xdg_surface"
      <4>1. m.intf = "xdg_surface"
        BY <1>7, <2>0, <2>3, <3>3
      <4>2. PICK w : w = msg.name
        OBVIOUS
      <4>3. w # "ack_configure"
        BY <1>5, <1>6, <4>1, <4>2, HandledXdg
      <4> HIDE DEF msg
      <4>4. CASE w = "configure"
        <5>1. Said(a, m, w) = XdgAccount(a.surface, Append(a.sent, m.arg.number), a.acked)
          BY <2>0, <3>3, <4>4, XdgConfigures
        <5> QED BY <1>4, <2>3, <3>0, <3>3, <4>1, <4>2, <4>4, <5>1
      <4>5. CASE w # "configure"
        <5>1. w \notin {"configure", "ack_configure"}
          BY <4>3, <4>5
        <5>2. PICK c : c = a /\ IsXdgAccount(c)
          BY <2>0, <3>3
        <5>3. Said(c, m, w) = c
          BY <5>1, <5>2, XdgKeeps
        <5> QED BY <3>0, <4>2, <4>5, <5>2, <5>3
      <4> QED BY <4>4, <4>5
    <3> QED BY <3>1, <3>2, <3>3
  <2>4. CASE x # m.arg.new /\ x # m.id /\ m.ends
    <3>0. account'[x] = Without(a, m.id) /\ client[m.id] \notin Freed
      BY <1>5, <1>7, <2>0, <2>4 DEF Accounted
    <3>1. CASE a.kind \notin {"surface", "xdg_surface"}
      BY <2>4, <3>0, <3>1 DEF Without
    <3>2. CASE a.kind = "surface"
      <4>1. m.id \notin Names(a)
        BY <2>0, <3>0, <3>2 DEF Freed
      <4>2. Without(a, m.id) = a
        BY <1>5, <2>0, <3>2, <4>1, SurfaceLeft
      <4> QED BY <2>4, <3>0, <4>2
    <3>3. CASE a.kind = "xdg_surface"
      <4>1. a.surface # m.id
        BY <1>5, <2>0, <3>0, <3>3, LostIs DEF Freed
      <4>2. Without(a, m.id) = XdgAccount(a.surface, a.sent, a.acked)
        BY <2>0, <3>3, <4>1, XdgWithout
      <4>3. Without(a, m.id) = a
        BY <2>0, <3>3, <4>2 DEF IsXdgAccount
      <4> QED BY <2>4, <3>0, <4>3
    <3> QED BY <3>1, <3>2, <3>3
  <2>5. CASE x # m.arg.new /\ x # m.id /\ ~m.ends
    BY <2>0, <2>5 DEF Accounted
  <2> QED BY <2>1, <2>2, <2>3, <2>4, <2>5
<1> QED BY <1>1, <1>2, <1>5, <1>9

\* The compositor adds configures only.
LEMMA TellAccounts ==
    ASSUME Lives, Buffers, Accounts, Tell
    PROVE  Accounts'
<1>1. client' = client
  BY TellIs
<1>2. ASSUME NEW x \in Id
      PROVE  \/ account'[x] = account[x]
             \/ /\ account[x].kind = "xdg_surface"
                /\ account'[x] = XdgAccount(account[x].surface,
                                    Append(account[x].sent, Len(account[x].sent) + 1),
                                    account[x].acked)
  <2>1. PICK m : \A y \in Id :
           \/ account'[y] = account[y]
           \/ /\ account[y].kind = "xdg_surface"
              /\ m.arg.number = Len(account[y].sent) + 1
              /\ account'[y] = XdgAccount(account[y].surface,
                                  Append(account[y].sent, m.arg.number), account[y].acked)
    BY TellIs
  <2> QED BY <2>1
<1>3. ASSUME NEW x \in Id, account'[x] # account[x]
      PROVE  /\ account[x].kind = "xdg_surface" /\ account'[x].kind = "xdg_surface"
             /\ IsXdgAccount(account'[x]) /\ account'[x].surface = account[x].surface
  <2>1. PICK a, d : a = account[x] /\ d = account'[x]
    OBVIOUS
  <2>2. /\ a.kind = "xdg_surface" /\ IsXdgAccount(a)
        /\ d = XdgAccount(a.surface, Append(a.sent, Len(a.sent) + 1), a.acked)
    BY <1>2, <1>3, <2>1 DEF Accounts
  <2>3. /\ d.kind = "xdg_surface" /\ d.surface = a.surface /\ d.acked = a.acked
        /\ d.sent = Append(a.sent, Len(a.sent) + 1)
    BY <2>2 DEF XdgAccount
  <2>4. a.sent \in Seq(Nat) /\ Len(a.sent) \in Nat /\ a.acked \subseteq 1 .. Len(a.sent)
    BY <2>2 DEF IsXdgAccount
  <2>5. /\ d.sent \in Seq(Nat) /\ Len(d.sent) = Len(a.sent) + 1
        /\ \A k \in 1 .. Len(d.sent) : d.sent[k] = k
    <3>1. PICK t : t = a.sent
      OBVIOUS
    <3>2. t \in Seq(Nat) /\ Len(t) \in Nat /\ \A k \in 1 .. Len(t) : t[k] = k
      BY <2>2, <3>1 DEF IsXdgAccount
    <3>3. /\ Append(t, Len(t) + 1) \in Seq(Nat) /\ Len(Append(t, Len(t) + 1)) = Len(t) + 1
          /\ \A k \in 1 .. Len(t) : Append(t, Len(t) + 1)[k] = t[k]
          /\ Append(t, Len(t) + 1)[Len(t) + 1] = Len(t) + 1
      BY <3>2
    <3>4. \A k \in 1 .. Len(t) + 1 : k \in 1 .. Len(t) \/ k = Len(t) + 1
      BY <3>2
    <3>5. PICK u : u = Append(t, Len(t) + 1)
      OBVIOUS
    <3>6. \A k \in 1 .. Len(t) + 1 : u[k] = k
      BY <3>2, <3>3, <3>4, <3>5
    <3>7. d.sent = u
      BY <2>3, <3>1, <3>5
    <3> QED BY <3>1, <3>3, <3>5, <3>6, <3>7
  <2>6. d.acked \subseteq 1 .. Len(d.sent)
    BY <2>3, <2>4, <2>5
  <2>7. d = XdgAccount(d.surface, d.sent, d.acked)
    BY <2>2, <2>3
  <2> QED BY <2>1, <2>2, <2>3, <2>5, <2>6, <2>7 DEF IsXdgAccount
<1>4. ASSUME NEW x \in Id
      PROVE  account'[x] = account[x] \/
             (/\ account[x].kind = "xdg_surface" /\ account'[x].kind = "xdg_surface"
              /\ IsXdgAccount(account'[x]) /\ account'[x].surface = account[x].surface)
  BY <1>3
<1> QED BY <1>1, <1>4 DEF Accounts

\* The client loses none of these objects by an event.
LEMMA FreedStay ==
    ASSUME Lives, ClientTakes
    PROVE  \A x \in Id : /\ client[x] \in Freed => client'[x] = client[x]
                         /\ client'[x] \in Freed => client'[x] = client[x]
<1> DEFINE m == Head(Going)
<1>1. /\ Going # <<>> /\ IsEvent(m)
      /\ client' = [n \in Id |->
            IF n = m.arg.new THEN m.arg.made
            ELSE IF Releases(m, n) THEN "none"
            ELSE IF n = m.id /\ m.ends THEN "zombie" ELSE client[n]]
  BY ClientTakesDoes
<1>2. /\ m.arg.new \in ServerId \cup {0}
      /\ m.arg.new # 0 => m.arg.made \notin Freed
  BY <1>1, EventFacts, NotByEvents
<1>3. ASSUME NEW x \in Id, client[x] \in Freed
      PROVE  x \notin ServerId /\ ~Releases(m, x) /\ ~(x = m.id /\ m.ends)
  BY <1>1, <1>3, FreedSays, IdFacts
<1> HIDE DEF m
<1>4. "none" \notin Freed /\ "zombie" \notin Freed
  BY DEF Freed
<1> QED BY <1>1, <1>2, <1>3, <1>4, IdFacts

\* What comes to the client makes and ends nothing there is an account of.
LEMMA ClientTakesAccounts ==
    ASSUME Lives, Accounts, ClientTakes, account' = account
    PROVE  Accounts'
<1>1. \A x \in Id : /\ client[x] \in Freed => client'[x] = client[x]
                    /\ client'[x] \in Freed => client'[x] = client[x]
  BY FreedStay
<1>2. "buffer" \in Freed /\ "surface" \in Freed /\ ClientId \subseteq Id
  BY IdFacts DEF Freed
<1> QED BY <1>1, <1>2 DEF Accounts

LEMMA AccountsStay ==
    ASSUME Accounts, account' = account, client' = client
    PROVE  Accounts'
BY DEF Accounts

-----------------------------------------------------------------------------
(* How the account gets ahead of the record of a surface. *)

\* Behind message k of the requests q, x is not made any more; b is ended.
NotAgain(q, k, b) == \A j \in k + 1 .. Len(q) : q[j].arg.new # b

StillEnds(q, k, b) == \E j \in k + 1 .. Len(q) : q[j].id = b /\ q[j].ends

\* What request m makes of the account a of object x.
Step(a, x, m) == Accounted(a, x, m, Protocol[m.intf].requests)

\* t[k] is what the client said of the surface x up to message k of q, the first
\* t[0] being what wldbg knows of it.
Course(q, t, x) ==
    /\ \A k \in 1 .. Len(q) : t[k] = Step(t[k - 1], x, q[k])
    /\ \A k \in 0 .. Len(q) : IF NotAgain(q, k, x) THEN IsSurfaceAccount(t[k])
                              ELSE t[k] = NoRecord

\* What is behind message k when one more is written, ...
LEMMA BehindAppend ==
    ASSUME NEW q, IsSeq(q), NEW m, NEW k \in 0 .. Len(q), NEW b
    PROVE  /\ NotAgain(Append(q, m), k, b) <=> NotAgain(q, k, b) /\ m.arg.new # b
           /\ StillEnds(Append(q, m), k, b) <=> StillEnds(q, k, b) \/ (m.id = b /\ m.ends)
<1> DEFINE r == Append(q, m)
<1>1. /\ Len(r) = Len(q) + 1 /\ r[Len(q) + 1] = m
      /\ \A j \in 1 .. Len(q) : r[j] = q[j]
      /\ Len(q) \in Nat
  BY AppendIs, SeqIs
<1> HIDE DEF r
<1>2. /\ \A j \in k + 1 .. Len(r) : (j \in k + 1 .. Len(q) /\ r[j] = q[j]) \/ (j = Len(r) /\ r[j] = m)
      /\ \A j \in k + 1 .. Len(q) : j \in k + 1 .. Len(r) /\ r[j] = q[j]
      /\ Len(r) \in k + 1 .. Len(r) /\ r[Len(r)] = m
  BY <1>1
<1>3. NotAgain(r, k, b) <=> NotAgain(q, k, b) /\ m.arg.new # b
  BY <1>2 DEF NotAgain
<1>4. StillEnds(r, k, b) <=> StillEnds(q, k, b) \/ (m.id = b /\ m.ends)
  <2>1. ASSUME StillEnds(r, k, b) PROVE StillEnds(q, k, b) \/ (m.id = b /\ m.ends)
    BY <1>2, <2>1 DEF StillEnds
  <2>2. ASSUME StillEnds(q, k, b) \/ (m.id = b /\ m.ends) PROVE StillEnds(r, k, b)
    BY <1>2, <2>2 DEF StillEnds
  <2> QED BY <2>1, <2>2
<1> QED BY <1>3, <1>4 DEF r

\* ... and when the first is taken.
LEMMA BehindTail ==
    ASSUME NEW q, IsSeq(q), q # <<>>, NEW k \in 0 .. Len(q) - 1, NEW b
    PROVE  /\ NotAgain(Tail(q), k, b) <=> NotAgain(q, k + 1, b)
           /\ StillEnds(Tail(q), k, b) <=> StillEnds(q, k + 1, b)
<1> DEFINE r == Tail(q)
<1>1. /\ Len(q) \in Nat \ {0} /\ Len(r) = Len(q) - 1
      /\ \A j \in 1 .. Len(q) - 1 : r[j] = q[j + 1]
  BY TailIs
<1> HIDE DEF r
<1>2. /\ \A j \in k + 1 .. Len(r) : j + 1 \in k + 1 + 1 .. Len(q) /\ r[j] = q[j + 1]
      /\ \A j \in k + 1 + 1 .. Len(q) : j - 1 \in k + 1 .. Len(r) /\ r[j - 1] = q[j]
  BY <1>1
<1>3. NotAgain(r, k, b) <=> NotAgain(q, k + 1, b)
  <2>1. ASSUME NotAgain(r, k, b) PROVE NotAgain(q, k + 1, b)
    BY <1>2, <2>1 DEF NotAgain
  <2>2. ASSUME NotAgain(q, k + 1, b) PROVE NotAgain(r, k, b)
    BY <1>2, <2>2 DEF NotAgain
  <2> QED BY <2>1, <2>2
<1>4. StillEnds(r, k, b) <=> StillEnds(q, k + 1, b)
  <2>1. ASSUME StillEnds(r, k, b) PROVE StillEnds(q, k + 1, b)
    BY <1>2, <2>1 DEF StillEnds
  <2>2. ASSUME StillEnds(q, k + 1, b) PROVE StillEnds(r, k, b)
    BY <1>2, <2>2 DEF StillEnds
  <2> QED BY <2>1, <2>2
<1> QED BY <1>3, <1>4 DEF r

\* At the ends of the queue.
LEMMA BehindAll ==
    ASSUME NEW q, IsSeq(q), NEW b
    PROVE  /\ NotAgain(q, 0, b) <=> Unmade(Range(q), b)
           /\ NotAgain(q, Len(q), b) /\ ~StillEnds(q, Len(q), b)
           /\ \A k \in 0 .. Len(q) : StillEnds(q, k, b) => ~Lasting(Range(q), b)
           /\ \A k \in 0 .. Len(q) : Unmade(Range(q), b) => NotAgain(q, k, b)
<1>1. Len(q) \in Nat /\ Range(q) = {q[j] : j \in 1 .. Len(q)}
  BY SeqIs
<1>2. /\ \A k \in 0 .. Len(q) : \A j \in k + 1 .. Len(q) : j \in 1 .. Len(q)
      /\ \A j : j \notin Len(q) + 1 .. Len(q)
  BY <1>1
<1> QED BY <1>1, <1>2 DEF NotAgain, StillEnds, Unmade, Lasting

\* A request that is written prolongs the course, ...
LEMMA CourseAppend ==
    ASSUME NEW q, IsSeq(q), NEW m, NEW x, NEW t, Course(q, t, x), m.arg.new # x,
           NEW u, u = Step(t[Len(q)], x, m), IsSurfaceAccount(u),
           NEW s, s = [k \in 0 .. Len(q) + 1 |-> IF k = Len(q) + 1 THEN u ELSE t[k]]
    PROVE  Course(Append(q, m), s, x)
<1> DEFINE r == Append(q, m)
<1>1. /\ Len(r) = Len(q) + 1 /\ r[Len(q) + 1] = m /\ Len(q) \in Nat /\ IsSeq(r)
      /\ \A k \in 1 .. Len(q) : r[k] = q[k]
  BY AppendIs, SeqIs
<1>2. \A k \in 0 .. Len(q) : NotAgain(r, k, x) <=> NotAgain(q, k, x)
  BY BehindAppend
<1>3. NotAgain(r, Len(r), x)
  BY <1>1, BehindAll
<1> HIDE DEF r
<1>4. \A k \in 0 .. Len(q) : s[k] = t[k] /\ k # Len(q) + 1
  BY <1>1
<1>5. s[Len(q) + 1] = u
  BY <1>1
<1>6. ASSUME NEW k \in 1 .. Len(r) PROVE s[k] = Step(s[k - 1], x, r[k])
  <2>1. CASE k = Len(q) + 1
    <3>1. k - 1 = Len(q) /\ Len(q) \in 0 .. Len(q)
      BY <1>1, <2>1
    <3>2. s[k - 1] = t[Len(q)] /\ r[k] = m /\ s[k] = u
      BY <1>1, <1>4, <1>5, <2>1, <3>1
    <3> QED BY <3>2
  <2>2. CASE k \in 1 .. Len(q)
    <3>1. k \in 0 .. Len(q) /\ k - 1 \in 0 .. Len(q)
      BY <1>1, <2>2
    <3>2. s[k - 1] = t[k - 1] /\ s[k] = t[k] /\ r[k] = q[k]
      BY <1>1, <1>4, <2>2, <3>1
    <3> QED BY <2>2, <3>2 DEF Course
  <2> QED BY <1>1, <2>1, <2>2
<1>7. ASSUME NEW k \in 0 .. Len(r)
      PROVE  IF NotAgain(r, k, x) THEN IsSurfaceAccount(s[k]) ELSE s[k] = NoRecord
  <2>1. CASE k = Len(q) + 1
    BY <1>1, <1>3, <1>5, <2>1
  <2>2. CASE k \in 0 .. Len(q)
    BY <1>2, <1>4, <2>2 DEF Course
  <2> QED BY <1>1, <2>1, <2>2
<1>8. Course(r, s, x)
  BY <1>6, <1>7 DEF Course
<1> QED BY <1>8 DEF r

\* ... the one that is handled was its first step.
LEMMA CourseTail ==
    ASSUME NEW q, IsSeq(q), q # <<>>, NEW x, NEW t, Course(q, t, x),
           NEW s, s = [k \in 0 .. Len(q) - 1 |-> t[k + 1]]
    PROVE  Course(Tail(q), s, x)
<1> DEFINE r == Tail(q)
<1>1. /\ Len(q) \in Nat \ {0} /\ Len(r) = Len(q) - 1
      /\ \A j \in 1 .. Len(q) - 1 : r[j] = q[j + 1]
  BY TailIs
<1>2. \A k \in 0 .. Len(q) - 1 : NotAgain(r, k, x) <=> NotAgain(q, k + 1, x)
  BY BehindTail
<1> HIDE DEF r
<1>3. ASSUME NEW k \in 1 .. Len(r) PROVE s[k] = Step(s[k - 1], x, r[k])
  <2>1. /\ k \in 0 .. Len(q) - 1 /\ k - 1 \in 0 .. Len(q) - 1 /\ k - 1 + 1 = k
        /\ k + 1 \in 1 .. Len(q) /\ k + 1 - 1 = k /\ k \in 1 .. Len(q) - 1
    BY <1>1
  <2>2. s[k] = t[k + 1] /\ s[k - 1] = t[k] /\ r[k] = q[k + 1]
    BY <1>1, <2>1
  <2>3. t[k + 1] = Step(t[k], x, q[k + 1])
    BY <2>1 DEF Course
  <2> QED BY <2>2, <2>3
<1>4. ASSUME NEW k \in 0 .. Len(r)
      PROVE  IF NotAgain(r, k, x) THEN IsSurfaceAccount(s[k]) ELSE s[k] = NoRecord
  <2>1. k \in 0 .. Len(q) - 1 /\ k + 1 \in 0 .. Len(q)
    BY <1>1
  <2>2. s[k] = t[k + 1]
    BY <2>1
  <2> QED BY <1>2, <2>1, <2>2 DEF Course
<1>5. Course(r, s, x)
  BY <1>3, <1>4 DEF Course
<1> QED BY <1>5 DEF r

-----------------------------------------------------------------------------
(* Which messages change the record of a surface or an xdg_surface. *)

\* The records of surfaces and xdg_surfaces stay but for messages about them.
LEMMA RecordStays ==
    ASSUME Remembers, NEW which \in {"requests", "events"}, NEW m, Comes(m, which),
           Gather(m, which), NEW x \in Id, Kind(x) \in {"surface", "xdg_surface"},
           x # m.arg.new,
           NEW msg, msg = Protocol[m.intf][which][m.op]
    PROVE  \/ info'[x] = info[x]
           \/ x = m.id /\ which = "requests" /\ m.ends
           \/ /\ x = m.id /\ m.intf = Kind(x) /\ msg.name \in Changes[m.intf]
              /\ m.intf \in Loaded
              /\ info'[x] = Changed(info[x], msg.name, m, msg.sig)
<1>1. Lives /\ Naming /\ Shapes
  BY DEF Remembers
<1>2. CASE UNCHANGED <<info, fault>>
  BY <1>2
<1>3. CASE m.intf \in Loaded /\ Create(m, m.intf, msg.name, msg.sig)
  <2>1. info' = IF Passed(m) THEN info ELSE [info EXCEPT ![m.arg.new] = RecordOf(m)]
    BY <1>1, <1>3, CreateDoes
  <2> QED BY <2>1
<1>4. CASE m.intf \in Loaded /\ Change(m, m.intf, msg.name, msg.sig)
  <2> DEFINE other == Touched(m, msg.name, msg.sig) \ {m.id}
  <2>1. msg.name \in Changes[m.intf]
    BY <1>4 DEF Change
  <2>2. \/ UNCHANGED info
        \/ /\ info[m.id].kind = m.intf
           /\ \A id \in other : InfoGet(id).kind \in {"none", "buffer"}
           /\ info' = [id \in Id |->
                 IF id = m.id THEN Changed(info[id], msg.name, m, msg.sig)
                 ELSE IF id \in other /\ info[id] # NoRecord
                      THEN [info[id] EXCEPT !.released = FALSE]
                 ELSE info[id]]
    BY <1>4 DEF Change
  <2> HIDE DEF other
  <2>3. (\A id \in other : InfoGet(id).kind \in {"none", "buffer"}) => x \notin other
    BY DEF InfoGet, Kind
  <2> QED BY <1>4, <2>1, <2>2, <2>3 DEF Kind
<1>5. CASE m.intf \in Loaded /\ Free(m, m.intf, msg.name)
  <2>1. which = "requests" /\ m.ends /\ info' = [info EXCEPT ![m.id] = NoRecord]
    BY <1>1, <1>5, FreeDoes
  <2> QED BY <2>1
<1>6. CASE m.intf \in Loaded /\ Ignored(m, m.intf, msg.name)
  BY <1>6 DEF Ignored
<1> QED BY <1>1, <1>2, <1>3, <1>4, <1>5, <1>6, Gathers

\* A message about one that its handlers know changes it, unless it goes wrong.
LEMMA RecordChanges ==
    ASSUME Remembers, NEW which \in {"requests", "events"}, NEW m, Comes(m, which),
           Gather(m, which), fault' = "none", m.intf \in {"surface", "xdg_surface"},
           Kind(m.id) = m.intf,
           NEW msg, msg = Protocol[m.intf][which][m.op], msg.name \in Changes[m.intf]
    PROVE  /\ info'[m.id] = Changed(info[m.id], msg.name, m, msg.sig)
           /\ msg.name = "attach" =>
                 /\ ArgWord(msg.sig, m.data, 1) = m.arg.obj
                 /\ m.arg.obj \in Id \ {m.id} => Kind(m.arg.obj) \in {"none", "buffer"}
<1>1. Lives /\ Naming /\ m.id \in Id /\ m.intf \in Interface /\ m.op \in DOMAIN Protocol[m.intf][which]
  BY Understands DEF Remembers
<1>2. m.intf \in Loaded
  BY <1>1, ObjInfoAssumption DEF Handled, Freed
<1>3. msg.name # "destroy" /\ NewIdArg(m.intf, msg.name) = 0 /\ m.intf \in DOMAIN Changes
  BY DEF Changes, NewIdArg
<1>4. InfoGet(m.id) # NoRecord
  BY <1>1 DEF InfoGet, Kind, NoRecord
<1>5. Change(m, m.intf, msg.name, msg.sig)
  <2>1. ~Create(m, m.intf, msg.name, msg.sig)
    BY <1>3 DEF Create
  <2>2. ~Free(m, m.intf, msg.name)
    BY <1>3 DEF Free
  <2>3. ~Ignored(m, m.intf, msg.name)
    BY <1>3, <1>4 DEF Ignored
  <2> QED BY <1>1, <1>2, <2>1, <2>2, <2>3, Gathers
<1> DEFINE other == Touched(m, msg.name, msg.sig) \ {m.id}
<1>6. /\ \A id \in other : InfoGet(id).kind \in {"none", "buffer"}
      /\ info'[m.id] = Changed(info[m.id], msg.name, m, msg.sig)
  BY <1>1, <1>5 DEF Change
<1>7. ASSUME msg.name = "attach"
      PROVE  /\ ArgWord(msg.sig, m.data, 1) = m.arg.obj
             /\ m.arg.obj \in Id \ {m.id} => Kind(m.arg.obj) \in {"none", "buffer"}
  <2>1. m.intf = "surface"
    BY <1>7 DEF Changes
  <2>2. Takes(msg, 1, "o")
    BY <1>1, <1>7, <2>1, HandledSurface
  <2>3. ArgWord(msg.sig, m.data, 1) = m.arg.obj
    <3>1. ArgWord(msg.sig, m.data, 1) = Meant(m, "o")
      BY <1>1, <1>2, <2>2, Reads
    <3> QED BY <3>1 DEF Meant
  <2>4. m.arg.obj \in Id \ {m.id} => m.arg.obj \in other
    BY <1>7, <2>3 DEF Touched
  <2> QED BY <1>6, <2>3, <2>4 DEF InfoGet, Kind
<1> QED BY <1>6, <1>7

\* The request that makes one makes its record.
LEMMA RecordMade ==
    ASSUME Remembers, NEW m, Comes(m, "requests"), Gather(m, "requests"), m.arg.new # 0,
           m.arg.made \in {"surface", "xdg_surface"}
    PROVE  info'[m.arg.new] = IF m.arg.made = "surface" THEN NewSurface
                              ELSE NewXdgSurface(m.arg.obj)
<1>1. Lives /\ Naming /\ Shapes /\ IsRequest(m) /\ m.intf \in Interface
  BY Understands DEF Remembers
<1> DEFINE msg == Protocol[m.intf]["requests"][m.op]
<1>2. /\ NewIdArg(m.intf, msg.name) # 0
      /\ m.intf = IF m.arg.made = "surface" THEN "compositor" ELSE "shell"
  BY <1>1, MadeBy
<1>3. m.intf \in Loaded
  BY <1>1, NewObject DEF IsRequest
<1>4. Create(m, m.intf, msg.name, msg.sig)
  <2>1. ~Change(m, m.intf, msg.name, msg.sig)
    BY <1>2 DEF Change, Changes
  <2>2. ~Free(m, m.intf, msg.name)
    BY <1>2 DEF Free
  <2>3. ~Ignored(m, m.intf, msg.name)
    BY <1>2 DEF Ignored
  <2> QED BY <1>1, <1>3, <2>1, <2>2, <2>3, Gathers
<1>5. /\ info' = IF Passed(m) THEN info ELSE [info EXCEPT ![m.arg.new] = RecordOf(m)]
      /\ m.arg.new \in ClientId
  BY <1>1, <1>3, <1>4, CreateDoes
<1>6. ~Passed(m) /\ m.arg.new \in Id /\ DOMAIN info = Id
  BY <1>1, <1>2, <1>5, IdFacts DEF Passed, Shapes
<1> QED BY <1>2, <1>5, <1>6 DEF RecordOf

-----------------------------------------------------------------------------
(* The records of surfaces. *)

\* A buffer that is named where message k of the requests has been passed on: it has
\* been made, and if the client has destroyed it since, by a request behind.
Stands(k, b) ==
    b \in ClientId /\ NotAgain(Here, k, b) /\ (client[b] = "buffer" \/ StillEnds(Here, k, b))

\* The record of the surface x says what t has at first, and the requests on their
\* way to wldbg make of it what the client says of x now.
Tracks(t, x) ==
    /\ Course(Here, t, x) /\ t[Len(Here)] = account[x]
    /\ \A k \in 0 .. Len(Here) :
          NotAgain(Here, k, x) => \A b \in Names(t[k]) : Stands(k, b)
    /\ NotAgain(Here, 0, x) =>
          /\ Depicts(info[x], t[0])
          /\ \A b \in Names(t[0]) : Kind(b) \in {"none", "buffer"}

Surfaces == \A x \in Id : account[x].kind = "surface" => \E t : Tracks(t, x)

\* A step that leaves the requests and the record of x leaves its course.
LEMMA TracksStay ==
    ASSUME NEW t, NEW x \in Id, Tracks(t, x), IsSeq(Here), Here' = Here, info'[x] = info[x],
           \A b \in Id : Kind(b)' = Kind(b), account'[x] = account[x],
           \A b \in Id : client[b] = "buffer" => client'[b] = "buffer"
    PROVE  Tracks(t, x)'
<1>1. \A k, b : Stands(k, b) => Stands(k, b)'
  <2> SUFFICES ASSUME NEW k, NEW b, Stands(k, b) PROVE Stands(k, b)'
    OBVIOUS
  <2>1. b \in Id
    BY IdFacts DEF Stands
  <2> QED BY <2>1 DEF Stands
<1>2. NotAgain(Here, 0, x) => \A b \in Names(t[0]) : b \in Id
  <2>1. 0 \in 0 .. Len(Here)
    BY SeqIs
  <2> QED BY <2>1, IdFacts DEF Tracks, Stands
<1> QED BY <1>1, <1>2 DEF Tracks

\* The client's next request brings every course to the account behind it.
LEMMA AskSurfaces ==
    ASSUME Remembers, Accounts, Accounts', Surfaces, Ask
    PROVE  Surfaces'
<1>1. Lives /\ Buffers /\ IsSeq(Here)
  BY DEF Remembers, Lives, Queues
<1>2. PICK m :
              /\ IsRequest(m) /\ m.id \in Id
              /\ m.arg.new # 0 =>
                    /\ m.arg.new \in ClientId /\ m.arg.new \in Id /\ Unused(m.arg.new)
                    /\ client[m.arg.new] = "none" /\ m.arg.new # m.id
              /\ Here' = Append(Here, m) /\ info' = info
              /\ client' = [n \in Id |->
                    IF n = m.arg.new THEN m.arg.made
                    ELSE IF n = m.id /\ m.ends
                         THEN IF n \in ClientId THEN "zombie" ELSE "none"
                         ELSE client[n]]
              /\ \A x \in Id :
                    account'[x] = Accounted(account[x], x, m, Protocol[m.intf].requests)
  BY <1>1, AskIs
<1>3. /\ Len(Here) \in Nat /\ Len(Here') = Len(Here) + 1 /\ IsSeq(Here')
      /\ Here'[Len(Here) + 1] = m /\ \A k \in 1 .. Len(Here) : Here'[k] = Here[k]
  BY <1>1, <1>2, AppendIs, SeqIs
<1>4. ASSUME NEW k \in 0 .. Len(Here), NEW b
      PROVE  /\ NotAgain(Here', k, b) <=> NotAgain(Here, k, b) /\ m.arg.new # b
             /\ StillEnds(Here', k, b) <=> StillEnds(Here, k, b) \/ (m.id = b /\ m.ends)
  BY <1>1, <1>2, BehindAppend
<1>5. ASSUME NEW k \in 0 .. Len(Here), NEW b, Stands(k, b)
      PROVE  Stands(k, b)'
  <2>1. b \in ClientId /\ b \in Id /\ b # 0
    BY <1>5, IdFacts DEF Stands
  <2>2. b # m.arg.new
    <3> SUFFICES ASSUME b = m.arg.new PROVE FALSE
      OBVIOUS
    <3>1. client[b] = "none" /\ Unused(b)
      BY <1>2, <2>1
    <3>2. StillEnds(Here, k, b)
      BY <1>5, <3>1 DEF Stands
    <3>3. ~Lasting(Range(Here), b)
      BY <1>1, <3>2, BehindAll
    <3> QED BY <3>1, <3>3 DEF Unused, Unasked, Silent, Lasting
  <2>3. NotAgain(Here', k, b)
    BY <1>4, <1>5, <2>2 DEF Stands
  <2>4. CASE StillEnds(Here, k, b) \/ (m.id = b /\ m.ends)
    BY <1>4, <2>1, <2>3, <2>4 DEF Stands
  <2>5. CASE client[b] = "buffer" /\ ~(m.id = b /\ m.ends)
    <3>1. client'[b] = "buffer"
      BY <1>2, <2>1, <2>2, <2>5
    <3> QED BY <2>1, <2>3, <3>1 DEF Stands
  <2> QED BY <1>5, <2>4, <2>5 DEF Stands
<1>0. PICK n : n = Len(Here)
  OBVIOUS
<1>6. ASSUME NEW x \in Id, account'[x].kind = "surface"
      PROVE  \E t : Tracks(t, x)'
  <2>1. /\ IsSurfaceAccount(account'[x])
        /\ \A b \in Names(account'[x]) : b \in ClientId /\ client'[b] = "buffer"
    BY <1>0, <1>6 DEF Accounts
  <2>2. \A b \in Names(account'[x]) : Stands(n + 1, b)'
    <3>1. \A b : NotAgain(Here', n + 1, b)
      BY <1>0, <1>3, BehindAll
    <3> QED BY <1>0, <2>1, <3>1 DEF Stands
  <2>3. account'[x] = Accounted(account[x], x, m, Protocol[m.intf].requests)
    BY <1>0, <1>2
  <2>4. CASE x = m.arg.new
    <3> DEFINE t == [k \in 0 .. n + 1 |-> IF k = n + 1 THEN account'[x] ELSE NoRecord]
    <3>1. Unused(x)
      BY <1>0, <1>2, <2>4, IdFacts
    <3>2. \A k \in 1 .. n : Here[k].id # x /\ Here[k].arg.new # x
      BY <1>0, <1>1, <3>1, SeqIs DEF Unused, Unasked, Silent, Unmade
    <3>3. \A k \in 0 .. n : t[k] = NoRecord /\ ~NotAgain(Here', k, x)
      BY <1>0, <1>3, <1>4, <2>4
    <3>4. t[n + 1] = account'[x] /\ NotAgain(Here', n + 1, x)
      BY <1>0, <1>3, BehindAll
    <3> HIDE DEF t
    <3>5. ASSUME NEW k \in 1 .. n + 1 PROVE t[k] = Step(t[k - 1], x, Here'[k])
      <4>1. CASE k = n + 1
        <5>1. Made(m) = account'[x]
          BY <1>0, <2>3, <2>4 DEF Accounted
        <5> QED BY <1>0, <1>3, <2>4, <3>4, <4>1, <5>1 DEF Step, Accounted
      <4>2. CASE k \in 1 .. n
        <5>1. t[k] = NoRecord /\ t[k - 1] = NoRecord
          BY <1>0, <1>3, <3>3, <4>2
        <5>2. Here'[k] = Here[k] /\ Here[k].id # x /\ Here[k].arg.new # x
          BY <1>0, <1>3, <3>2, <4>2
        <5>3. \A id : Without(NoRecord, id) = NoRecord
          BY NothingSaid
        <5> QED BY <5>1, <5>2, <5>3 DEF Step, Accounted
      <4> QED BY <1>0, <1>3, <4>1, <4>2
    <3>6. ASSUME NEW k \in 0 .. n + 1
          PROVE  IF NotAgain(Here', k, x)
                 THEN IsSurfaceAccount(t[k]) /\ \A b \in Names(t[k]) : Stands(k, b)'
                 ELSE t[k] = NoRecord
      <4>1. CASE k = n + 1
        BY <1>0, <2>1, <2>2, <3>4, <4>1
      <4>2. CASE k \in 0 .. n
        BY <1>0, <3>3, <4>2
      <4> QED BY <1>0, <1>3, <4>1, <4>2
    <3>7. Course(Here', t, x)
      BY <1>0, <1>3, <3>5, <3>6 DEF Course
    <3>8. ~NotAgain(Here', 0, x)
      BY <1>0, <1>3, <3>3
    <3>9. PICK s : s = t
      OBVIOUS
    <3>10. Tracks(s, x)'
      BY <1>0, <1>3, <3>4, <3>6, <3>7, <3>8, <3>9 DEF Tracks
    <3> QED BY <1>0, <3>10
  <2>5. CASE x # m.arg.new
    <3>0. PICK a : a = account[x]
      OBVIOUS
    <3>1. a.kind = "surface" /\ IsSurfaceAccount(a)
      <4>1. IsAccount(a)
        BY <1>0, <1>1, <3>0 DEF Buffers
      <4>2. NoRecord.kind = "none"
        BY DEF NoRecord
      <4>3. \/ account'[x] = NoRecord
            \/ account'[x] = Said(a, m, Protocol[m.intf].requests[m.op].name)
            \/ account'[x] = Without(a, m.id)
            \/ account'[x] = a
        BY <1>0, <2>3, <2>5, <3>0 DEF Accounted
      <4>4. a.kind = "surface"
        BY <1>0, <1>6, <4>1, <4>2, <4>3, SaidIs
      <4> QED BY <1>0, <3>0, <4>4 DEF Accounts
    <3>2. PICK t : Tracks(t, x)
      BY <1>0, <3>0, <3>1 DEF Surfaces
    <3>3. PICK u : u = account'[x]
      OBVIOUS
    <3>4. u = Step(t[n], x, m) /\ IsSurfaceAccount(u)
      BY <1>0, <2>1, <2>3, <3>2, <3>3 DEF Tracks, Step
    <3>5. PICK s : s = [k \in 0 .. n + 1 |-> IF k = n + 1 THEN u ELSE t[k]]
      OBVIOUS
    <3>6. Course(Here', s, x)
      BY <1>0, <1>1, <1>2, <2>5, <3>2, <3>4, <3>5, CourseAppend DEF Tracks
    <3>7. s[n + 1] = u /\ \A k \in 0 .. n : s[k] = t[k]
      BY <1>0, <1>3, <3>5
    <3>8. ASSUME NEW k \in 0 .. n + 1, NotAgain(Here', k, x)
          PROVE  \A b \in Names(s[k]) : Stands(k, b)'
      <4>1. CASE k = n + 1
        BY <1>0, <2>2, <3>3, <3>7, <4>1
      <4>2. CASE k \in 0 .. n
        BY <1>0, <1>4, <1>5, <3>2, <3>7, <3>8, <4>2 DEF Tracks
      <4> QED BY <1>0, <1>3, <4>1, <4>2
    <3>9. NotAgain(Here', 0, x) => /\ Depicts(info'[x], s[0])
                                   /\ \A b \in Names(s[0]) : Kind(b)' \in {"none", "buffer"}
      <4>1. 0 \in 0 .. n
        BY <1>0, <1>3
      <4> QED BY <1>0, <1>2, <1>4, <3>2, <3>7, <4>1 DEF Tracks, Kind
    <3>10. Tracks(s, x)'
      BY <1>0, <1>3, <3>3, <3>6, <3>7, <3>8, <3>9 DEF Tracks
    <3> QED BY <1>0, <3>10
  <2> QED BY <1>0, <2>4, <2>5
<1> QED BY <1>0, <1>6 DEF Surfaces

\* A surface that nothing on its way to wldbg makes has its record.
LEMMA SurfaceFound ==
    ASSUME Remembers, Accounts, NEW x \in Id, account[x].kind \in {"surface", "xdg_surface"},
           Unmade(Range(Here), x)
    PROVE  /\ client[x] = account[x].kind /\ Kind(x) = client[x] /\ x \in ClientId
           /\ client[x] \in Freed /\ client[x] \notin NoObject
           /\ client[x] = "surface" => IsSurface(info[x])
           /\ client[x] = "xdg_surface" => IsXdgSurface(info[x])
<1>1. client[x] = account[x].kind /\ x \in ClientId
  BY DEF Accounts
<1>2. client[x] \in Freed /\ client[x] \notin NoObject
  BY <1>1 DEF Freed, NoObject
<1>3. Kind(x) = client[x]
  BY <1>1, <1>2 DEF Remembers, Records, Fit
<1>4. IsRecord(info[x])
  BY DEF Remembers, Shapes
<1>5. /\ client[x] = "surface" => IsSurface(info[x])
      /\ client[x] = "xdg_surface" => IsXdgSurface(info[x])
  BY <1>3, <1>4, RecordKinds DEF Kind
<1> QED BY <1>1, <1>2, <1>3, <1>5

\* Events change no record of a surface.
LEMMA PassInSurfaces ==
    ASSUME Remembers, Accounts, Surfaces, PassIn
    PROVE  Surfaces'
<1>1. Lives /\ Naming /\ Shapes /\ IsSeq(Here) /\ ResolveIn /\ account' = account
  BY DEF Remembers, Lives, Queues, PassIn
<1>2. PICK m : Comes(m, "events") /\ Gather(m, "events")
  BY <1>1, ResolveInDoes DEF PassIn, Comes, Arriving, Coming
<1>3. /\ IsEvent(m) /\ m.id \in Id /\ m.intf \in Interface
      /\ m.op \in DOMAIN Protocol[m.intf]["events"]
      /\ Here' = Here /\ client' = client
  BY <1>1, <1>2, Understands, ResolveInDoes
<1>4. m.arg.new \notin ClientId
  BY <1>3, EventFacts, IdFacts
<1>5. \A x \in Id : Kind(x)' = Kind(x)
  BY <1>1, <1>2, <1>3, GatherKinds
<1>6. ASSUME NEW x \in Id, account[x].kind = "surface" PROVE \E t : Tracks(t, x)'
  <2>1. PICK t : Tracks(t, x)
    BY <1>6 DEF Surfaces
  <2>2. CASE NotAgain(Here, 0, x)
    <3>1. Unmade(Range(Here), x)
      BY <1>1, <2>2, BehindAll
    <3>2. x \in ClientId /\ Kind(x) = "surface"
      BY <1>6, <3>1, SurfaceFound
    <3>3. info'[x] = info[x]
      <4>1. PICK msg : msg = Protocol[m.intf]["events"][m.op]
        OBVIOUS
      <4>2. m.intf = "surface" => msg.name \notin Changes[m.intf]
        BY <1>3, <4>1, HandledSurface
      <4> QED BY <1>2, <1>4, <3>2, <4>1, <4>2, RecordStays
    <3>4. Tracks(t, x)'
      BY <1>1, <1>3, <1>5, <2>1, <3>3, TracksStay
    <3> QED BY <3>4
  <2>3. CASE ~NotAgain(Here, 0, x)
    <3>1. \A k, b : Stands(k, b)' <=> Stands(k, b)
      BY <1>3 DEF Stands
    <3>2. Tracks(t, x)'
      BY <1>1, <1>3, <2>1, <2>3, <3>1 DEF Tracks
    <3> QED BY <3>2
  <2> QED BY <2>2, <2>3
<1> QED BY <1>1, <1>6 DEF Surfaces

LEMMA TellSurfaces ==
    ASSUME Lives, Buffers, Accounts, Surfaces, Tell
    PROVE  Surfaces'
<1>1. /\ Here' = Here /\ client' = client /\ info' = info
      /\ \A x \in Id :
            \/ account'[x] = account[x]
            \/ /\ account[x].kind = "xdg_surface"
               /\ account'[x] = XdgAccount(account[x].surface,
                                   Append(account[x].sent, Len(account[x].sent) + 1),
                                   account[x].acked)
  <2>1. PICK m :
           /\ Here' = Here /\ client' = client /\ info' = info
           /\ \A y \in Id :
              \/ account'[y] = account[y]
              \/ /\ account[y].kind = "xdg_surface"
                 /\ m.arg.number = Len(account[y].sent) + 1
                 /\ account'[y] = XdgAccount(account[y].surface,
                                     Append(account[y].sent, m.arg.number), account[y].acked)
    BY TellIs
  <2> QED BY <2>1
<1>2. ASSUME NEW x \in Id, account'[x].kind = "surface" PROVE account'[x] = account[x]
  <2>1. \A s, t, k : XdgAccount(s, t, k).kind = "xdg_surface"
    BY DEF XdgAccount
  <2> QED BY <1>1, <1>2, <2>1
<1>3. ASSUME NEW x \in Id, account'[x].kind = "surface" PROVE \E t : Tracks(t, x)'
  <2>1. PICK t : Tracks(t, x)
    BY <1>2, <1>3 DEF Surfaces
  <2>2. IsSeq(Here) /\ \A b \in Id : Kind(b)' = Kind(b)
    BY <1>1 DEF Lives, Queues, Kind
  <2>3. Tracks(t, x)'
    BY <1>1, <1>2, <1>3, <2>1, <2>2, TracksStay
  <2> QED BY <2>3
<1> QED BY <1>3 DEF Surfaces

LEMMA TakeSurfaces ==
    ASSUME Lives, Surfaces, ServerTakes \/ ClientTakes, UNCHANGED <<info, account>>
    PROVE  Surfaces'
<1>1. /\ Here' = Here
      /\ \A b \in Id : client[b] = "buffer" => client'[b] = "buffer"
  BY ServerTakesDoes, ClientTakesDoes, FreedStay DEF Freed
<1>2. ASSUME NEW x \in Id, account'[x].kind = "surface" PROVE \E t : Tracks(t, x)'
  <2>1. PICK t : Tracks(t, x)
    BY <1>2 DEF Surfaces
  <2>2. IsSeq(Here) /\ \A b \in Id : Kind(b)' = Kind(b)
    BY DEF Lives, Queues, Kind
  <2>3. Tracks(t, x)'
    BY <1>1, <2>1, <2>2, TracksStay
  <2> QED BY <2>3
<1> QED BY <1>2 DEF Surfaces

LEMMA StutterSurfaces ==
    ASSUME Lives, Surfaces, UNCHANGED <<vars, info, account>>
    PROVE  Surfaces'
<1>1. Here' = Here /\ client' = client
  BY DEF Here, vars, ways
<1>2. ASSUME NEW x \in Id, account'[x].kind = "surface" PROVE \E t : Tracks(t, x)'
  <2>1. PICK t : Tracks(t, x)
    BY <1>2 DEF Surfaces
  <2>2. IsSeq(Here) /\ \A b \in Id : Kind(b)' = Kind(b)
    BY DEF Lives, Queues, Kind
  <2>3. Tracks(t, x)'
    BY <1>1, <2>1, <2>2, TracksStay
  <2> QED BY <2>3
<1> QED BY <1>2 DEF Surfaces

\* The first request brings the record to what the client said with it.
LEMMA PassOutDepicts ==
    ASSUME Remembers, Accounts, NEW m, Comes(m, "requests"), Gather(m, "requests"),
           fault' = "none", NEW x \in Id, account[x].kind = "surface",
           Unmade(Range(Here), x), NEW a, IsSurfaceAccount(a), Depicts(info[x], a),
           \A b \in Names(a) : Kind(b) \in {"none", "buffer"} /\ b \in Id /\ b # m.arg.new
    PROVE  /\ Depicts(info'[x], Step(a, x, m))
           /\ \A b \in Names(Step(a, x, m)) : Kind(b)' \in {"none", "buffer"}
<1>1. Lives /\ Naming /\ Shapes
  BY DEF Remembers
<1>2. /\ Here # <<>> /\ m \in Range(Here) /\ IsRequest(m) /\ m.id \in Id /\ m.intf \in Interface
      /\ m.op \in DOMAIN Protocol[m.intf]["requests"]
  BY <1>1, Understands DEF Arriving, Here
<1>3. /\ client[x] = "surface" /\ x \in ClientId /\ Kind(x) = "surface" /\ IsSurface(info[x])
  BY SurfaceFound
<1>4. x # m.arg.new
  BY <1>2 DEF Unmade
<1>5. Saying(Range(Here), x, "surface") /\ Lasting(Range(Here), x)
  BY <1>1, <1>3, FreedSays DEF Freed
<1>6. x = m.id => m.intf = "surface" /\ ~m.ends
  BY <1>2, <1>5 DEF Saying, Lasting
<1>7. PICK msg : msg = Protocol[m.intf]["requests"][m.op]
  OBVIOUS
<1>8. ASSUME NEW b \in Id, Kind(b) \in {"none", "buffer"}, b # m.arg.new
      PROVE  Kind(b)' \in {"none", "buffer"}
  BY <1>1, <1>8, GatherKinds
<1>9. CASE x = m.id /\ msg.name \in Changes[m.intf]
  <2>0. PICK w : w = msg.name
    OBVIOUS
  <2>1. /\ info'[x] = Changed(info[x], w, m, msg.sig)
        /\ w = "attach" =>
              /\ ArgWord(msg.sig, m.data, 1) = m.arg.obj
              /\ m.arg.obj \in Id \ {x} => Kind(m.arg.obj) \in {"none", "buffer"}
    BY <1>3, <1>6, <1>7, <1>9, <2>0, RecordChanges
  <2>2. Step(a, x, m) = Said(a, m, w)
    BY <1>4, <1>6, <1>7, <1>9, <2>0 DEF Step, Accounted
  <2>3. w \in Changes.surface
    BY <1>6, <1>9, <2>0
  <2>4. Depicts(Changed(info[x], w, m, msg.sig), Said(a, m, w))
    BY <1>3, <2>1, <2>3, DepictsSaid
  <2>5. /\ w # "attach" => Names(Said(a, m, w)) \subseteq Names(a)
        /\ Names(Said(a, m, w)) \subseteq Names(a) \cup {m.arg.obj}
        /\ 0 \notin Names(Said(a, m, w))
    BY <1>2, SurfaceSaidIs
  <2>6. ASSUME w = "attach", m.arg.obj # 0
        PROVE  m.arg.obj \in Id /\ m.arg.obj # x /\ m.arg.obj # m.arg.new
    <3>1. m.arg.obj \in Id /\ OutOwn(m) /\ NamesOut(m)
      BY <1>1, <1>2, <2>6, RequestNames DEF Naming
    <3>2. TakenFor(m, "requests") = "buffer"
      BY <1>2, <1>6, <1>7, <1>9, <2>0, <2>6, HandledSurface DEF TakenFor
    <3>3. m.arg.obj # x
      BY <1>3, <2>6, <3>1, <3>2 DEF NamesOut, NoObject
    <3> QED BY <2>6, <3>1, <3>3 DEF OutOwn
  <2>7. ASSUME NEW b \in Names(Said(a, m, w)) PROVE Kind(b)' \in {"none", "buffer"}
    <3>1. CASE b \in Names(a)
      BY <1>8, <3>1
    <3>2. CASE b \notin Names(a)
      <4>1. w = "attach" /\ b = m.arg.obj /\ b # 0
        BY <2>5, <2>7, <3>2
      <4> QED BY <1>8, <2>1, <2>6, <4>1
    <3> QED BY <3>1, <3>2
  <2> QED BY <2>1, <2>2, <2>4, <2>7
<1>10. CASE ~(x = m.id /\ msg.name \in Changes[m.intf])
  <2>0. PICK w : w = msg.name
    OBVIOUS
  <2>1. info'[x] = info[x]
    BY <1>3, <1>4, <1>6, <1>7, <1>10, RecordStays
  <2>2. Step(a, x, m) = a \/ Step(a, x, m) = Without(a, m.id)
    <3>1. CASE x = m.id
      <4>1. w \notin {"attach", "commit"}
        BY <1>6, <1>10, <2>0, <3>1 DEF Changes
      <4>2. Said(a, m, w) = a
        BY <1>2, <4>1, SurfaceKeeps
      <4> QED BY <1>4, <1>6, <1>7, <2>0, <3>1, <4>2 DEF Step, Accounted
    <3>2. CASE x # m.id
      BY <1>4, <3>2 DEF Step, Accounted
    <3> QED BY <3>1, <3>2
  <2>3. Depicts(info[x], Without(a, m.id)) /\ Names(Without(a, m.id)) \subseteq Names(a)
    <3>1. m.id \in Id
      BY <1>2
    <3>2. Depicts(info[x], Without(a, m.id))
      BY <1>2, <3>1, DepictsWithout
    <3>3. Names(Without(a, m.id)) \subseteq Names(a)
      BY <1>2, <3>1, SurfaceLeft
    <3> QED BY <3>2, <3>3
  <2>4. \A b \in Names(a) : Kind(b)' \in {"none", "buffer"}
    BY <1>8
  <2>5. PICK d : d = Step(a, x, m)
    OBVIOUS
  <2>6. Depicts(info[x], d) /\ Names(d) \subseteq Names(a)
    BY <2>2, <2>3, <2>5
  <2> QED BY <2>1, <2>4, <2>5, <2>6
<1> QED BY <1>9, <1>10

\* The record takes the first step of its course.
LEMMA PassOutSurfaces ==
    ASSUME Remembers, Accounts, Surfaces, PassOut, fault' = "none"
    PROVE  Surfaces'
<1>1. Lives /\ IsSeq(Here) /\ ResolveOut /\ account' = account
  BY DEF Remembers, Lives, Queues, PassOut
<1>2. PICK m : Comes(m, "requests") /\ Gather(m, "requests")
  <2>1. Here # <<>>
    BY <1>1, ResolveOutDoes
  <2> QED BY <2>1 DEF PassOut, Comes, Arriving, Here
<1>3. /\ Here # <<>> /\ m = Head(Here) /\ m = Here[1] /\ IsRequest(m)
      /\ Here' = Tail(Here) /\ client' = client
  BY <1>1, <1>2, Understands, ResolveOutDoes, TailIs
<1>4. Len(Here) \in Nat \ {0} /\ Len(Here') = Len(Here) - 1
  BY <1>1, <1>3, TailIs
<1>0. PICK n : n = Len(Here)
  OBVIOUS
<1>5. ASSUME NEW k \in 0 .. n - 1, NEW b
      PROVE  /\ NotAgain(Here', k, b) <=> NotAgain(Here, k + 1, b)
             /\ Stands(k + 1, b) => Stands(k, b)'
  <2>1. /\ NotAgain(Here', k, b) <=> NotAgain(Here, k + 1, b)
        /\ StillEnds(Here', k, b) <=> StillEnds(Here, k + 1, b)
    BY <1>0, <1>1, <1>3, BehindTail
  <2> QED BY <1>3, <2>1 DEF Stands
<1>6. ASSUME NEW x \in Id, account[x].kind = "surface" PROVE \E t : Tracks(t, x)'
  <2>1. PICK t : Tracks(t, x)
    BY <1>6 DEF Surfaces
  <2>2. PICK s : s = [k \in 0 .. n - 1 |-> t[k + 1]]
    OBVIOUS
  <2>3. Course(Here', s, x)
    BY <1>0, <1>1, <1>3, <2>1, <2>2, CourseTail DEF Tracks
  <2>4. \A k \in 0 .. n - 1 : s[k] = t[k + 1] /\ k + 1 \in 0 .. n
    BY <1>0, <1>4, <2>2
  <2>5. s[n - 1] = account'[x]
    <3>1. n - 1 \in 0 .. n - 1 /\ n - 1 + 1 = n
      BY <1>0, <1>4
    <3> QED BY <1>0, <1>1, <2>1, <2>4, <3>1 DEF Tracks
  <2>6. ASSUME NEW k \in 0 .. n - 1, NotAgain(Here', k, x)
        PROVE  \A b \in Names(s[k]) : Stands(k, b)'
    BY <1>0, <1>5, <2>1, <2>4, <2>6 DEF Tracks
  <2>7. ASSUME NotAgain(Here', 0, x)
        PROVE  /\ Depicts(info'[x], s[0])
               /\ \A b \in Names(s[0]) : Kind(b)' \in {"none", "buffer"}
    <3>1. 0 \in 0 .. n - 1 /\ 0 + 1 = 1 /\ 1 \in 1 .. n /\ 1 - 1 = 0 /\ 0 \in 0 .. n /\ 1 \in 0 .. n
      BY <1>0, <1>4
    <3>2. NotAgain(Here, 1, x) /\ s[0] = t[1] /\ t[1] = Step(t[0], x, m)
      BY <1>0, <1>3, <1>5, <2>1, <2>4, <2>7, <3>1 DEF Tracks, Course
    <3>3. IsSurfaceAccount(t[1])
      BY <1>0, <2>1, <3>1, <3>2 DEF Tracks, Course
    <3>4. CASE x = m.arg.new
      <4>1. PICK d : d = t[1]
        OBVIOUS
      <4>2. d = Made(m) /\ d.kind = "surface"
        BY <3>2, <3>3, <3>4, <4>1, SurfaceFields DEF Step, Accounted
      <4>3. m.arg.made = "surface"
        <5>1. NoRecord.kind = "none"
          BY DEF NoRecord
        <5> QED BY <4>2, <5>1 DEF Made
      <4>4. d = SurfaceAccount({}, FALSE, FALSE, 0)
        BY <4>2, <4>3 DEF Made, SurfaceAccount
      <4>5. Depicts(NewSurface, d) /\ Names(d) = {}
        BY <4>4, DepictsNew
      <4>6. info'[x] = NewSurface
        BY <1>2, <3>4, <4>3, IdFacts, RecordMade
      <4> QED BY <3>2, <4>1, <4>5, <4>6
    <3>5. CASE x # m.arg.new
      <4>1. NotAgain(Here, 0, x)
        <5>1. \A j \in 0 + 1 .. n : j = 1 \/ j \in 1 + 1 .. n
          BY <1>0, <1>4
        <5> QED BY <1>0, <1>3, <3>2, <3>5, <5>1 DEF NotAgain
      <4>2. PICK a : a = t[0]
        OBVIOUS
      <4>3. IsSurfaceAccount(a) /\ Depicts(info[x], a)
        BY <1>0, <2>1, <3>1, <4>1, <4>2 DEF Tracks, Course
      <4>4. \A b \in Names(a) : Kind(b) \in {"none", "buffer"} /\ Stands(0, b)
        BY <1>0, <2>1, <3>1, <4>1, <4>2 DEF Tracks
      <4>5. \A b \in Names(a) : b \in Id /\ b # m.arg.new
        <5>1. \A b \in Names(a) : b \in Id /\ NotAgain(Here, 0, b)
          BY <4>4, IdFacts DEF Stands
        <5>2. 1 \in 0 + 1 .. Len(Here)
          BY <1>4
        <5> QED BY <1>3, <5>1, <5>2 DEF NotAgain
      <4>6. Unmade(Range(Here), x)
        BY <1>1, <4>1, BehindAll
      <4>7. /\ Depicts(info'[x], Step(a, x, m))
            /\ \A b \in Names(Step(a, x, m)) : Kind(b)' \in {"none", "buffer"}
        BY <1>2, <1>6, <4>3, <4>4, <4>5, <4>6, PassOutDepicts
      <4> QED BY <3>2, <4>2, <4>7
    <3> QED BY <3>4, <3>5
  <2>8. Tracks(s, x)'
    BY <1>0, <1>4, <2>3, <2>5, <2>6, <2>7 DEF Tracks
  <2> QED BY <2>8
<1> QED BY <1>1, <1>6 DEF Surfaces

-----------------------------------------------------------------------------
(* The configures that an xdg_surface keeps. *)

\* The last of n configures that was put in place i.
Latest(n, i) == n - ((n - 1 - i) % Configures)

\* What a remainder is when the number goes up by one.
LEMMA RemainderNext ==
    ASSUME NEW c \in Nat \ {0}, NEW n \in Int
    PROVE  /\ n % c \in 0 .. c - 1
           /\ (n + 1) % c = IF n % c = c - 1 THEN 0 ELSE (n % c) + 1
<1>1. n % c \in 0 .. c - 1 /\ n = c * (n \div c) + (n % c) /\ n \div c \in Int
  BY Z3
<1>2. PICK q \in Int, r \in 0 .. c - 1 : q = n \div c /\ r = n % c /\ n = c * q + r
  BY <1>1
<1>3. \A p \in Int, s \in 0 .. c - 1 : (c * p + s) % c = s
  BY Z3
<1>4. CASE r = c - 1
  <2>1. n + 1 = c * (q + 1) + 0
    BY <1>2, <1>4, Z3
  <2>2. (c * (q + 1) + 0) % c = 0
    BY <1>3
  <2> QED BY <1>1, <1>2, <1>4, <2>1, <2>2
<1>5. CASE r # c - 1
  <2>1. n + 1 = c * q + (r + 1) /\ r + 1 \in 0 .. c - 1
    BY <1>2, <1>5, Z3
  <2>2. (c * q + (r + 1)) % c = r + 1
    BY <1>3, <2>1
  <2> QED BY <1>1, <1>2, <1>5, <2>1, <2>2
<1> QED BY <1>4, <1>5

LEMMA RemainderIs ==
    ASSUME NEW c \in Nat \ {0}, NEW n \in Int, NEW i \in 0 .. c - 1
    PROVE  (n - i) % c = 0 <=> n % c = i
<1>1. \A p \in Int, s \in 0 .. c - 1 : (c * p + s) % c = s
  BY Z3
<1>2. PICK q \in Int, r \in 0 .. c - 1 : r = n % c /\ n = c * q + r
  BY Z3
<1>3. CASE i <= r
  <2>1. n - i = c * q + (r - i) /\ r - i \in 0 .. c - 1
    BY <1>2, <1>3, Z3
  <2>2. (c * q + (r - i)) % c = r - i
    BY <1>1, <2>1
  <2> QED BY <1>2, <1>3, <2>1, <2>2
<1>4. CASE i > r
  <2>1. n - i = c * (q - 1) + (c + r - i) /\ c + r - i \in 0 .. c - 1 /\ c + r - i # 0
    BY <1>2, <1>4, Z3
  <2>2. (c * (q - 1) + (c + r - i)) % c = c + r - i
    BY <1>1, <2>1
  <2> QED BY <1>2, <1>4, <2>1, <2>2
<1> QED BY <1>3, <1>4

\* Configures go round: ...
LEMMA CountGoesRound ==
    ASSUME NEW v \in Nat
    PROVE  /\ v % Configures \in 0 .. Configures - 1
           /\ (v + 1) % Configures = ((v % Configures) + 1) % Configures
<1>0. PICK c \in Nat \ {0} : c = Configures
  BY ObjInfoAssumption
<1>1. v \in Int
  OBVIOUS
<1>2. /\ v % c \in 0 .. c - 1
      /\ (v + 1) % c = IF v % c = c - 1 THEN 0 ELSE (v % c) + 1
  BY <1>1, RemainderNext
<1>3. PICK s \in 0 .. c - 1 : s = v % c
  BY <1>2
<1>4. (v + 1) % c = IF s = c - 1 THEN 0 ELSE s + 1
  BY <1>2, <1>3
<1>5. \A p \in Int, t \in 0 .. c - 1 : (c * p + t) % c = t
  BY Z3
<1>6. CASE s = c - 1
  <2>1. s + 1 = c * 1 + 0 /\ 1 \in Int /\ 0 \in 0 .. c - 1
    BY <1>6
  <2>2. (c * 1 + 0) % c = 0
    BY <1>5, <2>1
  <2>3. (s + 1) % c = 0
    BY <2>1, <2>2
  <2> QED BY <1>0, <1>3, <1>4, <1>6, <2>3
<1>7. CASE s # c - 1
  <2>1. s + 1 = c * 0 + (s + 1) /\ 0 \in Int /\ s + 1 \in 0 .. c - 1
    BY <1>3, <1>7
  <2>2. (c * 0 + (s + 1)) % c = s + 1
    BY <1>5, <2>1
  <2>3. (s + 1) % c = s + 1
    BY <2>1, <2>2
  <2> QED BY <1>0, <1>3, <1>4, <1>7, <2>3
<1> QED BY <1>6, <1>7

\* ... none has come at first, ...
LEMMA LatestFirst ==
    ASSUME NEW i \in 0 .. Configures - 1
    PROVE  Latest(0, i) < 1
<1>0. PICK c \in Nat \ {0} : c = Configures
  BY ObjInfoAssumption
<1>1. 0 - 1 - i \in Int
  BY <1>0
<1>2. PICK z \in Int : z = 0 - 1 - i
  BY <1>1
<1>3. z % c \in 0 .. c - 1
  BY <1>2, RemainderNext
<1>4. PICK r \in 0 .. c - 1 : r = z % c
  BY <1>3
<1>5. Latest(0, i) = 0 - r
  BY <1>0, <1>2, <1>4 DEF Latest
<1> QED BY <1>5

\* ... the next one takes the place of the one that is Configures older, ...
LEMMA LatestNext ==
    ASSUME NEW v \in Nat, NEW i \in 0 .. Configures - 1
    PROVE  /\ Latest(v, i) \in Int /\ Latest(v, i) <= v
           /\ Latest(v + 1, i) = IF v % Configures = i THEN v + 1 ELSE Latest(v, i)
<1>0. PICK c \in Nat \ {0} : c = Configures
  BY ObjInfoAssumption
<1>1. i \in 0 .. c - 1 /\ v - 1 - i \in Int /\ v - i = (v - 1 - i) + 1
  BY <1>0
<1>2. PICK r \in 0 .. c - 1 : r = (v - 1 - i) % c
  BY <1>1, RemainderNext
<1>3. Latest(v, i) = v - r
  BY <1>0, <1>2 DEF Latest
<1>4. (v - i) % c = IF r = c - 1 THEN 0 ELSE r + 1
  BY <1>1, <1>2, RemainderNext
<1>5. (v - i) % c = 0 <=> v % c = i
  <2>1. PICK n \in Int, j \in 0 .. c - 1 : n = v /\ j = i
    BY <1>1
  <2>2. (n - j) % c = 0 <=> n % c = j
    BY RemainderIs
  <2> QED BY <2>1, <2>2
<1>6. v + 1 - 1 - i = v - i
  BY <1>1
<1>7. Latest(v + 1, i) = v + 1 - ((v - i) % c)
  BY <1>0, <1>6 DEF Latest
<1>8. CASE r = c - 1
  <2>1. (v - i) % c = 0 /\ v % c = i
    BY <1>4, <1>5, <1>8
  <2>2. Latest(v + 1, i) = v + 1
    BY <1>7, <2>1
  <2> QED BY <1>0, <1>3, <2>1, <2>2
<1>9. CASE r # c - 1
  <2>1. (v - i) % c = r + 1 /\ r + 1 # 0
    BY <1>2, <1>4, <1>9
  <2>2. v % c # i
    BY <1>5, <2>1
  <2>3. Latest(v + 1, i) = v - r
    BY <1>7, <2>1
  <2> QED BY <1>0, <1>3, <2>2, <2>3
<1> QED BY <1>8, <1>9

\* ... and every place has one of its own.
LEMMA LatestPlace ==
    ASSUME NEW v \in Nat, NEW i \in 0 .. Configures - 1
    PROVE  (Latest(v, i) - 1) % Configures = i
<1>0. PICK c \in Nat \ {0} : c = Configures
  BY ObjInfoAssumption
<1>1. i \in 0 .. c - 1 /\ v - 1 - i \in Int
  BY <1>0
<1>2. PICK r \in 0 .. c - 1 : r = (v - 1 - i) % c
  BY <1>1, RemainderNext
<1>3. Latest(v, i) = v - r
  BY <1>0, <1>2 DEF Latest
<1>4. ((v - 1 - i) - r) % c = 0
  BY <1>1, <1>2, RemainderIs
<1>5. v - r - 1 \in Int
  BY <1>2
<1>6. PICK n \in Int : n = v - r - 1
  BY <1>5
<1>7. (v - 1 - i) - r = n - i
  BY <1>1, <1>2, <1>6
<1>8. (n - i) % c = 0
  BY <1>4, <1>7
<1>9. (n - i) % c = 0 <=> n % c = i
  BY <1>1, <1>6, RemainderIs
<1>10. n % c = i
  BY <1>8, <1>9
<1> QED BY <1>0, <1>3, <1>6, <1>10

\* The record r has the last of v configures, with marks at those of acked, but
\* perhaps not yet at the pending ones.
RingShows(r, v, acked, pending) ==
    /\ r.next = v % Configures
    /\ \A i \in 0 .. Configures - 1 :
          LET k == Latest(v, i)
          IN  IF k < 1 THEN r.configures[i] = [serial |-> 0, acked |-> FALSE]
              ELSE /\ r.configures[i].serial = k
                   /\ r.configures[i].acked => k \in acked
                   /\ k \in acked \ pending => r.configures[i].acked

\* A new ring has no configures, ...
LEMMA RingNew ==
    ASSUME NEW surface, NEW pending
    PROVE  /\ RingShows(NewXdgSurface(surface), 0, {}, pending)
           /\ NewXdgSurface(surface).surface = surface
<1>1. PICK r : r = NewXdgSurface(surface)
  OBVIOUS
<1>2. /\ r.next = 0 /\ r.surface = surface
      /\ r.configures = [i \in 0 .. Configures - 1 |-> [serial |-> 0, acked |-> FALSE]]
  BY <1>1 DEF NewXdgSurface
<1>3. \A i \in 0 .. Configures - 1 : Latest(0, i) < 1
  BY LatestFirst
<1>4. 0 % Configures = 0
  <2>1. PICK c \in Nat \ {0} : c = Configures
    BY ObjInfoAssumption
  <2>2. 0 % c = 0
    BY Z3
  <2> QED BY <2>1, <2>2
<1>5. RingShows(r, 0, {}, pending)
  BY <1>2, <1>3, <1>4 DEF RingShows
<1> QED BY <1>1, <1>2, <1>5

\* ... the next one takes the place of the oldest, ...
LEMMA RingConfigured ==
    ASSUME NEW r, IsXdgSurface(r), NEW v \in Nat, NEW acked, acked \subseteq 1 .. v,
           NEW pending, RingShows(r, v, acked, pending)
    PROVE  /\ RingShows(Configured(r, v + 1), v + 1, acked, pending)
           /\ Configured(r, v + 1).surface = r.surface
<1>1. PICK s, n, q : r = [kind |-> "xdg_surface", surface |-> s, next |-> n, configures |-> q]
  BY DEF IsXdgSurface
<1>2. /\ r.surface = s /\ r.next = n /\ r.configures = q
      /\ DOMAIN q = 0 .. Configures - 1 /\ n = v % Configures
  <2>1. r.surface = s /\ r.next = n /\ r.configures = q
    BY <1>1
  <2> QED BY <2>1 DEF IsXdgSurface, RingShows
<1>3. PICK o : o = [serial |-> v + 1, acked |-> FALSE]
  OBVIOUS
<1>4. PICK d : d = Configured(r, v + 1)
  OBVIOUS
<1>5. d = [r EXCEPT !.next = (@ + 1) % Configures, !.configures[r.next] = o]
  BY <1>3, <1>4 DEF Configured
<1>6. /\ d.surface = s /\ d.next = (n + 1) % Configures
      /\ d.configures = [q EXCEPT ![n] = o]
  BY <1>1, <1>2, <1>5
<1>7. \A i \in 0 .. Configures - 1 : d.configures[i] = IF i = n THEN o ELSE q[i]
  BY <1>2, <1>6
<1>8. /\ d.next = (v + 1) % Configures
      /\ \A i \in 0 .. Configures - 1 :
            /\ Latest(v + 1, i) = IF n = i THEN v + 1 ELSE Latest(v, i)
            /\ Latest(v, i) \in Int /\ Latest(v, i) <= v
  <2>1. d.next = (v + 1) % Configures
    <3>1. (v + 1) % Configures = ((v % Configures) + 1) % Configures
      BY CountGoesRound
    <3> QED BY <1>2, <1>6, <3>1
  <2>2. ASSUME NEW i \in 0 .. Configures - 1
        PROVE  /\ Latest(v + 1, i) = IF n = i THEN v + 1 ELSE Latest(v, i)
               /\ Latest(v, i) \in Int /\ Latest(v, i) <= v
    BY <1>2, LatestNext
  <2> QED BY <2>1, <2>2
<1>9. ASSUME NEW i \in 0 .. Configures - 1
      PROVE  LET k == Latest(v + 1, i)
             IN  IF k < 1 THEN d.configures[i] = [serial |-> 0, acked |-> FALSE]
                 ELSE /\ d.configures[i].serial = k
                      /\ d.configures[i].acked => k \in acked
                      /\ k \in acked \ pending => d.configures[i].acked
  <2>1. CASE i = n
    <3>1. Latest(v + 1, i) = v + 1 /\ d.configures[i] = o /\ v + 1 \notin acked /\ ~(v + 1 < 1)
      BY <1>7, <1>8, <2>1
    <3>2. o.serial = v + 1 /\ o.acked = FALSE
      BY <1>3
    <3> QED BY <3>1, <3>2
  <2>2. CASE i # n
    BY <1>2, <1>7, <1>8, <2>2 DEF RingShows
  <2> QED BY <2>1, <2>2
<1>10. RingShows(d, v + 1, acked, pending)
  BY <1>8, <1>9 DEF RingShows
<1> QED BY <1>2, <1>4, <1>6, <1>10

\* ... the mark is put at the one that is acknowledged, if it is still there, ...
LEMMA RingAcknowledged ==
    ASSUME NEW r, IsXdgSurface(r), NEW v \in Nat, NEW acked, acked \subseteq 1 .. v,
           NEW pending, NEW k \in acked, RingShows(r, v, acked, pending \cup {k})
    PROVE  /\ RingShows(Acknowledged(r, k), v, acked, pending)
           /\ Acknowledged(r, k).surface = r.surface
<1>1. PICK s, n, q : r = [kind |-> "xdg_surface", surface |-> s, next |-> n, configures |-> q]
  BY DEF IsXdgSurface
<1>2. /\ r.surface = s /\ r.next = n /\ r.configures = q
      /\ DOMAIN q = 0 .. Configures - 1 /\ n = v % Configures
  <2>1. r.surface = s /\ r.next = n /\ r.configures = q
    BY <1>1
  <2> QED BY <2>1 DEF IsXdgSurface, RingShows
<1>3. PICK found : found = {i \in 0 .. Configures - 1 : q[i].serial = k}
  OBVIOUS
<1>4. ASSUME NEW i \in 0 .. Configures - 1
      PROVE  /\ i \in found => Latest(v, i) = k
             /\ Latest(v, i) = k => i \in found
             /\ Latest(v, i) \in Int
             /\ IF Latest(v, i) < 1 THEN q[i] = [serial |-> 0, acked |-> FALSE]
                ELSE /\ q[i].serial = Latest(v, i)
                     /\ q[i].acked => Latest(v, i) \in acked
                     /\ Latest(v, i) \in acked \ (pending \cup {k}) => q[i].acked
  <2>1. Latest(v, i) \in Int
    BY LatestNext
  <2>2. IF Latest(v, i) < 1 THEN q[i] = [serial |-> 0, acked |-> FALSE]
        ELSE /\ q[i].serial = Latest(v, i)
             /\ q[i].acked => Latest(v, i) \in acked
             /\ Latest(v, i) \in acked \ (pending \cup {k}) => q[i].acked
    BY <1>2 DEF RingShows
  <2>3. k \in 1 .. v
    OBVIOUS
  <2>4. CASE Latest(v, i) < 1
    <3>1. q[i].serial = 0
      BY <2>2, <2>4
    <3> QED BY <1>3, <2>1, <2>2, <2>3, <2>4, <3>1
  <2>5. CASE ~(Latest(v, i) < 1)
    BY <1>3, <2>1, <2>2, <2>5
  <2> QED BY <2>4, <2>5
<1>5. \A i, j \in 0 .. Configures - 1 : Latest(v, i) = k /\ Latest(v, j) = k => i = j
  BY LatestPlace
<1>6. PICK d : d = Acknowledged(r, k)
  OBVIOUS
<1>7. d = IF found = {} THEN r ELSE [r EXCEPT !.configures[Min(found)].acked = TRUE]
  BY <1>2, <1>3, <1>6 DEF Acknowledged
<1>8. CASE found = {}
  <2>1. d = r
    BY <1>7, <1>8
  <2>2. \A i \in 0 .. Configures - 1 : Latest(v, i) # k
    BY <1>4, <1>8
  <2>3. RingShows(d, v, acked, pending)
    BY <1>2, <1>4, <2>1, <2>2 DEF RingShows
  <2> QED BY <1>6, <2>1, <2>3
<1>9. CASE found # {}
  <2>1. PICK i \in 0 .. Configures - 1 : i \in found
    BY <1>3, <1>9
  <2>2. found = {i}
    BY <1>3, <1>4, <1>5, <2>1
  <2>3. Min(found) = i
    <3>1. i <= i
      BY <2>1
    <3> QED BY <2>2, <3>1 DEF Min
  <2>4. d = [r EXCEPT !.configures[i].acked = TRUE]
    BY <1>7, <1>9, <2>3
  <2>5. PICK w : w = [q[i] EXCEPT !.acked = TRUE]
    OBVIOUS
  <2>6. d.surface = s /\ d.next = n /\ d.configures = [q EXCEPT ![i] = w]
    BY <1>1, <1>2, <2>4, <2>5
  <2>7. \A j \in 0 .. Configures - 1 : d.configures[j] = IF j = i THEN w ELSE q[j]
    BY <1>2, <2>6
  <2>8. w.serial = k /\ w.acked = TRUE
    <3>1. PICK e, a : q[i] = [serial |-> e, acked |-> a]
      BY <1>2 DEF IsXdgSurface
    <3>2. w = [serial |-> e, acked |-> TRUE]
      <4>1. PICK g : g = q[i]
        OBVIOUS
      <4>2. g = [serial |-> e, acked |-> a] /\ w = [g EXCEPT !.acked = TRUE]
        BY <2>5, <3>1, <4>1
      <4> QED BY <4>2
    <3>3. q[i].serial = k
      BY <1>3, <2>1
    <3> QED BY <3>1, <3>2, <3>3
  <2>9. Latest(v, i) = k /\ k \in 1 .. v
    BY <1>4, <2>1
  <2>10. ASSUME NEW j \in 0 .. Configures - 1
         PROVE  IF Latest(v, j) < 1 THEN d.configures[j] = [serial |-> 0, acked |-> FALSE]
                ELSE /\ d.configures[j].serial = Latest(v, j)
                     /\ d.configures[j].acked => Latest(v, j) \in acked
                     /\ Latest(v, j) \in acked \ pending => d.configures[j].acked
    <3>1. CASE j = i
      BY <2>7, <2>8, <2>9, <3>1
    <3>2. CASE j # i
      <4>1. Latest(v, j) # k
        BY <1>5, <2>9, <3>2
      <4> QED BY <1>4, <2>7, <3>2, <4>1
    <3> QED BY <3>1, <3>2
  <2>11. RingShows(d, v, acked, pending)
    BY <1>2, <2>6, <2>10 DEF RingShows
  <2> QED BY <1>2, <1>6, <2>6, <2>11
<1> QED BY <1>8, <1>9

\* ... and an acknowledgement is pending while it is under way.
LEMMA RingMore ==
    ASSUME NEW r, NEW v, NEW acked, NEW pending, NEW k, RingShows(r, v, acked, pending)
    PROVE  RingShows(r, v, acked \cup {k}, pending \cup {k})
BY DEF RingShows

\* Messages that configure the xdg_surface x, and that acknowledge a configure; the
\* configures that are acknowledged by messages of S.
Conf(m, x) ==
    m.id = x /\ m.intf = "xdg_surface" /\ Protocol[m.intf]["events"][m.op].name = "configure"

AckOf(m, x) ==
    /\ m.id = x /\ m.intf = "xdg_surface"
    /\ Protocol[m.intf]["requests"][m.op].name = "ack_configure"

Acks(S, x) == {m.arg.number : m \in {r \in S : AckOf(r, x)}}

\* Of n configures those behind the v-th are on their way in q, in their order.
Due(q, x, n, v) ==
    /\ v \in 0 .. n
    /\ \A c \in v + 1 .. n : \E m \in Range(q) : Conf(m, x) /\ m.arg.number = c
    /\ \A m \in Range(q) : Conf(m, x) => m.arg.number \in v + 1 .. n
    /\ \A m, e : InOrder(q, m, e) /\ Conf(m, x) /\ Conf(e, x) => m.arg.number < e.arg.number

\* Configures stay due while others are written, ...
LEMMA DueAppend ==
    ASSUME NEW q, IsSeq(q), NEW x, NEW n, NEW v, Due(q, x, n, v), NEW m, ~Conf(m, x)
    PROVE  Due(Append(q, m), x, n, v)
<1> DEFINE r == Append(q, m)
<1>1. Range(r) = Range(q) \cup {m}
  BY AppendIs
<1>2. \A a, e : InOrder(r, a, e) => InOrder(q, a, e) \/ e = m
  BY OrderAppend
<1> HIDE DEF r
<1>3. Due(r, x, n, v)
  BY <1>1, <1>2 DEF Due
<1> QED BY <1>3 DEF r

\* ... the next one is due behind them, ...
LEMMA DueSent ==
    ASSUME NEW q, IsSeq(q), NEW x, NEW n \in Nat, NEW v, Due(q, x, n, v),
           NEW m, Conf(m, x), m.arg.number = n + 1
    PROVE  Due(Append(q, m), x, n + 1, v)
<1> DEFINE r == Append(q, m)
<1>1. Range(r) = Range(q) \cup {m}
  BY AppendIs
<1>2. \A a, e : InOrder(r, a, e) => InOrder(q, a, e) \/ (a \in Range(q) /\ e = m)
  BY OrderAppend
<1> HIDE DEF r
<1>3. v \in 0 .. n /\ \A c \in v + 1 .. n + 1 : c \in v + 1 .. n \/ c = n + 1
  BY DEF Due
<1>4. \A c \in v + 1 .. n : c \in v + 1 .. n + 1 /\ c < n + 1
  BY <1>3
<1>5. v \in 0 .. n + 1 /\ n + 1 \in v + 1 .. n + 1
  BY <1>3
<1>6. \A c \in v + 1 .. n + 1 : \E a \in Range(r) : Conf(a, x) /\ a.arg.number = c
  BY <1>1, <1>3 DEF Due
<1>7. \A a \in Range(r) : Conf(a, x) => a.arg.number \in v + 1 .. n + 1
  BY <1>1, <1>4, <1>5 DEF Due
<1>8. \A a, e : InOrder(r, a, e) /\ Conf(a, x) /\ Conf(e, x) => a.arg.number < e.arg.number
  BY <1>2, <1>4 DEF Due
<1>9. Due(r, x, n + 1, v)
  BY <1>5, <1>6, <1>7, <1>8 DEF Due
<1> QED BY <1>9 DEF r

\* ... others are taken, ...
LEMMA DueTail ==
    ASSUME NEW q, IsSeq(q), q # <<>>, NEW x, NEW n, NEW v, Due(q, x, n, v), ~Conf(Head(q), x)
    PROVE  Due(Tail(q), x, n, v)
<1>1. Range(q) = {Head(q)} \cup Range(Tail(q))
  BY TailIs
<1>2. \A a, e : InOrder(Tail(q), a, e) => InOrder(q, a, e)
  BY OrderTail
<1> QED BY <1>1, <1>2 DEF Due

\* ... and the one that comes is the first of those that are due.
LEMMA DueComes ==
    ASSUME NEW q, IsSeq(q), q # <<>>, NEW x, NEW n \in Nat, NEW v, Due(q, x, n, v),
           Conf(Head(q), x)
    PROVE  Head(q).arg.number = v + 1 /\ Due(Tail(q), x, n, v + 1)
<1>1. Range(q) = {Head(q)} \cup Range(Tail(q))
  BY TailIs
<1>2. /\ \A a, e : InOrder(Tail(q), a, e) => InOrder(q, a, e)
      /\ \A e \in Range(Tail(q)) : InOrder(q, Head(q), e)
  BY OrderTail
<1> DEFINE h == Head(q)
           t == Tail(q)
<1> HIDE DEF h, t
<1>3. v \in 0 .. n /\ h.arg.number \in v + 1 .. n
  BY <1>1 DEF Due, h
<1>4. v \in Nat /\ v + 1 \in v + 1 .. n /\ v + 1 \in 0 .. n
  BY <1>3
<1>5. \A e \in Range(t) : Conf(e, x) => h.arg.number < e.arg.number /\ e.arg.number \in v + 1 .. n
  BY <1>1, <1>2 DEF Due, h, t
<1>6. h.arg.number = v + 1
  <2>1. PICK m \in Range(q) : Conf(m, x) /\ m.arg.number = v + 1
    BY <1>4 DEF Due
  <2>2. CASE m = h
    BY <2>1, <2>2
  <2>3. CASE m \in Range(t)
    BY <1>3, <1>5, <2>1, <2>3
  <2> QED BY <1>1, <2>1, <2>2, <2>3 DEF h, t
<1>7. \A c \in v + 1 + 1 .. n : c \in v + 1 .. n /\ c # v + 1
  BY <1>4
<1>8. \A c \in v + 1 + 1 .. n : \E m \in Range(t) : Conf(m, x) /\ m.arg.number = c
  BY <1>1, <1>6, <1>7 DEF Due, h, t
<1>9. \A m \in Range(t) : Conf(m, x) => m.arg.number \in v + 1 + 1 .. n
  BY <1>4, <1>5, <1>6
<1>10. \A m, e : InOrder(t, m, e) /\ Conf(m, x) /\ Conf(e, x) => m.arg.number < e.arg.number
  BY <1>2 DEF Due, t
<1>11. Due(t, x, n, v + 1)
  BY <1>4, <1>8, <1>9, <1>10 DEF Due
<1> QED BY <1>6, <1>11 DEF h, t

-----------------------------------------------------------------------------
(* The records of xdg_surfaces. *)

\* v configures of x have been passed on.
XdgRight(x, v) ==
    LET a == account[x]
        pending == Acks(Range(Here), x)
    IN  /\ Due(Coming, x, Len(a.sent), v)
        /\ a.acked \subseteq 1 .. v /\ pending \subseteq a.acked
        /\ IF Unmade(Range(Here), x)
           THEN /\ RingShows(info[x], v, a.acked, pending)
                /\ a.surface # Lost => info[x].surface = a.surface
           ELSE /\ Len(a.sent) = 0
                /\ \A m \in Range(Here) :
                      m.arg.new = x /\ a.surface # Lost => m.arg.obj = a.surface

XdgSurfaces == \A x \in Id : account[x].kind = "xdg_surface" => \E v : XdgRight(x, v)

\* A step that leaves the requests and the record of x.
LEMMA XdgStays ==
    ASSUME NEW x \in Id, NEW v, XdgRight(x, v), Here' = Here,
           Unmade(Range(Here), x) => info'[x] = info[x], account'[x] = account[x],
           Due(Coming', x, Len(account[x].sent), v)
    PROVE  XdgRight(x, v)'
BY DEF XdgRight

\* What the compositor and wldbg's releases put on their way.
LEMMA OthersSent ==
    ASSUME NEW x, NEW n \in ClientId
    PROVE  ~Conf(DeleteId(n), x)
BY DeleteIdFacts DEF Conf

LEMMA TakeXdgs ==
    ASSUME Lives, XdgSurfaces, ServerTakes \/ ClientTakes, UNCHANGED <<info, account>>
    PROVE  XdgSurfaces'
<1>1. Here' = Here /\ IsSeq(Coming)
  BY ServerTakesDoes, ClientTakesDoes DEF Lives, Queues
<1>2. Coming' = Coming \/ \E n \in ClientId : Coming' = Append(Coming, DeleteId(n))
  BY ServerTakesDoes, ClientTakesDoes
<1>3. ASSUME NEW x \in Id, account[x].kind = "xdg_surface" PROVE \E v : XdgRight(x, v)'
  <2>1. PICK v : XdgRight(x, v)
    BY <1>3 DEF XdgSurfaces
  <2>2. PICK n : n = Len(account[x].sent) /\ Due(Coming, x, n, v)
    BY <2>1 DEF XdgRight
  <2>3. Due(Coming', x, n, v)
    BY <1>1, <1>2, <2>2, DueAppend, OthersSent
  <2>4. XdgRight(x, v)'
    BY <1>1, <2>1, <2>2, <2>3, XdgStays
  <2> QED BY <2>4
<1> QED BY <1>3 DEF XdgSurfaces

LEMMA StutterXdgs ==
    ASSUME XdgSurfaces, UNCHANGED <<vars, info, account>>
    PROVE  XdgSurfaces'
<1>1. Here' = Here /\ Coming' = Coming
  BY DEF Here, Coming, vars, ways
<1> QED BY <1>1 DEF XdgSurfaces, XdgRight

\* A configure that is sent is due.
LEMMA TellXdgs ==
    ASSUME Lives, Buffers, Accounts, XdgSurfaces, Tell
    PROVE  XdgSurfaces'
<1>1. PICK m :
              /\ IsEvent(m) /\ server[m.id] = m.intf /\ m.id \in Id /\ m.intf \in Interface
              /\ Here' = Here /\ client' = client /\ info' = info
              /\ Coming' = (IF m.ends THEN Append(Append(Coming, m), DeleteId(m.id))
                            ELSE Append(Coming, m))
              /\ (m.ends => m.intf \notin Freed /\ m.id \in ClientId)
              /\ \A x \in Id :
                    \/ /\ account'[x] = account[x]
                       /\ x = m.id /\ account[x].kind = "xdg_surface" =>
                             Protocol[m.intf]["events"][m.op].name # "configure"
                    \/ /\ x = m.id /\ m.intf = "xdg_surface" /\ ~m.ends
                       /\ account[x].kind = "xdg_surface"
                       /\ Protocol[m.intf]["events"][m.op].name = "configure"
                       /\ m.arg.number = Len(account[x].sent) + 1
                       /\ account'[x] = XdgAccount(account[x].surface,
                                           Append(account[x].sent, m.arg.number),
                                           account[x].acked)
  BY TellIs
<1>2. IsSeq(Coming) /\ IsSeq(Append(Coming, m))
  BY AppendIs DEF Lives, Queues
<1>3. ASSUME NEW x \in Id, account'[x] = account[x], account[x].kind = "xdg_surface",
             x = m.id => Protocol[m.intf]["events"][m.op].name # "configure"
      PROVE  \E v : XdgRight(x, v)'
  <2>1. PICK v : XdgRight(x, v)
    BY <1>3 DEF XdgSurfaces
  <2>2. PICK n : n = Len(account[x].sent) /\ Due(Coming, x, n, v)
    BY <2>1 DEF XdgRight
  <2>3. ~Conf(m, x)
    BY <1>3 DEF Conf
  <2>4. Due(Append(Coming, m), x, n, v)
    BY <1>2, <2>2, <2>3, DueAppend
  <2>5. m.ends => Due(Append(Append(Coming, m), DeleteId(m.id)), x, n, v)
    BY <1>1, <1>2, <2>4, DueAppend, OthersSent
  <2>6. Due(Coming', x, n, v)
    BY <1>1, <2>4, <2>5
  <2>7. XdgRight(x, v)'
    BY <1>1, <1>3, <2>1, <2>2, <2>6, XdgStays
  <2> QED BY <2>7
<1>4. ASSUME NEW x \in Id, x = m.id, m.intf = "xdg_surface", ~m.ends,
             account[x].kind = "xdg_surface",
             Protocol[m.intf]["events"][m.op].name = "configure",
             m.arg.number = Len(account[x].sent) + 1,
             account'[x] = XdgAccount(account[x].surface,
                                      Append(account[x].sent, m.arg.number), account[x].acked)
      PROVE  \E v : XdgRight(x, v)'
  <2>1. PICK v : XdgRight(x, v)
    BY <1>4 DEF XdgSurfaces
  <2>2. PICK a, d : a = account[x] /\ d = account'[x]
    OBVIOUS
  <2>3. PICK n \in Nat : n = Len(a.sent)
    <3>1. IsXdgAccount(a)
      BY <1>4, <2>2 DEF Accounts
    <3> QED BY <3>1 DEF IsXdgAccount
  <2>4. /\ d.surface = a.surface /\ d.acked = a.acked /\ Len(d.sent) = n + 1
    <3>1. d.surface = a.surface /\ d.acked = a.acked /\ d.sent = Append(a.sent, m.arg.number)
      BY <1>4, <2>2 DEF XdgAccount
    <3>2. a.sent \in Seq(Nat)
      BY <1>4, <2>2 DEF Accounts, IsXdgAccount
    <3>3. m.arg.number \in Nat
      BY <1>4, <2>2, <2>3
    <3> QED BY <2>3, <3>1, <3>2, <3>3, AppendProperties
  <2>5. Due(Coming', x, n + 1, v)
    <3>1. Conf(m, x) /\ m.arg.number = n + 1 /\ Due(Coming, x, n, v)
      BY <1>4, <2>1, <2>2, <2>3 DEF Conf, XdgRight
    <3>2. Coming' = Append(Coming, m)
      BY <1>1, <1>4
    <3> QED BY <1>2, <2>3, <3>1, <3>2, DueSent
  <2>6. Unmade(Range(Here), x)
    <3>1. client[x] \in Freed
      BY <1>4 DEF Accounts
    <3>2. server[x] # "none"
      BY <1>1, <1>4
    <3> QED BY <3>1, <3>2, FreedSays
  <2>7. XdgRight(x, v)'
    BY <1>1, <2>1, <2>2, <2>4, <2>5, <2>6 DEF XdgRight
  <2> QED BY <2>7
<1>5. ASSUME NEW x \in Id, account'[x].kind = "xdg_surface", account'[x] = account[x]
      PROVE  account[x].kind = "xdg_surface"
  BY <1>5
<1>6. ASSUME NEW x \in Id, account'[x].kind = "xdg_surface" PROVE \E v : XdgRight(x, v)'
  BY <1>1, <1>3, <1>4, <1>5, <1>6
<1> QED BY <1>6 DEF XdgSurfaces

\* An acknowledgement is of a configure that has come to wldbg.
LEMMA AskXdgs ==
    ASSUME Remembers, Accounts, XdgSurfaces, Ask
    PROVE  XdgSurfaces'
<1>1. Lives /\ Buffers /\ IsSeq(Here) /\ IsSeq(Coming)
  BY DEF Remembers, Lives, Queues
<1>2. PICK m :
              /\ IsRequest(m) /\ client[m.id] = m.intf /\ m.id \in Id /\ m.intf \in Interface
              /\ m.arg.new # 0 =>
                    /\ m.arg.new \in ClientId /\ m.arg.new \in Id /\ Unused(m.arg.new)
                    /\ client[m.arg.new] = "none" /\ m.arg.new # m.id
              /\ Here' = Append(Here, m) /\ Coming' = Coming /\ info' = info
              /\ \A x \in Id :
                    account'[x] = Accounted(account[x], x, m, Protocol[m.intf].requests)
              /\ Acknowledges(m, Protocol[m.intf].requests[m.op].name)
  BY <1>1, AskIs
<1>3. Range(Here') = Range(Here) \cup {m}
  BY <1>1, <1>2, AppendIs
<1>4. PICK w : w = Protocol[m.intf].requests[m.op].name
  OBVIOUS
<1>5. m.op \in DOMAIN Protocol[m.intf]["requests"]
  BY <1>2 DEF IsRequest, IsMessage
<1>6. ASSUME NEW x \in Id, account'[x].kind = "xdg_surface", x = m.arg.new
      PROVE  \E v : XdgRight(x, v)'
  <2>1. Unused(x) /\ x # m.id
    BY <1>2, <1>6, IdFacts
  <2>2. PICK d : d = account'[x]
    OBVIOUS
  <2>3. d = Made(m)
    BY <1>2, <1>6, <2>2 DEF Accounted
  <2>4. m.arg.made = "xdg_surface"
    <3>1. NoRecord.kind = "none"
      BY DEF NoRecord
    <3> QED BY <1>6, <2>2, <2>3, <3>1 DEF Made
  <2>5. d = [kind |-> "xdg_surface", surface |-> m.arg.obj, sent |-> <<>>, acked |-> {}]
    BY <2>3, <2>4 DEF Made
  <2>6. d.surface = m.arg.obj /\ Len(d.sent) = 0 /\ d.acked = {}
    BY <2>5
  <2>7. /\ \A e \in Range(Here) : e.id # x /\ e.arg.new # x
        /\ \A e \in Range(Coming) : e.id # x
    BY <2>1 DEF Unused, Unasked, Untold, Silent, Unmade
  <2>8. Acks(Range(Here'), x) = {}
    BY <1>3, <2>1, <2>7 DEF Acks, AckOf
  <2>9. Due(Coming, x, 0, 0)
    <3>1. \A e, f : InOrder(Coming, e, f) => e \in Range(Coming)
      BY <1>1, OrderIn
    <3> QED BY <2>7, <3>1 DEF Due, Conf
  <2>10. ~Unmade(Range(Here'), x) /\ \A e \in Range(Here') : e.arg.new = x => e.arg.obj = d.surface
    BY <1>3, <1>6, <2>6, <2>7 DEF Unmade
  <2>11. XdgRight(x, 0)'
    BY <1>2, <2>2, <2>6, <2>8, <2>9, <2>10 DEF XdgRight
  <2> QED BY <2>11
<1>7. ASSUME NEW x \in Id, account'[x].kind = "xdg_surface", x # m.arg.new
      PROVE  \E v : XdgRight(x, v)'
  <2>1. PICK a, d : a = account[x] /\ d = account'[x]
    OBVIOUS
  <2>2. /\ x = m.id => ~m.ends /\ d = Said(a, m, w)
        /\ x # m.id => d = a \/ d = Without(a, m.id)
    <3>1. NoRecord.kind = "none"
      BY DEF NoRecord
    <3> QED BY <1>2, <1>4, <1>7, <2>1, <3>1 DEF Accounted
  <2>3. a.kind = "xdg_surface" /\ IsXdgAccount(a) /\ client[x] = "xdg_surface"
    <3>1. IsAccount(a)
      BY <1>1, <2>1 DEF Buffers
    <3>2. a.kind = "xdg_surface"
      BY <1>7, <2>1, <2>2, <3>1, SaidIs
    <3> QED BY <2>1, <3>2 DEF Accounts
  <2>4. PICK v : XdgRight(x, v)
    BY <2>1, <2>3 DEF XdgSurfaces
  <2>5. PICK n \in Nat : n = Len(a.sent) /\ a.acked \subseteq 1 .. n /\ v \in 0 .. n
    BY <2>1, <2>3, <2>4 DEF IsXdgAccount, XdgRight, Due
  <2>6. Unmade(Range(Here'), x) <=> Unmade(Range(Here), x)
    BY <1>3, <1>7 DEF Unmade
  <2>7. CASE x = m.id /\ w = "ack_configure"
    <3>1. m.intf = "xdg_surface"
      BY <1>2, <2>3, <2>7
    <3>2. AckOf(m, x)
      BY <1>4, <2>7, <3>1 DEF AckOf
    <3>3. PICK k : k = m.arg.number
      OBVIOUS
    <3>4. Acks(Range(Here'), x) = Acks(Range(Here), x) \cup {k}
      BY <1>3, <3>2, <3>3 DEF Acks
    <3>5. d = XdgAccount(a.surface, a.sent, a.acked \cup {k})
      <4>1. Said(a, m, "ack_configure") =
              XdgAccount(a.surface, a.sent, a.acked \cup {m.arg.number})
        BY <2>3, XdgAcks
      <4>2. d = Said(a, m, "ack_configure")
        BY <2>2, <2>7
      <4> QED BY <3>3, <4>1, <4>2
    <3>6. d.surface = a.surface /\ d.sent = a.sent /\ d.acked = a.acked \cup {k}
      BY <3>5 DEF XdgAccount
    <3>7. k \in 1 .. v
      <4>1. /\ k \in Range(a.sent)
            /\ \A p \in DOMAIN events :
                 \A e \in Range(events[p]) : e.id = x => e.arg.number # k
        BY <1>2, <1>4, <2>1, <2>3, <2>7, <3>3 DEF Acknowledges
      <4>2. \A e \in Range(Coming) : e.id = x => e.arg.number # k
        <5>1. "wldbg" \in DOMAIN events
          BY <1>1 DEF Lives, Queues
        <5> QED BY <4>1, <5>1 DEF Coming
      <4>3. k \in 1 .. n
        <5>1. PICK j \in DOMAIN a.sent : k = a.sent[j]
          BY <4>1, RangeIs
        <5> QED BY <2>3, <2>5, <5>1 DEF IsXdgAccount
      <4>4. k \notin v + 1 .. n
        BY <2>1, <2>4, <2>5, <4>2 DEF XdgRight, Due, Conf
      <4> QED BY <2>5, <4>3, <4>4
    <3>8. Unmade(Range(Here), x) =>
             /\ RingShows(info[x], v, a.acked \cup {k}, Acks(Range(Here), x) \cup {k})
             /\ a.surface # Lost => info[x].surface = a.surface
      BY <2>1, <2>4, RingMore DEF XdgRight
    <3>9. ~Unmade(Range(Here), x) =>
             /\ Len(d.sent) = 0
             /\ \A e \in Range(Here') : e.arg.new = x /\ d.surface # Lost => e.arg.obj = d.surface
      BY <1>3, <1>7, <2>1, <2>4, <3>6 DEF XdgRight
    <3>10. /\ Due(Coming, x, Len(d.sent), v) /\ d.acked \subseteq 1 .. v
           /\ Acks(Range(Here'), x) \subseteq d.acked
      BY <2>1, <2>4, <3>4, <3>6, <3>7 DEF XdgRight
    <3>11. Unmade(Range(Here), x) =>
             /\ RingShows(info[x], v, d.acked, Acks(Range(Here'), x))
             /\ d.surface # Lost => info[x].surface = d.surface
      BY <3>4, <3>6, <3>8
    <3>12. XdgRight(x, v)'
      BY <1>2, <2>1, <2>6, <3>9, <3>10, <3>11 DEF XdgRight
    <3> QED BY <3>12
  <2>8. CASE ~(x = m.id /\ w = "ack_configure")
    <3>1. d.surface \in {a.surface, Lost} /\ d.sent = a.sent /\ d.acked = a.acked
      <4>1. CASE x = m.id
        <5>1. m.intf = "xdg_surface"
          BY <1>2, <2>3, <4>1
        <5>2. w # "configure"
          BY <1>2, <1>4, <1>5, <5>1, HandledXdg
        <5>3. w \notin {"configure", "ack_configure"}
          BY <2>8, <4>1, <5>2
        <5>4. Said(a, m, w) = a
          BY <2>3, <5>3, XdgKeeps
        <5> QED BY <2>2, <4>1, <5>4
      <4>2. CASE x # m.id /\ d = Without(a, m.id)
        <5>1. d = XdgAccount(IF a.surface = m.id THEN Lost ELSE a.surface, a.sent, a.acked)
          BY <2>3, <4>2, XdgWithout
        <5> QED BY <5>1 DEF XdgAccount
      <4>3. CASE x # m.id /\ d = a
        BY <4>3
      <4> QED BY <2>2, <4>1, <4>2, <4>3
    <3>2. Acks(Range(Here'), x) = Acks(Range(Here), x)
      <4>1. ~AckOf(m, x)
        BY <1>4, <2>8 DEF AckOf
      <4> QED BY <1>3, <4>1 DEF Acks
    <3>3. ~Unmade(Range(Here), x) =>
             /\ Len(d.sent) = 0
             /\ \A e \in Range(Here') : e.arg.new = x /\ d.surface # Lost => e.arg.obj = d.surface
      BY <1>3, <1>7, <2>1, <2>4, <3>1 DEF XdgRight
    <3>4. /\ Due(Coming, x, Len(d.sent), v) /\ d.acked \subseteq 1 .. v
          /\ Acks(Range(Here'), x) \subseteq d.acked
      BY <2>1, <2>4, <3>1, <3>2 DEF XdgRight
    <3>5. Unmade(Range(Here), x) =>
             /\ RingShows(info[x], v, d.acked, Acks(Range(Here'), x))
             /\ d.surface # Lost => info[x].surface = d.surface
      BY <2>1, <2>4, <3>1, <3>2 DEF XdgRight
    <3>6. XdgRight(x, v)'
      BY <1>2, <2>1, <2>6, <3>3, <3>4, <3>5 DEF XdgRight
    <3> QED BY <3>6
  <2> QED BY <2>7, <2>8
<1> QED BY <1>6, <1>7 DEF XdgSurfaces

\* A message takes no record away from an xdg_surface, nor gives it another one.
LEMMA PassInXdgs ==
    ASSUME Remembers, Accounts, XdgSurfaces, PassIn, fault' = "none"
    PROVE  XdgSurfaces'
<1>1. Lives /\ Naming /\ Shapes /\ IsSeq(Here) /\ IsSeq(Coming) /\ ResolveIn /\ account' = account
  BY DEF Remembers, Lives, Queues, PassIn
<1>2. PICK m : Comes(m, "events") /\ Gather(m, "events")
  BY <1>1, ResolveInDoes DEF PassIn, Comes, Arriving, Coming
<1>3. /\ IsEvent(m) /\ m.id \in Id /\ m.intf \in Interface
      /\ m.op \in DOMAIN Protocol[m.intf]["events"]
      /\ Coming # <<>> /\ m = Head(Coming) /\ Coming' = Tail(Coming) /\ Here' = Here
  BY <1>1, <1>2, Understands, ResolveInDoes
<1>4. m.arg.new \notin ClientId
  BY <1>3, EventFacts, IdFacts
<1>5. PICK msg : msg = Protocol[m.intf]["events"][m.op]
  OBVIOUS
<1>6. ASSUME NEW x \in Id, account[x].kind = "xdg_surface", Conf(m, x)
      PROVE  \E v : XdgRight(x, v)'
  <2>1. m.id = x /\ m.intf = "xdg_surface" /\ msg.name = "configure"
    BY <1>5, <1>6 DEF Conf
  <2>2. PICK v : XdgRight(x, v)
    BY <1>6 DEF XdgSurfaces
  <2>3. PICK a, n : a = account[x] /\ n = Len(a.sent)
    OBVIOUS
  <2>4. n \in Nat /\ v \in Nat
    <3>1. a.sent \in Seq(Nat)
      BY <1>6, <2>3 DEF Accounts, IsXdgAccount
    <3>2. n \in Nat
      BY <2>3, <3>1
    <3> QED BY <2>2, <2>3, <3>2 DEF XdgRight, Due
  <2>5. m.arg.number = v + 1 /\ Due(Coming', x, n, v + 1)
    BY <1>1, <1>3, <1>6, <2>2, <2>3, <2>4, DueComes DEF XdgRight
  <2>6. Unmade(Range(Here), x)
    <3>1. client[x] \in Freed
      BY <1>6 DEF Accounts
    <3>2. m \in Range(Coming)
      BY <1>1, <1>3, TailIs
    <3>3. ~Silent(Range(Coming), x)
      BY <2>1, <3>2 DEF Silent
    <3> QED BY <1>1, <3>1, <3>3, FreedSays
  <2>7. Kind(x) = "xdg_surface" /\ IsXdgSurface(info[x])
    BY <1>6, <2>6, SurfaceFound
  <2>8. info'[x] = Configured(info[x], v + 1)
    <3>1. msg.name \in Changes[m.intf]
      BY <2>1 DEF Changes
    <3>2. info'[x] = Changed(info[x], msg.name, m, msg.sig)
      BY <1>2, <1>5, <2>1, <2>7, <3>1, RecordChanges
    <3>3. m.intf \in Loaded
      BY <1>3, <2>1, ObjInfoAssumption DEF Handled, Freed
    <3>4. Takes(msg, 4, "u")
      BY <1>3, <1>5, <2>1, HandledXdg
    <3>5. ArgWord(msg.sig, m.data, 4) = Meant(m, "u")
      BY <1>1, <1>2, <1>5, <3>3, <3>4, Reads
    <3>6. ArgWord(msg.sig, m.data, 4) = v + 1
      BY <2>5, <3>5 DEF Meant
    <3> QED BY <2>1, <3>2, <3>6 DEF Changed
  <2>9. /\ RingShows(info'[x], v + 1, a.acked, Acks(Range(Here), x))
        /\ info'[x].surface = info[x].surface
    <3>1. RingShows(info[x], v, a.acked, Acks(Range(Here), x)) /\ a.acked \subseteq 1 .. v
      BY <2>2, <2>3, <2>6 DEF XdgRight
    <3> QED BY <2>4, <2>7, <2>8, <3>1, RingConfigured
  <2>10. a.acked \subseteq 1 .. v + 1
    <3>1. a.acked \subseteq 1 .. v
      BY <2>2, <2>3 DEF XdgRight
    <3> QED BY <2>4, <3>1
  <2>11. /\ Acks(Range(Here), x) \subseteq a.acked
         /\ a.surface # Lost => info[x].surface = a.surface
    BY <2>2, <2>3, <2>6 DEF XdgRight
  <2>12. XdgRight(x, v + 1)'
    BY <1>1, <1>3, <2>3, <2>5, <2>6, <2>9, <2>10, <2>11 DEF XdgRight
  <2> QED BY <2>12
<1>7. ASSUME NEW x \in Id, account[x].kind = "xdg_surface", ~Conf(m, x)
      PROVE  \E v : XdgRight(x, v)'
  <2>1. PICK v : XdgRight(x, v)
    BY <1>7 DEF XdgSurfaces
  <2>2. PICK n : n = Len(account[x].sent) /\ Due(Coming, x, n, v)
    BY <2>1 DEF XdgRight
  <2>3. Due(Coming', x, n, v)
    BY <1>1, <1>3, <1>7, <2>2, DueTail
  <2>4. ASSUME Unmade(Range(Here), x) PROVE info'[x] = info[x]
    <3>1. Kind(x) = "xdg_surface" /\ x \in ClientId
      BY <1>7, <2>4, SurfaceFound
    <3>2. x = m.id /\ m.intf = "xdg_surface" => msg.name \notin Changes[m.intf]
      <4>1. x = m.id /\ m.intf = "xdg_surface" => msg.name # "configure"
        BY <1>5, <1>7 DEF Conf
      <4>2. m.intf = "xdg_surface" => msg.name # "ack_configure"
        BY <1>3, <1>5, HandledXdg
      <4> QED BY <4>1, <4>2 DEF Changes
    <3> QED BY <1>2, <1>4, <1>5, <3>1, <3>2, RecordStays
  <2>5. XdgRight(x, v)'
    BY <1>1, <1>3, <2>1, <2>2, <2>3, <2>4, XdgStays
  <2> QED BY <2>5
<1> QED BY <1>1, <1>6, <1>7 DEF XdgSurfaces

\* A request makes the record that it is to make, and marks the configure it
\* acknowledges.
LEMMA PassOutXdgs ==
    ASSUME Remembers, Accounts, XdgSurfaces, PassOut, fault' = "none"
    PROVE  XdgSurfaces'
<1>1. Lives /\ Naming /\ Shapes /\ IsSeq(Here) /\ ResolveOut /\ account' = account
  BY DEF Remembers, Lives, Queues, PassOut
<1>2. PICK m : Comes(m, "requests") /\ Gather(m, "requests")
  <2>1. Here # <<>>
    BY <1>1, ResolveOutDoes
  <2> QED BY <2>1 DEF PassOut, Comes, Arriving, Here
<1>3. /\ IsRequest(m) /\ m.id \in Id /\ m.intf \in Interface
      /\ m.op \in DOMAIN Protocol[m.intf]["requests"]
      /\ Here # <<>> /\ m = Head(Here) /\ Here' = Tail(Here) /\ Coming' = Coming
  BY <1>1, <1>2, Understands, ResolveOutDoes
<1>4. Range(Here) = {m} \cup Range(Here')
  BY <1>1, <1>3, TailIs
<1>5. PICK msg : msg = Protocol[m.intf]["requests"][m.op]
  OBVIOUS
<1>6. ASSUME NEW x \in Id, account[x].kind = "xdg_surface", x = m.arg.new
      PROVE  \E v : XdgRight(x, v)'
  <2>1. PICK v : XdgRight(x, v)
    BY <1>6 DEF XdgSurfaces
  <2>2. PICK a : a = account[x]
    OBVIOUS
  <2>3. ~Unmade(Range(Here), x)
    BY <1>4, <1>6 DEF Unmade
  <2>4. Len(a.sent) = 0 /\ (a.surface # Lost => m.arg.obj = a.surface)
    BY <1>4, <1>6, <2>1, <2>2, <2>3 DEF XdgRight
  <2>5. v = 0 /\ a.acked = {}
    <3>1. v \in 0 .. 0 /\ a.acked \subseteq 1 .. v
      BY <2>1, <2>2, <2>4 DEF XdgRight, Due
    <3>2. v = 0
      BY <3>1
    <3> QED BY <3>1, <3>2
  <2>6. x # 0 /\ client[x] = "xdg_surface"
    BY <1>6, IdFacts DEF Accounts
  <2>7. m.arg.made = "xdg_surface" /\ Unmade(Range(Here'), x)
    <3>1. /\ x \in ClientId /\ m.arg.made \in Interface /\ Asked(x, m.arg.made)
          /\ Unmade(Range(Here'), x)
      BY <1>1, <1>3, <1>6, <2>6, HeadAsks
    <3>2. client[x] = m.arg.made \/ client[x] = "zombie"
      BY <1>1, <3>1, AskedIs
    <3> QED BY <2>6, <3>1, <3>2
  <2>8. info'[x] = NewXdgSurface(m.arg.obj)
    BY <1>2, <1>6, <2>6, <2>7, RecordMade
  <2>9. Acks(Range(Here'), x) \subseteq a.acked /\ Due(Coming', x, Len(a.sent), v)
    BY <1>3, <1>4, <2>1, <2>2 DEF XdgRight, Acks
  <2>10. /\ RingShows(info'[x], v, a.acked, Acks(Range(Here'), x))
         /\ info'[x].surface = m.arg.obj
    BY <2>5, <2>8, RingNew
  <2>11. a.acked \subseteq 1 .. v
    BY <2>5
  <2>12. XdgRight(x, v)'
    BY <1>1, <2>2, <2>4, <2>7, <2>9, <2>10, <2>11 DEF XdgRight
  <2> QED BY <2>12
<1>7. ASSUME NEW x \in Id, account[x].kind = "xdg_surface", x # m.arg.new
      PROVE  \E v : XdgRight(x, v)'
  <2>1. PICK v : XdgRight(x, v)
    BY <1>7 DEF XdgSurfaces
  <2>2. PICK a : a = account[x]
    OBVIOUS
  <2>3. Unmade(Range(Here'), x) <=> Unmade(Range(Here), x)
    BY <1>4, <1>7 DEF Unmade
  <2>4. PICK acks : acks = Acks(Range(Here'), x)
    OBVIOUS
  <2>5. Acks(Range(Here), x) = acks \cup (IF AckOf(m, x) THEN {m.arg.number} ELSE {})
    BY <1>4, <2>4 DEF Acks
  <2>6. /\ Due(Coming', x, Len(a.sent), v) /\ a.acked \subseteq 1 .. v /\ acks \subseteq a.acked
    BY <1>3, <2>1, <2>2, <2>5 DEF XdgRight
  <2>7. ASSUME ~Unmade(Range(Here), x)
        PROVE  /\ Len(a.sent) = 0
               /\ \A e \in Range(Here') : e.arg.new = x /\ a.surface # Lost => e.arg.obj = a.surface
    BY <1>4, <2>1, <2>2, <2>7 DEF XdgRight
  <2>8. ASSUME Unmade(Range(Here), x)
        PROVE  /\ RingShows(info'[x], v, a.acked, acks)
               /\ a.surface # Lost => info'[x].surface = a.surface
    <3>1. /\ Kind(x) = "xdg_surface" /\ client[x] = "xdg_surface" /\ IsXdgSurface(info[x])
      BY <1>7, <2>8, SurfaceFound
    <3>2. /\ RingShows(info[x], v, a.acked, Acks(Range(Here), x))
          /\ a.surface # Lost => info[x].surface = a.surface
      BY <2>1, <2>2, <2>8 DEF XdgRight
    <3>3. x = m.id => ~m.ends
      <4>1. Lasting(Range(Here), x)
        BY <1>1, <3>1, FreedSays DEF Freed
      <4> QED BY <1>4, <4>1 DEF Lasting
    <3>4. CASE AckOf(m, x)
      <4>1. m.id = x /\ m.intf = "xdg_surface" /\ msg.name = "ack_configure"
        BY <1>5, <3>4 DEF AckOf
      <4>2. msg.name \in Changes[m.intf]
        BY <4>1 DEF Changes
      <4>3. info'[x] = Changed(info[x], msg.name, m, msg.sig)
        BY <1>2, <1>5, <3>1, <4>1, <4>2, RecordChanges
      <4>4. m.intf \in Loaded
        BY <1>3, <4>1, ObjInfoAssumption DEF Handled, Freed
      <4>5. Takes(msg, 1, "u")
        BY <1>3, <1>5, <4>1, HandledXdg
      <4>6. PICK k : k = m.arg.number
        OBVIOUS
      <4>7. ArgWord(msg.sig, m.data, 1) = Meant(m, "u")
        BY <1>1, <1>2, <1>5, <4>4, <4>5, Reads
      <4>8. ArgWord(msg.sig, m.data, 1) = k
        BY <4>6, <4>7 DEF Meant
      <4>9. info'[x] = Acknowledged(info[x], k)
        BY <4>1, <4>3, <4>8 DEF Changed
      <4>10. Acks(Range(Here), x) = acks \cup {k} /\ k \in a.acked /\ v \in Nat
        BY <2>1, <2>2, <2>5, <3>4, <4>6 DEF XdgRight, Due
      <4>11. /\ RingShows(info'[x], v, a.acked, acks) /\ info'[x].surface = info[x].surface
        <5>1. RingShows(info[x], v, a.acked, acks \cup {k})
          BY <3>2, <4>10
        <5>2. PICK r : r = info[x] /\ IsXdgSurface(r)
          BY <3>1
        <5>3. /\ RingShows(Acknowledged(r, k), v, a.acked, acks)
              /\ Acknowledged(r, k).surface = r.surface
          BY <2>6, <4>10, <5>1, <5>2, RingAcknowledged
        <5> QED BY <4>9, <5>2, <5>3
      <4> QED BY <3>2, <4>11
    <3>5. CASE ~AckOf(m, x)
      <4>1. x = m.id /\ m.intf = "xdg_surface" => msg.name \notin Changes[m.intf]
        <5>1. x = m.id /\ m.intf = "xdg_surface" => msg.name # "ack_configure"
          BY <1>5, <3>5 DEF AckOf
        <5>2. m.intf = "xdg_surface" => msg.name # "configure"
          BY <1>3, <1>5, HandledXdg
        <5> QED BY <5>1, <5>2 DEF Changes
      <4>2. info'[x] = info[x]
        BY <1>2, <1>5, <1>7, <3>1, <3>3, <4>1, RecordStays
      <4>3. Acks(Range(Here), x) = acks
        BY <2>5, <3>5
      <4> QED BY <3>2, <4>2, <4>3
    <3> QED BY <3>4, <3>5
  <2>9. XdgRight(x, v)'
    BY <1>1, <2>2, <2>3, <2>4, <2>6, <2>7, <2>8 DEF XdgRight
  <2> QED BY <2>9
<1> QED BY <1>1, <1>6, <1>7 DEF XdgSurfaces

-----------------------------------------------------------------------------
(* The invariant with what the peers say. *)

\* While wldbg looks at a connection, its records follow what the peers say.
Rest == fault = "none" => Accounts /\ Surfaces /\ XdgSurfaces

LEMMA RestFirst ==
    ASSUME ObjInit
    PROVE  Rest
<1>1. account = [id \in Id |-> NoRecord] /\ NoRecord.kind = "none"
  BY DEF ObjInit, NoRecord
<1>2. ASSUME NEW x \in Id PROVE client[x] \notin Freed
  <2>1. PICK bound \in Bound : client = FirstObjects(bound)
    BY DEF ObjInit, Init
  <2>2. Range(bound) \cap Freed = {}
    BY <2>1, ObjInfoAssumption DEF Handled
  <2>3. client[x] \in {"display", "none"} \cup Range(bound)
    BY <2>1, RangeIs DEF FirstObjects
  <2> QED BY <2>2, <2>3 DEF Freed
<1>3. \A x \in Id : account[x] = NoRecord /\ account[x].kind = "none"
  BY <1>1
<1>4. Accounts
  BY <1>2, <1>3 DEF Accounts
<1>5. Surfaces /\ XdgSurfaces
  BY <1>3 DEF Surfaces, XdgSurfaces
<1> QED BY <1>4, <1>5 DEF Rest

LEMMA RestKept ==
    ASSUME Remembers, Rest, [ObjNext]_objVars, ~Destroy
    PROVE  Rest'
<1> SUFFICES ASSUME fault' = "none" PROVE (Accounts /\ Surfaces /\ XdgSurfaces)'
  BY DEF Rest
<1>1. Lives /\ Buffers
  BY DEF Remembers
<1>2. Ask \/ Tell \/ Take \/ PassOut \/ PassIn \/ Show \/ UNCHANGED objVars
  BY DEF ObjNext
<1>3. Accounts /\ Surfaces /\ XdgSurfaces
  <2>1. fault = "none"
    BY <1>2 DEF Ask, Tell, Take, PassOut, PassIn, Show, objVars
  <2> QED BY <2>1 DEF Rest
<1>4. CASE Ask
  BY <1>1, <1>3, <1>4, AskAccounts, AskSurfaces, AskXdgs
<1>5. CASE Tell
  BY <1>1, <1>3, <1>5, TellAccounts, TellSurfaces, TellXdgs
<1>6. CASE Take
  <2>1. (ServerTakes \/ ClientTakes) /\ UNCHANGED <<info, account>>
    BY <1>6 DEF Take
  <2>2. ServerTakes => client' = client
    BY <1>1, ServerTakesDoes
  <2>3. Accounts'
    BY <1>1, <1>3, <2>1, <2>2, ClientTakesAccounts, AccountsStay
  <2> QED BY <1>1, <1>3, <2>1, <2>3, TakeSurfaces, TakeXdgs
<1>7. CASE PassOut
  <2>1. account' = account /\ client' = client
    BY <1>1, <1>7, ResolveOutDoes DEF PassOut
  <2> QED BY <1>3, <1>7, <2>1, AccountsStay, PassOutSurfaces, PassOutXdgs
<1>8. CASE PassIn
  <2>1. account' = account /\ client' = client
    BY <1>1, <1>8, ResolveInDoes DEF PassIn
  <2> QED BY <1>3, <1>8, <2>1, AccountsStay, PassInSurfaces, PassInXdgs
<1>9. CASE Show \/ UNCHANGED objVars
  <2>1. UNCHANGED <<vars, info, account>>
    BY <1>9 DEF Show, objVars
  <2>2. account' = account /\ client' = client
    BY <2>1 DEF vars
  <2> QED BY <1>1, <1>3, <2>1, <2>2, AccountsStay, StutterSurfaces, StutterXdgs
<1> QED BY <1>2, <1>4, <1>5, <1>6, <1>7, <1>8, <1>9

\* The records are as the requests have made them and as the peers say.
LEMMA ObjRest == ObjSpec => []((Remembers /\ Rest) \/ Destroyed)
<1>1. ObjInit => (Remembers /\ Rest) \/ Destroyed
  BY RemembersFirst, RestFirst
<1>2. ((Remembers /\ Rest) \/ Destroyed) /\ [ObjNext]_objVars
         => ((Remembers /\ Rest) \/ Destroyed)'
  BY RemembersKept, RestKept, DestroyDoes, DestroyedStays DEF Remembers
<1> QED BY <1>1, <1>2, PTL DEF ObjSpec

-----------------------------------------------------------------------------
(* What is shown at rest. *)

\* Nothing is ahead of the records.
LEMMA NothingComes ==
    ASSUME Quiet
    PROVE  /\ fault = "none" /\ Here = <<>> /\ Coming = <<>>
           /\ Len(Here) = 0 /\ Range(Here) = {} /\ Range(Coming) = {} /\ IsSeq(Here)
           /\ \A x : Unmade(Range(Here), x) /\ Lasting(Range(Here), x)
<1>1. fault = "none" /\ Here = <<>> /\ Coming = <<>>
  BY DEF Quiet, Here, Coming
<1>2. Range(<<>>) = {} /\ Len(<<>>) = 0 /\ IsSeq(<<>>)
  BY EmptySeq DEF Range, IsSeq
<1> QED BY <1>1, <1>2 DEF Unmade, Lasting

\* The record of a surface says what the client said, ...
LEMMA SurfaceAtRest ==
    ASSUME Remembers, Accounts, Surfaces, Quiet, NEW x \in Id, account[x].kind = "surface"
    PROVE  /\ IsSurfaceAccount(account[x]) /\ info[x].kind = "surface"
           /\ Depicts(info[x], account[x])
           /\ \A b \in Names(account[x]) : Kind(b) \in {"none", "buffer"}
<1>1. PICK t : Tracks(t, x)
  BY DEF Surfaces
<1>2. t[0] = account[x] /\ NotAgain(Here, 0, x)
  BY <1>1, NothingComes, BehindAll DEF Tracks
<1>3. info[x].kind = "surface"
  BY NothingComes, SurfaceFound DEF Kind
<1> QED BY <1>1, <1>2, <1>3 DEF Tracks, Accounts

\* ... and showing it is safe but for buffers that were destroyed.
LEMMA SurfaceSafe ==
    ASSUME Remembers, Accounts, Surfaces, Quiet, NEW x \in Id, account[x].kind = "surface",
           account[x].buffer # Lost, Lost \notin account[x].attached
    PROVE  SurfaceFault(info[x]) = "none"
<1>1. PICK a, r : a = account[x] /\ r = info[x]
  OBVIOUS
<1>2. /\ a.attached = {} \/ \E b : a.attached = {b}
      /\ Depicts(r, a) /\ a.buffer # Lost /\ Lost \notin a.attached
      /\ \A b \in Names(a) : Kind(b) \in {"none", "buffer"}
  BY <1>1, SurfaceAtRest DEF IsSurfaceAccount
<1>3. ASSUME NEW b \in a.attached \cup {a.buffer, 0}
      PROVE  InfoGet(b).kind \in {"none", "buffer"}
  <2>1. NoRecord.kind = "none" /\ 0 \notin Id
    BY IdFacts DEF NoRecord
  <2>2. CASE b \in Id
    <3>1. b \in Names(a)
      BY <1>2, <1>3, <2>1, <2>2 DEF Names
    <3> QED BY <1>2, <2>2, <3>1 DEF InfoGet, Kind
  <2>3. CASE b \notin Id
    BY <2>1, <2>3 DEF InfoGet
  <2> QED BY <2>2, <2>3
<1>4. r.pending.buffer \in a.attached \cup {a.buffer, 0}
  BY <1>2 DEF Depicts
<1>5. \A s \in r.committed : s.buffer \in a.attached \cup {a.buffer, 0}
  BY <1>2 DEF Depicts
<1> QED BY <1>1, <1>3, <1>4, <1>5 DEF SurfaceFault

\* The record of an xdg_surface has the last configures, and its surface.
LEMMA XdgAtRest ==
    ASSUME Remembers, Accounts, XdgSurfaces, Quiet, NEW x \in Id,
           account[x].kind = "xdg_surface"
    PROVE  /\ info[x].kind = "xdg_surface"
           /\ account[x].surface # Lost => info[x].surface = account[x].surface
           /\ \A i \in DOMAIN info[x].configures :
                 info[x].configures[i] = Kept(account[x], i)
<1>1. PICK v : XdgRight(x, v)
  BY DEF XdgSurfaces
<1>2. IsXdgSurface(info[x]) /\ info[x].kind = "xdg_surface"
  BY NothingComes, SurfaceFound DEF Kind
<1>3. PICK a, r, n : a = account[x] /\ r = info[x] /\ n = Len(a.sent)
  OBVIOUS
<1>4. IsXdgAccount(a) /\ n \in Nat
  <2>1. IsXdgAccount(a)
    BY <1>3 DEF Accounts
  <2> QED BY <1>3, <2>1 DEF IsXdgAccount
<1>5. v = n
  <2>1. v \in 0 .. n /\ ~\E c : c \in v + 1 .. n
    BY <1>1, <1>3, NothingComes DEF XdgRight, Due
  <2>2. v = n \/ n \in v + 1 .. n
    BY <1>4, <2>1
  <2> QED BY <2>1, <2>2
<1>6. Acks(Range(Here), x) = {}
  BY NothingComes DEF Acks
<1>7. RingShows(r, n, a.acked, {}) /\ (a.surface # Lost => r.surface = a.surface)
  BY <1>1, <1>3, <1>5, <1>6, NothingComes DEF XdgRight
<1>8. ASSUME NEW i \in 0 .. Configures - 1
      PROVE  r.configures[i] = Kept(a, i)
  <2>1. PICK k : k = Latest(n, i)
    OBVIOUS
  <2>2. k \in Int /\ k <= n
    BY <1>4, <2>1, LatestNext
  <2>3. Kept(a, i) = IF k < 1 THEN [serial |-> 0, acked |-> FALSE]
                     ELSE [serial |-> a.sent[k], acked |-> a.sent[k] \in a.acked]
    BY <1>3, <2>1 DEF Kept, Latest
  <2>4. CASE k < 1
    BY <1>7, <2>1, <2>3, <2>4 DEF RingShows
  <2>5. CASE ~(k < 1)
    <3>1. a.sent[k] = k
      BY <1>3, <1>4, <2>2, <2>5 DEF IsXdgAccount
    <3>2. PICK s : \E b \in BOOLEAN : r.configures[i] = [serial |-> s, acked |-> b]
      BY <1>2, <1>3 DEF IsXdgSurface
    <3>3. PICK b \in BOOLEAN : r.configures[i] = [serial |-> s, acked |-> b]
      BY <3>2
    <3>4. r.configures[i].serial = s /\ r.configures[i].acked = b
      BY <3>3
    <3>5. s = k /\ (b => k \in a.acked) /\ (k \in a.acked => b)
      BY <1>7, <2>1, <2>5, <3>4 DEF RingShows
    <3>6. b = (k \in a.acked)
      BY <3>5
    <3> QED BY <2>3, <2>5, <3>1, <3>3, <3>5, <3>6
  <2> QED BY <2>4, <2>5
<1>9. DOMAIN r.configures = 0 .. Configures - 1
  BY <1>2, <1>3 DEF IsXdgSurface
<1> QED BY <1>2, <1>3, <1>7, <1>8, <1>9

\* Then they say what the peers say, ...
LEMMA RestShown ==
    ASSUME Remembers, Rest
    PROVE  ShownAtRest
<1> SUFFICES ASSUME Quiet, NEW x \in ClientId
             PROVE  LET r == info[x]
                        a == account[x]
                    IN  CASE client[x] = "surface" ->
                                /\ r.kind = "surface"
                                /\ Lost \notin a.attached =>
                                      r.pending.buffer = IF a.attached = {} THEN 0
                                                         ELSE CHOOSE b \in a.attached : TRUE
                                /\ r.committed # {} <=> a.commits
                                /\ \A state \in r.committed :
                                      a.buffer # Lost =>
                                         state.buffer = IF a.last THEN a.buffer ELSE 0
                          [] client[x] = "xdg_surface" ->
                                /\ r.kind = "xdg_surface"
                                /\ a.surface # Lost => r.surface = a.surface
                                /\ \A i \in DOMAIN r.configures : r.configures[i] = Kept(a, i)
                          [] client[x] = "buffer" /\ a.pooled -> r.kind = "buffer"
                          [] OTHER -> r.kind \in {"none", "seat"}
  BY DEF ShownAtRest
<1>1. Accounts /\ Surfaces /\ XdgSurfaces /\ x \in Id
  BY NothingComes, IdFacts DEF Rest
<1>2. client[x] \in Freed => account[x].kind = client[x]
  BY <1>1 DEF Accounts
<1>3. CASE client[x] = "surface"
  <2>1. account[x].kind = "surface"
    BY <1>2, <1>3 DEF Freed
  <2>2. Depicts(info[x], account[x]) /\ info[x].kind = "surface"
    BY <1>1, <2>1, SurfaceAtRest
  <2> QED BY <1>3, <2>2 DEF Depicts
<1>4. CASE client[x] = "xdg_surface"
  <2>1. account[x].kind = "xdg_surface"
    BY <1>2, <1>4 DEF Freed
  <2>2. /\ info[x].kind = "xdg_surface"
        /\ account[x].surface # Lost => info[x].surface = account[x].surface
        /\ \A i \in DOMAIN info[x].configures : info[x].configures[i] = Kept(account[x], i)
    BY <1>1, <2>1, XdgAtRest
  <2> QED BY <1>4, <2>2
<1>5. CASE client[x] = "buffer"
  <2>1. account[x].kind = "buffer"
    BY <1>2, <1>5 DEF Freed
  <2>2. IF account[x].pooled THEN Kind(x) = "buffer" ELSE Kind(x) \in Idle
    BY <1>1, <2>1, NothingComes DEF Remembers, Buffers
  <2> QED BY <1>5, <2>2 DEF Kind, Idle
<1>6. CASE client[x] \notin Freed
  <2>1. Kind(x) \in Idle
    BY <1>1, <1>6, NothingComes DEF Remembers, Records, Fit, Freed
  <2> QED BY <1>6, <2>1 DEF Kind, Idle, Freed
<1> QED BY <1>3, <1>4, <1>5, <1>6 DEF Freed

\* ... and can be shown.
LEMMA RestShowsSafely ==
    ASSUME Remembers, Rest
    PROVE  ShowsSafely
<1> SUFFICES ASSUME Quiet, NEW x \in ClientId
             PROVE  LET a == account[x]
                        unsafe(s) == s.buffer = Lost \/ Lost \in s.attached
                    IN  CASE ShowFault(x) = "assert" -> a.surface = Lost
                          [] ShowFault(x) = "name" -> info[x] = NewSeat
                          [] ShowFault(x) = "kind" ->
                                IF a.kind = "surface" THEN unsafe(a)
                                ELSE a.surface = Lost \/ unsafe(account[a.surface])
                          [] OTHER -> TRUE
  BY DEF ShowsSafely
<1>1. Accounts /\ Surfaces /\ XdgSurfaces /\ x \in Id /\ IsRecord(info[x])
  BY NothingComes, IdFacts DEF Rest, Remembers, Shapes
<1>2. PICK a, r : a = account[x] /\ r = info[x]
  OBVIOUS
<1>3. r.kind \in {"surface", "xdg_surface"} => client[x] = r.kind /\ a.kind = r.kind
  <2>1. Kind(x) \in Idle \/ (client[x] \notin NoObject /\ Kind(x) \in Fit(client[x]))
    BY <1>1, NothingComes DEF Remembers, Records
  <2>2. r.kind \in {"surface", "xdg_surface"} => client[x] = r.kind
    BY <1>2, <2>1 DEF Kind, Fit, Idle
  <2> QED BY <1>1, <1>2, <2>2 DEF Accounts, Freed
<1>4. CASE r.kind = "surface"
  <2>1. ShowFault(x) = SurfaceFault(r)
    BY <1>2, <1>4 DEF ShowFault
  <2>2. a.buffer # Lost /\ Lost \notin a.attached => SurfaceFault(r) = "none"
    BY <1>1, <1>2, <1>3, <1>4, SurfaceSafe
  <2>3. SurfaceFault(r) \in {"none", "kind"}
    BY DEF SurfaceFault
  <2> QED BY <1>2, <1>3, <1>4, <2>1, <2>2, <2>3
<1>5. CASE r.kind = "xdg_surface"
  <2>1. a.kind = "xdg_surface"
    BY <1>3, <1>5
  <2>2. CASE a.surface = Lost
    <3>1. ShowFault(x) # "name"
      BY <1>2, <1>5 DEF ShowFault, SurfaceFault
    <3> QED BY <1>2, <2>1, <2>2, <3>1
  <2>3. CASE a.surface # Lost
    <3>1. PICK y : y = a.surface
      OBVIOUS
    <3>2. r.surface = y
      BY <1>1, <1>2, <2>1, <2>3, <3>1, XdgAtRest
    <3>3. y \in Id /\ account[y].kind = "surface"
      <4>1. y \in ClientId /\ client[y] = "surface"
        BY <1>1, <1>2, <2>1, <2>3, <3>1 DEF Accounts
      <4> QED BY <1>1, <4>1, IdFacts DEF Accounts, Freed
    <3>4. info[y].kind = "surface" /\ info[y] # NoRecord /\ InfoGet(y) = info[y]
      <4>1. info[y].kind = "surface"
        BY <1>1, <3>3, SurfaceAtRest
      <4> QED BY <3>3, <4>1 DEF InfoGet, NoRecord
    <3>5. ShowFault(x) = SurfaceFault(info[y])
      BY <1>2, <1>5, <3>2, <3>4 DEF ShowFault
    <3>6. account[y].buffer # Lost /\ Lost \notin account[y].attached
            => SurfaceFault(info[y]) = "none"
      BY <1>1, <3>3, SurfaceSafe
    <3>7. SurfaceFault(info[y]) \in {"none", "kind"}
      BY DEF SurfaceFault
    <3> QED BY <1>2, <2>1, <3>1, <3>5, <3>6, <3>7
  <2> QED BY <2>2, <2>3
<1>6. CASE r.kind = "seat"
  <2>1. ShowFault(x) = IF r.named THEN "none" ELSE "name"
    BY <1>2, <1>6 DEF ShowFault
  <2>2. PICK b \in BOOLEAN : r = [kind |-> "seat", named |-> b]
    BY <1>1, <1>2, <1>6, RecordKinds DEF IsSeat
  <2>3. r.named = b
    BY <2>2
  <2>4. ~b => info[x] = NewSeat
    BY <1>2, <2>2 DEF NewSeat
  <2> QED BY <2>1, <2>3, <2>4
<1>7. CASE r.kind \notin {"surface", "xdg_surface", "seat"}
  BY <1>2, <1>7 DEF ShowFault
<1> QED BY <1>4, <1>5, <1>6, <1>7

\* Whenever nothing is under way, every record says what the two peers would say
\* of the object: a surface's has the buffer that is attached, and of a commit the
\* buffer it brought; an xdg_surface's has its surface and, each in its place of
\* the ring, the last configures, marked if and only if the client has acknowledged
\* them; a buffer from a pool has its record; and no other object has one but
\* seats, whatever ids were used again (wl_surface_attach, wl_surface_commit,
\* xdg_surface_set_configure, xdg_surface_add_ack, wldbg_object_info_free).
THEOREM ShownRight == ObjSpec => []ShownAtRest
<1>1. Destroyed => ShownAtRest
  BY DEF Destroyed, ShownAtRest, Quiet
<1> QED BY <1>1, RestShown, ObjRest, PTL

\* Listing a record then comes to no harm for any other reason than a surface
\* that was destroyed under its xdg_surface, a buffer that was destroyed though it
\* is attached or committed, or the name of a seat that has not come yet
\* (print_objinfo, print_xdg_surface_info, print_wl_surface_info).
THEOREM ShowsSafe == ObjSpec => []ShowsSafely
<1>1. Destroyed => ShowsSafely
  BY DEF Destroyed, ShowsSafely, Quiet
<1> QED BY <1>1, RestShowsSafely, ObjRest, PTL
=============================================================================
