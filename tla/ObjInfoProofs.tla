---------------------------- MODULE ObjInfoProofs ----------------------------
(***************************************************************************)
(* The resolve pass knows the object of every message, for every protocol  *)
(* that can be resolved, any number of ids, any lengths of the queues and  *)
(* any objects the client begins with.                                     *)
(*                                                                         *)
(* What wldbg knows of an id depends on no other id, so the argument is    *)
(* made for one id at a time.  An id goes through a life: a client's is    *)
(* unused, asked for, seen by wldbg, known to the compositor, released and *)
(* gone, until it is unused again; one of the compositor's is vacant,      *)
(* announced, introduced and present.  Each stage says which messages      *)
(* about the id are under way, and where, what the table has for it and    *)
(* what the peers take it for; every step either does not concern the id   *)
(* (Untouched) or takes it to the same or to the next stage.               *)
(***************************************************************************)
EXTENDS ObjInfo, SequenceTheorems, TLAPS

-----------------------------------------------------------------------------
(* The table of IdsMap. *)

\* Inserting gives a table again, one that is as long as it must be.
LEMMA InsertIsMap ==
    ASSUME NEW S, "NULL" \in S, NEW map \in Seq(S), NEW id \in Nat, NEW data \in S
    PROVE  /\ Map!Insert(map, id, data) \in Seq(S)
           /\ Len(Map!Insert(map, id, data)) = IF id < Len(map) THEN Len(map) ELSE id + 1
<1> DEFINE count == IF id < Len(map) THEN Len(map) ELSE id + 1
           at(i) == IF i = id + 1 THEN data ELSE IF i <= Len(map) THEN map[i] ELSE "NULL"
<1>1. Len(map) \in Nat /\ count \in Nat
  BY LenProperties
<1>2. ASSUME NEW i \in 1 .. count PROVE at(i) \in S
  <2>1. CASE i # id + 1 /\ i <= Len(map)
    <3>1. i \in 1 .. Len(map)
      BY <1>1, <2>1
    <3> QED BY <2>1, <3>1, ElementOfSeq
  <2> QED BY <2>1
<1>3. Map!Insert(map, id, data) = [i \in 1 .. count |-> at(i)]
  BY DEF Map!Insert
<1> HIDE DEF count, at
<1>4. Map!Insert(map, id, data) \in Seq(S) /\ Len(Map!Insert(map, id, data)) = count
  BY <1>1, <1>2, <1>3
<1> QED BY <1>4 DEF count

\* What was inserted last under an id is what the id gives, and every other id
\* gives what it gave before, however far the table had to grow
\* (wldbg_ids_map_insert, wldbg_ids_map_get).
THEOREM InsertThenGet ==
    ASSUME NEW S, "NULL" \in S, NEW map \in Seq(S), NEW data \in S,
           NEW id \in Nat, NEW other \in Nat
    PROVE  Map!Get(Map!Insert(map, id, data), other) =
               IF other = id THEN data ELSE Map!Get(map, other)
<1> DEFINE new == Map!Insert(map, id, data)
<1>1. Len(map) \in Nat
  BY LenProperties
<1>2. Len(new) = IF id < Len(map) THEN Len(map) ELSE id + 1
  BY InsertIsMap
<1>3. \A i \in 1 .. Len(new) :
         new[i] = IF i = id + 1 THEN data ELSE IF i <= Len(map) THEN map[i] ELSE "NULL"
  BY <1>2 DEF Map!Insert
<1> HIDE DEF new
<1>4. CASE other = id
  <2>1. other < Len(new) /\ other + 1 \in 1 .. Len(new)
    BY <1>1, <1>2, <1>4
  <2> QED BY <1>3, <1>4, <2>1 DEF Map!Get, new
<1>5. CASE other # id /\ other < Len(map)
  <2>1. other < Len(new) /\ other + 1 \in 1 .. Len(new) /\ other + 1 <= Len(map)
    BY <1>1, <1>2, <1>5
  <2> QED BY <1>3, <1>5, <2>1 DEF Map!Get, new
<1>6. CASE other # id /\ ~(other < Len(map))
  <2>1. CASE other < Len(new)
    <3>1. other + 1 \in 1 .. Len(new) /\ ~(other + 1 <= Len(map))
      BY <1>1, <1>2, <1>6, <2>1
    <3> QED BY <1>3, <1>6, <2>1, <3>1 DEF Map!Get, new
  <2>2. CASE ~(other < Len(new))
    BY <1>6, <2>2 DEF Map!Get, new
  <2> QED BY <2>1, <2>2
<1> QED BY <1>4, <1>5, <1>6

\* Nothing is found in a table nothing was inserted into.
THEOREM EmptyGivesNull == \A id \in Nat : Map!Get(Map!EmptyMap, id) = "NULL"
BY DEF Map!Get, Map!EmptyMap

-----------------------------------------------------------------------------
(* What is on its way. *)

Here == requests["wldbg"]
Past == requests["server"]
Coming == events["wldbg"]
Going == events["client"]

\* The messages before and behind message j of q.
Part(q, j) ==
    [before |-> {q[k] : k \in 1 .. j - 1}, at |-> q[j],
     after |-> {q[k] : k \in j + 1 .. Len(q)}]

Parts(q) == {Part(q, j) : j \in 1 .. Len(q)}

\* wl_display.delete_id for object x.
Releases(m, x) == IsDeleteId(m) /\ m.data[3] = x

\* No message of the set S is about x, makes it, releases it or is its last; all
\* that are about x take it for an object of interface i, or for one that the
\* table shows as e.
Silent(S, x) == \A m \in S : m.id # x
Unmade(S, x) == \A m \in S : m.arg.new # x
Held(S, x) == \A m \in S : ~Releases(m, x)
Lasting(S, x) == \A m \in S : ~(m.id = x /\ m.ends)
Saying(S, x, i) == \A m \in S : m.id = x => m.intf = i
Telling(S, x, e) == \A m \in S : m.id = x => Shown(m.intf) = e

\* One message of q ends x, nothing behind it is about x.
EndsLast(q, x) ==
    \E p \in Parts(q) : /\ p.at.id = x /\ p.at.ends
                        /\ Lasting(p.before, x) /\ Silent(p.after, x)

\* One message of q makes x.
MadeOnce(q, x, i) ==
    \E p \in Parts(q) : /\ p.at.arg.new = x /\ p.at.arg.made = i
                        /\ Unmade(p.before, x) /\ Unmade(p.after, x)

\* ... and nothing before it is about x.
MadeFirst(q, x, i) ==
    \E p \in Parts(q) : /\ p.at.arg.new = x /\ p.at.arg.made = i /\ p.at.id # x
                        /\ Unmade(p.before, x) /\ Unmade(p.after, x) /\ Silent(p.before, x)

\* ... and what is before it is about the last object that had the id.
MadeAgain(q, x, i, e) ==
    \E p \in Parts(q) : /\ p.at.arg.new = x /\ p.at.arg.made = i /\ p.at.id # x
                        /\ Unmade(p.before, x) /\ Unmade(p.after, x)
                        /\ Telling(p.before, x, e) /\ Saying(p.after, x, i)

\* One message of q releases x, nothing behind it is about x.
ReleasedLast(q, x) ==
    \E p \in Parts(q) : /\ Releases(p.at, x) /\ Silent(p.after, x)
                        /\ Held(p.before, x) /\ Held(p.after, x)

-----------------------------------------------------------------------------
(* The life of an id. *)

\* The requests about x, an object of interface i: none follows the last one,
\* behind which the client sees z.
Speaks(x, i, z) ==
    /\ Saying(Range(Here), x, i) /\ Saying(Range(Past), x, i)
    /\ \/ client[x] = i /\ Lasting(Range(Here), x) /\ Lasting(Range(Past), x)
       \/ client[x] = z /\ EndsLast(Here, x) /\ Lasting(Range(Past), x)
       \/ client[x] = z /\ Silent(Range(Here), x) /\ EndsLast(Past, x)

Unasked(x) ==
    /\ Silent(Range(Here), x) /\ Silent(Range(Past), x)
    /\ Unmade(Range(Here), x) /\ Unmade(Range(Past), x)

Untold(x) ==
    /\ Silent(Range(Coming), x) /\ Held(Range(Coming), x)
    /\ Lasting(Range(Going), x) /\ Held(Range(Going), x)

\* A client's id is unused; its object is asked for, behind wldbg, and known to
\* the compositor; its release is sent, and behind wldbg.
Unused(x) ==
    /\ client[x] = "none" /\ server[x] = "none" /\ GetObject(x) \in {"FREE", "NULL"}
    /\ Unasked(x) /\ Untold(x)

Asked(x, i) ==
    /\ server[x] = "none" /\ GetObject(x) \in {"FREE", "NULL"} /\ Speaks(x, i, "zombie")
    /\ MadeFirst(Here, x, i) /\ Silent(Range(Past), x) /\ Unmade(Range(Past), x)
    /\ Untold(x)

Seen(x, i) ==
    /\ server[x] = "none" /\ GetObject(x) = Shown(i) /\ Speaks(x, i, "zombie")
    /\ Unmade(Range(Here), x) /\ MadeFirst(Past, x, i)
    /\ Untold(x)

Known(x, i) ==
    /\ server[x] = i /\ GetObject(x) = Shown(i) /\ Speaks(x, i, "zombie")
    /\ Unmade(Range(Here), x) /\ Unmade(Range(Past), x)
    /\ Saying(Range(Coming), x, i) /\ Lasting(Range(Coming), x) /\ Held(Range(Coming), x)
    /\ Lasting(Range(Going), x) /\ Held(Range(Going), x)

Ended(x, i) ==
    /\ \/ client[x] = "zombie"
       \/ client[x] = i /\ Fleeting(i) /\ Protocol[i].requests = <<>>
    /\ server[x] = "none" /\ Unasked(x)

Released(x, i) ==
    /\ Ended(x, i) /\ GetObject(x) = Shown(i)
    /\ Saying(Range(Coming), x, i) /\ ReleasedLast(Coming, x) /\ Held(Range(Going), x)

Gone(x, i) ==
    /\ Ended(x, i) /\ GetObject(x) = "FREE"
    /\ Silent(Range(Coming), x) /\ Held(Range(Coming), x) /\ ReleasedLast(Going, x)

\* A compositor's id is vacant; its object is announced, introduced behind wldbg
\* and present with the client.
Unsaid(y) == client[y] = "none" /\ Silent(Range(Here), y) /\ Silent(Range(Past), y)

Vacant(y) ==
    /\ server[y] = "none" /\ Unsaid(y)
    /\ Unmade(Range(Coming), y) /\ Unmade(Range(Going), y)
    /\ Telling(Range(Coming), y, GetObject(y))

Announced(y, i) ==
    /\ server[y] = i /\ Unsaid(y)
    /\ MadeAgain(Coming, y, i, GetObject(y)) /\ Unmade(Range(Going), y)

Introduced(y, i) ==
    /\ server[y] = i /\ Unsaid(y) /\ GetObject(y) = Shown(i)
    /\ Unmade(Range(Coming), y) /\ Saying(Range(Coming), y, i) /\ MadeOnce(Going, y, i)

Present(y, i) ==
    /\ server[y] = i /\ GetObject(y) = Shown(i) /\ Speaks(y, i, "none")
    /\ Unmade(Range(Coming), y) /\ Saying(Range(Coming), y, i) /\ Unmade(Range(Going), y)

Clients(x) ==
    Unused(x) \/ \E i \in Interface :
                    Asked(x, i) \/ Seen(x, i) \/ Known(x, i) \/ Released(x, i) \/ Gone(x, i)

Servers(y) ==
    Vacant(y) \/ \E i \in Interface \cap MadeByEvents :
                    Announced(y, i) \/ Introduced(y, i) \/ Present(y, i)

Display ==
    /\ client[1] = "display" /\ server[1] = "display" /\ GetObject(1) = "display"
    /\ Saying(Range(Here), 1, "display") /\ Saying(Range(Past), 1, "display")
    /\ Saying(Range(Coming), 1, "display")

-----------------------------------------------------------------------------
(* Messages and queues. *)

IsMessage(m, which, ids) ==
    /\ m.id \in Id /\ m.intf \in Interface /\ m.op \in DOMAIN Protocol[m.intf][which]
    /\ m.ends = Protocol[m.intf][which][m.op].ends
    /\ m.arg.new \in ids \cup {0}
    /\ MakesObject(Protocol[m.intf][which][m.op].sig) <=> m.arg.new # 0
    /\ m.arg.new # 0 =>
          /\ m.arg.made \in Protocol[m.intf][which][m.op].makes
          /\ m.data[NewIdWord(Protocol[m.intf][which][m.op].sig, m.data)] = m.arg.new

IsRequest(m) == IsMessage(m, "requests", ClientId)

IsEvent(m) ==
    \/ \E n \in ClientId : m = DeleteId(n)
    \/ IsMessage(m, "events", ServerId) /\ ~IsDeleteId(m) /\ (m.ends => m.id \in ClientId)

IsSeq(q) == q \in Seq(Range(q))

Queues ==
    /\ DOMAIN requests = {"wldbg", "server"} /\ DOMAIN events = {"wldbg", "client"}
    /\ IsSeq(Here) /\ IsSeq(Past) /\ IsSeq(Coming) /\ IsSeq(Going)
    /\ \A m \in Range(Here) \cup Range(Past) : IsRequest(m)
    /\ \A m \in Range(Coming) \cup Range(Going) : IsEvent(m)

Tables ==
    /\ client_objects \in Seq(Entry) /\ Len(client_objects) <= MaxClient + 1
    /\ server_objects \in Seq(Entry) /\ Len(server_objects) <= MaxServer - ServerStart + 1

Views ==
    /\ client \in [Id -> Interface \cup NoObject]
    /\ server \in [Id -> Interface \cup {"none"}]

Lives ==
    /\ Queues /\ Tables /\ Views /\ Display
    /\ \A x \in ClientId : Clients(x)
    /\ \A y \in ServerId : Servers(y)

-----------------------------------------------------------------------------
(* Queues. *)

LEMMA RangeIs == \A q : Range(q) = {q[k] : k \in DOMAIN q}
BY DEF Range

\* A sequence is one of its own elements.
LEMMA SeqIs ==
    ASSUME NEW q, IsSeq(q)
    PROVE  /\ Len(q) \in Nat /\ DOMAIN q = 1 .. Len(q)
           /\ Range(q) = {q[k] : k \in 1 .. Len(q)}
           /\ \A k \in 1 .. Len(q) : q[k] \in Range(q)
<1>1. q \in Seq(Range(q))
  BY DEF IsSeq
<1>2. Len(q) \in Nat /\ DOMAIN q = 1 .. Len(q)
  BY <1>1, LenProperties
<1> QED BY <1>2, RangeIs

LEMMA AnySeqIs ==
    ASSUME NEW S, NEW q \in Seq(S)
    PROVE  IsSeq(q)
<1>1. /\ Len(q) \in Nat /\ DOMAIN q = 1 .. Len(q)
      /\ q = [k \in 1 .. Len(q) |-> q[k]]
  BY LenProperties
<1>2. \A k \in 1 .. Len(q) : q[k] \in Range(q)
  BY <1>1, RangeIs
<1>3. q \in [1 .. Len(q) -> Range(q)]
  BY <1>1, <1>2
<1> QED BY <1>1, <1>3 DEF IsSeq

\* Putting a message at the end.
LEMMA AppendIs ==
    ASSUME NEW q, IsSeq(q), NEW m
    PROVE  /\ IsSeq(Append(q, m)) /\ Range(Append(q, m)) = Range(q) \cup {m}
           /\ Len(Append(q, m)) = Len(q) + 1 /\ Append(q, m)[Len(q) + 1] = m
           /\ \A k \in 1 .. Len(q) : Append(q, m)[k] = q[k]
<1> DEFINE S == Range(q) \cup {m}
           a == Append(q, m)
<1>1. q \in Seq(S) /\ m \in S /\ Len(q) \in Nat
  <2>1. q \in Seq(Range(q))
    BY DEF IsSeq
  <2> QED BY <2>1, SeqIs
<1>2. /\ a \in Seq(S) /\ Len(a) = Len(q) + 1 /\ a[Len(q) + 1] = m
      /\ \A k \in 1 .. Len(q) : a[k] = q[k]
  BY <1>1, AppendProperties
<1> HIDE DEF a
<1>3. IsSeq(a)
  BY <1>2, AnySeqIs
<1>4. Range(a) = {a[k] : k \in 1 .. Len(q) + 1} /\ Range(q) = {q[k] : k \in 1 .. Len(q)}
  BY <1>2, <1>3, SeqIs
<1>5. 1 .. Len(q) + 1 = (1 .. Len(q)) \cup {Len(q) + 1}
  BY <1>1
<1>6. Range(a) = Range(q) \cup {m}
  BY <1>2, <1>4, <1>5
<1> QED BY <1>2, <1>3, <1>6 DEF a

\* Taking the first message.
LEMMA TailIs ==
    ASSUME NEW q, IsSeq(q), q # <<>>
    PROVE  /\ IsSeq(Tail(q)) /\ Range(q) = {Head(q)} \cup Range(Tail(q))
           /\ Len(q) \in Nat \ {0} /\ Head(q) = q[1] /\ Len(Tail(q)) = Len(q) - 1
           /\ \A k \in 1 .. Len(q) - 1 : Tail(q)[k] = q[k + 1]
<1> DEFINE t == Tail(q)
           n == Len(q)
<1>1. q \in Seq(Range(q)) /\ n \in Nat
  BY SeqIs DEF IsSeq
<1>2. n # 0
  BY <1>1, EmptySeq
<1>3. Head(q) = q[1]
  BY <1>1, HeadTailProperties
<1>4. t \in Seq(Range(q)) /\ Len(t) = n - 1 /\ \A k \in 1 .. n - 1 : t[k] = q[k + 1]
  BY <1>1, HeadTailProperties
<1>5. IsSeq(t)
  BY <1>4, AnySeqIs
<1>6. Range(t) = {t[k] : k \in 1 .. n - 1} /\ Range(q) = {q[k] : k \in 1 .. n}
  BY <1>4, <1>5, SeqIs
<1> HIDE DEF n, t
<1>7. \A k \in 1 .. n : k = 1 \/ (k - 1 \in 1 .. n - 1 /\ q[k] = t[k - 1])
  BY <1>1, <1>2, <1>4
<1>8. \A k \in 1 .. n - 1 : k + 1 \in 1 .. n /\ t[k] = q[k + 1]
  BY <1>1, <1>4
<1>9. Range(q) \subseteq {Head(q)} \cup Range(t)
  BY <1>3, <1>6, <1>7
<1>10. {Head(q)} \cup Range(t) \subseteq Range(q)
  <2>1. q[1] \in Range(q)
    BY <1>1, <1>2, <1>6
  <2>2. Range(t) \subseteq Range(q)
    BY <1>6, <1>8
  <2> QED BY <1>3, <2>1, <2>2
<1> QED BY <1>1, <1>2, <1>3, <1>4, <1>5, <1>9, <1>10 DEF n, t

\* A message of q and those around it are all of q.
LEMMA PartsAre ==
    ASSUME NEW q, IsSeq(q), NEW p \in Parts(q)
    PROVE  Range(q) = p.before \cup {p.at} \cup p.after
<1>1. PICK j \in 1 .. Len(q) : p = Part(q, j)
  BY DEF Parts
<1>2. /\ p.before = {q[k] : k \in 1 .. j - 1} /\ p.at = q[j]
      /\ p.after = {q[k] : k \in j + 1 .. Len(q)}
  BY <1>1 DEF Part
<1>3. Range(q) = {q[k] : k \in 1 .. Len(q)} /\ Len(q) \in Nat
  BY SeqIs
<1>4. 1 .. Len(q) = (1 .. j - 1) \cup {j} \cup (j + 1 .. Len(q))
  BY <1>3
<1> QED BY <1>2, <1>3, <1>4

\* A message that is put at the end comes behind all others, ...
LEMMA PartsAppend ==
    ASSUME NEW q, IsSeq(q), NEW m
    PROVE  \A p \in Parts(q) :
              \E r \in Parts(Append(q, m)) :
                 r.before = p.before /\ r.at = p.at /\ r.after = p.after \cup {m}
<1> DEFINE a == Append(q, m)
           n == Len(q)
<1>1. /\ IsSeq(a) /\ Len(a) = n + 1 /\ a[n + 1] = m /\ \A k \in 1 .. n : a[k] = q[k]
      /\ n \in Nat /\ Range(q) = {q[k] : k \in 1 .. n}
  BY AppendIs, SeqIs
<1> HIDE DEF a, n
<1>2. ASSUME NEW p \in Parts(q)
      PROVE  \E r \in Parts(a) : r.before = p.before /\ r.at = p.at /\ r.after = p.after \cup {m}
  <2>1. PICK j \in 1 .. n : p = Part(q, j)
    BY DEF Parts, n
  <2>2. /\ p.before = {q[k] : k \in 1 .. j - 1} /\ p.at = q[j]
        /\ p.after = {q[k] : k \in j + 1 .. n}
    BY <2>1 DEF Part, n
  <2>3. Part(a, j) \in Parts(a)
    BY <1>1 DEF Parts
  <2>4. /\ Part(a, j).before = {a[k] : k \in 1 .. j - 1} /\ Part(a, j).at = a[j]
        /\ Part(a, j).after = {a[k] : k \in j + 1 .. n + 1}
    BY <1>1 DEF Part
  <2>5. {a[k] : k \in 1 .. j - 1} = {q[k] : k \in 1 .. j - 1} /\ a[j] = q[j]
    BY <1>1
  <2>6. {a[k] : k \in j + 1 .. n + 1} = {q[k] : k \in j + 1 .. n} \cup {m}
    <3>1. j + 1 .. n + 1 = (j + 1 .. n) \cup {n + 1}
      BY <1>1
    <3>2. {a[k] : k \in j + 1 .. n} = {q[k] : k \in j + 1 .. n}
      BY <1>1
    <3> QED BY <1>1, <3>1, <3>2
  <2> QED BY <2>2, <2>3, <2>4, <2>5, <2>6
<1> QED BY <1>2 DEF a

\* ... and all others come before it.
LEMMA PartsLast ==
    ASSUME NEW q, IsSeq(q), NEW m
    PROVE  \E r \in Parts(Append(q, m)) : r.before = Range(q) /\ r.at = m /\ r.after = {}
<1> DEFINE a == Append(q, m)
           n == Len(q)
<1>1. /\ IsSeq(a) /\ Len(a) = n + 1 /\ a[n + 1] = m /\ \A k \in 1 .. n : a[k] = q[k]
      /\ n \in Nat /\ Range(q) = {q[k] : k \in 1 .. n}
  BY AppendIs, SeqIs
<1> HIDE DEF a, n
<1>2. Part(a, n + 1) \in Parts(a)
  BY <1>1 DEF Parts
<1>3. /\ Part(a, n + 1).before = {a[k] : k \in 1 .. n + 1 - 1} /\ Part(a, n + 1).at = a[n + 1]
      /\ Part(a, n + 1).after = {a[k] : k \in n + 1 + 1 .. n + 1}
  BY <1>1 DEF Part
<1>4. n + 1 - 1 = n /\ n + 1 + 1 .. n + 1 = {}
  BY <1>1
<1>5. {a[k] : k \in 1 .. n} = {q[k] : k \in 1 .. n}
  BY <1>1
<1> QED BY <1>1, <1>2, <1>3, <1>4, <1>5 DEF a

\* The first message is the one, or comes before it.
LEMMA PartsTail ==
    ASSUME NEW q, IsSeq(q), q # <<>>, NEW p \in Parts(q)
    PROVE  \/ p.at = Head(q) /\ p.before = {} /\ p.after = Range(Tail(q))
           \/ /\ Head(q) \in p.before
              /\ \E r \in Parts(Tail(q)) :
                    r.at = p.at /\ r.after = p.after /\ r.before \subseteq p.before
<1> DEFINE t == Tail(q)
           n == Len(q)
<1>1. /\ IsSeq(t) /\ n \in Nat \ {0} /\ Head(q) = q[1] /\ Len(t) = n - 1
      /\ \A k \in 1 .. n - 1 : t[k] = q[k + 1]
  BY TailIs
<1>2. Range(t) = {t[k] : k \in 1 .. n - 1}
  BY <1>1, SeqIs
<1>3. PICK j \in 1 .. n : p = Part(q, j)
  BY DEF Parts
<1>4. /\ p.before = {q[k] : k \in 1 .. j - 1} /\ p.at = q[j]
      /\ p.after = {q[k] : k \in j + 1 .. n}
  BY <1>3 DEF Part
<1> HIDE DEF t, n
<1>5. {t[k] : k \in j .. n - 1} = {q[k] : k \in j + 1 .. n}
  <2>1. \A k \in j .. n - 1 : k \in 1 .. n - 1 /\ k + 1 \in j + 1 .. n
    BY <1>1
  <2>2. \A k \in j + 1 .. n : k - 1 \in j .. n - 1 /\ k - 1 \in 1 .. n - 1 /\ (k - 1) + 1 = k
    BY <1>1
  <2>3. {t[k] : k \in j .. n - 1} \subseteq {q[k] : k \in j + 1 .. n}
    BY <1>1, <2>1
  <2>4. {q[k] : k \in j + 1 .. n} \subseteq {t[k] : k \in j .. n - 1}
    <3> SUFFICES ASSUME NEW k \in j + 1 .. n PROVE q[k] \in {t[i] : i \in j .. n - 1}
      OBVIOUS
    <3>1. q[k] = t[k - 1] /\ k - 1 \in j .. n - 1
      <4>1. t[k - 1] = q[(k - 1) + 1]
        BY <1>1, <2>2
      <4> QED BY <2>2, <4>1
    <3> QED BY <3>1
  <2> QED BY <2>3, <2>4
<1>6. CASE j = 1
  <2>1. p.before = {} /\ p.at = Head(q)
    BY <1>1, <1>4, <1>6
  <2>2. p.after = Range(t)
    BY <1>2, <1>4, <1>5, <1>6
  <2> QED BY <2>1, <2>2 DEF t
<1>7. CASE j # 1
  <2>1. 1 \in 1 .. j - 1 /\ j - 1 \in 1 .. n - 1 /\ (j - 1) + 1 = j
    BY <1>1, <1>7
  <2>2. Head(q) \in p.before
    BY <1>1, <1>4, <2>1
  <2>3. Part(t, j - 1) \in Parts(t)
    BY <1>1, <2>1 DEF Parts
  <2>4. /\ Part(t, j - 1).before = {t[k] : k \in 1 .. j - 1 - 1} /\ Part(t, j - 1).at = t[j - 1]
        /\ Part(t, j - 1).after = {t[k] : k \in (j - 1) + 1 .. n - 1}
    BY <1>1 DEF Part
  <2>5. t[j - 1] = q[j]
    BY <1>1, <2>1
  <2>6. {t[k] : k \in 1 .. j - 1 - 1} \subseteq {q[k] : k \in 1 .. j - 1}
    <3> SUFFICES ASSUME NEW k \in 1 .. j - 1 - 1 PROVE t[k] \in {q[i] : i \in 1 .. j - 1}
      OBVIOUS
    <3>1. t[k] = q[k + 1] /\ k + 1 \in 1 .. j - 1
      BY <1>1
    <3> QED BY <3>1
  <2> QED BY <1>4, <1>5, <2>1, <2>2, <2>3, <2>4, <2>5, <2>6 DEF t
<1> QED BY <1>6, <1>7

\* What could be said of the messages of q about x can be said of r's.
Follows(q, r, x) ==
    /\ Silent(Range(q), x) => Silent(Range(r), x)
    /\ Unmade(Range(q), x) => Unmade(Range(r), x)
    /\ Lasting(Range(q), x) => Lasting(Range(r), x)
    /\ \A i : Saying(Range(q), x, i) => Saying(Range(r), x, i)
    /\ \A e : Telling(Range(q), x, e) => Telling(Range(r), x, e)
    /\ EndsLast(q, x) => EndsLast(r, x)
    /\ \A i : MadeOnce(q, x, i) => MadeOnce(r, x, i)
    /\ \A i : MadeFirst(q, x, i) => MadeFirst(r, x, i)
    /\ \A i, e : MadeAgain(q, x, i, e) => MadeAgain(r, x, i, e)

\* ... and of those that release it.
FollowsIn(q, r, x) ==
    /\ Follows(q, r, x)
    /\ Held(Range(q), x) => Held(Range(r), x)
    /\ ReleasedLast(q, x) => ReleasedLast(r, x)

LEMMA FollowsItself == \A q, x : Follows(q, q, x) /\ FollowsIn(q, q, x)
BY Zenon DEF Follows, FollowsIn

LEMMA FollowsOn ==
    \A q, r, s, x : FollowsIn(q, r, x) /\ FollowsIn(r, s, x) => FollowsIn(q, s, x)
BY DEF Follows, FollowsIn

\* Fewer messages say less.
LEMMA FewerSay ==
    ASSUME NEW S, NEW R, R \subseteq S, NEW x
    PROVE  /\ Silent(S, x) => Silent(R, x)
           /\ Unmade(S, x) => Unmade(R, x)
           /\ Held(S, x) => Held(R, x)
           /\ Lasting(S, x) => Lasting(R, x)
           /\ \A i : Saying(S, x, i) => Saying(R, x, i)
           /\ \A e : Telling(S, x, e) => Telling(R, x, e)
BY DEF Silent, Unmade, Held, Lasting, Saying, Telling

\* One more message that has nothing to do with x.
LEMMA OneMoreSays ==
    ASSUME NEW S, NEW m, NEW x
    PROVE  /\ m.id # x /\ Silent(S, x) => Silent(S \cup {m}, x)
           /\ m.arg.new # x /\ Unmade(S, x) => Unmade(S \cup {m}, x)
           /\ ~Releases(m, x) /\ Held(S, x) => Held(S \cup {m}, x)
           /\ (m.id = x => ~m.ends) /\ Lasting(S, x) => Lasting(S \cup {m}, x)
           /\ \A i : (m.id = x => m.intf = i) /\ Saying(S, x, i) => Saying(S \cup {m}, x, i)
           /\ \A e : m.id # x /\ Telling(S, x, e) => Telling(S \cup {m}, x, e)
BY DEF Silent, Unmade, Held, Lasting, Saying, Telling

\* A message that has nothing to do with x is put at the end.
LEMMA FollowsAppend ==
    ASSUME NEW q, IsSeq(q), NEW m, NEW x,
           m.id # x, m.arg.new # x
    PROVE  Follows(q, Append(q, m), x)
<1> DEFINE r == Append(q, m)
<1>1. Range(r) = Range(q) \cup {m}
  BY AppendIs
<1>2. \A p \in Parts(q) : \E o \in Parts(r) :
         o.before = p.before /\ o.at = p.at /\ o.after = p.after \cup {m}
  BY PartsAppend
<1> HIDE DEF r
<1>3. /\ Silent(Range(q), x) => Silent(Range(r), x)
      /\ Unmade(Range(q), x) => Unmade(Range(r), x)
      /\ Lasting(Range(q), x) => Lasting(Range(r), x)
      /\ \A i : Saying(Range(q), x, i) => Saying(Range(r), x, i)
      /\ \A e : Telling(Range(q), x, e) => Telling(Range(r), x, e)
  BY <1>1, OneMoreSays
<1>4. EndsLast(q, x) => EndsLast(r, x)
  <2> SUFFICES ASSUME NEW p \in Parts(q), p.at.id = x, p.at.ends,
                      Lasting(p.before, x), Silent(p.after, x)
               PROVE  EndsLast(r, x)
    BY DEF EndsLast
  <2>1. PICK o \in Parts(r) : o.before = p.before /\ o.at = p.at /\ o.after = p.after \cup {m}
    BY <1>2
  <2>2. Silent(o.after, x)
    BY <2>1 DEF Silent
  <2> QED BY <2>1, <2>2 DEF EndsLast
<1>6. ASSUME NEW i PROVE MadeOnce(q, x, i) => MadeOnce(r, x, i)
  <2> SUFFICES ASSUME NEW p \in Parts(q), p.at.arg.new = x, p.at.arg.made = i,
                      Unmade(p.before, x), Unmade(p.after, x)
               PROVE  MadeOnce(r, x, i)
    BY DEF MadeOnce
  <2>1. PICK o \in Parts(r) : o.before = p.before /\ o.at = p.at /\ o.after = p.after \cup {m}
    BY <1>2
  <2>2. Unmade(o.after, x)
    BY <2>1 DEF Unmade
  <2> QED BY <2>1, <2>2 DEF MadeOnce
<1>7. ASSUME NEW i PROVE MadeFirst(q, x, i) => MadeFirst(r, x, i)
  <2> SUFFICES ASSUME NEW p \in Parts(q), p.at.arg.new = x, p.at.arg.made = i, p.at.id # x,
                      Unmade(p.before, x), Unmade(p.after, x), Silent(p.before, x)
               PROVE  MadeFirst(r, x, i)
    BY DEF MadeFirst
  <2>1. PICK o \in Parts(r) : o.before = p.before /\ o.at = p.at /\ o.after = p.after \cup {m}
    BY <1>2
  <2>2. Unmade(o.after, x)
    BY <2>1 DEF Unmade
  <2> QED BY <2>1, <2>2 DEF MadeFirst
<1>8. ASSUME NEW i, NEW e PROVE MadeAgain(q, x, i, e) => MadeAgain(r, x, i, e)
  <2> SUFFICES ASSUME NEW p \in Parts(q), p.at.arg.new = x, p.at.arg.made = i, p.at.id # x,
                      Unmade(p.before, x), Unmade(p.after, x),
                      Telling(p.before, x, e), Saying(p.after, x, i)
               PROVE  MadeAgain(r, x, i, e)
    BY DEF MadeAgain
  <2>1. PICK o \in Parts(r) : o.before = p.before /\ o.at = p.at /\ o.after = p.after \cup {m}
    BY <1>2
  <2>2. Unmade(o.after, x) /\ Saying(o.after, x, i)
    BY <2>1 DEF Unmade, Saying
  <2> QED BY <2>1, <2>2 DEF MadeAgain
<1> QED BY <1>3, <1>4, <1>6, <1>7, <1>8, Zenon DEF Follows, r

LEMMA FollowsInAppend ==
    ASSUME NEW q, IsSeq(q), NEW m, NEW x,
           m.id # x, m.arg.new # x, ~Releases(m, x)
    PROVE  FollowsIn(q, Append(q, m), x)
<1> DEFINE r == Append(q, m)
<1>1. Range(r) = Range(q) \cup {m}
  BY AppendIs
<1>2. \A p \in Parts(q) : \E o \in Parts(r) :
         o.before = p.before /\ o.at = p.at /\ o.after = p.after \cup {m}
  BY PartsAppend
<1>3. Follows(q, r, x)
  BY FollowsAppend
<1> HIDE DEF r
<1>4. Held(Range(q), x) => Held(Range(r), x)
  BY <1>1, OneMoreSays
<1>5. ReleasedLast(q, x) => ReleasedLast(r, x)
  <2> SUFFICES ASSUME NEW p \in Parts(q), Releases(p.at, x), Silent(p.after, x),
                      Held(p.before, x), Held(p.after, x)
               PROVE  ReleasedLast(r, x)
    BY DEF ReleasedLast
  <2>1. PICK o \in Parts(r) : o.before = p.before /\ o.at = p.at /\ o.after = p.after \cup {m}
    BY <1>2
  <2>2. Silent(o.after, x) /\ Held(o.after, x)
    BY <2>1 DEF Silent, Held
  <2> QED BY <2>1, <2>2 DEF ReleasedLast
<1> QED BY <1>3, <1>4, <1>5, Zenon DEF FollowsIn, r

\* The first message is taken; it does not make, release or end x.
LEMMA FollowsTail ==
    ASSUME NEW q, IsSeq(q), q # <<>>, NEW x,
           Head(q).arg.new # x, Head(q).id = x => ~Head(q).ends
    PROVE  Follows(q, Tail(q), x)
<1> DEFINE r == Tail(q)
           h == Head(q)
<1>1. Range(r) \subseteq Range(q)
  BY TailIs
<1>2. \A p \in Parts(q) : p.at # h => \E o \in Parts(r) :
         o.at = p.at /\ o.after = p.after /\ o.before \subseteq p.before
  BY PartsTail
<1> HIDE DEF r
<1>3. /\ Silent(Range(q), x) => Silent(Range(r), x)
      /\ Unmade(Range(q), x) => Unmade(Range(r), x)
      /\ Lasting(Range(q), x) => Lasting(Range(r), x)
      /\ \A i : Saying(Range(q), x, i) => Saying(Range(r), x, i)
      /\ \A e : Telling(Range(q), x, e) => Telling(Range(r), x, e)
  BY <1>1, FewerSay
<1>4. EndsLast(q, x) => EndsLast(r, x)
  <2> SUFFICES ASSUME NEW p \in Parts(q), p.at.id = x, p.at.ends,
                      Lasting(p.before, x), Silent(p.after, x)
               PROVE  EndsLast(r, x)
    BY DEF EndsLast
  <2>1. PICK o \in Parts(r) : o.at = p.at /\ o.after = p.after /\ o.before \subseteq p.before
    BY <1>2
  <2>2. Lasting(o.before, x)
    BY <2>1 DEF Lasting
  <2> QED BY <2>1, <2>2 DEF EndsLast
<1>6. ASSUME NEW i PROVE MadeOnce(q, x, i) => MadeOnce(r, x, i)
  <2> SUFFICES ASSUME NEW p \in Parts(q), p.at.arg.new = x, p.at.arg.made = i,
                      Unmade(p.before, x), Unmade(p.after, x)
               PROVE  MadeOnce(r, x, i)
    BY DEF MadeOnce
  <2>1. PICK o \in Parts(r) : o.at = p.at /\ o.after = p.after /\ o.before \subseteq p.before
    BY <1>2
  <2>2. Unmade(o.before, x)
    BY <2>1 DEF Unmade
  <2> QED BY <2>1, <2>2 DEF MadeOnce
<1>7. ASSUME NEW i PROVE MadeFirst(q, x, i) => MadeFirst(r, x, i)
  <2> SUFFICES ASSUME NEW p \in Parts(q), p.at.arg.new = x, p.at.arg.made = i, p.at.id # x,
                      Unmade(p.before, x), Unmade(p.after, x), Silent(p.before, x)
               PROVE  MadeFirst(r, x, i)
    BY DEF MadeFirst
  <2>1. PICK o \in Parts(r) : o.at = p.at /\ o.after = p.after /\ o.before \subseteq p.before
    BY <1>2
  <2>2. Unmade(o.before, x) /\ Silent(o.before, x)
    BY <2>1 DEF Silent, Unmade
  <2> QED BY <2>1, <2>2 DEF MadeFirst
<1>8. ASSUME NEW i, NEW e PROVE MadeAgain(q, x, i, e) => MadeAgain(r, x, i, e)
  <2> SUFFICES ASSUME NEW p \in Parts(q), p.at.arg.new = x, p.at.arg.made = i, p.at.id # x,
                      Unmade(p.before, x), Unmade(p.after, x),
                      Telling(p.before, x, e), Saying(p.after, x, i)
               PROVE  MadeAgain(r, x, i, e)
    BY DEF MadeAgain
  <2>1. PICK o \in Parts(r) : o.at = p.at /\ o.after = p.after /\ o.before \subseteq p.before
    BY <1>2
  <2>2. Unmade(o.before, x) /\ Telling(o.before, x, e)
    BY <2>1 DEF Unmade, Telling
  <2> QED BY <2>1, <2>2 DEF MadeAgain
<1> QED BY <1>3, <1>4, <1>6, <1>7, <1>8, Zenon DEF Follows, r

LEMMA FollowsInTail ==
    ASSUME NEW q, IsSeq(q), q # <<>>, NEW x, Head(q).arg.new # x, ~Releases(Head(q), x),
           Head(q).id = x => ~Head(q).ends
    PROVE  FollowsIn(q, Tail(q), x)
<1> DEFINE r == Tail(q)
           h == Head(q)
<1>1. Range(r) \subseteq Range(q)
  BY TailIs
<1>2. \A p \in Parts(q) : p.at # h => \E o \in Parts(r) :
         o.at = p.at /\ o.after = p.after /\ o.before \subseteq p.before
  BY PartsTail
<1>3. Follows(q, r, x)
  BY FollowsTail
<1> HIDE DEF r
<1>4. Held(Range(q), x) => Held(Range(r), x)
  BY <1>1, FewerSay
<1>5. ReleasedLast(q, x) => ReleasedLast(r, x)
  <2> SUFFICES ASSUME NEW p \in Parts(q), Releases(p.at, x), Silent(p.after, x),
                      Held(p.before, x), Held(p.after, x)
               PROVE  ReleasedLast(r, x)
    BY DEF ReleasedLast
  <2>1. PICK o \in Parts(r) : o.at = p.at /\ o.after = p.after /\ o.before \subseteq p.before
    BY <1>2
  <2>2. Held(o.before, x)
    BY <2>1 DEF Held
  <2> QED BY <2>1, <2>2 DEF ReleasedLast
<1> QED BY <1>3, <1>4, <1>5, Zenon DEF FollowsIn, r

-----------------------------------------------------------------------------
(* What does not concern an id leaves it as it is. *)

LEMMA SpeaksKept ==
    ASSUME NEW x, NEW i, NEW z, client'[x] = client[x],
           Follows(Here, Here', x), Follows(Past, Past', x), Speaks(x, i, z)
    PROVE  Speaks(x, i, z)'
<1>1. /\ Saying(Range(Here), x, i) => Saying(Range(Here'), x, i)
      /\ Lasting(Range(Here), x) => Lasting(Range(Here'), x)
      /\ Silent(Range(Here), x) => Silent(Range(Here'), x)
      /\ EndsLast(Here, x) => EndsLast(Here', x)
  BY Zenon DEF Follows
<1>2. /\ Saying(Range(Past), x, i) => Saying(Range(Past'), x, i)
      /\ Lasting(Range(Past), x) => Lasting(Range(Past'), x)
      /\ EndsLast(Past, x) => EndsLast(Past', x)
  BY Zenon DEF Follows
<1> QED BY <1>1, <1>2 DEF Speaks

LEMMA UnaskedKept ==
    ASSUME NEW x, Follows(Here, Here', x), Follows(Past, Past', x), Unasked(x)
    PROVE  Unasked(x)'
BY DEF Follows, Unasked

LEMMA UntoldKept ==
    ASSUME NEW x, FollowsIn(Coming, Coming', x), FollowsIn(Going, Going', x), Untold(x)
    PROVE  Untold(x)'
BY DEF Follows, FollowsIn, Untold

\* All that is known of id x, and what is on its way about it, is as before.
Untouched(x) ==
    /\ client'[x] = client[x] /\ server'[x] = server[x] /\ GetObject(x)' = GetObject(x)
    /\ Follows(Here, Here', x) /\ Follows(Past, Past', x)
    /\ FollowsIn(Coming, Coming', x) /\ FollowsIn(Going, Going', x)

LEMMA ClientsKept ==
    ASSUME NEW x, Untouched(x), Clients(x)
    PROVE  Clients(x)'
<1>1. /\ client'[x] = client[x] /\ server'[x] = server[x] /\ GetObject(x)' = GetObject(x)
      /\ Follows(Here, Here', x) /\ Follows(Past, Past', x)
      /\ FollowsIn(Coming, Coming', x) /\ FollowsIn(Going, Going', x)
  BY DEF Untouched
<1>2. Unused(x) => Unused(x)'
  BY <1>1, UnaskedKept, UntoldKept DEF Unused
<1>3. ASSUME NEW i, Asked(x, i) PROVE Asked(x, i)'
  <2>1. Speaks(x, i, "zombie")' /\ Untold(x)'
    BY <1>1, <1>3, SpeaksKept, UntoldKept DEF Asked
  <2>2. MadeFirst(Here', x, i) /\ Silent(Range(Past'), x) /\ Unmade(Range(Past'), x)
    BY <1>1, <1>3 DEF Asked, Follows, FollowsIn
  <2> QED BY <1>1, <1>3, <2>1, <2>2 DEF Asked
<1>4. ASSUME NEW i, Seen(x, i) PROVE Seen(x, i)'
  <2>1. Speaks(x, i, "zombie")' /\ Untold(x)'
    BY <1>1, <1>4, SpeaksKept, UntoldKept DEF Seen
  <2>2. Unmade(Range(Here'), x) /\ MadeFirst(Past', x, i)
    BY <1>1, <1>4 DEF Seen, Follows, FollowsIn
  <2> QED BY <1>1, <1>4, <2>1, <2>2 DEF Seen
<1>5. ASSUME NEW i, Known(x, i) PROVE Known(x, i)'
  <2>1. Speaks(x, i, "zombie")'
    BY <1>1, <1>5, SpeaksKept DEF Known
  <2>2. Unmade(Range(Here'), x) /\ Unmade(Range(Past'), x)
    BY <1>1, <1>5 DEF Known, Follows, FollowsIn
  <2>3. Saying(Range(Coming'), x, i) /\ Lasting(Range(Coming'), x) /\ Held(Range(Coming'), x)
    BY <1>1, <1>5 DEF Known, Follows, FollowsIn
  <2>4. Lasting(Range(Going'), x) /\ Held(Range(Going'), x)
    BY <1>1, <1>5 DEF Known, Follows, FollowsIn
  <2> QED BY <1>1, <1>5, <2>1, <2>2, <2>3, <2>4 DEF Known
<1>6. ASSUME NEW i, Ended(x, i) PROVE Ended(x, i)'
  BY <1>1, <1>6, UnaskedKept DEF Ended
<1>7. ASSUME NEW i, Released(x, i) PROVE Released(x, i)'
  <2>1. Ended(x, i)'
    BY <1>6, <1>7 DEF Released
  <2>2. Saying(Range(Coming'), x, i) /\ ReleasedLast(Coming', x) /\ Held(Range(Going'), x)
    BY <1>1, <1>7 DEF Released, Follows, FollowsIn
  <2> QED BY <1>1, <1>7, <2>1, <2>2 DEF Released
<1>8. ASSUME NEW i, Gone(x, i) PROVE Gone(x, i)'
  <2>1. Ended(x, i)'
    BY <1>6, <1>8 DEF Gone
  <2>2. Silent(Range(Coming'), x) /\ Held(Range(Coming'), x) /\ ReleasedLast(Going', x)
    BY <1>1, <1>8 DEF Gone, Follows, FollowsIn
  <2> QED BY <1>1, <1>8, <2>1, <2>2 DEF Gone
<1> QED BY <1>2, <1>3, <1>4, <1>5, <1>7, <1>8, Zenon DEF Clients

LEMMA ServersKept ==
    ASSUME NEW y, Untouched(y), Servers(y)
    PROVE  Servers(y)'
<1>1. /\ client'[y] = client[y] /\ server'[y] = server[y] /\ GetObject(y)' = GetObject(y)
      /\ Follows(Here, Here', y) /\ Follows(Past, Past', y)
      /\ FollowsIn(Coming, Coming', y) /\ FollowsIn(Going, Going', y)
  BY DEF Untouched
<1>2. Unsaid(y) => Unsaid(y)'
  BY <1>1 DEF Unsaid, Follows, FollowsIn
<1>3. ASSUME Vacant(y) PROVE Vacant(y)'
  <2>1. /\ Unmade(Range(Coming'), y) /\ Unmade(Range(Going'), y)
        /\ Telling(Range(Coming'), y, GetObject(y))
    BY <1>1, <1>3 DEF Vacant, Follows, FollowsIn
  <2> QED BY <1>1, <1>2, <1>3, <2>1 DEF Vacant
<1>4. ASSUME NEW i, Announced(y, i) PROVE Announced(y, i)'
  <2>1. MadeAgain(Coming', y, i, GetObject(y)) /\ Unmade(Range(Going'), y)
    BY <1>1, <1>4 DEF Announced, Follows, FollowsIn
  <2> QED BY <1>1, <1>2, <1>4, <2>1 DEF Announced
<1>5. ASSUME NEW i, Introduced(y, i) PROVE Introduced(y, i)'
  <2>1. /\ Unmade(Range(Coming'), y) /\ Saying(Range(Coming'), y, i)
        /\ MadeOnce(Going', y, i)
    BY <1>1, <1>5 DEF Introduced, Follows, FollowsIn
  <2> QED BY <1>1, <1>2, <1>5, <2>1 DEF Introduced
<1>6. ASSUME NEW i, Present(y, i) PROVE Present(y, i)'
  <2>1. Speaks(y, i, "none")'
    BY <1>1, <1>6, SpeaksKept DEF Present
  <2>2. /\ Unmade(Range(Coming'), y) /\ Saying(Range(Coming'), y, i)
        /\ Unmade(Range(Going'), y)
    BY <1>1, <1>6 DEF Present, Follows, FollowsIn
  <2> QED BY <1>1, <1>6, <2>1, <2>2 DEF Present
<1> QED BY <1>3, <1>4, <1>5, <1>6, Zenon DEF Servers

-----------------------------------------------------------------------------
(* Ids, tables and protocols. *)

LEMMA IdFacts ==
    /\ MaxClient \in Nat /\ ServerStart \in Nat /\ MaxServer \in Nat
    /\ MaxRequests \in Nat /\ MaxEvents \in Nat
    /\ 1 \in Id /\ ClientId \subseteq Id /\ ServerId \subseteq Id /\ 0 \notin Id
    /\ Id = {1} \cup ClientId \cup ServerId /\ Id \subseteq Nat
    /\ 1 \notin ClientId /\ 1 \notin ServerId /\ ClientId \cap ServerId = {}
    /\ \A x \in {1} \cup ClientId : x < ServerStart /\ x <= MaxClient
    /\ \A y \in ServerId : y >= ServerStart /\ y <= MaxServer
BY ResolverAssumption DEF ResolverAssumption, Id, ClientId, ServerId

LEMMA TableWords ==
    /\ "NULL" \in Entry /\ "FREE" \in Entry /\ \A i : Shown(i) \in Entry
    /\ Loaded \subseteq Interface /\ "display" \in Loaded
    /\ \A i \in Loaded : Shown(i) = i
    /\ \A i : i \notin Loaded => Shown(i) = "unknown"
    /\ Interface \cap (NoObject \cup Special \cup {"NULL"}) = {}
    /\ "unknown" \notin Loaded
<1>1. Interface \cap (NoObject \cup Special \cup {"NULL"}) = {}
  BY ObjInfoAssumption DEF ObjInfoAssumption, Resolvable
<1>2. Loaded \subseteq Interface /\ "display" \in Loaded
  BY ResolverAssumption DEF ResolverAssumption, Interface
<1>3. "unknown" \in Special
  BY DEF Special
<1> QED BY <1>1, <1>2, <1>3 DEF Entry, Shown, Special

\* resolved_objects_put changes the entry of its id alone.
LEMMA PutIs ==
    ASSUME Tables, NEW id \in Id, NEW e \in Entry, Put(id, e)
    PROVE  /\ Tables'
           /\ \A x \in Id : GetObject(x)' = IF x = id THEN e ELSE GetObject(x)
<1>1. client_objects \in Seq(Entry) /\ Len(client_objects) <= MaxClient + 1
  BY DEF Tables
<1>2. server_objects \in Seq(Entry) /\ Len(server_objects) <= MaxServer - ServerStart + 1
  BY DEF Tables
<1>3. CASE id >= ServerStart
  <2> DEFINE k == id - ServerStart
  <2>1. server_objects' = Map!Insert(server_objects, k, e) /\ client_objects' = client_objects
    BY <1>3 DEF Put
  <2>2. k \in Nat /\ k + 1 <= MaxServer - ServerStart + 1 /\ "NULL" \in Entry
    BY <1>3, IdFacts, TableWords
  <2> HIDE DEF k
  <2>3. server_objects' \in Seq(Entry)
    BY <1>2, <2>1, <2>2, InsertIsMap, Zenon
  <2>4. Len(server_objects') = IF k < Len(server_objects) THEN Len(server_objects) ELSE k + 1
    BY <1>2, <2>1, <2>2, InsertIsMap, Zenon
  <2>5. Tables'
    BY <1>1, <1>2, <2>1, <2>2, <2>3, <2>4 DEF Tables
  <2>6. ASSUME NEW x \in Id PROVE GetObject(x)' = IF x = id THEN e ELSE GetObject(x)
    <3>1. CASE x >= ServerStart
      <4> DEFINE o == x - ServerStart
      <4>1. o \in Nat /\ (o = k <=> x = id)
        BY <1>3, <3>1, IdFacts DEF k
      <4>2. GetObject(x) = Map!Get(server_objects, o)
            /\ GetObject(x)' = Map!Get(server_objects', o)
        BY <3>1 DEF GetObject
      <4> HIDE DEF o
      <4>3. Map!Get(Map!Insert(server_objects, k, e), o)
            = IF o = k THEN e ELSE Map!Get(server_objects, o)
        BY <1>2, <2>2, <4>1, InsertThenGet
      <4> QED BY <2>1, <4>1, <4>2, <4>3
    <3>2. CASE ~(x >= ServerStart)
      BY <1>3, <2>1, <3>2 DEF GetObject
    <3> QED BY <3>1, <3>2
  <2> QED BY <2>5, <2>6
<1>4. CASE ~(id >= ServerStart)
  <2>1. client_objects' = Map!Insert(client_objects, id, e) /\ server_objects' = server_objects
    BY <1>4 DEF Put
  <2>2. id \in Nat /\ id <= MaxClient /\ "NULL" \in Entry
    BY <1>4, IdFacts, TableWords
  <2>3. client_objects' \in Seq(Entry)
    BY <1>1, <2>1, <2>2, InsertIsMap, Zenon
  <2>4. Len(client_objects') = IF id < Len(client_objects) THEN Len(client_objects) ELSE id + 1
    BY <1>1, <2>1, <2>2, InsertIsMap, Zenon
  <2>5. Tables'
    BY <1>1, <1>2, <2>1, <2>2, <2>3, <2>4, IdFacts DEF Tables
  <2>6. ASSUME NEW x \in Id PROVE GetObject(x)' = IF x = id THEN e ELSE GetObject(x)
    <3>1. CASE ~(x >= ServerStart)
      <4>1. GetObject(x) = Map!Get(client_objects, x)
            /\ GetObject(x)' = Map!Get(client_objects', x)
        BY <3>1 DEF GetObject
      <4>2. x \in Nat
        BY IdFacts
      <4>3. Map!Get(Map!Insert(client_objects, id, e), x)
            = IF x = id THEN e ELSE Map!Get(client_objects, x)
        BY <1>1, <2>2, <4>2, InsertThenGet
      <4> QED BY <2>1, <4>1, <4>3
    <3>2. CASE x >= ServerStart
      BY <1>4, <2>1, <3>2 DEF GetObject
    <3> QED BY <3>1, <3>2
  <2> QED BY <2>5, <2>6
<1> QED BY <1>3, <1>4

LEMMA NoPut ==
    ASSUME Tables, UNCHANGED <<client_objects, server_objects>>
    PROVE  Tables' /\ \A x : GetObject(x)' = GetObject(x)
BY DEF Tables, GetObject

\* What Resolvable says of message op of interface i.
LEMMA MessageFacts ==
    ASSUME NEW i \in Interface, NEW which \in {"requests", "events"},
           NEW op \in DOMAIN Protocol[i][which]
    PROVE  LET msg == Protocol[i][which][op]
           IN  /\ op \in Nat /\ op <= Len(Protocol[i][which])
               /\ msg \in Range(Protocol[i][which])
               /\ msg.ends \in BOOLEAN /\ (i = "display" => ~msg.ends)
               /\ MakesObject(msg.sig) =>
                     /\ i \in Loaded /\ msg.makes \subseteq Interface
                     /\ Typed(msg, which = "requests" /\ i = "registry" /\ op = 1)
                     /\ Readable(msg, op)
<1> DEFINE msgs == Protocol[i][which]
<1>1. /\ msgs \in Seq(Range(msgs))
      /\ msgs[op].ends \in BOOLEAN /\ (i = "display" => ~msgs[op].ends)
      /\ MakesObject(msgs[op].sig) =>
            /\ i \in Loaded /\ msgs[op].makes \subseteq Interface
            /\ Typed(msgs[op], which = "requests" /\ i = "registry" /\ op = 1)
            /\ Readable(msgs[op], op)
  BY ObjInfoAssumption DEF ObjInfoAssumption, Resolvable
<1> HIDE DEF msgs
<1>2. op \in 1 .. Len(msgs) /\ Len(msgs) \in Nat /\ msgs[op] \in Range(msgs)
  <2>1. Len(msgs) \in Nat /\ DOMAIN msgs = 1 .. Len(msgs)
    BY <1>1, LenProperties
  <2>2. op \in DOMAIN msgs
    BY DEF msgs
  <2> QED BY <2>1, <2>2, RangeIs
<1> QED BY <1>1, <1>2 DEF msgs

\* What an event that ends objects of interface i says of it.
LEMMA EndingFacts ==
    ASSUME NEW i \in Interface, NEW op \in DOMAIN Protocol[i].events,
           Protocol[i].events[op].ends
    PROVE  /\ Fleeting(i) /\ Protocol[i].requests = <<>>
           /\ i \notin MadeByEvents /\ i # "display"
<1>1. Protocol[i].events[op] \in Range(Protocol[i].events)
  BY RangeIs
<1>2. Fleeting(i)
  BY <1>1 DEF Fleeting
<1>3. Protocol[i].requests = <<>> /\ i \notin MadeByEvents
  BY <1>2, ObjInfoAssumption DEF ObjInfoAssumption, Resolvable
<1>4. i # "display"
  BY MessageFacts
<1> QED BY <1>2, <1>3, <1>4

\* The arguments a peer may put into message msg.
ArgsOf(msg) ==
    [new : {0} \cup ClientId \cup ServerId, made : msg.makes, obj : {0} \cup Id,
     number : msg.numbers]

\* Message m as it is written by a peer that sees the objects view.
Meaning(m, which, view) ==
    LET msg == Protocol[m.intf][which][m.op]
    IN  /\ m.data = Wire(m.id, m.op, msg.sig, m.arg)
        /\ m.arg \in ArgsOf(msg) /\ m.arg.obj \in Named(msg, view)

\* A message that a peer writes.
LEMMA MessagesAre ==
    ASSUME NEW id \in Id, NEW i \in Interface, NEW which \in {"requests", "events"},
           NEW view, NEW ids, ids = ClientId \/ ids = ServerId, NEW fresh \in SUBSET ids,
           NEW m \in Messages(id, i, Protocol[i][which], view, fresh)
    PROVE  /\ IsMessage(m, which, ids) /\ m.id = id /\ m.intf = i
           /\ m.arg.new # 0 => m.arg.new \in fresh
           /\ Meaning(m, which, view)
<1> DEFINE msgs == Protocol[i][which]
<1>1. PICK op \in DOMAIN msgs : \E a \in Arguments(msgs[op], view, fresh) :
         m = [id |-> id, intf |-> i, op |-> op, ends |-> msgs[op].ends, arg |-> a,
              data |-> Wire(id, op, msgs[op].sig, a)]
  BY DEF Messages
<1>2. PICK a \in Arguments(msgs[op], view, fresh) :
         m = [id |-> id, intf |-> i, op |-> op, ends |-> msgs[op].ends, arg |-> a,
              data |-> Wire(id, op, msgs[op].sig, a)]
  BY <1>1
<1> DEFINE msg == msgs[op]
<1>3. /\ m.id = id /\ m.intf = i /\ m.op = op /\ m.ends = msg.ends
      /\ m.arg = a /\ m.data = Wire(id, op, msg.sig, a)
  BY <1>2
<1>4. MakesObject(msg.sig) =>
         i \in Loaded /\ msg.makes \subseteq Interface /\ Readable(msg, op)
  BY MessageFacts
<1> HIDE DEF msg
<1>5. /\ a \in [new : IF MakesObject(msg.sig) THEN fresh ELSE {0}, made : msg.makes,
                obj : Named(msg, view), number : msg.numbers]
  BY DEF Arguments, msg
<1>6. /\ a.new \in (IF MakesObject(msg.sig) THEN fresh ELSE {0}) /\ a.made \in msg.makes
      /\ a.obj \in Named(msg, view) /\ a.number \in msg.numbers
      /\ a = [new |-> a.new, made |-> a.made, obj |-> a.obj, number |-> a.number]
  BY <1>5
<1>7. 0 \notin ids /\ ids \subseteq ClientId \cup ServerId
  BY IdFacts
<1>8. MakesObject(msg.sig) => m.data[NewIdWord(msg.sig, m.data)] = a.new
  <2> SUFFICES ASSUME MakesObject(msg.sig)
               PROVE  m.data[NewIdWord(msg.sig, m.data)] = a.new
    OBVIOUS
  <2>1. a.obj \in Id \cup {0}
    BY <1>6 DEF Named
  <2>2. a.new \in ClientId \cup ServerId
    BY <1>6, <1>7
  <2>3. a \in [new : ClientId \cup ServerId, made : msg.makes, obj : Id \cup {0},
               number : msg.numbers]
    BY <1>6, <2>1, <2>2
  <2>4. LET data == Wire(id, op, msg.sig, a) IN data[NewIdWord(msg.sig, data)] = a.new
    BY <1>4, <2>3 DEF Readable
  <2> QED BY <1>3, <2>4
<1>9. (MakesObject(msg.sig) <=> a.new # 0) /\ a.new \in ids \cup {0}
      /\ (a.new # 0 => a.new \in fresh)
  BY <1>6, <1>7
<1>10. a \in ArgsOf(msg)
  <2>1. a.obj \in {0} \cup Id
    BY <1>6 DEF Named
  <2>2. a.new \in {0} \cup ClientId \cup ServerId
    BY <1>6, <1>7
  <2> QED BY <1>6, <2>1, <2>2 DEF ArgsOf
<1>11. Meaning(m, which, view)
  BY <1>3, <1>6, <1>10 DEF Meaning, msg
<1> QED BY <1>3, <1>6, <1>8, <1>9, <1>11 DEF IsMessage, msg

\* The interface that get_new_ids gives the new object of m is the object's.
LEMMA NewObject ==
    ASSUME NEW which \in {"requests", "events"}, NEW ids, NEW m, IsMessage(m, which, ids),
           m.arg.new # 0
    PROVE  LET msg == Protocol[m.intf][which][m.op]
               named == which = "requests" /\ m.intf = "registry" /\ m.op = 1
           IN  /\ m.intf \in Loaded /\ m.arg.made \in Interface
               /\ TypeOf(msg, IF named THEN m.arg.made ELSE "none") = Shown(m.arg.made)
<1> DEFINE msg == Protocol[m.intf][which][m.op]
           named == which = "requests" /\ m.intf = "registry" /\ m.op = 1
<1>1. /\ m.intf \in Interface /\ m.op \in DOMAIN Protocol[m.intf][which]
      /\ MakesObject(msg.sig) /\ m.arg.made \in msg.makes
  BY DEF IsMessage
<1>2. m.intf \in Loaded /\ msg.makes \subseteq Interface /\ Typed(msg, named)
  BY <1>1, MessageFacts
<1> HIDE DEF msg, named
<1>3. TypeOf(msg, IF named THEN m.arg.made ELSE "none") = Shown(m.arg.made)
  BY <1>1, <1>2 DEF Typed
<1> QED BY <1>1, <1>2, <1>3 DEF msg, named

\* The new object of message m, if any, gets its interface.
Resolves(m) ==
    IF m.arg.new = 0 THEN UNCHANGED <<client_objects, server_objects>>
    ELSE Put(m.arg.new, Shown(m.arg.made))

\* resolve_out and resolve_in, when the message's own object is known.
LEMMA ResolveOutIs ==
    ASSUME ResolveOut, IsRequest(Head(Here)), GetObject(Head(Here).id) = Shown(Head(Here).intf)
    PROVE  Resolves(Head(Here))
<1> DEFINE m == Head(Here)
           msg == Protocol[m.intf]["requests"][m.op]
           named == m.intf = "registry" /\ m.op = 1
<1>1. /\ m.intf \in Interface /\ m.op \in DOMAIN Protocol[m.intf]["requests"]
      /\ (MakesObject(msg.sig) <=> m.arg.new # 0)
      /\ m.arg.new # 0 => m.data[NewIdWord(msg.sig, m.data)] = m.arg.new
  BY DEF IsRequest, IsMessage
<1>2. m.op \in Nat /\ m.op <= Len(Protocol[m.intf]["requests"])
  BY <1>1, MessageFacts
<1>3. m.arg.new # 0 => /\ m.intf \in Loaded
                       /\ TypeOf(msg, IF named THEN m.arg.made ELSE "none") = Shown(m.arg.made)
  BY NewObject DEF IsRequest
<1>4. LET intf == GetObject(m.id)
      IN  IF Understood(m, "requests")
             THEN GetNewIds(Protocol[intf]["requests"][m.op], m.data,
                            IF intf = "registry" /\ m.op = 1 THEN m.arg.made ELSE "none")
             ELSE UNCHANGED <<client_objects, server_objects>>
  BY DEF ResolveOut, Here
<1>5. CASE m.intf \in Loaded
  <2>1. GetObject(m.id) = m.intf
    BY <1>5, TableWords
  <2>2. Understood(m, "requests")
    BY <1>2, <1>5, <2>1 DEF Understood
  <2>3. GetNewIds(msg, m.data, IF named THEN m.arg.made ELSE "none")
    BY <1>4, <2>1, <2>2
  <2> HIDE DEF m, msg, named
  <2> QED BY <1>1, <1>3, <2>3 DEF GetNewIds, Resolves, m
<1>6. CASE m.intf \notin Loaded
  <2>1. GetObject(m.id) \notin Loaded
    BY <1>6, TableWords
  <2>2. ~Understood(m, "requests")
    BY <2>1 DEF Understood
  <2>3. m.arg.new = 0
    BY <1>3, <1>6
  <2> QED BY <1>4, <2>2, <2>3 DEF Resolves
<1> QED BY <1>5, <1>6

LEMMA ResolveInIs ==
    ASSUME ResolveIn, GetObject(Head(Coming).id) = Shown(Head(Coming).intf),
           IsMessage(Head(Coming), "events", ServerId), ~IsDeleteId(Head(Coming))
    PROVE  Resolves(Head(Coming))
<1> DEFINE m == Head(Coming)
           msg == Protocol[m.intf]["events"][m.op]
<1>1. /\ m.intf \in Interface /\ m.op \in DOMAIN Protocol[m.intf]["events"]
      /\ (MakesObject(msg.sig) <=> m.arg.new # 0)
      /\ m.arg.new # 0 => m.data[NewIdWord(msg.sig, m.data)] = m.arg.new
  BY DEF IsMessage
<1>2. m.op \in Nat /\ m.op <= Len(Protocol[m.intf]["events"])
  BY <1>1, MessageFacts
<1>3. m.arg.new # 0 => /\ m.intf \in Loaded
                       /\ TypeOf(msg, "none") = Shown(m.arg.made)
  <2> SUFFICES ASSUME m.arg.new # 0
               PROVE  m.intf \in Loaded /\ TypeOf(msg, "none") = Shown(m.arg.made)
    OBVIOUS
  <2>1. LET named == "events" = "requests" /\ m.intf = "registry" /\ m.op = 1
        IN  /\ m.intf \in Loaded
            /\ TypeOf(msg, IF named THEN m.arg.made ELSE "none") = Shown(m.arg.made)
    BY NewObject
  <2> QED BY <2>1
<1>4. IF ~Understood(m, "events") THEN UNCHANGED <<client_objects, server_objects>>
      ELSE GetNewIds(Protocol[GetObject(m.id)]["events"][m.op], m.data, "none")
  BY DEF ResolveIn, Coming
<1>5. CASE m.intf \in Loaded
  <2>1. GetObject(m.id) = m.intf
    BY <1>5, TableWords
  <2>2. Understood(m, "events")
    BY <1>2, <1>5, <2>1 DEF Understood
  <2>3. GetNewIds(msg, m.data, "none")
    BY <1>4, <2>1, <2>2
  <2> HIDE DEF m, msg
  <2> QED BY <1>1, <1>3, <2>3 DEF GetNewIds, Resolves, m
<1>6. CASE m.intf \notin Loaded
  <2>1. GetObject(m.id) \notin Loaded
    BY <1>6, TableWords
  <2>2. ~Understood(m, "events")
    BY <2>1 DEF Understood
  <2>3. m.arg.new = 0
    BY <1>3, <1>6
  <2> QED BY <1>4, <2>2, <2>3 DEF Resolves
<1> QED BY <1>5, <1>6

\* wl_display.delete_id frees the entry.
LEMMA ResolveInFrees ==
    ASSUME ResolveIn, NEW n, Head(Coming) = DeleteId(n), GetObject(1) = "display"
    PROVE  Put(n, "FREE")
<1> DEFINE m == Head(Coming)
<1>1. IsDeleteId(m) /\ m.id = 1 /\ m.op = 1 /\ m.data[3] = n
  BY DEF DeleteId, IsDeleteId
<1>2. Understood(m, "events")
  <2>1. Len(Protocol["display"]["events"]) \in Nat \ {0}
    <3>1. Protocol["display"]["events"] # <<>> /\ "display" \in Interface
      BY ObjInfoAssumption, TableWords DEF ObjInfoAssumption, Resolvable
    <3>2. Protocol["display"]["events"] \in Seq(Range(Protocol["display"]["events"]))
      BY <3>1, ObjInfoAssumption DEF ObjInfoAssumption, Resolvable
    <3> QED BY <3>1, <3>2, EmptySeq, LenProperties
  <2>2. GetObject(m.id) = "display" /\ "display" \in Loaded
    BY <1>1, TableWords
  <2> QED BY <1>1, <2>1, <2>2 DEF Understood
<1>3. IF ~Understood(m, "events") THEN UNCHANGED <<client_objects, server_objects>>
      ELSE IF IsDeleteId(m) THEN Put(m.data[3], "FREE")
      ELSE GetNewIds(Protocol[GetObject(m.id)].events[m.op], m.data, "none")
  BY DEF ResolveIn, Coming
<1> QED BY <1>1, <1>2, <1>3

-----------------------------------------------------------------------------
(* Messages that do concern an id. *)

LEMMA AppendKeeps ==
    ASSUME NEW q, IsSeq(q), NEW m, NEW x, m.arg.new # x, NEW i, NEW e
    PROVE  /\ MadeOnce(q, x, i) => MadeOnce(Append(q, m), x, i)
           /\ MadeFirst(q, x, i) => MadeFirst(Append(q, m), x, i)
           /\ (m.id = x => m.intf = i) /\ MadeAgain(q, x, i, e) =>
                 MadeAgain(Append(q, m), x, i, e)
<1> DEFINE r == Append(q, m)
<1>1. \A p \in Parts(q) : \E o \in Parts(r) :
         o.before = p.before /\ o.at = p.at /\ o.after = p.after \cup {m}
  BY PartsAppend
<1>2. \A S : /\ Unmade(S, x) => Unmade(S \cup {m}, x)
             /\ (m.id = x => m.intf = i) /\ Saying(S, x, i) => Saying(S \cup {m}, x, i)
  BY DEF Unmade, Saying
<1> HIDE DEF r
<1>3. MadeOnce(q, x, i) => MadeOnce(r, x, i)
  <2> SUFFICES ASSUME NEW p \in Parts(q), p.at.arg.new = x, p.at.arg.made = i,
                      Unmade(p.before, x), Unmade(p.after, x)
               PROVE  MadeOnce(r, x, i)
    BY DEF MadeOnce
  <2>1. PICK o \in Parts(r) : o.before = p.before /\ o.at = p.at /\ o.after = p.after \cup {m}
    BY <1>1
  <2> QED BY <1>2, <2>1 DEF MadeOnce
<1>4. MadeFirst(q, x, i) => MadeFirst(r, x, i)
  <2> SUFFICES ASSUME NEW p \in Parts(q), p.at.arg.new = x, p.at.arg.made = i, p.at.id # x,
                      Unmade(p.before, x), Unmade(p.after, x), Silent(p.before, x)
               PROVE  MadeFirst(r, x, i)
    BY DEF MadeFirst
  <2>1. PICK o \in Parts(r) : o.before = p.before /\ o.at = p.at /\ o.after = p.after \cup {m}
    BY <1>1
  <2> QED BY <1>2, <2>1 DEF MadeFirst
<1>5. (m.id = x => m.intf = i) /\ MadeAgain(q, x, i, e) => MadeAgain(r, x, i, e)
  <2> SUFFICES ASSUME m.id = x => m.intf = i,
                      NEW p \in Parts(q), p.at.arg.new = x, p.at.arg.made = i, p.at.id # x,
                      Unmade(p.before, x), Unmade(p.after, x),
                      Telling(p.before, x, e), Saying(p.after, x, i)
               PROVE  MadeAgain(r, x, i, e)
    BY DEF MadeAgain
  <2>1. PICK o \in Parts(r) : o.before = p.before /\ o.at = p.at /\ o.after = p.after \cup {m}
    BY <1>1
  <2> QED BY <1>2, <2>1 DEF MadeAgain
<1> QED BY <1>3, <1>4, <1>5 DEF r

\* The message at the end makes, ends or releases x.
LEMMA AppendMakes ==
    ASSUME NEW q, IsSeq(q), NEW m, NEW x, m.arg.new = x, NEW i, m.arg.made = i, NEW e,
           Unmade(Range(q), x)
    PROVE  /\ MadeOnce(Append(q, m), x, i)
           /\ m.id # x /\ Silent(Range(q), x) => MadeFirst(Append(q, m), x, i)
           /\ m.id # x /\ Telling(Range(q), x, e) => MadeAgain(Append(q, m), x, i, e)
<1>1. PICK o \in Parts(Append(q, m)) : o.before = Range(q) /\ o.at = m /\ o.after = {}
  BY PartsLast
<1>2. Unmade({}, x) /\ Saying({}, x, i)
  BY DEF Unmade, Saying
<1>3. /\ o.at.arg.new = x /\ o.at.arg.made = i
      /\ Unmade(o.before, x) /\ Unmade(o.after, x) /\ Saying(o.after, x, i)
  BY <1>1, <1>2
<1>4. MadeOnce(Append(q, m), x, i)
  BY <1>3 DEF MadeOnce
<1>5. m.id # x /\ Silent(Range(q), x) => MadeFirst(Append(q, m), x, i)
  BY <1>1, <1>3 DEF MadeFirst
<1>6. m.id # x /\ Telling(Range(q), x, e) => MadeAgain(Append(q, m), x, i, e)
  BY <1>1, <1>3 DEF MadeAgain
<1> QED BY <1>4, <1>5, <1>6

LEMMA AppendEnds ==
    ASSUME NEW q, IsSeq(q), NEW m, NEW x
    PROVE  /\ m.id = x /\ m.ends /\ Lasting(Range(q), x) => EndsLast(Append(q, m), x)
           /\ Releases(m, x) /\ Held(Range(q), x) => ReleasedLast(Append(q, m), x)
<1>1. PICK o \in Parts(Append(q, m)) : o.before = Range(q) /\ o.at = m /\ o.after = {}
  BY PartsLast
<1>2. Silent({}, x) /\ Held({}, x)
  BY DEF Silent, Held
<1>3. m.id = x /\ m.ends /\ Lasting(Range(q), x) => EndsLast(Append(q, m), x)
  BY <1>1, <1>2 DEF EndsLast
<1>4. Releases(m, x) /\ Held(Range(q), x) => ReleasedLast(Append(q, m), x)
  BY <1>1, <1>2 DEF ReleasedLast
<1> QED BY <1>3, <1>4

\* The message that comes first makes, ends or releases x.
LEMMA HeadMakes ==
    ASSUME NEW q, IsSeq(q), q # <<>>, NEW x, NEW i, NEW e
    PROVE  /\ Head(q).arg.new = x /\ MadeOnce(q, x, i) =>
                 Head(q).arg.made = i /\ Unmade(Range(Tail(q)), x)
           /\ Head(q).arg.new = x /\ MadeFirst(q, x, i) =>
                 Head(q).arg.made = i /\ Unmade(Range(Tail(q)), x)
           /\ Head(q).arg.new = x /\ MadeAgain(q, x, i, e) =>
                 /\ Head(q).arg.made = i /\ Unmade(Range(Tail(q)), x)
                 /\ Saying(Range(Tail(q)), x, i)
           /\ MadeFirst(q, x, i) => Head(q).id # x
           /\ Head(q).id = x /\ MadeAgain(q, x, i, e) => Shown(Head(q).intf) = e
<1> DEFINE h == Head(q)
<1>1. \A p \in Parts(q) : \/ p.at = h /\ p.before = {} /\ p.after = Range(Tail(q))
                          \/ h \in p.before
  BY PartsTail
<1> HIDE DEF h
<1>2. ASSUME NEW p \in Parts(q), p.at.arg.new = x, Unmade(p.before, x), Unmade(p.after, x),
             h.arg.new = x
      PROVE  p.at = h /\ p.after = Range(Tail(q))
  BY <1>1, <1>2 DEF Unmade
<1>3. ASSUME h.arg.new = x, MadeOnce(q, x, i)
      PROVE  h.arg.made = i /\ Unmade(Range(Tail(q)), x)
  <2>1. PICK p \in Parts(q) : /\ p.at.arg.new = x /\ p.at.arg.made = i
                              /\ Unmade(p.before, x) /\ Unmade(p.after, x)
    BY <1>3, Zenon DEF MadeOnce
  <2> QED BY <1>2, <1>3, <2>1
<1>4. ASSUME h.arg.new = x, MadeFirst(q, x, i)
      PROVE  h.arg.made = i /\ Unmade(Range(Tail(q)), x)
  <2>1. PICK p \in Parts(q) : /\ p.at.arg.new = x /\ p.at.arg.made = i
                              /\ Unmade(p.before, x) /\ Unmade(p.after, x)
    BY <1>4, Zenon DEF MadeFirst
  <2> QED BY <1>2, <1>4, <2>1
<1>5. ASSUME h.arg.new = x, MadeAgain(q, x, i, e)
      PROVE  h.arg.made = i /\ Unmade(Range(Tail(q)), x) /\ Saying(Range(Tail(q)), x, i)
  <2>1. PICK p \in Parts(q) : /\ p.at.arg.new = x /\ p.at.arg.made = i
                              /\ Unmade(p.before, x) /\ Unmade(p.after, x)
                              /\ Saying(p.after, x, i)
    BY <1>5, Zenon DEF MadeAgain
  <2> QED BY <1>2, <1>5, <2>1
<1>6. ASSUME MadeFirst(q, x, i) PROVE h.id # x
  <2>1. PICK p \in Parts(q) : p.at.id # x /\ Silent(p.before, x)
    BY <1>6, Zenon DEF MadeFirst
  <2> QED BY <1>1, <2>1 DEF Silent
<1>7. ASSUME h.id = x, MadeAgain(q, x, i, e) PROVE Shown(h.intf) = e
  <2>1. PICK p \in Parts(q) : p.at.id # x /\ Telling(p.before, x, e)
    BY <1>7, Zenon DEF MadeAgain
  <2> QED BY <1>1, <1>7, <2>1 DEF Telling
<1> QED BY <1>3, <1>4, <1>5, <1>6, <1>7 DEF h

LEMMA HeadEnds ==
    ASSUME NEW q, IsSeq(q), q # <<>>, NEW x
    PROVE  /\ Head(q).id = x /\ Head(q).ends /\ EndsLast(q, x) =>
                 Silent(Range(Tail(q)), x)
           /\ Releases(Head(q), x) /\ ReleasedLast(q, x) =>
                 Silent(Range(Tail(q)), x) /\ Held(Range(Tail(q)), x)
<1> DEFINE h == Head(q)
<1>1. \A p \in Parts(q) : \/ p.at = h /\ p.before = {} /\ p.after = Range(Tail(q))
                          \/ h \in p.before
  BY PartsTail
<1> HIDE DEF h
<1>2. ASSUME h.id = x, h.ends, EndsLast(q, x) PROVE Silent(Range(Tail(q)), x)
  <2>1. PICK p \in Parts(q) : Lasting(p.before, x) /\ Silent(p.after, x)
    BY <1>2, Zenon DEF EndsLast
  <2>2. h \notin p.before
    BY <1>2, <2>1 DEF Lasting
  <2> QED BY <1>1, <2>1, <2>2
<1>3. ASSUME Releases(h, x), ReleasedLast(q, x)
      PROVE  Silent(Range(Tail(q)), x) /\ Held(Range(Tail(q)), x)
  <2>1. PICK p \in Parts(q) : Silent(p.after, x) /\ Held(p.before, x) /\ Held(p.after, x)
    BY <1>3, Zenon DEF ReleasedLast
  <2>2. h \notin p.before
    BY <1>3, <2>1 DEF Held
  <2> QED BY <1>1, <2>1, <2>2
<1> QED BY <1>2, <1>3 DEF h

\* What is said of the whole queue is said of the first message.
LEMMA HeadSays ==
    ASSUME NEW q, IsSeq(q), q # <<>>, NEW x
    PROVE  /\ Silent(Range(q), x) => Head(q).id # x
           /\ Unmade(Range(q), x) => Head(q).arg.new # x
           /\ Held(Range(q), x) => ~Releases(Head(q), x)
           /\ Lasting(Range(q), x) /\ Head(q).id = x => ~Head(q).ends
           /\ \A i : Saying(Range(q), x, i) /\ Head(q).id = x => Head(q).intf = i
           /\ \A e : Telling(Range(q), x, e) /\ Head(q).id = x => Shown(Head(q).intf) = e
<1>1. Head(q) \in Range(q)
  BY TailIs
<1> QED BY <1>1 DEF Silent, Unmade, Held, Lasting, Saying, Telling

\* Nothing at all about x.
LEMMA SilentSays ==
    ASSUME NEW S, NEW x, Silent(S, x)
    PROVE  Lasting(S, x) /\ \A i : Saying(S, x, i) /\ Telling(S, x, i)
BY DEF Silent, Lasting, Saying, Telling

LEMMA SayingTells ==
    ASSUME NEW S, NEW x, NEW i, Saying(S, x, i)
    PROVE  Telling(S, x, Shown(i))
BY DEF Saying, Telling

LEMMA RequestFacts ==
    ASSUME NEW m, IsRequest(m)
    PROVE  /\ m.id \in Id /\ m.intf \in Interface /\ m.arg.new \in ClientId \cup {0}
           /\ m.arg.new # 0 => m.arg.made \in Interface
           /\ m.ends \in BOOLEAN /\ (m.intf = "display" => ~m.ends)
           /\ Protocol[m.intf].requests # <<>>
<1> DEFINE msg == Protocol[m.intf]["requests"][m.op]
<1>1. /\ m.id \in Id /\ m.intf \in Interface /\ m.op \in DOMAIN Protocol[m.intf]["requests"]
      /\ m.ends = msg.ends /\ m.arg.new \in ClientId \cup {0}
  BY DEF IsRequest, IsMessage
<1>2. msg.ends \in BOOLEAN /\ (m.intf = "display" => ~msg.ends)
  BY <1>1, MessageFacts
<1>3. m.arg.new # 0 => m.arg.made \in Interface
  BY NewObject DEF IsRequest
<1>4. Protocol[m.intf]["requests"] # <<>>
  BY <1>1
<1> QED BY <1>1, <1>2, <1>3, <1>4

LEMMA DeleteIdFacts ==
    ASSUME NEW n \in ClientId
    PROVE  LET m == DeleteId(n)
           IN  /\ IsDeleteId(m) /\ m.id = 1 /\ m.intf = "display" /\ ~m.ends /\ m.arg.new = 0
               /\ \A x : Releases(m, x) <=> x = n
               /\ IsEvent(m)
<1>1. IsEvent(DeleteId(n))
  BY DEF IsEvent
<1> QED BY <1>1 DEF DeleteId, IsDeleteId, Releases

LEMMA EventFacts ==
    ASSUME NEW m, IsEvent(m)
    PROVE  /\ m.id \in Id /\ m.intf \in Interface /\ m.arg.new \in ServerId \cup {0}
           /\ m.arg.new # 0 => m.arg.made \in Interface \cap MadeByEvents
           /\ m.ends \in BOOLEAN /\ (m.ends => m.id \in ClientId)
           /\ \A x : Releases(m, x) => /\ x \in ClientId /\ m = DeleteId(x)
                                       /\ m.id = 1 /\ ~m.ends /\ m.arg.new = 0
           /\ IsDeleteId(m) => Releases(m, m.data[3])
<1>1. CASE \E n \in ClientId : m = DeleteId(n)
  <2>1. PICK n \in ClientId : m = DeleteId(n)
    BY <1>1
  <2>2. /\ IsDeleteId(m) /\ m.id = 1 /\ m.intf = "display" /\ m.ends = FALSE /\ m.arg.new = 0
        /\ m.data[3] = n
    BY <2>1 DEF DeleteId, IsDeleteId
  <2> QED BY <2>1, <2>2, IdFacts, TableWords DEF Releases
<1>2. CASE IsMessage(m, "events", ServerId) /\ ~IsDeleteId(m) /\ (m.ends => m.id \in ClientId)
  <2> DEFINE msg == Protocol[m.intf]["events"][m.op]
  <2>1. /\ m.id \in Id /\ m.intf \in Interface /\ m.op \in DOMAIN Protocol[m.intf]["events"]
        /\ m.ends = msg.ends /\ m.arg.new \in ServerId \cup {0}
        /\ m.arg.new # 0 => m.arg.made \in msg.makes
    BY <1>2 DEF IsMessage
  <2>2. msg.ends \in BOOLEAN /\ msg \in Range(Protocol[m.intf]["events"])
    BY <2>1, MessageFacts
  <2>3. m.arg.new # 0 => m.arg.made \in Interface
    <3>1. "events" \in {"requests", "events"}
      OBVIOUS
    <3> QED BY <1>2, <3>1, NewObject
  <2>4. msg.makes \subseteq MadeByEvents
    BY <2>1, <2>2 DEF MadeByEvents, Interface
  <2>5. \A x : ~Releases(m, x)
    BY <1>2 DEF Releases
  <2> QED BY <1>2, <2>1, <2>2, <2>3, <2>4, <2>5
<1> QED BY <1>1, <1>2 DEF IsEvent

\* The client writes a request about x.
LEMMA SpeaksMore ==
    ASSUME NEW x, NEW i, NEW z, i # z, Speaks(x, i, z), client[x] = i,
           NEW m, IsSeq(Here), m.id = x, m.intf = i, m.ends \in BOOLEAN,
           Here' = Append(Here, m), Past' = Past,
           client'[x] = IF m.ends THEN z ELSE i
    PROVE  Speaks(x, i, z)'
<1>1. /\ Saying(Range(Here), x, i) /\ Saying(Range(Past), x, i)
      /\ Lasting(Range(Here), x) /\ Lasting(Range(Past), x)
  BY DEF Speaks
<1>2. Range(Here') = Range(Here) \cup {m}
  BY AppendIs
<1>3. Saying(Range(Here'), x, i) /\ Saying(Range(Past'), x, i) /\ Lasting(Range(Past'), x)
  BY <1>1, <1>2 DEF Saying
<1>4. CASE m.ends
  <2>1. EndsLast(Here', x)
    BY <1>1, <1>4, AppendEnds
  <2> QED BY <1>3, <1>4, <2>1 DEF Speaks
<1>5. CASE ~m.ends
  <2>1. Lasting(Range(Here'), x)
    BY <1>1, <1>2, <1>5 DEF Lasting
  <2> QED BY <1>3, <1>5, <2>1 DEF Speaks
<1> QED BY <1>4, <1>5

\* wldbg passes a request on.
LEMMA SpeaksPassed ==
    ASSUME NEW x, NEW i, NEW z, Speaks(x, i, z), IsSeq(Here), Here # <<>>, IsSeq(Past),
           Head(Here).ends \in BOOLEAN,
           Here' = Tail(Here), Past' = Append(Past, Head(Here)), client'[x] = client[x]
    PROVE  Speaks(x, i, z)'
<1> DEFINE m == Head(Here)
<1>1. /\ Range(Past') = Range(Past) \cup {m} /\ Range(Here') \subseteq Range(Here)
      /\ Range(Here) = {m} \cup Range(Here')
  BY AppendIs, TailIs
<1>2. Saying(Range(Here), x, i) /\ Saying(Range(Past), x, i)
  BY DEF Speaks
<1>3. Saying(Range(Here'), x, i) /\ Saying(Range(Past'), x, i)
  BY <1>1, <1>2 DEF Saying
<1>4. CASE client[x] = i /\ Lasting(Range(Here), x) /\ Lasting(Range(Past), x)
  <2>1. Lasting(Range(Here'), x) /\ Lasting(Range(Past'), x)
    BY <1>1, <1>4 DEF Lasting
  <2> QED BY <1>3, <1>4, <2>1 DEF Speaks
<1>5. CASE client[x] = z /\ EndsLast(Here, x) /\ Lasting(Range(Past), x)
  <2>1. CASE m.id = x /\ m.ends
    <3>1. Silent(Range(Here'), x)
      BY <1>5, <2>1, HeadEnds
    <3>2. EndsLast(Past', x)
      BY <1>5, <2>1, AppendEnds
    <3> QED BY <1>3, <1>5, <3>1, <3>2 DEF Speaks
  <2>2. CASE ~(m.id = x /\ m.ends)
    <3>1. \A p \in Parts(Here) : p.at # m =>
             \E o \in Parts(Here') : /\ o.at = p.at /\ o.after = p.after
                                     /\ o.before \subseteq p.before
      BY PartsTail
    <3>2. EndsLast(Here', x)
      <4>1. PICK p \in Parts(Here) : /\ p.at.id = x /\ p.at.ends
                                     /\ Lasting(p.before, x) /\ Silent(p.after, x)
        BY <1>5, Zenon DEF EndsLast
      <4>2. PICK o \in Parts(Here') : /\ o.at = p.at /\ o.after = p.after
                                      /\ o.before \subseteq p.before
        BY <2>2, <3>1, <4>1
      <4>3. Lasting(o.before, x)
        BY <4>1, <4>2 DEF Lasting
      <4> QED BY <4>1, <4>2, <4>3 DEF EndsLast
    <3>3. Lasting(Range(Past'), x)
      BY <1>1, <1>5, <2>2 DEF Lasting
    <3> QED BY <1>3, <1>5, <3>2, <3>3 DEF Speaks
  <2> QED BY <2>1, <2>2
<1>6. CASE client[x] = z /\ Silent(Range(Here), x) /\ EndsLast(Past, x)
  <2>1. Silent(Range(Here'), x) /\ m.id # x
    BY <1>1, <1>6 DEF Silent
  <2>2. EndsLast(Past', x)
    <3>1. PICK p \in Parts(Past) : /\ p.at.id = x /\ p.at.ends
                                   /\ Lasting(p.before, x) /\ Silent(p.after, x)
      BY <1>6, Zenon DEF EndsLast
    <3>2. PICK o \in Parts(Past') : /\ o.before = p.before /\ o.at = p.at
                                    /\ o.after = p.after \cup {m}
      <4>1. \A r \in Parts(Past) : \E o \in Parts(Append(Past, m)) :
               o.before = r.before /\ o.at = r.at /\ o.after = r.after \cup {m}
        BY PartsAppend
      <4> QED BY <4>1
    <3>3. Silent(o.after, x)
      BY <2>1, <3>1, <3>2 DEF Silent
    <3> QED BY <3>1, <3>2, <3>3 DEF EndsLast
  <2> QED BY <1>3, <1>6, <2>1, <2>2 DEF Speaks
<1> QED BY <1>4, <1>5, <1>6 DEF Speaks

\* The compositor takes the last request about x.
LEMMA SpeaksLast ==
    ASSUME NEW x, NEW i, NEW z, Speaks(x, i, z), IsSeq(Past), Past # <<>>,
           Head(Past).id = x, Head(Past).ends
    PROVE  client[x] = z /\ Silent(Range(Here), x) /\ Silent(Range(Tail(Past)), x)
<1>1. ~Lasting(Range(Past), x)
  BY HeadSays
<1>2. client[x] = z /\ Silent(Range(Here), x) /\ EndsLast(Past, x)
  BY <1>1 DEF Speaks
<1> QED BY <1>2, HeadEnds

-----------------------------------------------------------------------------
(* The client writes a request. *)

LEMMA ClientRequestsIs ==
    ASSUME Queues, Tables, Views, ClientRequests
    PROVE  \E m :
              /\ IsRequest(m) /\ client[m.id] = m.intf /\ Meaning(m, "requests", client)
              /\ m.arg.new # 0 => client[m.arg.new] = "none"
              /\ Here' = Append(Here, m) /\ Past' = Past /\ Coming' = Coming /\ Going' = Going
              /\ requests' = [requests EXCEPT !["wldbg"] = Append(@, m)] /\ events' = events
              /\ server' = server
              /\ client' = [n \in Id |->
                    IF n = m.arg.new THEN m.arg.made
                    ELSE IF n = m.id /\ m.ends
                         THEN IF n \in ClientId THEN "zombie" ELSE "none"
                         ELSE client[n]]
              /\ UNCHANGED <<client_objects, server_objects>>
<1> DEFINE fresh == {n \in ClientId : client[n] = "none"}
<1>1. PICK id \in Id : client[id] \notin NoObject /\
         \E m \in Messages(id, client[id], Protocol[client[id]].requests, client, fresh) :
            /\ requests' = [requests EXCEPT !["wldbg"] = Append(@, m)]
            /\ client' = [n \in Id |->
                  IF n = m.arg.new THEN m.arg.made
                  ELSE IF n = m.id /\ m.ends
                       THEN IF n \in ClientId THEN "zombie" ELSE "none"
                       ELSE client[n]]
  BY DEF ClientRequests
<1>2. PICK m \in Messages(id, client[id], Protocol[client[id]]["requests"], client, fresh) :
         /\ requests' = [requests EXCEPT !["wldbg"] = Append(@, m)]
         /\ client' = [n \in Id |->
               IF n = m.arg.new THEN m.arg.made
               ELSE IF n = m.id /\ m.ends
                    THEN IF n \in ClientId THEN "zombie" ELSE "none"
                    ELSE client[n]]
  BY <1>1
<1>3. client[id] \in Interface
  BY <1>1 DEF Views
<1>4. fresh \in SUBSET ClientId
  OBVIOUS
<1>5. /\ IsMessage(m, "requests", ClientId) /\ m.id = id /\ m.intf = client[id]
      /\ m.arg.new # 0 => m.arg.new \in fresh
      /\ Meaning(m, "requests", client)
  BY <1>3, <1>4, MessagesAre
<1>6. DOMAIN requests = {"wldbg", "server"}
  BY DEF Queues
<1>7. Here' = Append(Here, m) /\ Past' = Past
  BY <1>2, <1>6 DEF Here, Past
<1>8. /\ UNCHANGED <<client_objects, server_objects>> /\ server' = server /\ events' = events
      /\ Coming' = Coming /\ Going' = Going
  BY DEF ClientRequests, Coming, Going
<1>9. IsRequest(m)
  BY <1>5 DEF IsRequest
<1> QED BY <1>2, <1>5, <1>7, <1>8, <1>9

LEMMA RequestsClients ==
    ASSUME Lives, ClientRequests, NEW x \in ClientId
    PROVE  Clients(x)'
<1>1. Queues /\ Tables /\ Views /\ Clients(x) /\ IsSeq(Here) /\ x \in Id
  BY IdFacts DEF Lives, Queues
<1>2. PICK m :
         /\ IsRequest(m) /\ client[m.id] = m.intf
         /\ m.arg.new # 0 => client[m.arg.new] = "none"
         /\ Here' = Append(Here, m) /\ Past' = Past /\ Coming' = Coming /\ Going' = Going
         /\ server' = server
         /\ client' = [n \in Id |->
               IF n = m.arg.new THEN m.arg.made
               ELSE IF n = m.id /\ m.ends
                    THEN IF n \in ClientId THEN "zombie" ELSE "none"
                    ELSE client[n]]
         /\ UNCHANGED <<client_objects, server_objects>>
  BY <1>1, ClientRequestsIs
<1>3. /\ m.id \in Id /\ m.intf \in Interface /\ m.ends \in BOOLEAN
      /\ (m.arg.new # 0 => m.arg.made \in Interface) /\ Protocol[m.intf].requests # <<>>
  BY <1>2, RequestFacts
<1>4. Interface \cap {"none", "zombie"} = {} /\ x # 0
  BY TableWords, IdFacts DEF NoObject
<1>5. GetObject(x)' = GetObject(x) /\ server'[x] = server[x]
  BY <1>1, <1>2, NoPut
<1>6. /\ Follows(Past, Past', x) /\ FollowsIn(Coming, Coming', x)
      /\ FollowsIn(Going, Going', x)
  BY <1>2, FollowsItself
<1>7. Range(Here') = Range(Here) \cup {m}
  BY <1>1, <1>2, AppendIs
<1>8. CASE m.arg.new = x
  <2> DEFINE i == m.arg.made
  <2>1. client[x] = "none" /\ m.id # x /\ i \in Interface /\ client'[x] = i
    BY <1>1, <1>2, <1>3, <1>4, <1>8
  <2>2. Unused(x)
    <3>1. \A j \in Interface : ~Asked(x, j) /\ ~Seen(x, j) /\ ~Known(x, j)
      BY <1>4, <2>1 DEF Asked, Seen, Known, Speaks
    <3>2. \A j \in Interface : ~Released(x, j) /\ ~Gone(x, j)
      BY <1>4, <2>1 DEF Released, Gone, Ended
    <3> QED BY <1>1, <3>1, <3>2 DEF Clients
  <2> HIDE DEF i
  <2>3. /\ Silent(Range(Here), x) /\ Silent(Range(Past), x)
        /\ Unmade(Range(Here), x) /\ Unmade(Range(Past), x)
    BY <2>2 DEF Unused, Unasked
  <2>4. Silent(Range(Here'), x)
    BY <1>7, <2>1, <2>3 DEF Silent
  <2>5. Speaks(x, i, "zombie")'
    <3>1. /\ Saying(Range(Here'), x, i) /\ Lasting(Range(Here'), x)
          /\ Saying(Range(Past'), x, i) /\ Lasting(Range(Past'), x)
      BY <1>2, <2>3, <2>4, SilentSays
    <3> QED BY <2>1, <3>1 DEF Speaks
  <2>6. MadeFirst(Here', x, i)
    BY <1>1, <1>2, <1>8, <2>1, <2>3, AppendMakes DEF i
  <2>7. Untold(x)'
    BY <1>6, <2>2, UntoldKept DEF Unused
  <2>8. Asked(x, i)'
    BY <1>2, <1>5, <2>2, <2>3, <2>5, <2>6, <2>7 DEF Asked, Unused
  <2> QED BY <2>1, <2>8 DEF Clients
<1>9. CASE m.id = x /\ m.arg.new # x
  <2>1. client[x] = m.intf /\ client'[x] = IF m.ends THEN "zombie" ELSE m.intf
    BY <1>1, <1>2, <1>3, <1>9
  <2>2. ASSUME NEW i \in Interface, Speaks(x, i, "zombie")
        PROVE  i = m.intf /\ Speaks(x, i, "zombie")'
    <3>1. i = m.intf /\ i # "zombie"
      BY <1>3, <1>4, <2>1, <2>2 DEF Speaks
    <3> QED BY <1>1, <1>2, <1>3, <1>9, <2>1, <2>2, <3>1, SpeaksMore
  <2>3. Untold(x) => Untold(x)'
    BY <1>6, UntoldKept
  <2>4. Unmade(Range(Here), x) => Unmade(Range(Here'), x)
    BY <1>7, <1>9 DEF Unmade
  <2>5. ASSUME NEW i \in Interface, Asked(x, i) PROVE Asked(x, i)'
    <3>1. Speaks(x, i, "zombie")' /\ Untold(x)'
      BY <2>2, <2>3, <2>5 DEF Asked
    <3>2. MadeFirst(Here', x, i)
      BY <1>1, <1>2, <1>9, <2>5, AppendKeeps DEF Asked
    <3> QED BY <1>2, <1>5, <2>5, <3>1, <3>2 DEF Asked
  <2>6. ASSUME NEW i \in Interface, Seen(x, i) PROVE Seen(x, i)'
    <3>1. Speaks(x, i, "zombie")' /\ Untold(x)' /\ Unmade(Range(Here'), x)
      BY <2>2, <2>3, <2>4, <2>6 DEF Seen
    <3> QED BY <1>2, <1>5, <2>6, <3>1 DEF Seen
  <2>7. ASSUME NEW i \in Interface, Known(x, i) PROVE Known(x, i)'
    <3>1. Speaks(x, i, "zombie")' /\ Unmade(Range(Here'), x)
      BY <2>2, <2>4, <2>7 DEF Known
    <3> QED BY <1>2, <1>5, <2>7, <3>1 DEF Known
  <2>8. ~Unused(x) /\ \A i \in Interface : ~Released(x, i) /\ ~Gone(x, i)
    BY <1>3, <1>4, <2>1 DEF Unused, Released, Gone, Ended
  <2> QED BY <1>1, <2>5, <2>6, <2>7, <2>8 DEF Clients
<1>10. CASE m.id # x /\ m.arg.new # x
  <2>1. Follows(Here, Here', x)
    BY <1>1, <1>2, <1>10, FollowsAppend
  <2>2. client'[x] = client[x]
    BY <1>1, <1>2, <1>10
  <2>3. Untouched(x)
    BY <1>5, <1>6, <2>1, <2>2 DEF Untouched
  <2> QED BY <1>1, <2>3, ClientsKept
<1> QED BY <1>8, <1>9, <1>10

LEMMA RequestsServers ==
    ASSUME Lives, ClientRequests, NEW y \in ServerId
    PROVE  Servers(y)'
<1>1. /\ Queues /\ Tables /\ Views /\ Servers(y) /\ IsSeq(Here)
      /\ y \in Id /\ y \notin ClientId /\ y # 0
  BY IdFacts DEF Lives, Queues
<1>2. PICK m :
         /\ IsRequest(m) /\ client[m.id] = m.intf
         /\ Here' = Append(Here, m) /\ Past' = Past /\ Coming' = Coming /\ Going' = Going
         /\ server' = server
         /\ client' = [n \in Id |->
               IF n = m.arg.new THEN m.arg.made
               ELSE IF n = m.id /\ m.ends
                    THEN IF n \in ClientId THEN "zombie" ELSE "none"
                    ELSE client[n]]
         /\ UNCHANGED <<client_objects, server_objects>>
  BY <1>1, ClientRequestsIs
<1>3. m.id \in Id /\ m.intf \in Interface /\ m.ends \in BOOLEAN /\ m.arg.new # y
  BY <1>1, <1>2, RequestFacts
<1>4. "none" \notin Interface
  BY TableWords DEF NoObject
<1>5. GetObject(y)' = GetObject(y) /\ server'[y] = server[y]
  BY <1>1, <1>2, NoPut
<1>6. CASE m.id = y
  <2>1. client[y] = m.intf /\ client'[y] = IF m.ends THEN "none" ELSE m.intf
    BY <1>1, <1>2, <1>3, <1>6
  <2>2. ~Unsaid(y)
    BY <1>3, <1>4, <2>1 DEF Unsaid
  <2>3. PICK i \in Interface \cap MadeByEvents : Present(y, i)
    BY <1>1, <2>2 DEF Servers, Vacant, Announced, Introduced
  <2>4. Speaks(y, i, "none") /\ client[y] = i /\ i # "none" /\ m.intf = i
    BY <1>3, <1>4, <2>1, <2>3 DEF Present, Speaks
  <2>5. Speaks(y, i, "none")'
    BY <1>1, <1>2, <1>3, <1>6, <2>1, <2>4, SpeaksMore
  <2>6. Present(y, i)'
    BY <1>2, <1>5, <2>3, <2>5 DEF Present
  <2> QED BY <2>6 DEF Servers
<1>7. CASE m.id # y
  <2>1. Follows(Here, Here', y)
    BY <1>1, <1>2, <1>3, <1>7, FollowsAppend
  <2>2. client'[y] = client[y]
    BY <1>1, <1>2, <1>3, <1>7
  <2>3. Untouched(y)
    BY <1>2, <1>5, <2>1, <2>2, FollowsItself DEF Untouched
  <2> QED BY <1>1, <2>3, ServersKept
<1> QED BY <1>6, <1>7

LEMMA RequestsKeep ==
    ASSUME Lives, ClientRequests
    PROVE  Lives'
<1>1. /\ Queues /\ Tables /\ Views /\ Display /\ IsSeq(Here)
      /\ DOMAIN requests = {"wldbg", "server"}
  BY DEF Lives, Queues
<1>2. PICK m :
         /\ IsRequest(m) /\ client[m.id] = m.intf
         /\ m.arg.new # 0 => client[m.arg.new] = "none"
         /\ Here' = Append(Here, m) /\ Past' = Past /\ Coming' = Coming /\ Going' = Going
         /\ requests' = [requests EXCEPT !["wldbg"] = Append(@, m)] /\ events' = events
         /\ server' = server
         /\ client' = [n \in Id |->
               IF n = m.arg.new THEN m.arg.made
               ELSE IF n = m.id /\ m.ends
                    THEN IF n \in ClientId THEN "zombie" ELSE "none"
                    ELSE client[n]]
         /\ UNCHANGED <<client_objects, server_objects>>
  BY <1>1, ClientRequestsIs
<1>3. /\ m.id \in Id /\ m.intf \in Interface /\ m.ends \in BOOLEAN
      /\ (m.arg.new # 0 => m.arg.made \in Interface) /\ m.arg.new \in ClientId \cup {0}
      /\ (m.intf = "display" => ~m.ends)
  BY <1>2, RequestFacts
<1>4. Queues'
  <2>1. DOMAIN requests' = {"wldbg", "server"} /\ DOMAIN events' = {"wldbg", "client"}
    BY <1>1, <1>2 DEF Queues
  <2>2. IsSeq(Here') /\ Range(Here') = Range(Here) \cup {m}
    BY <1>1, <1>2, AppendIs
  <2> QED BY <1>1, <1>2, <2>1, <2>2 DEF Queues
<1>5. Tables'
  BY <1>1, <1>2, NoPut
<1>6. Views'
  BY <1>1, <1>2, <1>3, IdFacts DEF Views, NoObject
<1>7. Display'
  <2>1. GetObject(1)' = GetObject(1)
    BY <1>1, <1>2, NoPut
  <2>2. 1 \in Id /\ 1 # m.arg.new
    BY <1>3, IdFacts
  <2>3. client'[1] = "display" /\ (m.id = 1 => m.intf = "display")
    BY <1>1, <1>2, <1>3, <2>2 DEF Display
  <2>4. Range(Here') = Range(Here) \cup {m}
    BY <1>1, <1>2, AppendIs
  <2>5. Saying(Range(Here'), 1, "display")
    BY <1>1, <2>3, <2>4 DEF Display, Saying
  <2> QED BY <1>1, <1>2, <2>1, <2>3, <2>5 DEF Display
<1> QED BY <1>4, <1>5, <1>6, <1>7, RequestsClients, RequestsServers DEF Lives

-----------------------------------------------------------------------------
(* wldbg passes a request on. *)

\* The head of each queue that wldbg reads is resolved.
LEMMA HeadsResolved ==
    ASSUME Lives
    PROVE  Resolved
<1>1. IsSeq(Here) /\ IsSeq(Coming) /\ Display
  BY DEF Lives, Queues
<1>2. ASSUME Here # <<>> PROVE GetObject(Head(Here).id) = Shown(Head(Here).intf)
  <2> DEFINE m == Head(Here)
             x == m.id
  <2>1. m \in Range(Here)
    BY <1>1, <1>2, TailIs
  <2>2. x \in Id
    BY <2>1, RequestFacts DEF Lives, Queues
  <2>3. \A i : Saying(Range(Here), x, i) => m.intf = i
    BY <2>1 DEF Saying
  <2>4. ~Silent(Range(Here), x)
    BY <2>1 DEF Silent
  <2>5. CASE x = 1
    BY <1>1, <2>3, <2>5, TableWords DEF Display
  <2>6. CASE x \in ClientId
    <3>1. Clients(x)
      BY <2>6 DEF Lives
    <3>2. \A i : ~MadeFirst(Here, x, i)
      BY <1>1, <1>2, HeadMakes
    <3>3. PICK i \in Interface : Seen(x, i) \/ Known(x, i)
      BY <2>4, <3>1, <3>2 DEF Clients, Unused, Unasked, Asked, Released, Gone, Ended
    <3>4. GetObject(x) = Shown(i) /\ Saying(Range(Here), x, i)
      BY <3>3 DEF Seen, Known, Speaks
    <3> QED BY <2>3, <3>4
  <2>7. CASE x \in ServerId
    <3>1. Servers(x)
      BY <2>7 DEF Lives
    <3>2. PICK i : Present(x, i)
      BY <2>4, <3>1 DEF Servers, Vacant, Announced, Introduced, Unsaid
    <3>3. GetObject(x) = Shown(i) /\ Saying(Range(Here), x, i)
      BY <3>2 DEF Present, Speaks
    <3> QED BY <2>3, <3>3
  <2> QED BY <2>2, <2>5, <2>6, <2>7, IdFacts
<1>3. ASSUME Coming # <<>> PROVE GetObject(Head(Coming).id) = Shown(Head(Coming).intf)
  <2> DEFINE m == Head(Coming)
             x == m.id
  <2>1. m \in Range(Coming)
    BY <1>1, <1>3, TailIs
  <2>2. x \in Id
    BY <2>1, EventFacts DEF Lives, Queues
  <2>3. \A i : Saying(Range(Coming), x, i) => m.intf = i
    BY <2>1 DEF Saying
  <2>4. ~Silent(Range(Coming), x)
    BY <2>1 DEF Silent
  <2>5. CASE x = 1
    BY <1>1, <2>3, <2>5, TableWords DEF Display
  <2>6. CASE x \in ClientId
    <3>1. Clients(x)
      BY <2>6 DEF Lives
    <3>2. PICK i \in Interface : Known(x, i) \/ Released(x, i)
      BY <2>4, <3>1 DEF Clients, Unused, Untold, Asked, Seen, Gone
    <3>3. GetObject(x) = Shown(i) /\ Saying(Range(Coming), x, i)
      BY <3>2 DEF Known, Released
    <3> QED BY <2>3, <3>3
  <2>7. CASE x \in ServerId
    <3>1. Servers(x)
      BY <2>7 DEF Lives
    <3>2. CASE Vacant(x)
      BY <2>1, <3>2 DEF Vacant, Telling
    <3>3. CASE \E i : Announced(x, i)
      <4>1. PICK i : MadeAgain(Coming, x, i, GetObject(x))
        BY <3>3 DEF Announced
      <4> QED BY <1>1, <1>3, <4>1, HeadMakes
    <3>4. CASE \E i : Introduced(x, i) \/ Present(x, i)
      <4>1. PICK i : GetObject(x) = Shown(i) /\ Saying(Range(Coming), x, i)
        BY <3>4 DEF Introduced, Present
      <4> QED BY <2>3, <4>1
    <3> QED BY <3>1, <3>2, <3>3, <3>4 DEF Servers
  <2> QED BY <2>2, <2>5, <2>6, <2>7, IdFacts
<1> QED BY <1>2, <1>3 DEF Resolved, Here, Coming

LEMMA ResolveOutDoes ==
    ASSUME Lives, ResolveOut
    PROVE  LET m == Head(Here)
           IN  /\ Here # <<>> /\ IsRequest(m)
               /\ Here' = Tail(Here) /\ Past' = Append(Past, m)
               /\ Coming' = Coming /\ Going' = Going
               /\ DOMAIN requests' = {"wldbg", "server"} /\ events' = events
               /\ client' = client /\ server' = server /\ Tables'
               /\ \A x \in Id : GetObject(x)' =
                     IF x = m.arg.new THEN Shown(m.arg.made) ELSE GetObject(x)
<1> DEFINE m == Head(Here)
<1>1. /\ Here # <<>>
      /\ requests' = [wldbg |-> Tail(Here), server |-> Append(Past, m)]
      /\ client' = client /\ server' = server /\ events' = events
  BY DEF ResolveOut, Here, Past
<1>2. /\ Here' = Tail(Here) /\ Past' = Append(Past, m)
      /\ DOMAIN requests' = {"wldbg", "server"}
      /\ Coming' = Coming /\ Going' = Going
  BY <1>1 DEF Here, Past, Coming, Going
<1>3. IsRequest(m)
  <2>1. IsSeq(Here) /\ \A r \in Range(Here) : IsRequest(r)
    BY DEF Lives, Queues
  <2> QED BY <1>1, <2>1, TailIs
<1>4. Resolves(m)
  <2>1. GetObject(m.id) = Shown(m.intf)
    BY <1>1, HeadsResolved DEF Resolved, Here
  <2> QED BY <1>3, <2>1, ResolveOutIs
<1>5. Tables
  BY DEF Lives
<1>6. Tables' /\ \A x \in Id : GetObject(x)' =
                    IF x = m.arg.new THEN Shown(m.arg.made) ELSE GetObject(x)
  <2>1. CASE m.arg.new = 0
    <3>1. Tables' /\ \A x : GetObject(x)' = GetObject(x)
      BY <1>4, <1>5, <2>1, NoPut DEF Resolves
    <3> QED BY <2>1, <3>1, IdFacts
  <2>2. CASE m.arg.new # 0
    <3>1. m.arg.new \in Id /\ Shown(m.arg.made) \in Entry
      BY <1>3, <2>2, RequestFacts, IdFacts, TableWords
    <3>2. Put(m.arg.new, Shown(m.arg.made))
      BY <1>4, <2>2 DEF Resolves
    <3> HIDE DEF m
    <3> QED BY <1>5, <3>1, <3>2, PutIs
  <2> QED BY <2>1, <2>2
<1> QED BY <1>1, <1>2, <1>3, <1>6

LEMMA OutClients ==
    ASSUME Lives, ResolveOut, NEW x \in ClientId
    PROVE  Clients(x)'
<1> DEFINE m == Head(Here)
<1>1. Clients(x) /\ IsSeq(Here) /\ IsSeq(Past) /\ x \in Id
  BY IdFacts DEF Lives, Queues
<1>2. /\ Here # <<>> /\ IsRequest(m)
      /\ Here' = Tail(Here) /\ Past' = Append(Past, m)
      /\ Coming' = Coming /\ Going' = Going
      /\ client' = client /\ server' = server
      /\ GetObject(x)' = IF x = m.arg.new THEN Shown(m.arg.made) ELSE GetObject(x)
  BY <1>1, ResolveOutDoes
<1>3. m.ends \in BOOLEAN
  BY <1>2, RequestFacts
<1>4. FollowsIn(Coming, Coming', x) /\ FollowsIn(Going, Going', x)
  BY <1>2, FollowsItself
<1>5. Untold(x) => Untold(x)'
  BY <1>4, UntoldKept
<1>6. ASSUME NEW i, Speaks(x, i, "zombie") PROVE Speaks(x, i, "zombie")'
  BY <1>1, <1>2, <1>3, <1>6, SpeaksPassed
<1>7. Range(Here) = {m} \cup Range(Here') /\ Range(Past') = Range(Past) \cup {m}
  BY <1>1, <1>2, TailIs, AppendIs
<1> HIDE DEF m
<1>8. CASE m.arg.new = x
  <2>1. ~Unmade(Range(Here), x)
    BY <1>7, <1>8 DEF Unmade
  <2>2. PICK i \in Interface : Asked(x, i)
    BY <1>1, <2>1 DEF Clients, Unused, Unasked, Seen, Known, Released, Gone, Ended
  <2>3. m.arg.made = i /\ Unmade(Range(Here'), x) /\ m.id # x
    BY <1>1, <1>2, <1>8, <2>2, HeadMakes DEF Asked, m
  <2>4. MadeFirst(Past', x, i)
    BY <1>1, <1>2, <1>8, <2>2, <2>3, AppendMakes DEF Asked
  <2>5. Speaks(x, i, "zombie")' /\ Untold(x)'
    BY <1>5, <1>6, <2>2 DEF Asked
  <2>6. GetObject(x)' = Shown(i) /\ server'[x] = "none"
    BY <1>2, <1>8, <2>2, <2>3 DEF Asked
  <2>7. Seen(x, i)'
    BY <2>3, <2>4, <2>5, <2>6 DEF Seen
  <2> QED BY <2>7 DEF Clients
<1>9. CASE m.id = x /\ m.arg.new # x
  <2>1. ~Silent(Range(Here), x)
    BY <1>7, <1>9 DEF Silent
  <2>2. \A i : ~MadeFirst(Here, x, i)
    BY <1>1, <1>2, <1>9, HeadMakes DEF m
  <2>3. Unmade(Range(Here), x) => Unmade(Range(Here'), x)
    BY <1>7 DEF Unmade
  <2>4. ASSUME NEW i \in Interface, Seen(x, i) PROVE Seen(x, i)'
    <3>1. MadeFirst(Past', x, i)
      BY <1>1, <1>2, <1>9, <2>4, AppendKeeps DEF Seen
    <3>2. Speaks(x, i, "zombie")' /\ Untold(x)' /\ Unmade(Range(Here'), x)
      BY <1>5, <1>6, <2>3, <2>4 DEF Seen
    <3> QED BY <1>2, <1>9, <2>4, <3>1, <3>2 DEF Seen
  <2>5. ASSUME NEW i \in Interface, Known(x, i) PROVE Known(x, i)'
    <3>1. Unmade(Range(Past'), x)
      BY <1>7, <1>9, <2>5 DEF Known, Unmade
    <3>2. Speaks(x, i, "zombie")' /\ Unmade(Range(Here'), x)
      BY <1>6, <2>3, <2>5 DEF Known
    <3> QED BY <1>2, <1>9, <2>5, <3>1, <3>2 DEF Known
  <2>6. \E i \in Interface : Seen(x, i) \/ Known(x, i)
    BY <1>1, <2>1, <2>2 DEF Clients, Unused, Unasked, Asked, Released, Gone, Ended
  <2> QED BY <2>4, <2>5, <2>6 DEF Clients
<1>10. CASE m.id # x /\ m.arg.new # x
  <2>1. Follows(Here, Here', x)
    BY <1>1, <1>2, <1>10, FollowsTail DEF m
  <2>2. Follows(Past, Past', x)
    BY <1>1, <1>2, <1>10, FollowsAppend
  <2>3. Untouched(x)
    BY <1>2, <1>4, <1>10, <2>1, <2>2 DEF Untouched
  <2> QED BY <1>1, <2>3, ClientsKept
<1> QED BY <1>8, <1>9, <1>10

LEMMA OutServers ==
    ASSUME Lives, ResolveOut, NEW y \in ServerId
    PROVE  Servers(y)'
<1> DEFINE m == Head(Here)
<1>1. /\ Servers(y) /\ IsSeq(Here) /\ IsSeq(Past)
      /\ y \in Id /\ y \notin ClientId /\ y # 0
  BY IdFacts DEF Lives, Queues
<1>2. /\ Here # <<>> /\ IsRequest(m)
      /\ Here' = Tail(Here) /\ Past' = Append(Past, m)
      /\ Coming' = Coming /\ Going' = Going
      /\ client' = client /\ server' = server
      /\ GetObject(y)' = IF y = m.arg.new THEN Shown(m.arg.made) ELSE GetObject(y)
  BY <1>1, ResolveOutDoes
<1>3. m.ends \in BOOLEAN /\ m.arg.new # y
  BY <1>1, <1>2, RequestFacts
<1>4. GetObject(y)' = GetObject(y)
  BY <1>2, <1>3
<1>5. Range(Here) = {m} \cup Range(Here')
  BY <1>1, <1>2, TailIs
<1>6. CASE m.id = y
  <2>1. ~Unsaid(y)
    BY <1>5, <1>6 DEF Unsaid, Silent
  <2>2. PICK i \in Interface \cap MadeByEvents : Present(y, i)
    BY <1>1, <2>1 DEF Servers, Vacant, Announced, Introduced
  <2>3. Speaks(y, i, "none")'
    BY <1>1, <1>2, <1>3, <2>2, SpeaksPassed DEF Present
  <2>4. Present(y, i)'
    BY <1>2, <1>4, <2>2, <2>3 DEF Present
  <2> QED BY <2>4 DEF Servers
<1>7. CASE m.id # y
  <2>1. Follows(Here, Here', y) /\ Follows(Past, Past', y)
    BY <1>1, <1>2, <1>3, <1>7, FollowsTail, FollowsAppend
  <2>2. Untouched(y)
    BY <1>2, <1>4, <2>1, FollowsItself DEF Untouched
  <2> QED BY <1>1, <2>2, ServersKept
<1> QED BY <1>6, <1>7

LEMMA OutKeeps ==
    ASSUME Lives, ResolveOut
    PROVE  Lives'
<1> DEFINE m == Head(Here)
<1>1. /\ Queues /\ Views /\ Display /\ IsSeq(Here) /\ IsSeq(Past)
      /\ DOMAIN events = {"wldbg", "client"}
  BY DEF Lives, Queues
<1>2. /\ Here # <<>> /\ IsRequest(m)
      /\ Here' = Tail(Here) /\ Past' = Append(Past, m)
      /\ Coming' = Coming /\ Going' = Going
      /\ DOMAIN requests' = {"wldbg", "server"} /\ events' = events
      /\ client' = client /\ server' = server /\ Tables'
      /\ \A x \in Id : GetObject(x)' =
            IF x = m.arg.new THEN Shown(m.arg.made) ELSE GetObject(x)
  BY ResolveOutDoes
<1>3. /\ Range(Here) = {m} \cup Range(Here') /\ Range(Past') = Range(Past) \cup {m}
      /\ IsSeq(Here') /\ IsSeq(Past')
  BY <1>1, <1>2, TailIs, AppendIs
<1> HIDE DEF m
<1>4. Queues'
  BY <1>1, <1>2, <1>3 DEF Queues
<1>5. Views'
  BY <1>1, <1>2 DEF Views
<1>6. Display'
  <2>1. GetObject(1)' = GetObject(1)
    BY <1>2, RequestFacts, IdFacts
  <2>2. /\ Saying(Range(Here'), 1, "display") /\ Saying(Range(Past'), 1, "display")
        /\ Saying(Range(Coming'), 1, "display")
    BY <1>1, <1>2, <1>3 DEF Display, Saying
  <2> QED BY <1>1, <1>2, <2>1, <2>2 DEF Display
<1> QED BY <1>2, <1>4, <1>5, <1>6, OutClients, OutServers DEF Lives

-----------------------------------------------------------------------------
(* The compositor takes a request. *)

LEMMA SpeaksTaken ==
    ASSUME NEW x, NEW i, NEW z, Speaks(x, i, z), IsSeq(Past), Past # <<>>,
           Head(Past).id = x => ~Head(Past).ends,
           Here' = Here, Past' = Tail(Past), client'[x] = client[x]
    PROVE  Speaks(x, i, z)'
<1>1. Range(Past') \subseteq Range(Past)
  BY TailIs
<1>2. Saying(Range(Here'), x, i) /\ Saying(Range(Past'), x, i)
  BY <1>1 DEF Speaks, Saying
<1>3. Lasting(Range(Past), x) => Lasting(Range(Past'), x)
  BY <1>1 DEF Lasting
<1>4. EndsLast(Past, x) => EndsLast(Past', x)
  <2> DEFINE h == Head(Past)
  <2>1. \A p \in Parts(Past) : p.at # h => \E o \in Parts(Past') :
           o.at = p.at /\ o.after = p.after /\ o.before \subseteq p.before
    BY PartsTail
  <2> HIDE DEF h
  <2> SUFFICES ASSUME NEW p \in Parts(Past), p.at.id = x, p.at.ends,
                      Lasting(p.before, x), Silent(p.after, x)
               PROVE  EndsLast(Past', x)
    BY DEF EndsLast
  <2>2. p.at # h
    BY DEF h
  <2>3. PICK o \in Parts(Past') : /\ o.at = p.at /\ o.after = p.after
                                  /\ o.before \subseteq p.before
    BY <2>1, <2>2
  <2>4. Lasting(o.before, x)
    BY <2>3 DEF Lasting
  <2> QED BY <2>3, <2>4 DEF EndsLast
<1> QED BY <1>2, <1>3, <1>4 DEF Speaks

LEMMA ServerTakesDoes ==
    ASSUME Lives, ServerTakes
    PROVE  LET m == Head(Past)
               freed == m.ends /\ m.id \in ClientId
           IN  /\ Past # <<>> /\ IsRequest(m)
               /\ Here' = Here /\ Past' = Tail(Past)
               /\ Coming' = (IF freed THEN Append(Coming, DeleteId(m.id)) ELSE Coming)
               /\ Going' = Going
               /\ DOMAIN requests' = {"wldbg", "server"} /\ DOMAIN events' = {"wldbg", "client"}
               /\ client' = client /\ Tables' /\ \A x : GetObject(x)' = GetObject(x)
               /\ server' = [n \in Id |->
                     IF n = m.arg.new THEN m.arg.made
                     ELSE IF n = m.id /\ m.ends THEN "none" ELSE server[n]]
<1> DEFINE m == Head(Past)
           freed == m.ends /\ m.id \in ClientId
<1>1. /\ DOMAIN requests = {"wldbg", "server"} /\ DOMAIN events = {"wldbg", "client"}
      /\ IsSeq(Past) /\ (\A r \in Range(Past) : IsRequest(r)) /\ Tables
  BY DEF Lives, Queues
<1>2. /\ Past # <<>>
      /\ events' = IF freed THEN [events EXCEPT !["wldbg"] = Append(@, DeleteId(m.id))]
                   ELSE events
      /\ requests' = [requests EXCEPT !["server"] = Tail(@)]
      /\ server' = [n \in Id |->
            IF n = m.arg.new THEN m.arg.made
            ELSE IF n = m.id /\ m.ends THEN "none" ELSE server[n]]
      /\ UNCHANGED <<client, client_objects, server_objects>>
  BY DEF ServerTakes, Past
<1>3. IsRequest(m)
  BY <1>1, <1>2, TailIs
<1>4. Tables' /\ \A x : GetObject(x)' = GetObject(x)
  BY <1>1, <1>2, NoPut
<1> HIDE DEF m, freed
<1>5. /\ Here' = Here /\ Past' = Tail(Past) /\ DOMAIN requests' = {"wldbg", "server"}
  BY <1>1, <1>2 DEF Here, Past
<1>6. /\ Coming' = (IF freed THEN Append(Coming, DeleteId(m.id)) ELSE Coming)
      /\ Going' = Going /\ DOMAIN events' = {"wldbg", "client"}
  BY <1>1, <1>2 DEF Coming, Going
<1> QED BY <1>2, <1>3, <1>4, <1>5, <1>6 DEF m, freed

LEMMA TakesClients ==
    ASSUME Lives, ServerTakes, NEW x \in ClientId
    PROVE  Clients(x)'
<1> DEFINE m == Head(Past)
           freed == m.ends /\ m.id \in ClientId
<1>1. Clients(x) /\ IsSeq(Past) /\ IsSeq(Coming) /\ x \in Id /\ x # 0 /\ x # 1
  BY IdFacts DEF Lives, Queues
<1>2. /\ Past # <<>> /\ IsRequest(m)
      /\ Here' = Here /\ Past' = Tail(Past)
      /\ Coming' = (IF freed THEN Append(Coming, DeleteId(m.id)) ELSE Coming)
      /\ Going' = Going /\ client' = client /\ GetObject(x)' = GetObject(x)
      /\ server'[x] = IF x = m.arg.new THEN m.arg.made
                      ELSE IF x = m.id /\ m.ends THEN "none" ELSE server[x]
  BY <1>1, ServerTakesDoes
<1>3. Range(Past) = {m} \cup Range(Past')
  BY <1>1, <1>2, TailIs
<1>4. ~(m.id = x /\ m.ends) => FollowsIn(Coming, Coming', x)
  <2>1. CASE freed
    <3>1. /\ DeleteId(m.id).id # x /\ DeleteId(m.id).arg.new # x
          /\ m.id # x => ~Releases(DeleteId(m.id), x)
      BY <1>1, <2>1, DeleteIdFacts
    <3> QED BY <1>1, <1>2, <2>1, <3>1, FollowsInAppend
  <2>2. CASE ~freed
    BY <1>2, <2>2, FollowsItself
  <2> QED BY <2>1, <2>2
<1>5. Follows(Here, Here', x) /\ FollowsIn(Going, Going', x)
  BY <1>2, FollowsItself
<1> HIDE DEF m
<1>6. CASE m.arg.new = x
  <2>1. ~Unmade(Range(Past), x)
    BY <1>3, <1>6 DEF Unmade
  <2>2. PICK i \in Interface : Seen(x, i)
    BY <1>1, <2>1 DEF Clients, Unused, Unasked, Asked, Known, Released, Gone, Ended
  <2>3. m.arg.made = i /\ Unmade(Range(Past'), x) /\ m.id # x
    BY <1>1, <1>2, <1>6, <2>2, HeadMakes DEF Seen, m
  <2>4. Speaks(x, i, "zombie")'
    BY <1>1, <1>2, <2>2, <2>3, SpeaksTaken DEF Seen, m
  <2>5. Untold(x)'
    BY <1>4, <1>5, <2>2, <2>3, UntoldKept DEF Seen
  <2>6. Saying(Range(Coming'), x, i) /\ Lasting(Range(Coming'), x)
    BY <2>5, SilentSays DEF Untold
  <2>7. server'[x] = i /\ GetObject(x)' = Shown(i) /\ Unmade(Range(Here'), x)
    BY <1>2, <1>6, <2>2, <2>3 DEF Seen
  <2>8. Known(x, i)'
    BY <2>3, <2>4, <2>5, <2>6, <2>7 DEF Known, Untold
  <2> QED BY <2>8 DEF Clients
<1>7. CASE m.id = x /\ m.ends /\ m.arg.new # x
  <2>1. ~Silent(Range(Past), x)
    BY <1>3, <1>7 DEF Silent
  <2>2. \A i : ~MadeFirst(Past, x, i)
    BY <1>1, <1>2, <1>7, HeadMakes DEF m
  <2>3. PICK i \in Interface : Known(x, i)
    BY <1>1, <2>1, <2>2 DEF Clients, Unused, Unasked, Asked, Seen, Released, Gone, Ended
  <2>4. client[x] = "zombie" /\ Silent(Range(Here), x) /\ Silent(Range(Past'), x)
    BY <1>1, <1>2, <1>7, <2>3, SpeaksLast DEF Known, m
  <2>5. Unmade(Range(Here'), x) /\ Unmade(Range(Past'), x)
    BY <1>2, <1>3, <2>3 DEF Known, Unmade
  <2>6. Ended(x, i)'
    BY <1>2, <1>7, <2>4, <2>5 DEF Ended, Unasked
  <2>7. Coming' = Append(Coming, DeleteId(x))
    BY <1>2, <1>7
  <2>8. DeleteId(x).id # x /\ Releases(DeleteId(x), x)
    BY <1>1, DeleteIdFacts
  <2>9. ReleasedLast(Coming', x)
    BY <1>1, <2>3, <2>7, <2>8, AppendEnds DEF Known
  <2>10. Saying(Range(Coming'), x, i)
    <3>1. Range(Coming') = Range(Coming) \cup {DeleteId(x)}
      BY <1>1, <2>7, AppendIs
    <3> QED BY <2>3, <2>8, <3>1 DEF Known, Saying
  <2>11. Released(x, i)'
    BY <1>2, <2>3, <2>6, <2>9, <2>10 DEF Known, Released
  <2> QED BY <2>11 DEF Clients
<1>8. CASE ~(m.id = x /\ m.ends) /\ m.arg.new # x
  <2>1. Follows(Past, Past', x)
    BY <1>1, <1>2, <1>8, FollowsTail DEF m
  <2>2. Untouched(x)
    BY <1>2, <1>4, <1>5, <1>8, <2>1 DEF Untouched
  <2> QED BY <1>1, <2>2, ClientsKept
<1> QED BY <1>6, <1>7, <1>8

LEMMA TakesServers ==
    ASSUME Lives, ServerTakes, NEW y \in ServerId
    PROVE  Servers(y)'
<1> DEFINE m == Head(Past)
           freed == m.ends /\ m.id \in ClientId
<1>1. /\ Servers(y) /\ IsSeq(Past) /\ IsSeq(Coming)
      /\ y \in Id /\ y \notin ClientId /\ y # 0 /\ y # 1
  BY IdFacts DEF Lives, Queues
<1>2. /\ Past # <<>> /\ IsRequest(m)
      /\ Here' = Here /\ Past' = Tail(Past)
      /\ Coming' = (IF freed THEN Append(Coming, DeleteId(m.id)) ELSE Coming)
      /\ Going' = Going /\ client' = client /\ GetObject(y)' = GetObject(y)
      /\ server'[y] = IF y = m.arg.new THEN m.arg.made
                      ELSE IF y = m.id /\ m.ends THEN "none" ELSE server[y]
  BY <1>1, ServerTakesDoes
<1>3. Range(Past) = {m} \cup Range(Past')
  BY <1>1, <1>2, TailIs
<1>4. m.arg.new # y
  BY <1>1, <1>2, RequestFacts
<1>5. CASE m.id = y /\ m.ends
  <2>1. ~Unsaid(y)
    BY <1>3, <1>5 DEF Unsaid, Silent
  <2>2. PICK i \in Interface \cap MadeByEvents : Present(y, i)
    BY <1>1, <2>1 DEF Servers, Vacant, Announced, Introduced
  <2>3. client[y] = "none" /\ Silent(Range(Here), y) /\ Silent(Range(Past'), y)
    BY <1>1, <1>2, <1>5, <2>2, SpeaksLast DEF Present
  <2>4. Telling(Range(Coming), y, GetObject(y)) /\ Coming' = Coming
    BY <1>1, <1>2, <1>5, <2>2, SayingTells DEF Present
  <2>5. Vacant(y)'
    BY <1>2, <1>4, <1>5, <2>2, <2>3, <2>4 DEF Present, Vacant, Unsaid
  <2> QED BY <2>5 DEF Servers
<1>6. CASE ~(m.id = y /\ m.ends)
  <2>1. Follows(Past, Past', y)
    BY <1>1, <1>2, <1>4, <1>6, FollowsTail
  <2>2. FollowsIn(Coming, Coming', y)
    <3>1. CASE freed
      <4>1. /\ DeleteId(m.id).id # y /\ DeleteId(m.id).arg.new # y
            /\ ~Releases(DeleteId(m.id), y)
        BY <1>1, <3>1, DeleteIdFacts
      <4> QED BY <1>1, <1>2, <3>1, <4>1, FollowsInAppend
    <3>2. CASE ~freed
      BY <1>2, <3>2, FollowsItself
    <3> QED BY <3>1, <3>2
  <2>3. Untouched(y)
    BY <1>2, <1>4, <1>6, <2>1, <2>2, FollowsItself DEF Untouched
  <2> QED BY <1>1, <2>3, ServersKept
<1> QED BY <1>5, <1>6

LEMMA TakesKeep ==
    ASSUME Lives, ServerTakes
    PROVE  Lives'
<1> DEFINE m == Head(Past)
           freed == m.ends /\ m.id \in ClientId
<1>1. Queues /\ Views /\ Display /\ IsSeq(Past) /\ IsSeq(Coming)
  BY DEF Lives, Queues
<1>2. /\ Past # <<>> /\ IsRequest(m)
      /\ Here' = Here /\ Past' = Tail(Past)
      /\ Coming' = (IF freed THEN Append(Coming, DeleteId(m.id)) ELSE Coming)
      /\ Going' = Going
      /\ DOMAIN requests' = {"wldbg", "server"} /\ DOMAIN events' = {"wldbg", "client"}
      /\ client' = client /\ Tables' /\ \A x : GetObject(x)' = GetObject(x)
      /\ server' = [n \in Id |->
            IF n = m.arg.new THEN m.arg.made
            ELSE IF n = m.id /\ m.ends THEN "none" ELSE server[n]]
  BY ServerTakesDoes
<1>3. Range(Past) = {m} \cup Range(Past') /\ IsSeq(Past')
  BY <1>1, <1>2, TailIs
<1>4. /\ IsSeq(Coming') /\ (Saying(Range(Coming'), 1, "display"))
      /\ \A e \in Range(Coming') : IsEvent(e)
  <2>1. (\A e \in Range(Coming) : IsEvent(e)) /\ Saying(Range(Coming), 1, "display")
    BY <1>1 DEF Queues, Display
  <2>2. CASE freed
    <3>1. IsEvent(DeleteId(m.id)) /\ DeleteId(m.id).intf = "display"
      BY <2>2, DeleteIdFacts
    <3>2. Range(Coming') = Range(Coming) \cup {DeleteId(m.id)} /\ IsSeq(Coming')
      BY <1>1, <1>2, <2>2, AppendIs
    <3> QED BY <2>1, <3>1, <3>2 DEF Saying
  <2>3. CASE ~freed
    BY <1>1, <1>2, <2>1, <2>3
  <2> QED BY <2>2, <2>3
<1>5. /\ m.intf \in Interface /\ (m.arg.new # 0 => m.arg.made \in Interface)
      /\ m.arg.new \in ClientId \cup {0} /\ (m.intf = "display" => ~m.ends)
  BY <1>2, RequestFacts
<1> HIDE DEF m, freed
<1>6. Queues'
  BY <1>1, <1>2, <1>3, <1>4 DEF Queues
<1>7. Views'
  BY <1>1, <1>2, <1>5, IdFacts DEF Views
<1>8. Display'
  <2>1. m.id = 1 => ~m.ends
    BY <1>1, <1>3, <1>5 DEF Display, Saying
  <2>2. server'[1] = "display"
    BY <1>1, <1>2, <1>5, <2>1, IdFacts DEF Display
  <2>3. Saying(Range(Here'), 1, "display") /\ Saying(Range(Past'), 1, "display")
    BY <1>1, <1>2, <1>3 DEF Display, Saying
  <2> QED BY <1>1, <1>2, <1>4, <2>2, <2>3 DEF Display
<1> QED BY <1>2, <1>6, <1>7, <1>8, TakesClients, TakesServers DEF Lives

-----------------------------------------------------------------------------
(* The compositor writes an event. *)

LEMMA PutBehind ==
    ASSUME NEW q, IsSeq(q), NEW m, NEW d
    PROVE  q \o <<m>> = Append(q, m) /\ q \o <<m, d>> = Append(Append(q, m), d)
<1> DEFINE S == Range(q) \cup {m, d}
<1>1. q \in Seq(S) /\ m \in S /\ d \in S
  <2>1. q \in Seq(Range(q))
    BY DEF IsSeq
  <2> QED BY <2>1, SeqIs
<1> HIDE DEF S
<1>2. Append(q, m) = q \o <<m>> /\ Append(q, m) \in Seq(S)
  BY <1>1, AppendIsConcat, AppendProperties
<1>3. Append(Append(q, m), d) = Append(q, m) \o <<d>>
  BY <1>1, <1>2, AppendIsConcat
<1>4. (q \o <<m>>) \o <<d>> = q \o (<<m>> \o <<d>>)
  BY <1>1, ConcatAssociative
<1>5. <<m>> \o <<d>> = <<m, d>>
  <2>1. <<m>> \in Seq(S)
    BY <1>1
  <2>2. <<m>> \o <<d>> = Append(<<m>>, d)
    BY <1>1, <2>1, AppendIsConcat
  <2>3. Append(<<m>>, d) = <<m, d>>
    <3>1. /\ Append(<<m>>, d) \in Seq(S) /\ Len(Append(<<m>>, d)) = 2
          /\ Append(<<m>>, d)[1] = m /\ Append(<<m>>, d)[2] = d
      BY <1>1, <2>1, AppendProperties
    <3>2. <<m, d>> \in Seq(S) /\ Len(<<m, d>>) = 2 /\ <<m, d>>[1] = m /\ <<m, d>>[2] = d
      BY <1>1
    <3>3. \A k \in 1 .. 2 : k = 1 \/ k = 2
      OBVIOUS
    <3> QED BY <3>1, <3>2, <3>3, SeqEqual
  <2> QED BY <2>2, <2>3
<1> QED BY <1>2, <1>3, <1>4, <1>5

LEMMA ServerSendsDoes ==
    ASSUME Lives, ServerSends
    PROVE  \E m :
              /\ IsEvent(m) /\ ~IsDeleteId(m) /\ server[m.id] = m.intf
              /\ m.arg.new # 0 => server[m.arg.new] = "none"
              /\ Meaning(m, "events", server)
              /\ m.ends => /\ m.id \in ClientId /\ Fleeting(m.intf)
                           /\ Protocol[m.intf].requests = <<>>
              /\ Here' = Here /\ Past' = Past /\ Going' = Going
              /\ Coming' = (IF m.ends THEN Append(Append(Coming, m), DeleteId(m.id))
                            ELSE Append(Coming, m))
              /\ requests' = requests /\ DOMAIN events' = {"wldbg", "client"}
              /\ client' = client /\ Tables' /\ \A x : GetObject(x)' = GetObject(x)
              /\ server' = [n \in Id |->
                    IF n = m.arg.new THEN m.arg.made
                    ELSE IF n = m.id /\ m.ends THEN "none" ELSE server[n]]
<1> DEFINE fresh == {n \in ServerId : server[n] = "none"}
           out(m) == IF m.ends THEN <<m, DeleteId(m.id)>> ELSE <<m>>
           then(m) == [n \in Id |-> IF n = m.arg.new THEN m.arg.made
                                    ELSE IF n = m.id /\ m.ends THEN "none" ELSE server[n]]
<1>1. PICK id \in Id : server[id] # "none" /\
         \E m \in Messages(id, server[id], Protocol[server[id]]["events"], server, fresh) :
            LET o == IF m.ends THEN <<m, DeleteId(id)>> ELSE <<m>>
            IN  /\ ~IsDeleteId(m)
                /\ events' = [events EXCEPT !["wldbg"] = @ \o o]
                /\ server' = [n \in Id |->
                      IF n = m.arg.new THEN m.arg.made
                      ELSE IF n = m.id /\ m.ends THEN "none" ELSE server[n]]
  BY DEF ServerSends
<1>2. PICK m \in Messages(id, server[id], Protocol[server[id]]["events"], server, fresh) :
            LET o == IF m.ends THEN <<m, DeleteId(id)>> ELSE <<m>>
            IN  /\ ~IsDeleteId(m)
                /\ events' = [events EXCEPT !["wldbg"] = @ \o o]
                /\ server' = [n \in Id |->
                      IF n = m.arg.new THEN m.arg.made
                      ELSE IF n = m.id /\ m.ends THEN "none" ELSE server[n]]
  BY <1>1
<1>3. /\ Views /\ Display /\ Tables /\ IsSeq(Coming) /\ DOMAIN events = {"wldbg", "client"}
  BY DEF Lives, Queues
<1>4. server[id] \in Interface
  BY <1>1, <1>3 DEF Views
<1>5. fresh \in SUBSET ServerId
  OBVIOUS
<1>6. /\ IsMessage(m, "events", ServerId) /\ m.id = id /\ m.intf = server[id]
      /\ m.arg.new # 0 => m.arg.new \in fresh
      /\ Meaning(m, "events", server)
  BY <1>4, <1>5, MessagesAre
<1>7. /\ events' = [events EXCEPT !["wldbg"] = @ \o out(m)] /\ server' = then(m)
      /\ ~IsDeleteId(m)
  BY <1>2, <1>6
<1>8. ASSUME m.ends
      PROVE  /\ m.id \in ClientId /\ Fleeting(m.intf)
             /\ Protocol[m.intf].requests = <<>>
  <2>1. /\ Fleeting(m.intf) /\ Protocol[m.intf].requests = <<>>
        /\ m.intf \notin MadeByEvents /\ m.intf # "display"
    BY <1>6, <1>8, EndingFacts DEF IsMessage
  <2>2. m.id # 1
    BY <1>3, <1>6, <2>1 DEF Display
  <2>3. m.id \notin ServerId
    <3> SUFFICES ASSUME m.id \in ServerId PROVE FALSE
      OBVIOUS
    <3>1. Servers(m.id)
      BY DEF Lives
    <3>2. PICK i \in MadeByEvents : server[m.id] = i
      BY <1>1, <1>6, <3>1 DEF Servers, Vacant, Announced, Introduced, Present
    <3> QED BY <1>6, <2>1, <3>2
  <2> QED BY <1>6, <2>1, <2>2, <2>3, IdFacts DEF IsMessage
<1>9. IsEvent(m)
  BY <1>6, <1>7, <1>8 DEF IsEvent
<1>10. m.ends \in BOOLEAN
  BY <1>9, EventFacts
<1>11. /\ requests' = requests /\ client' = client
       /\ UNCHANGED <<client_objects, server_objects>>
  BY DEF ServerSends
<1> HIDE DEF then
<1>12. Coming' = Coming \o out(m) /\ Going' = Going /\ DOMAIN events' = {"wldbg", "client"}
  <2> HIDE DEF out
  <2> QED BY <1>3, <1>7 DEF Coming, Going
<1>13. Coming' = (IF m.ends THEN Append(Append(Coming, m), DeleteId(m.id))
                  ELSE Append(Coming, m))
  BY <1>3, <1>12, PutBehind
<1>14. Tables' /\ \A x : GetObject(x)' = GetObject(x)
  BY <1>3, <1>11, NoPut
<1>15. Here' = Here /\ Past' = Past
  BY <1>11 DEF Here, Past
<1>16. m.arg.new # 0 => server[m.arg.new] = "none"
  BY <1>6
<1> HIDE DEF out, fresh
<1>17. server' = [n \in Id |-> IF n = m.arg.new THEN m.arg.made
                               ELSE IF n = m.id /\ m.ends THEN "none" ELSE server[n]]
  BY <1>7 DEF then
<1>18. server[m.id] = m.intf /\ Meaning(m, "events", server)
  BY <1>6
<1> QED BY <1>7, <1>8, <1>9, <1>11, <1>12, <1>13, <1>14, <1>15, <1>16, <1>17, <1>18

\* An event that has nothing to do with x, and the delete_id behind it.
LEMMA SentFollows ==
    ASSUME IsSeq(Coming), NEW m, NEW x, m.id # x, m.arg.new # x, x # 0, x # 1,
           IsEvent(m), ~IsDeleteId(m), m.ends => m.id \in ClientId,
           Coming' = (IF m.ends THEN Append(Append(Coming, m), DeleteId(m.id))
                      ELSE Append(Coming, m))
    PROVE  FollowsIn(Coming, Coming', x)
<1>1. FollowsIn(Coming, Append(Coming, m), x)
  <2>1. ~Releases(m, x)
    BY DEF Releases
  <2> QED BY <2>1, FollowsInAppend
<1>2. CASE m.ends
  <2>1. IsSeq(Append(Coming, m))
    BY AppendIs
  <2>2. /\ DeleteId(m.id).id # x /\ DeleteId(m.id).arg.new # x
        /\ ~Releases(DeleteId(m.id), x)
    BY <1>2, DeleteIdFacts
  <2>3. FollowsIn(Append(Coming, m), Coming', x)
    BY <1>2, <2>1, <2>2, FollowsInAppend
  <2> QED BY <1>1, <2>3, FollowsOn, Zenon
<1>3. CASE ~m.ends
  BY <1>1, <1>3
<1> QED BY <1>2, <1>3

LEMMA SendsClients ==
    ASSUME Lives, ServerSends, NEW x \in ClientId
    PROVE  Clients(x)'
<1>1. /\ Clients(x) /\ IsSeq(Coming) /\ x \in Id /\ x # 0 /\ x # 1 /\ x \notin ServerId
      /\ \A r \in Range(Here) \cup Range(Past) : IsRequest(r)
  BY IdFacts DEF Lives, Queues
<1>2. PICK m :
         /\ IsEvent(m) /\ ~IsDeleteId(m) /\ server[m.id] = m.intf
         /\ m.ends => /\ m.id \in ClientId /\ Fleeting(m.intf)
                      /\ Protocol[m.intf].requests = <<>>
         /\ Here' = Here /\ Past' = Past /\ Going' = Going
         /\ Coming' = (IF m.ends THEN Append(Append(Coming, m), DeleteId(m.id))
                       ELSE Append(Coming, m))
         /\ client' = client /\ \A n : GetObject(n)' = GetObject(n)
         /\ server' = [n \in Id |->
               IF n = m.arg.new THEN m.arg.made
               ELSE IF n = m.id /\ m.ends THEN "none" ELSE server[n]]
  BY ServerSendsDoes
<1>3. /\ m.intf \in Interface /\ m.arg.new # x /\ m.ends \in BOOLEAN /\ ~Releases(m, x)
      /\ "none" \notin Interface
  BY <1>1, <1>2, EventFacts, TableWords DEF NoObject, Releases
<1>4. /\ server'[x] = (IF x = m.id /\ m.ends THEN "none" ELSE server[x])
      /\ GetObject(x)' = GetObject(x)
  BY <1>1, <1>2, <1>3
<1>5. CASE m.id # x
  <2>1. FollowsIn(Coming, Coming', x)
    BY <1>1, <1>2, <1>3, <1>5, SentFollows
  <2>2. Untouched(x)
    BY <1>2, <1>4, <1>5, <2>1, FollowsItself DEF Untouched
  <2> QED BY <1>1, <2>2, ClientsKept
<1>6. CASE m.id = x
  <2>1. PICK i \in Interface : Known(x, i)
    BY <1>1, <1>2, <1>3, <1>6 DEF Clients, Unused, Asked, Seen, Released, Gone, Ended
  <2>2. /\ server[x] = i /\ i = m.intf /\ GetObject(x) = Shown(i) /\ Speaks(x, i, "zombie")
        /\ Unmade(Range(Here), x) /\ Unmade(Range(Past), x)
        /\ Saying(Range(Coming), x, i) /\ Lasting(Range(Coming), x) /\ Held(Range(Coming), x)
        /\ Lasting(Range(Going), x) /\ Held(Range(Going), x)
    BY <1>2, <1>6, <2>1 DEF Known
  <2> DEFINE q == Append(Coming, m)
  <2>3. IsSeq(q) /\ Range(q) = Range(Coming) \cup {m}
    BY <1>1, AppendIs
  <2>4. Saying(Range(q), x, i) /\ Held(Range(q), x)
    BY <1>3, <2>2, <2>3 DEF Saying, Held
  <2>5. CASE ~m.ends
    <3>1. Coming' = q /\ Lasting(Range(q), x)
      BY <1>2, <2>2, <2>3, <2>5 DEF Lasting
    <3>2. Speaks(x, i, "zombie")'
      <4>1. Follows(Here, Here', x) /\ Follows(Past, Past', x) /\ client'[x] = client[x]
        BY <1>2, FollowsItself
      <4> QED BY <2>2, <4>1, SpeaksKept
    <3>3. Known(x, i)'
      BY <1>2, <1>4, <2>2, <2>4, <2>5, <3>1, <3>2 DEF Known
    <3> QED BY <3>3 DEF Clients
  <2>6. CASE m.ends
    <3>1. Coming' = Append(q, DeleteId(x)) /\ Fleeting(i) /\ Protocol[i].requests = <<>>
      BY <1>2, <1>6, <2>2, <2>6
    <3>2. Silent(Range(Here), x) /\ Silent(Range(Past), x)
      <4>1. Saying(Range(Here), x, i) /\ Saying(Range(Past), x, i)
        BY <2>2 DEF Speaks
      <4>2. \A r \in Range(Here) \cup Range(Past) : Protocol[r.intf].requests # <<>>
        BY <1>1, RequestFacts
      <4> QED BY <3>1, <4>1, <4>2 DEF Saying, Silent
    <3>3. client[x] = i
      <4>1. ~EndsLast(Past, x)
        <5> SUFFICES ASSUME EndsLast(Past, x) PROVE FALSE
          OBVIOUS
        <5>1. PICK p \in Parts(Past) : p.at.id = x
          BY DEF EndsLast
        <5>2. p.at \in Range(Past)
          BY PartsAre DEF Lives, Queues
        <5> QED BY <3>2, <5>1, <5>2 DEF Silent
      <4>2. ~EndsLast(Here, x)
        <5> SUFFICES ASSUME EndsLast(Here, x) PROVE FALSE
          OBVIOUS
        <5>1. PICK p \in Parts(Here) : p.at.id = x
          BY DEF EndsLast
        <5>2. p.at \in Range(Here)
          BY PartsAre DEF Lives, Queues
        <5> QED BY <3>2, <5>1, <5>2 DEF Silent
      <4> QED BY <2>2, <4>1, <4>2 DEF Speaks
    <3>4. Ended(x, i)'
      BY <1>2, <1>4, <1>6, <2>2, <2>6, <3>1, <3>2, <3>3 DEF Ended, Unasked
    <3>5. DeleteId(x).id # x /\ Releases(DeleteId(x), x)
      BY <1>1, DeleteIdFacts
    <3>6. ReleasedLast(Coming', x)
      BY <2>3, <2>4, <3>1, <3>5, AppendEnds
    <3>7. Saying(Range(Coming'), x, i)
      <4>1. Range(Coming') = Range(q) \cup {DeleteId(x)}
        BY <2>3, <3>1, AppendIs
      <4> QED BY <2>4, <3>5, <4>1 DEF Saying
    <3>8. Released(x, i)'
      BY <1>2, <1>4, <2>2, <3>4, <3>6, <3>7 DEF Released
    <3> QED BY <3>8 DEF Clients
  <2> QED BY <2>5, <2>6
<1> QED BY <1>5, <1>6

LEMMA SendsServers ==
    ASSUME Lives, ServerSends, NEW y \in ServerId
    PROVE  Servers(y)'
<1>1. Servers(y) /\ IsSeq(Coming) /\ y \in Id /\ y # 0 /\ y # 1 /\ y \notin ClientId
  BY IdFacts DEF Lives, Queues
<1>2. PICK m :
         /\ IsEvent(m) /\ ~IsDeleteId(m) /\ server[m.id] = m.intf
         /\ m.arg.new # 0 => server[m.arg.new] = "none"
         /\ m.ends => m.id \in ClientId
         /\ Here' = Here /\ Past' = Past /\ Going' = Going
         /\ Coming' = (IF m.ends THEN Append(Append(Coming, m), DeleteId(m.id))
                       ELSE Append(Coming, m))
         /\ client' = client /\ \A n : GetObject(n)' = GetObject(n)
         /\ server' = [n \in Id |->
               IF n = m.arg.new THEN m.arg.made
               ELSE IF n = m.id /\ m.ends THEN "none" ELSE server[n]]
  BY ServerSendsDoes
<1>3. /\ m.intf \in Interface /\ m.ends \in BOOLEAN /\ "none" \notin Interface
      /\ m.arg.new # 0 => m.arg.made \in Interface \cap MadeByEvents
  BY <1>2, EventFacts, TableWords DEF NoObject
<1>4. /\ server'[y] = (IF y = m.arg.new THEN m.arg.made ELSE server[y])
      /\ GetObject(y)' = GetObject(y) /\ (Unsaid(y) => Unsaid(y)')
  BY <1>1, <1>2 DEF Unsaid
<1> DEFINE q == Append(Coming, m)
<1>5. IsSeq(q) /\ Range(q) = Range(Coming) \cup {m}
  BY <1>1, AppendIs
<1>6. CASE m.arg.new = y
  <2> DEFINE i == m.arg.made
  <2>1. server[y] = "none" /\ m.id # y /\ i \in Interface \cap MadeByEvents
    BY <1>1, <1>2, <1>3, <1>6
  <2>2. Vacant(y)
    BY <1>1, <1>3, <2>1 DEF Servers, Announced, Introduced, Present
  <2>3. MadeAgain(q, y, i, GetObject(y))
    BY <1>1, <1>6, <2>1, <2>2, AppendMakes DEF Vacant
  <2>4. MadeAgain(Coming', y, i, GetObject(y))
    <3>1. CASE m.ends
      <4>1. /\ DeleteId(m.id).id # y /\ DeleteId(m.id).arg.new # y
        BY <1>1, <1>2, <3>1, DeleteIdFacts
      <4>2. Coming' = Append(q, DeleteId(m.id))
        BY <1>2, <3>1
      <4> QED BY <1>5, <2>3, <4>1, <4>2, AppendKeeps
    <3>2. CASE ~m.ends
      BY <1>2, <2>3, <3>2
    <3> QED BY <3>1, <3>2
  <2>5. Announced(y, i)'
    BY <1>2, <1>4, <1>6, <2>2, <2>4 DEF Vacant, Announced
  <2> QED BY <2>1, <2>5 DEF Servers
<1>7. CASE m.id = y /\ m.arg.new # y
  <2>1. Coming' = q /\ server[y] = m.intf
    BY <1>1, <1>2, <1>3, <1>7
  <2>2. PICK i \in Interface \cap MadeByEvents :
           Announced(y, i) \/ Introduced(y, i) \/ Present(y, i)
    BY <1>1, <1>3, <2>1 DEF Servers, Vacant
  <2>3. m.intf = i
    BY <2>1, <2>2 DEF Announced, Introduced, Present
  <2>4. Unmade(Range(Coming), y) /\ Saying(Range(Coming), y, i) =>
           Unmade(Range(Coming'), y) /\ Saying(Range(Coming'), y, i)
    BY <1>5, <1>7, <2>1, <2>3 DEF Unmade, Saying
  <2>5. CASE Announced(y, i)
    <3>1. MadeAgain(Coming', y, i, GetObject(y))
      BY <1>1, <1>7, <2>1, <2>3, <2>5, AppendKeeps DEF Announced
    <3>2. Announced(y, i)'
      BY <1>2, <1>4, <1>7, <2>5, <3>1 DEF Announced
    <3> QED BY <3>2 DEF Servers
  <2>6. CASE Introduced(y, i)
    <3>1. Introduced(y, i)'
      BY <1>2, <1>4, <1>7, <2>4, <2>6 DEF Introduced
    <3> QED BY <3>1 DEF Servers
  <2>7. CASE Present(y, i)
    <3>1. Speaks(y, i, "none")'
      <4>1. Follows(Here, Here', y) /\ Follows(Past, Past', y) /\ client'[y] = client[y]
        BY <1>2, FollowsItself
      <4> QED BY <2>7, <4>1, SpeaksKept DEF Present
    <3>2. Present(y, i)'
      BY <1>2, <1>4, <1>7, <2>4, <2>7, <3>1 DEF Present
    <3> QED BY <3>2 DEF Servers
  <2> QED BY <2>2, <2>5, <2>6, <2>7
<1>8. CASE m.id # y /\ m.arg.new # y
  <2>1. FollowsIn(Coming, Coming', y)
    BY <1>1, <1>2, <1>8, SentFollows
  <2>2. Untouched(y)
    BY <1>2, <1>4, <1>8, <2>1, FollowsItself DEF Untouched
  <2> QED BY <1>1, <2>2, ServersKept
<1> QED BY <1>6, <1>7, <1>8

LEMMA SendsKeep ==
    ASSUME Lives, ServerSends
    PROVE  Lives'
<1>1. Queues /\ Views /\ Display /\ IsSeq(Coming) /\ 1 \in Id
  BY IdFacts DEF Lives, Queues
<1>2. PICK m :
         /\ IsEvent(m) /\ server[m.id] = m.intf
         /\ m.ends => m.id \in ClientId
         /\ Here' = Here /\ Past' = Past /\ Going' = Going
         /\ Coming' = (IF m.ends THEN Append(Append(Coming, m), DeleteId(m.id))
                       ELSE Append(Coming, m))
         /\ requests' = requests /\ DOMAIN events' = {"wldbg", "client"}
         /\ client' = client /\ Tables' /\ \A n : GetObject(n)' = GetObject(n)
         /\ server' = [n \in Id |->
               IF n = m.arg.new THEN m.arg.made
               ELSE IF n = m.id /\ m.ends THEN "none" ELSE server[n]]
  BY ServerSendsDoes
<1>3. /\ m.arg.new \in ServerId \cup {0} /\ m.ends \in BOOLEAN
      /\ (m.arg.new # 0 => m.arg.made \in Interface)
  BY <1>2, EventFacts
<1>4. 1 # m.arg.new /\ (m.ends => m.id # 1) /\ (m.id = 1 => m.intf = "display")
  BY <1>1, <1>2, <1>3, IdFacts DEF Display
<1> DEFINE q == Append(Coming, m)
<1>5. IsSeq(q) /\ Range(q) = Range(Coming) \cup {m}
  BY <1>1, AppendIs
<1>6. (\A e \in Range(q) : IsEvent(e)) /\ Saying(Range(q), 1, "display")
  BY <1>1, <1>2, <1>4, <1>5 DEF Queues, Display, Saying
<1>7. /\ IsSeq(Coming') /\ (\A e \in Range(Coming') : IsEvent(e))
      /\ Saying(Range(Coming'), 1, "display")
  <2>1. CASE m.ends
    <3>1. IsEvent(DeleteId(m.id)) /\ DeleteId(m.id).intf = "display"
      BY <1>2, <2>1, DeleteIdFacts
    <3>2. Range(Coming') = Range(q) \cup {DeleteId(m.id)} /\ IsSeq(Coming')
      BY <1>2, <1>5, <2>1, AppendIs
    <3> QED BY <1>6, <3>1, <3>2 DEF Saying
  <2>2. CASE ~m.ends
    BY <1>2, <1>5, <1>6, <2>2
  <2> QED BY <2>1, <2>2
<1>8. Queues'
  BY <1>1, <1>2, <1>7 DEF Queues
<1>9. Views'
  BY <1>1, <1>2, <1>3, IdFacts DEF Views
<1>10. Display'
  <2>1. server'[1] = "display"
    BY <1>1, <1>2, <1>4 DEF Display
  <2> QED BY <1>1, <1>2, <1>7, <2>1 DEF Display
<1> QED BY <1>2, <1>8, <1>9, <1>10, SendsClients, SendsServers DEF Lives

-----------------------------------------------------------------------------
(* wldbg passes an event on. *)

\* What releases x is still to come.
LEMMA ReleaseComes ==
    ASSUME NEW q, IsSeq(q), q # <<>>, NEW x, ~Releases(Head(q), x), ReleasedLast(q, x)
    PROVE  ReleasedLast(Tail(q), x)
<1> DEFINE r == Tail(q)
           h == Head(q)
<1>1. \A p \in Parts(q) : p.at # h => \E o \in Parts(r) :
         o.at = p.at /\ o.after = p.after /\ o.before \subseteq p.before
  BY PartsTail
<1> HIDE DEF r, h
<1>2. PICK p \in Parts(q) : /\ Releases(p.at, x) /\ Silent(p.after, x)
                            /\ Held(p.before, x) /\ Held(p.after, x)
  BY Zenon DEF ReleasedLast
<1>3. p.at # h
  BY <1>2 DEF h
<1>4. PICK o \in Parts(r) : o.at = p.at /\ o.after = p.after /\ o.before \subseteq p.before
  BY <1>1, <1>3
<1>5. Held(o.before, x)
  BY <1>2, <1>4 DEF Held
<1> QED BY <1>2, <1>4, <1>5 DEF ReleasedLast, r

LEMMA ResolveInDoes ==
    ASSUME Lives, ResolveIn
    PROVE  LET m == Head(Coming)
           IN  /\ Coming # <<>> /\ IsEvent(m)
               /\ Coming' = Tail(Coming) /\ Going' = Append(Going, m)
               /\ Here' = Here /\ Past' = Past
               /\ requests' = requests /\ DOMAIN events' = {"wldbg", "client"}
               /\ client' = client /\ server' = server /\ Tables'
               /\ \A x \in Id : GetObject(x)' =
                     IF x = m.arg.new THEN Shown(m.arg.made)
                     ELSE IF Releases(m, x) THEN "FREE" ELSE GetObject(x)
<1> DEFINE m == Head(Coming)
<1>1. /\ Coming # <<>>
      /\ events' = [wldbg |-> Tail(Coming), client |-> Append(Going, m)]
      /\ client' = client /\ server' = server /\ requests' = requests
  BY DEF ResolveIn, Coming, Going
<1>2. /\ Coming' = Tail(Coming) /\ Going' = Append(Going, m)
      /\ DOMAIN events' = {"wldbg", "client"}
      /\ Here' = Here /\ Past' = Past
  BY <1>1 DEF Here, Past, Coming, Going
<1>3. IsEvent(m)
  <2>1. IsSeq(Coming) /\ \A r \in Range(Coming) : IsEvent(r)
    BY DEF Lives, Queues
  <2> QED BY <1>1, <2>1, TailIs
<1>4. Tables /\ GetObject(1) = "display"
  BY DEF Lives, Display
<1>5. Tables' /\ \A x \in Id : GetObject(x)' =
                    IF x = m.arg.new THEN Shown(m.arg.made)
                    ELSE IF Releases(m, x) THEN "FREE" ELSE GetObject(x)
  <2>1. CASE IsDeleteId(m)
    <3>1. PICK n \in ClientId : m = DeleteId(n)
      BY <1>3, <2>1 DEF IsEvent
    <3>2. Put(n, "FREE")
      BY <1>4, <3>1, ResolveInFrees
    <3>3. n \in Id /\ "FREE" \in Entry
      BY IdFacts, TableWords
    <3>4. m.arg.new = 0 /\ \A x : Releases(m, x) <=> x = n
      BY <3>1, DeleteIdFacts
    <3> HIDE DEF m
    <3>5. Tables' /\ \A x \in Id : GetObject(x)' = IF x = n THEN "FREE" ELSE GetObject(x)
      BY <1>4, <3>2, <3>3, PutIs
    <3> QED BY <3>4, <3>5, IdFacts
  <2>2. CASE ~IsDeleteId(m)
    <3>1. Resolves(m)
      <4>1. GetObject(m.id) = Shown(m.intf)
        BY <1>1, HeadsResolved DEF Resolved, Coming
      <4>2. IsMessage(m, "events", ServerId)
        BY <1>3, <2>2, DeleteIdFacts DEF IsEvent
      <4> QED BY <2>2, <4>1, <4>2, ResolveInIs
    <3>2. \A x : ~Releases(m, x)
      BY <2>2 DEF Releases
    <3>3. CASE m.arg.new = 0
      <4>1. Tables' /\ \A x : GetObject(x)' = GetObject(x)
        BY <1>4, <3>1, <3>3, NoPut DEF Resolves
      <4> QED BY <3>2, <3>3, <4>1, IdFacts
    <3>4. CASE m.arg.new # 0
      <4>1. m.arg.new \in Id /\ Shown(m.arg.made) \in Entry
        BY <1>3, <3>4, EventFacts, IdFacts, TableWords
      <4>2. Put(m.arg.new, Shown(m.arg.made))
        BY <3>1, <3>4 DEF Resolves
      <4> HIDE DEF m
      <4>3. Tables' /\ \A x \in Id : GetObject(x)' =
                          IF x = m.arg.new THEN Shown(m.arg.made) ELSE GetObject(x)
        BY <1>4, <4>1, <4>2, PutIs
      <4> QED BY <3>2, <4>3
    <3> QED BY <3>3, <3>4
  <2> QED BY <2>1, <2>2
<1> QED BY <1>1, <1>2, <1>3, <1>5

LEMMA InClients ==
    ASSUME Lives, ResolveIn, NEW x \in ClientId
    PROVE  Clients(x)'
<1> DEFINE m == Head(Coming)
<1>1. /\ Clients(x) /\ IsSeq(Coming) /\ IsSeq(Going)
      /\ x \in Id /\ x # 0 /\ x # 1 /\ x \notin ServerId
  BY IdFacts DEF Lives, Queues
<1>2. /\ Coming # <<>> /\ IsEvent(m)
      /\ Coming' = Tail(Coming) /\ Going' = Append(Going, m)
      /\ Here' = Here /\ Past' = Past /\ client' = client /\ server' = server
      /\ GetObject(x)' = IF x = m.arg.new THEN Shown(m.arg.made)
                         ELSE IF Releases(m, x) THEN "FREE" ELSE GetObject(x)
  BY <1>1, ResolveInDoes
<1>3. /\ m.arg.new # x /\ m.ends \in BOOLEAN
      /\ Releases(m, x) => m.id = 1 /\ m = DeleteId(x)
  BY <1>1, <1>2, EventFacts
<1>4. /\ Range(Coming) = {m} \cup Range(Coming') /\ IsSeq(Coming')
      /\ Range(Going') = Range(Going) \cup {m}
  BY <1>1, <1>2, TailIs, AppendIs
<1>5. Follows(Here, Here', x) /\ Follows(Past, Past', x)
  BY <1>2, FollowsItself
<1>6. ASSUME NEW i, Ended(x, i) PROVE Ended(x, i)'
  BY <1>2, <1>5, <1>6, UnaskedKept DEF Ended
<1> HIDE DEF m
<1>7. CASE Releases(m, x)
  <2>1. ~Held(Range(Coming), x)
    BY <1>4, <1>7 DEF Held
  <2>2. PICK i \in Interface : Released(x, i)
    BY <1>1, <2>1 DEF Clients, Unused, Asked, Seen, Known, Gone, Untold
  <2>3. Silent(Range(Coming'), x) /\ Held(Range(Coming'), x)
    BY <1>1, <1>2, <1>7, <2>2, HeadEnds DEF Released, m
  <2>4. ReleasedLast(Going', x)
    BY <1>1, <1>2, <1>7, <2>2, AppendEnds DEF Released
  <2>5. Ended(x, i)' /\ GetObject(x)' = "FREE"
    BY <1>2, <1>3, <1>6, <1>7, <2>2 DEF Released
  <2>6. Gone(x, i)'
    BY <2>3, <2>4, <2>5 DEF Gone
  <2> QED BY <2>6 DEF Clients
<1>8. CASE m.id = x /\ ~Releases(m, x)
  <2>1. ~Silent(Range(Coming), x)
    BY <1>4, <1>8 DEF Silent
  <2>2. PICK i \in Interface : Known(x, i) \/ Released(x, i)
    BY <1>1, <2>1 DEF Clients, Unused, Asked, Seen, Gone, Untold
  <2>3. CASE Known(x, i)
    <3>1. Saying(Range(Coming'), x, i) /\ Lasting(Range(Coming'), x) /\ Held(Range(Coming'), x)
      BY <1>4, <2>3 DEF Known, Saying, Lasting, Held
    <3>2. Lasting(Range(Going'), x) /\ Held(Range(Going'), x)
      BY <1>4, <1>8, <2>3 DEF Known, Lasting, Held
    <3>3. Speaks(x, i, "zombie")'
      BY <1>2, <1>5, <2>3, SpeaksKept DEF Known
    <3>4. Known(x, i)'
      BY <1>2, <1>3, <1>8, <2>3, <3>1, <3>2, <3>3 DEF Known
    <3> QED BY <3>4 DEF Clients
  <2>4. CASE Released(x, i)
    <3>1. ReleasedLast(Coming', x)
      BY <1>1, <1>2, <1>8, <2>4, ReleaseComes DEF Released, m
    <3>2. Saying(Range(Coming'), x, i) /\ Held(Range(Going'), x)
      BY <1>4, <1>8, <2>4 DEF Released, Saying, Held
    <3>3. Ended(x, i)' /\ GetObject(x)' = Shown(i)
      BY <1>2, <1>3, <1>6, <1>8, <2>4 DEF Released
    <3>4. Released(x, i)'
      BY <3>1, <3>2, <3>3 DEF Released
    <3> QED BY <3>4 DEF Clients
  <2> QED BY <2>2, <2>3, <2>4
<1>9. CASE m.id # x /\ ~Releases(m, x)
  <2>1. FollowsIn(Coming, Coming', x)
    BY <1>1, <1>2, <1>3, <1>9, FollowsInTail DEF m
  <2>2. FollowsIn(Going, Going', x)
    BY <1>1, <1>2, <1>3, <1>9, FollowsInAppend
  <2>3. Untouched(x)
    BY <1>2, <1>3, <1>5, <1>9, <2>1, <2>2 DEF Untouched
  <2> QED BY <1>1, <2>3, ClientsKept
<1> QED BY <1>7, <1>8, <1>9

LEMMA InServers ==
    ASSUME Lives, ResolveIn, NEW y \in ServerId
    PROVE  Servers(y)'
<1> DEFINE m == Head(Coming)
<1>1. /\ Servers(y) /\ IsSeq(Coming) /\ IsSeq(Going)
      /\ y \in Id /\ y # 0 /\ y # 1 /\ y \notin ClientId
  BY IdFacts DEF Lives, Queues
<1>2. /\ Coming # <<>> /\ IsEvent(m)
      /\ Coming' = Tail(Coming) /\ Going' = Append(Going, m)
      /\ Here' = Here /\ Past' = Past /\ client' = client /\ server' = server
      /\ GetObject(y)' = IF y = m.arg.new THEN Shown(m.arg.made)
                         ELSE IF Releases(m, y) THEN "FREE" ELSE GetObject(y)
  BY <1>1, ResolveInDoes
<1>3. ~Releases(m, y) /\ (m.id = y => ~m.ends) /\ m.ends \in BOOLEAN
  BY <1>1, <1>2, EventFacts
<1>4. /\ Range(Coming) = {m} \cup Range(Coming')
      /\ Range(Going') = Range(Going) \cup {m}
  BY <1>1, <1>2, TailIs, AppendIs
<1>5. Unsaid(y) => Unsaid(y)'
  BY <1>2 DEF Unsaid
<1> HIDE DEF m
<1>6. CASE m.arg.new = y
  <2>1. ~Unmade(Range(Coming), y)
    BY <1>4, <1>6 DEF Unmade
  <2>2. PICK i \in Interface \cap MadeByEvents : Announced(y, i)
    BY <1>1, <2>1 DEF Servers, Vacant, Introduced, Present
  <2>3. /\ m.arg.made = i /\ Unmade(Range(Coming'), y) /\ Saying(Range(Coming'), y, i)
    BY <1>1, <1>2, <1>6, <2>2, HeadMakes DEF Announced, m
  <2>4. MadeOnce(Going', y, i)
    BY <1>1, <1>2, <1>6, <2>2, <2>3, AppendMakes DEF Announced
  <2>5. Introduced(y, i)'
    BY <1>2, <1>5, <1>6, <2>2, <2>3, <2>4 DEF Announced, Introduced
  <2> QED BY <2>5 DEF Servers
<1>7. CASE m.arg.new # y
  <2>1. Follows(Coming, Coming', y)
    BY <1>1, <1>2, <1>3, <1>7, FollowsTail DEF m
  <2>2. GetObject(y)' = GetObject(y) /\ server'[y] = server[y]
    BY <1>2, <1>3, <1>7
  <2>3. Unmade(Range(Going), y) => Unmade(Range(Going'), y)
    BY <1>4, <1>7 DEF Unmade
  <2>4. ASSUME Vacant(y) PROVE Vacant(y)'
    <3>1. Unmade(Range(Coming'), y) /\ Telling(Range(Coming'), y, GetObject(y))
      BY <2>1, <2>4 DEF Vacant, Follows
    <3> QED BY <1>5, <2>2, <2>3, <2>4, <3>1 DEF Vacant
  <2>5. ASSUME NEW i, Announced(y, i) PROVE Announced(y, i)'
    <3>1. MadeAgain(Coming', y, i, GetObject(y))
      BY <2>1, <2>5 DEF Announced, Follows
    <3> QED BY <1>5, <2>2, <2>3, <2>5, <3>1 DEF Announced
  <2>6. ASSUME NEW i, Introduced(y, i) PROVE Introduced(y, i)'
    <3>1. Unmade(Range(Coming'), y) /\ Saying(Range(Coming'), y, i)
      BY <2>1, <2>6 DEF Introduced, Follows
    <3>2. MadeOnce(Going', y, i)
      BY <1>1, <1>2, <1>7, <2>6, AppendKeeps DEF Introduced
    <3> QED BY <1>5, <2>2, <2>6, <3>1, <3>2 DEF Introduced
  <2>7. ASSUME NEW i, Present(y, i) PROVE Present(y, i)'
    <3>1. Unmade(Range(Coming'), y) /\ Saying(Range(Coming'), y, i)
      BY <2>1, <2>7 DEF Present, Follows
    <3>2. Speaks(y, i, "none")'
      <4>1. Follows(Here, Here', y) /\ Follows(Past, Past', y) /\ client'[y] = client[y]
        BY <1>2, FollowsItself
      <4> QED BY <2>7, <4>1, SpeaksKept DEF Present
    <3> QED BY <2>2, <2>3, <2>7, <3>1, <3>2 DEF Present
  <2> QED BY <1>1, <2>4, <2>5, <2>6, <2>7, Zenon DEF Servers
<1> QED BY <1>6, <1>7

LEMMA InKeeps ==
    ASSUME Lives, ResolveIn
    PROVE  Lives'
<1> DEFINE m == Head(Coming)
<1>1. /\ Queues /\ Views /\ Display /\ IsSeq(Coming) /\ IsSeq(Going)
      /\ 1 \in Id /\ 1 \notin ClientId /\ 1 \notin ServerId
  BY IdFacts DEF Lives, Queues
<1>2. /\ Coming # <<>> /\ IsEvent(m)
      /\ Coming' = Tail(Coming) /\ Going' = Append(Going, m)
      /\ Here' = Here /\ Past' = Past
      /\ requests' = requests /\ DOMAIN events' = {"wldbg", "client"}
      /\ client' = client /\ server' = server /\ Tables'
      /\ \A x \in Id : GetObject(x)' =
            IF x = m.arg.new THEN Shown(m.arg.made)
            ELSE IF Releases(m, x) THEN "FREE" ELSE GetObject(x)
  BY ResolveInDoes
<1>3. /\ Range(Coming) = {m} \cup Range(Coming') /\ IsSeq(Coming')
      /\ Range(Going') = Range(Going) \cup {m} /\ IsSeq(Going')
  BY <1>1, <1>2, TailIs, AppendIs
<1>4. 1 # m.arg.new /\ ~Releases(m, 1)
  BY <1>1, <1>2, EventFacts
<1> HIDE DEF m
<1>5. Queues'
  BY <1>1, <1>2, <1>3 DEF Queues
<1>6. Views'
  BY <1>1, <1>2 DEF Views
<1>7. Display'
  <2>1. GetObject(1)' = GetObject(1)
    BY <1>1, <1>2, <1>4
  <2>2. Saying(Range(Coming'), 1, "display")
    BY <1>1, <1>3 DEF Display, Saying
  <2> QED BY <1>1, <1>2, <2>1, <2>2 DEF Display
<1> QED BY <1>2, <1>5, <1>6, <1>7, InClients, InServers DEF Lives

-----------------------------------------------------------------------------
(* The client takes an event. *)

LEMMA ClientTakesDoes ==
    ASSUME Lives, ClientTakes
    PROVE  LET m == Head(Going)
           IN  /\ Going # <<>> /\ IsEvent(m)
               /\ Going' = Tail(Going)
               /\ Here' = Here /\ Past' = Past /\ Coming' = Coming
               /\ requests' = requests /\ DOMAIN events' = {"wldbg", "client"}
               /\ server' = server /\ Tables' /\ \A x : GetObject(x)' = GetObject(x)
               /\ client' = [n \in Id |->
                     IF n = m.arg.new THEN m.arg.made
                     ELSE IF Releases(m, n) THEN "none"
                     ELSE IF n = m.id /\ m.ends THEN "zombie" ELSE client[n]]
<1> DEFINE m == Head(Going)
<1>1. /\ DOMAIN events = {"wldbg", "client"}
      /\ IsSeq(Going) /\ (\A r \in Range(Going) : IsEvent(r)) /\ Tables
  BY DEF Lives, Queues
<1>2. /\ Going # <<>> /\ events' = [events EXCEPT !["client"] = Tail(@)]
      /\ client' = [n \in Id |->
            IF n = m.arg.new THEN m.arg.made
            ELSE IF IsDeleteId(m) /\ n = m.data[3] THEN "none"
            ELSE IF n = m.id /\ m.ends THEN "zombie" ELSE client[n]]
      /\ UNCHANGED <<server, requests, client_objects, server_objects>>
  BY DEF ClientTakes, Going
<1>3. IsEvent(m)
  BY <1>1, <1>2, TailIs
<1>4. Tables' /\ \A x : GetObject(x)' = GetObject(x)
  BY <1>1, <1>2, NoPut
<1> HIDE DEF m
<1>5. /\ Here' = Here /\ Past' = Past /\ Coming' = Coming /\ Going' = Tail(Going)
      /\ DOMAIN events' = {"wldbg", "client"}
  BY <1>1, <1>2 DEF Here, Past, Coming, Going
<1>6. client' = [n \in Id |->
            IF n = m.arg.new THEN m.arg.made
            ELSE IF Releases(m, n) THEN "none"
            ELSE IF n = m.id /\ m.ends THEN "zombie" ELSE client[n]]
  BY <1>2 DEF Releases
<1> QED BY <1>2, <1>3, <1>4, <1>5, <1>6 DEF m

LEMMA ClientTakesClients ==
    ASSUME Lives, ClientTakes, NEW x \in ClientId
    PROVE  Clients(x)'
<1> DEFINE m == Head(Going)
<1>1. /\ Clients(x) /\ IsSeq(Going)
      /\ x \in Id /\ x # 0 /\ x # 1 /\ x \notin ServerId
  BY IdFacts DEF Lives, Queues
<1>2. /\ Going # <<>> /\ IsEvent(m) /\ Going' = Tail(Going)
      /\ Here' = Here /\ Past' = Past /\ Coming' = Coming
      /\ server' = server /\ GetObject(x)' = GetObject(x)
      /\ client'[x] = IF x = m.arg.new THEN m.arg.made
                      ELSE IF Releases(m, x) THEN "none"
                      ELSE IF x = m.id /\ m.ends THEN "zombie" ELSE client[x]
  BY <1>1, ClientTakesDoes
<1>3. m.arg.new # x
  BY <1>1, <1>2, EventFacts
<1>4. Range(Going) = {m} \cup Range(Going')
  BY <1>1, <1>2, TailIs
<1>5. /\ Follows(Here, Here', x) /\ Follows(Past, Past', x)
      /\ FollowsIn(Coming, Coming', x)
  BY <1>2, FollowsItself
<1> HIDE DEF m
<1>6. CASE Releases(m, x)
  <2>1. ~Held(Range(Going), x)
    BY <1>4, <1>6 DEF Held
  <2>2. PICK i \in Interface : Gone(x, i)
    BY <1>1, <2>1 DEF Clients, Unused, Asked, Seen, Known, Released, Untold
  <2>3. Silent(Range(Going'), x) /\ Held(Range(Going'), x)
    BY <1>1, <1>2, <1>6, <2>2, HeadEnds DEF Gone, m
  <2>4. Untold(x)'
    BY <1>2, <2>2, <2>3, SilentSays DEF Gone, Untold
  <2>5. Unasked(x)'
    BY <1>5, <2>2, UnaskedKept DEF Gone, Ended
  <2>6. Unused(x)'
    BY <1>2, <1>3, <1>6, <2>2, <2>4, <2>5 DEF Gone, Ended, Unused
  <2> QED BY <2>6 DEF Clients
<1>7. CASE ~Releases(m, x) /\ m.id = x /\ m.ends
  <2>1. ~Lasting(Range(Going), x)
    BY <1>4, <1>7 DEF Lasting
  <2>2. PICK i \in Interface : Released(x, i) \/ Gone(x, i)
    BY <1>1, <2>1 DEF Clients, Unused, Asked, Seen, Known, Untold
  <2>3. Ended(x, i)'
    <3>1. Ended(x, i)
      BY <2>2 DEF Released, Gone
    <3>2. Unasked(x)'
      BY <1>5, <3>1, UnaskedKept DEF Ended
    <3> QED BY <1>2, <1>3, <1>7, <3>1, <3>2 DEF Ended
  <2>4. CASE Released(x, i)
    <3>1. Held(Range(Going'), x)
      BY <1>4, <2>4 DEF Released, Held
    <3>2. Released(x, i)'
      BY <1>2, <2>3, <2>4, <3>1 DEF Released
    <3> QED BY <3>2 DEF Clients
  <2>5. CASE Gone(x, i)
    <3>1. ReleasedLast(Going', x)
      BY <1>1, <1>2, <1>7, <2>5, ReleaseComes DEF Gone, m
    <3>2. Gone(x, i)'
      BY <1>2, <2>3, <2>5, <3>1 DEF Gone
    <3> QED BY <3>2 DEF Clients
  <2> QED BY <2>2, <2>4, <2>5
<1>8. CASE ~Releases(m, x) /\ ~(m.id = x /\ m.ends)
  <2>1. FollowsIn(Going, Going', x)
    BY <1>1, <1>2, <1>3, <1>8, FollowsInTail DEF m
  <2>2. Untouched(x)
    BY <1>2, <1>3, <1>5, <1>8, <2>1 DEF Untouched
  <2> QED BY <1>1, <2>2, ClientsKept
<1> QED BY <1>6, <1>7, <1>8

LEMMA ClientTakesServers ==
    ASSUME Lives, ClientTakes, NEW y \in ServerId
    PROVE  Servers(y)'
<1> DEFINE m == Head(Going)
<1>1. /\ Servers(y) /\ IsSeq(Going)
      /\ y \in Id /\ y # 0 /\ y # 1 /\ y \notin ClientId
  BY IdFacts DEF Lives, Queues
<1>2. /\ Going # <<>> /\ IsEvent(m) /\ Going' = Tail(Going)
      /\ Here' = Here /\ Past' = Past /\ Coming' = Coming
      /\ server' = server /\ GetObject(y)' = GetObject(y)
      /\ client'[y] = IF y = m.arg.new THEN m.arg.made
                      ELSE IF Releases(m, y) THEN "none"
                      ELSE IF y = m.id /\ m.ends THEN "zombie" ELSE client[y]
  BY <1>1, ClientTakesDoes
<1>3. ~Releases(m, y) /\ ~(m.id = y /\ m.ends)
  BY <1>1, <1>2, EventFacts
<1>4. Range(Going) = {m} \cup Range(Going')
  BY <1>1, <1>2, TailIs
<1> HIDE DEF m
<1>5. CASE m.arg.new = y
  <2>1. ~Unmade(Range(Going), y)
    BY <1>4, <1>5 DEF Unmade
  <2>2. PICK i \in Interface \cap MadeByEvents : Introduced(y, i)
    BY <1>1, <2>1 DEF Servers, Vacant, Announced, Present
  <2>3. m.arg.made = i /\ Unmade(Range(Going'), y)
    BY <1>1, <1>2, <1>5, <2>2, HeadMakes DEF Introduced, m
  <2>4. client'[y] = i
    BY <1>2, <1>5, <2>3
  <2>5. Speaks(y, i, "none")'
    <3>1. Silent(Range(Here'), y) /\ Silent(Range(Past'), y)
      BY <1>2, <2>2 DEF Introduced, Unsaid
    <3>2. /\ Saying(Range(Here'), y, i) /\ Lasting(Range(Here'), y)
          /\ Saying(Range(Past'), y, i) /\ Lasting(Range(Past'), y)
      BY <3>1, SilentSays
    <3> QED BY <2>4, <3>2 DEF Speaks
  <2>6. Present(y, i)'
    BY <1>2, <2>2, <2>3, <2>5 DEF Introduced, Present
  <2> QED BY <2>6 DEF Servers
<1>6. CASE m.arg.new # y
  <2>1. FollowsIn(Going, Going', y)
    BY <1>1, <1>2, <1>3, <1>6, FollowsInTail DEF m
  <2>2. Untouched(y)
    BY <1>2, <1>3, <1>6, <2>1, FollowsItself DEF Untouched
  <2> QED BY <1>1, <2>2, ServersKept
<1> QED BY <1>5, <1>6

LEMMA ClientTakesKeep ==
    ASSUME Lives, ClientTakes
    PROVE  Lives'
<1> DEFINE m == Head(Going)
<1>1. /\ Queues /\ Views /\ Display /\ IsSeq(Going)
      /\ 1 \in Id /\ 1 \notin ClientId /\ 1 \notin ServerId
  BY IdFacts DEF Lives, Queues
<1>2. /\ Going # <<>> /\ IsEvent(m) /\ Going' = Tail(Going)
      /\ Here' = Here /\ Past' = Past /\ Coming' = Coming
      /\ requests' = requests /\ DOMAIN events' = {"wldbg", "client"}
      /\ server' = server /\ Tables' /\ \A x : GetObject(x)' = GetObject(x)
      /\ client' = [n \in Id |->
            IF n = m.arg.new THEN m.arg.made
            ELSE IF Releases(m, n) THEN "none"
            ELSE IF n = m.id /\ m.ends THEN "zombie" ELSE client[n]]
  BY ClientTakesDoes
<1>3. Range(Going) = {m} \cup Range(Going') /\ IsSeq(Going')
  BY <1>1, <1>2, TailIs
<1>4. /\ 1 # m.arg.new /\ ~Releases(m, 1) /\ ~(m.id = 1 /\ m.ends)
      /\ m.arg.new \in ServerId \cup {0} /\ (m.arg.new # 0 => m.arg.made \in Interface)
  BY <1>1, <1>2, EventFacts
<1> HIDE DEF m
<1>5. Queues'
  BY <1>1, <1>2, <1>3 DEF Queues
<1>6. Views'
  BY <1>1, <1>2, <1>4, IdFacts DEF Views, NoObject
<1>7. Display'
  BY <1>1, <1>2, <1>4 DEF Display
<1> QED BY <1>2, <1>5, <1>6, <1>7, ClientTakesClients, ClientTakesServers DEF Lives

-----------------------------------------------------------------------------
(* The beginning, and every step. *)

LEMMA NothingSays ==
    /\ Range(<<>>) = {} /\ IsSeq(<<>>)
    /\ \A x : Silent({}, x) /\ Unmade({}, x) /\ Held({}, x) /\ Lasting({}, x)
    /\ \A x, i : Saying({}, x, i) /\ Telling({}, x, i)
<1>1. <<>> \in Seq({})
  BY EmptySeq
<1>2. DOMAIN <<>> = {}
  BY <1>1, LenProperties, EmptySeq
<1>3. Range(<<>>) = {}
  BY <1>2, RangeIs
<1> QED BY <1>1, <1>3 DEF IsSeq, Silent, Unmade, Held, Lasting, Saying, Telling

\* create_resolved_objects: the table begins with the display and the objects
\* the client has made before.
LEMMA FirstTable ==
    ASSUME NEW bound \in Bound,
           client_objects = Map!Insert(Map!Insert(Map!EmptyMap, 0, "NULL"), 1, "display") \o bound,
           server_objects = Map!EmptyMap
    PROVE  /\ Tables /\ GetObject(1) = "display"
           /\ \A x \in ClientId : GetObject(x) = IF x - 1 \in DOMAIN bound THEN bound[x - 1]
                                                 ELSE "NULL"
<1> DEFINE one == Map!Insert(Map!EmptyMap, 0, "NULL")
           two == Map!Insert(one, 1, "display")
           n == Len(bound)
<1>1. /\ bound \in Seq(Loaded) /\ n < MaxClient /\ "NULL" \in Entry /\ "display" \in Entry
      /\ Loaded \subseteq Entry
  BY ResolverAssumption, TableWords DEF ResolverAssumption, Entry
<1>2. n \in Nat /\ DOMAIN bound = 1 .. n /\ bound \in Seq(Entry)
  BY <1>1, LenProperties
<1>3. Map!EmptyMap \in Seq(Entry) /\ Len(Map!EmptyMap) = 0
  BY EmptySeq DEF Map!EmptyMap
<1>4. one \in Seq(Entry) /\ Len(one) = 1
  <2>1. /\ one \in Seq(Entry)
        /\ Len(one) = IF 0 < Len(Map!EmptyMap) THEN Len(Map!EmptyMap) ELSE 0 + 1
    <3>1. 0 \in Nat
      OBVIOUS
    <3> QED BY <1>1, <1>3, <3>1, InsertIsMap, ZenonT(60)
  <2> QED BY <1>3, <2>1
<1> HIDE DEF one
<1>5. two \in Seq(Entry) /\ Len(two) = 2
  <2>1. two \in Seq(Entry) /\ Len(two) = IF 1 < Len(one) THEN Len(one) ELSE 1 + 1
    <3>1. 1 \in Nat
      OBVIOUS
    <3> QED BY <1>1, <1>4, <3>1, InsertIsMap, Zenon
  <2> QED BY <1>4, <2>1
<1>6. two[2] = "display"
  <2>1. Map!Get(two, 1) = "display"
    BY <1>1, <1>4, InsertThenGet
  <2> HIDE DEF two
  <2> QED BY <1>5, <2>1 DEF Map!Get
<1>7. client_objects = two \o bound
  BY DEF one
<1> HIDE DEF two, n
<1>8. /\ client_objects \in Seq(Entry) /\ Len(client_objects) = 2 + n
      /\ \A k \in 1 .. 2 + n : client_objects[k] = IF k <= 2 THEN two[k] ELSE bound[k - 2]
  <2>1. /\ two \o bound \in Seq(Entry) /\ Len(two \o bound) = Len(two) + Len(bound)
        /\ \A k \in 1 .. Len(two) + Len(bound) :
              (two \o bound)[k] = IF k <= Len(two) THEN two[k] ELSE bound[k - Len(two)]
    BY <1>2, <1>5, ConcatProperties
  <2> QED BY <1>5, <1>7, <2>1 DEF n
<1>9. Tables
  <2>1. Len(client_objects) <= MaxClient + 1
    BY <1>1, <1>2, <1>8, IdFacts
  <2>2. server_objects \in Seq(Entry) /\ Len(server_objects) <= MaxServer - ServerStart + 1
    BY <1>3, ResolverAssumption DEF ResolverAssumption
  <2> QED BY <1>8, <2>1, <2>2 DEF Tables
<1>10. \A x \in {1} \cup ClientId :
          GetObject(x) = IF x < 2 + n THEN client_objects[x + 1] ELSE "NULL"
  <2> SUFFICES ASSUME NEW x \in {1} \cup ClientId
               PROVE  GetObject(x) = IF x < 2 + n THEN client_objects[x + 1] ELSE "NULL"
    OBVIOUS
  <2>1. x \in Nat /\ ServerStart \in Nat /\ x < ServerStart
    BY IdFacts
  <2>2. GetObject(x) = Map!Get(client_objects, x)
    BY <2>1 DEF GetObject
  <2> QED BY <1>8, <2>2 DEF Map!Get
<1>11. GetObject(1) = "display"
  BY <1>2, <1>6, <1>8, <1>10
<1>12. ASSUME NEW x \in ClientId
       PROVE  GetObject(x) = IF x - 1 \in DOMAIN bound THEN bound[x - 1] ELSE "NULL"
  <2>1. x \in Nat /\ x >= 2
    BY DEF ClientId
  <2>2. CASE x < 2 + n
    <3>1. x + 1 \in 1 .. 2 + n /\ ~(x + 1 <= 2) /\ (x + 1) - 2 = x - 1 /\ x - 1 \in 1 .. n
      BY <1>2, <2>1, <2>2
    <3> QED BY <1>2, <1>8, <1>10, <2>2, <3>1
  <2>3. CASE ~(x < 2 + n)
    <3>1. x - 1 \notin 1 .. n
      BY <1>2, <2>1, <2>3
    <3> QED BY <1>2, <1>10, <2>3, <3>1
  <2> QED BY <2>2, <2>3
<1> QED BY <1>9, <1>11, <1>12

LEMMA InitLives ==
    ASSUME Init
    PROVE  Lives
<1>1. PICK bound \in Bound :
         /\ client = FirstObjects(bound) /\ server = FirstObjects(bound)
         /\ requests = [p \in {"wldbg", "server"} |-> <<>>]
         /\ events = [p \in {"wldbg", "client"} |-> <<>>]
         /\ client_objects =
               Map!Insert(Map!Insert(Map!EmptyMap, 0, "NULL"), 1, "display") \o bound
         /\ server_objects = Map!EmptyMap
  BY DEF Init
<1>2. /\ Here = <<>> /\ Past = <<>> /\ Coming = <<>> /\ Going = <<>>
      /\ DOMAIN requests = {"wldbg", "server"} /\ DOMAIN events = {"wldbg", "client"}
  BY <1>1 DEF Here, Past, Coming, Going
<1>3. /\ Range(Here) = {} /\ Range(Past) = {} /\ Range(Coming) = {} /\ Range(Going) = {}
  BY <1>2, NothingSays
<1>4. Queues
  BY <1>2, <1>3, NothingSays DEF Queues
<1>5. /\ Tables /\ GetObject(1) = "display"
      /\ \A x \in ClientId : GetObject(x) = IF x - 1 \in DOMAIN bound THEN bound[x - 1]
                                            ELSE "NULL"
  BY <1>1, FirstTable
<1>6. /\ Len(bound) \in Nat /\ Len(bound) < MaxClient /\ DOMAIN bound = 1 .. Len(bound)
      /\ \A k \in DOMAIN bound : bound[k] \in Loaded
  <2>1. bound \in Seq(Loaded) /\ Len(bound) < MaxClient
    BY ResolverAssumption DEF ResolverAssumption
  <2>2. Len(bound) \in Nat /\ bound \in [1 .. Len(bound) -> Loaded] /\ DOMAIN bound = 1 .. Len(bound)
    BY <2>1, LenProperties
  <2> QED BY <2>1, <2>2
<1>7. /\ client = server
      /\ client = [id \in Id |-> IF id = 1 THEN "display"
                                 ELSE IF id - 1 \in DOMAIN bound THEN bound[id - 1] ELSE "none"]
  BY <1>1 DEF FirstObjects
<1>8. Views
  BY <1>6, <1>7, TableWords DEF Views, NoObject
<1>9. Display
  BY <1>3, <1>5, <1>7, NothingSays, IdFacts DEF Display
<1>10. ASSUME NEW x \in ClientId PROVE Clients(x)
  <2>1. x \in Id /\ x # 1
    BY IdFacts
  <2>2. Unasked(x) /\ Untold(x)
    BY <1>3, NothingSays DEF Unasked, Untold
  <2>3. CASE x - 1 \in DOMAIN bound
    <3> DEFINE i == bound[x - 1]
    <3>1. i \in Interface /\ Shown(i) = i
      BY <1>6, <2>3, TableWords
    <3>2. client[x] = i /\ server[x] = i /\ GetObject(x) = Shown(i)
      BY <1>5, <1>7, <2>1, <2>3, <3>1
    <3> HIDE DEF i
    <3>3. Speaks(x, i, "zombie")
      BY <1>3, <3>2, NothingSays DEF Speaks
    <3>4. Known(x, i)
      BY <1>3, <3>2, <3>3, NothingSays DEF Known
    <3> QED BY <3>1, <3>4 DEF Clients
  <2>4. CASE x - 1 \notin DOMAIN bound
    <3>1. client[x] = "none" /\ server[x] = "none" /\ GetObject(x) = "NULL"
      BY <1>5, <1>7, <2>1, <2>4
    <3> QED BY <2>2, <3>1 DEF Clients, Unused
  <2> QED BY <2>3, <2>4
<1>11. ASSUME NEW y \in ServerId PROVE Servers(y)
  <2>1. y \in Id /\ y # 1 /\ y - 1 \notin DOMAIN bound
    BY <1>6, ResolverAssumption DEF ResolverAssumption, Id, ServerId
  <2>2. client[y] = "none" /\ server[y] = "none"
    BY <1>7, <2>1
  <2>3. Vacant(y)
    BY <1>3, <2>2, NothingSays DEF Vacant, Unsaid
  <2> QED BY <2>3 DEF Servers
<1> QED BY <1>4, <1>5, <1>8, <1>9, <1>10, <1>11 DEF Lives

LEMMA StutterKeeps ==
    ASSUME Lives, UNCHANGED vars
    PROVE  Lives'
<1>1. /\ Here' = Here /\ Past' = Past /\ Coming' = Coming /\ Going' = Going
      /\ client' = client /\ server' = server /\ requests' = requests /\ events' = events
      /\ client_objects' = client_objects /\ server_objects' = server_objects
  BY DEF vars, ways, Here, Past, Coming, Going
<1>2. Queues /\ Tables /\ Views /\ Display
  BY DEF Lives
<1>3. Tables' /\ \A x : GetObject(x)' = GetObject(x)
  BY <1>1, <1>2, NoPut
<1>4. \A x : Untouched(x)
  BY <1>1, <1>3, FollowsItself DEF Untouched
<1>5. Queues' /\ Views'
  BY <1>1, <1>2 DEF Queues, Views
<1>6. Display'
  BY <1>1, <1>2, <1>3 DEF Display
<1>7. ASSUME NEW x \in ClientId PROVE Clients(x)'
  BY <1>4, ClientsKept DEF Lives
<1>8. ASSUME NEW y \in ServerId PROVE Servers(y)'
  BY <1>4, ServersKept DEF Lives
<1> QED BY <1>3, <1>5, <1>6, <1>7, <1>8 DEF Lives

LEMMA NextKeeps ==
    ASSUME Lives, Next
    PROVE  Lives'
BY RequestsKeep, TakesKeep, SendsKeep, ClientTakesKeep, OutKeeps, InKeeps DEF Next

-----------------------------------------------------------------------------
(* What the table says. *)

LEMMA NoParts == Parts(<<>>) = {}
<1>1. Len(<<>>) = 0
  BY EmptySeq
<1> QED BY <1>1 DEF Parts

LEMMA LivesRests ==
    ASSUME Lives
    PROVE  ResolvedAtRest
<1> SUFFICES ASSUME Here = <<>>, Past = <<>>, Coming = <<>>, Going = <<>>,
                    NEW x \in {1} \cup ClientId
             PROVE  IF client[x] = "none" THEN GetObject(x) \in {"FREE", "NULL"}
                                          ELSE GetObject(x) = Shown(client[x])
  BY DEF ResolvedAtRest, Here, Past, Coming, Going
<1>1. CASE x = 1
  <2>1. client[1] = "display" /\ GetObject(1) = "display"
    BY DEF Lives, Display
  <2> QED BY <1>1, <2>1, TableWords
<1>2. CASE x \in ClientId
  <2>1. /\ ~EndsLast(Here, x) /\ ~EndsLast(Past, x)
        /\ ~ReleasedLast(Coming, x) /\ ~ReleasedLast(Going, x)
    BY NoParts DEF EndsLast, ReleasedLast
  <2>2. \A i : ~MadeFirst(Here, x, i) /\ ~MadeFirst(Past, x, i)
    BY NoParts DEF MadeFirst
  <2>3. Unused(x) \/ \E i \in Interface : Known(x, i)
    BY <1>2, <2>1, <2>2 DEF Lives, Clients, Asked, Seen, Released, Gone
  <2>4. CASE Unused(x)
    BY <2>4 DEF Unused
  <2>5. CASE \E i \in Interface : Known(x, i)
    <3>1. PICK i \in Interface : Known(x, i)
      BY <2>5
    <3>2. client[x] = i /\ GetObject(x) = Shown(i)
      BY <2>1, <3>1 DEF Known, Speaks
    <3> QED BY <3>1, <3>2, TableWords DEF NoObject
  <2> QED BY <2>3, <2>4, <2>5
<1> QED BY <1>1, <1>2

LEMMA LivesNames ==
    ASSUME Lives
    PROVE  NamesObjects
<1> SUFFICES ASSUME NEW x \in ClientId, server[x] # "none"
             PROVE  GetObject(x) = Shown(server[x])
  BY DEF NamesObjects
<1>1. PICK i \in Interface : Known(x, i)
  BY DEF Lives, Clients, Unused, Asked, Seen, Released, Gone, Ended
<1> QED BY <1>1 DEF Known

\* Whatever peers that keep to the protocol say, in whatever order it gets to
\* wldbg, every id is at one stage of its life, and the messages under way are
\* those of that stage.
THEOREM IdsLive == Spec => []Lives
<1>1. Init => Lives
  BY InitLives
<1>2. Lives /\ [Next]_vars => Lives'
  BY NextKeeps, StutterKeeps
<1> QED BY <1>1, <1>2, PTL DEF Spec

\* The resolve pass takes every message for one about the object its sender
\* means (resolve_out, resolve_in, wldbg_message_get_object), and knows the
\* client's objects when nothing is under way.
THEOREM PassResolves == Spec => [](Resolved /\ ResolvedAtRest)
<1>1. Lives => Resolved /\ ResolvedAtRest
  BY HeadsResolved, LivesRests
<1> QED BY <1>1, IdsLive, PTL

\* An object the compositor knows is named, when its protocol can be resolved:
\* what wl_drm's version digit breaks is nothing but that (resolve-pass.c:59).
THEOREM ObjectsNamed == Spec => []NamesObjects
<1>1. Lives => NamesObjects
  BY LivesNames
<1> QED BY <1>1, IdsLive, PTL

-----------------------------------------------------------------------------
(* With the objinfo pass behind it, and connections that go. *)

\* What is left of a connection.
Destroyed ==
    /\ fault # "none"
    /\ requests["wldbg"] = <<>> /\ events["wldbg"] = <<>>
    /\ client = [id \in Id |-> "none"]
    /\ client_objects = Map!EmptyMap

LEMMA ObjStepKeeps ==
    ASSUME Lives \/ Destroyed, [ObjNext]_objVars
    PROVE  (Lives \/ Destroyed)'
<1>1. CASE Lives /\ ObjNext
  <2>1. ASSUME Ask PROVE Lives'
    BY <1>1, <2>1, RequestsKeep DEF Ask
  <2>2. ASSUME Tell PROVE Lives'
    BY <1>1, <2>2, SendsKeep DEF Tell
  <2>3. ASSUME Take PROVE Lives'
    BY <1>1, <2>3, TakesKeep, ClientTakesKeep DEF Take
  <2>4. ASSUME PassOut PROVE Lives'
    BY <1>1, <2>4, OutKeeps DEF PassOut
  <2>5. ASSUME PassIn PROVE Lives'
    BY <1>1, <2>5, InKeeps DEF PassIn
  <2>6. ASSUME Show PROVE Lives'
    BY <1>1, <2>6, StutterKeeps DEF Show
  <2>7. ASSUME Destroy PROVE Destroyed'
    <3>1. DOMAIN requests = {"wldbg", "server"} /\ DOMAIN events = {"wldbg", "client"}
      BY <1>1 DEF Lives, Queues
    <3>2. /\ fault' # "none" /\ client' = [id \in Id |-> "none"]
          /\ client_objects' = Map!EmptyMap
          /\ requests' = [p \in DOMAIN requests |-> <<>>]
          /\ events' = [p \in DOMAIN events |-> <<>>]
      BY <2>7 DEF Destroy
    <3> QED BY <3>1, <3>2 DEF Destroyed
  <2> QED BY <1>1, <2>1, <2>2, <2>3, <2>4, <2>5, <2>6, <2>7 DEF ObjNext
<1>2. CASE Destroyed /\ ObjNext
  BY <1>2 DEF Destroyed, ObjNext, Ask, Tell, Take, PassOut, PassIn, Show, Destroy
<1>3. CASE Lives /\ UNCHANGED objVars
  BY <1>3, StutterKeeps DEF objVars
<1>4. CASE Destroyed /\ UNCHANGED objVars
  BY <1>4 DEF Destroyed, objVars, vars, ways
<1> QED BY <1>1, <1>2, <1>3, <1>4

LEMMA ObjLives == ObjSpec => [](Lives \/ Destroyed)
<1>1. ObjInit => Lives \/ Destroyed
  BY InitLives DEF ObjInit
<1>2. (Lives \/ Destroyed) /\ [ObjNext]_objVars => (Lives \/ Destroyed)'
  BY ObjStepKeeps
<1> QED BY <1>1, <1>2, PTL DEF ObjSpec

\* The objinfo pass, which stands behind the resolve pass and looks its messages
\* up in the same table, gets every message for the object it is about, until
\* the connection is destroyed and the table with it.
THEOREM EveryMessageResolved == ObjSpec => []Resolved
<1>1. Lives => Resolved
  BY HeadsResolved
<1>2. Destroyed => Resolved
  BY DEF Destroyed, Resolved
<1> QED BY <1>1, <1>2, ObjLives, PTL

\* When nothing is under way the table shows the client's objects as they are,
\* and none where the client has none: nothing that was freed stays.
THEOREM TableRightAtRest == ObjSpec => []ResolvedAtRest
<1>1. Lives => ResolvedAtRest
  BY LivesRests
<1>2. Destroyed => ResolvedAtRest
  <2> SUFFICES ASSUME Destroyed, NEW id \in {1} \cup ClientId
               PROVE  client[id] = "none" /\ GetObject(id) = "NULL"
    BY DEF ResolvedAtRest
  <2>1. id \in Id /\ id \in Nat /\ ServerStart \in Nat /\ id < ServerStart
    BY IdFacts
  <2>2. GetObject(id) = Map!Get(Map!EmptyMap, id)
    BY <2>1 DEF Destroyed, GetObject
  <2> QED BY <2>1, <2>2, EmptyGivesNull DEF Destroyed
<1> QED BY <1>1, <1>2, ObjLives, PTL

=============================================================================
