------------------------------ MODULE Resolver ------------------------------
(***************************************************************************)
(* How wldbg knows the interface of every object (src/resolve-pass.c and   *)
(* src/resolve.c): standing between a client and the compositor it watches *)
(* ids being made, freed and used again, and keeps a table of its own.     *)
(* The peers agree on their objects only in the end: what one of them says *)
(* may be on its way for long, and wldbg sees it at another time than the  *)
(* peer it is for.                                                         *)
(*                                                                         *)
(* A message is a record: the object it is for and the interface its       *)
(* sender takes that object to be, the opcode, the new object if it makes  *)
(* one, and the data words.  Sequences count from 1, ids and opcodes too.  *)
(***************************************************************************)
EXTENDS Naturals, Sequences, FiniteSets, SequencesExt

CONSTANTS
    Protocol,     \* Protocol[i]: the requests and events of interface i
    Loaded,       \* the interfaces wldbg has loaded (libwayland's, xdg, drm)
    NameWords,    \* NameWords[i]: words the name of interface i takes
    MaxClient,    \* bound: the largest id a client uses
    ServerStart,  \* WL_SERVER_ID_START
    MaxServer,    \* bound: the largest id the compositor uses
    Bound,        \* the objects the client may begin with, by their interfaces
    MaxRequests,  \* bound: requests on the way in one queue
    MaxEvents     \* bound: events on the way in one queue

ASSUME ResolverAssumption ==
    /\ {MaxClient, ServerStart, MaxServer, MaxRequests, MaxEvents} \subseteq Nat
    /\ 1 <= MaxClient /\ MaxClient < ServerStart /\ ServerStart <= MaxServer
    /\ Loaded \subseteq DOMAIN Protocol /\ {"display", "registry"} \subseteq Loaded
    /\ \A bound \in Bound : bound \in Seq(Loaded) /\ Len(bound) < MaxClient
    /\ \A i \in DOMAIN Protocol :
          \A m \in Range(Protocol[i].requests) \cup Range(Protocol[i].events) :
             Cardinality({k \in DOMAIN m.sig : m.sig[k] = "n"}) <= 1

VARIABLES
    client,    \* client[id]: the object as the client sees it
    server,    \* server[id]: the object as the compositor sees it
    requests,  \* requests[p]: requests on the way, to p = "wldbg" or "server"
    events,    \* events[p]: events on the way, to p = "wldbg" or "client"
    client_objects,  \* resolved_objects of the connection, the client's ids
    server_objects   \* and the server's, less WL_SERVER_ID_START

ways == <<requests, events>>
vars == <<client, server, ways, client_objects, server_objects>>

Map == INSTANCE IdsMap WITH Null <- "NULL"

ClientId == 2 .. MaxClient
ServerId == ServerStart .. MaxServer
Id == {1} \cup ClientId \cup ServerId

Interface == DOMAIN Protocol

\* Special interfaces of resolve.c: free_entry and unknown_interface.
Special == {"FREE", "unknown"}

\* What a table can say of an id.
Entry == Loaded \cup Special \cup {"NULL"}

\* Where the client sees no object: the id is free, or destroyed and not yet
\* released by delete_id.
NoObject == {"none", "zombie"}

\* The objects of a client that has made those in bound, one after the other.
FirstObjects(bound) ==
    [id \in Id |-> IF id = 1 THEN "display"
                   ELSE IF id - 1 \in DOMAIN bound THEN bound[id - 1] ELSE "none"]

\* create_resolved_objects, and what came before.
Init ==
    \E bound \in Bound :
       /\ client = FirstObjects(bound)
       /\ server = FirstObjects(bound)
       /\ requests = [p \in {"wldbg", "server"} |-> <<>>]
       /\ events = [p \in {"wldbg", "client"} |-> <<>>]
       /\ client_objects =
             Map!Insert(Map!Insert(Map!EmptyMap, 0, "NULL"), 1, "display") \o bound
       /\ server_objects = Map!EmptyMap

-----------------------------------------------------------------------------
(* Messages. *)

NewIdPos(sig) == SelectInSeq(sig, LAMBDA a : a = "n")

MakesObject(sig) == NewIdPos(sig) # 0

\* The words an argument of kind a takes on the wire; "2" and "?" are no
\* arguments, and the descriptor of an "h" travels beside the data.  An array
\* has one word.
ArgWords(a, arg) ==
    CASE a = "n" -> <<arg.new>>
      [] a = "o" -> <<arg.obj>>
      [] a = "s" -> <<NameWords[arg.made] * 4>> \o [k \in 1 .. NameWords[arg.made] |-> 0]
      [] a = "a" -> <<4, arg.number>>
      [] a \in {"u", "i"} -> <<arg.number>>
      [] OTHER -> <<>>

Wire(id, op, sig, arg) ==
    FoldLeft(LAMBDA data, a : data \o ArgWords(a, arg), <<id, op>>, sig)

\* The objects message msg can name, in the eyes view of its sender; 0 is null.
Named(msg, view) ==
    IF "o" \notin Range(msg.sig) THEN {0}
    ELSE {x \in Id : view[x] = msg.takes} \cup
         (IF "?" \in Range(msg.sig) THEN {0} ELSE {})

\* The arguments of message msg when its sender sees the objects view and has
\* the new ids in fresh to give out.
Arguments(msg, view, fresh) ==
    [new : IF MakesObject(msg.sig) THEN fresh ELSE {0},
     made : msg.makes,
     obj : Named(msg, view),
     number : msg.numbers]

\* The messages about object id, of interface i in the sender's eyes.
Messages(id, i, msgs, view, fresh) ==
    UNION {
       {[id |-> id, intf |-> i, op |-> op, ends |-> msgs[op].ends, arg |-> arg,
         data |-> Wire(id, op, msgs[op].sig, arg)] :
             arg \in Arguments(msgs[op], view, fresh)} : op \in DOMAIN msgs}

\* wl_display.delete_id is the compositor's first event.
IsDeleteId(m) == m.id = 1 /\ m.op = 1

DeleteId(id) ==
    [id |-> 1, intf |-> "display", op |-> 1, ends |-> FALSE, data |-> <<1, 1, id>>,
     arg |-> [new |-> 0, made |-> "none", obj |-> 0, number |-> id]]

-----------------------------------------------------------------------------
(* The peers. *)

\* The client writes a request about an object it has; new objects get an id
\* that is free on its side.
ClientRequests ==
    /\ Len(requests["wldbg"]) < MaxRequests
    /\ \E id \in Id : client[id] \notin NoObject /\
       \E m \in Messages(id, client[id], Protocol[client[id]].requests, client,
                         {n \in ClientId : client[n] = "none"}) :
          /\ requests' = [requests EXCEPT !["wldbg"] = Append(@, m)]
          /\ client' = [n \in Id |->
                IF n = m.arg.new THEN m.arg.made
                ELSE IF n = m.id /\ m.ends
                     THEN IF n \in ClientId THEN "zombie" ELSE "none"
                     ELSE client[n]]
    /\ UNCHANGED <<server, events, client_objects, server_objects>>

\* The compositor takes a request; a client's object that ends is released.
ServerTakes ==
    /\ requests["server"] # <<>>
    /\ LET m == Head(requests["server"])
           freed == m.ends /\ m.id \in ClientId
       IN  /\ freed => Len(events["wldbg"]) < MaxEvents
           /\ events' = IF freed
                 THEN [events EXCEPT !["wldbg"] = Append(@, DeleteId(m.id))] ELSE events
           /\ server' = [n \in Id |->
                 IF n = m.arg.new THEN m.arg.made
                 ELSE IF n = m.id /\ m.ends THEN "none" ELSE server[n]]
    /\ requests' = [requests EXCEPT !["server"] = Tail(@)]
    /\ UNCHANGED <<client, client_objects, server_objects>>

\* The compositor writes an event about an object it has; an event may be the
\* last of its object, which is released right behind it.
ServerSends ==
    /\ \E id \in Id : server[id] # "none" /\
       \E m \in {x \in Messages(id, server[id], Protocol[server[id]].events, server,
                                {n \in ServerId : server[n] = "none"}) :
                    ~IsDeleteId(x)} :
          LET out == IF m.ends THEN <<m, DeleteId(id)>> ELSE <<m>>
          IN  /\ Len(events["wldbg"] \o out) <= MaxEvents
              /\ events' = [events EXCEPT !["wldbg"] = @ \o out]
              /\ server' = [n \in Id |->
                    IF n = m.arg.new THEN m.arg.made
                    ELSE IF n = m.id /\ m.ends THEN "none" ELSE server[n]]
    /\ UNCHANGED <<client, requests, client_objects, server_objects>>

\* The client takes an event.
ClientTakes ==
    /\ events["client"] # <<>>
    /\ LET m == Head(events["client"])
       IN  client' = [n \in Id |->
              IF n = m.arg.new THEN m.arg.made
              ELSE IF IsDeleteId(m) /\ n = m.data[3] THEN "none"
              ELSE IF n = m.id /\ m.ends THEN "zombie" ELSE client[n]]
    /\ events' = [events EXCEPT !["client"] = Tail(@)]
    /\ UNCHANGED <<server, requests, client_objects, server_objects>>

-----------------------------------------------------------------------------
(* The resolve pass. *)

\* wldbg_message_get_object
GetObject(id) ==
    IF id >= ServerStart THEN Map!Get(server_objects, id - ServerStart)
                         ELSE Map!Get(client_objects, id)

\* resolved_objects_put
Put(id, intf) ==
    IF id >= ServerStart
       THEN /\ server_objects' = Map!Insert(server_objects, id - ServerStart, intf)
            /\ UNCHANGED client_objects
       ELSE /\ client_objects' = Map!Insert(client_objects, id, intf)
            /\ UNCHANGED server_objects

\* get_new_id: the word the new id is looked for at.  Every letter before the
\* "n" is stepped over, as one word or as a string or array with its length.
NewIdWord(sig, data) ==
    FoldLeft(LAMBDA pos, a : IF a \in {"s", "a"}
                                THEN pos + 1 + (data[pos] + 3) \div 4 ELSE pos + 1,
             3, SubSeq(sig, 1, NewIdPos(sig) - 1))

\* The interface get_new_ids gives the new object: the one of the message, or
\* the guessed one if it is loaded, or unknown_interface.
TypeOf(msg, guess) ==
    LET type == msg.types[NewIdPos(msg.sig)]
    IN  IF type # "NULL" THEN type ELSE IF guess \in Loaded THEN guess ELSE "unknown"

\* get_new_ids, for signatures with one new id at most (see the assumption).
GetNewIds(msg, data, guess) ==
    IF MakesObject(msg.sig)
       THEN Put(data[NewIdWord(msg.sig, data)], TypeOf(msg, guess))
       ELSE UNCHANGED <<client_objects, server_objects>>

\* Mutant of Understood: the last opcode of an interface is out of bounds.
UnderstoodNotLast(m, which) ==
    /\ GetObject(m.id) \in Loaded
    /\ m.op < Len(Protocol[GetObject(m.id)][which])

\* The interface of message m, if the pass goes by it.
Understood(m, which) ==
    /\ GetObject(m.id) \in Loaded
    /\ m.op <= Len(Protocol[GetObject(m.id)][which])

\* resolve_out, and the request goes on.  In a bind request the new object's
\* interface is the one that is named in it.
ResolveOut ==
    /\ requests["wldbg"] # <<>> /\ Len(requests["server"]) < MaxRequests
    /\ LET m == Head(requests["wldbg"])
           intf == GetObject(m.id)
           bind == intf = "registry" /\ m.op = 1
       IN  /\ requests' = [wldbg |-> Tail(requests["wldbg"]),
                           server |-> Append(requests["server"], m)]
           /\ IF Understood(m, "requests")
                 THEN GetNewIds(Protocol[intf].requests[m.op], m.data,
                                IF bind THEN m.arg.made ELSE "none")
                 ELSE UNCHANGED <<client_objects, server_objects>>
    /\ UNCHANGED <<client, server, events>>

\* Mutant of ResolveIn: delete_id is an event like the others.
ResolveInKeeps ==
    /\ events["wldbg"] # <<>> /\ Len(events["client"]) < MaxEvents
    /\ LET m == Head(events["wldbg"])
       IN  /\ events' = [wldbg |-> Tail(events["wldbg"]),
                         client |-> Append(events["client"], m)]
           /\ IF Understood(m, "events")
                 THEN GetNewIds(Protocol[GetObject(m.id)].events[m.op], m.data, "none")
                 ELSE UNCHANGED <<client_objects, server_objects>>
    /\ UNCHANGED <<client, server, requests>>

\* resolve_in, and the event goes on.
ResolveIn ==
    /\ events["wldbg"] # <<>> /\ Len(events["client"]) < MaxEvents
    /\ LET m == Head(events["wldbg"])
       IN  /\ events' = [wldbg |-> Tail(events["wldbg"]),
                         client |-> Append(events["client"], m)]
           /\ IF ~Understood(m, "events")
                 THEN UNCHANGED <<client_objects, server_objects>>
              ELSE IF IsDeleteId(m) THEN Put(m.data[3], "FREE")
              ELSE GetNewIds(Protocol[GetObject(m.id)].events[m.op], m.data, "none")
    /\ UNCHANGED <<client, server, requests>>

Next ==
    \/ ClientRequests \/ ServerTakes \/ ServerSends \/ ClientTakes
    \/ ResolveOut \/ ResolveIn

Spec == Init /\ [][Next]_vars

-----------------------------------------------------------------------------
(* Protocols that can be resolved. *)

\* What the table should say of an object of interface i.
Shown(i) == IF i \in Loaded THEN i ELSE "unknown"

\* The message says what interface its new object has, or names it.
Typed(msg, named) ==
    \A made \in msg.makes : TypeOf(msg, IF named THEN made ELSE "none") = Shown(made)

\* get_new_id finds the new id in the words, whatever else they say.
Readable(msg, op) ==
    \A id \in Id :
       \A arg \in [new : ClientId \cup ServerId, made : msg.makes, obj : Id \cup {0},
                   number : msg.numbers] :
          LET data == Wire(id, op, msg.sig, arg) IN data[NewIdWord(msg.sig, data)] = arg.new

\* The interfaces of objects the compositor makes.
MadeByEvents == UNION {m.makes : m \in UNION {Range(Protocol[i].events) : i \in DOMAIN Protocol}}

\* An event ends the objects of interface i.
Fleeting(i) == \E m \in Range(Protocol[i].events) : m.ends

(***************************************************************************)
(* What wldbg counts on: only interfaces it has loaded make objects, of    *)
(* types it can tell and with ids it can read; the display stays; an       *)
(* object that ends with an event, as wl_callback does, was made by the    *)
(* client and has no requests.                                             *)
(***************************************************************************)
Resolvable ==
    /\ Interface \cap (NoObject \cup Special \cup {"NULL"}) = {}
    /\ \A i \in Interface, which \in {"requests", "events"} :
          LET msgs == Protocol[i][which]
          IN  /\ msgs \in Seq(Range(msgs))
              /\ \A op \in DOMAIN msgs :
                    /\ msgs[op].ends \in BOOLEAN /\ (i = "display" => ~msgs[op].ends)
                    /\ MakesObject(msgs[op].sig) =>
                          /\ i \in Loaded /\ msgs[op].makes \subseteq Interface
                          /\ Typed(msgs[op], which = "requests" /\ i = "registry" /\ op = 1)
                          /\ Readable(msgs[op], op)
    /\ Protocol["display"].events # <<>>
    /\ \A i \in Interface :
          Fleeting(i) => Protocol[i].requests = <<>> /\ i \notin MadeByEvents

-----------------------------------------------------------------------------
(* Properties. *)

\* The tables hold an entry for every id up to the largest seen and no more.
TypeOK ==
    /\ client \in [Id -> Interface \cup NoObject]
    /\ server \in [Id -> Interface \cup {"none"}]
    /\ \A p \in DOMAIN requests : Len(requests[p]) <= MaxRequests
    /\ \A p \in DOMAIN events : Len(events[p]) <= MaxEvents
    /\ Range(client_objects) \subseteq Entry /\ Len(client_objects) <= MaxClient + 1
    /\ Range(server_objects) \subseteq Entry
    /\ Len(server_objects) <= MaxServer - ServerStart + 1

\* The table knows the object of every message that comes to wldbg as its
\* sender does, whatever is on its way in the other direction: an id that was
\* destroyed, released and used again is the new object for the messages that
\* mean the new one and the old one for those that mean the old one.
Resolved ==
    /\ requests["wldbg"] # <<>> =>
          LET m == Head(requests["wldbg"]) IN GetObject(m.id) = Shown(m.intf)
    /\ events["wldbg"] # <<>> =>
          LET m == Head(events["wldbg"]) IN GetObject(m.id) = Shown(m.intf)

\* When nothing is on its way, the table shows the client's objects as they are,
\* and no object where the client has none.
ResolvedAtRest ==
    (\A q \in {requests["wldbg"], requests["server"], events["wldbg"], events["client"]} :
        q = <<>>) =>
       \A id \in {1} \cup ClientId :
          IF client[id] = "none" THEN GetObject(id) \in {"FREE", "NULL"}
                                 ELSE GetObject(id) = Shown(client[id])

\* resolve-pass.c:59: "this pass analyze the connection and translates object id
\* to human-readable names": every object the client has made and the compositor
\* knows has its interface in the table.
NamesObjects ==
    \A id \in ClientId : server[id] # "none" => GetObject(id) = Shown(server[id])
=============================================================================
