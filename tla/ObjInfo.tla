------------------------------- MODULE ObjInfo ------------------------------
(***************************************************************************)
(* What wldbg remembers of a client's objects when it runs with -objinfo:  *)
(* the pass of src/objinfo-pass.c, behind the resolve pass, the handlers   *)
(* of src/objinfo/ and the listing of src/interactive/objinfo-info.c.      *)
(*                                                                         *)
(* The records hang on nothing but ids: a handler finds the record by the  *)
(* id of the message and takes it for one of its own kind, and records     *)
(* name each other by ids too, while the client destroys objects and uses  *)
(* their ids again.  The composition with Resolver gives it the messages   *)
(* in the orders, and with the interfaces, that wldbg can see.             *)
(***************************************************************************)
EXTENDS Printing

CONSTANT Configures   \* how many configures are kept of an xdg_surface: 10

VARIABLES
    info,      \* info[id]: the record in objects_info
    fault,     \* how the gathering or the listing came to an end, see Fault
    account    \* account[id]: history, the object by what its peers said of it

objVars == <<vars, info, fault, account>>

(***************************************************************************)
(* "none": none; "kind": a record was taken for one of another kind;       *)
(* "name": a seat's name was used that nothing had been stored in;         *)
(* "assert": the assertion of print_xdg_surface_info; "gone": the          *)
(* connection was destroyed.                                               *)
(***************************************************************************)
Fault == {"none", "kind", "name", "assert", "gone"}

NoRecord == [kind |-> "none"]

\* What is pending of a surface, or committed: the ids of buffer and callback.
Clean == [buffer |-> 0, frame |-> 0]

NewSurface == [kind |-> "surface", pending |-> Clean, committed |-> {}]

NewBuffer == [kind |-> "buffer", released |-> FALSE]

\* The name of a new seat is what malloc returned.
NewSeat == [kind |-> "seat", named |-> FALSE]

NewXdgSurface(surface) ==
    [kind |-> "xdg_surface", surface |-> surface, next |-> 0,
     configures |-> [i \in 0 .. Configures - 1 |-> [serial |-> 0, acked |-> FALSE]]]

\* objects_info_get
InfoGet(id) == IF id \in Id THEN info[id] ELSE NoRecord

-----------------------------------------------------------------------------
(* The handlers. *)

\* Where the messages that make a record have the new id, by the argument.
NewIdArg(intf, name) ==
    CASE intf = "compositor" /\ name = "create_surface" -> 1
      [] intf = "pool" /\ name = "create_buffer" -> 1
      [] intf = "shell" /\ name = "get_xdg_surface" -> 1
      [] intf = "registry" /\ name = "bind" -> 4
      [] OTHER -> 0

\* Mutant of NewRecord: the surface is taken from the wrong argument.
NewRecordFirst(intf, m, sig) ==
    CASE intf = "compositor" -> NewSurface
      [] intf = "pool" -> NewBuffer
      [] intf = "shell" -> NewXdgSurface(ArgWord(sig, m.data, 1))
      [] OTHER -> NewSeat

\* The record such a message makes.
NewRecord(intf, m, sig) ==
    CASE intf = "compositor" -> NewSurface
      [] intf = "pool" -> NewBuffer
      [] intf = "shell" -> NewXdgSurface(ArgWord(sig, m.data, 2))
      [] OTHER -> NewSeat

\* Mutant of Configured: the mark of the configure that was there is kept.
ConfiguredKeepsMark(r, serial) ==
    [r EXCEPT !.next = (@ + 1) % Configures, !.configures[r.next].serial = serial]

\* Mutant of Configured: the place of the next one does not wrap.
ConfiguredNoWrap(r, serial) ==
    [r EXCEPT !.next = @ + 1,
              !.configures[r.next] = [serial |-> serial, acked |-> FALSE]]

\* A configure takes the place of the oldest one, not yet acknowledged.
Configured(r, serial) ==
    [r EXCEPT !.next = (@ + 1) % Configures,
              !.configures[r.next] = [serial |-> serial, acked |-> FALSE]]

\* The first configure with that serial is marked.
Acknowledged(r, serial) ==
    LET found == {i \in DOMAIN r.configures : r.configures[i].serial = serial}
    IN  IF found = {} THEN r ELSE [r EXCEPT !.configures[Min(found)].acked = TRUE]

\* Mutant of Committed: what was pending stays pending.
CommittedKept(r) == [r EXCEPT !.committed = {r.pending}]

\* A commit keeps a copy of the pending state and clears it.
Committed(r) == [r EXCEPT !.committed = {r.pending}, !.pending = Clean]

\* The messages that change the record of their object, by its kind.
Changes == [surface |-> {"frame", "attach", "commit"}, buffer |-> {"release"},
            xdg_surface |-> {"configure", "ack_configure"}, seat |-> {"name"}]

\* What a message makes of the record r of its object.
Changed(r, name, m, sig) ==
    CASE name = "frame" -> [r EXCEPT !.pending.frame = ArgWord(sig, m.data, 1)]
      [] name = "attach" -> [r EXCEPT !.pending.buffer = ArgWord(sig, m.data, 1)]
      [] name = "commit" -> Committed(r)
      [] name = "release" -> [r EXCEPT !.released = TRUE]
      [] name = "configure" -> Configured(r, ArgWord(sig, m.data, 4))
      [] name = "ack_configure" -> Acknowledged(r, ArgWord(sig, m.data, 1))
      [] name = "name" -> [r EXCEPT !.named = TRUE]

\* A record is put over whatever the id had; of globals only seats have one.
Create(m, intf, name, sig) ==
    /\ NewIdArg(intf, name) # 0
    /\ info' = IF intf = "registry" /\ m.arg.made # "seat" THEN info
               ELSE [info EXCEPT ![ArgWord(sig, m.data, NewIdArg(intf, name))] =
                        NewRecord(intf, m, sig)]
    /\ UNCHANGED fault

\* The ids whose records a change goes to: an attach marks the buffer's record
\* as not released (make_wl_buffer_unreleased).
Touched(m, name, sig) ==
    {m.id} \cup (IF name = "attach" THEN {ArgWord(sig, m.data, 1)} ELSE {})

\* A record is changed as if it were one of the kind of its message.
Change(m, intf, name, sig) ==
    /\ intf \in DOMAIN Changes /\ name \in Changes[intf]
    /\ InfoGet(m.id) # NoRecord
    /\ LET other == Touched(m, name, sig) \ {m.id}
       IN  IF /\ info[m.id].kind = intf
              /\ \A id \in other : InfoGet(id).kind \in {"none", "buffer"}
           THEN /\ info' = [id \in Id |->
                      IF id = m.id THEN Changed(info[id], name, m, sig)
                      ELSE IF id \in other /\ info[id] # NoRecord
                           THEN [info[id] EXCEPT !.released = FALSE]
                      ELSE info[id]]
                /\ UNCHANGED fault
           ELSE fault' = "kind" /\ UNCHANGED info

\* Mutant of Free: the record of an xdg_surface stays.
FreeNotXdg(m, intf, name) ==
    /\ intf \in {"surface", "buffer", "xdg_surface"} /\ name = "destroy"
    /\ InfoGet(m.id) # NoRecord
    /\ info' = IF intf = "xdg_surface" THEN info ELSE [info EXCEPT ![m.id] = NoRecord]
    /\ fault' = IF info[m.id] = NewSeat THEN "name" ELSE fault

\* wldbg_object_info_free, whatever kind of record it is; seats have no such
\* message.
Free(m, intf, name) ==
    /\ intf \in {"surface", "buffer", "xdg_surface"} /\ name = "destroy"
    /\ InfoGet(m.id) # NoRecord
    /\ info' = [info EXCEPT ![m.id] = NoRecord]
    /\ fault' = IF info[m.id] = NewSeat THEN "name" ELSE fault

\* Nothing is remembered of other messages, or there is no record.
Ignored(m, intf, name) ==
    /\ NewIdArg(intf, name) = 0
    /\ \/ InfoGet(m.id) = NoRecord
       \/ /\ intf \in DOMAIN Changes => name \notin Changes[intf]
          /\ ~(intf \in {"surface", "buffer", "xdg_surface"} /\ name = "destroy")
    /\ UNCHANGED <<info, fault>>

\* gather_info, behind the resolve pass, which leaves m's own object as it was.
Gather(m, which) ==
    IF ~Understood(m, which) THEN UNCHANGED <<info, fault>>
    ELSE LET intf == GetObject(m.id)
             name == MessageOf(m, which).name
             sig == MessageOf(m, which).sig
         IN  \/ Create(m, intf, name, sig)
             \/ Change(m, intf, name, sig)
             \/ Free(m, intf, name)
             \/ Ignored(m, intf, name)

-----------------------------------------------------------------------------
(* Protocols whose objects the handlers know. *)

\* The kinds of the records that are freed.
Freed == {"surface", "buffer", "xdg_surface"}

\* What the messages make that a record is made for.
RecordFor(intf) ==
    CASE intf = "compositor" -> {"surface"}
      [] intf = "pool" -> {"buffer"}
      [] intf = "shell" -> {"xdg_surface"}
      [] OTHER -> Interface \ Freed

\* An argument the handlers take from a message is of type a, and can be read.
Takes(msg, k, a) ==
    /\ k \in 1 .. Len(ArgTypes(msg.sig)) /\ ArgTypes(msg.sig)[k] = a
    /\ "h" \notin Range(SubSeq(ArgTypes(msg.sig), 1, k - 1))

(***************************************************************************)
(* What the handlers count on: the messages they know by their names have  *)
(* the arguments they look at, and are requests or events as they take     *)
(* them to be; surfaces and xdg_surfaces come from no others, nor do       *)
(* buffers from a pool, and all three go by "destroy".                     *)
(***************************************************************************)
Handled ==
    /\ Freed \cap Interface \subseteq Loaded
    /\ \A bound \in Bound : Range(bound) \cap Freed = {}
    /\ \A i \in Interface, which \in {"requests", "events"} :
       \A op \in DOMAIN Protocol[i][which] :
          LET msg == Protocol[i][which][op]
              at == NewIdArg(i, msg.name)
          IN  /\ at # 0 => /\ which = "requests" /\ MakesObject(msg.sig)
                           /\ Takes(msg, at, "n") /\ msg.makes \subseteq RecordFor(i)
              /\ at = 0 => /\ msg.makes \cap {"surface", "xdg_surface"} = {}
                           /\ which = "events" \/ i = "pool" => "buffer" \notin msg.makes
              /\ i \in Freed => (msg.ends <=> which = "requests" /\ msg.name = "destroy")
              /\ i \in Freed /\ which = "events" => msg.name # "destroy"
              /\ i = "surface" /\ msg.name \in Changes.surface => which = "requests"
              /\ i = "surface" /\ msg.name = "attach" =>
                    Takes(msg, 1, "o") /\ msg.takes = "buffer"
              /\ i = "shell" /\ at # 0 =>
                    /\ Takes(msg, 2, "o") /\ msg.takes = "surface"
                    /\ "?" \notin Range(msg.sig)
              /\ i = "xdg_surface" /\ msg.name = "configure" =>
                    which = "events" /\ Takes(msg, 4, "u")
              /\ i = "xdg_surface" /\ msg.name = "ack_configure" =>
                    which = "requests" /\ Takes(msg, 1, "u")

-----------------------------------------------------------------------------
(* What is shown of a record. *)

\* print_wl_surface_info: the buffers it remembers are looked up by their ids.
SurfaceFault(r) ==
    IF \E state \in {r.pending} \cup r.committed :
          InfoGet(state.buffer).kind \notin {"none", "buffer"}
       THEN "kind" ELSE "none"

\* print_objinfo: how showing the record of id ends.
ShowFault(id) ==
    LET r == info[id]
        surface == InfoGet(r.surface)
    IN  CASE r.kind = "surface" -> SurfaceFault(r)
          [] r.kind = "seat" -> IF r.named THEN "none" ELSE "name"
          [] r.kind = "xdg_surface" ->
                IF surface = NoRecord THEN "assert"
                ELSE IF surface.kind # "surface" THEN "kind" ELSE SurfaceFault(surface)
          [] OTHER -> "none"

-----------------------------------------------------------------------------
(* The peers' own account of surfaces, buffers and xdg_surfaces. *)

\* In place of an object that was destroyed.
Lost == MaxServer + 1

\* A surface: the buffer attached since the last commit, if any; whether there
\* was a commit, whether it came with a buffer, and the surface's buffer since.
\* A buffer: whether a pool made it.  An xdg_surface: its surface, the
\* configures sent and those acknowledged.
Made(m) ==
    CASE m.arg.made = "surface" ->
            [kind |-> "surface", attached |-> {}, commits |-> FALSE, last |-> FALSE,
             buffer |-> 0]
      [] m.arg.made = "buffer" -> [kind |-> "buffer", pooled |-> m.intf = "pool"]
      [] m.arg.made = "xdg_surface" ->
            [kind |-> "xdg_surface", surface |-> m.arg.obj, sent |-> <<>>, acked |-> {}]
      [] OTHER -> NoRecord

\* The account r of an object when object id is destroyed.
Without(r, id) ==
    CASE r.kind = "surface" ->
            [r EXCEPT !.attached = {IF b = id THEN Lost ELSE b : b \in @},
                      !.buffer = IF @ = id THEN Lost ELSE @]
      [] r.kind = "xdg_surface" -> [r EXCEPT !.surface = IF @ = id THEN Lost ELSE @]
      [] OTHER -> r

\* What a message says of its object, unless that was destroyed.
Said(r, m, name) ==
    CASE r.kind = "surface" /\ name = "attach" -> [r EXCEPT !.attached = {m.arg.obj}]
      [] r.kind = "surface" /\ name = "commit" ->
            [r EXCEPT !.attached = {}, !.commits = TRUE, !.last = r.attached # {},
                      !.buffer = IF r.attached = {} THEN @
                                 ELSE CHOOSE b \in r.attached : TRUE]
      [] r.kind = "xdg_surface" /\ name = "configure" ->
            [r EXCEPT !.sent = Append(@, m.arg.number)]
      [] r.kind = "xdg_surface" /\ name = "ack_configure" ->
            [r EXCEPT !.acked = @ \cup {m.arg.number}]
      [] OTHER -> r

\* What message m, one of msgs, makes of the account r of object id.
Accounted(r, id, m, msgs) ==
    IF id = m.arg.new THEN Made(m)
    ELSE IF id = m.id THEN IF m.ends THEN NoRecord ELSE Said(r, m, msgs[m.op].name)
    ELSE IF m.ends THEN Without(r, m.id) ELSE r

\* The account when it is written.
Account(m, msgs) == account' = [id \in Id |-> Accounted(account[id], id, m, msgs)]

-----------------------------------------------------------------------------

ASSUME ObjInfoAssumption == Configures \in Nat \ {0} /\ Resolvable /\ Legible /\ Handled

ObjInit ==
    /\ Init
    /\ info = [id \in Id |-> NoRecord]
    /\ fault = "none"
    /\ account = [id \in Id |-> NoRecord]

\* The client acknowledges configures that have come to it.
Acknowledges(m, name) ==
    account[m.id].kind = "xdg_surface" /\ name = "ack_configure" =>
       /\ m.arg.number \in Range(account[m.id].sent)
       /\ \A p \in DOMAIN events :
             \A e \in Range(events[p]) : e.id = m.id => e.arg.number # m.arg.number

\* The peers take what wldbg passes on before anything else happens, unless the
\* compositor has no place for its answer: what is late is late on its way to
\* wldbg.  Nothing that wldbg sees is lost by that: what a peer writes before it
\* takes a message does not depend on it, and may be written before wldbg passes
\* the message on.
Taken == requests["server"] = <<>> /\ events["client"] = <<>>

\* ClientRequests, with what the client itself knows of its objects.
Ask ==
    /\ fault = "none" /\ Taken /\ ClientRequests
    /\ LET m == Last(requests'["wldbg"])
           msgs == Protocol[m.intf].requests
       IN  Acknowledges(m, msgs[m.op].name) /\ Account(m, msgs)
    /\ UNCHANGED <<info, fault>>

\* ServerSends; the serials of the configures of a surface count up.
Tell ==
    /\ fault = "none" /\ Taken /\ ServerSends
    /\ LET m == events'["wldbg"][Len(events["wldbg"]) + 1]
           msgs == Protocol[m.intf].events
       IN  /\ account[m.id].kind = "xdg_surface" /\ msgs[m.op].name = "configure" =>
                 m.arg.number = Len(account[m.id].sent) + 1
           /\ Account(m, msgs)
    /\ UNCHANGED <<info, fault>>

Take == fault = "none" /\ (ServerTakes \/ ClientTakes) /\ UNCHANGED <<info, fault, account>>

\* A request goes through the resolve pass and the objinfo pass.
PassOut ==
    /\ fault = "none" /\ Taken /\ ResolveOut
    /\ \E m \in {Head(requests["wldbg"])} : Gather(m, "requests")
    /\ UNCHANGED account

PassIn ==
    /\ fault = "none" /\ events["client"] = <<>> /\ ResolveIn
    /\ \E m \in {Head(events["wldbg"])} : Gather(m, "events")
    /\ UNCHANGED account

\* "info objects ID" at the prompt: print_objinfo.
Show ==
    /\ fault = "none" /\ Taken
    /\ \E id \in Id : info[id] # NoRecord /\ fault' = ShowFault(id)
    /\ UNCHANGED <<vars, info, account>>

\* destroy_objects_info, when the connection goes, and all there is of it.
Destroy ==
    /\ fault = "none"
    /\ fault' = IF NewSeat \in Range(info) THEN "name" ELSE "gone"
    /\ info' = [id \in Id |-> NoRecord] /\ account' = info'
    /\ client' = [id \in Id |-> "none"] /\ server' = client'
    /\ requests' = [p \in DOMAIN requests |-> <<>>]
    /\ events' = [p \in DOMAIN events |-> <<>>]
    /\ client_objects' = Map!EmptyMap /\ server_objects' = Map!EmptyMap

ObjNext == Ask \/ Tell \/ Take \/ PassOut \/ PassIn \/ Show \/ Destroy

ObjSpec == ObjInit /\ [][ObjNext]_objVars

-----------------------------------------------------------------------------
(* Properties. *)

\* Records are of a kind, and name ids; so does the peers' account.
ObjTypeOK ==
    /\ TypeOK
    /\ fault \in Fault
    /\ DOMAIN info = Id /\ DOMAIN account = Id
    /\ \A id \in Id :
          LET r == info[id]
          IN  CASE r.kind = "surface" ->
                      /\ r.pending.buffer \in Id \cup {0}
                      /\ Cardinality(r.committed) <= 1
                [] r.kind = "xdg_surface" ->
                      r.surface \in Id /\ r.next \in 0 .. Configures - 1
                [] OTHER -> \/ r = NoRecord
                            \/ r \in [kind : {"buffer"}, released : BOOLEAN]
                            \/ r \in [kind : {"seat"}, named : BOOLEAN]

\* A handler that is called finds a record of its own kind, or none where no
\* handler has made one, whatever the id was used for before and whatever is
\* still under way: a surface or an xdg_surface that the client says something
\* of has its record, and so has a buffer from a pool that is attached.  The one
\* exception are seats, whose records outlive them (gather_info;
\* objects_info_get knows nothing but ids).
Recorded ==
    fault = "none" =>
        \A which \in {"requests", "events"} :
            Arriving(which) # <<>> =>
               LET m == Head(Arriving(which))
                   kind(id) == InfoGet(id).kind
                   known(id) == IF account[id].pooled THEN kind(id) = "buffer"
                                ELSE kind(id) \in {"none", "seat"}
               IN  /\ CASE m.intf \in {"surface", "xdg_surface"} ->
                             kind(m.id) = m.intf \/ (which = "events" /\ kind(m.id) = "none")
                       [] m.intf = "buffer" -> kind(m.id) \in {"buffer", "none", "seat"}
                       [] OTHER -> kind(m.id) \in {"none", "seat"}
                   /\ m.arg.obj \in Id /\ account[m.arg.obj].kind = "buffer" => known(m.arg.obj)

\* Nothing is under way.
Quiet ==
    /\ fault = "none"
    /\ requests["wldbg"] = <<>> /\ requests["server"] = <<>>
    /\ events["wldbg"] = <<>> /\ events["client"] = <<>>

\* The last configures of an account, the newest of which is the n-th.
Kept(r, i) ==
    LET n == Len(r.sent)
        k == n - ((n - 1 - i) % Configures)
    IN  IF k < 1 THEN [serial |-> 0, acked |-> FALSE]
        ELSE [serial |-> r.sent[k], acked |-> r.sent[k] \in r.acked]

\* At rest the records say what the peers would say of their objects: what is
\* attached to a surface, the buffer its last commit brought (none, if it
\* brought none, though the surface keeps its buffer), and of an xdg_surface
\* its surface and the last configures, marked where they were acknowledged.
\* Nothing else is remembered, but of seats (the handlers of src/objinfo).
ShownAtRest ==
    Quiet => \A id \in ClientId :
        LET r == info[id]
            a == account[id]
        IN  CASE client[id] = "surface" ->
                    /\ r.kind = "surface"
                    /\ Lost \notin a.attached =>
                          r.pending.buffer = IF a.attached = {} THEN 0
                                             ELSE CHOOSE b \in a.attached : TRUE
                    /\ r.committed # {} <=> a.commits
                    /\ \A state \in r.committed :
                          a.buffer # Lost => state.buffer = IF a.last THEN a.buffer ELSE 0
              [] client[id] = "xdg_surface" ->
                    /\ r.kind = "xdg_surface"
                    /\ a.surface # Lost => r.surface = a.surface
                    /\ \A i \in DOMAIN r.configures : r.configures[i] = Kept(a, i)
              [] client[id] = "buffer" /\ a.pooled -> r.kind = "buffer"
              [] OTHER -> r.kind \in {"none", "seat"}

\* Showing the record of an object is safe unless a client has destroyed a
\* surface under its xdg_surface (the assertion) or a buffer it had attached,
\* whose id may be that of any object now, or a seat has no name yet
\* (print_objinfo).
ShowsSafely ==
    Quiet => \A id \in ClientId :
        LET a == account[id]
            unsafe(s) == s.buffer = Lost \/ Lost \in s.attached
        IN  CASE ShowFault(id) = "assert" -> a.surface = Lost
              [] ShowFault(id) = "name" -> info[id] = NewSeat
              [] ShowFault(id) = "kind" ->
                    IF a.kind = "surface" THEN unsafe(a)
                    ELSE a.surface = Lost \/ unsafe(account[a.surface])
              [] OTHER -> TRUE
=============================================================================
