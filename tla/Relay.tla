------------------------------- MODULE Relay -------------------------------
(***************************************************************************)
(* The data path of one wldbg connection (src/wldbg.c, with the rings of   *)
(* wayland/connection.c): bytes from one peer are read into wldbg->buffer, *)
(* cut into messages, run through the passes, put into the out ring of     *)
(* the other side and flushed to its socket.                               *)
(*                                                                         *)
(* The unit is the 32-bit word.  A word is a record saying whose message   *)
(* it belongs to, where that message began, how many words its header      *)
(* announces, and which of them this one is.                               *)
(***************************************************************************)
EXTENDS Naturals, Sequences, SequencesExt

CONSTANTS
    MsgSizes,         \* the sizes, in words, of the messages written or typed
    MaxWords,         \* bound: how many words each peer writes
    MaxSends,         \* bound: how many messages the user injects with "send"
    BufSize,          \* words in a ring and in wldbg->buffer (1024 in the code)
    SockCap,          \* words a socket holds before it answers EAGAIN
    Ways              \* what passes and the user do to streams, see Way

Side == {"client", "server"}

ASSUME RelayAssumption ==
    /\ MsgSizes \subseteq 2 .. BufSize   \* a Wayland header is two words
    /\ MaxWords \in [Side -> Nat]
    /\ MaxSends \in Nat
    /\ BufSize \in Nat \ {0}
    /\ SockCap \in Nat /\ SockCap >= BufSize
    /\ Ways \subseteq {"edit", "resize", "send"}

Other(s) == IF s = "client" THEN "server" ELSE "client"

\* How a stream can be touched: a message is edited and keeps its size, or does
\* not; a message is injected; a message is torn by the end of a read.
Way == {"edit", "resize", "send", "tear"}

VARIABLES
    whole,     \* flags.pass_whole_buffer, as the options set it
    sent,      \* sent[s]: history of what peer s has written
    got,       \* got[s]: history of what peer s has read
    inq,       \* inq[s]: in the socket, from peer s to wldbg
    outq,      \* outq[s]: in the socket, from wldbg to peer s
    closed,    \* closed[s]: peer s has closed its end
    out,       \* out[s]: the out ring of the wl_connection of side s
    from,      \* message->from of wldbg->message; "none" before the first read
    todo,      \* the unprocessed rest of wldbg->buffer
    phase,     \* where the loop is, see Phase
    sends,     \* number of messages injected so far
    touched    \* touched[s]: history of the ways the stream from s was touched

traffic ==
    <<sent, got, inq, outq, closed, out, from, todo, phase, sends, touched>>
vars == <<whole, traffic>>

(***************************************************************************)
(* "idle": in epoll_wait; "loop": a message is in the hands of the passes; *)
(* "gone": the connection is torn down; "runaway": process_one_by_one has  *)
(* lost the message boundaries, rest wraps around and what it reads next   *)
(* is not data of this read (undefined from there on).                     *)
(***************************************************************************)
Phase == {"idle", "loop", "gone", "runaway"}

Least(m, n) == IF m <= n THEN m ELSE n

Message(src, at, size) ==
    [i \in 1 .. size |-> [src |-> src, at |-> at, size |-> size, idx |-> i]]

\* What the passes have not seen yet of what s sent and wldbg has read.
Todo(s) == IF from = s THEN todo ELSE <<>>

\* Everything on its way from s to the other side, in the order it travels.
Line(s) ==
    LET p == Other(s)
    IN  got[p] \o outq[p] \o out[p] \o Todo(s) \o inq[s]

\* Mutant of Room: what is already queued is not counted.
RoomUncounted(p) == IF closed[p] THEN 0 ELSE SockCap

\* How much the socket toward p takes: nothing once p is gone (EPIPE).
Room(p) == IF closed[p] THEN 0 ELSE SockCap - Len(outq[p])

\* The ring toward p takes message m without a flush first (wl_connection_write).
Fits(p, m) == Len(out[p] \o m) <= BufSize

\* What one recvmsg takes: as much as there is and the (empty) in ring holds.
Received(s) == SubSeq(inq[s], 1, Least(BufSize, Len(inq[s])))

\* message->size: one message as its header announces it, or the whole buffer.
MessageSize == IF whole THEN Len(todo) ELSE Head(todo).size

\* The rest of the buffer begins with a whole message.
AtMessage ==
    \/ whole
    \/ Head(todo).idx = 1 /\ Head(todo).size <= Len(todo)

\* The interactive mode, where "send" and "edit" are, refuses whole buffers.
Init ==
    /\ whole \in BOOLEAN
    /\ sent = [s \in Side |-> <<>>]
    /\ got = [s \in Side |-> <<>>]
    /\ inq = [s \in Side |-> <<>>]
    /\ outq = [s \in Side |-> <<>>]
    /\ closed = [s \in Side |-> FALSE]
    /\ out = [s \in Side |-> <<>>]
    /\ from = "none"
    /\ todo = <<>>
    /\ phase = "idle"
    /\ sends = 0
    /\ touched = [s \in Side |-> {}]

-----------------------------------------------------------------------------
(* The peers and the kernel. *)

\* A peer writes one message; the socket takes it whole or the peer waits.
PeerWrite(s) ==
    /\ phase # "gone" /\ ~closed[s]
    /\ \E k \in MsgSizes :
          LET m == Message(s, Len(sent[s]) + 1, k)
          IN  /\ Len(sent[s]) + k <= MaxWords[s]
              /\ Len(inq[s]) + k <= SockCap
              /\ sent' = [sent EXCEPT ![s] = @ \o m]
              /\ inq' = [inq EXCEPT ![s] = @ \o m]
    /\ UNCHANGED <<got, outq, closed, out, from, todo, phase, sends, touched>>

\* A peer takes all that has arrived; it still can after wldbg has gone.
PeerRead(p) ==
    /\ ~closed[p] /\ outq[p] # <<>>
    /\ got' = [got EXCEPT ![p] = @ \o outq[p]]
    /\ outq' = [outq EXCEPT ![p] = <<>>]
    /\ UNCHANGED <<sent, inq, closed, out, from, todo, phase, sends, touched>>

PeerClose(s) ==
    /\ ~closed[s]
    /\ closed' = [closed EXCEPT ![s] = TRUE]
    /\ UNCHANGED <<sent, got, inq, outq, out, from, todo, phase, sends, touched>>

-----------------------------------------------------------------------------
(* wldbg. *)

\* epoll reports EPOLLHUP, with EPOLLIN if there is still data: HUP wins.
HangUp(s) ==
    /\ phase = "idle" /\ closed[s]
    /\ phase' = "gone"
    /\ UNCHANGED <<sent, got, inq, outq, closed, out, from, todo, sends, touched>>

\* dispatch_messages: one recvmsg, as much as the (empty) in ring takes, all of
\* it copied to wldbg->buffer and consumed; then the first message is cut off.
Read(s) ==
    /\ phase = "idle" /\ ~closed[s] /\ inq[s] # <<>>
    /\ todo' = Received(s)
    /\ inq' = [inq EXCEPT ![s] = SubSeq(@, Len(Received(s)) + 1, Len(@))]
    /\ from' = s
    /\ phase' = "loop"
    /\ UNCHANGED <<sent, got, outq, closed, out, sends, touched>>

\* Mutant of Forward: the ring keeps what was flushed (tail not advanced).
ForwardKeepsRing(p, m, rest, next) ==
    /\ Len(out[p] \o m) <= Room(p)
    /\ outq' = [outq EXCEPT ![p] = @ \o out[p] \o m]
    /\ out' = [out EXCEPT ![p] = @ \o m]
    /\ todo' = rest
    /\ phase' = next

\* Mutant of Forward: the message is written into the ring and not flushed.
ForwardUnflushed(p, m, rest, next) ==
    /\ out' = [out EXCEPT ![p] = @ \o m]
    /\ todo' = rest
    /\ phase' = next
    /\ UNCHANGED outq

(***************************************************************************)
(* wl_connection_write then wl_connection_flush of message m toward p.     *)
(* write flushes first when m does not fit into the ring.  A flush repeats *)
(* sendmsg until the ring is empty or the socket refuses; a refusal (EAGAIN*)
(* or EPIPE) is an error whatever was sent before, and the connection goes.*)
(* A flush is one step: a peer that reads between two sendmsg of it does   *)
(* nothing that it could not have done before, as SockCap >= BufSize.      *)
(***************************************************************************)
Forward(p, m, rest, next) ==
    \/ /\ Len(out[p] \o m) <= Room(p)
       /\ outq' = [outq EXCEPT ![p] = @ \o out[p] \o m]
       /\ out' = [out EXCEPT ![p] = <<>>]
       /\ todo' = rest
       /\ phase' = next
    \/ /\ Len(out[p] \o m) > Room(p)
       /\ LET put == Fits(p, m) \/ Len(out[p]) <= Room(p)
              ring == IF put THEN out[p] \o m ELSE out[p]
          IN  /\ outq' = [outq EXCEPT ![p] = @ \o SubSeq(ring, 1, Room(p))]
              /\ out' = [out EXCEPT ![p] = SubSeq(ring, Room(p) + 1, Len(ring))]
              /\ todo' = IF put THEN rest ELSE todo
       /\ phase' = "gone"

\* Mutant of Rest: one word too many is skipped.
RestOffByOne(size) ==
    IF whole THEN <<>> ELSE SubSeq(todo, size + 2, Len(todo))

\* data += message->size, rest -= message->size; with the whole buffer one turn.
Rest(size) ==
    IF whole THEN <<>> ELSE SubSeq(todo, size + 1, Len(todo))

Turn(rest) == IF rest = <<>> THEN "idle" ELSE "loop"

\* The passes leave the message as it is.
PassOn ==
    /\ phase = "loop" /\ AtMessage
    /\ LET rest == Rest(MessageSize)
       IN  Forward(Other(from), SubSeq(todo, 1, MessageSize), rest, Turn(rest))
    /\ UNCHANGED <<sent, got, inq, closed, from, sends, touched>>

\* Mutant of EditedSizes: the edited message is taken one word short.
EditedSizesShort(way) == {MessageSize - 1}

\* The size a message may have once a pass or the user is through with it.
EditedSizes(way) ==
    IF way = "edit" THEN {MessageSize} ELSE (MsgSizes \cup {0}) \ {MessageSize}

\* The k words that take the place of the message.
Edited(k) ==
    IF k = MessageSize
       THEN [i \in 1 .. k |-> [todo[i] EXCEPT !.src = "user"]]
       ELSE Message("user", Head(todo).at, k)

\* A pass or the command "edit" replaces the message in place.  The loop goes on
\* by the size it has now.
Edit(way) ==
    /\ phase = "loop" /\ AtMessage
    /\ \E k \in EditedSizes(way) :
          LET rest == Rest(k)
              next == IF ~whole /\ k > Len(todo)
                      THEN "runaway" ELSE Turn(rest)
          IN  Forward(Other(from), Edited(k), rest, next)
    /\ touched' = [touched EXCEPT ![from] = @ \cup {way}]
    /\ UNCHANGED <<sent, got, inq, closed, from, sends>>

\* What should be a header is the middle of a message, or the message goes on
\* past the data that was read.
Torn ==
    /\ phase = "loop" /\ ~AtMessage
    /\ phase' = "runaway"
    /\ touched' = [touched EXCEPT ![from] = @ \cup {"tear"}]
    /\ UNCHANGED <<sent, got, inq, outq, closed, out, from, todo, sends>>

\* A pass, or the user at the prompt, sets the exit or the error flag: the
\* message is not written.
Quit ==
    /\ phase = "loop"
    /\ phase' = "gone"
    /\ UNCHANGED <<sent, got, inq, outq, closed, out, from, todo, sends, touched>>

\* SIGINT between two dispatches: wldbg exits, at once or because the user quits
\* at the prompt it opens.
Interrupt ==
    /\ phase = "idle"
    /\ phase' = "gone"
    /\ UNCHANGED <<sent, got, inq, outq, closed, out, from, todo, sends, touched>>

\* The prompt is open: on a message, or after SIGINT once message->connection is
\* set.  The interactive mode refuses pass_whole_buffer.
AtPrompt ==
    /\ ~whole
    /\ \/ phase = "loop"
       \/ phase = "idle" /\ from # "none"

\* Mutant of UserSend: a flush that stops half way forgets what it has not sent.
UserSendForgets(p) ==
    /\ AtPrompt /\ sends < MaxSends
    /\ \E k \in MsgSizes :
          LET m == Message("user", sends + 1, k)
              n == Least(Room(p), Len(out[p]))
          IN  IF Fits(p, m)
              THEN /\ out' = [out EXCEPT ![p] = @ \o m]
                   /\ UNCHANGED outq
              ELSE /\ outq' = [outq EXCEPT ![p] = @ \o SubSeq(out[p], 1, n)]
                   /\ out' = [out EXCEPT ![p] = m]
    /\ sends' = sends + 1
    /\ touched' = [touched EXCEPT ![Other(p)] = @ \cup {"send"}]
    /\ UNCHANGED <<sent, got, inq, closed, from, todo, phase>>

\* Mutant of UserSend: the message is composed in wldbg->buffer.
UserSendInBuffer(p) ==
    /\ AtPrompt /\ sends < MaxSends
    /\ \E k \in MsgSizes :
          LET m == Message("user", sends + 1, k)
          IN  /\ Fits(p, m)
              /\ out' = [out EXCEPT ![p] = @ \o m]
              /\ todo' = [i \in 1 .. Len(todo) |-> IF i <= k THEN m[i] ELSE todo[i]]
    /\ sends' = sends + 1
    /\ touched' = [touched EXCEPT ![Other(p)] = @ \cup {"send"}]
    /\ UNCHANGED <<sent, got, inq, outq, closed, from, phase>>

\* The command "send": wl_connection_write into the ring of side p, no flush
\* (but the one wl_connection_write does to make room); an error is printed.
UserSend(p) ==
    /\ AtPrompt /\ sends < MaxSends
    /\ \E k \in MsgSizes :
          LET m == Message("user", sends + 1, k)
              n == Least(Room(p), Len(out[p]))
          IN  IF Fits(p, m)
              THEN /\ out' = [out EXCEPT ![p] = @ \o m]
                   /\ UNCHANGED outq
              ELSE /\ outq' = [outq EXCEPT ![p] = @ \o SubSeq(out[p], 1, n)]
                   /\ out' = [out EXCEPT ![p] = IF n = Len(@) THEN m
                                                ELSE SubSeq(@, n + 1, Len(@))]
    /\ sends' = sends + 1
    /\ touched' = [touched EXCEPT ![Other(p)] = @ \cup {"send"}]
    /\ UNCHANGED <<sent, got, inq, closed, from, todo, phase>>

Step ==
    \/ \E s \in Side : PeerWrite(s) \/ PeerRead(s) \/ PeerClose(s)
    \/ \E s \in Side : HangUp(s) \/ Read(s)
    \/ "send" \in Ways /\ \E s \in Side : UserSend(s)
    \/ \E way \in Ways \ {"send"} : Edit(way)
    \/ PassOn \/ Torn \/ Quit \/ Interrupt

Next == Step /\ UNCHANGED whole

Spec == Init /\ [][Next]_vars

(***************************************************************************)
(* epoll hands out the ready descriptors in turn, so a side that stays     *)
(* readable, however often the loop is busy with the other one, is served  *)
(* (strong fairness); a pass returns and a user at the prompt answers; a   *)
(* peer that is there reads what arrives.                                  *)
(***************************************************************************)
Fairness ==
    /\ \A s \in Side :
          SF_traffic(Read(s)) /\ SF_traffic(HangUp(s)) /\ WF_traffic(PeerRead(s))
    /\ WF_traffic(PassOn) /\ WF_traffic(Torn)

FairSpec == Spec /\ Fairness

-----------------------------------------------------------------------------
(* Correctness. *)

\* The state has its shape, and no ring, buffer or socket holds more than it can.
TypeOK ==
    /\ phase \in Phase
    /\ from \in Side \cup {"none"}
    /\ sends \in 0 .. MaxSends
    /\ whole \in BOOLEAN
    /\ closed \in [Side -> BOOLEAN] /\ touched \in [Side -> SUBSET Way]
    /\ \A q \in {sent, got, inq, outq, out} : DOMAIN q = Side
    /\ Len(todo) <= BufSize
    /\ \A s \in Side :
          /\ Len(out[s]) <= BufSize
          /\ Len(outq[s]) <= SockCap
          /\ Len(inq[s]) <= SockCap

\* As long as nobody touches what s sends, every word of it is in exactly one
\* place between s and the other side, in order: the reads, the loop, the two
\* rings and the partial flushes lose, repeat and reorder nothing, through
\* errors and quits too (process_data, process_one_by_one, connection.c).
Transparent == \A s \in Side : touched[s] = {} => Line(s) = sent[s]

Tampered == [s \in Side |-> touched[s] # {}]

Pipe == INSTANCE Pipe WITH tampered <- Tampered

\* wldbg implements a pair of pipes between the peers.
PipeSpec == Pipe!Spec

\* A message starts at every word w[i] that says so, and is there to its end.
Framed(w) ==
    \A i \in 1 .. Len(w) :
        LET first == i - w[i].idx + 1
            last == first + w[i].size - 1
        IN  /\ first >= 1 /\ last <= Len(w)
            /\ \A j \in first .. last :
                  /\ w[j].idx = j - first + 1
                  /\ w[j].src = w[i].src /\ w[j].at = w[i].at

\* When a read ends where a message ends, and no pass changed a size, the loop
\* hands out whole messages only, to the end of what was read (the assertion
\* rest == 0 of wldbg.c:328 relies on it).  With injected and edited messages in
\* between, what is on its way to a peer is a row of whole messages: "send" never
\* splits a message that is being relayed, even when its own flush fails half way.
StreamsFramed ==
    /\ \A s \in Side :
          /\ from = s /\ ~whole /\ "resize" \notin touched[s]
          /\ todo # <<>> => Last(todo).idx = Last(todo).size
          => phase # "runaway" /\ Framed(todo)
    /\ ~whole => \A p \in Side : Framed(got[p] \o outq[p] \o out[p])

\* q without the words the user made is r: every other word of q stands in r
\* where its own numbers say, they keep the order of r, and none of r is missing.
Keeps(q, r) ==
    LET own == {i \in 1 .. Len(q) : q[i].src # "user"}
        Place(i) == q[i].at + q[i].idx - 1
    IN  /\ \A i \in own : Place(i) \in 1 .. Len(r) /\ r[Place(i)] = q[i]
        /\ \A i, j \in own : i < j => Place(i) < Place(j)
        /\ \A k \in 1 .. Len(r) : \E i \in own : Place(i) = k

\* Injected messages only ever come on top: taking them away, the stream of s
\* is what s sent (cmd_send writes into the same ring the loop writes into).
SendKeepsStream ==
    \A s \in Side : touched[s] \subseteq {"send"} => Keeps(Line(s), sent[s])

\* Edits that keep the size of a message change that message and nothing else:
\* every other word stays, and the edited ones stand where the old ones stood.
EditInPlace ==
    \A s \in Side : touched[s] \subseteq {"edit"} =>
        /\ Len(Line(s)) = Len(sent[s])
        /\ \A i \in 1 .. Len(sent[s]) :
              LET w == Line(s)[i]
              IN  \/ w = sent[s][i]
                  \/ w = [sent[s][i] EXCEPT !.src = "user"]

\* Whatever a peer sends reaches the other one or the connection is taken down
\* (or the loop ran off the end of a torn read): no word stays in a ring or in
\* the buffer for ever, and a peer that hangs up does not leave the connection
\* behind.  What "send" has put into a ring stays there (cmd_send does not
\* flush), but no longer than it takes for more to come the same way.
MessagesArrive ==
    \A s \in Side :
        LET p == Other(s)
            arrived == SelectSeq(got[p], LAMBDA w : w.src # "user")
            over == phase \in {"gone", "runaway"}
        IN  /\ Len(arrived) < Len(sent[s]) ~> Len(arrived) = Len(sent[s]) \/ over
            /\ out[p] # <<>> /\ inq[s] # <<>> ~> out[p] = <<>> \/ over
            /\ closed[s] ~> over

\* wldbg.c:328: assert(rest == 0): the loop ends exactly at the end of what was
\* read, it never runs past it.
LoopEndsAtTheEnd == phase # "runaway"
=============================================================================
