------------------------------- MODULE Rings --------------------------------
(***************************************************************************)
(* One direction of a connection down to the memory of its four rings:     *)
(* peer A writes words and passes descriptors with them, wldbg reads both  *)
(* into conn1's in and fds_in, copies them to conn2's out and fds_out and  *)
(* sends both to peer B (process_data of src/wldbg.c on                    *)
(* wayland/connection.c).  Relay has the same way with queues for rings    *)
(* and without descriptors.  The other direction has rings of its own.     *)
(*                                                                         *)
(* Words and descriptors are numbered as A writes them.  The descriptors   *)
(* of a sendmsg ride on its first word.                                    *)
(***************************************************************************)
EXTENDS Ring, SequencesExt

CONSTANTS
    MaxFds,    \* MAX_FDS_OUT: descriptors in one sendmsg or recvmsg
    SockCap,   \* words the socket to B holds
    MaxWords,  \* bound: words A writes
    MaxGiven,  \* bound: descriptors A passes
    MaxSends   \* bound: words the user injects with "send"

ASSUME RingsAssumption ==
    /\ {MaxFds, SockCap, MaxWords, MaxGiven, MaxSends} \subseteq Nat
    /\ 1 <= MaxFds /\ MaxFds <= RingSize /\ 1 <= SockCap

VARIABLES
    in, fds_in,    \* the rings of conn1, A's
    out, fds_out,  \* the rings of conn2, B's
    inq,           \* in the socket from A: words, each with those that ride on it
    toB,           \* history: words sent to B, each with how many descriptors by then
    fdsToB,        \* history: the descriptors sent to B
    unread,        \* how much of it is still in the socket to B
    buffer,        \* the rest of wldbg->buffer
    phase,         \* see Phase
    due,           \* due[w]: history, descriptors passed up to word w
    sends,         \* words injected so far
    open,          \* A's descriptors open in wldbg
    held           \* history: wl_connection_copy_fds failed, and nobody noticed

vars == <<in, fds_in, out, fds_out, inq, toB, fdsToB, unread, buffer, phase, due, sends, open, held>>

(***************************************************************************)
(* "idle": in epoll_wait, or busy with the other direction; "read": words  *)
(* are in the buffer, descriptors still in fds_in; "loop": the passes have *)
(* a message; "gone": the connection was destroyed.                        *)
(***************************************************************************)
Phase == {"idle", "read", "loop", "gone"}

\* The user's word, and what is found where no descriptor was ever stored.
Injected == 0
Garbage == 0

Given == IF due = <<>> THEN 0 ELSE Last(due)

Least(m, n) == IF m <= n THEN m ELSE n

Init ==
    /\ in = EmptyRing /\ fds_in = EmptyRing
    /\ out = EmptyRing /\ fds_out = EmptyRing
    /\ inq = <<>> /\ toB = <<>> /\ fdsToB = <<>> /\ unread = 0 /\ buffer = <<>>
    /\ phase = "idle" /\ due = <<>> /\ sends = 0 /\ open = {} /\ held = FALSE

-----------------------------------------------------------------------------
(* The peers. *)

\* A sends a message of one or two words and passes descriptors with it.
PeerWrite ==
    /\ \E n \in 1 .. 2, f \in 0 .. MaxFds :
          /\ Len(due) + n <= MaxWords /\ Given + f <= MaxGiven
          /\ inq' = inq \o [k \in 1 .. n |->
                [word |-> Len(due) + k,
                 fds |-> IF k = 1 THEN [j \in 1 .. f |-> Given + j] ELSE <<>>]]
          /\ due' = due \o [k \in 1 .. n |-> Given + f]
    /\ UNCHANGED <<in, fds_in, out, fds_out, toB, fdsToB, unread, buffer, phase, sends, open, held>>

PeerRead ==
    /\ unread > 0 /\ unread' = 0
    /\ UNCHANGED <<in, fds_in, out, fds_out, inq, toB, fdsToB, buffer, phase, due, sends, open, held>>

-----------------------------------------------------------------------------
(* Sending. *)

\* Mutant of Closed: no maximum is taken for none at all.
ClosedNone(fds, max) == Range(Copy(fds, Least(max, Size(fds))))

\* close_fds: those it closes, at most max of them (all, when max is 0), and the
\* ring it leaves, whatever the maximum.
Closed(fds, max) ==
    Range(Copy(fds, IF max > 0 THEN Least(max, Size(fds)) ELSE Size(fds)))

Dropped(fds) == Consume(fds, Size(fds))

\* Mutant of BuildCmsg: descriptors ride on the last part of a flush cut short.
BuildCmsgLate(fds, left) ==
    IF left > 0 THEN <<>> ELSE Copy(fds, Least(Size(fds), MaxFds))

\* build_cmsg: the descriptors that go with the first sendmsg.
BuildCmsg(fds, left) == Copy(fds, Least(Size(fds), MaxFds))

\* What a flush changes.
Unflushed == [ok |-> TRUE, out |-> out, fds |-> fds_out, toB |-> toB,
              fdsToB |-> fdsToB, unread |-> unread, open |-> open]

(***************************************************************************)
(* wl_connection_flush from state c (every caller has set want_flush): the *)
(* socket takes what it has room for; when that is not all, the next       *)
(* sendmsg fails and so does the flush.  A sendmsg with garbage among its  *)
(* descriptors fails, or passes on a descriptor that is not A's.           *)
(***************************************************************************)
Flush(c) ==
    LET words == Gathered(c.out, GetIov(c.out))
        n == Least(Len(words), SockCap - c.unread)
        rides == BuildCmsg(c.fds, Size(c.out) - n)
        failed == [c EXCEPT !.ok = FALSE]
        flushed == [c EXCEPT
            !.ok = n = Size(c.out), !.out = Consume(@, n),
            !.fds = Dropped(@), !.open = @ \ Closed(c.fds, MaxFds),
            !.toB = @ \o [k \in 1 .. n |->
                [word |-> words[k], fds |-> Len(c.fdsToB) + Len(rides)]],
            !.fdsToB = @ \o rides, !.unread = @ + n]
    IN  IF Size(c.out) = 0 THEN {c}
        ELSE IF n = 0 THEN {failed}
        ELSE IF Garbage \in Range(rides) THEN {failed, flushed} ELSE {flushed}

\* Mutant of Write: the words in the ring are not counted.
WriteUncounted(c, words) ==
    LET room == IF Len(words) > RingSize THEN Flush(c) ELSE {c}
    IN  {IF d.ok THEN [d EXCEPT !.out = Put(@, words)] ELSE d : d \in room}

\* wl_connection_write: a flush first when the words do not fit.
Write(c, words) ==
    LET room == IF Size(c.out) + Len(words) > RingSize THEN Flush(c) ELSE {c}
    IN  {IF d.ok /\ CanPut(words) THEN [d EXCEPT !.out = Put(@, words)]
         ELSE [d EXCEPT !.ok = FALSE] : d \in room}

\* What sending has come to.
Sent(c) ==
    out' = c.out /\ toB' = c.toB /\ fdsToB' = c.fdsToB /\ unread' = c.unread

\* wl_connection_destroy of both connections.
Teardown(c) ==
    /\ phase' = "gone"
    /\ open' = (c.open \ Closed(c.fds, 0)) \ Closed(fds_in, 0)
    /\ fds_out' = Dropped(c.fds) /\ fds_in' = Dropped(fds_in)
    /\ buffer' = <<>>

-----------------------------------------------------------------------------

\* The words of a stream descriptors ride on.
Carriers(stream) == {k \in DOMAIN stream : stream[k].fds # <<>>}

\* The descriptors on a stream that carries one lot of them at most.
Lot(stream) ==
    IF Carriers(stream) = {} THEN <<>>
    ELSE stream[CHOOSE k \in Carriers(stream) : TRUE].fds

\* wl_connection_read, and process_data up to the descriptors.  The kernel gives
\* descriptors with the words they came with, at most one lot in a recvmsg.
Receive ==
    /\ phase = "idle" /\ inq # <<>>
    /\ \E n \in 1 .. Least(Len(Places(PutIov(in))), Len(inq)) :
          LET taken == SubSeq(inq, 1, n)
              fds == Lot(taken)
              read == ReadInto(in, [k \in 1 .. n |-> taken[k].word])
              fits == Len(fds) <= RingSize - Size(fds_in)
          IN  /\ \A j, k \in Carriers(taken) : j = k
              /\ inq' = SubSeq(inq, n + 1, Len(inq))
              /\ IF fits
                 THEN /\ fds_in' = Put(fds_in, fds) /\ open' = open \cup Range(fds)
                      /\ buffer' = Copy(read, Size(read))
                      /\ in' = Consume(read, Size(read))
                      /\ phase' = "read" /\ UNCHANGED fds_out
                 ELSE Teardown(Unflushed) /\ UNCHANGED in
    /\ UNCHANGED <<out, toB, fdsToB, unread, due, sends, held>>

\* The memory behind a pointer to descriptor at of a ring: behind the end of the
\* ring there are its counters and the next ring.
Raw(b, at) == IF at < RingSize THEN b.data[at] ELSE Garbage

\* wl_connection_copy_fds, whose result process_data does not look at.
CopyFds ==
    /\ phase = "read" /\ phase' = "loop"
    /\ LET size == Size(fds_in)
           fds == [k \in 1 .. size |-> Raw(fds_in, fds_in.tail + k - 1)]
       IN \E c \in IF size > 0 /\ size + Size(fds_out) >= MaxFds
                      THEN Flush(Unflushed) ELSE {Unflushed} :
          /\ Sent(c) /\ open' = c.open
          /\ IF c.ok THEN /\ fds_out' = Put(c.fds, fds)
                          /\ fds_in' = Consume(fds_in, size) /\ UNCHANGED held
             ELSE held' = TRUE /\ fds_out' = c.fds /\ UNCHANGED fds_in
    /\ UNCHANGED <<in, inq, buffer, due, sends>>

\* The next message in the buffer, of any size, is written and flushed; a
\* failure destroys the connection.
Forward ==
    /\ phase = "loop"
    /\ \E k \in 1 .. Len(buffer) : \E w \in Write(Unflushed, SubSeq(buffer, 1, k)) :
       \E c \in IF w.ok THEN Flush(w) ELSE {w} :
          /\ Sent(c)
          /\ IF c.ok THEN /\ buffer' = SubSeq(buffer, k + 1, Len(buffer))
                          /\ phase' = IF k = Len(buffer) THEN "idle" ELSE "loop"
                          /\ fds_out' = c.fds /\ open' = c.open /\ UNCHANGED fds_in
             ELSE Teardown(c)
    /\ UNCHANGED <<in, inq, due, sends, held>>

\* "send" at the prompt for a message of either direction: written, not flushed.
Inject ==
    /\ phase \in {"idle", "loop"} /\ sends < MaxSends
    /\ sends' = sends + 1
    /\ \E c \in Write(Unflushed, <<Injected>>) :
          Sent(c) /\ fds_out' = c.fds /\ open' = c.open
    /\ UNCHANGED <<in, fds_in, inq, buffer, phase, due, held>>

\* A peer hangs up, or wldbg is told to quit.
Destroy ==
    /\ phase \in {"idle", "loop"} /\ Teardown(Unflushed)
    /\ UNCHANGED <<in, out, inq, toB, fdsToB, unread, due, sends, held>>

Next == PeerWrite \/ PeerRead \/ Receive \/ CopyFds \/ Forward \/ Inject \/ Destroy

Spec == Init /\ [][Next]_vars

-----------------------------------------------------------------------------
(* Properties. *)

\* No ring holds more than it can.
TypeOK ==
    /\ \A b \in {in, fds_in, out, fds_out} : b \in WlBuffer /\ Size(b) <= RingSize
    /\ phase \in Phase /\ unread \in 0 .. SockCap /\ sends \in 0 .. MaxSends
    /\ open \subseteq 1 .. Given /\ held \in BOOLEAN

\* A's words in s, less the user's, are the first n, each once and in order.
First(n, s) ==
    LET As == {k \in DOMAIN s : s[k] # Injected}
    IN  {s[k] : k \in As} = 1 .. n /\ \A j, k \in As : j < k => s[j] < s[k]

\* Wherever the counters are in the rings, A's words travel in order and none is
\* lost, doubled or overwritten (wl_buffer_put, _put_iov, _get_iov, _copy).
WordsInOrder ==
    LET sent == [k \in DOMAIN toB |-> toB[k].word]
        inRing == IF Size(out) = 0 THEN <<>> ELSE Gathered(out, GetIov(out))
    IN  IF phase = "gone" THEN \E n \in 0 .. Len(due) : First(n, sent)
        ELSE First(Len(due), sent \o inRing \o buffer \o [k \in DOMAIN inq |-> inq[k].word])

\* The descriptors that came to wldbg so far: those passed up to the last word
\* that came.
Come == LET words == Len(due) - Len(inq) IN IF words = 0 THEN 0 ELSE due[words]

\* Every descriptor has come to B, in order, by the time B gets the word A passed
\* it with, unless the connection has seen more descriptors than a ring holds
\* (conn1->fds_in.tail is not masked) or a flush in wl_connection_copy_fds failed
\* (the socket was full of injected words): the interface has no other way to
\* tell which descriptor is whose.
FdsInTime ==
    Come <= RingSize /\ ~held =>
        /\ fdsToB = [k \in 1 .. Len(fdsToB) |-> k]
        /\ \A i \in DOMAIN toB :
              toB[i].word # Injected => due[toB[i].word] <= toB[i].fds

\* The descriptors open in wldbg are those in the rings, and none is left when
\* the connection is gone, under the same conditions: each that came was passed
\* on and closed, or closed.
FdsAccounted ==
    Come <= RingSize /\ ~held =>
        open = Range(Copy(fds_in, Size(fds_in))) \cup Range(Copy(fds_out, Size(fds_out)))

\* connection.c:409: "pipe fds from one connection to another": the descriptors B
\* gets are A's, in order and with none left out, be there more of them than a
\* ring holds or a flush that fails on the way.
FdsPiped == fdsToB = [k \in 1 .. Len(fdsToB) |-> k]
=============================================================================
