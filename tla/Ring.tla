-------------------------------- MODULE Ring --------------------------------
(***************************************************************************)
(* struct wl_buffer of wayland/connection.c: a ring of 4096 bytes with two *)
(* counters that run on for ever and wrap with their width; a place in the *)
(* ring is a counter masked.  A segment [base, len] is an iovec.           *)
(***************************************************************************)
EXTENDS Naturals, Sequences

CONSTANTS
    RingSize,    \* what a ring holds: 4096 bytes
    CounterSize  \* the values of a counter: 2^32

ASSUME RingAssumption ==
    /\ RingSize \in Nat \ {0}
    /\ \E k \in 2 .. CounterSize : CounterSize = k * RingSize

WlBuffer == [data : [0 .. RingSize - 1 -> Nat],
             head : 0 .. CounterSize - 1, tail : 0 .. CounterSize - 1]

EmptyRing == [data |-> [i \in 0 .. RingSize - 1 |-> 0], head |-> 0, tail |-> 0]

\* MASK
Masked(i) == i % RingSize

On(counter, count) == (counter + count) % CounterSize

\* wl_buffer_size
Size(b) == (CounterSize + b.head - b.tail) % CounterSize

\* The places of one or two segments, in the order they are filled.
Segment(s) == [k \in 1 .. s.len |-> s.base + k - 1]

Places(iov) == IF Len(iov) = 1 THEN Segment(iov[1]) ELSE Segment(iov[1]) \o Segment(iov[2])

\* Mutant of Around: the two parts in the wrong order.
AroundSwapped(at, count) ==
    IF at + count <= RingSize THEN <<[base |-> at, len |-> count]>>
    ELSE <<[base |-> 0, len |-> count - (RingSize - at)],
           [base |-> at, len |-> RingSize - at]>>

\* From one place on, round the end of the ring: the two memcpys of
\* wl_buffer_put and wl_buffer_copy.
Around(at, count) ==
    IF at + count <= RingSize THEN <<[base |-> at, len |-> count]>>
    ELSE <<[base |-> at, len |-> RingSize - at],
           [base |-> 0, len |-> count - (RingSize - at)]>>

\* Cells data with items stored at the places of iov.
Stored(data, iov, items) ==
    LET places == Places(iov)
    IN  [i \in DOMAIN data |->
            IF \E k \in DOMAIN items : places[k] = i
               THEN items[CHOOSE k \in DOMAIN items : places[k] = i] ELSE data[i]]

\* wl_buffer_put; it looks at the size of the ring, not at what is free.
CanPut(items) == Len(items) <= RingSize

Put(b, items) ==
    [b EXCEPT !.data = Stored(@, Around(Masked(b.head), Len(items)), items),
              !.head = On(@, Len(items))]

\* wl_buffer_put_iov: where a read may store, all that is free.
PutIov(b) ==
    LET head == Masked(b.head)
        tail == Masked(b.tail)
    IN  IF head < tail THEN <<[base |-> head, len |-> tail - head]>>
        ELSE IF tail = 0 THEN <<[base |-> head, len |-> RingSize - head]>>
        ELSE <<[base |-> head, len |-> RingSize - head], [base |-> 0, len |-> tail]>>

\* wl_buffer_get_iov: all that is in the ring, if anything is.
GetIov(b) ==
    LET head == Masked(b.head)
        tail == Masked(b.tail)
    IN  IF tail < head THEN <<[base |-> tail, len |-> head - tail]>>
        ELSE IF head = 0 THEN <<[base |-> tail, len |-> RingSize - tail]>>
        ELSE <<[base |-> tail, len |-> RingSize - tail], [base |-> 0, len |-> head]>>

\* What the places of iov hold.
Gathered(b, iov) == LET places == Places(iov) IN [k \in DOMAIN places |-> b.data[places[k]]]

\* wl_buffer_copy
Copy(b, count) == Gathered(b, Around(Masked(b.tail), count))

Consume(b, count) == [b EXCEPT !.tail = On(@, count)]

\* A read stores items at the places of wl_buffer_put_iov.
ReadInto(b, items) ==
    [b EXCEPT !.data = Stored(@, PutIov(b), items), !.head = On(@, Len(items))]
=============================================================================
