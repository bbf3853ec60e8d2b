----------------------------- MODULE RingsProofs -----------------------------
(***************************************************************************)
(* Ring and Rings, for every size of the rings, of their counters, of a    *)
(* sendmsg and of the socket.                                              *)
(*                                                                         *)
(* The counters first: a masked counter moves on by one place a cell,      *)
(* round the end of the ring once at most, wherever it wraps itself.  So   *)
(* the places of a put, a read, a flush or a copy go round the ring        *)
(* (Going), and a ring holds a sequence (Contents) to which these          *)
(* operations append and from which they take (RingIsQueue).  From there   *)
(* on memory is not looked at again.                                       *)
(*                                                                         *)
(* Then the invariants of Rings, each on top of those before: no ring      *)
(* holds more than it can (Fit); words and descriptors keep their numbers  *)
(* in A's socket (Numbered); what came is sent or in the buffer, in order  *)
(* (Ordered); the descriptors that came are sent or in the ring their      *)
(* phase says, in order, and no word is ahead of its own (Piped).          *)
(***************************************************************************)
EXTENDS Rings, TLAPS, SequenceTheorems, NaturalsInduction, WellFoundedInduction

-----------------------------------------------------------------------------
(* The arithmetic of counters. *)

\* The remainder of a number is what is left of it when multiples are taken off.
LEMMA Remainder ==
    ASSUME NEW n \in Nat \ {0}, NEW q \in Nat, NEW r \in 0 .. n - 1
    PROVE  (q * n + r) % n = r
BY Z3

\* The counters go round the ring a whole number of times, twice at least.
LEMMA Rounds ==
    /\ RingSize \in Nat \ {0} /\ CounterSize \in Nat \ {0} /\ 2 * RingSize <= CounterSize
    /\ \E k \in Nat : CounterSize = k * RingSize
<1>1. PICK k \in 2 .. CounterSize : CounterSize = k * RingSize BY RingAssumption
<1>2. RingSize \in Nat \ {0} BY RingAssumption
<1>3. CounterSize \in Nat BY <1>1, <1>2
<1>4. (k - 2) * RingSize \in Nat BY <1>1, <1>2
<1>5. k * RingSize = (k - 2) * RingSize + 2 * RingSize BY <1>1, <1>2
<1> QED BY <1>1, <1>2, <1>3, <1>4, <1>5

LEMMA Quotient ==
    ASSUME NEW c \in Nat, NEW n \in Nat, n > 0
    PROVE  \E q \in Nat, r \in 0 .. n - 1 : c = q * n + r /\ c % n = r
<1>1. c = n * (c \div n) + (c % n) BY Z3
<1>2. c \div n \in Nat BY Z3
<1>3. c % n \in 0 .. n - 1 BY Z3
<1>4. n * (c \div n) = (c \div n) * n BY <1>2, Z3
<1> HIDE <1>4
<1> DEFINE q == c \div n
           r == c % n
<1>5. c = q * n + r BY <1>1, <1>4
<1>6. q \in Nat /\ r \in 0 .. n - 1 BY <1>2, <1>3
<1> QED BY <1>5, <1>6, Zenon

\* Going on by at most a ring's size moves the place by as much, round the end of
\* the ring once at most, wherever the counter wraps.
LEMMA MaskedOn ==
    ASSUME NEW c \in 0 .. CounterSize - 1, NEW n \in 0 .. RingSize
    PROVE  /\ Masked(c) \in 0 .. RingSize - 1
           /\ On(c, n) = IF c + n < CounterSize THEN c + n ELSE c + n - CounterSize
           /\ On(c, n) \in 0 .. CounterSize - 1
           /\ Masked(On(c, n)) = IF Masked(c) + n < RingSize THEN Masked(c) + n
                                 ELSE Masked(c) + n - RingSize
<1> DEFINE R == RingSize
           C == CounterSize
<1>1. PICK k \in Nat : C = k * R BY Rounds
<1>2. R \in Nat /\ C \in Nat /\ R > 0 /\ 2 * R <= C BY Rounds
<1>4. n \in 0 .. R /\ c \in Nat /\ c < C
  BY <1>2
<1> HIDE DEF R, C
<1>3. PICK q \in Nat, r \in 0 .. R - 1 : c = q * R + r /\ c % R = r
  <2>1. c \in Nat /\ R \in Nat /\ R > 0 BY <1>2, <1>4
  <2> HIDE DEF R
  <2> QED BY <2>1, Quotient
<1> DEFINE t == IF r + n < R THEN r + n ELSE r + n - R
           p == IF r + n < R THEN q ELSE q + 1
<1>5. p \in Nat /\ t \in 0 .. R - 1
  BY <1>2, <1>3, <1>4
<1>6. c + n = p * R + t
  <2>1. (q + 1) * R = q * R + R BY <1>2, <1>3
  <2> QED BY <1>2, <1>3, <1>4, <2>1
<1> HIDE DEF t, p
<1>7. (p * R + t) % R = t
  <2>1. R \in Nat \ {0} BY <1>2
  <2> QED BY <2>1, <1>5, Remainder
<1>8. CASE c + n < C
  <2>1. (0 * C + (c + n)) % C = c + n
    <3>1. c + n \in 0 .. C - 1 /\ C \in Nat \ {0} BY <1>2, <1>4, <1>8
    <3> QED BY <3>1, Remainder
  <2>2. 0 * C + (c + n) = c + n BY <1>2, <1>4
  <2>3. On(c, n) = c + n /\ On(c, n) \in 0 .. C - 1
    BY <2>1, <2>2, <1>2, <1>4, <1>8 DEF On, C
  <2>4. Masked(On(c, n)) = t
    BY <2>3, <1>6, <1>7 DEF Masked, R
  <2> QED BY <2>3, <2>4, <1>3, <1>5, <1>8 DEF t, R, C, Masked
<1>9. CASE ~(c + n < C)
  <2> DEFINE d == c + n - C
  <2>1. d \in 0 .. C - 1
    BY <1>2, <1>4, <1>9
  <2>2. (1 * C + d) % C = d
    <3> HIDE DEF d
    <3> QED BY <1>2, <2>1, Remainder
  <2>3. 1 * C + d = c + n BY <1>2, <1>4
  <2>4. On(c, n) = d
    <3> HIDE DEF d
    <3> QED BY <2>2, <2>3 DEF On, C
  <2>5. k * R <= p * R + t
    BY <1>1, <1>2, <1>4, <1>6, <1>9
  <2>6. k <= p
    <3>1. SUFFICES ASSUME p < k PROVE FALSE
      BY <1>1, <1>5
    <3>2. k - p - 1 \in Nat /\ (k - p - 1) * R >= 0
      BY <3>1, <1>1, <1>2, <1>5
    <3>3. k * R = (k - p - 1) * R + p * R + R
      BY <3>2, <1>1, <1>2, <1>5
    <3>4. p * R \in Nat /\ (k - p - 1) * R \in Nat
      BY <3>2, <1>2, <1>5
    <3> QED BY <3>2, <3>3, <3>4, <2>5, <1>2, <1>5
  <2>7. p - k \in Nat BY <2>6, <1>1, <1>5
  <2>8. d = (p - k) * R + t
    <3>1. p * R = (p - k) * R + k * R BY <2>7, <1>1, <1>2, <1>5
    <3>2. (p - k) * R \in Nat /\ p * R \in Nat BY <2>7, <1>2, <1>5
    <3> QED BY <3>1, <3>2, <1>1, <1>2, <1>4, <1>5, <1>6
  <2>9. ((p - k) * R + t) % R = t
    BY <2>7, <1>2, <1>5, Remainder
  <2>10. Masked(On(c, n)) = t
    <3> HIDE DEF d
    <3> QED BY <2>4, <2>8, <2>9 DEF Masked, R
  <2> QED BY <2>1, <2>4, <2>10, <1>3, <1>5, <1>9 DEF t, R, C, Masked
<1> QED BY <1>8, <1>9

\* Going on in two steps.
LEMMA OnOn ==
    ASSUME NEW c \in 0 .. CounterSize - 1, NEW m \in 0 .. RingSize, NEW n \in 0 .. RingSize,
           m + n <= RingSize
    PROVE  On(On(c, m), n) = On(c, m + n)
<1> DEFINE d == On(c, m)
<1>1. CounterSize \in Nat /\ RingSize \in Nat /\ 2 * RingSize <= CounterSize
  BY Rounds
<1>2. /\ d = IF c + m < CounterSize THEN c + m ELSE c + m - CounterSize
      /\ d \in 0 .. CounterSize - 1
  BY MaskedOn, Zenon
<1>3. m + n \in 0 .. RingSize
  BY <1>1
<1> DEFINE mn == m + n
<1>4. mn = m + n /\ mn \in 0 .. RingSize
  BY <1>3
<1> HIDE DEF mn, d
<1>5. On(c, mn) = IF c + mn < CounterSize THEN c + mn ELSE c + mn - CounterSize
  BY <1>4, MaskedOn, Zenon
<1>6. On(d, n) = IF d + n < CounterSize THEN d + n ELSE d + n - CounterSize
  BY <1>2, MaskedOn, Zenon
<1>7. On(d, n) = On(c, mn)
  BY <1>1, <1>2, <1>4, <1>5, <1>6
<1> QED BY <1>4, <1>7 DEF d

-----------------------------------------------------------------------------
(* Where things are in a ring. *)

\* The kth place from place at on, round the end of the ring.
Place(at, k) == IF at + k - 1 < RingSize THEN at + k - 1 ELSE at + k - 1 - RingSize

\* A ring that holds no more than it can.
Sound(b) == b \in WlBuffer /\ Size(b) <= RingSize

\* What a ring holds, in the order it was put in.
Contents(b) == [k \in 1 .. Size(b) |-> b.data[Place(Masked(b.tail), k)]]

\* How far the head is ahead of the tail, round the end of the counters.
LEMMA SizeIs ==
    ASSUME NEW b \in WlBuffer
    PROVE  /\ Size(b) \in Nat
           /\ Size(b) = IF b.tail <= b.head THEN b.head - b.tail
                        ELSE CounterSize + b.head - b.tail
<1> DEFINE C == CounterSize
           h == b.head
           t == b.tail
<1>1. h \in 0 .. C - 1 /\ t \in 0 .. C - 1
  BY DEF WlBuffer
<1>2. C \in Nat \ {0}
  BY Rounds
<1>3. Size(b) = (C + h - t) % C
  BY DEF Size
<1> HIDE DEF C, h, t
<1>4. CASE t <= h
  <2> DEFINE d == h - t
  <2>1. d \in 0 .. C - 1 /\ C + h - t = 1 * C + d
    BY <1>1, <1>2, <1>4
  <2> HIDE DEF d
  <2>2. (1 * C + d) % C = d
    BY <2>1, <1>2, Remainder
  <2> QED BY <2>1, <2>2, <1>2, <1>3, <1>4 DEF d, C, h, t
<1>5. CASE ~(t <= h)
  <2> DEFINE d == C + h - t
  <2>1. d \in 0 .. C - 1 /\ C + h - t = 0 * C + d
    BY <1>1, <1>2, <1>5
  <2> HIDE DEF d
  <2>2. (0 * C + d) % C = d
    BY <2>1, <1>2, Remainder
  <2> QED BY <2>1, <2>2, <1>2, <1>3, <1>5 DEF d, C, h, t
<1> QED BY <1>4, <1>5

\* The counters of a ring with count things behind its tail.
LEMMA SizeFrom ==
    ASSUME NEW b \in WlBuffer, NEW count \in 0 .. RingSize
    PROVE  b.head = On(b.tail, count) <=> Size(b) = count
<1>1. b.head \in 0 .. CounterSize - 1 /\ b.tail \in 0 .. CounterSize - 1
  BY DEF WlBuffer
<1>2. On(b.tail, count) = IF b.tail + count < CounterSize THEN b.tail + count
                          ELSE b.tail + count - CounterSize
  BY <1>1, MaskedOn, Zenon
<1>3. CounterSize \in Nat /\ RingSize \in Nat /\ 2 * RingSize <= CounterSize /\ RingSize > 0
  BY Rounds
<1> QED BY <1>1, <1>2, <1>3, SizeIs

\* The place a sound ring goes on at is as far behind its tail as it holds things.
LEMMA HeadPlace ==
    ASSUME NEW b, Sound(b)
    PROVE  /\ Size(b) \in 0 .. RingSize
           /\ Masked(b.tail) \in 0 .. RingSize - 1 /\ Masked(b.head) \in 0 .. RingSize - 1
           /\ Masked(b.head) = Place(Masked(b.tail), Size(b) + 1)
<1>1. b \in WlBuffer /\ Size(b) \in 0 .. RingSize
  BY SizeIs, Rounds DEF Sound
<1>2. b.head = On(b.tail, Size(b))
  BY <1>1, SizeFrom
<1>3. b.tail \in 0 .. CounterSize - 1 /\ b.head \in 0 .. CounterSize - 1
  BY <1>1 DEF WlBuffer
<1>4. /\ Masked(b.tail) \in 0 .. RingSize - 1
      /\ Masked(On(b.tail, Size(b))) = IF Masked(b.tail) + Size(b) < RingSize
                                       THEN Masked(b.tail) + Size(b)
                                       ELSE Masked(b.tail) + Size(b) - RingSize
  BY <1>1, <1>3, MaskedOn, Zenon
<1>5. Place(Masked(b.tail), Size(b) + 1) = Masked(On(b.tail, Size(b)))
  BY <1>1, <1>4, Rounds DEF Place
<1>6. Masked(b.head) \in 0 .. RingSize - 1
  BY <1>1, <1>4, <1>2, Rounds
<1> QED BY <1>1, <1>2, <1>4, <1>5, <1>6

\* A segment's places, one behind the other.
LEMMA Segments ==
    ASSUME NEW base \in Nat, NEW len \in Nat
    PROVE  LET s == Segment([base |-> base, len |-> len])
           IN  /\ s \in Seq(Nat) /\ Len(s) = len
               /\ \A k \in 1 .. len : s[k] = base + k - 1
<1> DEFINE s == [k \in 1 .. len |-> base + k - 1]
<1>1. s \in Seq(Nat) /\ Len(s) = len /\ \A k \in 1 .. len : s[k] = base + k - 1
  OBVIOUS
<1>2. Segment([base |-> base, len |-> len]) = s
  BY DEF Segment
<1> QED BY <1>1, <1>2

LEMMA OneSegment ==
    ASSUME NEW base \in Nat, NEW len \in Nat
    PROVE  LET p == Places(<<[base |-> base, len |-> len]>>)
           IN  /\ p \in Seq(Nat) /\ Len(p) = len
               /\ \A k \in 1 .. len : p[k] = base + k - 1
<1>1. Places(<<[base |-> base, len |-> len]>>) = Segment([base |-> base, len |-> len])
  BY DEF Places
<1> QED BY <1>1, Segments, Zenon

LEMMA TwoSegments ==
    ASSUME NEW at \in Nat, NEW m \in Nat, NEW n \in Nat
    PROVE  LET p == Places(<<[base |-> at, len |-> m], [base |-> 0, len |-> n]>>)
           IN  /\ p \in Seq(Nat) /\ Len(p) = m + n
               /\ \A k \in 1 .. m + n : p[k] = IF k <= m THEN at + k - 1 ELSE k - m - 1
<1> DEFINE s == Segment([base |-> at, len |-> m])
           t == Segment([base |-> 0, len |-> n])
<1>1. Places(<<[base |-> at, len |-> m], [base |-> 0, len |-> n]>>) = s \o t
  BY DEF Places
<1>2. s \in Seq(Nat) /\ Len(s) = m /\ \A k \in 1 .. m : s[k] = at + k - 1
  BY Segments, Zenon
<1>3. t \in Seq(Nat) /\ Len(t) = n /\ \A k \in 1 .. n : t[k] = 0 + k - 1
  <2>1. 0 \in Nat OBVIOUS
  <2> QED BY <2>1, Segments, Zenon
<1> HIDE DEF s, t
<1>4. /\ s \o t \in Seq(Nat) /\ Len(s \o t) = m + n
      /\ \A k \in 1 .. m + n : (s \o t)[k] = IF k <= m THEN s[k] ELSE t[k - m]
  BY <1>2, <1>3, ConcatProperties
<1>5. \A k \in 1 .. m + n : (s \o t)[k] = IF k <= m THEN at + k - 1 ELSE k - m - 1
  BY <1>2, <1>3, <1>4
<1> QED BY <1>1, <1>4, <1>5

\* Places that go round the ring, count of them from at on.
Going(places, at, count) ==
    /\ places \in Seq(Nat) /\ Len(places) = count
    /\ \A k \in 1 .. count : places[k] = Place(at, k)

\* wl_buffer_put and wl_buffer_copy go round the ring.
LEMMA AroundGoes ==
    ASSUME NEW at \in 0 .. RingSize - 1, NEW count \in 0 .. RingSize
    PROVE  Going(Places(Around(at, count)), at, count)
<1>1. at \in Nat /\ count \in Nat /\ RingSize \in Nat
  BY Rounds
<1>2. CASE at + count <= RingSize
  <2>1. Around(at, count) = <<[base |-> at, len |-> count]>>
    BY <1>2 DEF Around
  <2>2. /\ Places(Around(at, count)) \in Seq(Nat) /\ Len(Places(Around(at, count))) = count
        /\ \A k \in 1 .. count : Places(Around(at, count))[k] = at + k - 1
    <3>1. LET q == Places(<<[base |-> at, len |-> count]>>)
          IN  /\ q \in Seq(Nat) /\ Len(q) = count /\ \A k \in 1 .. count : q[k] = at + k - 1
      BY <1>1, OneSegment
    <3> QED BY <2>1, <3>1, Zenon
  <2>3. \A k \in 1 .. count : Place(at, k) = at + k - 1
    BY <1>1, <1>2 DEF Place
  <2> QED BY <2>2, <2>3 DEF Going
<1>3. CASE ~(at + count <= RingSize)
  <2> DEFINE m == RingSize - at
             n == count - (RingSize - at)
  <2>1. m \in Nat /\ n \in Nat /\ m + n = count
    BY <1>1, <1>3
  <2>2. Around(at, count) = <<[base |-> at, len |-> m], [base |-> 0, len |-> n]>>
    BY <1>3 DEF Around
  <2>3. \A k \in 1 .. count : Place(at, k) = IF k <= m THEN at + k - 1 ELSE k - m - 1
    BY <1>1 DEF Place
  <2> HIDE DEF m, n
  <2>4. LET p == Places(Around(at, count))
        IN  /\ p \in Seq(Nat) /\ Len(p) = m + n
            /\ \A k \in 1 .. m + n : p[k] = IF k <= m THEN at + k - 1 ELSE k - m - 1
    <3>1. LET p == Places(<<[base |-> at, len |-> m], [base |-> 0, len |-> n]>>)
          IN  /\ p \in Seq(Nat) /\ Len(p) = m + n
              /\ \A k \in 1 .. m + n : p[k] = IF k <= m THEN at + k - 1 ELSE k - m - 1
      BY <2>1, <1>1, TwoSegments
    <3> QED BY <3>1, <2>2, Zenon
  <2> QED BY <2>1, <2>3, <2>4 DEF Going
<1> QED BY <1>2, <1>3

\* A read stores round the ring, from the head on, as much as is free.
LEMMA FreeGoes ==
    ASSUME NEW b, Sound(b), Size(b) < RingSize
    PROVE  Going(Places(PutIov(b)), Masked(b.head), RingSize - Size(b))
<1> DEFINE h == Masked(b.head)
           t == Masked(b.tail)
           R == RingSize
           p == Places(PutIov(b))
<1>1. /\ Size(b) \in 0 .. R /\ t \in 0 .. R - 1 /\ h \in 0 .. R - 1 /\ R \in Nat
      /\ h = IF t + Size(b) < R THEN t + Size(b) ELSE t + Size(b) - R
  BY HeadPlace, Rounds DEF Place
<1>2. CASE h < t
  <2> DEFINE len == t - h
  <2>1. PutIov(b) = <<[base |-> h, len |-> len]>>
    BY <1>2 DEF PutIov
  <2>2. h \in Nat /\ len \in Nat /\ len = R - Size(b)
    BY <1>1, <1>2
  <2>3. \A k \in 1 .. len : Place(h, k) = h + k - 1
    BY <1>1, <1>2 DEF Place
  <2> HIDE DEF len, h
  <2>4. p \in Seq(Nat) /\ Len(p) = len /\ \A k \in 1 .. len : p[k] = h + k - 1
    <3>1. LET q == Places(<<[base |-> h, len |-> len]>>)
          IN  /\ q \in Seq(Nat) /\ Len(q) = len /\ \A k \in 1 .. len : q[k] = h + k - 1
      BY <2>2, OneSegment
    <3> QED BY <2>1, <3>1, Zenon
  <2> QED BY <2>2, <2>3, <2>4 DEF Going, h
<1>3. CASE ~(h < t) /\ t = 0
  <2> DEFINE len == R - h
  <2>1. PutIov(b) = <<[base |-> h, len |-> len]>>
    BY <1>3 DEF PutIov
  <2>2. h \in Nat /\ len \in Nat /\ len = R - Size(b)
    BY <1>1, <1>3
  <2>3. \A k \in 1 .. len : Place(h, k) = h + k - 1
    BY <1>1, <1>3 DEF Place
  <2> HIDE DEF len, h
  <2>4. p \in Seq(Nat) /\ Len(p) = len /\ \A k \in 1 .. len : p[k] = h + k - 1
    <3>1. LET q == Places(<<[base |-> h, len |-> len]>>)
          IN  /\ q \in Seq(Nat) /\ Len(q) = len /\ \A k \in 1 .. len : q[k] = h + k - 1
      BY <2>2, OneSegment
    <3> QED BY <2>1, <3>1, Zenon
  <2> QED BY <2>2, <2>3, <2>4 DEF Going, h
<1>4. CASE ~(h < t) /\ t # 0
  <2> DEFINE m == R - h
  <2>1. PutIov(b) = <<[base |-> h, len |-> m], [base |-> 0, len |-> t]>>
    BY <1>4 DEF PutIov
  <2>2. h \in Nat /\ m \in Nat /\ t \in Nat /\ m + t = R - Size(b)
    BY <1>1, <1>4
  <2>3. \A k \in 1 .. m + t : Place(h, k) = IF k <= m THEN h + k - 1 ELSE k - m - 1
    BY <1>1, <1>4 DEF Place
  <2> HIDE DEF m, h, t
  <2>4. /\ p \in Seq(Nat) /\ Len(p) = m + t
        /\ \A k \in 1 .. m + t : p[k] = IF k <= m THEN h + k - 1 ELSE k - m - 1
    <3>1. LET q == Places(<<[base |-> h, len |-> m], [base |-> 0, len |-> t]>>)
          IN  /\ q \in Seq(Nat) /\ Len(q) = m + t
              /\ \A k \in 1 .. m + t : q[k] = IF k <= m THEN h + k - 1 ELSE k - m - 1
      BY <2>2, TwoSegments
    <3> QED BY <3>1, <2>1, Zenon
  <2> QED BY <2>2, <2>3, <2>4 DEF Going, h
<1> QED BY <1>2, <1>3, <1>4

\* A flush sends round the ring, from the tail on, as much as is in it.
LEMMA FullGoes ==
    ASSUME NEW b, Sound(b), Size(b) > 0
    PROVE  Going(Places(GetIov(b)), Masked(b.tail), Size(b))
<1> DEFINE h == Masked(b.head)
           t == Masked(b.tail)
           R == RingSize
           p == Places(GetIov(b))
<1>1. /\ Size(b) \in 0 .. R /\ t \in 0 .. R - 1 /\ h \in 0 .. R - 1 /\ R \in Nat
      /\ h = IF t + Size(b) < R THEN t + Size(b) ELSE t + Size(b) - R
  BY HeadPlace, Rounds DEF Place
<1>2. CASE t < h
  <2> DEFINE len == h - t
  <2>1. GetIov(b) = <<[base |-> t, len |-> len]>>
    BY <1>2 DEF GetIov
  <2>2. t \in Nat /\ len \in Nat /\ len = Size(b)
    BY <1>1, <1>2
  <2>3. \A k \in 1 .. len : Place(t, k) = t + k - 1
    BY <1>1, <1>2 DEF Place
  <2> HIDE DEF len, t
  <2>4. p \in Seq(Nat) /\ Len(p) = len /\ \A k \in 1 .. len : p[k] = t + k - 1
    <3>1. LET q == Places(<<[base |-> t, len |-> len]>>)
          IN  /\ q \in Seq(Nat) /\ Len(q) = len /\ \A k \in 1 .. len : q[k] = t + k - 1
      BY <2>2, OneSegment
    <3> QED BY <2>1, <3>1, Zenon
  <2> QED BY <2>2, <2>3, <2>4 DEF Going, t
<1>3. CASE ~(t < h) /\ h = 0
  <2> DEFINE len == R - t
  <2>1. GetIov(b) = <<[base |-> t, len |-> len]>>
    BY <1>3 DEF GetIov
  <2>2. t \in Nat /\ len \in Nat /\ len = Size(b)
    BY <1>1, <1>3
  <2>3. \A k \in 1 .. len : Place(t, k) = t + k - 1
    BY <1>1, <1>3 DEF Place
  <2> HIDE DEF len, t
  <2>4. p \in Seq(Nat) /\ Len(p) = len /\ \A k \in 1 .. len : p[k] = t + k - 1
    <3>1. LET q == Places(<<[base |-> t, len |-> len]>>)
          IN  /\ q \in Seq(Nat) /\ Len(q) = len /\ \A k \in 1 .. len : q[k] = t + k - 1
      BY <2>2, OneSegment
    <3> QED BY <2>1, <3>1, Zenon
  <2> QED BY <2>2, <2>3, <2>4 DEF Going, t
<1>4. CASE ~(t < h) /\ h # 0
  <2> DEFINE m == R - t
  <2>1. GetIov(b) = <<[base |-> t, len |-> m], [base |-> 0, len |-> h]>>
    BY <1>4 DEF GetIov
  <2>2. t \in Nat /\ m \in Nat /\ h \in Nat /\ m + h = Size(b)
    BY <1>1, <1>4
  <2>3. \A k \in 1 .. m + h : Place(t, k) = IF k <= m THEN t + k - 1 ELSE k - m - 1
    BY <1>1, <1>4 DEF Place
  <2> HIDE DEF m, h, t
  <2>4. /\ p \in Seq(Nat) /\ Len(p) = m + h
        /\ \A k \in 1 .. m + h : p[k] = IF k <= m THEN t + k - 1 ELSE k - m - 1
    <3>1. LET q == Places(<<[base |-> t, len |-> m], [base |-> 0, len |-> h]>>)
          IN  /\ q \in Seq(Nat) /\ Len(q) = m + h
              /\ \A k \in 1 .. m + h : q[k] = IF k <= m THEN t + k - 1 ELSE k - m - 1
      BY <2>2, TwoSegments
    <3> QED BY <3>1, <2>1, Zenon
  <2> QED BY <2>2, <2>3, <2>4 DEF Going, t
<1> QED BY <1>2, <1>3, <1>4

\* A place is one of the ring's.
LEMMA PlaceIn ==
    ASSUME NEW at \in 0 .. RingSize - 1, NEW k \in 1 .. RingSize
    PROVE  Place(at, k) \in 0 .. RingSize - 1
BY Rounds DEF Place

\* Different places of a round are different.
LEMMA PlaceDiffers ==
    ASSUME NEW at \in 0 .. RingSize - 1, NEW j \in 1 .. RingSize, NEW k \in 1 .. RingSize,
           Place(at, j) = Place(at, k)
    PROVE  j = k
BY Rounds DEF Place

\* Going on at a place of a round.
LEMMA PlaceOn ==
    ASSUME NEW at \in 0 .. RingSize - 1, NEW m \in 0 .. RingSize, NEW k \in 1 .. RingSize,
           m + k <= RingSize
    PROVE  Place(Place(at, m + 1), k) = Place(at, m + k)
BY Rounds DEF Place

\* The first n places of segments iov go round the ring, from at on.
Along(iov, at, n) == \A k \in 1 .. n : Places(iov)[k] = Place(at, k)

\* Cells new are cells data but for items along a round from at on.
Filled(new, data, at, items) ==
    /\ new \in [0 .. RingSize - 1 -> Nat]
    /\ \A k \in 1 .. Len(items) : new[Place(at, k)] = items[k]
    /\ \A i \in 0 .. RingSize - 1 :
          (\A k \in 1 .. Len(items) : Place(at, k) # i) => new[i] = data[i]

\* memcpy changes the places it goes to, and no other.
LEMMA Storing ==
    ASSUME NEW data \in [0 .. RingSize - 1 -> Nat], NEW iov, NEW items \in Seq(Nat),
           NEW at \in 0 .. RingSize - 1, Len(items) <= RingSize,
           Along(iov, at, Len(items))
    PROVE  Filled(Stored(data, iov, items), data, at, items)
<1> DEFINE D == 1 .. Len(items)
           item(i) == CHOOSE k \in D : Place(at, k) = i
           new == [i \in 0 .. RingSize - 1 |->
                      IF \E k \in D : Place(at, k) = i THEN items[item(i)] ELSE data[i]]
<1>1. DOMAIN items = D /\ Len(items) \in Nat /\ \A k \in D : items[k] \in Nat
  BY LenProperties, ElementOfSeq
<1>10. \A k \in D : Places(iov)[k] = Place(at, k)
  BY DEF Along
<1>9. D \subseteq 1 .. RingSize
  BY <1>1, Rounds
<1>2. \A i : (CHOOSE k \in DOMAIN items : Places(iov)[k] = i) = item(i)
  <2> SUFFICES ASSUME NEW i
               PROVE  (CHOOSE k \in DOMAIN items : Places(iov)[k] = i) = item(i)
    OBVIOUS
  <2>1. \A k : (k \in DOMAIN items /\ Places(iov)[k] = i) <=> (k \in D /\ Place(at, k) = i)
    BY <1>1, <1>10
  <2> QED BY <2>1
<1>3. Stored(data, iov, items) = new
  <2>1. \A i : (\E k \in DOMAIN items : Places(iov)[k] = i) <=> (\E k \in D : Place(at, k) = i)
    BY <1>1, <1>10
  <2>2. DOMAIN data = 0 .. RingSize - 1
    OBVIOUS
  <2> HIDE DEF item, D
  <2> QED BY <1>2, <2>1, <2>2 DEF Stored
<1>4. \A k \in D : item(Place(at, k)) = k
  <2> SUFFICES ASSUME NEW k \in D PROVE item(Place(at, k)) = k
    OBVIOUS
  <2>1. \A j \in D : Place(at, j) = Place(at, k) => j = k
    <3> HIDE DEF D
    <3> QED BY <1>9, PlaceDiffers
  <2> QED BY <2>1
<1>5. \A k \in D : Place(at, k) \in 0 .. RingSize - 1
  <2> HIDE DEF D
  <2> QED BY <1>9, PlaceIn
<1>6. \A k \in D : new[Place(at, k)] = items[k]
  <2> HIDE DEF item, D
  <2> QED BY <1>4, <1>5
<1>7. new \in [0 .. RingSize - 1 -> Nat]
  <2>1. \A i : (\E k \in D : Place(at, k) = i) => item(i) \in D
    OBVIOUS
  <2> HIDE DEF item, D
  <2> QED BY <2>1, <1>1
<1>8. \A i \in 0 .. RingSize - 1 : (\A k \in D : Place(at, k) # i) => new[i] = data[i]
  <2> HIDE DEF item, D
  <2> QED OBVIOUS
<1> HIDE DEF new
<1> QED BY <1>3, <1>6, <1>7, <1>8 DEF Filled

\* What a ring holds is a sequence as long as its size.
LEMMA ContentsIs ==
    ASSUME NEW b, Sound(b)
    PROVE  /\ Contents(b) \in Seq(Nat) /\ Len(Contents(b)) = Size(b)
           /\ \A k \in 1 .. Size(b) : Contents(b)[k] = b.data[Place(Masked(b.tail), k)]
<1> DEFINE item(k) == b.data[Place(Masked(b.tail), k)]
<1>1. Size(b) \in 0 .. RingSize /\ Masked(b.tail) \in 0 .. RingSize - 1 /\ Size(b) \in Nat
  BY HeadPlace
<1>2. b.data \in [0 .. RingSize - 1 -> Nat]
  BY DEF Sound, WlBuffer
<1>3. \A k \in 1 .. Size(b) : item(k) \in Nat
  <2>1. 1 .. Size(b) \subseteq 1 .. RingSize
    BY <1>1, Rounds
  <2>2. \A k \in 1 .. Size(b) : Place(Masked(b.tail), k) \in 0 .. RingSize - 1
    BY <2>1, <1>1, PlaceIn
  <2> QED BY <2>2, <1>2
<1>4. Contents(b) = [k \in 1 .. Size(b) |-> item(k)]
  BY DEF Contents
<1> HIDE DEF item
<1>5. [k \in 1 .. Size(b) |-> item(k)] \in Seq(Nat)
  BY <1>1, <1>3
<1> QED BY <1>1, <1>4, <1>5 DEF item

\* What is gathered at places that go round the ring.
LEMMA Gathering ==
    ASSUME NEW b, Sound(b), NEW iov, NEW count \in 0 .. Size(b),
           Going(Places(iov), Masked(b.tail), count)
    PROVE  Gathered(b, iov) = SubSeq(Contents(b), 1, count)
<1> DEFINE g == [k \in 1 .. count |-> b.data[Place(Masked(b.tail), k)]]
           s == SubSeq(Contents(b), 1, count)
<1>1. Size(b) \in Nat /\ count \in Nat
  BY HeadPlace
<1>2. /\ Contents(b) \in Seq(Nat) /\ Len(Contents(b)) = Size(b)
      /\ \A k \in 1 .. Size(b) : Contents(b)[k] = b.data[Place(Masked(b.tail), k)]
  BY ContentsIs
<1>3. \A k \in 1 .. count : Contents(b)[k] \in Nat
  BY <1>1, <1>2, ElementOfSeq
<1>4. s \in Seq(Nat) /\ Len(s) = count /\ \A k \in 1 .. count : s[k] = Contents(b)[k]
  BY <1>1, <1>3, SubSeqProperties
<1>5. Gathered(b, iov) = g
  <2>1. DOMAIN Places(iov) = 1 .. count
    BY LenProperties DEF Going
  <2> QED BY <2>1 DEF Gathered, Going
<1>6. \A k \in 1 .. count : g[k] = s[k]
  BY <1>1, <1>2, <1>4
<1>7. g \in Seq(Nat) /\ Len(g) = count
  <2>1. \A k \in 1 .. count : b.data[Place(Masked(b.tail), k)] \in Nat
    BY <1>1, <1>2, <1>3
  <2> DEFINE item(k) == b.data[Place(Masked(b.tail), k)]
  <2> HIDE DEF item
  <2>2. [k \in 1 .. count |-> item(k)] \in Seq(Nat) /\ Len([k \in 1 .. count |-> item(k)]) = count
    BY <2>1, <1>1 DEF item
  <2> QED BY <2>2 DEF item
<1> HIDE DEF g, s
<1>8. g = s
  BY <1>4, <1>6, <1>7, SeqEqual
<1> QED BY <1>5, <1>8 DEF s

\* wl_buffer_copy gives what was put first.
LEMMA CopyGives ==
    ASSUME NEW b, Sound(b), NEW count \in 0 .. Size(b)
    PROVE  Copy(b, count) = SubSeq(Contents(b), 1, count)
<1>1. Size(b) \in 0 .. RingSize /\ Masked(b.tail) \in 0 .. RingSize - 1 /\ count \in 0 .. RingSize
  BY HeadPlace, Rounds
<1>2. Going(Places(Around(Masked(b.tail), count)), Masked(b.tail), count)
  BY <1>1, AroundGoes
<1> QED BY <1>2, Gathering DEF Copy

\* What is left of a sequence behind its first n.
LEMMA RestOf ==
    ASSUME NEW S, NEW s \in Seq(S), NEW n \in 0 .. Len(s)
    PROVE  /\ SubSeq(s, n + 1, Len(s)) \in Seq(S) /\ Len(SubSeq(s, n + 1, Len(s))) = Len(s) - n
           /\ \A k \in 1 .. Len(s) - n : SubSeq(s, n + 1, Len(s))[k] = s[n + k]
<1> DEFINE l == Len(s)
           t == SubSeq(s, n + 1, l)
<1>1. l \in Nat /\ n \in Nat /\ n <= l /\ \A i \in n + 1 .. l : s[i] \in S
  BY LenProperties, ElementOfSeq
<1>2. /\ t \in Seq(S) /\ Len(t) = IF n + 1 <= l THEN l - (n + 1) + 1 ELSE 0
      /\ \A k \in 1 .. l - (n + 1) + 1 : t[k] = s[n + 1 + k - 1]
  BY <1>1, SubSeqProperties
<1>3. l - (n + 1) + 1 = l - n /\ \A k \in 1 .. l - n : n + 1 + k - 1 = n + k
  BY <1>1
<1> HIDE DEF l, t
<1>4. Len(t) = l - n
  BY <1>1, <1>2
<1>5. \A k \in 1 .. l - n : t[k] = s[n + k]
  BY <1>2, <1>3
<1> QED BY <1>2, <1>4, <1>5 DEF l, t

\* The first n of a sequence.
LEMMA FirstOf ==
    ASSUME NEW S, NEW s \in Seq(S), NEW n \in 0 .. Len(s)
    PROVE  /\ SubSeq(s, 1, n) \in Seq(S) /\ Len(SubSeq(s, 1, n)) = n
           /\ \A k \in 1 .. n : SubSeq(s, 1, n)[k] = s[k]
<1>1. n \in Nat /\ \A i \in 1 .. n : s[i] \in S
  BY LenProperties, ElementOfSeq
<1> QED BY <1>1, SubSeqProperties

\* All of a sequence.
LEMMA AllOf ==
    ASSUME NEW S, NEW s \in Seq(S)
    PROVE  SubSeq(s, 1, Len(s)) = s
<1>1. Len(s) \in Nat /\ \A i \in 1 .. Len(s) : s[i] \in S
  BY LenProperties, ElementOfSeq
<1> DEFINE t == SubSeq(s, 1, Len(s))
<1>2. t \in Seq(S) /\ Len(t) = Len(s) /\ \A i \in 1 .. Len(s) : t[i] = s[i]
  BY <1>1, SubSeqProperties
<1> HIDE DEF t
<1>3. t = s
  BY <1>1, <1>2, SeqEqual
<1> QED BY <1>3 DEF t

LEMMA CopyAll ==
    ASSUME NEW b, Sound(b)
    PROVE  Copy(b, Size(b)) = Contents(b)
<1>1. Size(b) \in 0 .. Size(b)
  BY HeadPlace
<1>2. Copy(b, Size(b)) = SubSeq(Contents(b), 1, Size(b))
  BY <1>1, CopyGives
<1>3. SubSeq(Contents(b), 1, Len(Contents(b))) = Contents(b)
  BY ContentsIs, AllOf
<1> QED BY <1>2, <1>3, ContentsIs

\* A flush sends what is in the ring, in the order it was put in.
LEMMA GetIovGives ==
    ASSUME NEW b, Sound(b), Size(b) > 0
    PROVE  Gathered(b, GetIov(b)) = Contents(b)
<1>1. Size(b) \in 0 .. Size(b)
  BY HeadPlace
<1>2. Going(Places(GetIov(b)), Masked(b.tail), Size(b))
  BY FullGoes
<1>3. Gathered(b, GetIov(b)) = SubSeq(Contents(b), 1, Size(b))
  BY <1>1, <1>2, Gathering
<1>4. SubSeq(Contents(b), 1, Len(Contents(b))) = Contents(b)
  BY ContentsIs, AllOf
<1> QED BY <1>3, <1>4, ContentsIs

\* What is stored from the head on, round the ring, is put behind the rest.
LEMMA Storage ==
    ASSUME NEW b, Sound(b), NEW iov, NEW items \in Seq(Nat),
           Size(b) + Len(items) <= RingSize,
           Along(iov, Masked(b.head), Len(items))
    PROVE  LET new == [b EXCEPT !.data = Stored(@, iov, items), !.head = On(@, Len(items))]
           IN  /\ Sound(new) /\ Size(new) = Size(b) + Len(items)
               /\ Contents(new) = Contents(b) \o items
<1> DEFINE data == Stored(b.data, iov, items)
           new == [b EXCEPT !.data = data, !.head = On(b.head, Len(items))]
           n == Len(items)
           m == Size(b)
           t == Masked(b.tail)
<1>1. /\ m \in 0 .. RingSize /\ n \in 0 .. RingSize /\ m + n \in 0 .. RingSize
      /\ t \in 0 .. RingSize - 1
      /\ Masked(b.head) \in 0 .. RingSize - 1 /\ Masked(b.head) = Place(t, m + 1)
      /\ RingSize \in Nat
  BY HeadPlace, LenProperties, Rounds
<1>2. b \in WlBuffer
  BY DEF Sound
<1>3. b.data \in [0 .. RingSize - 1 -> Nat] /\ b.tail \in 0 .. CounterSize - 1
      /\ b.head \in 0 .. CounterSize - 1
  BY <1>2 DEF WlBuffer
<1>4. On(b.head, n) \in 0 .. CounterSize - 1
  BY <1>1, <1>3, MaskedOn, Zenon
<1>5. /\ data \in [0 .. RingSize - 1 -> Nat]
      /\ \A k \in 1 .. n : data[Place(Masked(b.head), k)] = items[k]
      /\ \A i \in 0 .. RingSize - 1 :
            (\A k \in 1 .. n : Place(Masked(b.head), k) # i) => data[i] = b.data[i]
  <2>1. Len(items) <= RingSize
    BY <1>1
  <2>2. Masked(b.head) \in 0 .. RingSize - 1
    BY <1>1
  <2> DEFINE d == b.data
             h == Masked(b.head)
  <2>3. d \in [0 .. RingSize - 1 -> Nat] /\ h \in 0 .. RingSize - 1
    BY <1>3, <2>2
  <2>4. Along(iov, h, Len(items))
    OBVIOUS
  <2> HIDE DEF d, h
  <2>5. Filled(Stored(d, iov, items), d, h, items)
    BY <2>1, <2>3, <2>4, Storing
  <2> QED BY <2>5 DEF d, h, Filled
<1>6. \A k \in 1 .. n : Place(Masked(b.head), k) = Place(t, m + k)
  <2> SUFFICES ASSUME NEW k \in 1 .. n PROVE Place(Masked(b.head), k) = Place(t, m + k)
    OBVIOUS
  <2>1. k \in 1 .. RingSize /\ m + k <= RingSize
    BY <1>1
  <2>2. Place(Place(t, m + 1), k) = Place(t, m + k)
    BY <1>1, <2>1, PlaceOn, Zenon
  <2> QED BY <2>2, <1>1
<1> HIDE DEF data
<1>7. new \in WlBuffer /\ new.tail = b.tail /\ new.data = data /\ new.head = On(b.head, n)
  BY <1>2, <1>4, <1>5 DEF WlBuffer
<1>8. new.head = On(new.tail, m + n)
  <2>1. b.head = On(b.tail, m)
    BY <1>1, <1>2, SizeFrom
  <2>2. On(On(b.tail, m), n) = On(b.tail, m + n)
    BY <1>1, <1>3, OnOn
  <2> QED BY <2>1, <2>2, <1>7
<1>9. Size(new) = m + n /\ Sound(new)
  <2> HIDE DEF new, m, n
  <2>1. Size(new) = m + n
    BY <1>1, <1>7, <1>8, SizeFrom, Zenon
  <2> QED BY <2>1, <1>1, <1>7 DEF Sound
<1> HIDE DEF new
<1> DEFINE c == Contents(b) \o items
<1>10. /\ Contents(b) \in Seq(Nat) /\ Len(Contents(b)) = m
       /\ \A k \in 1 .. m : Contents(b)[k] = b.data[Place(t, k)]
  BY ContentsIs
<1>11. /\ Contents(new) \in Seq(Nat) /\ Len(Contents(new)) = m + n
       /\ \A k \in 1 .. m + n : Contents(new)[k] = data[Place(t, k)]
  BY <1>7, <1>9, ContentsIs
<1>12. /\ c \in Seq(Nat) /\ Len(c) = m + n
       /\ \A k \in 1 .. m + n : c[k] = IF k <= m THEN Contents(b)[k] ELSE items[k - m]
  <2> DEFINE q == Contents(b)
  <2>1. q \in Seq(Nat)
    BY <1>10
  <2> HIDE DEF q
  <2>2. /\ q \o items \in Seq(Nat) /\ Len(q \o items) = Len(q) + Len(items)
        /\ \A k \in 1 .. Len(q) + Len(items) :
              (q \o items)[k] = IF k <= Len(q) THEN q[k] ELSE items[k - Len(q)]
    BY <2>1, ConcatProperties
  <2>3. Len(q) = m
    BY <1>10 DEF q
  <2> HIDE DEF m
  <2> QED BY <2>2, <2>3 DEF q
<1> HIDE DEF c, m, n, t
<1>13. \A k \in 1 .. m + n : Contents(new)[k] = c[k]
  <2> SUFFICES ASSUME NEW k \in 1 .. m + n PROVE Contents(new)[k] = c[k]
    OBVIOUS
  <2>1. k \in 1 .. RingSize
    BY <1>1
  <2>2. CASE k <= m
    <3>1. \A j \in 1 .. n : Place(Masked(b.head), j) # Place(t, k)
      <4> SUFFICES ASSUME NEW j \in 1 .. n, Place(t, m + j) = Place(t, k) PROVE FALSE
        BY <1>6
      <4>1. m + j \in 1 .. RingSize
        BY <1>1
      <4>2. m + j = k
        BY <4>1, <2>1, <1>1, PlaceDiffers
      <4> QED BY <4>2, <2>2, <1>1
    <3>2. Place(t, k) \in 0 .. RingSize - 1
      BY <1>1, <2>1, PlaceIn
    <3>3. data[Place(t, k)] = b.data[Place(t, k)]
      BY <1>5, <3>1, <3>2, Zenon
    <3>4. k \in 1 .. m
      BY <2>2, <1>1
    <3> QED BY <3>3, <3>4, <1>10, <1>11, <1>12, <2>2
  <2>3. CASE ~(k <= m)
    <3> DEFINE j == k - m
    <3>1. j \in 1 .. n /\ m + j = k
      BY <2>3, <1>1
    <3> HIDE DEF j
    <3>2. data[Place(t, m + j)] = items[j]
      BY <3>1, <1>5, <1>6
    <3> QED BY <3>1, <3>2, <1>11, <1>12, <2>3 DEF j
  <2> QED BY <2>2, <2>3
<1>14. Contents(new) = c
  BY <1>11, <1>12, <1>13, SeqEqual
<1> QED BY <1>9, <1>14 DEF new, c, data, m, n

\* wl_buffer_put, of what fits.
LEMMA PutAppends ==
    ASSUME NEW b, Sound(b), NEW items \in Seq(Nat), Size(b) + Len(items) <= RingSize
    PROVE  /\ Sound(Put(b, items)) /\ Size(Put(b, items)) = Size(b) + Len(items)
           /\ Contents(Put(b, items)) = Contents(b) \o items
<1> DEFINE iov == Around(Masked(b.head), Len(items))
<1>1. Masked(b.head) \in 0 .. RingSize - 1 /\ Len(items) \in 0 .. RingSize
  BY HeadPlace, LenProperties, Rounds
<1>2. Along(iov, Masked(b.head), Len(items))
  BY <1>1, AroundGoes DEF Going, Along
<1> HIDE DEF iov
<1>3. LET new == [b EXCEPT !.data = Stored(@, iov, items), !.head = On(@, Len(items))]
      IN  /\ Sound(new) /\ Size(new) = Size(b) + Len(items)
          /\ Contents(new) = Contents(b) \o items
  BY <1>2, Storage, Zenon
<1> QED BY <1>3 DEF Put, iov

\* What wl_connection_read reads into a ring with room for it.
LEMMA ReadAppends ==
    ASSUME NEW b, Sound(b), NEW items \in Seq(Nat),
           Size(b) < RingSize, Size(b) + Len(items) <= RingSize
    PROVE  /\ Sound(ReadInto(b, items)) /\ Size(ReadInto(b, items)) = Size(b) + Len(items)
           /\ Contents(ReadInto(b, items)) = Contents(b) \o items
<1> DEFINE iov == PutIov(b)
<1>1. Len(items) \in Nat /\ Len(items) <= RingSize - Size(b)
  BY HeadPlace, LenProperties, Rounds
<1>2. Along(iov, Masked(b.head), Len(items))
  <2>1. \A k \in 1 .. RingSize - Size(b) : Places(iov)[k] = Place(Masked(b.head), k)
    BY FreeGoes DEF Going
  <2>2. 1 .. Len(items) \subseteq 1 .. RingSize - Size(b)
    BY <1>1, HeadPlace, Rounds
  <2> QED BY <2>1, <2>2 DEF Along
<1> HIDE DEF iov
<1>3. LET new == [b EXCEPT !.data = Stored(@, iov, items), !.head = On(@, Len(items))]
      IN  /\ Sound(new) /\ Size(new) = Size(b) + Len(items)
          /\ Contents(new) = Contents(b) \o items
  BY <1>2, Storage, Zenon
<1> QED BY <1>3 DEF ReadInto, iov

\* Taking off the tail.
LEMMA ConsumeDrops ==
    ASSUME NEW b, Sound(b), NEW n \in 0 .. Size(b)
    PROVE  /\ Sound(Consume(b, n)) /\ Size(Consume(b, n)) = Size(b) - n
           /\ Contents(Consume(b, n)) = SubSeq(Contents(b), n + 1, Size(b))
<1> DEFINE m == Size(b)
           t == Masked(b.tail)
           new == [b EXCEPT !.tail = On(b.tail, n)]
<1>1. /\ m \in 0 .. RingSize /\ n \in 0 .. RingSize /\ m - n \in 0 .. RingSize /\ n <= m
      /\ t \in 0 .. RingSize - 1 /\ RingSize \in Nat
  BY HeadPlace, Rounds
<1>2. b \in WlBuffer
  BY DEF Sound
<1>3. b.tail \in 0 .. CounterSize - 1 /\ b.head \in 0 .. CounterSize - 1
  BY <1>2 DEF WlBuffer
<1>4. On(b.tail, n) \in 0 .. CounterSize - 1
  BY <1>1, <1>3, MaskedOn, Zenon
<1>5. new \in WlBuffer /\ new.head = b.head /\ new.data = b.data /\ new.tail = On(b.tail, n)
  BY <1>2, <1>4 DEF WlBuffer
<1>6. Masked(new.tail) = Place(t, n + 1)
  <2>1. Masked(On(b.tail, n)) = IF t + n < RingSize THEN t + n ELSE t + n - RingSize
    BY <1>1, <1>3, MaskedOn, Zenon
  <2> QED BY <2>1, <1>1, <1>5 DEF Place
<1>7. new.head = On(new.tail, m - n)
  <2>1. b.head = On(b.tail, m)
    BY <1>1, <1>2, SizeFrom
  <2>2. /\ On(b.tail, m) = IF b.tail + m < CounterSize THEN b.tail + m
                           ELSE b.tail + m - CounterSize
        /\ On(b.tail, n) = IF b.tail + n < CounterSize THEN b.tail + n
                           ELSE b.tail + n - CounterSize
    BY <1>1, <1>3, MaskedOn, Zenon
  <2>3. On(new.tail, m - n) = IF new.tail + (m - n) < CounterSize THEN new.tail + (m - n)
                              ELSE new.tail + (m - n) - CounterSize
    BY <1>1, <1>4, <1>5, MaskedOn, Zenon
  <2>4. CounterSize \in Nat /\ 2 * RingSize <= CounterSize
    BY Rounds
  <2> HIDE DEF new, m
  <2> QED BY <2>1, <2>2, <2>3, <2>4, <1>1, <1>3, <1>5
<1>8. Size(new) = m - n /\ Sound(new)
  <2> HIDE DEF new, m
  <2>1. Size(new) = m - n
    BY <1>1, <1>5, <1>7, SizeFrom, Zenon
  <2> QED BY <2>1, <1>1, <1>5 DEF Sound
<1> HIDE DEF new
<1>9. /\ Contents(b) \in Seq(Nat) /\ Len(Contents(b)) = m
      /\ \A k \in 1 .. m : Contents(b)[k] = b.data[Place(t, k)]
  BY ContentsIs
<1>10. /\ Contents(new) \in Seq(Nat) /\ Len(Contents(new)) = m - n
       /\ \A k \in 1 .. m - n : Contents(new)[k] = b.data[Place(Place(t, n + 1), k)]
  BY <1>5, <1>6, <1>8, ContentsIs
<1> DEFINE s == SubSeq(Contents(b), n + 1, m)
<1>11. /\ s \in Seq(Nat) /\ Len(s) = m - n
       /\ \A k \in 1 .. m - n : s[k] = Contents(b)[n + k]
  <2>1. \A i \in n + 1 .. m : Contents(b)[i] \in Nat
    BY <1>1, <1>9, ElementOfSeq
  <2>2. /\ s \in Seq(Nat) /\ Len(s) = IF n + 1 <= m THEN m - (n + 1) + 1 ELSE 0
        /\ \A k \in 1 .. m - (n + 1) + 1 : s[k] = Contents(b)[n + 1 + k - 1]
    BY <2>1, <1>1, SubSeqProperties
  <2>3. m - (n + 1) + 1 = m - n /\ n + 1 \in Nat
        /\ \A k \in 1 .. m - n : n + 1 + k - 1 = n + k
    BY <1>1
  <2> HIDE DEF s, m
  <2>4. Len(s) = m - n
    BY <2>2, <1>1
  <2>5. \A k \in 1 .. m - n : s[k] = Contents(b)[n + k]
    BY <2>2, <2>3
  <2> QED BY <2>2, <2>4, <2>5
<1> HIDE DEF s, m, t
<1>12. \A k \in 1 .. m - n : Contents(new)[k] = s[k]
  <2> SUFFICES ASSUME NEW k \in 1 .. m - n PROVE Contents(new)[k] = s[k]
    OBVIOUS
  <2>1. k \in 1 .. RingSize /\ n + k <= RingSize /\ n + k \in 1 .. m
    BY <1>1
  <2>2. Place(Place(t, n + 1), k) = Place(t, n + k)
    BY <2>1, <1>1, PlaceOn, Zenon
  <2> QED BY <2>1, <2>2, <1>9, <1>10, <1>11
<1>13. Contents(new) = s
  BY <1>10, <1>11, <1>12, SeqEqual
<1>14. Consume(b, n) = new
  BY DEF Consume, new
<1> QED BY <1>8, <1>13, <1>14 DEF s, m

\* A new ring is sound and empty.
LEMMA EmptyIs == Sound(EmptyRing) /\ Size(EmptyRing) = 0 /\ Contents(EmptyRing) = <<>>
<1>1. RingSize \in Nat \ {0} /\ CounterSize \in Nat \ {0}
  BY Rounds
<1>2. EmptyRing \in WlBuffer /\ EmptyRing.head = 0 /\ EmptyRing.tail = 0
  BY <1>1 DEF EmptyRing, WlBuffer
<1>3. Size(EmptyRing) = 0
  BY <1>1, <1>2, SizeIs
<1> QED BY <1>1, <1>2, <1>3 DEF Sound, Contents

\* The memory of struct wl_buffer is a queue: what is put, or read from a socket,
\* comes behind the rest, what is copied or sent is what was put first, and what is
\* consumed goes from the front, wherever the counters are (wl_buffer_put,
\* _put_iov, _get_iov and _copy of wayland/connection.c).
THEOREM RingIsQueue ==
    ASSUME NEW b, Sound(b)
    PROVE  /\ Contents(b) \in Seq(Nat) /\ Len(Contents(b)) = Size(b)
           /\ Copy(b, Size(b)) = Contents(b)
           /\ Size(b) > 0 => Gathered(b, GetIov(b)) = Contents(b)
           /\ \A n \in 0 .. Size(b) :
                 /\ Copy(b, n) = SubSeq(Contents(b), 1, n)
                 /\ Sound(Consume(b, n))
                 /\ Contents(Consume(b, n)) = SubSeq(Contents(b), n + 1, Size(b))
           /\ \A items \in Seq(Nat) : Size(b) + Len(items) <= RingSize =>
                 /\ Sound(Put(b, items))
                 /\ Contents(Put(b, items)) = Contents(b) \o items
                 /\ Size(b) < RingSize =>
                       /\ Sound(ReadInto(b, items))
                       /\ Contents(ReadInto(b, items)) = Contents(b) \o items
<1>1. Contents(b) \in Seq(Nat) /\ Len(Contents(b)) = Size(b)
  BY ContentsIs
<1>2. Copy(b, Size(b)) = Contents(b)
  BY CopyAll
<1>3. Size(b) > 0 => Gathered(b, GetIov(b)) = Contents(b)
  BY GetIovGives
<1>4. \A n \in 0 .. Size(b) :
         /\ Copy(b, n) = SubSeq(Contents(b), 1, n)
         /\ Sound(Consume(b, n))
         /\ Contents(Consume(b, n)) = SubSeq(Contents(b), n + 1, Size(b))
  BY CopyGives, ConsumeDrops
<1>5. ASSUME NEW items \in Seq(Nat), Size(b) + Len(items) <= RingSize
      PROVE  /\ Sound(Put(b, items))
             /\ Contents(Put(b, items)) = Contents(b) \o items
             /\ Size(b) < RingSize =>
                   /\ Sound(ReadInto(b, items))
                   /\ Contents(ReadInto(b, items)) = Contents(b) \o items
  <2>1. Sound(Put(b, items)) /\ Contents(Put(b, items)) = Contents(b) \o items
    BY <1>5, PutAppends
  <2>2. ASSUME Size(b) < RingSize
        PROVE  /\ Sound(ReadInto(b, items))
               /\ Contents(ReadInto(b, items)) = Contents(b) \o items
    BY <1>5, <2>2, ReadAppends
  <2> QED BY <2>1, <2>2
<1> QED BY <1>1, <1>2, <1>3, <1>4, <1>5

-----------------------------------------------------------------------------
(* Sending. *)

GivenWord == [word : Nat, fds : Seq(Nat)]
SentWord == [word : Nat, fds : Nat]

\* States of a flush.
Sending == [ok : BOOLEAN, out : {b \in WlBuffer : Size(b) <= RingSize},
            fds : {b \in WlBuffer : Size(b) <= RingSize}, toB : Seq(SentWord),
            fdsToB : Seq(Nat), unread : 0 .. SockCap, open : SUBSET Nat]

\* The descriptors that ride on a sendmsg from ring fds.
Riding(fds) == SubSeq(Contents(fds), 1, Least(Size(fds), MaxFds))

\* The socket took the first n words, with all descriptors that can ride on them.
Taken(c, d, n) ==
    /\ n <= SockCap - c.unread /\ d.unread = c.unread + n
    /\ d.ok => n = Size(c.out)
    /\ Contents(d.out) = SubSeq(Contents(c.out), n + 1, Size(c.out))
    /\ Size(d.out) = Size(c.out) - n
    /\ Size(d.fds) = 0
    /\ d.open = c.open \ Range(Riding(c.fds))
    /\ d.fdsToB = c.fdsToB \o Riding(c.fds)
    /\ d.toB = c.toB \o [k \in 1 .. n |-> [word |-> Contents(c.out)[k], fds |-> Len(d.fdsToB)]]

\* What may come of a flush of c.
Flushing(c, d) ==
    \/ Size(c.out) = 0 /\ d = c
    \/ Size(c.out) > 0 /\ d = [c EXCEPT !.ok = FALSE]
    \/ \E n \in 1 .. Size(c.out) : Taken(c, d, n)

\* Descriptors are dropped all together.
LEMMA Dropping ==
    ASSUME NEW b, Sound(b)
    PROVE  Sound(Dropped(b)) /\ Size(Dropped(b)) = 0 /\ Contents(Dropped(b)) = <<>>
<1>1. Size(b) \in 0 .. Size(b) /\ Size(b) - Size(b) = 0
  BY HeadPlace
<1>2. Sound(Dropped(b)) /\ Size(Dropped(b)) = Size(b) - Size(b)
  BY <1>1, ConsumeDrops DEF Dropped
<1>3. Size(Dropped(b)) = 0
  BY <1>1, <1>2
<1>4. Contents(Dropped(b)) = <<>>
  BY <1>3 DEF Contents
<1> QED BY <1>2, <1>3, <1>4

\* A flush closes those that ride, the destruction all.
LEMMA Closing ==
    ASSUME NEW b, Sound(b)
    PROVE  /\ Closed(b, MaxFds) = Range(Riding(b)) /\ Closed(b, 0) = Range(Contents(b))
           /\ \A left : BuildCmsg(b, left) = Riding(b)
           /\ Riding(b) \in Seq(Nat)
           /\ Len(Riding(b)) = Least(Size(b), MaxFds)
           /\ \A k \in 1 .. Len(Riding(b)) : Riding(b)[k] = Contents(b)[k]
<1> DEFINE m == Least(Size(b), MaxFds)
<1>1. /\ Size(b) \in Nat /\ MaxFds \in Nat /\ MaxFds > 0 /\ m \in 0 .. Size(b)
      /\ Least(MaxFds, Size(b)) = m
  BY HeadPlace, RingsAssumption DEF Least
<1>2. Copy(b, m) = Riding(b)
  <2> HIDE DEF m
  <2>1. Copy(b, m) = SubSeq(Contents(b), 1, m)
    BY <1>1, CopyGives
  <2> QED BY <2>1 DEF Riding, m
<1>3. Closed(b, MaxFds) = Range(Riding(b))
  BY <1>1, <1>2 DEF Closed
<1>4. Closed(b, 0) = Range(Contents(b))
  BY CopyAll DEF Closed
<1>5. \A left : BuildCmsg(b, left) = Riding(b)
  BY <1>2 DEF BuildCmsg
<1>6. /\ Riding(b) \in Seq(Nat) /\ Len(Riding(b)) = m
      /\ \A k \in 1 .. m : Riding(b)[k] = Contents(b)[k]
  <2>1. Contents(b) \in Seq(Nat) /\ Len(Contents(b)) = Size(b)
    BY ContentsIs
  <2>2. \A k \in 1 .. m : Contents(b)[k] \in Nat
    BY <2>1, <1>1, ElementOfSeq
  <2> HIDE DEF m
  <2>3. LET s == SubSeq(Contents(b), 1, m)
        IN  s \in Seq(Nat) /\ Len(s) = m /\ \A k \in 1 .. m : s[k] = Contents(b)[k]
    BY <2>2, <1>1, SubSeqProperties
  <2> QED BY <2>3 DEF Riding, m
<1> QED BY <1>3, <1>4, <1>5, <1>6

\* wl_connection_flush, whatever its state.
LEMMA FlushIs ==
    ASSUME NEW c \in Sending, NEW d \in Flush(c)
    PROVE  d \in Sending /\ Flushing(c, d)
<1> DEFINE words == Gathered(c.out, GetIov(c.out))
           n == Least(Len(words), SockCap - c.unread)
           rides == BuildCmsg(c.fds, Size(c.out) - n)
           failed == [c EXCEPT !.ok = FALSE]
           added == [k \in 1 .. n |-> [word |-> words[k], fds |-> Len(c.fdsToB) + Len(rides)]]
           flushed == [c EXCEPT
               !.ok = n = Size(c.out), !.out = Consume(c.out, n),
               !.fds = Dropped(c.fds), !.open = c.open \ Closed(c.fds, MaxFds),
               !.toB = c.toB \o added,
               !.fdsToB = c.fdsToB \o rides, !.unread = c.unread + n]
<1>1. /\ Sound(c.out) /\ Sound(c.fds) /\ c.toB \in Seq(SentWord) /\ c.fdsToB \in Seq(Nat)
      /\ c.unread \in 0 .. SockCap /\ c.open \subseteq Nat
  BY DEF Sending, Sound
<1>2. Size(c.out) \in Nat
  BY <1>1, HeadPlace
<1>3. CASE Size(c.out) = 0
  <2>1. d = c
    BY <1>3 DEF Flush
  <2> QED BY <2>1, <1>3 DEF Flushing
<1>4. CASE Size(c.out) > 0
  <2>1. words = Contents(c.out) /\ words \in Seq(Nat) /\ Len(words) = Size(c.out)
    BY <1>1, <1>4, GetIovGives, ContentsIs
  <2>2. SockCap \in Nat
    BY RingsAssumption
  <2>3. n \in 0 .. Size(c.out) /\ n <= SockCap - c.unread /\ n \in Nat
    <3> HIDE DEF words
    <3> QED BY <2>1, <2>2, <1>1, <1>2 DEF Least
  <2>4. failed \in Sending
    BY DEF Sending
  <2>5. d = failed \/ (n # 0 /\ d = flushed)
    <3>1. d \in IF Size(c.out) = 0 THEN {c} ELSE IF n = 0 THEN {failed}
                ELSE IF Garbage \in Range(rides) THEN {failed, flushed} ELSE {flushed}
      BY DEF Flush
    <3> HIDE DEF n, failed, flushed, rides
    <3> QED BY <3>1, <1>4
  <2>6. CASE d = failed
    BY <2>4, <2>6, <1>4 DEF Flushing
  <2>7. CASE n # 0 /\ d = flushed
    <3>1. rides = Riding(c.fds) /\ rides \in Seq(Nat) /\ Closed(c.fds, MaxFds) = Range(rides)
      BY <1>1, Closing
    <3>2. Sound(Dropped(c.fds)) /\ Size(Dropped(c.fds)) = 0
      BY <1>1, Dropping
    <3>3. /\ Sound(Consume(c.out, n)) /\ Size(Consume(c.out, n)) = Size(c.out) - n
          /\ Contents(Consume(c.out, n)) = SubSeq(Contents(c.out), n + 1, Size(c.out))
      <4> HIDE DEF n
      <4> QED BY <1>1, <2>3, ConsumeDrops
    <3> HIDE DEF words, n, rides
    <3>4. c.fdsToB \o rides \in Seq(Nat) /\ Len(c.fdsToB \o rides) = Len(c.fdsToB) + Len(rides)
      BY <1>1, <3>1, ConcatProperties
    <3>5. Len(c.fdsToB \o rides) \in Nat
      BY <3>4, LenProperties
    <3>6. added = [k \in 1 .. n |-> [word |-> Contents(c.out)[k], fds |-> Len(c.fdsToB \o rides)]]
      BY <2>1, <3>4
    <3>7. added \in Seq(SentWord)
      <4>1. \A k \in 1 .. n : Contents(c.out)[k] \in Nat
        BY <2>1, <2>3, <1>2, ElementOfSeq
      <4>2. \A k \in 1 .. n : [word |-> Contents(c.out)[k], fds |-> Len(c.fdsToB \o rides)] \in SentWord
        BY <4>1, <3>5 DEF SentWord
      <4> DEFINE e(k) == [word |-> Contents(c.out)[k], fds |-> Len(c.fdsToB \o rides)]
      <4> HIDE DEF e
      <4>3. [k \in 1 .. n |-> e(k)] \in Seq(SentWord)
        BY <4>2, <2>3 DEF e
      <4> QED BY <4>3, <3>6 DEF e
    <3> HIDE DEF added
    <3>8. c.toB \o added \in Seq(SentWord)
      BY <1>1, <3>7, ConcatProperties
    <3>9. c.unread + n \in 0 .. SockCap
      BY <1>1, <2>2, <2>3
    <3>10. flushed \in Sending
      BY <1>1, <3>2, <3>3, <3>4, <3>8, <3>9 DEF Sending, Sound
    <3>11. /\ flushed.ok = (n = Size(c.out)) /\ flushed.out = Consume(c.out, n)
           /\ flushed.fds = Dropped(c.fds) /\ flushed.open = c.open \ Closed(c.fds, MaxFds)
           /\ flushed.toB = c.toB \o added /\ flushed.fdsToB = c.fdsToB \o rides
           /\ flushed.unread = c.unread + n
      BY DEF Sending
    <3> HIDE DEF flushed
    <3>12. Taken(c, flushed, n)
      BY <3>1, <3>2, <3>3, <3>6, <3>11, <2>3 DEF Taken
    <3>13. n \in 1 .. Size(c.out)
      BY <2>3, <2>7, <1>2
    <3> QED BY <3>10, <3>12, <3>13, <2>7 DEF Flushing
  <2> QED BY <2>5, <2>6, <2>7
<1> QED BY <1>2, <1>3, <1>4

\* A flush that succeeds leaves the ring empty, and no descriptors if it did a thing.
LEMMA FlushOk ==
    ASSUME NEW c \in Sending, NEW d \in Sending, Flushing(c, d), d.ok
    PROVE  Size(d.out) = 0 /\ (d = c \/ (Size(d.fds) = 0 /\ \E n \in 1 .. Size(c.out) : Taken(c, d, n)))
<1>1. Size(c.out) \in Nat
  BY HeadPlace DEF Sending, Sound
<1>2. CASE Size(c.out) = 0 /\ d = c
  BY <1>2
<1>3. CASE d = [c EXCEPT !.ok = FALSE]
  <2>1. d.ok = FALSE
    BY <1>3 DEF Sending
  <2> QED BY <2>1
<1>4. ASSUME NEW n \in 1 .. Size(c.out), Taken(c, d, n)
      PROVE  Size(d.out) = 0 /\ Size(d.fds) = 0
  <2>1. n = Size(c.out)
    BY <1>4, Zenon DEF Taken
  <2>2. Size(d.out) = Size(c.out) - n /\ Size(d.fds) = 0
    BY <1>4 DEF Taken
  <2> QED BY <1>1, <2>1, <2>2
<1> QED BY <1>2, <1>3, <1>4 DEF Flushing

\* Words were put behind those of r, or were not.
Written(r, d, words) ==
    \/ /\ r.ok /\ Size(r.out) + Len(words) <= RingSize
       /\ d = [r EXCEPT !.out = Put(@, words)]
       /\ Size(d.out) = Size(r.out) + Len(words)
       /\ Contents(d.out) = Contents(r.out) \o words
    \/ d = [r EXCEPT !.ok = FALSE]

\* wl_connection_write, whatever its state.
LEMMA WriteIs ==
    ASSUME NEW c \in Sending, c.ok, NEW words \in Seq(Nat), NEW d \in Write(c, words)
    PROVE  d \in Sending /\ \E r \in Sending : (r = c \/ Flushing(c, r)) /\ Written(r, d, words)
<1> DEFINE room == IF Size(c.out) + Len(words) > RingSize THEN Flush(c) ELSE {c}
           put(r) == [r EXCEPT !.out = Put(@, words)]
           failed(r) == [r EXCEPT !.ok = FALSE]
<1>1. PICK r \in room : d = IF r.ok /\ CanPut(words) THEN put(r) ELSE failed(r)
  <2>1. d \in {IF r.ok /\ CanPut(words) THEN put(r) ELSE failed(r) : r \in room}
    BY Zenon DEF Write
  <2> HIDE DEF room, put, failed
  <2> QED BY <2>1
<1>2. Sound(c.out) /\ Size(c.out) \in Nat /\ Len(words) \in Nat /\ RingSize \in Nat
  BY HeadPlace, LenProperties, Rounds DEF Sending, Sound
<1>3. /\ r \in Sending /\ (r = c \/ Flushing(c, r))
      /\ (r.ok /\ CanPut(words) => Size(r.out) + Len(words) <= RingSize)
  <2>1. CASE Size(c.out) + Len(words) > RingSize
    <3>1. r \in Flush(c)
      BY <2>1
    <3>2. r \in Sending /\ Flushing(c, r)
      BY <3>1, FlushIs
    <3>3. r.ok => Size(r.out) = 0
      BY <3>2, FlushOk
    <3> QED BY <3>2, <3>3, <1>2 DEF CanPut
  <2>2. CASE ~(Size(c.out) + Len(words) > RingSize)
    <3>1. r = c
      BY <2>2
    <3> QED BY <3>1, <2>2, <1>2
  <2> QED BY <2>1, <2>2
<1> HIDE DEF room
<1>4. CASE r.ok /\ CanPut(words)
  <2>1. Sound(r.out)
    BY <1>3 DEF Sending, Sound
  <2>2. /\ Sound(Put(r.out, words)) /\ Size(Put(r.out, words)) = Size(r.out) + Len(words)
        /\ Contents(Put(r.out, words)) = Contents(r.out) \o words
    BY <1>3, <1>4, <2>1, PutAppends
  <2>3. d = put(r) /\ put(r) \in Sending /\ put(r).out = Put(r.out, words)
    BY <1>1, <1>3, <1>4, <2>2 DEF Sending, Sound
  <2>4. Written(r, d, words)
    BY <1>3, <1>4, <2>2, <2>3 DEF Written
  <2> QED BY <1>3, <2>3, <2>4
<1>5. CASE ~(r.ok /\ CanPut(words))
  <2>1. d = failed(r) /\ failed(r) \in Sending
    BY <1>1, <1>3, <1>5 DEF Sending
  <2>2. Written(r, d, words)
    BY <2>1 DEF Written
  <2> QED BY <1>3, <2>1, <2>2
<1> QED BY <1>4, <1>5

-----------------------------------------------------------------------------
(* No ring holds more than it can. *)

\* Rings are sound and everything is of its type; the ring a read goes to is empty,
\* and so is that for descriptors when some are to be copied into it.
Fit ==
    /\ Sound(in) /\ Sound(fds_in) /\ Sound(out) /\ Sound(fds_out) /\ Size(in) = 0
    /\ toB \in Seq(SentWord) /\ fdsToB \in Seq(Nat) /\ buffer \in Seq(Nat)
    /\ phase \in Phase /\ unread \in 0 .. SockCap /\ sends \in 0 .. MaxSends
    /\ held \in BOOLEAN /\ open \subseteq Nat
    /\ phase \in {"idle", "read"} => Size(fds_out) = 0
    /\ phase \in {"read", "loop"} => buffer # <<>>

\* Descriptors passed up to the wth word, of the words d is about.
Upto(d, w) == IF w = 0 THEN 0 ELSE d[w]

\* Descriptors m + 1 .. n, in order.
FromTo(m, n) == [j \in 1 .. n - m |-> m + j]

\* Words still in A's socket are the last it wrote, the descriptors with each are
\* those it passed with it, and only such as came are open.
Numbered ==
    /\ due \in Seq(Nat)
    /\ \A v, w \in 0 .. Len(due) : v <= w => Upto(due, v) <= Upto(due, w)
    /\ inq \in Seq(GivenWord) /\ Len(inq) <= Len(due)
    /\ \A k \in 1 .. Len(inq) :
          LET w == Len(due) - Len(inq) + k
          IN  inq[k].word = w /\ inq[k].fds = FromTo(Upto(due, w - 1), Upto(due, w))
    /\ open \subseteq 1 .. Upto(due, Len(due) - Len(inq))

LEMMA UnflushedIs ==
    ASSUME Fit
    PROVE  /\ Unflushed \in Sending /\ Unflushed.ok /\ Unflushed.out = out
           /\ Unflushed.fds = fds_out /\ Unflushed.toB = toB /\ Unflushed.fdsToB = fdsToB
           /\ Unflushed.unread = unread /\ Unflushed.open = open
BY DEF Fit, Unflushed, Sending, Sound

\* No flush and no write opens a descriptor.
LEMMA OpensNothing ==
    ASSUME NEW c \in Sending, NEW d \in Sending
    PROVE  /\ Flushing(c, d) => d.open \subseteq c.open
           /\ \A words : Written(c, d, words) => d.open = c.open
<1>1. ASSUME Flushing(c, d) PROVE d.open \subseteq c.open
  BY <1>1 DEF Flushing, Taken, Sending
<1>2. ASSUME NEW words, Written(c, d, words) PROVE d.open = c.open
  BY <1>2 DEF Written, Sending
<1> QED BY <1>1, <1>2

\* After wl_connection_destroy no descriptor is in a ring.
LEMMA TeardownIs ==
    ASSUME Fit, NEW c \in Sending, Teardown(c)
    PROVE  /\ phase' = "gone" /\ buffer' = <<>>
           /\ Sound(fds_in') /\ Size(fds_in') = 0 /\ Contents(fds_in') = <<>>
           /\ Sound(fds_out') /\ Size(fds_out') = 0 /\ Contents(fds_out') = <<>>
           /\ open' = (c.open \ Range(Contents(c.fds))) \ Range(Contents(fds_in))
<1>1. Sound(c.fds) /\ Sound(fds_in)
  BY DEF Fit, Sending, Sound
<1>2. /\ Closed(c.fds, 0) = Range(Contents(c.fds))
      /\ Closed(fds_in, 0) = Range(Contents(fds_in))
  BY <1>1, Closing
<1>3. /\ fds_out' = Dropped(c.fds) /\ fds_in' = Dropped(fds_in)
      /\ phase' = "gone" /\ buffer' = <<>>
      /\ open' = (c.open \ Closed(c.fds, 0)) \ Closed(fds_in, 0)
  BY DEF Teardown
<1>4. /\ Sound(fds_in') /\ Size(fds_in') = 0 /\ Contents(fds_in') = <<>>
      /\ Sound(fds_out') /\ Size(fds_out') = 0 /\ Contents(fds_out') = <<>>
  BY <1>1, <1>3, Dropping
<1> QED BY <1>2, <1>3, <1>4

\* What one recvmsg gives: n words and the descriptors with them.
Receiving(n, fds) ==
    /\ n \in 1 .. Len(inq) /\ n <= RingSize
    /\ fds = Lot(SubSeq(inq, 1, n)) /\ \A j, k \in Carriers(SubSeq(inq, 1, n)) : j = k
    /\ inq' = SubSeq(inq, n + 1, Len(inq))
    /\ \/ /\ Size(fds_in) + Len(fds) <= RingSize
          /\ fds_in' = Put(fds_in, fds) /\ open' = open \cup Range(fds)
          /\ buffer' = [k \in 1 .. n |-> inq[k].word]
          /\ Sound(in') /\ Size(in') = 0
          /\ phase' = "read" /\ UNCHANGED fds_out
       \/ Teardown(Unflushed) /\ UNCHANGED in

\* The descriptors of a stream are a sequence.
LEMMA LotIs ==
    ASSUME NEW s \in Seq(GivenWord)
    PROVE  Lot(s) \in Seq(Nat)
<1>1. CASE Carriers(s) = {}
  BY <1>1 DEF Lot
<1>2. CASE Carriers(s) # {}
  <2> DEFINE k == CHOOSE k \in Carriers(s) : TRUE
  <2>1. k \in Carriers(s)
    BY <1>2
  <2>2. Lot(s) = s[k].fds
    BY <1>2 DEF Lot
  <2> HIDE DEF k
  <2>3. k \in 1 .. Len(s)
    BY <2>1, LenProperties DEF Carriers
  <2>4. s[k] \in GivenWord
    BY <2>3, ElementOfSeq
  <2> QED BY <2>2, <2>4 DEF GivenWord
<1> QED BY <1>1, <1>2

\* wl_connection_read leaves its ring empty: all that came is copied off it.
LEMMA ReceiveIs ==
    ASSUME Fit, Numbered, Receive
    PROVE  \E n \in Nat, fds \in Seq(Nat) : Receiving(n, fds)
<1>1. /\ Sound(in) /\ Size(in) = 0 /\ Sound(fds_in) /\ RingSize \in Nat \ {0}
      /\ inq \in Seq(GivenWord)
  BY Rounds DEF Fit, Numbered
<1>2. Len(Places(PutIov(in))) = RingSize
  <2>1. Size(in) < RingSize
    BY <1>1
  <2>2. Len(Places(PutIov(in))) = RingSize - Size(in)
    BY <1>1, <2>1, FreeGoes DEF Going
  <2> QED BY <2>2, <1>1
<1> DEFINE taken(n) == SubSeq(inq, 1, n)
           fds(n) == Lot(taken(n))
           read(n) == ReadInto(in, [k \in 1 .. n |-> taken(n)[k].word])
<1>3. PICK n \in 1 .. Least(RingSize, Len(inq)) :
         /\ \A j, k \in Carriers(taken(n)) : j = k
         /\ inq' = SubSeq(inq, n + 1, Len(inq))
         /\ IF Len(fds(n)) <= RingSize - Size(fds_in)
            THEN /\ fds_in' = Put(fds_in, fds(n)) /\ open' = open \cup Range(fds(n))
                 /\ buffer' = Copy(read(n), Size(read(n)))
                 /\ in' = Consume(read(n), Size(read(n)))
                 /\ phase' = "read" /\ UNCHANGED fds_out
            ELSE Teardown(Unflushed) /\ UNCHANGED in
  BY <1>2 DEF Receive
<1>4. Len(inq) \in Nat /\ n \in Nat /\ n \in 1 .. Len(inq) /\ n <= RingSize
  BY <1>1, <1>3, LenProperties DEF Least
<1>5. /\ taken(n) \in Seq(GivenWord) /\ Len(taken(n)) = n
      /\ \A k \in 1 .. n : taken(n)[k] = inq[k]
  <2>1. \A k \in 1 .. n : inq[k] \in GivenWord
    BY <1>1, <1>4, ElementOfSeq
  <2> HIDE DEF taken
  <2>2. /\ SubSeq(inq, 1, n) \in Seq(GivenWord) /\ Len(SubSeq(inq, 1, n)) = n
        /\ \A k \in 1 .. n : SubSeq(inq, 1, n)[k] = inq[k]
    BY <2>1, <1>4, SubSeqProperties
  <2> QED BY <2>2 DEF taken
<1> DEFINE words == [k \in 1 .. n |-> taken(n)[k].word]
<1>6. words = [k \in 1 .. n |-> inq[k].word] /\ words \in Seq(Nat) /\ Len(words) = n
  <2>1. \A k \in 1 .. n : inq[k].word \in Nat
    <3>1. \A k \in 1 .. n : inq[k] \in GivenWord
      BY <1>1, <1>4, ElementOfSeq
    <3> QED BY <3>1 DEF GivenWord
  <2> DEFINE e(k) == inq[k].word
  <2>2. words = [k \in 1 .. n |-> e(k)]
    BY <1>5
  <2>3. \A k \in 1 .. n : e(k) \in Nat
    BY <2>1
  <2> HIDE DEF e, words
  <2>4. [k \in 1 .. n |-> e(k)] \in Seq(Nat) /\ Len([k \in 1 .. n |-> e(k)]) = n
    BY <2>3, <1>4
  <2> QED BY <2>2, <2>4 DEF e
<1> HIDE DEF words
<1>7. /\ Sound(ReadInto(in, words)) /\ Size(ReadInto(in, words)) = n
      /\ Contents(ReadInto(in, words)) = words
  <2>1. Size(in) < RingSize /\ Size(in) + Len(words) <= RingSize /\ Size(in) + Len(words) = n
    BY <1>1, <1>4, <1>6
  <2>2. Contents(in) = <<>>
    BY <1>1 DEF Contents
  <2>3. <<>> \o words = words
    BY <1>6, ConcatEmptySeq
  <2>4. /\ Sound(ReadInto(in, words)) /\ Size(ReadInto(in, words)) = Size(in) + Len(words)
        /\ Contents(ReadInto(in, words)) = Contents(in) \o words
    BY <1>1, <1>6, <2>1, ReadAppends, Zenon
  <2> QED BY <2>1, <2>2, <2>3, <2>4
<1>8. read(n) = ReadInto(in, words)
  BY DEF words
<1> HIDE DEF read
<1>9. /\ Copy(read(n), Size(read(n))) = words
      /\ Sound(Consume(read(n), Size(read(n)))) /\ Size(Consume(read(n), Size(read(n)))) = 0
  <2>1. Sound(read(n)) /\ Contents(read(n)) = words
    BY <1>7, <1>8
  <2>2. Copy(read(n), Size(read(n))) = words
    BY <2>1, CopyAll
  <2> QED BY <2>1, <2>2, Dropping DEF Dropped
<1>10. fds(n) \in Seq(Nat)
  BY <1>5, LotIs
<1> DEFINE lot == fds(n)
<1>11. lot \in Seq(Nat) /\ lot = Lot(SubSeq(inq, 1, n))
  BY <1>10
<1>12. Size(fds_in) + Len(lot) <= RingSize <=> Len(lot) <= RingSize - Size(fds_in)
  <2>1. Len(lot) \in Nat
    BY <1>11, LenProperties
  <2>2. Size(fds_in) \in Int /\ RingSize \in Int
    BY <1>1, HeadPlace
  <2> HIDE DEF lot
  <2> QED BY <2>1, <2>2
<1> HIDE DEF lot
<1>13. Receiving(n, lot)
  BY <1>3, <1>4, <1>6, <1>9, <1>11, <1>12 DEF Receiving, lot
<1> QED BY <1>4, <1>11, <1>13

\* Words were written to what is not flushed yet.
Putting(w, words) ==
    \E r \in Sending : (r = Unflushed \/ Flushing(Unflushed, r)) /\ Written(r, w, words)

\* A message of k words was written and flushed.
Forwarding(k, w, c) ==
    /\ k \in 1 .. Len(buffer) /\ Putting(w, SubSeq(buffer, 1, k))
    /\ IF w.ok THEN Flushing(w, c) ELSE c = w
    /\ Sent(c)
    /\ IF c.ok THEN /\ buffer' = SubSeq(buffer, k + 1, Len(buffer))
                    /\ phase' = IF k = Len(buffer) THEN "idle" ELSE "loop"
                    /\ fds_out' = c.fds /\ open' = c.open /\ UNCHANGED fds_in
       ELSE Teardown(c)

LEMMA ForwardIs ==
    ASSUME Fit, Forward
    PROVE  /\ phase = "loop" /\ UNCHANGED <<in, inq, due, sends, held>>
           /\ \E k \in Nat, w \in Sending, c \in Sending : Forwarding(k, w, c)
<1>1. PICK k \in 1 .. Len(buffer) :
         \E w \in Write(Unflushed, SubSeq(buffer, 1, k)) :
            \E c \in IF w.ok THEN Flush(w) ELSE {w} :
               /\ Sent(c)
               /\ IF c.ok THEN /\ buffer' = SubSeq(buffer, k + 1, Len(buffer))
                               /\ phase' = IF k = Len(buffer) THEN "idle" ELSE "loop"
                               /\ fds_out' = c.fds /\ open' = c.open /\ UNCHANGED fds_in
                  ELSE Teardown(c)
  BY DEF Forward
<1>2. PICK w \in Write(Unflushed, SubSeq(buffer, 1, k)) :
         \E c \in IF w.ok THEN Flush(w) ELSE {w} :
            /\ Sent(c)
            /\ IF c.ok THEN /\ buffer' = SubSeq(buffer, k + 1, Len(buffer))
                            /\ phase' = IF k = Len(buffer) THEN "idle" ELSE "loop"
                            /\ fds_out' = c.fds /\ open' = c.open /\ UNCHANGED fds_in
               ELSE Teardown(c)
  BY <1>1
<1>3. PICK c \in IF w.ok THEN Flush(w) ELSE {w} :
         /\ Sent(c)
         /\ IF c.ok THEN /\ buffer' = SubSeq(buffer, k + 1, Len(buffer))
                         /\ phase' = IF k = Len(buffer) THEN "idle" ELSE "loop"
                         /\ fds_out' = c.fds /\ open' = c.open /\ UNCHANGED fds_in
            ELSE Teardown(c)
  BY <1>2
<1>4. SubSeq(buffer, 1, k) \in Seq(Nat)
  <2>1. buffer \in Seq(Nat) /\ Len(buffer) \in Nat
    BY LenProperties DEF Fit
  <2>2. \A i \in 1 .. k : buffer[i] \in Nat
    BY <2>1, ElementOfSeq
  <2> QED BY <2>1, <2>2, SubSeqProperties
<1>5. w \in Sending /\ Putting(w, SubSeq(buffer, 1, k))
  BY <1>4, UnflushedIs, WriteIs DEF Putting
<1>6. c \in Sending /\ IF w.ok THEN Flushing(w, c) ELSE c = w
  BY <1>3, <1>5, FlushIs
<1>7. k \in Nat /\ Forwarding(k, w, c)
  BY <1>3, <1>5, <1>6 DEF Forwarding
<1>8. phase = "loop" /\ UNCHANGED <<in, inq, due, sends, held>>
  BY DEF Forward
<1> QED BY <1>5, <1>6, <1>7, <1>8

LEMMA InjectIs ==
    ASSUME Fit, Inject
    PROVE  /\ phase \in {"idle", "loop"} /\ sends < MaxSends /\ sends' = sends + 1
           /\ UNCHANGED <<in, fds_in, inq, buffer, phase, due, held>>
           /\ \E c \in Sending : /\ Putting(c, <<Injected>>) /\ Sent(c)
                                 /\ fds_out' = c.fds /\ open' = c.open
<1>1. PICK c \in Write(Unflushed, <<Injected>>) : Sent(c) /\ fds_out' = c.fds /\ open' = c.open
  BY DEF Inject
<1>2. <<Injected>> \in Seq(Nat)
  BY DEF Injected
<1>3. c \in Sending /\ Putting(c, <<Injected>>)
  BY <1>2, UnflushedIs, WriteIs DEF Putting
<1> QED BY <1>1, <1>3 DEF Inject

\* The descriptors at pointer data + tail of a ring.
Pointed(b) == [k \in 1 .. Size(b) |-> Raw(b, b.tail + k - 1)]

LEMMA CopyFdsIs ==
    ASSUME Fit, CopyFds
    PROVE  /\ phase = "read" /\ phase' = "loop" /\ UNCHANGED <<in, inq, buffer, due, sends>>
           /\ Pointed(fds_in) \in Seq(Nat) /\ Len(Pointed(fds_in)) = Size(fds_in)
           /\ \E c \in Sending :
                 /\ c = Unflushed \/ Flushing(Unflushed, c)
                 /\ c.ok => Size(c.fds) = 0
                 /\ Sent(c) /\ open' = c.open
                 /\ IF c.ok THEN /\ fds_out' = Put(c.fds, Pointed(fds_in))
                                 /\ fds_in' = Consume(fds_in, Size(fds_in)) /\ UNCHANGED held
                    ELSE held' = TRUE /\ fds_out' = c.fds /\ UNCHANGED fds_in
<1> DEFINE size == Size(fds_in)
           fds == [k \in 1 .. size |-> Raw(fds_in, fds_in.tail + k - 1)]
<1>1. PICK c \in IF size > 0 /\ size + Size(fds_out) >= MaxFds
                    THEN Flush(Unflushed) ELSE {Unflushed} :
         /\ Sent(c) /\ open' = c.open
         /\ IF c.ok THEN /\ fds_out' = Put(c.fds, fds)
                         /\ fds_in' = Consume(fds_in, size) /\ UNCHANGED held
            ELSE held' = TRUE /\ fds_out' = c.fds /\ UNCHANGED fds_in
  BY DEF CopyFds
<1>2. c \in Sending /\ (c = Unflushed \/ Flushing(Unflushed, c)) /\ (c.ok => Size(c.fds) = 0)
  <2>1. Unflushed \in Sending /\ Size(Unflushed.fds) = 0
    BY UnflushedIs DEF CopyFds, Fit
  <2>2. CASE c = Unflushed
    BY <2>1, <2>2
  <2>3. CASE c \in Flush(Unflushed)
    <3>1. c \in Sending /\ Flushing(Unflushed, c)
      BY <2>1, <2>3, FlushIs
    <3>2. c.ok => c = Unflushed \/ Size(c.fds) = 0
      BY <2>1, <3>1, FlushOk
    <3> QED BY <2>1, <3>1, <3>2
  <2> QED BY <2>2, <2>3
<1>3. Sound(fds_in) /\ size \in Nat /\ RingSize \in Nat
  BY HeadPlace, Rounds DEF Fit
<1>4. fds \in Seq(Nat) /\ Len(fds) = size
  <2>1. \A k \in 1 .. size : Raw(fds_in, fds_in.tail + k - 1) \in Nat
    <3>1. fds_in.data \in [0 .. RingSize - 1 -> Nat] /\ fds_in.tail \in Nat
      BY <1>3 DEF Sound, WlBuffer
    <3>2. \A k \in 1 .. size : fds_in.tail + k - 1 \in Nat
      BY <1>3, <3>1
    <3>3. \A at \in Nat : Raw(fds_in, at) \in Nat
      BY <3>1, <1>3 DEF Raw, Garbage
    <3> QED BY <3>2, <3>3
  <2> DEFINE e(k) == Raw(fds_in, fds_in.tail + k - 1)
  <2> HIDE DEF e, size
  <2>2. [k \in 1 .. size |-> e(k)] \in Seq(Nat) /\ Len([k \in 1 .. size |-> e(k)]) = size
    BY <2>1, <1>3 DEF e
  <2> QED BY <2>2 DEF e
<1>5. Pointed(fds_in) = fds
  BY DEF Pointed
<1>6. phase = "read" /\ phase' = "loop" /\ UNCHANGED <<in, inq, buffer, due, sends>>
  BY DEF CopyFds
<1> HIDE DEF fds
<1> QED BY <1>1, <1>2, <1>4, <1>5, <1>6

\* A message that was forwarded took all descriptors along, and left the ring empty.
LEMMA ForwardFlushes ==
    ASSUME Fit, NEW k \in Nat, NEW w \in Sending, NEW c \in Sending, Forwarding(k, w, c), c.ok
    PROVE  /\ Size(c.out) = 0 /\ Size(c.fds) = 0
           /\ w.ok /\ \E n \in 1 .. Size(w.out) : Taken(w, c, n)
<1> DEFINE words == SubSeq(buffer, 1, k)
<1>1. w.ok /\ Flushing(w, c)
  BY DEF Forwarding
<1>2. PICK r \in Sending : Written(r, w, words)
  BY DEF Forwarding, Putting
<1>3. ~(w = [r EXCEPT !.ok = FALSE])
  BY <1>1, <1>2 DEF Sending
<1>4. Len(words) = k /\ k > 0
  <2>1. buffer \in Seq(Nat) /\ Len(buffer) \in Nat /\ k \in 1 .. Len(buffer)
    BY LenProperties DEF Fit, Forwarding
  <2>2. \A i \in 1 .. k : buffer[i] \in Nat
    BY <2>1, ElementOfSeq
  <2> QED BY <2>1, <2>2, SubSeqProperties
<1> HIDE DEF words
<1>5. Size(w.out) = Size(r.out) + k
  BY <1>2, <1>3, <1>4 DEF Written
<1>6. Size(r.out) \in Nat
  BY <1>2, HeadPlace DEF Sending, Sound
<1>7. Size(w.out) > 0
  BY <1>4, <1>5, <1>6
<1>8. Size(c.out) = 0 /\ (c = w \/ (Size(c.fds) = 0 /\ \E n \in 1 .. Size(w.out) : Taken(w, c, n)))
  BY <1>1, FlushOk
<1> QED BY <1>1, <1>7, <1>8

\* The words of n of what came.
LEMMA WordsAre ==
    ASSUME NEW q, NEW n \in Nat, \A k \in 1 .. n : q[k].word \in Nat
    PROVE  [k \in 1 .. n |-> q[k].word] \in Seq(Nat) /\ Len([k \in 1 .. n |-> q[k].word]) = n
<1> DEFINE words == [k \in 1 .. n |-> q[k].word]
<1>1. words \in [1 .. n -> Nat]
  OBVIOUS
<1>2. words \in Seq(Nat)
  BY <1>1
<1>3. Len(words) = n
  <2>1. DOMAIN words = 1 .. n
    OBVIOUS
  <2>2. DOMAIN words = 1 .. Len(words) /\ Len(words) \in Nat
    BY <1>2, LenProperties
  <2> HIDE DEF words
  <2> QED BY <2>1, <2>2
<1> QED BY <1>2, <1>3

\* No step makes a ring hold more than it can.
LEMMA FitStep ==
    ASSUME Fit, Numbered, Next
    PROVE  Fit'
<1> USE DEF Phase
<1>1. /\ Sound(in) /\ Sound(fds_in) /\ Sound(out) /\ Sound(fds_out) /\ Size(in) = 0
      /\ toB \in Seq(SentWord) /\ fdsToB \in Seq(Nat) /\ buffer \in Seq(Nat)
      /\ phase \in Phase /\ unread \in 0 .. SockCap /\ sends \in 0 .. MaxSends
      /\ held \in BOOLEAN /\ open \subseteq Nat
      /\ phase \in {"idle", "read"} => Size(fds_out) = 0
      /\ phase \in {"read", "loop"} => buffer # <<>>
  BY DEF Fit
<1>2. CASE PeerWrite
  BY <1>1, <1>2 DEF PeerWrite, Fit
<1>3. CASE PeerRead
  BY <1>1, <1>3, RingsAssumption DEF PeerRead, Fit
<1>4. CASE Receive
  <2>1. PICK n \in Nat, fds \in Seq(Nat) : Receiving(n, fds)
    BY <1>4, ReceiveIs
  <2>2. UNCHANGED <<out, toB, fdsToB, unread, due, sends, held>> /\ phase = "idle"
    BY <1>4 DEF Receive
  <2>3. CASE /\ Size(fds_in) + Len(fds) <= RingSize
             /\ fds_in' = Put(fds_in, fds) /\ open' = open \cup Range(fds)
             /\ buffer' = [k \in 1 .. n |-> inq[k].word]
             /\ Sound(in') /\ Size(in') = 0
             /\ phase' = "read" /\ UNCHANGED fds_out
    <3>1. Sound(fds_in')
      BY <1>1, <2>3, PutAppends
    <3>2. Range(fds) \subseteq Nat
      BY DEF Range
    <3>3. buffer' \in Seq(Nat) /\ buffer' # <<>>
      <4>1. \A k \in 1 .. n : inq[k].word \in Nat
        <5>1. \A k \in 1 .. n : inq[k] \in GivenWord
          BY <2>1, ElementOfSeq DEF Receiving, Numbered
        <5> QED BY <5>1 DEF GivenWord
      <4>2. buffer' = [k \in 1 .. n |-> inq[k].word]
        BY <2>3
      <4>3. [k \in 1 .. n |-> inq[k].word] \in Seq(Nat) /\ Len([k \in 1 .. n |-> inq[k].word]) = n
        BY <4>1, WordsAre
      <4>4. n # 0
        BY <2>1 DEF Receiving
      <4> QED BY <4>2, <4>3, <4>4
    <3> QED BY <1>1, <2>2, <2>3, <3>1, <3>2, <3>3 DEF Fit
  <2>4. CASE Teardown(Unflushed) /\ UNCHANGED in
    <3>1. /\ phase' = "gone" /\ buffer' = <<>> /\ Sound(fds_in') /\ Sound(fds_out')
          /\ open' \subseteq Unflushed.open
      BY <2>4, UnflushedIs, TeardownIs
    <3>2. open' \subseteq open
      BY <3>1, UnflushedIs
    <3> QED BY <1>1, <2>2, <2>4, <3>1, <3>2 DEF Fit
  <2> QED BY <2>1, <2>3, <2>4 DEF Receiving
<1> DEFINE good(c) == /\ Sound(c.out) /\ Sound(c.fds) /\ c.toB \in Seq(SentWord)
                      /\ c.fdsToB \in Seq(Nat) /\ c.unread \in 0 .. SockCap /\ c.open \subseteq Nat
<1>5. \A c \in Sending : good(c)
  BY DEF Sending, Sound
<1> HIDE DEF good
<1>6. CASE CopyFds
  <2>1. /\ phase = "read" /\ phase' = "loop" /\ UNCHANGED <<in, inq, buffer, due, sends>>
        /\ Pointed(fds_in) \in Seq(Nat) /\ Len(Pointed(fds_in)) = Size(fds_in)
    BY <1>6, CopyFdsIs
  <2>2. PICK c \in Sending :
           /\ c.ok => Size(c.fds) = 0
           /\ Sent(c) /\ open' = c.open
           /\ IF c.ok THEN /\ fds_out' = Put(c.fds, Pointed(fds_in))
                           /\ fds_in' = Consume(fds_in, Size(fds_in)) /\ UNCHANGED held
              ELSE held' = TRUE /\ fds_out' = c.fds /\ UNCHANGED fds_in
    BY <1>6, CopyFdsIs
  <2>3. Sound(c.fds)
    BY <1>5 DEF good
  <2>4. Sound(fds_in') /\ Sound(fds_out')
    <3>1. CASE c.ok
      <4>1. Size(c.fds) + Len(Pointed(fds_in)) <= RingSize
        BY <1>1, <2>1, <2>2, <3>1, HeadPlace
      <4>2. Sound(Put(c.fds, Pointed(fds_in)))
        BY <2>1, <2>3, <4>1, PutAppends
      <4>3. Sound(Consume(fds_in, Size(fds_in)))
        BY <1>1, Dropping DEF Dropped
      <4> QED BY <2>2, <3>1, <4>2, <4>3
    <3>2. CASE ~c.ok
      BY <1>1, <2>2, <2>3, <3>2
    <3> QED BY <3>1, <3>2
  <2>5. held' \in BOOLEAN
    BY <1>1, <2>2
  <2>6. Sound(out') /\ toB' \in Seq(SentWord) /\ fdsToB' \in Seq(Nat) /\ unread' \in 0 .. SockCap
        /\ open' \subseteq Nat
    BY <1>5, <2>2 DEF Sent, good
  <2> QED BY <1>1, <2>1, <2>4, <2>5, <2>6 DEF Fit
<1>7. CASE Forward
  <2>1. phase = "loop" /\ UNCHANGED <<in, inq, due, sends, held>>
    BY <1>7, ForwardIs
  <2>2. PICK k \in Nat, w \in Sending, c \in Sending : Forwarding(k, w, c)
    BY <1>7, ForwardIs
  <2>3. /\ Sound(out') /\ toB' \in Seq(SentWord) /\ fdsToB' \in Seq(Nat)
        /\ unread' \in 0 .. SockCap /\ c.open \subseteq Nat
    BY <1>5, <2>2 DEF Sent, good, Forwarding
  <2>4. CASE c.ok
    <3>1. Size(c.fds) = 0
      BY <2>2, <2>4, ForwardFlushes
    <3>2. buffer' \in Seq(Nat) /\ (k # Len(buffer) => buffer' # <<>>)
      <4> DEFINE n == Len(buffer)
                 s == SubSeq(buffer, k + 1, n)
      <4>1. k \in 1 .. n /\ n \in Nat /\ \A i \in 1 .. n : buffer[i] \in Nat
        BY <1>1, <2>2, LenProperties, ElementOfSeq DEF Forwarding
      <4>2. \A i \in k + 1 .. n : buffer[i] \in Nat
        BY <4>1
      <4>3. s \in Seq(Nat) /\ Len(s) = IF k + 1 <= n THEN n - (k + 1) + 1 ELSE 0
        BY <4>1, <4>2, SubSeqProperties
      <4>4. buffer' = s
        BY <2>2, <2>4 DEF Forwarding
      <4> HIDE DEF n, s
      <4>5. k # n => Len(s) # 0
        BY <4>1, <4>3
      <4> QED BY <4>3, <4>4, <4>5 DEF n
    <3>3. /\ fds_out' = c.fds /\ open' = c.open /\ UNCHANGED fds_in
          /\ phase' = IF k = Len(buffer) THEN "idle" ELSE "loop"
      BY <2>2, <2>4 DEF Forwarding
    <3>4. Sound(fds_out') /\ Size(fds_out') = 0
      BY <1>5, <2>2, <3>1, <3>3 DEF good
    <3> QED BY <1>1, <2>1, <2>3, <3>2, <3>3, <3>4 DEF Fit
  <2>5. CASE ~c.ok
    <3>1. Teardown(c)
      BY <2>2, <2>5 DEF Forwarding
    <3>2. /\ phase' = "gone" /\ buffer' = <<>> /\ Sound(fds_in') /\ Sound(fds_out')
          /\ open' \subseteq c.open
      BY <2>2, <3>1, TeardownIs
    <3> QED BY <1>1, <2>1, <2>3, <3>2 DEF Fit
  <2> QED BY <2>4, <2>5
<1>8. CASE Inject
  <2>1. /\ UNCHANGED <<in, fds_in, inq, buffer, phase, due, held>>
        /\ phase \in {"idle", "loop"} /\ sends < MaxSends /\ sends' = sends + 1
    BY <1>8, InjectIs
  <2>2. PICK c \in Sending : /\ Putting(c, <<Injected>>) /\ Sent(c)
                             /\ fds_out' = c.fds /\ open' = c.open
    BY <1>8, InjectIs
  <2>3. phase = "idle" => Size(c.fds) = 0
    <3>1. PICK r \in Sending : (r = Unflushed \/ Flushing(Unflushed, r)) /\ Written(r, c, <<Injected>>)
      BY <2>2 DEF Putting
    <3>2. c.fds = r.fds
      BY <3>1 DEF Written, Sending
    <3>3. Unflushed.fds = fds_out
      BY UnflushedIs
    <3>4. Flushing(Unflushed, r) => r.fds = fds_out \/ Size(r.fds) = 0
      BY <3>1, <3>3, UnflushedIs DEF Flushing, Taken, Sending
    <3> QED BY <1>1, <3>1, <3>2, <3>3, <3>4
  <2>4. /\ Sound(out') /\ Sound(fds_out') /\ toB' \in Seq(SentWord) /\ fdsToB' \in Seq(Nat)
        /\ unread' \in 0 .. SockCap /\ open' \subseteq Nat
    BY <1>5, <2>2 DEF Sent, good
  <2>5. sends' \in 0 .. MaxSends
    BY <1>1, <2>1, RingsAssumption
  <2> QED BY <1>1, <2>1, <2>2, <2>3, <2>4, <2>5 DEF Fit
<1>9. CASE Destroy
  <2>1. Teardown(Unflushed) /\ UNCHANGED <<in, out, inq, toB, fdsToB, unread, due, sends, held>>
    BY <1>9 DEF Destroy
  <2>2. /\ phase' = "gone" /\ buffer' = <<>> /\ Sound(fds_in') /\ Sound(fds_out')
        /\ open' \subseteq Unflushed.open
    BY <2>1, UnflushedIs, TeardownIs
  <2>3. open' \subseteq open
    BY <2>2, UnflushedIs
  <2> QED BY <1>1, <2>1, <2>2, <2>3 DEF Fit
<1> QED BY <1>2, <1>3, <1>4, <1>6, <1>7, <1>8, <1>9 DEF Next

-----------------------------------------------------------------------------
(* Words and descriptors keep their numbers. *)

\* A set of numbers has a least one.
LEMMA LeastOf ==
    ASSUME NEW S \in SUBSET Nat, S # {}
    PROVE  \E x \in S : \A y \in S : x <= y
<1> DEFINE R == {ss \in Nat \X Nat : ss[1] < ss[2]}
<1>1. IsWellFoundedOn(R, Nat)
  BY NatLessThanWellFounded, Zenon DEF OpToRel
<1>2. PICK x \in S : \A y \in S : ~(<<y, x>> \in R)
  <2> HIDE DEF R
  <2> QED BY <1>1, WFMin
<1>3. \A y \in S : x <= y
  <2> SUFFICES ASSUME NEW y \in S PROVE x <= y
    OBVIOUS
  <2>1. y \in Nat /\ x \in Nat
    OBVIOUS
  <2>2. y < x => <<y, x>> \in R
    BY <2>1
  <2> HIDE DEF R
  <2>3. ~(y < x)
    BY <1>2, <2>2
  <2> QED BY <2>1, <2>3
<1> QED BY <1>3

\* What changes at no word in between is the same at both ends.
LEMMA Steady ==
    ASSUME NEW d, NEW a \in Nat, NEW b \in Nat, a <= b,
           \A w \in a + 1 .. b : Upto(d, w) = Upto(d, w - 1)
    PROVE  Upto(d, b) = Upto(d, a)
<1> SUFFICES ASSUME Upto(d, b) # Upto(d, a) PROVE FALSE
  OBVIOUS
<1> DEFINE S == {w \in Nat : a <= w /\ w <= b /\ Upto(d, w) # Upto(d, a)}
<1>1. b \in S
  OBVIOUS
<1>2. PICK x \in S : \A y \in S : x <= y
  <2>1. S \in SUBSET Nat /\ S # {}
    BY <1>1
  <2> HIDE DEF S
  <2> QED BY <2>1, LeastOf
<1>3. x \in Nat /\ a < x /\ x <= b /\ Upto(d, x) # Upto(d, a)
  <2>1. x \in Nat /\ a <= x /\ x <= b /\ Upto(d, x) # Upto(d, a)
    OBVIOUS
  <2>2. x # a
    BY <2>1
  <2> QED BY <2>1, <2>2
<1>4. Upto(d, x) = Upto(d, x - 1)
  BY <1>3
<1>5. x - 1 \in S
  BY <1>3, <1>4
<1> QED BY <1>2, <1>3, <1>5

\* What a read gets of descriptors are those passed with the words it gets.
LEMMA LotIsNext ==
    ASSUME Numbered, NEW n \in 1 .. Len(inq), \A j, k \in Carriers(SubSeq(inq, 1, n)) : j = k
    PROVE  LET w == Len(due) - Len(inq)
           IN  Lot(SubSeq(inq, 1, n)) = FromTo(Upto(due, w), Upto(due, w + n))
<1> DEFINE w == Len(due) - Len(inq)
           taken == SubSeq(inq, 1, n)
<1>1. /\ Len(due) \in Nat /\ Len(inq) \in Nat /\ w \in Nat /\ n \in Nat /\ w + n <= Len(due)
      /\ due \in Seq(Nat)
  BY LenProperties DEF Numbered
<1>2. /\ taken \in Seq(GivenWord) /\ Len(taken) = n
      /\ \A k \in 1 .. n : taken[k] = inq[k]
  <2>1. \A k \in 1 .. n : inq[k] \in GivenWord
    BY <1>1, ElementOfSeq DEF Numbered
  <2> QED BY <2>1, <1>1, SubSeqProperties
<1>3. \A v \in 0 .. Len(due) : Upto(due, v) \in Nat
  <2>1. \A v \in 1 .. Len(due) : due[v] \in Nat
    BY <1>1, ElementOfSeq
  <2> QED BY <2>1, <1>1 DEF Upto
<1>4. \A k \in 1 .. n : taken[k].fds = FromTo(Upto(due, w + k - 1), Upto(due, w + k))
  <2>1. \A k \in 1 .. Len(inq) : inq[k].fds = FromTo(Upto(due, w + k - 1), Upto(due, w + k))
    BY DEF Numbered
  <2>2. 1 .. n \subseteq 1 .. Len(inq)
    BY <1>1
  <2> SUFFICES ASSUME NEW k \in 1 .. n
               PROVE  taken[k].fds = FromTo(Upto(due, w + k - 1), Upto(due, w + k))
    OBVIOUS
  <2>3. taken[k] = inq[k]
    BY <1>2
  <2> HIDE DEF w, taken
  <2> QED BY <2>1, <2>2, <2>3
<1>5. DOMAIN taken = 1 .. n
  BY <1>2, LenProperties
<1> HIDE DEF w, taken
<1>6. \A k \in 1 .. n : k \notin Carriers(taken) => Upto(due, w + k) = Upto(due, w + k - 1)
  <2> SUFFICES ASSUME NEW k \in 1 .. n, k \notin Carriers(taken)
               PROVE  Upto(due, w + k) = Upto(due, w + k - 1)
    OBVIOUS
  <2> DEFINE p == Upto(due, w + k - 1)
             q == Upto(due, w + k)
  <2>1. taken[k].fds = <<>> /\ taken[k].fds = FromTo(p, q)
    BY <1>4, <1>5 DEF Carriers
  <2>2. p \in Nat /\ q \in Nat /\ p <= q
    <3>1. w + k - 1 \in 0 .. Len(due) /\ w + k \in 0 .. Len(due) /\ w + k - 1 <= w + k
      BY <1>1
    <3> QED BY <3>1, <1>3 DEF Numbered
  <2> HIDE DEF p, q
  <2>3. ~(p < q)
    <3> SUFFICES ASSUME p < q PROVE FALSE
      OBVIOUS
    <3>1. 1 \in DOMAIN FromTo(p, q)
      BY <2>2 DEF FromTo
    <3> QED BY <2>1, <3>1
  <2>4. p = q
    BY <2>2, <2>3
  <2> QED BY <2>4 DEF p, q
<1>7. CASE Carriers(taken) = {}
  <2>1. \A v \in w + 1 .. w + n : Upto(due, v) = Upto(due, v - 1)
    <3> SUFFICES ASSUME NEW v \in w + 1 .. w + n PROVE Upto(due, v) = Upto(due, v - 1)
      OBVIOUS
    <3> DEFINE k == v - w
    <3>1. k \in 1 .. n /\ w + k = v /\ w + k - 1 = v - 1
      BY <1>1
    <3> HIDE DEF k
    <3> QED BY <3>1, <1>6, <1>7
  <2>2. Upto(due, w + n) = Upto(due, w)
    <3>1. w + n \in Nat /\ w <= w + n
      BY <1>1
    <3> QED BY <2>1, <3>1, <1>1, Steady
  <2>3. Lot(taken) = <<>>
    BY <1>7 DEF Lot
  <2>4. Upto(due, w) \in Nat
    BY <1>1, <1>3
  <2>5. FromTo(Upto(due, w), Upto(due, w + n)) = <<>>
    BY <2>2, <2>4 DEF FromTo
  <2> QED BY <2>3, <2>5 DEF taken, w
<1>8. CASE Carriers(taken) # {}
  <2> DEFINE c == CHOOSE k \in Carriers(taken) : TRUE
  <2>1. c \in Carriers(taken) /\ Lot(taken) = taken[c].fds
    BY <1>8 DEF Lot
  <2> HIDE DEF c
  <2>2. c \in 1 .. n
    BY <2>1, <1>5 DEF Carriers
  <2>3. \A k \in 1 .. n : k # c => Upto(due, w + k) = Upto(due, w + k - 1)
    BY <1>6, <2>1 DEF taken
  <2>4. Upto(due, w + c - 1) = Upto(due, w)
    <3>1. \A v \in w + 1 .. w + c - 1 : Upto(due, v) = Upto(due, v - 1)
      <4> SUFFICES ASSUME NEW v \in w + 1 .. w + c - 1 PROVE Upto(due, v) = Upto(due, v - 1)
        OBVIOUS
      <4> DEFINE k == v - w
      <4>1. k \in 1 .. n /\ k # c /\ w + k = v /\ w + k - 1 = v - 1
        BY <1>1, <2>2
      <4> HIDE DEF k
      <4> QED BY <4>1, <2>3
    <3>2. w + c - 1 \in Nat /\ w <= w + c - 1
      BY <1>1, <2>2
    <3> DEFINE e == w + c - 1
    <3>3. e \in Nat /\ w <= e /\ \A v \in w + 1 .. e : Upto(due, v) = Upto(due, v - 1)
      BY <3>1, <3>2
    <3> HIDE DEF e
    <3>4. Upto(due, e) = Upto(due, w)
      BY <3>3, <1>1, Steady
    <3> QED BY <3>4 DEF e
  <2>5. Upto(due, w + n) = Upto(due, w + c)
    <3> DEFINE a == w + c
               b == w + n
    <3>1. a \in Nat /\ b \in Nat /\ a <= b
      BY <1>1, <2>2
    <3>2. \A v \in a + 1 .. b : Upto(due, v) = Upto(due, v - 1)
      <4> SUFFICES ASSUME NEW v \in a + 1 .. b PROVE Upto(due, v) = Upto(due, v - 1)
        OBVIOUS
      <4> DEFINE k == v - w
      <4>1. k \in 1 .. n /\ k # c /\ w + k = v /\ w + k - 1 = v - 1
        BY <1>1, <2>2
      <4> HIDE DEF k
      <4> QED BY <4>1, <2>3
    <3> HIDE DEF a, b
    <3>3. Upto(due, b) = Upto(due, a)
      BY <3>1, <3>2, Steady
    <3> QED BY <3>3 DEF a, b
  <2>6. taken[c].fds = FromTo(Upto(due, w + c - 1), Upto(due, w + c))
    BY <1>4, <2>2
  <2> QED BY <2>1, <2>4, <2>5, <2>6 DEF taken, w
<1> QED BY <1>7, <1>8

LEMMA UptoIsNat ==
    ASSUME Numbered
    PROVE  /\ Len(due) \in Nat /\ Len(inq) \in Nat /\ Len(due) - Len(inq) \in Nat
           /\ \A v \in 0 .. Len(due) : Upto(due, v) \in Nat
           /\ Given = Upto(due, Len(due)) /\ Come = Upto(due, Len(due) - Len(inq))
           /\ Come \in Nat /\ Given \in Nat /\ Come <= Given
<1>1. Len(due) \in Nat /\ Len(inq) \in Nat /\ Len(due) - Len(inq) \in Nat /\ due \in Seq(Nat)
  BY LenProperties DEF Numbered
<1>2. \A v \in 0 .. Len(due) : Upto(due, v) \in Nat
  <2>1. \A v \in 1 .. Len(due) : due[v] \in Nat
    BY <1>1, ElementOfSeq
  <2> QED BY <2>1, <1>1 DEF Upto
<1>3. Given = Upto(due, Len(due)) /\ Come = Upto(due, Len(due) - Len(inq))
  <2>1. due = <<>> <=> Len(due) = 0
    BY <1>1, EmptySeq
  <2> QED BY <2>1 DEF Given, Come, Upto, Last
<1>4. Upto(due, Len(due) - Len(inq)) <= Upto(due, Len(due))
  <2>1. /\ Len(due) - Len(inq) \in 0 .. Len(due) /\ Len(due) \in 0 .. Len(due)
        /\ Len(due) - Len(inq) <= Len(due)
    BY <1>1
  <2> QED BY <2>1 DEF Numbered
<1> QED BY <1>1, <1>2, <1>3, <1>4

\* What A writes comes last, and is numbered on.
LEMMA PeerWriteIs ==
    ASSUME Numbered, PeerWrite
    PROVE  \E n \in 1 .. 2, f \in Nat :
              /\ f <= MaxFds
              /\ due' \in Seq(Nat) /\ Len(due') = Len(due) + n
              /\ \A v \in 0 .. Len(due) : Upto(due', v) = Upto(due, v)
              /\ \A v \in Len(due) + 1 .. Len(due) + n : Upto(due', v) = Given + f
              /\ inq' \in Seq(GivenWord) /\ Len(inq') = Len(inq) + n
              /\ \A k \in 1 .. Len(inq) : inq'[k] = inq[k]
              /\ \A k \in 1 .. n :
                    /\ inq'[Len(inq) + k].word = Len(due) + k
                    /\ inq'[Len(inq) + k].fds = IF k = 1 THEN FromTo(Given, Given + f) ELSE <<>>
<1> DEFINE fds(f, k) == IF k = 1 THEN [j \in 1 .. f |-> Given + j] ELSE <<>>
           added(n, f) == [k \in 1 .. n |-> [word |-> Len(due) + k, fds |-> fds(f, k)]]
           more(n, f) == [k \in 1 .. n |-> Given + f]
<1>1. PICK n \in 1 .. 2, f \in 0 .. MaxFds : inq' = inq \o added(n, f) /\ due' = due \o more(n, f)
  BY DEF PeerWrite
<1>2. /\ Len(due) \in Nat /\ Len(inq) \in Nat /\ Given \in Nat /\ f \in Nat
      /\ due \in Seq(Nat) /\ inq \in Seq(GivenWord) /\ f <= MaxFds
      /\ \A v \in 0 .. Len(due) : Upto(due, v) \in Nat
  BY UptoIsNat, RingsAssumption DEF Numbered
<1>3. FromTo(Given, Given + f) = [j \in 1 .. f |-> Given + j]
  <2>1. (Given + f) - Given = f
    BY <1>2
  <2>2. FromTo(Given, Given + f) = [j \in 1 .. (Given + f) - Given |-> Given + j]
    BY Zenon DEF FromTo
  <2> QED BY <2>1, <2>2, Zenon
<1>4. [j \in 1 .. f |-> Given + j] \in Seq(Nat)
  BY <1>2
<1>5. added(n, f) \in Seq(GivenWord) /\ Len(added(n, f)) = n
  <2>1. \A k \in 1 .. n : [word |-> Len(due) + k, fds |-> fds(f, k)] \in GivenWord
    BY <1>2, <1>4 DEF GivenWord
  <2> DEFINE e(k) == [word |-> Len(due) + k, fds |-> fds(f, k)]
  <2> HIDE DEF fds
  <2> HIDE DEF e
  <2>2. [k \in 1 .. n |-> e(k)] \in Seq(GivenWord) /\ Len([k \in 1 .. n |-> e(k)]) = n
    BY <2>1 DEF e
  <2> QED BY <2>2 DEF e
<1>6. more(n, f) \in Seq(Nat) /\ Len(more(n, f)) = n
  BY <1>2
<1> DEFINE a == added(n, f)
           m == more(n, f)
<1>7. \A k \in 1 .. n : /\ a[k].word = Len(due) + k /\ a[k].fds = fds(f, k)
                        /\ m[k] = Given + f
  OBVIOUS
<1>8. a \in Seq(GivenWord) /\ Len(a) = n /\ m \in Seq(Nat) /\ Len(m) = n
      /\ inq' = inq \o a /\ due' = due \o m
  BY <1>1, <1>5, <1>6
<1> HIDE DEF a, m
<1>9. /\ due \o m \in Seq(Nat) /\ Len(due \o m) = Len(due) + n
      /\ \A v \in 1 .. Len(due) + n :
            (due \o m)[v] = IF v <= Len(due) THEN due[v] ELSE m[v - Len(due)]
  BY <1>2, <1>8, ConcatProperties
<1>10. /\ inq \o a \in Seq(GivenWord) /\ Len(inq \o a) = Len(inq) + n
       /\ \A k \in 1 .. Len(inq) + n :
             (inq \o a)[k] = IF k <= Len(inq) THEN inq[k] ELSE a[k - Len(inq)]
  BY <1>2, <1>8, ConcatProperties
<1>11. \A v \in 0 .. Len(due) : Upto(due', v) = Upto(due, v)
  BY <1>2, <1>8, <1>9 DEF Upto
<1>12. \A v \in Len(due) + 1 .. Len(due) + n : Upto(due', v) = Given + f
  <2> SUFFICES ASSUME NEW v \in Len(due) + 1 .. Len(due) + n PROVE Upto(due', v) = Given + f
    OBVIOUS
  <2> DEFINE k == v - Len(due)
  <2>1. k \in 1 .. n /\ v \in 1 .. Len(due) + n /\ ~(v <= Len(due)) /\ v # 0
    BY <1>2
  <2>2. due'[v] = m[k]
    BY <2>1, <1>8, <1>9
  <2> HIDE DEF k
  <2> QED BY <2>1, <2>2, <1>7 DEF Upto
<1>13. \A k \in 1 .. Len(inq) : inq'[k] = inq[k]
  BY <1>2, <1>8, <1>10
<1>14. \A k \in 1 .. n : inq'[Len(inq) + k] = a[k]
  <2> SUFFICES ASSUME NEW k \in 1 .. n PROVE inq'[Len(inq) + k] = a[k]
    OBVIOUS
  <2>1. Len(inq) + k \in 1 .. Len(inq) + n /\ ~(Len(inq) + k <= Len(inq)) /\ Len(inq) + k - Len(inq) = k
    BY <1>2
  <2> QED BY <2>1, <1>8, <1>10
<1>15. \A k \in 1 .. n :
          /\ inq'[Len(inq) + k].word = Len(due) + k
          /\ inq'[Len(inq) + k].fds = IF k = 1 THEN FromTo(Given, Given + f) ELSE <<>>
  BY <1>3, <1>7, <1>14
<1> HIDE DEF added, more, fds
<1> QED BY <1>2, <1>8, <1>9, <1>10, <1>11, <1>12, <1>13, <1>15

\* Only a read opens descriptors or takes words from A's socket.
LEMMA OthersOpenNothing ==
    ASSUME Fit, PeerRead \/ CopyFds \/ Forward \/ Inject \/ Destroy
    PROVE  open' \subseteq open /\ inq' = inq /\ due' = due
<1>1. Unflushed \in Sending /\ Unflushed.open = open
  BY UnflushedIs
<1>2. CASE PeerRead
  BY <1>2 DEF PeerRead
<1>3. CASE CopyFds
  <2>1. inq' = inq /\ due' = due
    BY <1>3, CopyFdsIs
  <2>2. PICK c \in Sending : (c = Unflushed \/ Flushing(Unflushed, c)) /\ open' = c.open
    BY <1>3, CopyFdsIs
  <2>3. Flushing(Unflushed, c) => c.open \subseteq open
    BY <1>1, OpensNothing
  <2> QED BY <1>1, <2>1, <2>2, <2>3
<1>4. ASSUME NEW w \in Sending, NEW words, Putting(w, words)
      PROVE  w.open \subseteq open
  <2>1. PICK r \in Sending : (r = Unflushed \/ Flushing(Unflushed, r)) /\ Written(r, w, words)
    BY <1>4 DEF Putting
  <2>2. Flushing(Unflushed, r) => r.open \subseteq open
    BY <1>1, OpensNothing
  <2>3. w.open = r.open
    BY <2>1, OpensNothing
  <2> QED BY <1>1, <2>1, <2>2, <2>3
<1>5. CASE Forward
  <2>1. inq' = inq /\ due' = due
    BY <1>5, ForwardIs
  <2>2. PICK k \in Nat, w \in Sending, c \in Sending : Forwarding(k, w, c)
    BY <1>5, ForwardIs
  <2>3. c = w \/ Flushing(w, c)
    BY <2>2 DEF Forwarding
  <2>4. w.open \subseteq open
    BY <2>2, <1>4 DEF Forwarding
  <2>5. c.open \subseteq open
    <3>1. Flushing(w, c) => c.open \subseteq w.open
      BY OpensNothing
    <3> QED BY <2>3, <2>4, <3>1
  <2>6. open' \subseteq c.open
    <3>1. CASE c.ok
      BY <2>2, <3>1 DEF Forwarding
    <3>2. CASE ~c.ok
      <4>1. Teardown(c)
        BY <2>2, <3>2 DEF Forwarding
      <4> QED BY <4>1, TeardownIs
    <3> QED BY <3>1, <3>2
  <2> QED BY <2>1, <2>5, <2>6
<1>6. CASE Inject
  <2>1. inq' = inq /\ due' = due
    BY <1>6, InjectIs
  <2>2. PICK c \in Sending : Putting(c, <<Injected>>) /\ open' = c.open
    BY <1>6, InjectIs
  <2> QED BY <2>1, <2>2, <1>4
<1>7. CASE Destroy
  <2>1. Teardown(Unflushed) /\ inq' = inq /\ due' = due
    BY <1>7 DEF Destroy
  <2>2. open' \subseteq open
    BY <2>1, <1>1, TeardownIs
  <2> QED BY <2>1, <2>2
<1> QED BY <1>2, <1>3, <1>5, <1>6, <1>7

\* The numbers stay what they are.
LEMMA NumberedStep ==
    ASSUME Fit, Numbered, Next
    PROVE  Numbered'
<1> DEFINE w0 == Len(due) - Len(inq)
<1>1. /\ Len(due) \in Nat /\ Len(inq) \in Nat /\ w0 \in Nat
      /\ \A v \in 0 .. Len(due) : Upto(due, v) \in Nat
      /\ Given = Upto(due, Len(due)) /\ Come = Upto(due, w0)
      /\ Come \in Nat /\ Given \in Nat /\ Come <= Given
  BY UptoIsNat
<1>2. CASE PeerRead \/ CopyFds \/ Forward \/ Inject \/ Destroy
  <2>1. open' \subseteq open /\ inq' = inq /\ due' = due
    BY <1>2, OthersOpenNothing
  <2> QED BY <2>1 DEF Numbered
<1>3. CASE PeerWrite
  <2>1. PICK n \in 1 .. 2, f \in Nat :
           /\ due' \in Seq(Nat) /\ Len(due') = Len(due) + n
           /\ \A v \in 0 .. Len(due) : Upto(due', v) = Upto(due, v)
           /\ \A v \in Len(due) + 1 .. Len(due) + n : Upto(due', v) = Given + f
           /\ inq' \in Seq(GivenWord) /\ Len(inq') = Len(inq) + n
           /\ \A k \in 1 .. Len(inq) : inq'[k] = inq[k]
           /\ \A k \in 1 .. n :
                 /\ inq'[Len(inq) + k].word = Len(due) + k
                 /\ inq'[Len(inq) + k].fds = IF k = 1 THEN FromTo(Given, Given + f) ELSE <<>>
    BY <1>3, PeerWriteIs
  <2>2. open' = open
    BY <1>3 DEF PeerWrite
  <2>3. Len(due') - Len(inq') = w0 /\ w0 \in 0 .. Len(due) /\ Len(inq') <= Len(due')
    <3>1. /\ Len(due) \in Nat /\ Len(inq) \in Nat /\ Len(due) - Len(inq) \in Nat /\ n \in Nat
          /\ Len(due') = Len(due) + n /\ Len(inq') = Len(inq) + n
      BY <1>1, <2>1
    <3> QED BY <3>1
  <2>4. open' \subseteq 1 .. Upto(due', Len(due') - Len(inq'))
    <3>1. Upto(due', w0) = Upto(due, w0)
      BY <2>1, <2>3
    <3> QED BY <2>2, <2>3, <3>1 DEF Numbered
  <2>5. \A u, v \in 0 .. Len(due') : u <= v => Upto(due', u) <= Upto(due', v)
    <3> SUFFICES ASSUME NEW u \in 0 .. Len(due'), NEW v \in 0 .. Len(due'), u <= v
                 PROVE  Upto(due', u) <= Upto(due', v)
      OBVIOUS
    <3>1. CASE v <= Len(due)
      <4>1. u \in 0 .. Len(due) /\ v \in 0 .. Len(due)
        BY <3>1, <1>1, <2>1
      <4>2. Upto(due, u) <= Upto(due, v)
        BY <4>1 DEF Numbered
      <4> QED BY <4>1, <4>2, <2>1
    <3>2. CASE ~(v <= Len(due))
      <4>1. v \in Len(due) + 1 .. Len(due) + n
        BY <3>2, <1>1, <2>1
      <4>2. Upto(due', v) = Given + f
        BY <4>1, <2>1
      <4>3. CASE u <= Len(due)
        <5>1. u \in 0 .. Len(due) /\ Len(due) \in 0 .. Len(due)
          BY <4>3, <1>1, <2>1
        <5>2. Upto(due, u) <= Given
          BY <5>1, <4>3, <1>1 DEF Numbered
        <5>3. Upto(due', u) = Upto(due, u) /\ Upto(due, u) \in Nat
          BY <5>1, <1>1, <2>1
        <5> QED BY <4>2, <5>2, <5>3, <1>1
      <4>4. CASE ~(u <= Len(due))
        <5>1. u \in Len(due) + 1 .. Len(due) + n
          BY <4>4, <1>1, <2>1
        <5>2. Upto(due', u) = Given + f
          BY <5>1, <2>1
        <5> QED BY <4>2, <5>2, <1>1
      <4> QED BY <4>3, <4>4
    <3> QED BY <3>1, <3>2
  <2>6. \A k \in 1 .. Len(inq') :
           LET w == Len(due') - Len(inq') + k
           IN  inq'[k].word = w /\ inq'[k].fds = FromTo(Upto(due', w - 1), Upto(due', w))
    <3> SUFFICES ASSUME NEW k \in 1 .. Len(inq')
                 PROVE  inq'[k].word = w0 + k
                        /\ inq'[k].fds = FromTo(Upto(due', w0 + k - 1), Upto(due', w0 + k))
      BY <2>3
    <3>1. CASE k <= Len(inq)
      <4>1. k \in 1 .. Len(inq)
        BY <3>1, <1>1, <2>1
      <4>2. inq[k].word = w0 + k /\ inq[k].fds = FromTo(Upto(due, w0 + k - 1), Upto(due, w0 + k))
        BY <4>1 DEF Numbered
      <4>3. w0 + k - 1 \in 0 .. Len(due) /\ w0 + k \in 0 .. Len(due)
        BY <4>1, <1>1
      <4> HIDE DEF w0
      <4> QED BY <4>1, <4>2, <4>3, <2>1
    <3>2. CASE ~(k <= Len(inq))
      <4> DEFINE i == k - Len(inq)
      <4>1. i \in 1 .. n /\ k = Len(inq) + i /\ w0 + k = Len(due) + i
        BY <3>2, <1>1, <2>1
      <4> HIDE DEF i
      <4>2. /\ inq'[k].word = Len(due) + i
            /\ inq'[k].fds = IF i = 1 THEN FromTo(Given, Given + f) ELSE <<>>
        BY <4>1, <2>1
      <4>3. Upto(due', w0 + k) = Given + f
        <5>1. Len(due) + i \in Len(due) + 1 .. Len(due) + n
          BY <4>1, <1>1
        <5>2. Upto(due', Len(due) + i) = Given + f
          BY <5>1, <2>1
        <5> QED BY <5>2, <4>1
      <4>4. CASE i = 1
        <5>1. w0 + k - 1 = Len(due) /\ Len(due) \in 0 .. Len(due)
          BY <4>1, <4>4, <1>1
        <5>2. Upto(due', w0 + k - 1) = Given
          BY <5>1, <1>1, <2>1
        <5> HIDE DEF w0
        <5> QED BY <4>1, <4>2, <4>3, <4>4, <5>2
      <4>5. CASE i # 1
        <5>1. w0 + k - 1 \in Len(due) + 1 .. Len(due) + n
          BY <4>1, <4>5, <1>1
        <5>2. Upto(due', w0 + k - 1) = Given + f
          BY <5>1, <2>1
        <5>3. FromTo(Given + f, Given + f) = <<>>
          <6>1. (Given + f) - (Given + f) = 0
            BY <1>1, <2>1
          <6> QED BY <6>1 DEF FromTo
        <5> HIDE DEF w0
        <5> QED BY <4>1, <4>2, <4>3, <4>5, <5>2, <5>3
      <4> QED BY <4>4, <4>5
    <3> QED BY <3>1, <3>2
  <2> QED BY <2>1, <2>3, <2>4, <2>5, <2>6 DEF Numbered
<1>4. CASE Receive
  <2>1. PICK n \in Nat, fds \in Seq(Nat) : Receiving(n, fds)
    BY <1>4, ReceiveIs
  <2>2. due' = due
    BY <1>4 DEF Receive
  <2>3. n \in 1 .. Len(inq) /\ inq' = SubSeq(inq, n + 1, Len(inq)) /\ inq \in Seq(GivenWord)
    BY <2>1 DEF Receiving, Numbered
  <2>4. /\ inq' \in Seq(GivenWord) /\ Len(inq') = Len(inq) - n
        /\ \A k \in 1 .. Len(inq) - n : inq'[k] = inq[n + k]
    <3>1. n \in 0 .. Len(inq)
      BY <1>1, <2>3
    <3> QED BY <3>1, <2>3, RestOf
  <2>5. /\ Len(inq') <= Len(due') /\ Len(due') - Len(inq') = w0 + n
        /\ w0 \in 0 .. Len(due) /\ w0 + n \in 0 .. Len(due) /\ w0 <= w0 + n
    <3> HIDE DEF Numbered
    <3>1. n \in Nat /\ 1 <= n /\ n <= Len(inq)
      BY <1>1, <2>3
    <3>2. Len(due') = Len(due) /\ Len(inq') = Len(inq) - n
      BY <2>2, <2>4
    <3> QED BY <1>1, <3>1, <3>2
  <2>6. \A k \in 1 .. Len(inq') :
           LET w == Len(due') - Len(inq') + k
           IN  inq'[k].word = w /\ inq'[k].fds = FromTo(Upto(due', w - 1), Upto(due', w))
    <3> SUFFICES ASSUME NEW k \in 1 .. Len(inq')
                 PROVE  inq'[k].word = w0 + n + k
                        /\ inq'[k].fds = FromTo(Upto(due, w0 + n + k - 1), Upto(due, w0 + n + k))
      <4> DEFINE e == Len(due') - Len(inq')
                 v == w0 + n
      <4>1. e = v /\ due' = due
        BY <2>2, <2>5
      <4> HIDE DEF e, v
      <4>2. (\A k \in 1 .. Len(inq') : /\ inq'[k].word = v + k
               /\ inq'[k].fds = FromTo(Upto(due, v + k - 1), Upto(due, v + k)))
            => \A k \in 1 .. Len(inq') :
                  LET w == e + k
                  IN  inq'[k].word = w /\ inq'[k].fds = FromTo(Upto(due', w - 1), Upto(due', w))
        BY <4>1
      <4> QED BY <4>2 DEF e, v
    <3> DEFINE i == n + k
    <3>3. k \in Nat /\ 1 <= k /\ k <= Len(inq) - n /\ n \in Nat
      BY <1>1, <2>3, <2>4
    <3>1. i \in 1 .. Len(inq) /\ inq'[k] = inq[i] /\ w0 + i = w0 + n + k /\ w0 + i - 1 = w0 + n + k - 1
      <4>1. inq'[k] = inq[i]
        BY <2>4
      <4> QED BY <4>1, <1>1, <3>3
    <3> HIDE DEF i
    <3>2. inq[i].word = w0 + i /\ inq[i].fds = FromTo(Upto(due, w0 + i - 1), Upto(due, w0 + i))
      BY <3>1 DEF Numbered
    <3> HIDE DEF w0
    <3> QED BY <3>1, <3>2
  <2>7. open' \subseteq 1 .. Upto(due, w0 + n)
    <3>1. Upto(due, w0) <= Upto(due, w0 + n)
      BY <2>5 DEF Numbered
    <3>2. open \subseteq 1 .. Upto(due, w0 + n)
      <4>1. open \subseteq 1 .. Upto(due, w0)
        BY DEF Numbered
      <4> DEFINE a == Upto(due, w0)
                 b == Upto(due, w0 + n)
      <4>2. a \in Nat /\ b \in Nat /\ a <= b
        BY <3>1, <2>5, <1>1
      <4> HIDE DEF a, b
      <4>3. 1 .. a \subseteq 1 .. b
        BY <4>2
      <4> QED BY <4>1, <4>3 DEF a, b
    <3>3. fds = FromTo(Upto(due, w0), Upto(due, w0 + n))
      BY <2>1, <2>3, LotIsNext DEF Receiving
    <3>4. Range(fds) \subseteq 1 .. Upto(due, w0 + n)
      <4> DEFINE a == Upto(due, w0)
                 b == Upto(due, w0 + n)
      <4>1. a \in Nat /\ b \in Nat /\ a <= b /\ fds = FromTo(a, b)
        BY <3>1, <3>3, <2>5, <1>1
      <4> HIDE DEF a, b
      <4>2. \A x \in Range(fds) : x \in 1 .. b
        BY <4>1 DEF FromTo, Range
      <4> QED BY <4>2 DEF b
    <3>5. open' = open \cup Range(fds) \/ open' \subseteq open
      <4>1. Teardown(Unflushed) => open' \subseteq open
        BY UnflushedIs, TeardownIs
      <4> QED BY <4>1, <2>1 DEF Receiving
    <3> QED BY <3>2, <3>4, <3>5
  <2> QED BY <2>2, <2>4, <2>5, <2>6, <2>7 DEF Numbered
<1> QED BY <1>2, <1>3, <1>4 DEF Next

\* Rings, counters and numbers are sound in every state.
LEMMA SpecFits == Spec => [](Fit /\ Numbered)
<1>1. Init => Fit /\ Numbered
  <2> SUFFICES ASSUME Init PROVE Fit /\ Numbered
    OBVIOUS
  <2>1. Fit
    <3>1. /\ in = EmptyRing /\ fds_in = EmptyRing /\ out = EmptyRing /\ fds_out = EmptyRing
          /\ toB = <<>> /\ fdsToB = <<>> /\ buffer = <<>> /\ open = {} /\ held = FALSE
          /\ unread = 0 /\ sends = 0 /\ phase = "idle"
      BY DEF Init
    <3>2. unread \in 0 .. SockCap /\ sends \in 0 .. MaxSends /\ phase \in Phase
      BY <3>1, RingsAssumption DEF Phase
    <3>3. toB \in Seq(SentWord) /\ fdsToB \in Seq(Nat) /\ buffer \in Seq(Nat)
      BY <3>1, EmptySeq
    <3> QED BY <3>1, <3>2, <3>3, EmptyIs DEF Fit
  <2>2. Numbered
    <3>1. due = <<>> /\ inq = <<>> /\ open = {} /\ Len(due) = 0 /\ Len(inq) = 0
      BY DEF Init
    <3>2. 0 .. Len(due) = {0} /\ 1 .. Len(inq) = {}
      BY <3>1
    <3> QED BY <3>1, <3>2, EmptySeq DEF Numbered, Upto
  <2> QED BY <2>1, <2>2
<1>2. Fit /\ Numbered /\ [Next]_vars => (Fit /\ Numbered)'
  <2>1. ASSUME Fit, Numbered, Next PROVE (Fit /\ Numbered)'
    BY <2>1, FitStep, NumberedStep
  <2>2. ASSUME Fit, Numbered, UNCHANGED vars PROVE (Fit /\ Numbered)'
    <3>1. Fit'
      BY <2>2 DEF Fit, vars
    <3>2. Numbered'
      BY <2>2 DEF Numbered, vars
    <3> QED BY <3>1, <3>2
  <2> QED BY <2>1, <2>2
<1> QED BY <1>1, <1>2, PTL DEF Spec

\* No ring holds more than it can, whatever the sizes of the rings, of a sendmsg and
\* of the socket, and only descriptors that were passed are open in wldbg.
THEOREM RingsHold == Spec => []TypeOK
<1>1. Fit /\ Numbered => TypeOK
  <2> SUFFICES ASSUME Fit, Numbered PROVE TypeOK
    OBVIOUS
  <2>1. open \subseteq 1 .. Given
    <3>1. Come \in Nat /\ Given \in Nat /\ Come <= Given /\ open \subseteq 1 .. Come
      BY UptoIsNat DEF Numbered
    <3>2. 1 .. Come \subseteq 1 .. Given
      BY <3>1
    <3> QED BY <3>1, <3>2
  <2> QED BY <2>1 DEF TypeOK, Fit, Sound
<1> QED BY <1>1, SpecFits, PTL

-----------------------------------------------------------------------------
(* Words travel in order. *)

\* A's words in s are those behind the ath up to the nth, each once and in order.
Run(a, n, s) ==
    LET As == {k \in DOMAIN s : s[k] # Injected}
    IN  {s[k] : k \in As} = a + 1 .. n /\ \A j, k \in As : j < k => s[j] < s[k]

\* The words of what was sent.
Plain(s) == [k \in DOMAIN s |-> s[k].word]

\* First the user's words, l of them, then A's from behind the ath on.
Mixed(s, l, a) == \A k \in 1 .. Len(s) : s[k] = IF k <= l THEN Injected ELSE a + (k - l)

\* Words in order behind words in order.
LEMMA RunCat ==
    ASSUME NEW s \in Seq(Nat), NEW t \in Seq(Nat), NEW a \in Nat, NEW m \in Nat, NEW n \in Nat,
           a <= m, m <= n, Run(a, m, s), Run(m, n, t)
    PROVE  Run(a, n, s \o t)
<1> DEFINE As(q) == {k \in 1 .. Len(q) : q[k] # Injected}
           c == s \o t
           l == Len(s)
           h == Len(t)
<1>1. /\ l \in Nat /\ h \in Nat /\ DOMAIN s = 1 .. l /\ DOMAIN t = 1 .. h
      /\ c \in Seq(Nat) /\ Len(c) = l + h /\ DOMAIN c = 1 .. l + h
      /\ \A k \in 1 .. l + h : c[k] = IF k <= l THEN s[k] ELSE t[k - l]
  <2>1. s \o t \in Seq(Nat) /\ Len(s \o t) = Len(s) + Len(t)
    BY ConcatProperties
  <2>2. /\ Len(s) \in Nat /\ Len(t) \in Nat /\ DOMAIN s = 1 .. Len(s) /\ DOMAIN t = 1 .. Len(t)
        /\ DOMAIN (s \o t) = 1 .. Len(s \o t)
    BY <2>1, LenProperties
  <2> QED BY <2>1, <2>2, ConcatProperties
<1> HIDE DEF c, l, h
<1>2. /\ \A k \in 1 .. l : s[k] # Injected => s[k] \in a + 1 .. m
      /\ \A k \in 1 .. h : t[k] # Injected => t[k] \in m + 1 .. n
      /\ \A x \in a + 1 .. m : \E k \in 1 .. l : s[k] # Injected /\ s[k] = x
      /\ \A x \in m + 1 .. n : \E k \in 1 .. h : t[k] # Injected /\ t[k] = x
      /\ \A j, k \in 1 .. l : s[j] # Injected /\ s[k] # Injected /\ j < k => s[j] < s[k]
      /\ \A j, k \in 1 .. h : t[j] # Injected /\ t[k] # Injected /\ j < k => t[j] < t[k]
  BY <1>1 DEF Run
<1>3. ASSUME NEW x \in 1 .. l + h
      PROVE  \/ x \in 1 .. l /\ c[x] = s[x] /\ x <= l
             \/ x - l \in 1 .. h /\ c[x] = t[x - l] /\ ~(x <= l)
  <2>1. l \in Nat /\ h \in Nat /\ x \in Nat /\ 1 <= x /\ x <= l + h
    BY <1>1
  <2>2. c[x] = IF x <= l THEN s[x] ELSE t[x - l]
    BY <1>1
  <2>3. CASE x <= l
    <3>1. x \in 1 .. l
      BY <2>1, <2>3
    <3> QED BY <2>2, <2>3, <3>1
  <2>4. CASE ~(x <= l)
    <3>1. x - l \in 1 .. h
      BY <2>1, <2>4
    <3> QED BY <2>2, <2>4, <3>1
  <2> QED BY <2>3, <2>4
<1>4. \A k \in 1 .. l + h : c[k] # Injected => c[k] \in a + 1 .. n
  <2> SUFFICES ASSUME NEW k \in 1 .. l + h, c[k] # Injected PROVE c[k] \in a + 1 .. n
    OBVIOUS
  <2>1. CASE k \in 1 .. l /\ c[k] = s[k]
    <3>1. c[k] \in a + 1 .. m
      BY <2>1, <1>2
    <3> QED BY <3>1
  <2>2. CASE k - l \in 1 .. h /\ c[k] = t[k - l]
    <3>1. c[k] \in m + 1 .. n
      BY <2>2, <1>2
    <3> QED BY <3>1
  <2> QED BY <2>1, <2>2, <1>3
<1>5. \A x \in a + 1 .. n : \E k \in 1 .. l + h : c[k] # Injected /\ c[k] = x
  <2> SUFFICES ASSUME NEW x \in a + 1 .. n
               PROVE  \E k \in 1 .. l + h : c[k] # Injected /\ c[k] = x
    OBVIOUS
  <2>1. CASE x <= m
    <3>1. x \in a + 1 .. m
      BY <2>1
    <3>2. PICK k \in 1 .. l : s[k] # Injected /\ s[k] = x
      BY <3>1, <1>2
    <3>3. k \in 1 .. l + h
      <4>1. l \in Nat /\ h \in Nat
        BY <1>1
      <4> QED BY <4>1
    <3>4. k <= l
      OBVIOUS
    <3>5. c[k] = s[k]
      BY <3>3, <3>4, <1>1
    <3> QED BY <3>2, <3>3, <3>5
  <2>2. CASE ~(x <= m)
    <3>1. x \in m + 1 .. n
      BY <2>2
    <3>2. PICK k \in 1 .. h : t[k] # Injected /\ t[k] = x
      BY <3>1, <1>2
    <3> DEFINE i == l + k
    <3>3. i \in 1 .. l + h /\ ~(i <= l) /\ i - l = k
      <4>1. l \in Nat /\ h \in Nat
        BY <1>1
      <4> QED BY <4>1
    <3>4. c[i] = t[k]
      BY <3>3, <1>1
    <3> HIDE DEF i
    <3> QED BY <3>2, <3>3, <3>4
  <2> QED BY <2>1, <2>2
<1>6. \A j, k \in 1 .. l + h : c[j] # Injected /\ c[k] # Injected /\ j < k => c[j] < c[k]
  <2> SUFFICES ASSUME NEW j \in 1 .. l + h, NEW k \in 1 .. l + h,
                      c[j] # Injected, c[k] # Injected, j < k
               PROVE  c[j] < c[k]
    OBVIOUS
  <2>1. CASE k <= l
    <3>1. j <= l
      BY <2>1, <1>1
    <3>2. j \in 1 .. l /\ k \in 1 .. l /\ c[j] = s[j] /\ c[k] = s[k]
      BY <2>1, <3>1, <1>3
    <3> QED BY <3>2, <1>2
  <2>2. CASE ~(k <= l)
    <3>1. k - l \in 1 .. h /\ c[k] = t[k - l]
      BY <2>2, <1>1
    <3>2. CASE j <= l
      <4>1. j \in 1 .. l /\ c[j] = s[j]
        BY <3>2, <1>1
      <4>2. c[j] \in a + 1 .. m /\ c[k] \in m + 1 .. n
        BY <4>1, <3>1, <1>2
      <4> QED BY <4>2
    <3>3. CASE ~(j <= l)
      <4>1. l \in Nat /\ h \in Nat
        BY <1>1
      <4>2. j - l \in 1 .. h /\ j - l < k - l
        BY <3>3, <4>1
      <4>3. c[j] = t[j - l]
        BY <3>3, <1>1
      <4> QED BY <4>2, <4>3, <3>1, <1>2
    <3> QED BY <3>2, <3>3
  <2> QED BY <2>1, <2>2
<1>7. Run(a, n, c)
  <2>1. {c[k] : k \in {i \in DOMAIN c : c[i] # Injected}} = a + 1 .. n
    BY <1>1, <1>4, <1>5
  <2>2. \A j, k \in {i \in DOMAIN c : c[i] # Injected} : j < k => c[j] < c[k]
    BY <1>1, <1>6
  <2> QED BY <2>1, <2>2 DEF Run
<1> QED BY <1>7 DEF c

\* The user's words and A's behind them are in order.
LEMMA RunMixed ==
    ASSUME NEW t \in Seq(Nat), NEW l \in Nat, NEW a \in Nat, Mixed(t, l, a)
    PROVE  Run(a, IF Len(t) <= l THEN a ELSE a + (Len(t) - l), t)
<1> DEFINE h == Len(t)
           n == IF Len(t) <= l THEN a ELSE a + (Len(t) - l)
<1>1. /\ h \in Nat /\ DOMAIN t = 1 .. h /\ n \in Nat
      /\ \A k \in 1 .. h : t[k] = IF k <= l THEN 0 ELSE a + (k - l)
  BY LenProperties DEF Mixed, Injected
<1>2. n = IF h <= l THEN a ELSE a + (h - l)
  OBVIOUS
<1> HIDE DEF h, n
<1>3. \A k \in 1 .. h : t[k] # 0 => t[k] \in a + 1 .. n /\ ~(k <= l) /\ t[k] = a + (k - l)
  BY <1>1, <1>2
<1>4. \A x \in a + 1 .. n : \E k \in 1 .. h : t[k] # 0 /\ t[k] = x
  <2> SUFFICES ASSUME NEW x \in a + 1 .. n PROVE \E k \in 1 .. h : t[k] # 0 /\ t[k] = x
    OBVIOUS
  <2> DEFINE k == l + (x - a)
  <2>1. k \in 1 .. h /\ ~(k <= l) /\ a + (k - l) = x /\ x # 0
    BY <1>1, <1>2
  <2>2. t[k] = x
    BY <2>1, <1>1
  <2> HIDE DEF k
  <2> QED BY <2>1, <2>2
<1>5. \A j, k \in 1 .. h : t[j] # 0 /\ t[k] # 0 /\ j < k => t[j] < t[k]
  BY <1>1, <1>3
<1>6. Run(a, n, t)
  <2>1. {t[k] : k \in {i \in DOMAIN t : t[i] # 0}} = a + 1 .. n
    <3>1. ASSUME NEW k \in DOMAIN t, t[k] # 0 PROVE t[k] \in a + 1 .. n
      BY <1>1, <1>3, <3>1
    <3>2. ASSUME NEW x \in a + 1 .. n PROVE \E k \in DOMAIN t : t[k] # 0 /\ t[k] = x
      BY <1>1, <1>4
    <3> QED BY <3>1, <3>2
  <2>2. \A j, k \in {i \in DOMAIN t : t[i] # 0} : j < k => t[j] < t[k]
    BY <1>1, <1>5
  <2> QED BY <2>1, <2>2 DEF Run, Injected
<1> QED BY <1>6 DEF n

\* The words of what was sent, as a sequence.
LEMMA PlainIs ==
    ASSUME NEW s \in Seq(SentWord)
    PROVE  /\ Plain(s) \in Seq(Nat) /\ Len(Plain(s)) = Len(s)
           /\ \A k \in 1 .. Len(s) : Plain(s)[k] = s[k].word
<1>1. Len(s) \in Nat /\ DOMAIN s = 1 .. Len(s) /\ \A k \in 1 .. Len(s) : s[k] \in SentWord
  BY LenProperties, ElementOfSeq
<1>2. \A k \in 1 .. Len(s) : s[k].word \in Nat
  BY <1>1 DEF SentWord
<1> DEFINE e(k) == s[k].word
<1>3. Plain(s) = [k \in 1 .. Len(s) |-> e(k)]
  BY <1>1 DEF Plain
<1> HIDE DEF e
<1>4. /\ [k \in 1 .. Len(s) |-> e(k)] \in Seq(Nat)
      /\ Len([k \in 1 .. Len(s) |-> e(k)]) = Len(s)
  BY <1>1, <1>2 DEF e
<1>5. \A k \in 1 .. Len(s) : Plain(s)[k] = e(k)
  BY <1>3
<1> QED BY <1>3, <1>4, <1>5 DEF e

\* Words sent behind others.
LEMMA PlainCat ==
    ASSUME NEW s \in Seq(SentWord), NEW t \in Seq(SentWord)
    PROVE  Plain(s \o t) = Plain(s) \o Plain(t)
<1>1. /\ s \o t \in Seq(SentWord) /\ Len(s \o t) = Len(s) + Len(t)
      /\ \A k \in 1 .. Len(s) + Len(t) : (s \o t)[k] = IF k <= Len(s) THEN s[k] ELSE t[k - Len(s)]
  BY ConcatProperties
<1>2. /\ Plain(s) \in Seq(Nat) /\ Len(Plain(s)) = Len(s)
      /\ Plain(t) \in Seq(Nat) /\ Len(Plain(t)) = Len(t)
      /\ \A k \in 1 .. Len(s) : Plain(s)[k] = s[k].word
      /\ \A k \in 1 .. Len(t) : Plain(t)[k] = t[k].word
  BY PlainIs
<1> DEFINE c == s \o t
           p == Plain(s)
           q == Plain(t)
<1>3. c \in Seq(SentWord) /\ p \in Seq(Nat) /\ q \in Seq(Nat)
  BY <1>1, <1>2
<1>4. Len(s) \in Nat /\ Len(t) \in Nat
  BY LenProperties
<1> HIDE DEF c, p, q
<1>5. Plain(c) \in Seq(Nat) /\ Len(Plain(c)) = Len(c) /\ \A k \in 1 .. Len(c) : Plain(c)[k] = c[k].word
  BY <1>3, PlainIs
<1>6. /\ p \o q \in Seq(Nat) /\ Len(p \o q) = Len(p) + Len(q)
      /\ \A k \in 1 .. Len(p) + Len(q) : (p \o q)[k] = IF k <= Len(p) THEN p[k] ELSE q[k - Len(p)]
  BY <1>3, ConcatProperties
<1>7. Len(c) = Len(s) + Len(t) /\ Len(p) = Len(s) /\ Len(q) = Len(t)
  BY <1>1, <1>2 DEF c, p, q
<1>8. \A k \in 1 .. Len(s) + Len(t) : Plain(c)[k] = (p \o q)[k]
  <2> SUFFICES ASSUME NEW k \in 1 .. Len(s) + Len(t) PROVE Plain(c)[k] = (p \o q)[k]
    OBVIOUS
  <2>1. CASE k <= Len(s)
    <3>1. k \in 1 .. Len(s)
      BY <2>1, <1>4
    <3>2. c[k] = s[k] /\ p[k] = s[k].word
      BY <3>1, <2>1, <1>1, <1>2 DEF c, p
    <3> QED BY <3>2, <2>1, <1>5, <1>6, <1>7
  <2>2. CASE ~(k <= Len(s))
    <3> DEFINE i == k - Len(s)
    <3>1. i \in 1 .. Len(t)
      BY <2>2, <1>4
    <3>2. c[k] = t[i] /\ q[i] = t[i].word
      BY <3>1, <2>2, <1>1, <1>2 DEF c, q
    <3> QED BY <3>2, <2>2, <1>5, <1>6, <1>7
  <2> QED BY <2>1, <2>2
<1>9. Plain(c) = p \o q
  BY <1>5, <1>6, <1>7, <1>8, SeqEqual
<1> QED BY <1>9 DEF c, p, q

\* The user's words only.
User(s) == \A k \in 1 .. Len(s) : s[k] = Injected

\* The last of A's words among the first n of what is mixed like that.
Reached(l, a, n) == IF n <= l THEN a ELSE a + (n - l)

\* A sendmsg sends on in order.
LEMMA TakenOrder ==
    ASSUME NEW c \in Sending, NEW d \in Sending, NEW n \in 1 .. Size(c.out), Taken(c, d, n),
           NEW m \in Nat, NEW l \in Nat, Run(0, m, Plain(c.toB)), Mixed(Contents(c.out), l, m)
    PROVE  Run(0, Reached(l, m, n), Plain(d.toB))
<1> DEFINE s == Contents(c.out)
           t == SubSeq(s, 1, n)
           f == Len(d.fdsToB)
           e(k) == [word |-> s[k], fds |-> f]
           added == [k \in 1 .. n |-> e(k)]
<1>1. /\ c.toB \in Seq(SentWord) /\ d.fdsToB \in Seq(Nat) /\ f \in Nat
      /\ s \in Seq(Nat) /\ Len(s) = Size(c.out) /\ Len(s) \in Nat
  <2>1. Sound(c.out) /\ c.toB \in Seq(SentWord) /\ d.fdsToB \in Seq(Nat)
    BY DEF Sending, Sound
  <2> QED BY <2>1, ContentsIs, LenProperties
<1>2. n \in Nat /\ n \in 0 .. Len(s) /\ 1 .. n \subseteq 1 .. Len(s)
  BY <1>1
<1>3. /\ t \in Seq(Nat) /\ Len(t) = n /\ \A k \in 1 .. n : t[k] = s[k]
  <2> HIDE DEF s
  <2> QED BY <1>1, <1>2, FirstOf
<1>4. Mixed(t, l, m)
  <2>1. \A k \in 1 .. n : s[k] = IF k <= l THEN Injected ELSE m + (k - l)
    BY <1>2 DEF Mixed
  <2> HIDE DEF t, s
  <2> QED BY <2>1, <1>3 DEF Mixed
<1>5. Run(m, Reached(l, m, n), t)
  <2> HIDE DEF t, s
  <2> QED BY <1>3, <1>4, RunMixed DEF Reached
<1>6. m <= Reached(l, m, n) /\ Reached(l, m, n) \in Nat
  BY <1>2 DEF Reached
<1>7. d.toB = c.toB \o added
  BY DEF Taken
<1>8. \A k \in 1 .. n : s[k] \in Nat
  <2> HIDE DEF s
  <2> QED BY <1>1, <1>2, ElementOfSeq
<1> HIDE DEF s, t, f
<1>9. \A k \in 1 .. n : e(k) \in SentWord /\ e(k).word = s[k]
  BY <1>8, <1>1 DEF SentWord
<1> HIDE DEF e
<1>10. added \in Seq(SentWord) /\ Len(added) = n /\ \A k \in 1 .. n : added[k] = e(k)
  BY <1>9, <1>2
<1> HIDE DEF added
<1>11. Plain(added) = t
  <2>1. /\ Plain(added) \in Seq(Nat) /\ Len(Plain(added)) = n
        /\ \A k \in 1 .. n : Plain(added)[k] = added[k].word
    BY <1>10, PlainIs
  <2>2. \A k \in 1 .. n : Plain(added)[k] = t[k]
    BY <2>1, <1>3, <1>9, <1>10
  <2> QED BY <2>1, <2>2, <1>3, SeqEqual
<1>12. Plain(d.toB) = Plain(c.toB) \o t
  BY <1>1, <1>7, <1>10, <1>11, PlainCat
<1>13. Plain(c.toB) \in Seq(Nat) /\ 0 \in Nat /\ 0 <= m
  BY <1>1, PlainIs
<1>14. Run(0, Reached(l, m, n), Plain(c.toB) \o t)
  BY <1>3, <1>5, <1>6, <1>13, RunCat
<1> QED BY <1>12, <1>14

\* A flush of the user's words sends no other, and a write adds what it writes.
LEMMA UserFlush ==
    ASSUME NEW c \in Sending, NEW d \in Sending, d = c \/ Flushing(c, d),
           NEW m \in Nat, Run(0, m, Plain(c.toB)), User(Contents(c.out))
    PROVE  Run(0, m, Plain(d.toB)) /\ User(Contents(d.out))
<1> DEFINE s == Contents(c.out)
<1>1. /\ Sound(c.out) /\ s \in Seq(Nat) /\ Len(s) = Size(c.out) /\ Size(c.out) \in Nat
  <2>1. Sound(c.out)
    BY DEF Sending, Sound
  <2> QED BY <2>1, ContentsIs, HeadPlace
<1>2. CASE d = c
  BY <1>2
<1>3. CASE d = [c EXCEPT !.ok = FALSE]
  <2>1. d.out = c.out /\ d.toB = c.toB
    BY <1>3 DEF Sending
  <2> QED BY <2>1
<1>4. ASSUME NEW n \in 1 .. Size(c.out), Taken(c, d, n)
      PROVE  Run(0, m, Plain(d.toB)) /\ User(Contents(d.out))
  <2>1. Mixed(s, Size(c.out), m)
    BY <1>1 DEF Mixed, User
  <2>2. Run(0, Reached(Size(c.out), m, n), Plain(d.toB))
    BY <1>1, <1>4, <2>1, TakenOrder
  <2>3. Reached(Size(c.out), m, n) = m
    BY <1>1 DEF Reached
  <2>4. Contents(d.out) = SubSeq(s, n + 1, Len(s))
    BY <1>1, <1>4 DEF Taken
  <2>5. n \in 0 .. Len(s)
    BY <1>1
  <2> HIDE DEF s
  <2>6. /\ Len(SubSeq(s, n + 1, Len(s))) = Len(s) - n
        /\ \A k \in 1 .. Len(s) - n : SubSeq(s, n + 1, Len(s))[k] = s[n + k]
    BY <1>1, <2>5, RestOf
  <2>7. \A k \in 1 .. Len(s) - n : n + k \in 1 .. Len(s)
    BY <1>1, <2>5
  <2>8. \A k \in 1 .. Len(s) : s[k] = Injected
    BY DEF User, s
  <2>9. User(Contents(d.out))
    BY <2>4, <2>6, <2>7, <2>8 DEF User
  <2> QED BY <2>2, <2>3, <2>9
<1> QED BY <1>2, <1>3, <1>4 DEF Flushing

LEMMA UserPut ==
    ASSUME Fit, NEW m \in Nat, Run(0, m, Plain(toB)), User(Contents(out)),
           NEW words \in Seq(Nat), NEW w \in Sending, Putting(w, words)
    PROVE  /\ Run(0, m, Plain(w.toB))
           /\ \/ ~w.ok /\ User(Contents(w.out))
              \/ /\ w.ok
                 /\ \E s \in Seq(Nat) : User(s) /\ Contents(w.out) = s \o words
<1>1. /\ Unflushed \in Sending /\ Unflushed.out = out /\ Unflushed.toB = toB
  BY UnflushedIs
<1>2. PICK r \in Sending : (r = Unflushed \/ Flushing(Unflushed, r)) /\ Written(r, w, words)
  BY DEF Putting
<1>3. Run(0, m, Plain(r.toB)) /\ User(Contents(r.out))
  BY <1>1, <1>2, UserFlush
<1>4. CASE w = [r EXCEPT !.ok = FALSE]
  <2>1. w.ok = FALSE /\ w.out = r.out /\ w.toB = r.toB
    BY <1>4 DEF Sending
  <2> QED BY <2>1, <1>3
<1>5. CASE /\ r.ok
           /\ w = [r EXCEPT !.out = Put(@, words)]
           /\ Contents(w.out) = Contents(r.out) \o words
  <2>1. w.ok /\ w.toB = r.toB
    BY <1>5 DEF Sending
  <2>2. Contents(r.out) \in Seq(Nat)
    BY ContentsIs DEF Sending, Sound
  <2> QED BY <2>1, <2>2, <1>3, <1>5
<1> QED BY <1>2, <1>4, <1>5 DEF Written

\* Words that came to wldbg.
Came == Len(due) - Len(inq)

\* What came is in the buffer or was sent, in order; the ring has the user's words.
Ordered ==
    /\ phase = "idle" => buffer = <<>>
    /\ phase = "gone" => \E n \in 0 .. Len(due) : Run(0, n, Plain(toB))
    /\ phase # "gone" =>
          /\ Len(buffer) <= Came
          /\ \A k \in 1 .. Len(buffer) : buffer[k] = (Came - Len(buffer)) + k
          /\ Run(0, Came - Len(buffer), Plain(toB))
          /\ User(Contents(out))

\* A message written and flushed is sent behind the rest, or part of it is.
LEMMA ForwardOrder ==
    ASSUME Fit, Numbered, Ordered, phase = "loop",
           NEW k \in Nat, NEW w \in Sending, NEW c \in Sending, Forwarding(k, w, c)
    PROVE  /\ c.ok => /\ Run(0, (Came - Len(buffer)) + k, Plain(c.toB))
                      /\ User(Contents(c.out))
           /\ \E n \in 0 .. Came : Run(0, n, Plain(c.toB))
<1> DEFINE m == Came - Len(buffer)
           words == SubSeq(buffer, 1, k)
<1>1. /\ Len(buffer) \in Nat /\ Came \in Nat /\ m \in Nat /\ k \in 1 .. Len(buffer)
      /\ buffer \in Seq(Nat) /\ k \in 0 .. Len(buffer) /\ m + k <= Came
      /\ Run(0, m, Plain(toB)) /\ User(Contents(out))
      /\ \A i \in 1 .. Len(buffer) : buffer[i] = m + i
  <2>1. /\ Len(buffer) \in Nat /\ Came \in Nat /\ k \in 1 .. Len(buffer) /\ Len(buffer) <= Came
        /\ buffer \in Seq(Nat)
    BY UptoIsNat, LenProperties DEF Fit, Ordered, Came, Forwarding
  <2>2. m \in Nat /\ m + k <= Came /\ k \in 0 .. Len(buffer)
    BY <2>1
  <2> QED BY <2>1, <2>2 DEF Ordered
<1>2. words \in Seq(Nat) /\ Len(words) = k /\ \A i \in 1 .. k : words[i] = m + i
  <2>1. \A i \in 1 .. k : i \in 1 .. Len(buffer)
    BY <1>1
  <2> HIDE DEF m
  <2>2. SubSeq(buffer, 1, k) \in Seq(Nat) /\ Len(SubSeq(buffer, 1, k)) = k
        /\ \A i \in 1 .. k : SubSeq(buffer, 1, k)[i] = buffer[i]
    BY <1>1, FirstOf
  <2> QED BY <2>1, <2>2, <1>1
<1>3. Putting(w, words) /\ IF w.ok THEN Flushing(w, c) ELSE c = w
  BY DEF Forwarding
<1> HIDE DEF m, words
<1>4. /\ Run(0, m, Plain(w.toB))
      /\ \/ ~w.ok /\ User(Contents(w.out))
         \/ /\ w.ok
            /\ \E s \in Seq(Nat) : User(s) /\ Contents(w.out) = s \o words
  BY <1>1, <1>2, <1>3, UserPut
<1>5. m \in 0 .. Came
  BY <1>1 DEF m
<1>6. ASSUME ~w.ok
      PROVE  /\ c.ok => Run(0, m + k, Plain(c.toB)) /\ User(Contents(c.out))
             /\ \E n \in 0 .. Came : Run(0, n, Plain(c.toB))
  <2>1. c = w
    BY <1>3, <1>6
  <2> QED BY <2>1, <1>4, <1>5, <1>6
<1>7. ASSUME w.ok
      PROVE  /\ c.ok => Run(0, m + k, Plain(c.toB)) /\ User(Contents(c.out))
             /\ \E n \in 0 .. Came : Run(0, n, Plain(c.toB))
  <2>0. PICK s \in Seq(Nat) : User(s) /\ Contents(w.out) = s \o words
    BY <1>4, <1>7
  <2> DEFINE l == Len(s)
             q == Contents(w.out)
  <2>1. Sound(w.out) /\ Size(w.out) \in Nat /\ Len(q) = Size(w.out) /\ l \in Nat
    <3>1. Sound(w.out)
      BY DEF Sending, Sound
    <3> QED BY <3>1, ContentsIs, HeadPlace, LenProperties
  <2>2. /\ Len(s \o words) = l + k
        /\ \A i \in 1 .. l + k : (s \o words)[i] = IF i <= l THEN s[i] ELSE words[i - l]
    BY <1>2, ConcatProperties
  <2>3. Len(q) = l + k /\ \A i \in 1 .. l + k : q[i] = IF i <= l THEN s[i] ELSE words[i - l]
    BY <2>0, <2>2
  <2> HIDE DEF q, l
  <2>4. Mixed(q, l, m)
    <3> SUFFICES ASSUME NEW i \in 1 .. l + k
                 PROVE  q[i] = IF i <= l THEN Injected ELSE m + (i - l)
      BY <2>3 DEF Mixed
    <3>1. CASE i <= l
      <4>1. i \in 1 .. Len(s)
        BY <2>1, <3>1 DEF l
      <4>2. s[i] = Injected
        BY <4>1, <2>0 DEF User
      <4> QED BY <3>1, <4>2, <2>3
    <3>2. CASE ~(i <= l)
      <4>1. i - l \in 1 .. k
        BY <2>1, <3>2, <1>1
      <4>2. words[i - l] = m + (i - l)
        BY <4>1, <1>2
      <4> QED BY <3>2, <4>2, <2>3
    <3> QED BY <3>1, <3>2
  <2>5. ASSUME NEW n \in 1 .. Size(w.out), Taken(w, c, n)
        PROVE  Run(0, Reached(l, m, n), Plain(c.toB)) /\ Reached(l, m, n) \in 0 .. Came
    <3>1. Run(0, Reached(l, m, n), Plain(c.toB))
      BY <2>1, <2>4, <2>5, <1>1, <1>4, TakenOrder DEF q
    <3>2. n \in 1 .. l + k
      BY <2>1, <2>3
    <3>3. Reached(l, m, n) \in 0 .. Came
      BY <2>1, <3>2, <1>1 DEF Reached
    <3> QED BY <3>1, <3>3
  <2>6. Flushing(w, c)
    BY <1>3, <1>7
  <2>7. ASSUME c.ok
        PROVE  Run(0, m + k, Plain(c.toB)) /\ User(Contents(c.out))
    <3>1. Size(c.out) = 0 /\ \E n \in 1 .. Size(w.out) : Taken(w, c, n)
      BY <2>7, ForwardFlushes
    <3>2. PICK n \in 1 .. Size(w.out) : Taken(w, c, n)
      BY <3>1
    <3>3. n = l + k
      BY <2>7, <3>2, <2>1, <2>3, Zenon DEF Taken
    <3>4. Reached(l, m, n) = m + k
      BY <3>3, <2>1, <1>1 DEF Reached
    <3>5. User(Contents(c.out))
      <4>1. Len(Contents(c.out)) = 0
        BY <3>1, ContentsIs DEF Sending, Sound
      <4> QED BY <4>1 DEF User
    <3> QED BY <3>2, <3>4, <3>5, <2>5
  <2>8. \E n \in 0 .. Came : Run(0, n, Plain(c.toB))
    <3>1. CASE c.toB = w.toB
      BY <3>1, <1>4, <1>5
    <3>2. CASE \E n \in 1 .. Size(w.out) : Taken(w, c, n)
      BY <3>2, <2>5
    <3>3. c = [w EXCEPT !.ok = FALSE] => c.toB = w.toB
      BY DEF Sending
    <3> QED BY <3>1, <3>2, <3>3, <2>6 DEF Flushing
  <2> QED BY <2>7, <2>8
<1>8. /\ c.ok => Run(0, m + k, Plain(c.toB)) /\ User(Contents(c.out))
      /\ \E n \in 0 .. Came : Run(0, n, Plain(c.toB))
  BY <1>6, <1>7
<1> QED BY <1>8 DEF m

\* No step puts words out of order.
LEMMA OrderedStep ==
    ASSUME Fit, Numbered, Ordered, Next
    PROVE  Ordered'
<1>1. /\ Len(due) \in Nat /\ Len(inq) \in Nat /\ Came \in Nat /\ Came <= Len(due)
      /\ Len(buffer) \in Nat /\ buffer \in Seq(Nat) /\ 0 .. Came \subseteq 0 .. Len(due)
  <2>1. Len(inq) <= Len(due)
    BY DEF Numbered
  <2> QED BY <2>1, UptoIsNat, LenProperties DEF Fit, Came
<1>2. CASE PeerWrite
  <2>1. PICK n \in 1 .. 2, f \in Nat : Len(due') = Len(due) + n /\ Len(inq') = Len(inq) + n
    BY <1>2, PeerWriteIs
  <2>2. Came' = Came /\ 0 .. Len(due) \subseteq 0 .. Len(due')
    BY <2>1, <1>1 DEF Came
  <2>3. UNCHANGED <<phase, buffer, toB, out>>
    BY <1>2 DEF PeerWrite
  <2> QED BY <2>2, <2>3 DEF Ordered
<1>3. CASE PeerRead
  <2>1. UNCHANGED <<phase, buffer, toB, out, due, inq>>
    BY <1>3 DEF PeerRead
  <2> QED BY <2>1 DEF Ordered, Came
<1>4. CASE Receive
  <2>1. PICK n \in Nat, fds \in Seq(Nat) : Receiving(n, fds)
    BY <1>4, ReceiveIs
  <2>2. UNCHANGED <<out, toB, due>> /\ phase = "idle" /\ n \in 1 .. Len(inq)
    BY <1>4, <2>1 DEF Receive, Receiving
  <2>3. inq' = SubSeq(inq, n + 1, Len(inq)) /\ inq \in Seq(GivenWord) /\ n \in 0 .. Len(inq)
    BY <2>1, <2>2, <1>1 DEF Receiving, Numbered
  <2>4. Len(inq') = Len(inq) - n
    BY <2>3, RestOf
  <2>5. Came' = Came + n /\ Len(buffer) = 0
    <3>1. Came' = Len(due) - Len(inq')
      BY <2>2 DEF Came
    <3>2. buffer = <<>>
      BY <2>2 DEF Ordered
    <3> QED BY <2>4, <3>1, <3>2, <1>1 DEF Came
  <2>6. Run(0, Came, Plain(toB)) /\ User(Contents(out)) /\ Came - 0 = Came
    BY <2>2, <2>5, <1>1 DEF Ordered
  <2>7. CASE Teardown(Unflushed)
    <3>1. phase' = "gone"
      BY <2>7 DEF Teardown
    <3>2. Came \in 0 .. Len(due)
      BY <1>1
    <3> QED BY <2>2, <2>6, <3>1, <3>2 DEF Ordered
  <2>8. CASE phase' = "read" /\ buffer' = [k \in 1 .. n |-> inq[k].word]
    <3>1. Len(buffer') = n
      BY <2>8, <2>2
    <3>2. Came' - Len(buffer') = Came /\ Len(buffer') <= Came'
      BY <2>5, <3>1, <1>1
    <3>3. \A k \in 1 .. n : buffer'[k] = Came + k
      <4>1. \A k \in 1 .. n : k \in 1 .. Len(inq)
        BY <2>2, <1>1
      <4>2. \A k \in 1 .. Len(inq) : inq[k].word = Came + k
        BY DEF Numbered, Came
      <4> QED BY <2>8, <4>1, <4>2
    <3> QED BY <2>2, <2>6, <2>8, <3>1, <3>2, <3>3 DEF Ordered
  <2> QED BY <2>1, <2>7, <2>8 DEF Receiving
<1>5. CASE CopyFds
  <2>1. phase = "read" /\ phase' = "loop" /\ UNCHANGED <<inq, buffer, due>>
    BY <1>5, CopyFdsIs
  <2>2. PICK c \in Sending : (c = Unflushed \/ Flushing(Unflushed, c)) /\ Sent(c)
    BY <1>5, CopyFdsIs
  <2> DEFINE m == Came - Len(buffer)
  <2>3. m \in Nat /\ Run(0, m, Plain(toB)) /\ User(Contents(out))
    BY <2>1, <1>1 DEF Ordered
  <2>4. Unflushed \in Sending /\ Unflushed.out = out /\ Unflushed.toB = toB
    BY UnflushedIs
  <2> HIDE DEF m
  <2>5. Run(0, m, Plain(c.toB)) /\ User(Contents(c.out))
    BY <2>2, <2>3, <2>4, UserFlush
  <2>6. Run(0, m, Plain(toB')) /\ User(Contents(out'))
    BY <2>2, <2>5 DEF Sent
  <2> QED BY <2>1, <2>6 DEF Ordered, Came, m
<1>6. CASE Forward
  <2>1. phase = "loop" /\ UNCHANGED <<inq, due>>
    BY <1>6, ForwardIs
  <2>2. PICK k \in Nat, w \in Sending, c \in Sending : Forwarding(k, w, c)
    BY <1>6, ForwardIs
  <2>3. /\ c.ok => /\ Run(0, (Came - Len(buffer)) + k, Plain(c.toB))
                   /\ User(Contents(c.out))
        /\ \E n \in 0 .. Came : Run(0, n, Plain(c.toB))
    BY <2>1, <2>2, ForwardOrder
  <2>4. toB' = c.toB /\ out' = c.out /\ Came' = Came /\ k \in 1 .. Len(buffer)
    BY <2>1, <2>2 DEF Forwarding, Sent, Came
  <2>5. CASE ~c.ok
    <3>1. phase' = "gone"
      BY <2>2, <2>5 DEF Forwarding, Teardown
    <3> QED BY <2>1, <2>3, <2>4, <3>1, <1>1 DEF Ordered
  <2>6. CASE c.ok
    <3>1. /\ buffer' = SubSeq(buffer, k + 1, Len(buffer))
          /\ phase' = IF k = Len(buffer) THEN "idle" ELSE "loop"
      BY <2>2, <2>6 DEF Forwarding
    <3>2. k \in 0 .. Len(buffer) /\ Len(buffer) <= Came
          /\ \A i \in 1 .. Len(buffer) : buffer[i] = (Came - Len(buffer)) + i
      BY <2>1, <2>4 DEF Ordered
    <3>3. /\ Len(buffer') = Len(buffer) - k /\ buffer' \in Seq(Nat)
          /\ \A i \in 1 .. Len(buffer) - k : buffer'[i] = buffer[k + i]
      BY <3>1, <3>2, <1>1, RestOf
    <3>4. /\ Came - Len(buffer') = (Came - Len(buffer)) + k /\ Len(buffer') <= Came
          /\ \A i \in 1 .. Len(buffer) - k : /\ k + i \in 1 .. Len(buffer)
                                             /\ (Came - Len(buffer)) + (k + i) = (Came - Len(buffer')) + i
      BY <3>2, <3>3, <1>1
    <3>5. \A i \in 1 .. Len(buffer') : buffer'[i] = (Came' - Len(buffer')) + i
      BY <2>4, <3>2, <3>3, <3>4
    <3>6. phase' = "idle" => buffer' = <<>>
      <4>1. phase' = "idle" => Len(buffer') = 0
        BY <3>1, <3>3, <1>1
      <4> QED BY <4>1, <3>3, EmptySeq
    <3>7. phase' # "gone"
      BY <3>1
    <3>8. Run(0, Came' - Len(buffer'), Plain(toB')) /\ User(Contents(out'))
      BY <2>3, <2>4, <2>6, <3>4
    <3>9. Len(buffer') <= Came'
      BY <2>4, <3>4
    <3> QED BY <3>5, <3>6, <3>7, <3>8, <3>9 DEF Ordered
  <2> QED BY <2>5, <2>6
<1>7. CASE Inject
  <2>1. phase \in {"idle", "loop"} /\ UNCHANGED <<inq, buffer, phase, due>>
    BY <1>7, InjectIs
  <2>2. PICK c \in Sending : Putting(c, <<Injected>>) /\ Sent(c)
    BY <1>7, InjectIs
  <2> DEFINE m == Came - Len(buffer)
             words == <<Injected>>
  <2>3. m \in Nat /\ Run(0, m, Plain(toB)) /\ User(Contents(out))
    BY <2>1, <1>1 DEF Ordered
  <2>4. words \in Seq(Nat) /\ Len(words) = 1 /\ words[1] = Injected
    BY DEF Injected
  <2> HIDE DEF m, words
  <2>5. /\ Run(0, m, Plain(c.toB))
        /\ \/ ~c.ok /\ User(Contents(c.out))
           \/ /\ c.ok
              /\ \E s \in Seq(Nat) : User(s) /\ Contents(c.out) = s \o words
    BY <2>2, <2>3, <2>4, UserPut DEF words
  <2>6. User(Contents(c.out))
    <3>1. ASSUME NEW s \in Seq(Nat), User(s), Contents(c.out) = s \o words
          PROVE  User(Contents(c.out))
      <4>1. /\ Len(s \o words) = Len(s) + 1 /\ Len(s) \in Nat
            /\ \A i \in 1 .. Len(s) + 1 : (s \o words)[i] = IF i <= Len(s) THEN s[i] ELSE words[i - Len(s)]
        <5>1. Len(s) + Len(words) = Len(s) + 1
          BY <2>4
        <5>2. /\ Len(s \o words) = Len(s) + Len(words)
              /\ \A i \in 1 .. Len(s) + Len(words) :
                    (s \o words)[i] = IF i <= Len(s) THEN s[i] ELSE words[i - Len(s)]
          BY <2>4, ConcatProperties
        <5>3. Len(s) \in Nat
          BY LenProperties
        <5> QED BY <5>1, <5>2, <5>3
      <4>2. ASSUME NEW i \in 1 .. Len(s) + 1 PROVE (s \o words)[i] = Injected
        <5>1. CASE i <= Len(s)
          <6>1. i \in 1 .. Len(s)
            BY <5>1, <4>1
          <6> QED BY <5>1, <6>1, <4>1, <3>1 DEF User
        <5>2. CASE ~(i <= Len(s))
          <6>1. i - Len(s) = 1
            BY <5>2, <4>1
          <6> QED BY <5>2, <6>1, <4>1, <2>4
        <5> QED BY <5>1, <5>2
      <4> QED BY <3>1, <4>1, <4>2 DEF User
    <3> QED BY <2>5, <3>1
  <2>7. Run(0, m, Plain(toB')) /\ User(Contents(out'))
    BY <2>2, <2>5, <2>6 DEF Sent
  <2> QED BY <2>1, <2>7 DEF Ordered, Came, m
<1>8. CASE Destroy
  <2>1. phase \in {"idle", "loop"} /\ phase' = "gone" /\ UNCHANGED <<toB, due>>
    BY <1>8 DEF Destroy, Teardown
  <2>2. Run(0, Came - Len(buffer), Plain(toB)) /\ Came - Len(buffer) \in 0 .. Len(due)
    BY <2>1, <1>1 DEF Ordered
  <2> QED BY <2>1, <2>2 DEF Ordered
<1> QED BY <1>2, <1>3, <1>4, <1>5, <1>6, <1>7, <1>8 DEF Next

LEMMA SpecOrders == Spec => []Ordered
<1>1. Init => Ordered
  <2> SUFFICES ASSUME Init PROVE Ordered
    OBVIOUS
  <2>1. /\ phase = "idle" /\ buffer = <<>> /\ toB = <<>> /\ due = <<>> /\ inq = <<>>
        /\ out = EmptyRing
    BY DEF Init
  <2>2. Came = 0 /\ Len(buffer) = 0 /\ Came - Len(buffer) = 0
    <3>1. Len(due) = 0 /\ Len(inq) = 0 /\ Len(buffer) = 0
      BY <2>1
    <3> QED BY <3>1 DEF Came
  <2>3. Run(0, 0, Plain(toB))
    <3>1. DOMAIN Plain(toB) = {} /\ 0 + 1 .. 0 = {}
      BY <2>1 DEF Plain
    <3> QED BY <3>1 DEF Run
  <2>4. User(Contents(out))
    BY <2>1, EmptyIs DEF User
  <2>5. 1 .. Len(buffer) = {} /\ Len(buffer) <= Came
    BY <2>2
  <2> QED BY <2>1, <2>2, <2>3, <2>4, <2>5 DEF Ordered
<1>2. Fit /\ Numbered /\ Ordered /\ [Next]_vars => Ordered'
  <2>1. ASSUME Ordered, UNCHANGED vars PROVE Ordered'
    BY <2>1 DEF Ordered, Came, vars
  <2> QED BY <2>1, OrderedStep
<1> QED BY <1>1, <1>2, SpecFits, PTL DEF Spec

\* Wherever the counters are in the rings, whatever the sizes: A's words travel in
\* order and none is lost, doubled or overwritten on the way to B.
THEOREM WordsStayInOrder == Spec => []WordsInOrder
<1>1. Fit /\ Numbered /\ Ordered => WordsInOrder
  <2> SUFFICES ASSUME Fit, Numbered, Ordered PROVE WordsInOrder
    OBVIOUS
  <2> DEFINE sent == Plain(toB)
             inRing == IF Size(out) = 0 THEN <<>> ELSE Gathered(out, GetIov(out))
             rest == [k \in 1 .. Len(inq) |-> inq[k].word]
             m == Came - Len(buffer)
  <2>1. /\ Len(due) \in Nat /\ Len(inq) \in Nat /\ Came \in Nat /\ Came + Len(inq) = Len(due)
        /\ DOMAIN inq = 1 .. Len(inq) /\ buffer \in Seq(Nat) /\ Len(buffer) \in Nat
        /\ sent \in Seq(Nat)
    <3>1. inq \in Seq(GivenWord) /\ buffer \in Seq(Nat) /\ toB \in Seq(SentWord)
      BY DEF Fit, Numbered
    <3>2. sent \in Seq(Nat)
      BY <3>1, PlainIs
    <3>3. DOMAIN inq = 1 .. Len(inq) /\ Len(buffer) \in Nat
      BY <3>1, LenProperties
    <3> HIDE DEF sent
    <3>4. Came + Len(inq) = Len(due) /\ Came \in Nat
      BY UptoIsNat DEF Came
    <3> QED BY <3>1, <3>2, <3>3, <3>4, UptoIsNat
  <2>2. WordsInOrder <=> IF phase = "gone" THEN \E n \in 0 .. Len(due) : First(n, sent)
                         ELSE First(Len(due), sent \o inRing \o buffer \o rest)
    BY <2>1 DEF WordsInOrder, Plain
  <2>3. \A s : \A n \in Nat : Run(0, n, s) => First(n, s)
    BY DEF Run, First
  <2>4. CASE phase = "gone"
    <3> HIDE DEF sent
    <3>1. PICK n \in 0 .. Len(due) : Run(0, n, sent)
      BY <2>4 DEF Ordered, sent
    <3> QED BY <2>2, <2>3, <2>4, <3>1, <2>1
  <2>5. CASE phase # "gone"
    <3>1. /\ m \in Nat /\ m <= Came /\ Run(0, m, sent) /\ User(Contents(out))
          /\ m + Len(buffer) = Came
          /\ \A k \in 1 .. Len(buffer) : buffer[k] = m + k
      <4>1. Len(buffer) <= Came
        BY <2>5 DEF Ordered
      <4>2. m \in Nat /\ m <= Came /\ m + Len(buffer) = Came
        BY <4>1, <2>1
      <4> QED BY <4>2, <2>5 DEF Ordered
    <3>2. inRing \in Seq(Nat) /\ User(inRing)
      <4>1. Sound(out)
        BY DEF Fit
      <4>2. CASE Size(out) = 0
        BY <4>2, EmptySeq DEF User
      <4>3. CASE Size(out) # 0
        <5>1. Size(out) > 0
          BY <4>1, <4>3, HeadPlace
        <5>2. inRing = Contents(out)
          BY <4>1, <4>3, <5>1, GetIovGives
        <5> QED BY <4>1, <5>2, <3>1, ContentsIs
      <4> QED BY <4>2, <4>3
    <3>3. rest \in Seq(Nat) /\ Len(rest) = Len(inq) /\ \A k \in 1 .. Len(inq) : rest[k] = Came + k
      <4>1. \A k \in 1 .. Len(inq) : inq[k].word = Came + k
        BY DEF Numbered, Came
      <4> DEFINE e(k) == inq[k].word
      <4>2. \A k \in 1 .. Len(inq) : e(k) \in Nat
        BY <4>1, <2>1
      <4>3. rest = [k \in 1 .. Len(inq) |-> e(k)]
        OBVIOUS
      <4> HIDE DEF e
      <4>4. /\ [k \in 1 .. Len(inq) |-> e(k)] \in Seq(Nat)
            /\ Len([k \in 1 .. Len(inq) |-> e(k)]) = Len(inq)
        BY <4>2, <2>1
      <4> QED BY <4>1, <4>3, <4>4
    <3> HIDE DEF sent, inRing, rest, m
    <3>4. Run(m, m, inRing)
      <4>1. Len(inRing) \in Nat
        BY <3>2, LenProperties
      <4>2. Mixed(inRing, Len(inRing), m)
        BY <3>2, <4>1 DEF Mixed, User
      <4>3. (IF Len(inRing) <= Len(inRing) THEN m ELSE m + (Len(inRing) - Len(inRing))) = m
        BY <4>1
      <4> QED BY <4>1, <4>2, <4>3, <3>1, <3>2, RunMixed
    <3>5. Run(m, Came, buffer)
      <4>1. Mixed(buffer, 0, m)
        BY <3>1, <2>1 DEF Mixed
      <4>2. (IF Len(buffer) <= 0 THEN m ELSE m + (Len(buffer) - 0)) = Came
        BY <3>1, <2>1
      <4> QED BY <4>1, <4>2, <3>1, <2>1, RunMixed
    <3>6. Run(Came, Len(due), rest)
      <4>1. Mixed(rest, 0, Came)
        BY <3>3, <2>1 DEF Mixed
      <4>2. (IF Len(rest) <= 0 THEN Came ELSE Came + (Len(rest) - 0)) = Len(due)
        BY <3>3, <2>1
      <4> QED BY <4>1, <4>2, <3>3, <2>1, RunMixed
    <3>7. sent \o inRing \in Seq(Nat) /\ Run(0, m, sent \o inRing)
      <4>1. 0 \in Nat /\ 0 <= m /\ m <= m
        BY <3>1
      <4>2. Run(0, m, sent \o inRing)
        BY <4>1, <2>1, <3>1, <3>2, <3>4, RunCat
      <4> QED BY <4>2, <2>1, <3>2, ConcatProperties
    <3>8. (sent \o inRing) \o buffer \in Seq(Nat) /\ Run(0, Came, (sent \o inRing) \o buffer)
      <4>1. 0 \in Nat /\ 0 <= m
        BY <3>1
      <4>2. Run(0, Came, (sent \o inRing) \o buffer)
        BY <4>1, <2>1, <3>1, <3>5, <3>7, RunCat
      <4> QED BY <4>2, <2>1, <3>7, ConcatProperties
    <3>9. Came <= Len(due) /\ 0 \in Nat /\ 0 <= Came
      BY <2>1
    <3>10. Run(0, Len(due), ((sent \o inRing) \o buffer) \o rest)
      BY <2>1, <3>3, <3>6, <3>8, <3>9, RunCat
    <3>11. First(Len(due), sent \o inRing \o buffer \o rest)
      BY <3>10, <2>1, <2>3
    <3> QED BY <2>2, <2>5, <3>11
  <2> QED BY <2>4, <2>5
<1> QED BY <1>1, SpecFits, SpecOrders, PTL

-----------------------------------------------------------------------------
(* Descriptors come in time. *)

\* A passes no more at once than a sendmsg takes.
Few == \A k \in 1 .. Len(inq) : Len(inq[k].fds) <= MaxFds

\* The descriptors behind the mth up to the nth.
LEMMA FromToIs ==
    ASSUME NEW m \in Nat, NEW n \in Nat, m <= n
    PROVE  /\ FromTo(m, n) \in Seq(Nat) /\ Len(FromTo(m, n)) = n - m
           /\ \A j \in 1 .. n - m : FromTo(m, n)[j] = m + j
           /\ Range(FromTo(m, n)) = m + 1 .. n
<1> DEFINE s == FromTo(m, n)
<1>1. n - m \in Nat /\ DOMAIN s = 1 .. n - m /\ \A j \in 1 .. n - m : s[j] = m + j
  BY DEF FromTo
<1>2. s \in Seq(Nat) /\ Len(s) = n - m
  BY <1>1 DEF FromTo
<1> HIDE DEF s
<1>3. \A x \in Range(s) : x \in m + 1 .. n
  <2> SUFFICES ASSUME NEW j \in 1 .. n - m PROVE s[j] \in m + 1 .. n
    BY <1>1 DEF Range
  <2>1. m + j \in m + 1 .. n
    BY <1>1
  <2> QED BY <2>1, <1>1
<1>4. \A x \in m + 1 .. n : x \in Range(s)
  <2> SUFFICES ASSUME NEW x \in m + 1 .. n PROVE x \in Range(s)
    OBVIOUS
  <2>1. x - m \in 1 .. n - m /\ m + (x - m) = x
    BY <1>1
  <2>2. s[x - m] = x
    BY <2>1, <1>1
  <2> QED BY <2>1, <2>2, <1>1 DEF Range
<1>5. Range(s) = m + 1 .. n
  BY <1>3, <1>4
<1> QED BY <1>1, <1>2, <1>5 DEF s

\* The ones behind the others.
LEMMA FromToCat ==
    ASSUME NEW l \in Nat, NEW m \in Nat, NEW n \in Nat, l <= m, m <= n
    PROVE  FromTo(l, m) \o FromTo(m, n) = FromTo(l, n)
<1> DEFINE s == FromTo(l, m)
           t == FromTo(m, n)
           c == FromTo(l, n)
<1>1. /\ s \in Seq(Nat) /\ Len(s) = m - l /\ \A j \in 1 .. m - l : s[j] = l + j
      /\ t \in Seq(Nat) /\ Len(t) = n - m /\ \A j \in 1 .. n - m : t[j] = m + j
      /\ c \in Seq(Nat) /\ Len(c) = n - l /\ \A j \in 1 .. n - l : c[j] = l + j
  <2>1. l <= n
    OBVIOUS
  <2> QED BY <2>1, FromToIs
<1> HIDE DEF s, t, c
<1>2. /\ s \o t \in Seq(Nat) /\ Len(s \o t) = Len(s) + Len(t)
      /\ \A k \in 1 .. Len(s) + Len(t) : (s \o t)[k] = IF k <= Len(s) THEN s[k] ELSE t[k - Len(s)]
  BY <1>1, ConcatProperties
<1>3. Len(s) + Len(t) = n - l
  BY <1>1
<1>4. \A k \in 1 .. n - l : (s \o t)[k] = c[k]
  <2> SUFFICES ASSUME NEW k \in 1 .. n - l PROVE (s \o t)[k] = c[k]
    OBVIOUS
  <2>1. CASE k <= m - l
    <3>1. k \in 1 .. m - l
      BY <2>1
    <3> QED BY <3>1, <2>1, <1>1, <1>2, <1>3
  <2>2. CASE ~(k <= m - l)
    <3>1. k - (m - l) \in 1 .. n - m /\ m + (k - (m - l)) = l + k
      BY <2>2
    <3>2. (s \o t)[k] = t[k - (m - l)]
      BY <2>2, <1>1, <1>2, <1>3
    <3> QED BY <3>1, <3>2, <1>1
  <2> QED BY <2>1, <2>2
<1>5. s \o t = c
  BY <1>1, <1>2, <1>3, <1>4, SeqEqual
<1> QED BY <1>5 DEF s, t, c

\* As many as there are.
LEMMA FromToNone ==
    ASSUME NEW m \in Nat, NEW n \in Nat, m <= n
    PROVE  (Len(FromTo(m, n)) = 0 <=> m = n) /\ FromTo(m, m) = <<>>
<1>1. Len(FromTo(m, n)) = n - m /\ Len(FromTo(m, m)) = m - m /\ FromTo(m, m) \in Seq(Nat)
  <2>1. Len(FromTo(m, n)) = n - m
    BY FromToIs
  <2>2. PICK k \in Nat : k = m /\ m <= k
    OBVIOUS
  <2>3. FromTo(m, k) \in Seq(Nat) /\ Len(FromTo(m, k)) = k - m
    BY <2>2, FromToIs
  <2> QED BY <2>1, <2>2, <2>3
<1>2. Len(FromTo(m, m)) = 0
  BY <1>1
<1> QED BY <1>1, <1>2, EmptySeq

\* What a read gets of descriptors is what was passed at once, or nothing.
LEMMA LotFew ==
    ASSUME NEW s \in Seq(GivenWord), \A k \in 1 .. Len(s) : Len(s[k].fds) <= MaxFds
    PROVE  Len(Lot(s)) <= MaxFds
<1>1. CASE Carriers(s) = {}
  <2>1. Len(Lot(s)) = 0
    BY <1>1 DEF Lot
  <2> QED BY <2>1, RingsAssumption
<1>2. CASE Carriers(s) # {}
  <2> DEFINE k == CHOOSE k \in Carriers(s) : TRUE
  <2>1. k \in Carriers(s)
    BY <1>2
  <2>2. Lot(s) = s[k].fds
    BY <1>2 DEF Lot
  <2> HIDE DEF k
  <2>3. k \in 1 .. Len(s)
    BY <2>1, LenProperties DEF Carriers
  <2> QED BY <2>2, <2>3
<1> QED BY <1>1, <1>2

LEMMA FewStep ==
    ASSUME Fit, Numbered, Few, Next
    PROVE  Few'
<1>1. Len(inq) \in Nat /\ inq \in Seq(GivenWord)
  BY UptoIsNat DEF Numbered
<1>2. CASE PeerRead \/ CopyFds \/ Forward \/ Inject \/ Destroy
  <2>1. inq' = inq
    BY <1>2, OthersOpenNothing
  <2> QED BY <2>1 DEF Few
<1>3. CASE PeerWrite
  <2>1. PICK n \in 1 .. 2, f \in Nat :
           /\ f <= MaxFds /\ Len(inq') = Len(inq) + n
           /\ \A k \in 1 .. Len(inq) : inq'[k] = inq[k]
           /\ \A k \in 1 .. n :
                 inq'[Len(inq) + k].fds = IF k = 1 THEN FromTo(Given, Given + f) ELSE <<>>
    BY <1>3, PeerWriteIs
  <2>2. Given \in Nat /\ MaxFds \in Nat
    BY UptoIsNat, RingsAssumption
  <2>3. Len(FromTo(Given, Given + f)) = f
    <3>1. Given + f \in Nat /\ Given <= Given + f /\ (Given + f) - Given = f
      BY <2>2
    <3> QED BY <3>1, <2>2, FromToIs
  <2>4. \A k \in 1 .. n : Len(inq'[Len(inq) + k].fds) <= MaxFds
    <3>1. Len(<<>>) <= MaxFds
      BY <2>2
    <3> QED BY <2>1, <2>2, <2>3, <3>1
  <2>5. ASSUME NEW k \in 1 .. Len(inq') PROVE Len(inq'[k].fds) <= MaxFds
    <3>1. CASE k <= Len(inq)
      <4>1. k \in 1 .. Len(inq)
        BY <3>1, <2>1, <1>1
      <4> QED BY <4>1, <2>1 DEF Few
    <3>2. CASE ~(k <= Len(inq))
      <4>1. k - Len(inq) \in 1 .. n /\ Len(inq) + (k - Len(inq)) = k
        BY <3>2, <2>1, <1>1
      <4>2. Len(inq'[Len(inq) + (k - Len(inq))].fds) <= MaxFds
        BY <4>1, <2>4
      <4> QED BY <4>1, <4>2
    <3> QED BY <3>1, <3>2
  <2> QED BY <2>5 DEF Few
<1>4. CASE Receive
  <2>1. PICK n \in Nat, fds \in Seq(Nat) : Receiving(n, fds)
    BY <1>4, ReceiveIs
  <2>2. inq' = SubSeq(inq, n + 1, Len(inq)) /\ n \in 0 .. Len(inq)
    BY <2>1, <1>1 DEF Receiving
  <2>3. /\ Len(inq') = Len(inq) - n
        /\ \A k \in 1 .. Len(inq) - n : inq'[k] = inq[n + k] /\ n + k \in 1 .. Len(inq)
    <3>1. /\ Len(inq') = Len(inq) - n
          /\ \A k \in 1 .. Len(inq) - n : inq'[k] = inq[n + k]
      BY <2>2, <1>1, RestOf
    <3> QED BY <3>1, <2>2, <1>1
  <2> QED BY <2>3 DEF Few
<1> QED BY <1>2, <1>3, <1>4 DEF Next

LEMMA SpecFew == Spec => []Few
<1>1. Init => Few
  <2> SUFFICES ASSUME Init PROVE Few
    OBVIOUS
  <2>1. Len(inq) = 0
    BY DEF Init
  <2> QED BY <2>1 DEF Few
<1>2. Fit /\ Numbered /\ Few /\ [Next]_vars => Few'
  <2>1. ASSUME Few, UNCHANGED vars PROVE Few'
    BY <2>1 DEF Few, vars
  <2> QED BY <2>1, FewStep
<1> QED BY <1>1, <1>2, SpecFits, PTL DEF Spec

\* Each word was sent with the descriptors A passed up to it, or behind them.
Timely(s) == \A i \in 1 .. Len(s) : s[i].word \in 0 .. Came /\ Upto(due, s[i].word) <= s[i].fds

\* Descriptors up to some p were sent, those up to q are in the ring to B, in order,
\* and all that came and were not sent are open; of words up to the bth to send.
Pass(ring, fds, words, given, opened, q, b) ==
    /\ \E p \in 0 .. q : /\ q - p <= MaxFds /\ given = FromTo(0, p)
                         /\ Contents(fds) = FromTo(p, q) /\ opened = p + 1 .. Come
    /\ Timely(words)
    /\ \A k \in 1 .. Len(Contents(ring)) : Contents(ring)[k] \in 0 .. b

Passing(c, q, b) == Pass(c.out, c.fds, c.toB, c.fdsToB, c.open, q, b)

\* The words of a stretch of words are among them.
LEMMA Within ==
    ASSUME NEW s \in Seq(Nat), NEW n \in 0 .. Len(s), NEW b \in Nat,
           \A k \in 1 .. Len(s) : s[k] \in 0 .. b
    PROVE  LET t == SubSeq(s, n + 1, Len(s)) IN \A k \in 1 .. Len(t) : t[k] \in 0 .. b
<1> DEFINE t == SubSeq(s, n + 1, Len(s))
<1>1. Len(t) = Len(s) - n /\ \A k \in 1 .. Len(s) - n : t[k] = s[n + k]
  BY RestOf
<1> HIDE DEF t
<1>2. Len(s) \in Nat
  BY LenProperties
<1>3. \A k \in 1 .. Len(s) - n : n + k \in 1 .. Len(s)
  BY <1>2
<1>4. \A k \in 1 .. Len(t) : t[k] \in 0 .. b
  BY <1>1, <1>3
<1> QED BY <1>4 DEF t

\* A sendmsg takes all descriptors along, and its words are not behind them.
LEMMA TakenPasses ==
    ASSUME Numbered, NEW c \in Sending, NEW d \in Sending,
           NEW n \in 1 .. Size(c.out), Taken(c, d, n),
           NEW q \in 0 .. Come, NEW b \in 0 .. Came, Upto(due, b) <= q, Passing(c, q, b)
    PROVE  Passing(d, q, b)
<1> DEFINE s == Contents(c.out)
<1>1. /\ Come \in Nat /\ Came \in Nat /\ Came <= Len(due) /\ q \in Nat /\ b \in Nat
      /\ \A v \in 0 .. Len(due) : Upto(due, v) \in Nat
  <2>1. /\ Come \in Nat /\ Len(due) \in Nat /\ Len(inq) \in Nat /\ Len(due) - Len(inq) \in Nat
        /\ \A v \in 0 .. Len(due) : Upto(due, v) \in Nat
    BY UptoIsNat
  <2> QED BY <2>1 DEF Came
<1>2. /\ Sound(c.out) /\ Sound(c.fds) /\ Sound(d.fds) /\ Sound(d.out)
      /\ c.toB \in Seq(SentWord) /\ c.fdsToB \in Seq(Nat)
  BY DEF Sending, Sound
<1>3. /\ s \in Seq(Nat) /\ Len(s) = Size(c.out) /\ Size(c.out) \in Nat
      /\ \A k \in 1 .. Len(s) : s[k] \in 0 .. b
  <2>1. s \in Seq(Nat) /\ Len(s) = Size(c.out) /\ Size(c.out) \in Nat
    BY <1>2, ContentsIs, HeadPlace
  <2> QED BY <2>1 DEF Passing, Pass
<1>4. PICK p \in 0 .. q : /\ q - p <= MaxFds /\ c.fdsToB = FromTo(0, p)
                          /\ Contents(c.fds) = FromTo(p, q) /\ c.open = p + 1 .. Come
  BY DEF Passing, Pass
<1>5. /\ p \in Nat /\ p <= q /\ 0 \in Nat /\ 0 <= p
      /\ Contents(c.fds) \in Seq(Nat) /\ Len(Contents(c.fds)) = Size(c.fds)
      /\ Size(c.fds) = q - p /\ Range(Contents(c.fds)) = p + 1 .. q
  <2>1. p \in Nat /\ p <= q /\ 0 \in Nat /\ 0 <= p
    BY <1>1, <1>4
  <2>2. Len(FromTo(p, q)) = q - p /\ Range(FromTo(p, q)) = p + 1 .. q
    BY <2>1, <1>1, FromToIs
  <2> QED BY <2>1, <2>2, <1>2, <1>4, ContentsIs
<1>6. Riding(c.fds) = FromTo(p, q)
  <2>1. Least(Size(c.fds), MaxFds) = Len(Contents(c.fds))
    BY <1>4, <1>5 DEF Least
  <2> QED BY <2>1, <1>4, <1>5, AllOf DEF Riding
<1>7. d.fdsToB = FromTo(0, q) /\ Len(d.fdsToB) = q
  <2>1. d.fdsToB = FromTo(0, p) \o FromTo(p, q)
    BY <1>4, <1>6 DEF Taken
  <2>2. d.fdsToB = FromTo(0, q)
    <3>1. 0 \in Nat /\ p \in Nat /\ q \in Nat /\ 0 <= p /\ p <= q
      BY <1>1, <1>5
    <3>2. FromTo(0, p) \o FromTo(p, q) = FromTo(0, q)
      BY <3>1, FromToCat, Zenon
    <3> QED BY <2>1, <3>2
  <2>3. Len(FromTo(0, q)) = q - 0
    <3>1. 0 \in Nat /\ q \in Nat /\ 0 <= q
      BY <1>1
    <3> QED BY <3>1, FromToIs, Zenon
  <2> QED BY <2>2, <2>3, <1>1
<1>8. d.open = q + 1 .. Come
  <2>1. d.open = (p + 1 .. Come) \ (p + 1 .. q)
    BY <1>4, <1>5, <1>6 DEF Taken
  <2> QED BY <2>1, <1>1, <1>5
<1>9. Contents(d.fds) = FromTo(q, q)
  <2>1. Len(Contents(d.fds)) = 0 /\ Contents(d.fds) \in Seq(Nat)
    BY <1>2, ContentsIs DEF Taken
  <2>2. FromTo(q, q) = <<>>
    BY <1>1, FromToNone
  <2> QED BY <2>1, <2>2, EmptySeq
<1>10. Timely(d.toB)
  <2> DEFINE f == Len(d.fdsToB)
             e(k) == [word |-> s[k], fds |-> f]
             added == [k \in 1 .. n |-> e(k)]
  <2>1. d.toB = c.toB \o added
    BY DEF Taken
  <2>2. \A k \in 1 .. n : k \in 1 .. Len(s)
    BY <1>3
  <2>3. \A k \in 1 .. n : e(k).word = s[k] /\ e(k).fds = q /\ e(k) \in SentWord
    BY <1>1, <1>3, <1>7, <2>2 DEF SentWord
  <2> HIDE DEF e, s
  <2>4. added \in Seq(SentWord) /\ Len(added) = n /\ \A k \in 1 .. n : added[k] = e(k)
    BY <2>3
  <2> HIDE DEF added
  <2>5. /\ Len(c.toB \o added) = Len(c.toB) + n
        /\ \A i \in 1 .. Len(c.toB) + n :
              (c.toB \o added)[i] = IF i <= Len(c.toB) THEN c.toB[i] ELSE added[i - Len(c.toB)]
    BY <1>2, <2>4, ConcatProperties
  <2>6. Len(c.toB) \in Nat
    BY <1>2, LenProperties
  <2>7. \A k \in 1 .. n : s[k] \in 0 .. Came /\ Upto(due, s[k]) <= q
    <3> SUFFICES ASSUME NEW k \in 1 .. n PROVE s[k] \in 0 .. Came /\ Upto(due, s[k]) <= q
      OBVIOUS
    <3>1. s[k] \in 0 .. b
      BY <1>3, <2>2
    <3>2. s[k] \in 0 .. Came /\ s[k] <= b /\ s[k] \in 0 .. Len(due) /\ b \in 0 .. Len(due)
      BY <3>1, <1>1
    <3>3. Upto(due, s[k]) <= Upto(due, b)
      BY <3>2 DEF Numbered
    <3>4. Upto(due, s[k]) \in Nat /\ Upto(due, b) \in Nat
      BY <3>2, <1>1
    <3> QED BY <3>2, <3>3, <3>4, <1>1
  <2>8. ASSUME NEW i \in 1 .. Len(c.toB) + n
        PROVE  (c.toB \o added)[i].word \in 0 .. Came /\ Upto(due, (c.toB \o added)[i].word) <= (c.toB \o added)[i].fds
    <3>1. CASE i <= Len(c.toB)
      <4>1. i \in 1 .. Len(c.toB)
        BY <3>1, <2>6
      <4>2. c.toB[i].word \in 0 .. Came /\ Upto(due, c.toB[i].word) <= c.toB[i].fds
        BY <4>1 DEF Passing, Pass, Timely
      <4> QED BY <3>1, <4>2, <2>5
    <3>2. CASE ~(i <= Len(c.toB))
      <4>1. i - Len(c.toB) \in 1 .. n
        BY <3>2, <2>6
      <4>2. (c.toB \o added)[i] = e(i - Len(c.toB))
        BY <3>2, <4>1, <2>4, <2>5
      <4> QED BY <4>1, <4>2, <2>3, <2>7
    <3> QED BY <3>1, <3>2
  <2> QED BY <2>1, <2>5, <2>8 DEF Timely
<1>11. \A k \in 1 .. Len(Contents(d.out)) : Contents(d.out)[k] \in 0 .. b
  <2>1. Contents(d.out) = SubSeq(s, n + 1, Len(s))
    BY <1>3 DEF Taken
  <2>2. n \in 0 .. Len(s)
    BY <1>3
  <2> HIDE DEF s
  <2> QED BY <2>1, <2>2, <1>1, <1>3, Within
<1>12. q \in 0 .. q /\ q - q <= MaxFds
  BY <1>1, RingsAssumption
<1> QED BY <1>7, <1>8, <1>9, <1>10, <1>11, <1>12 DEF Passing, Pass

LEMMA FlushPasses ==
    ASSUME Numbered, NEW c \in Sending, NEW d \in Sending, d = c \/ Flushing(c, d),
           NEW q \in 0 .. Come, NEW b \in 0 .. Came, Upto(due, b) <= q, Passing(c, q, b)
    PROVE  Passing(d, q, b)
<1>1. CASE d = c
  BY <1>1
<1>2. CASE d = [c EXCEPT !.ok = FALSE]
  <2>1. d.out = c.out /\ d.fds = c.fds /\ d.toB = c.toB /\ d.fdsToB = c.fdsToB /\ d.open = c.open
    BY <1>2 DEF Sending
  <2> QED BY <2>1 DEF Passing
<1>3. CASE \E n \in 1 .. Size(c.out) : Taken(c, d, n)
  BY <1>3, TakenPasses
<1> QED BY <1>1, <1>2, <1>3 DEF Flushing

\* A write changes nothing about descriptors, but for those a flush took along.
LEMMA PutPasses ==
    ASSUME Fit, Numbered, NEW w \in Sending, NEW words \in Seq(Nat), Putting(w, words),
           NEW q \in 0 .. Come, NEW b \in 0 .. Came, Upto(due, b) <= q,
           Passing(Unflushed, q, 0), \A k \in 1 .. Len(words) : words[k] \in 0 .. b
    PROVE  Passing(w, q, b)
<1>1. PICK r \in Sending : (r = Unflushed \/ Flushing(Unflushed, r)) /\ Written(r, w, words)
  BY DEF Putting
<1>2. /\ Came \in Nat /\ b \in Nat /\ Come \in Nat /\ q \in Nat /\ 0 \in 0 .. Came
      /\ Upto(due, 0) <= q /\ 0 .. 0 \subseteq 0 .. b
  <2>1. Came \in Nat /\ Come \in Nat
    BY UptoIsNat DEF Came
  <2> QED BY <2>1 DEF Upto
<1>3. Passing(r, q, 0)
  BY <1>1, <1>2, UnflushedIs, FlushPasses
<1>4. Passing(r, q, b)
  BY <1>2, <1>3 DEF Passing, Pass
<1>5. CASE w = [r EXCEPT !.ok = FALSE]
  <2>1. w.out = r.out /\ w.fds = r.fds /\ w.toB = r.toB /\ w.fdsToB = r.fdsToB /\ w.open = r.open
    BY <1>5 DEF Sending
  <2> QED BY <2>1, <1>4 DEF Passing
<1>6. CASE /\ w = [r EXCEPT !.out = Put(@, words)]
           /\ Contents(w.out) = Contents(r.out) \o words
  <2>1. w.fds = r.fds /\ w.toB = r.toB /\ w.fdsToB = r.fdsToB /\ w.open = r.open
    BY <1>6 DEF Sending
  <2> DEFINE s == Contents(r.out)
  <2>2. s \in Seq(Nat) /\ Len(s) \in Nat /\ Len(words) \in Nat
    BY ContentsIs, LenProperties DEF Sending, Sound
  <2>3. \A k \in 1 .. Len(s) : s[k] \in 0 .. b
    BY <1>4 DEF Passing, Pass
  <2>4. Contents(w.out) = s \o words
    BY <1>6
  <2> HIDE DEF s
  <2>5. /\ Len(s \o words) = Len(s) + Len(words)
        /\ \A k \in 1 .. Len(s) + Len(words) :
              (s \o words)[k] = IF k <= Len(s) THEN s[k] ELSE words[k - Len(s)]
    BY <2>2, ConcatProperties
  <2>6. ASSUME NEW k \in 1 .. Len(s) + Len(words) PROVE (s \o words)[k] \in 0 .. b
    <3>1. CASE k <= Len(s)
      <4>1. k \in 1 .. Len(s)
        BY <3>1, <2>2
      <4> QED BY <3>1, <4>1, <2>3, <2>5
    <3>2. CASE ~(k <= Len(s))
      <4>1. k - Len(s) \in 1 .. Len(words)
        BY <3>2, <2>2
      <4> QED BY <3>2, <4>1, <2>5
    <3> QED BY <3>1, <3>2
  <2> QED BY <2>1, <2>4, <2>5, <2>6, <1>4 DEF Passing, Pass
<1> QED BY <1>1, <1>5, <1>6 DEF Written

\* Nothing was mixed up: the ring for what comes has not gone round, and no flush
\* failed when descriptors were to go.
Right == Come <= RingSize /\ ~held

\* What came and was not sent is in a ring, in order, wherever the step stands.
Piped ==
    /\ phase # "gone" => fds_in.head = Come
    /\ phase \in {"idle", "loop"} =>
          Size(fds_in) = 0 /\ Pass(out, fds_out, toB, fdsToB, open, Come, 0)
    /\ phase = "read" => \E p \in 0 .. Come :
          /\ Come - p <= MaxFds /\ Contents(fds_in) = FromTo(p, Come)
          /\ Pass(out, fds_out, toB, fdsToB, open, p, 0)
    /\ phase = "gone" => /\ \E p \in Nat : fdsToB = FromTo(0, p)
                         /\ Timely(toB) /\ open = {}
                         /\ Size(fds_in) = 0 /\ Size(fds_out) = 0

\* Nothing that was mixed up is put right.
LEMMA RightBefore ==
    ASSUME Fit, Numbered, Next, Right'
    PROVE  Right
<1>1. Come \in Nat /\ RingSize \in Nat /\ Len(due) \in Nat /\ Len(inq) \in Nat
      /\ Len(due) - Len(inq) \in Nat /\ Come = Upto(due, Len(due) - Len(inq))
      /\ \A v \in 0 .. Len(due) : Upto(due, v) \in Nat
  BY UptoIsNat, Rounds
<1>2. Numbered'
  BY NumberedStep
<1>3. Come' = Upto(due', Len(due') - Len(inq'))
  <2>1. due' \in Seq(Nat) /\ inq' \in Seq(GivenWord) /\ Len(inq') <= Len(due')
    BY <1>2 DEF Numbered
  <2>2. Len(due') \in Nat /\ Len(inq') \in Nat
    BY <2>1, LenProperties
  <2> QED BY <2>1, <2>2 DEF Come, Upto
<1>4. CASE PeerWrite
  <2>1. PICK n \in 1 .. 2, f \in Nat : /\ Len(due') = Len(due) + n /\ Len(inq') = Len(inq) + n
                                       /\ \A v \in 0 .. Len(due) : Upto(due', v) = Upto(due, v)
    BY <1>4, PeerWriteIs
  <2>2. Len(due') - Len(inq') = Len(due) - Len(inq) /\ Len(due) - Len(inq) \in 0 .. Len(due)
    BY <2>1, <1>1
  <2>3. Come' = Come
    BY <1>1, <1>3, <2>1, <2>2
  <2>4. held' = held
    BY <1>4 DEF PeerWrite
  <2> QED BY <2>3, <2>4 DEF Right
<1>5. CASE PeerRead \/ CopyFds \/ Forward \/ Inject \/ Destroy
  <2>1. inq' = inq /\ due' = due
    BY <1>5, OthersOpenNothing
  <2>2. Come' = Come
    BY <1>1, <1>3, <2>1
  <2>3. held => held'
    <3>1. CASE PeerRead \/ Inject \/ Destroy \/ Forward
      BY <3>1 DEF PeerRead, Inject, Destroy, Forward
    <3>2. CASE CopyFds
      <4>1. held' = held \/ held' = TRUE
        BY <3>2, CopyFdsIs
      <4> QED BY <4>1
    <3> QED BY <1>5, <3>1, <3>2
  <2> QED BY <2>2, <2>3 DEF Right
<1>6. CASE Receive
  <2>1. PICK n \in Nat, fds \in Seq(Nat) : Receiving(n, fds)
    BY <1>6, ReceiveIs
  <2>2. inq' = SubSeq(inq, n + 1, Len(inq)) /\ n \in 0 .. Len(inq) /\ inq \in Seq(GivenWord)
    BY <2>1, <1>1 DEF Receiving, Numbered
  <2>3. Len(inq') = Len(inq) - n
    BY <2>2, RestOf
  <2>4. due' = due /\ held' = held
    BY <1>6 DEF Receive
  <2> DEFINE v == Len(due) - Len(inq)
             w == Len(due') - Len(inq')
  <2>5. v \in 0 .. Len(due) /\ w \in 0 .. Len(due) /\ v <= w
    BY <1>1, <2>2, <2>3, <2>4
  <2>6. Come = Upto(due, v) /\ Come' = Upto(due, w)
    BY <1>1, <1>3, <2>4
  <2> HIDE DEF v, w
  <2>7. Upto(due, v) <= Upto(due, w) /\ Upto(due, w) \in Nat
    BY <2>5, <1>1 DEF Numbered
  <2> QED BY <1>1, <2>4, <2>6, <2>7 DEF Right
<1> QED BY <1>4, <1>5, <1>6 DEF Next

\* When the connection goes, the descriptors that were not sent are closed.
LEMMA TeardownPasses ==
    ASSUME Fit, Numbered, NEW c \in Sending, Teardown(c), Sent(c),
           UNCHANGED <<due, inq>>, Size(fds_in) = 0,
           NEW b \in Nat, Passing(c, Come, b)
    PROVE  Piped'
<1>1. /\ phase' = "gone" /\ Size(fds_in') = 0 /\ Size(fds_out') = 0
      /\ open' = (c.open \ Range(Contents(c.fds))) \ Range(Contents(fds_in))
      /\ fdsToB' = c.fdsToB /\ toB' = c.toB
  BY TeardownIs DEF Sent
<1>2. Come \in Nat
  BY UptoIsNat
<1>3. PICK p \in 0 .. Come : /\ c.fdsToB = FromTo(0, p) /\ Contents(c.fds) = FromTo(p, Come)
                             /\ c.open = p + 1 .. Come
  BY DEF Passing, Pass
<1>4. p \in Nat /\ p <= Come
  BY <1>2, <1>3
<1>5. open' = {}
  <2>1. Range(FromTo(p, Come)) = p + 1 .. Come
    BY <1>2, <1>4, FromToIs
  <2> QED BY <1>1, <1>3, <2>1
<1>6. Timely(toB)'
  <2>1. Timely(c.toB)
    BY DEF Passing, Pass
  <2> QED BY <1>1, <2>1 DEF Timely, Came
<1> QED BY <1>1, <1>3, <1>4, <1>5, <1>6 DEF Piped

\* What was sent in time stays so when more comes.
LEMMA TimelyOn ==
    ASSUME Numbered, Numbered', Timely(toB), toB' = toB, Came <= Came',
           \A v \in 0 .. Len(due) : Upto(due', v) = Upto(due, v)
    PROVE  Timely(toB)'
<1>1. Came \in Nat /\ Came' \in Nat /\ Came <= Len(due) /\ Len(due) \in Nat
  <2>1. Len(due) \in Nat /\ Len(inq) \in Nat /\ Len(inq) <= Len(due)
    BY LenProperties DEF Numbered
  <2>2. Len(due') \in Nat /\ Len(inq') \in Nat /\ Len(inq') <= Len(due')
    BY LenProperties DEF Numbered
  <2> QED BY <2>1, <2>2 DEF Came
<1>2. 0 .. Came \subseteq 0 .. Came' /\ 0 .. Came \subseteq 0 .. Len(due)
  BY <1>1
<1> QED BY <1>2 DEF Timely

\* A read of descriptors puts those behind that come next.
LEMMA ReceivePipes ==
    ASSUME Fit, Numbered, Numbered', Few, Piped, Right, Right', Receive
    PROVE  Piped'
<1>1. PICK n \in Nat, fds \in Seq(Nat) : Receiving(n, fds)
  BY ReceiveIs
<1>2. /\ phase = "idle" /\ UNCHANGED <<out, toB, fdsToB, unread, due>>
      /\ n \in 1 .. Len(inq) /\ inq' = SubSeq(inq, n + 1, Len(inq))
      /\ inq \in Seq(GivenWord) /\ Len(inq) \in Nat /\ n \in 0 .. Len(inq)
  <2>1. phase = "idle" /\ UNCHANGED <<out, toB, fdsToB, unread, due>>
    BY DEF Receive
  <2>2. n \in 1 .. Len(inq) /\ inq' = SubSeq(inq, n + 1, Len(inq))
    BY <1>1 DEF Receiving
  <2>3. inq \in Seq(GivenWord) /\ Len(inq) \in Nat
    BY UptoIsNat DEF Numbered
  <2> QED BY <2>1, <2>2, <2>3
<1>3. /\ Came \in Nat /\ Came = Len(due) - Len(inq) /\ Came' = Came + n /\ Came + n <= Len(due)
      /\ Came \in 0 .. Len(due) /\ Came + n \in 0 .. Len(due)
  <2>1. Len(inq') = Len(inq) - n
    BY <1>2, RestOf
  <2>2. Len(due) \in Nat /\ Len(due) - Len(inq) \in Nat
    BY UptoIsNat
  <2>3. Came = Len(due) - Len(inq) /\ Came' = Len(due) - Len(inq')
    BY <1>2 DEF Came
  <2> QED BY <1>2, <2>1, <2>2, <2>3
<1>4. Come = Upto(due, Came) /\ Come' = Upto(due, Came + n) /\ Come \in Nat /\ Come' \in Nat
      /\ Come <= Come' /\ Come' <= RingSize
  <2>1. Come = Upto(due, Came) /\ Come \in Nat /\ Upto(due, Came + n) \in Nat
    BY <1>3, UptoIsNat
  <2>2. Come' = Upto(due, Came + n)
    <3>1. due' \in Seq(Nat) /\ inq' \in Seq(GivenWord)
      BY DEF Numbered
    <3>2. Len(due') - Len(inq') = Came + n
      BY <1>3 DEF Came
    <3> QED BY <1>2, <3>2 DEF Come, Upto
  <2>3. Upto(due, Came) <= Upto(due, Came + n)
    <3>1. Came <= Came + n
      BY <1>2, <1>3
    <3> QED BY <3>1, <1>3 DEF Numbered
  <2> QED BY <2>1, <2>2, <2>3 DEF Right
<1>5. fds = FromTo(Come, Come') /\ Len(fds) = Come' - Come /\ Range(fds) = Come + 1 .. Come'
  <2>1. \A j, k \in Carriers(SubSeq(inq, 1, n)) : j = k
    BY <1>1 DEF Receiving
  <2>2. Lot(SubSeq(inq, 1, n)) = FromTo(Upto(due, Came), Upto(due, Came + n))
    BY <1>2, <1>3, <2>1, LotIsNext
  <2>3. fds = FromTo(Come, Come')
    BY <1>1, <1>4, <2>2 DEF Receiving
  <2> QED BY <1>4, <2>3, FromToIs
<1>6. Len(fds) <= MaxFds
  <2>1. /\ SubSeq(inq, 1, n) \in Seq(GivenWord) /\ Len(SubSeq(inq, 1, n)) = n
        /\ \A k \in 1 .. n : SubSeq(inq, 1, n)[k] = inq[k]
    BY <1>2, FirstOf
  <2>2. \A k \in 1 .. n : Len(inq[k].fds) <= MaxFds
    BY <1>2 DEF Few
  <2>3. Len(Lot(SubSeq(inq, 1, n))) <= MaxFds
    BY <2>1, <2>2, LotFew
  <2> QED BY <1>1, <2>3 DEF Receiving
<1>7. /\ fds_in.head = Come /\ Size(fds_in) = 0 /\ Sound(fds_in) /\ Contents(fds_in) = <<>>
      /\ Size(fds_out) = 0 /\ Sound(fds_out) /\ Contents(fds_out) = <<>>
      /\ Pass(out, fds_out, toB, fdsToB, open, Come, 0)
  <2>1. fds_in.head = Come /\ Size(fds_in) = 0 /\ Pass(out, fds_out, toB, fdsToB, open, Come, 0)
    BY <1>2 DEF Piped
  <2>2. Sound(fds_in) /\ Sound(fds_out) /\ Size(fds_out) = 0
    BY <1>2 DEF Fit
  <2>3. Contents(fds_in) = <<>> /\ Contents(fds_out) = <<>>
    BY <2>1, <2>2 DEF Contents
  <2> QED BY <2>1, <2>2, <2>3
<1>8. fdsToB = FromTo(0, Come) /\ open = {} /\ Timely(toB)
  <2>1. PICK p \in 0 .. Come : /\ fdsToB = FromTo(0, p)
                               /\ Contents(fds_out) = FromTo(p, Come) /\ open = p + 1 .. Come
    BY <1>7 DEF Pass
  <2>2. Len(FromTo(p, Come)) = 0 /\ p \in Nat /\ p <= Come
    BY <1>4, <1>7, <2>1
  <2>3. p = Come
    BY <1>4, <2>2, FromToNone
  <2>4. Come + 1 .. Come = {}
    BY <1>4
  <2> QED BY <1>7, <2>1, <2>3, <2>4 DEF Pass
<1>9. Timely(toB)'
  <2>1. Came <= Came' /\ \A v \in 0 .. Len(due) : Upto(due', v) = Upto(due, v)
    BY <1>2, <1>3
  <2> QED BY <1>2, <1>8, <2>1, TimelyOn
<1>10. CASE Teardown(Unflushed)
  <2>1. /\ phase' = "gone" /\ Size(fds_in') = 0 /\ Size(fds_out') = 0
        /\ open' = (Unflushed.open \ Range(Contents(Unflushed.fds))) \ Range(Contents(fds_in))
    BY <1>10, UnflushedIs, TeardownIs
  <2>2. open' = {}
    BY <2>1, <1>8, UnflushedIs
  <2> QED BY <1>2, <1>4, <1>8, <1>9, <2>1, <2>2 DEF Piped
<1>11. CASE /\ fds_in' = Put(fds_in, fds) /\ open' = open \cup Range(fds)
            /\ phase' = "read" /\ UNCHANGED fds_out
  <2>1. Size(fds_in) + Len(fds) <= RingSize
    <3>1. Len(fds) \in Nat /\ MaxFds \in Nat /\ RingSize \in Nat /\ MaxFds <= RingSize
      BY Rounds, RingsAssumption, LenProperties
    <3> QED BY <3>1, <1>6, <1>7
  <2>2. Contents(fds_in') = fds
    <3>1. Contents(Put(fds_in, fds)) = Contents(fds_in) \o fds
      BY <1>7, <2>1, PutAppends
    <3>2. <<>> \o fds = fds
      BY ConcatEmptySeq
    <3> QED BY <1>7, <1>11, <3>1, <3>2
  <2>3. fds_in'.head = Come'
    <3>1. fds_in \in WlBuffer
      BY <1>7 DEF Sound
    <3>2. fds_in'.head = On(Come, Len(fds))
      BY <1>7, <1>11, <3>1 DEF Put, WlBuffer
    <3>3. RingSize \in Nat /\ CounterSize \in Nat /\ RingSize > 0 /\ 2 * RingSize <= CounterSize
      BY Rounds
    <3>4. Come + Len(fds) = Come' /\ Come' < CounterSize
      BY <1>4, <1>5, <3>3
    <3>5. Come \in 0 .. CounterSize - 1 /\ Len(fds) \in 0 .. RingSize
      BY <1>4, <1>5, <3>3
    <3>6. On(Come, Len(fds)) = IF Come + Len(fds) < CounterSize THEN Come + Len(fds)
                               ELSE Come + Len(fds) - CounterSize
      BY <3>5, MaskedOn, Zenon
    <3> QED BY <3>2, <3>4, <3>6
  <2>4. open' = Come + 1 .. Come'
    BY <1>5, <1>8, <1>11
  <2>5. \A k \in 1 .. Len(Contents(out)) : Contents(out)[k] \in 0 .. 0
    BY <1>7 DEF Pass
  <2>6. PICK p \in Nat : p = Come
    BY <1>4
  <2>7. Contents(fds_out) = FromTo(p, p) /\ p - p <= MaxFds /\ p \in 0 .. p
    BY <2>6, <1>4, <1>7, FromToNone, RingsAssumption
  <2>8. Pass(out, fds_out, toB, fdsToB, open, p, 0)'
    BY <1>2, <1>8, <1>9, <1>11, <2>4, <2>5, <2>6, <2>7 DEF Pass
  <2>9. Come' - p <= MaxFds /\ Contents(fds_in') = FromTo(p, Come') /\ p \in 0 .. Come'
    BY <1>4, <1>5, <1>6, <2>2, <2>6
  <2> QED BY <1>11, <2>3, <2>8, <2>9 DEF Piped
<1> QED BY <1>1, <1>10, <1>11 DEF Receiving

\* As long as the counters have not gone round the ring, the pointer at which
\* wl_connection_copy_fds reads points to what is in the ring.
LEMMA PointedIs ==
    ASSUME NEW b, Sound(b), b.head <= RingSize, Size(b) <= b.head
    PROVE  Pointed(b) = Contents(b)
<1> DEFINE m == Size(b)
           t == b.tail
<1>1. /\ b.head \in Nat /\ t \in Nat /\ t <= CounterSize - 1 /\ RingSize \in Nat \ {0}
      /\ CounterSize \in Nat /\ m \in 0 .. RingSize /\ m <= b.head /\ b \in WlBuffer
      /\ t \in 0 .. CounterSize - 1 /\ b.head <= RingSize
  BY Rounds, HeadPlace DEF Sound, WlBuffer
<1>2. b.head = IF t + m < CounterSize THEN t + m ELSE t + m - CounterSize
  <2>1. b.head = On(t, m)
    BY <1>1, SizeFrom
  <2>2. On(t, m) = IF t + m < CounterSize THEN t + m ELSE t + m - CounterSize
    BY <1>1, MaskedOn, Zenon
  <2> QED BY <2>1, <2>2
<1> HIDE DEF m, t
<1>3. b.head = t + m
  BY <1>1, <1>2
<1>4. ASSUME NEW k \in 1 .. m PROVE Raw(b, t + k - 1) = b.data[Place(Masked(t), k)]
  <2>1. t \in 0 .. RingSize - 1 /\ t + k - 1 < RingSize
    BY <1>1, <1>3
  <2>2. Masked(t) = t
    <3>1. 0 \in Nat /\ 0 * RingSize + t = t
      BY <1>1
    <3>2. (0 * RingSize + t) % RingSize = t
      BY <1>1, <2>1, Remainder
    <3> QED BY <3>1, <3>2 DEF Masked
  <2>3. Place(t, k) = t + k - 1
    BY <2>1 DEF Place
  <2> QED BY <2>1, <2>2, <2>3 DEF Raw
<1>5. Pointed(b) = [k \in 1 .. m |-> Raw(b, t + k - 1)]
  BY DEF Pointed, m, t
<1>6. Contents(b) = [k \in 1 .. m |-> b.data[Place(Masked(t), k)]]
  BY DEF Contents, m, t
<1> QED BY <1>4, <1>5, <1>6

\* The descriptors a read got are put behind those that went.
LEMMA CopyFdsPipes ==
    ASSUME Fit, Numbered, Piped, Right, Right', CopyFds
    PROVE  Piped'
<1>1. /\ phase = "read" /\ phase' = "loop" /\ UNCHANGED <<in, inq, buffer, due, sends>>
      /\ Pointed(fds_in) \in Seq(Nat) /\ Len(Pointed(fds_in)) = Size(fds_in)
  BY CopyFdsIs
<1>2. PICK c \in Sending :
         /\ c = Unflushed \/ Flushing(Unflushed, c)
         /\ c.ok => Size(c.fds) = 0
         /\ Sent(c) /\ open' = c.open
         /\ IF c.ok THEN /\ fds_out' = Put(c.fds, Pointed(fds_in))
                         /\ fds_in' = Consume(fds_in, Size(fds_in)) /\ UNCHANGED held
            ELSE held' = TRUE /\ fds_out' = c.fds /\ UNCHANGED fds_in
  BY CopyFdsIs
<1>3. c.ok
  BY <1>2 DEF Right
<1>4. /\ Come \in Nat /\ Came \in Nat /\ 0 \in 0 .. Came /\ Come' = Come /\ Came' = Came
      /\ Upto(due, 0) = 0 /\ Come <= RingSize
  <2>1. Come \in Nat /\ Came \in Nat /\ Upto(due, 0) = 0
    BY UptoIsNat DEF Came, Upto
  <2>2. Come' = Come /\ Came' = Came
    BY <1>1 DEF Come, Came
  <2> QED BY <2>1, <2>2 DEF Right
<1>5. Sound(fds_in) /\ fds_in.head = Come
  BY <1>1 DEF Fit, Piped
<1>6. PICK p \in 0 .. Come : /\ Come - p <= MaxFds /\ Contents(fds_in) = FromTo(p, Come)
                             /\ Pass(out, fds_out, toB, fdsToB, open, p, 0)
  BY <1>1 DEF Piped
<1>7. p \in Nat /\ p <= Come /\ Size(fds_in) = Come - p
  <2>1. p \in Nat /\ p <= Come
    BY <1>4, <1>6
  <2>2. Len(FromTo(p, Come)) = Come - p
    BY <1>4, <2>1, FromToIs
  <2>3. Len(Contents(fds_in)) = Size(fds_in)
    BY <1>5, ContentsIs
  <2> QED BY <1>6, <2>1, <2>2, <2>3
<1>8. Pointed(fds_in) = FromTo(p, Come)
  <2>1. fds_in.head <= RingSize /\ Size(fds_in) <= fds_in.head
    BY <1>4, <1>5, <1>7
  <2> QED BY <1>5, <1>6, <2>1, PointedIs
<1>9. Passing(c, p, 0)
  <2>1. Passing(Unflushed, p, 0) /\ Unflushed \in Sending
    BY <1>6, UnflushedIs DEF Passing
  <2>2. Upto(due, 0) <= p
    BY <1>4, <1>7
  <2> QED BY <1>2, <1>4, <2>1, <2>2, FlushPasses
<1>10. Sound(c.fds) /\ Size(c.fds) = 0 /\ Contents(c.fds) = <<>>
  <2>1. Sound(c.fds) /\ Size(c.fds) = 0
    BY <1>2, <1>3 DEF Sending, Sound
  <2> QED BY <2>1 DEF Contents
<1>11. Contents(fds_out') = FromTo(p, Come)
  <2>1. Size(c.fds) + Len(Pointed(fds_in)) <= RingSize
    BY <1>1, <1>5, <1>10, HeadPlace, Rounds
  <2>2. Contents(Put(c.fds, Pointed(fds_in))) = Contents(c.fds) \o Pointed(fds_in)
    BY <1>1, <1>10, <2>1, PutAppends
  <2>3. <<>> \o Pointed(fds_in) = Pointed(fds_in)
    BY <1>1, ConcatEmptySeq
  <2> QED BY <1>2, <1>3, <1>8, <1>10, <2>2, <2>3
<1>12. fds_in'.head = Come /\ Size(fds_in') = 0
  <2>1. fds_in' = Dropped(fds_in)
    BY <1>2, <1>3 DEF Dropped
  <2>2. Size(fds_in') = 0
    BY <1>5, <2>1, Dropping
  <2>3. fds_in \in WlBuffer
    BY <1>5 DEF Sound
  <2>4. fds_in'.head = fds_in.head
    BY <2>1, <2>3 DEF Dropped, Consume, WlBuffer
  <2> QED BY <1>5, <2>2, <2>4
<1>13. c.fdsToB = FromTo(0, p) /\ c.open = p + 1 .. Come
  <2>1. PICK r \in 0 .. p : /\ c.fdsToB = FromTo(0, r) /\ Contents(c.fds) = FromTo(r, p)
                            /\ c.open = r + 1 .. Come
    BY <1>9 DEF Passing, Pass
  <2>2. r \in Nat /\ r <= p /\ Len(FromTo(r, p)) = 0
    BY <1>7, <1>10, <2>1
  <2>3. r = p
    BY <1>7, <2>2, FromToNone
  <2> QED BY <2>1, <2>3
<1>14. Timely(toB)' /\ \A k \in 1 .. Len(Contents(out')) : Contents(out')[k] \in 0 .. 0
  <2>1. toB' = c.toB /\ out' = c.out /\ due' = due
    BY <1>1, <1>2 DEF Sent
  <2>2. Timely(c.toB) /\ \A k \in 1 .. Len(Contents(c.out)) : Contents(c.out)[k] \in 0 .. 0
    BY <1>9 DEF Passing, Pass
  <2> QED BY <1>4, <2>1, <2>2 DEF Timely
<1>15. fdsToB' = FromTo(0, p) /\ open' = p + 1 .. Come
  BY <1>2, <1>13 DEF Sent
<1>16. Pass(out, fds_out, toB, fdsToB, open, Come, 0)'
  BY <1>4, <1>6, <1>11, <1>14, <1>15 DEF Pass
<1> QED BY <1>1, <1>4, <1>12, <1>16 DEF Piped

\* A message that is forwarded takes the descriptors along, and is not ahead of them.
LEMMA ForwardPipes ==
    ASSUME Fit, Numbered, Ordered, Piped, Right, Forward
    PROVE  Piped'
<1>1. phase = "loop" /\ UNCHANGED <<in, inq, due, sends, held>>
  BY ForwardIs
<1>2. PICK k \in Nat, w \in Sending, c \in Sending : Forwarding(k, w, c)
  BY ForwardIs
<1>3. /\ Come \in Nat /\ Came \in Nat /\ Came \in 0 .. Came /\ Come \in 0 .. Come
      /\ Upto(due, Came) <= Come /\ Come' = Come /\ Came' = Came
  <2>1. Come \in Nat /\ Came \in Nat /\ Upto(due, Came) = Come
    BY UptoIsNat DEF Came
  <2>2. Come' = Come /\ Came' = Came
    BY <1>1 DEF Come, Came
  <2> QED BY <2>1, <2>2
<1>4. /\ fds_in.head = Come /\ Size(fds_in) = 0
      /\ Pass(out, fds_out, toB, fdsToB, open, Come, 0)
  BY <1>1 DEF Piped
<1> DEFINE words == SubSeq(buffer, 1, k)
<1>5. words \in Seq(Nat) /\ \A i \in 1 .. Len(words) : words[i] \in 0 .. Came
  <2>1. buffer \in Seq(Nat) /\ Len(buffer) \in Nat /\ k \in 0 .. Len(buffer)
        /\ Len(buffer) <= Came
        /\ \A i \in 1 .. Len(buffer) : buffer[i] = (Came - Len(buffer)) + i
    BY <1>1, <1>2, LenProperties DEF Fit, Ordered, Forwarding
  <2>2. words \in Seq(Nat) /\ Len(words) = k /\ \A i \in 1 .. k : words[i] = buffer[i]
    BY <2>1, FirstOf
  <2> HIDE DEF words
  <2>3. \A i \in 1 .. k : i \in 1 .. Len(buffer) /\ (Came - Len(buffer)) + i \in 0 .. Came
    BY <2>1, <1>3
  <2> QED BY <2>1, <2>2, <2>3
<1>6. Passing(w, Come, Came)
  <2>1. Passing(Unflushed, Come, 0)
    BY <1>4, UnflushedIs DEF Passing
  <2>2. Putting(w, words)
    BY <1>2 DEF Forwarding
  <2> HIDE DEF words
  <2> QED BY <2>1, <2>2, <1>3, <1>5, PutPasses
<1>7. Passing(c, Come, Came) /\ Sent(c)
  <2>1. (c = w \/ Flushing(w, c)) /\ Sent(c)
    BY <1>2 DEF Forwarding
  <2> QED BY <2>1, <1>3, <1>6, FlushPasses
<1>8. CASE ~c.ok
  <2>1. Teardown(c)
    BY <1>2, <1>8 DEF Forwarding
  <2> QED BY <2>1, <1>1, <1>3, <1>4, <1>7, TeardownPasses
<1>9. CASE c.ok
  <2>1. /\ phase' \in {"idle", "loop"} /\ fds_out' = c.fds /\ open' = c.open /\ fds_in' = fds_in
        /\ toB' = c.toB /\ fdsToB' = c.fdsToB /\ out' = c.out
    BY <1>2, <1>9 DEF Forwarding, Sent
  <2>2. Len(Contents(c.out)) = 0
    <3>1. Size(c.out) = 0
      BY <1>2, <1>9, ForwardFlushes
    <3> QED BY <3>1, ContentsIs DEF Sending, Sound
  <2>3. Pass(out, fds_out, toB, fdsToB, open, Come, 0)'
    <3>1. Timely(c.toB)
      BY <1>7 DEF Passing, Pass
    <3>2. Timely(toB)'
      BY <3>1, <2>1, <1>1, <1>3 DEF Timely
    <3>3. \A i \in 1 .. Len(Contents(out')) : Contents(out')[i] \in 0 .. 0
      BY <2>1, <2>2
    <3> QED BY <3>2, <3>3, <2>1, <1>3, <1>7 DEF Passing, Pass
  <2> QED BY <1>3, <1>4, <2>1, <2>3 DEF Piped
<1> QED BY <1>8, <1>9

LEMMA InjectPipes ==
    ASSUME Fit, Numbered, Piped, Right, Inject
    PROVE  Piped'
<1>1. phase \in {"idle", "loop"} /\ UNCHANGED <<in, fds_in, inq, buffer, phase, due, held>>
  BY InjectIs
<1>2. PICK c \in Sending : /\ Putting(c, <<Injected>>) /\ Sent(c)
                           /\ fds_out' = c.fds /\ open' = c.open
  BY InjectIs
<1>3. /\ Come \in 0 .. Come /\ 0 \in 0 .. Came /\ Upto(due, 0) <= Come
      /\ Come' = Come /\ Came' = Came
  <2>1. Come \in Nat /\ Came \in Nat /\ Upto(due, 0) = 0
    BY UptoIsNat DEF Came, Upto
  <2>2. Come' = Come /\ Came' = Came
    BY <1>1 DEF Come, Came
  <2> QED BY <2>1, <2>2
<1>4. /\ fds_in.head = Come /\ Size(fds_in) = 0
      /\ Pass(out, fds_out, toB, fdsToB, open, Come, 0)
  BY <1>1 DEF Piped
<1> DEFINE words == <<Injected>>
<1>5. words \in Seq(Nat) /\ \A i \in 1 .. Len(words) : words[i] \in 0 .. 0
  BY DEF Injected
<1> HIDE DEF words
<1>6. Passing(c, Come, 0)
  <2>1. Passing(Unflushed, Come, 0)
    BY <1>4, UnflushedIs DEF Passing
  <2> QED BY <2>1, <1>2, <1>3, <1>5, PutPasses DEF words
<1>7. Pass(out, fds_out, toB, fdsToB, open, Come, 0)'
  <2>1. Timely(c.toB)
    BY <1>6 DEF Passing, Pass
  <2>2. /\ toB' = c.toB /\ fdsToB' = c.fdsToB /\ out' = c.out
    BY <1>2 DEF Sent
  <2>3. Timely(toB)'
    BY <2>1, <2>2, <1>1, <1>3 DEF Timely
  <2> QED BY <2>2, <2>3, <1>2, <1>3, <1>6 DEF Passing, Pass
<1> QED BY <1>1, <1>3, <1>4, <1>7 DEF Piped

LEMMA DestroyPipes ==
    ASSUME Fit, Numbered, Piped, Right, Destroy
    PROVE  Piped'
<1>1. /\ phase \in {"idle", "loop"} /\ Teardown(Unflushed)
      /\ UNCHANGED <<in, out, inq, toB, fdsToB, unread, due, sends, held>>
  BY DEF Destroy
<1>2. Passing(Unflushed, Come, 0) /\ Size(fds_in) = 0
  BY <1>1, UnflushedIs DEF Piped, Passing
<1>3. Sent(Unflushed) /\ Unflushed \in Sending
  BY <1>1, UnflushedIs DEF Sent
<1> QED BY <1>1, <1>2, <1>3, TeardownPasses

LEMMA PeersPipe ==
    ASSUME Fit, Numbered, Numbered', Piped, PeerWrite \/ PeerRead
    PROVE  Piped'
<1>1. UNCHANGED <<fds_in, out, fds_out, toB, fdsToB, phase, open>>
  BY DEF PeerWrite, PeerRead
<1>2. /\ Came' = Came /\ Come' = Come /\ Came \in Nat
      /\ \A v \in 0 .. Len(due) : Upto(due', v) = Upto(due, v)
  <2>1. /\ Len(due) \in Nat /\ Len(inq) \in Nat /\ Came \in Nat /\ Came \in 0 .. Len(due)
        /\ Come = Upto(due, Came)
    BY UptoIsNat DEF Came
  <2>2. CASE PeerRead
    <3>1. UNCHANGED <<due, inq>>
      BY <2>2 DEF PeerRead
    <3> QED BY <2>1, <3>1 DEF Came, Come
  <2>3. CASE PeerWrite
    <3>1. PICK n \in 1 .. 2, f \in Nat :
             /\ Len(due') = Len(due) + n /\ Len(inq') = Len(inq) + n
             /\ \A v \in 0 .. Len(due) : Upto(due', v) = Upto(due, v)
      BY <2>3, PeerWriteIs
    <3>2. Len(due') - Len(inq') = Came
      BY <2>1, <3>1 DEF Came
    <3>3. Came' = Came
      BY <3>2 DEF Came
    <3>4. Come' = Upto(due', Came)
      BY <3>2 DEF Come, Upto
    <3> QED BY <2>1, <3>1, <3>3, <3>4
  <2> QED BY <2>2, <2>3
<1>3. Timely(toB) => Timely(toB)'
  <2>1. Came <= Came'
    BY <1>2
  <2> QED BY <1>1, <1>2, <2>1, TimelyOn
<1>4. ASSUME NEW q, Pass(out, fds_out, toB, fdsToB, open, q, 0)
      PROVE  Pass(out, fds_out, toB, fdsToB, open, q, 0)'
  BY <1>1, <1>2, <1>3, <1>4 DEF Pass
<1> QED BY <1>1, <1>2, <1>3, <1>4 DEF Piped

\* What is right stays in order.
LEMMA SpecPipes == Spec => [](Right => Piped)
<1>1. Init => (Right => Piped)
  <2> SUFFICES ASSUME Init PROVE Piped
    OBVIOUS
  <2>1. /\ phase = "idle" /\ fds_in = EmptyRing /\ fds_out = EmptyRing /\ out = EmptyRing
        /\ toB = <<>> /\ fdsToB = <<>> /\ open = {} /\ Len(due) = 0 /\ Len(inq) = 0
    BY DEF Init
  <2>2. Come = 0 /\ Len(due) - Len(inq) = 0
    BY <2>1 DEF Come
  <2>3. FromTo(0, 0) = <<>> /\ 0 - 0 <= MaxFds /\ 0 \in 0 .. 0 /\ 0 + 1 .. 0 = {}
    <3>1. 0 \in Nat /\ 0 <= 0
      OBVIOUS
    <3>2. FromTo(0, 0) = <<>>
      BY <3>1, FromToNone
    <3>3. MaxFds \in Nat /\ 0 - 0 = 0
      BY RingsAssumption
    <3> QED BY <3>2, <3>3
  <2>4. Contents(out) = <<>> /\ Contents(fds_out) = <<>> /\ Size(fds_in) = 0
    BY <2>1, EmptyIs
  <2>5. EmptyRing.head = 0
    BY DEF EmptyRing
  <2>6. Timely(toB) /\ \A k \in 1 .. Len(Contents(out)) : Contents(out)[k] \in 0 .. 0
    BY <2>1, <2>4 DEF Timely
  <2>7. Pass(out, fds_out, toB, fdsToB, open, 0, 0)
    BY <2>1, <2>2, <2>3, <2>4, <2>6 DEF Pass
  <2> QED BY <2>1, <2>2, <2>4, <2>5, <2>7 DEF Piped
<1>2. /\ Fit /\ Numbered /\ Ordered /\ Few /\ (Right => Piped) /\ [Next]_vars
      => (Right => Piped)'
  <2>1. ASSUME Fit, Numbered, Ordered, Few, Right => Piped, Next, Right'
        PROVE  Piped'
    <3>1. Right /\ Piped /\ Numbered'
      BY <2>1, RightBefore, NumberedStep
    <3> QED BY <2>1, <3>1, ReceivePipes, CopyFdsPipes, ForwardPipes, InjectPipes,
               DestroyPipes, PeersPipe DEF Next
  <2>2. ASSUME Right => Piped, UNCHANGED vars PROVE (Right => Piped)'
    BY <2>2 DEF Right, Piped, Pass, Timely, Come, Came, vars
  <2> QED BY <2>1, <2>2
<1> QED BY <1>1, <1>2, SpecFits, SpecOrders, SpecFew, PTL DEF Spec

\* Whatever the sizes of the rings, of a sendmsg and of the socket: all descriptors
\* come to B, in order, and none later than the word it was passed with, as long as
\* conn1's ring for them was not used up once and no flush failed when they were to
\* be copied.
THEOREM DescriptorsInTime == Spec => []FdsInTime
<1>1. Fit /\ Numbered /\ (Right => Piped) => FdsInTime
  <2> SUFFICES ASSUME Fit, Numbered, Piped, Right
               PROVE  /\ fdsToB = [k \in 1 .. Len(fdsToB) |-> k]
                      /\ \A i \in DOMAIN toB :
                            toB[i].word # Injected => due[toB[i].word] <= toB[i].fds
    BY DEF FdsInTime, Right
  <2>1. (\E p \in Nat : fdsToB = FromTo(0, p)) /\ Timely(toB)
    <3>1. ASSUME NEW q \in Nat, Pass(out, fds_out, toB, fdsToB, open, q, 0)
          PROVE  (\E p \in Nat : fdsToB = FromTo(0, p)) /\ Timely(toB)
      BY <3>1 DEF Pass
    <3>2. Come \in Nat /\ 0 .. Come \subseteq Nat
      BY UptoIsNat
    <3> QED BY <3>1, <3>2 DEF Piped, Fit, Phase
  <2>2. fdsToB = [k \in 1 .. Len(fdsToB) |-> k]
    <3>1. PICK p \in Nat : fdsToB = FromTo(0, p)
      BY <2>1
    <3>2. 0 \in Nat /\ 0 <= p /\ p - 0 = p
      OBVIOUS
    <3>3. Len(fdsToB) = p
      BY <3>1, <3>2, FromToIs
    <3>4. FromTo(0, p) = [j \in 1 .. p |-> j]
      BY <3>2 DEF FromTo
    <3> QED BY <3>1, <3>3, <3>4
  <2>3. ASSUME NEW i \in DOMAIN toB, toB[i].word # Injected
        PROVE  due[toB[i].word] <= toB[i].fds
    <3>1. i \in 1 .. Len(toB)
      BY LenProperties DEF Fit
    <3>2. Upto(due, toB[i].word) <= toB[i].fds
      BY <2>1, <3>1 DEF Timely
    <3> QED BY <2>3, <3>2 DEF Upto, Injected
  <2> QED BY <2>2, <2>3
<1> QED BY <1>1, SpecFits, SpecPipes, PTL

\* Under the same conditions the descriptors open in wldbg are those in the rings:
\* none stays open behind one that was sent, or behind the connection.
THEOREM DescriptorsAccounted == Spec => []FdsAccounted
<1>1. Fit /\ Numbered /\ (Right => Piped) => FdsAccounted
  <2> SUFFICES ASSUME Fit, Numbered, Piped, Right
               PROVE  open = Range(Copy(fds_in, Size(fds_in))) \cup Range(Copy(fds_out, Size(fds_out)))
    BY DEF FdsAccounted, Right
  <2>1. /\ Sound(fds_in) /\ Sound(fds_out) /\ Come \in Nat
        /\ Copy(fds_in, Size(fds_in)) = Contents(fds_in)
        /\ Copy(fds_out, Size(fds_out)) = Contents(fds_out)
    BY UptoIsNat, CopyAll DEF Fit
  <2>2. \A b : Size(b) = 0 => Range(Contents(b)) = {}
    BY DEF Contents, Range
  <2>3. CASE phase = "gone"
    BY <2>1, <2>2, <2>3 DEF Piped
  <2>4. CASE phase \in {"idle", "loop"}
    <3>1. Size(fds_in) = 0 /\ Pass(out, fds_out, toB, fdsToB, open, Come, 0)
      BY <2>4 DEF Piped
    <3>2. PICK p \in 0 .. Come : Contents(fds_out) = FromTo(p, Come) /\ open = p + 1 .. Come
      BY <3>1 DEF Pass
    <3>3. Range(FromTo(p, Come)) = p + 1 .. Come
      BY <2>1, FromToIs
    <3> QED BY <2>1, <2>2, <3>1, <3>2, <3>3
  <2>5. CASE phase = "read"
    <3>1. PICK p \in 0 .. Come : /\ Contents(fds_in) = FromTo(p, Come)
                                 /\ Pass(out, fds_out, toB, fdsToB, open, p, 0)
      BY <2>5 DEF Piped
    <3>2. Size(fds_out) = 0 /\ Contents(fds_out) = <<>>
      BY <2>5 DEF Fit, Contents
    <3>3. PICK r \in 0 .. p : Contents(fds_out) = FromTo(r, p) /\ open = r + 1 .. Come
      BY <3>1 DEF Pass
    <3>4. p \in Nat /\ r \in Nat /\ r <= p /\ p <= Come
      BY <2>1
    <3>5. r = p
      BY <3>2, <3>3, <3>4, FromToNone
    <3>6. Range(FromTo(p, Come)) = p + 1 .. Come
      BY <2>1, <3>4, FromToIs
    <3> QED BY <2>1, <2>2, <3>1, <3>2, <3>3, <3>5, <3>6
  <2> QED BY <2>3, <2>4, <2>5 DEF Fit, Phase
<1> QED BY <1>1, SpecFits, SpecPipes, PTL
=============================================================================
