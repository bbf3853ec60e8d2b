---------------------------- MODULE RelayProofs ----------------------------
(***************************************************************************)
(* Proofs about Relay, for all message sizes, buffer and socket sizes and  *)
(* for both ways of running the passes: no word is lost, repeated or       *)
(* reordered, and wldbg implements a pair of pipes between the peers.      *)
(*                                                                         *)
(* Then of streams that are touched: messages stay whole, edits stay in    *)
(* place and injected messages come on top.  Every step moves a stream in  *)
(* one of six ways (StepMoves), and each of the three invariants survives  *)
(* each of them.                                                           *)
(***************************************************************************)
EXTENDS Relay, SequenceTheorems, TLAPS

Word == [src : Side \cup {"user"}, at : Nat, size : Nat, idx : Nat]

\* The shape of the state, with the facts about the loop that keep it.
Typing ==
    /\ sent \in [Side -> Seq(Word)] /\ got \in [Side -> Seq(Word)]
    /\ inq \in [Side -> Seq(Word)] /\ outq \in [Side -> Seq(Word)]
    /\ out \in [Side -> Seq(Word)]
    /\ closed \in [Side -> BOOLEAN] /\ touched \in [Side -> SUBSET Way]
    /\ from \in Side \cup {"none"}
    /\ todo \in Seq(Word)
    /\ phase \in Phase
    /\ sends \in 0 .. MaxSends

Bounds ==
    /\ Len(todo) <= BufSize
    /\ \A s \in Side :
          /\ Len(out[s]) <= BufSize
          /\ Len(outq[s]) <= SockCap
          /\ Len(inq[s]) <= SockCap

\* The buffer is empty between two dispatches, and not empty in the loop.
Turning ==
    /\ phase = "idle" => todo = <<>>
    /\ phase = "loop" => from \in Side /\ todo # <<>>

IInv == Typing /\ Bounds /\ Turning /\ Transparent

-----------------------------------------------------------------------------
(* Sequences. *)

\* What a cut of a sequence gives, and that the two parts make up the whole:
\* reading, partial flushing and stepping through the buffer are such cuts.
LEMMA Cut ==
    ASSUME NEW S, NEW q \in Seq(S), NEW n \in 0 .. Len(q)
    PROVE  /\ SubSeq(q, 1, n) \in Seq(S)
           /\ SubSeq(q, n + 1, Len(q)) \in Seq(S)
           /\ Len(SubSeq(q, 1, n)) = n
           /\ Len(SubSeq(q, n + 1, Len(q))) = Len(q) - n
           /\ SubSeq(q, 1, n) \o SubSeq(q, n + 1, Len(q)) = q
<1>1. Len(q) \in Nat /\ \A i \in 1 .. Len(q) : q[i] \in S
  BY LenProperties, ElementOfSeq
<1>2. SubSeq(q, 1, n) \in Seq(S) /\ Len(SubSeq(q, 1, n)) = n
  <2>1. \A i \in 1 .. n : q[i] \in S
    BY <1>1
  <2>2. 1 \in Int /\ n \in Int
    BY <1>1
  <2>3. /\ SubSeq(q, 1, n) \in Seq(S)
        /\ Len(SubSeq(q, 1, n)) = IF 1 <= n THEN n - 1 + 1 ELSE 0
    BY <2>1, <2>2, SubSeqProperties
  <2> QED BY <2>3, <1>1
<1>3. /\ SubSeq(q, n + 1, Len(q)) \in Seq(S)
      /\ Len(SubSeq(q, n + 1, Len(q))) = Len(q) - n
  <2>1. \A i \in n + 1 .. Len(q) : q[i] \in S
    BY <1>1
  <2>2. n + 1 \in Int /\ Len(q) \in Int
    BY <1>1
  <2>3. /\ SubSeq(q, n + 1, Len(q)) \in Seq(S)
        /\ Len(SubSeq(q, n + 1, Len(q))) =
              IF n + 1 <= Len(q) THEN Len(q) - (n + 1) + 1 ELSE 0
    BY <2>1, <2>2, SubSeqProperties
  <2> QED BY <2>3, <1>1
<1>4. SubSeq(q, 1, n) \o SubSeq(q, n + 1, Len(q)) = q
  <2>1. /\ 1 \in 1 .. Len(q) + 1
        /\ n \in 1 - 1 .. Len(q)
        /\ Len(q) \in n .. Len(q)
    BY <1>1
  <2>2. SubSeq(q, 1, n) \o SubSeq(q, n + 1, Len(q)) = SubSeq(q, 1, Len(q))
    BY <2>1, ConcatAdjacentSubSeq
  <2> QED BY <2>2, SubSeqFull
<1> QED BY <1>2, <1>3, <1>4

\* The beginning of a sequence is a prefix of it.
LEMMA PrefixOfConcat ==
    ASSUME NEW S, NEW q \in Seq(S), NEW r \in Seq(S)
    PROVE  IsPrefix(q, q \o r)
<1>1. /\ q \o r \in Seq(S)
      /\ Len(q \o r) = Len(q) + Len(r)
      /\ \A i \in 1 .. Len(q) + Len(r) :
            (q \o r)[i] = IF i <= Len(q) THEN q[i] ELSE r[i - Len(q)]
  BY ConcatProperties
<1>2. Len(q) \in Nat /\ Len(r) \in Nat
  BY LenProperties
<1>3. SubSeq(q \o r, 1, Len(q)) = SubSeq(q, 1, Len(q))
  <2>1. CASE Len(q) = 0
    BY <2>1, SubSeqEmpty
  <2>2. CASE Len(q) # 0
    <3>1. 1 \in 1 .. Len(q) /\ Len(q) \in 1 .. Len(q)
      BY <2>2, <1>2
    <3> QED BY <3>1, SubSeqOfConcat1
  <2> QED BY <2>1, <2>2
<1> QED BY <1>1, <1>2, <1>3 DEF IsPrefix

\* Concatenation kept folded: the provers then reason with the facts below
\* and not with the words of the sequences.
Cat(q, r) == q \o r

\* Concatenation adds the lengths.
LEMMA CatType ==
    \A q, r \in Seq(Word) :
        Cat(q, r) \in Seq(Word) /\ Len(Cat(q, r)) = Len(q) + Len(r)
BY ConcatProperties DEF Cat

\* Concatenation is associative.
LEMMA CatAssoc ==
    \A q, r, t \in Seq(Word) : Cat(Cat(q, r), t) = Cat(q, Cat(r, t))
BY ConcatAssociative DEF Cat

\* Three pieces in a row.
LEMMA Cat3Type ==
    \A q, r, t \in Seq(Word) :
        /\ Cat(Cat(q, r), t) \in Seq(Word)
        /\ Len(Cat(Cat(q, r), t)) = Len(q) + Len(r) + Len(t)
<1> SUFFICES ASSUME NEW q \in Seq(Word), NEW r \in Seq(Word), NEW t \in Seq(Word)
             PROVE  /\ Cat(Cat(q, r), t) \in Seq(Word)
                    /\ Len(Cat(Cat(q, r), t)) = Len(q) + Len(r) + Len(t)
  OBVIOUS
<1>1. Cat(q, r) \in Seq(Word) /\ Len(Cat(q, r)) = Len(q) + Len(r)
  BY CatType
<1>2. /\ Cat(Cat(q, r), t) \in Seq(Word)
      /\ Len(Cat(Cat(q, r), t)) = Len(Cat(q, r)) + Len(t)
  BY <1>1, CatType
<1> QED BY <1>1, <1>2

\* Four pieces in a row, regrouped to leave the first one apart.
LEMMA Cat4 ==
    \A g, q, o, t \in Seq(Word) :
        Cat(Cat(Cat(g, q), o), t) = Cat(g, Cat(Cat(q, o), t))
BY CatType, CatAssoc

\* Nothing added at either end.
LEMMA CatEmpty ==
    \A q \in Seq(Word) : Cat(q, <<>>) = q /\ Cat(<<>>, q) = q
BY ConcatEmptySeq DEF Cat

\* A sequence cut anywhere and put together again.
LEMMA CatCut ==
    \A q \in Seq(Word) : \A n \in 0 .. Len(q) :
        Cat(SubSeq(q, 1, n), SubSeq(q, n + 1, Len(q))) = q
BY Cut DEF Cat

\* A flush that comes to its end: q in the socket, r in the ring, m behind it.
LEMMA FlushAll ==
    ASSUME NEW q \in Seq(Word), NEW r \in Seq(Word), NEW m \in Seq(Word),
           NEW room \in Nat, room <= SockCap - Len(q), Len(r \o m) <= room
    PROVE  /\ Cat(Cat(q, r), m) \in Seq(Word)
           /\ Len(Cat(Cat(q, r), m)) <= SockCap
           /\ \A t \in Seq(Word) :
                 Cat(Cat(Cat(Cat(q, r), m), <<>>), t) = Cat(Cat(q, r), Cat(m, t))
<1>1. Cat(q, r) \in Seq(Word)
  BY CatType
<1>2. /\ Cat(Cat(q, r), m) \in Seq(Word)
      /\ Len(Cat(Cat(q, r), m)) = Len(q) + Len(r) + Len(m)
  BY Cat3Type
<1>3. Len(q) \in Nat /\ Len(r) \in Nat /\ Len(m) \in Nat
  BY LenProperties
<1>4. Len(r) + Len(m) <= room
  BY CatType, Zenon DEF Cat
<1>5. Len(Cat(Cat(q, r), m)) <= SockCap
  BY <1>2, <1>3, <1>4, RelayAssumption
<1>6. Cat(Cat(Cat(q, r), m), <<>>) = Cat(Cat(q, r), m)
  BY <1>2, CatEmpty
<1>7. \A t \in Seq(Word) : Cat(Cat(Cat(q, r), m), t) = Cat(Cat(q, r), Cat(m, t))
  BY <1>1, CatAssoc
<1> QED BY <1>2, <1>5, <1>6, <1>7, Zenon

\* A flush that stops after room words of the ring.
LEMMA FlushPart ==
    ASSUME NEW q \in Seq(Word), NEW ring \in Seq(Word), NEW room \in Nat,
           room <= SockCap - Len(q), room <= Len(ring), Len(ring) - room <= BufSize
    PROVE  /\ Cat(q, SubSeq(ring, 1, room)) \in Seq(Word)
           /\ Len(Cat(q, SubSeq(ring, 1, room))) <= SockCap
           /\ SubSeq(ring, room + 1, Len(ring)) \in Seq(Word)
           /\ Len(SubSeq(ring, room + 1, Len(ring))) <= BufSize
           /\ Cat(Cat(q, SubSeq(ring, 1, room)), SubSeq(ring, room + 1, Len(ring)))
                = Cat(q, ring)
<1> DEFINE x == SubSeq(ring, 1, room)
           y == SubSeq(ring, room + 1, Len(ring))
<1>1. room \in 0 .. Len(ring) /\ Len(q) \in Nat /\ Len(ring) \in Nat
  BY LenProperties
<1>2. /\ x \in Seq(Word) /\ y \in Seq(Word)
      /\ Len(x) = room /\ Len(y) = Len(ring) - room
  BY <1>1, Cut
<1>3. Cat(x, y) = ring
  BY <1>1, CatCut
<1> HIDE DEF x, y
<1>4. Cat(q, x) \in Seq(Word) /\ Len(Cat(q, x)) = Len(q) + Len(x)
  BY <1>2, CatType
<1>5. Len(Cat(q, x)) <= SockCap /\ Len(y) <= BufSize
  BY <1>1, <1>2, <1>4, RelayAssumption
<1>6. Cat(Cat(q, x), y) = Cat(q, ring)
  BY <1>2, <1>3, CatAssoc
<1> QED BY <1>2, <1>4, <1>5, <1>6 DEF x, y

\* A message is as long as its header says and made of words.
LEMMA MessageType ==
    ASSUME NEW src \in Side \cup {"user"}, NEW at \in Nat, NEW k \in Nat
    PROVE  Message(src, at, k) \in Seq(Word) /\ Len(Message(src, at, k)) = k
<1>1. \A i \in 1 .. k : [src |-> src, at |-> at, size |-> k, idx |-> i] \in Word
  BY DEF Word
<1>2. Message(src, at, k) \in [1 .. k -> Word]
  BY <1>1 DEF Message
<1> QED BY <1>2

\* The line from s, as concatenations kept folded.
LEMMA LineCat ==
    ASSUME NEW s \in Side
    PROVE  Line(s) = Cat(Cat(Cat(Cat(got[Other(s)], outq[Other(s)]), out[Other(s)]),
                             Todo(s)), inq[s])
BY DEF Line, Cat

\* There are two sides, each the other of the other.
LEMMA SideFacts ==
    \A s \in Side : /\ Other(s) \in Side /\ Other(s) # s /\ Other(Other(s)) = s
                    /\ \A q \in Side : q = s \/ q = Other(s)
BY DEF Side, Other

-----------------------------------------------------------------------------
(* One turn of the loop. *)

\* The socket toward p, its ring and the room that is left.
LEMMA RoomIs ==
    ASSUME Typing, Bounds, NEW p \in Side
    PROVE  \E q, r \in Seq(Word) : \E room \in Nat :
              /\ q = outq[p] /\ r = out[p] /\ room = Room(p)
              /\ Len(r) <= BufSize /\ Len(q) <= SockCap /\ room <= SockCap - Len(q)
<1>1. outq[p] \in Seq(Word) /\ out[p] \in Seq(Word) /\ Len(out[p]) <= BufSize
      /\ Len(outq[p]) <= SockCap
  BY DEF Typing, Bounds
<1>2. Room(p) \in Nat /\ Room(p) <= SockCap - Len(outq[p])
  <2> DEFINE queued == Len(outq[p])
  <2>1. queued \in Nat /\ queued <= SockCap
    BY <1>1, LenProperties
  <2>2. Room(p) = IF closed[p] THEN 0 ELSE SockCap - queued
    BY Zenon DEF Room
  <2> HIDE DEF queued
  <2>3. Room(p) \in Nat /\ Room(p) <= SockCap - queued
    BY <2>1, <2>2, RelayAssumption
  <2> QED BY <2>3, Zenon DEF queued
<1> QED BY <1>1, <1>2, Zenon

\* What Forward does to the rings and to the buffer: nothing overflows, the other
\* side is not concerned, and if the message and the rest make up the buffer,
\* then the words on the way to p stay what they were, whether the flush comes
\* to its end or stops half way.
LEMMA ForwardKeeps ==
    ASSUME Typing, Bounds, NEW p \in Side, NEW next,
           NEW m \in Seq(Word), Len(m) <= BufSize,
           NEW rest \in Seq(Word), Len(rest) <= BufSize,
           Forward(p, m, rest, next)
    PROVE  /\ outq' \in [Side -> Seq(Word)] /\ out' \in [Side -> Seq(Word)]
           /\ \A q \in Side : Len(outq'[q]) <= SockCap /\ Len(out'[q]) <= BufSize
           /\ \A q \in Side : q # p => outq'[q] = outq[q] /\ out'[q] = out[q]
           /\ todo' \in {rest, todo}
           /\ phase' # "gone" => phase' = next /\ todo' = rest
           /\ phase' \in {next, "gone"}
           /\ \/ /\ todo' = rest
                 /\ Cat(outq'[p], out'[p]) = Cat(Cat(outq[p], out[p]), m)
              \/ /\ todo' = todo /\ phase' = "gone"
                 /\ Cat(outq'[p], out'[p]) = Cat(outq[p], out[p])
           /\ Cat(m, rest) = todo =>
                 Cat(Cat(outq'[p], out'[p]), todo') = Cat(Cat(outq[p], out[p]), todo)
<1>1. PICK q \in Seq(Word), r \in Seq(Word), room \in Nat :
         /\ q = outq[p] /\ r = out[p] /\ room = Room(p)
         /\ Len(r) <= BufSize /\ room <= SockCap - Len(q)
  BY RoomIs, Zenon
<1>2. Len(r) \in Nat /\ Len(m) \in Nat
  BY LenProperties
<1>3. ASSUME NEW x \in Seq(Word), NEW y \in Seq(Word),
             Len(x) <= SockCap, Len(y) <= BufSize,
             outq' = [outq EXCEPT ![p] = x], out' = [out EXCEPT ![p] = y]
      PROVE  /\ outq' \in [Side -> Seq(Word)] /\ out' \in [Side -> Seq(Word)]
             /\ \A s \in Side : Len(outq'[s]) <= SockCap /\ Len(out'[s]) <= BufSize
             /\ \A s \in Side : s # p => outq'[s] = outq[s] /\ out'[s] = out[s]
             /\ outq'[p] = x /\ out'[p] = y
  BY <1>3, Zenon DEF Typing, Bounds
<1>4. CASE /\ Len(out[p] \o m) <= Room(p)
           /\ outq' = [outq EXCEPT ![p] = @ \o out[p] \o m]
           /\ out' = [out EXCEPT ![p] = <<>>]
           /\ todo' = rest
           /\ phase' = next
  <2> DEFINE x == Cat(Cat(q, r), m)
  <2>1. Len(r \o m) <= room
    BY <1>1, <1>4, Zenon
  <2>2. /\ x \in Seq(Word) /\ Len(x) <= SockCap
        /\ Cat(Cat(x, <<>>), rest) = Cat(Cat(q, r), Cat(m, rest))
    BY <1>1, <2>1, FlushAll
  <2>3. outq' = [outq EXCEPT ![p] = x]
    BY <1>1, <1>4, Zenon DEF Cat
  <2> HIDE DEF x
  <2>4. <<>> \in Seq(Word) /\ Len(<<>>) <= BufSize
    BY EmptySeq, RelayAssumption
  <2>5. /\ outq' \in [Side -> Seq(Word)] /\ out' \in [Side -> Seq(Word)]
        /\ \A s \in Side : Len(outq'[s]) <= SockCap /\ Len(out'[s]) <= BufSize
        /\ \A s \in Side : s # p => outq'[s] = outq[s] /\ out'[s] = out[s]
        /\ outq'[p] = x /\ out'[p] = <<>>
    BY <1>3, <1>4, <2>2, <2>3, <2>4
  <2>6. Cat(m, rest) = todo =>
           Cat(Cat(outq'[p], out'[p]), todo') = Cat(Cat(outq[p], out[p]), todo)
    BY <1>1, <1>4, <2>2, <2>5, Zenon
  <2>7. Cat(outq'[p], out'[p]) = Cat(Cat(outq[p], out[p]), m)
    <3>1. Cat(x, <<>>) = x
      BY <2>2, CatEmpty
    <3> QED BY <1>1, <2>5, <3>1, Zenon DEF x
  <2> QED BY <1>4, <2>5, <2>6, <2>7, Zenon
<1>5. CASE /\ Len(out[p] \o m) > Room(p)
           /\ LET put == Fits(p, m) \/ Len(out[p]) <= Room(p)
                  ring == IF put THEN out[p] \o m ELSE out[p]
              IN  /\ outq' = [outq EXCEPT ![p] = @ \o SubSeq(ring, 1, Room(p))]
                  /\ out' = [out EXCEPT ![p] = SubSeq(ring, Room(p) + 1, Len(ring))]
                  /\ todo' = IF put THEN rest ELSE todo
           /\ phase' = "gone"
  <2> DEFINE put == Len(Cat(r, m)) <= BufSize \/ Len(r) <= room
             ring == IF put THEN Cat(r, m) ELSE r
             x == Cat(q, SubSeq(ring, 1, room))
             y == SubSeq(ring, room + 1, Len(ring))
  <2>1. /\ outq' = [outq EXCEPT ![p] = x]
        /\ out' = [out EXCEPT ![p] = y]
        /\ todo' = IF put THEN rest ELSE todo
        /\ Len(Cat(r, m)) > room
    BY <1>1, <1>5, Zenon DEF Cat, Fits
  <2>2. Cat(r, m) \in Seq(Word) /\ Len(Cat(r, m)) = Len(r) + Len(m)
    BY CatType
  <2>3. /\ ring \in Seq(Word) /\ room <= Len(ring)
        /\ Len(ring) - room <= BufSize
    <3>1. CASE put
      <4>1. ring = Cat(r, m)
        BY <3>1
      <4>2. Len(Cat(r, m)) - room <= BufSize
        BY <1>1, <1>2, <2>2, <3>1, RelayAssumption
      <4>3. room <= Len(Cat(r, m))
        BY <1>1, <1>2, <2>1, <2>2
      <4> QED BY <2>2, <4>1, <4>2, <4>3
    <3>2. CASE ~put
      <4>1. ring = r
        BY <3>2
      <4>2. room <= Len(r) /\ Len(r) - room <= BufSize
        BY <1>1, <1>2, <3>2, RelayAssumption
      <4> QED BY <4>1, <4>2
    <3> QED BY <3>1, <3>2
  <2>4. put => ring = Cat(r, m)
    OBVIOUS
  <2>5. ~put => ring = r
    OBVIOUS
  <2> HIDE DEF put, ring
  <2>6. /\ x \in Seq(Word) /\ Len(x) <= SockCap
        /\ y \in Seq(Word) /\ Len(y) <= BufSize
        /\ Cat(x, y) = Cat(q, ring)
    BY <1>1, <2>3, FlushPart
  <2> HIDE DEF x, y
  <2>7. /\ outq' \in [Side -> Seq(Word)] /\ out' \in [Side -> Seq(Word)]
        /\ \A s \in Side : Len(outq'[s]) <= SockCap /\ Len(out'[s]) <= BufSize
        /\ \A s \in Side : s # p => outq'[s] = outq[s] /\ out'[s] = out[s]
        /\ outq'[p] = x /\ out'[p] = y
    BY <1>3, <2>1, <2>6
  <2>8. ASSUME Cat(m, rest) = todo
        PROVE  Cat(Cat(x, y), todo') = Cat(Cat(q, r), todo)
    <3>1. CASE put
      <4>1. Cat(x, y) = Cat(Cat(q, r), m) /\ todo' = rest
        BY <2>1, <2>4, <2>6, <3>1, CatAssoc
      <4>2. Cat(q, r) \in Seq(Word)
        BY CatType
      <4>3. Cat(Cat(Cat(q, r), m), rest) = Cat(Cat(q, r), Cat(m, rest))
        BY <4>2, CatAssoc
      <4> QED BY <2>8, <4>1, <4>3, Zenon
    <3>2. CASE ~put
      BY <2>1, <2>5, <2>6, <3>2, Zenon
    <3> QED BY <3>1, <3>2
  <2>9. Cat(m, rest) = todo =>
           Cat(Cat(outq'[p], out'[p]), todo') = Cat(Cat(outq[p], out[p]), todo)
    BY <1>1, <2>7, <2>8, Zenon
  <2>10. put => Cat(outq'[p], out'[p]) = Cat(Cat(outq[p], out[p]), m)
    <3>1. Cat(Cat(q, r), m) = Cat(q, Cat(r, m))
      BY CatAssoc
    <3> QED BY <1>1, <2>4, <2>6, <2>7, <3>1, Zenon
  <2>11. ~put => Cat(outq'[p], out'[p]) = Cat(outq[p], out[p])
    BY <1>1, <2>5, <2>6, <2>7, Zenon
  <2>12. (put => todo' = rest) /\ (~put => todo' = todo)
    BY <2>1
  <2>13. \/ /\ todo' = rest
            /\ Cat(outq'[p], out'[p]) = Cat(Cat(outq[p], out[p]), m)
         \/ /\ todo' = todo /\ phase' = "gone"
            /\ Cat(outq'[p], out'[p]) = Cat(outq[p], out[p])
    BY <1>5, <2>10, <2>11, <2>12, Zenon
  <2>14. todo' \in {rest, todo} /\ phase' = "gone"
    BY <1>5, <2>12
  <2>15. (phase' # "gone" => phase' = next /\ todo' = rest) /\ phase' \in {next, "gone"}
    BY <2>14
  <2> QED BY <2>7, <2>9, <2>13, <2>14, <2>15, Zenon
<1> QED BY <1>4, <1>5 DEF Forward

-----------------------------------------------------------------------------
(* The invariant. *)

\* The invariant holds when the connection is made.
LEMMA InitHolds == Init => IInv
<1> SUFFICES ASSUME Init
             PROVE  IInv
  OBVIOUS
<1>1. <<>> \in Seq(Word) /\ Len(<<>>) = 0
  BY EmptySeq
<1>2. Typing
  BY <1>1, RelayAssumption DEF Init, Typing, Phase
<1>3. Bounds
  BY <1>1, RelayAssumption DEF Init, Bounds
<1>4. Transparent
  <2>1. ASSUME NEW s \in Side
        PROVE  Line(s) = Cat(Cat(Cat(Cat(<<>>, <<>>), <<>>), <<>>), <<>>)
    BY SideFacts, LineCat DEF Init, Todo
  <2>2. Cat(<<>>, <<>>) = <<>>
    BY <1>1, CatEmpty
  <2> QED BY <2>1, <2>2 DEF Transparent, Init
<1> QED BY <1>2, <1>3, <1>4 DEF IInv, Turning, Init

\* What the stream from s is made of, as sequences of words.
LEMMA LineParts ==
    ASSUME Typing, NEW s \in Side
    PROVE  \E g, q, o, t, i \in Seq(Word) :
              /\ g = got[Other(s)] /\ q = outq[Other(s)] /\ o = out[Other(s)]
              /\ t = Todo(s) /\ i = inq[s]
              /\ Line(s) = Cat(Cat(Cat(Cat(g, q), o), t), i)
<1>1. /\ got[Other(s)] \in Seq(Word) /\ outq[Other(s)] \in Seq(Word)
      /\ out[Other(s)] \in Seq(Word) /\ Todo(s) \in Seq(Word) /\ inq[s] \in Seq(Word)
  BY SideFacts, EmptySeq DEF Typing, Todo
<1>2. Line(s) = Cat(Cat(Cat(Cat(got[Other(s)], outq[Other(s)]), out[Other(s)]),
                             Todo(s)), inq[s])
  BY LineCat
<1> QED BY <1>1, <1>2, Zenon

\* What is on its way from s depends on these five parts and on nothing else.
LEMMA LineSame ==
    ASSUME NEW s \in Side, NEW p, p = Other(s),
           got'[p] = got[p], outq'[p] = outq[p], out'[p] = out[p],
           inq'[s] = inq[s], Todo(s)' = Todo(s)
    PROVE  Line(s)' = Line(s)
BY Zenon DEF Line

\* A word written by s goes to the end of sent[s] and of the line.
LEMMA PeerWriteHolds ==
    ASSUME IInv, NEW s \in Side, PeerWrite(s)
    PROVE  IInv'
<1>1. PICK k \in MsgSizes :
         LET m == Message(s, Len(sent[s]) + 1, k)
         IN  /\ Len(sent[s]) + k <= MaxWords[s]
             /\ Len(inq[s]) + k <= SockCap
             /\ sent' = [sent EXCEPT ![s] = @ \o m]
             /\ inq' = [inq EXCEPT ![s] = @ \o m]
  BY DEF PeerWrite
<1> DEFINE m == Message(s, Len(sent[s]) + 1, k)
<1>2. m \in Seq(Word) /\ Len(m) = k
  <2>1. sent[s] \in Seq(Word)
    BY DEF IInv, Typing
  <2>2. Len(sent[s]) \in Nat
    BY <2>1, LenProperties
  <2>3. Len(sent[s]) + 1 \in Nat
    BY <2>2
  <2>4. k \in Nat
    BY RelayAssumption
  <2> QED BY <2>3, <2>4, MessageType
<1> HIDE DEF m
<1>3. /\ sent' = [sent EXCEPT ![s] = Cat(sent[s], m)]
      /\ inq' = [inq EXCEPT ![s] = Cat(inq[s], m)]
  BY <1>1, Zenon DEF m, Cat
<1>4. /\ UNCHANGED <<got, outq, closed, out, from, todo, phase, sends, touched>>
      /\ Len(inq[s]) + k <= SockCap
  BY <1>1 DEF PeerWrite
<1>5. PICK w \in Seq(Word), i \in Seq(Word) : w = sent[s] /\ i = inq[s]
  BY DEF IInv, Typing
<1>6. /\ Cat(w, m) \in Seq(Word) /\ Cat(i, m) \in Seq(Word)
      /\ Len(Cat(i, m)) = Len(i) + Len(m)
  BY <1>2, CatType
<1>7. Len(Cat(i, m)) <= SockCap
  BY <1>2, <1>4, <1>5, <1>6, Zenon
<1>8. sent' = [sent EXCEPT ![s] = Cat(w, m)] /\ inq' = [inq EXCEPT ![s] = Cat(i, m)]
  BY <1>3, <1>5, Zenon
<1>9. Typing'
  BY <1>4, <1>6, <1>8, Zenon DEF IInv, Typing
<1>10. Bounds'
  BY <1>4, <1>7, <1>8, Zenon DEF IInv, Typing, Bounds
<1>11. Turning'
  BY <1>4, Zenon DEF IInv, Turning
<1>12. Transparent'
  <2> SUFFICES ASSUME NEW t \in Side, touched'[t] = {}
               PROVE  Line(t)' = sent'[t]
    BY Zenon DEF Transparent
  <2>1. Line(t) = sent[t]
    BY <1>4, Zenon DEF IInv, Transparent
  <2>2. CASE t # s
    <3>1. sent'[t] = sent[t] /\ inq'[t] = inq[t]
      BY <1>8, <2>2, Zenon DEF IInv, Typing
    <3>2. Line(t)' = Line(t)
      BY <1>4, <3>1, Zenon DEF Line, Todo
    <3> QED BY <2>1, <3>1, <3>2
  <2>3. CASE t = s
    <3>1. sent'[s] = Cat(w, m) /\ inq'[s] = Cat(i, m)
      BY <1>8, Zenon DEF IInv, Typing
    <3> DEFINE ahead == Cat(Cat(Cat(got[Other(s)], outq[Other(s)]), out[Other(s)]),
                            Todo(s))
    <3>2. ahead \in Seq(Word)
      <4>1. /\ got[Other(s)] \in Seq(Word) /\ outq[Other(s)] \in Seq(Word)
            /\ out[Other(s)] \in Seq(Word) /\ Todo(s) \in Seq(Word)
        BY SideFacts, EmptySeq DEF IInv, Typing, Todo
      <4>2. Cat(Cat(got[Other(s)], outq[Other(s)]), out[Other(s)]) \in Seq(Word)
        BY <4>1, Cat3Type
      <4> QED BY <4>1, <4>2, CatType
    <3>3. Line(s) = Cat(ahead, i)
      BY <1>5, LineCat
    <3>4. Line(s)' = Cat(ahead, Cat(i, m))
      BY <1>4, <3>1, Zenon DEF Line, Todo, Cat
    <3> HIDE DEF ahead
    <3>5. Cat(Cat(ahead, i), m) = Cat(ahead, Cat(i, m))
      BY <1>2, <3>2, CatAssoc
    <3> QED BY <1>5, <2>1, <2>3, <3>1, <3>3, <3>4, <3>5, Zenon
  <2> QED BY <2>2, <2>3
<1> QED BY <1>9, <1>10, <1>11, <1>12 DEF IInv

\* What peer p reads moves from the socket to the head of the line.
LEMMA PeerReadHolds ==
    ASSUME IInv, NEW p \in Side, PeerRead(p)
    PROVE  IInv'
<1>1. /\ got' = [got EXCEPT ![p] = Cat(got[p], outq[p])]
      /\ outq' = [outq EXCEPT ![p] = <<>>]
      /\ UNCHANGED <<sent, inq, closed, out, from, todo, phase, sends, touched>>
  BY Zenon DEF PeerRead, Cat
<1>2. PICK g \in Seq(Word), q \in Seq(Word) : g = got[p] /\ q = outq[p]
  BY DEF IInv, Typing
<1>3. Cat(g, q) \in Seq(Word) /\ <<>> \in Seq(Word) /\ Len(<<>>) <= SockCap
  BY CatType, EmptySeq, RelayAssumption
<1>4. got' = [got EXCEPT ![p] = Cat(g, q)]
  BY <1>1, <1>2, Zenon
<1>5. Typing'
  BY <1>1, <1>3, <1>4, Zenon DEF IInv, Typing
<1>6. Bounds'
  BY <1>1, <1>3, Zenon DEF IInv, Typing, Bounds
<1>7. Turning'
  BY <1>1, Zenon DEF IInv, Turning
<1>8. Transparent'
  <2> SUFFICES ASSUME NEW s \in Side, touched'[s] = {}
               PROVE  Line(s)' = sent'[s]
    BY Zenon DEF Transparent
  <2>1. Line(s) = sent[s] /\ sent' = sent
    BY <1>1, Zenon DEF IInv, Transparent
  <2>2. CASE Other(s) # p
    BY <1>1, <2>1, <2>2, SideFacts, Zenon DEF IInv, Typing, Line, Todo
  <2>3. CASE Other(s) = p
    <3>1. PICK o \in Seq(Word), t \in Seq(Word), i \in Seq(Word) :
             /\ o = out[p] /\ t = Todo(s) /\ i = inq[s]
             /\ Line(s) = Cat(Cat(Cat(Cat(g, q), o), t), i)
      BY <1>2, <2>3, LineParts DEF IInv
    <3>2. got'[p] = Cat(g, q) /\ outq'[p] = <<>>
      BY <1>1, <1>4, Zenon DEF IInv, Typing
    <3>3. Line(s)' = Cat(Cat(Cat(Cat(Cat(g, q), <<>>), o), t), i)
      BY <1>1, <2>3, <3>1, <3>2, Zenon DEF Line, Todo, Cat
    <3>4. Cat(Cat(g, q), <<>>) = Cat(g, q)
      BY <1>3, CatEmpty
    <3> QED BY <2>1, <3>1, <3>3, <3>4, Zenon
  <2> QED BY <2>2, <2>3
<1> QED BY <1>5, <1>6, <1>7, <1>8 DEF IInv

\* What wldbg reads moves from the in socket to the buffer.
LEMMA ReadHolds ==
    ASSUME IInv, NEW s \in Side, Read(s)
    PROVE  IInv'
<1>1. PICK i \in Seq(Word) : i = inq[s]
  BY DEF IInv, Typing
<1> DEFINE n == Least(BufSize, Len(i))
           x == SubSeq(i, 1, n)
           y == SubSeq(i, n + 1, Len(i))
<1>2. /\ todo' = x
      /\ inq' = [inq EXCEPT ![s] = SubSeq(i, Len(x) + 1, Len(i))]
      /\ from' = s /\ phase' = "loop" /\ phase = "idle" /\ i # <<>>
      /\ UNCHANGED <<sent, got, outq, closed, out, sends, touched>>
  BY <1>1, Zenon DEF Read, Received
<1>3. Len(i) \in Nat \ {0}
  BY <1>2, EmptySeq
<1>4. n \in 0 .. Len(i) /\ n <= BufSize /\ n > 0
  BY <1>3, RelayAssumption DEF Least
<1> HIDE DEF n
<1>5. /\ x \in Seq(Word) /\ y \in Seq(Word) /\ Cat(x, y) = i
      /\ Len(x) = n /\ Len(y) = Len(i) - n
  BY <1>4, Cut, CatCut
<1>0. inq' = [inq EXCEPT ![s] = y]
  BY <1>2, <1>5, Zenon
<1> HIDE DEF x, y
<1>6. Len(i) <= SockCap
  BY <1>1, Zenon DEF IInv, Bounds
<1>7. /\ Len(x) <= BufSize /\ x # <<>> /\ Len(y) <= SockCap
  BY <1>3, <1>4, <1>5, <1>6, EmptySeq, RelayAssumption
<1>8. Typing'
  BY <1>0, <1>2, <1>5, ZenonT(60) DEF IInv, Typing, Phase
<1>9. Bounds'
  BY <1>0, <1>2, <1>7, Zenon DEF IInv, Typing, Bounds
<1>10. Turning'
  BY <1>2, <1>7 DEF Turning
<1>11. todo = <<>>
  BY <1>2 DEF IInv, Turning
<1>12. Transparent'
  <2> SUFFICES ASSUME NEW t \in Side, touched'[t] = {}
               PROVE  Line(t)' = sent'[t]
    BY Zenon DEF Transparent
  <2>1. Line(t) = sent[t] /\ sent' = sent
    BY <1>2, Zenon DEF IInv, Transparent
  <2>2. Todo(t) = <<>>
    BY <1>11, Zenon DEF Todo
  <2>3. CASE t # s
    <3>1. Todo(t)' = <<>> /\ inq'[t] = inq[t]
      BY <1>0, <1>2, <2>3, Zenon DEF Todo, IInv, Typing
    <3>2. Line(t)' = Line(t)
      BY <1>2, <2>2, <3>1, Zenon DEF Line
    <3> QED BY <2>1, <3>2
  <2>4. CASE t = s
    <3>1. PICK g \in Seq(Word), q \in Seq(Word), o \in Seq(Word) :
             /\ g = got[Other(s)] /\ q = outq[Other(s)] /\ o = out[Other(s)]
             /\ Line(s) = Cat(Cat(Cat(Cat(g, q), o), <<>>), i)
      BY <1>1, <2>2, <2>4, LineParts DEF IInv
    <3>2. Todo(s)' = x /\ inq'[s] = y
      BY <1>0, <1>2, Zenon DEF Todo, IInv, Typing
    <3>3. Line(s)' = Cat(Cat(Cat(Cat(g, q), o), x), y)
      BY <1>2, <3>1, <3>2, Zenon DEF Line, Cat
    <3>4. Cat(Cat(g, q), o) \in Seq(Word)
      BY Cat3Type
    <3>5. Cat(Cat(Cat(g, q), o), <<>>) = Cat(Cat(g, q), o)
      BY <3>4, CatEmpty
    <3>6. Cat(Cat(Cat(Cat(g, q), o), x), y) = Cat(Cat(Cat(g, q), o), Cat(x, y))
      BY <1>5, <3>4, CatAssoc
    <3> QED BY <1>5, <2>1, <2>4, <3>1, <3>3, <3>5, <3>6, Zenon
  <2> QED BY <2>3, <2>4
<1> QED BY <1>8, <1>9, <1>10, <1>12 DEF IInv

\* A turn of the loop: the other stream is as it was, and so is this one when
\* the message that is forwarded is the one that was cut off.
LEMMA TurnHolds ==
    ASSUME IInv, phase = "loop", NEW next, NEW m \in Seq(Word), Len(m) <= BufSize,
           NEW rest \in Seq(Word), Len(rest) <= BufSize,
           Forward(Other(from), m, rest, next),
           UNCHANGED <<sent, got, inq, closed, from, sends>>,
           next \in Phase, next \in {"idle", "loop"} => next = Turn(rest),
           touched' \in [Side -> SUBSET Way],
           \A s \in Side : touched[s] # {} => touched'[s] # {},
           Cat(m, rest) = todo \/ touched'[from] # {}
    PROVE  IInv'
<1> DEFINE p == Other(from)
<1>1. from \in Side /\ todo # <<>> /\ todo \in Seq(Word) /\ Len(todo) <= BufSize
  BY DEF IInv, Turning, Typing, Bounds
<1>2. p \in Side /\ p # from /\ Other(p) = from /\ \A q \in Side : q = p \/ q = from
  BY <1>1, SideFacts
<1>3. /\ outq' \in [Side -> Seq(Word)] /\ out' \in [Side -> Seq(Word)]
      /\ \A q \in Side : Len(outq'[q]) <= SockCap /\ Len(out'[q]) <= BufSize
      /\ \A q \in Side : q # p => outq'[q] = outq[q] /\ out'[q] = out[q]
      /\ todo' \in {rest, todo}
      /\ phase' # "gone" => phase' = next /\ todo' = rest
      /\ phase' \in {next, "gone"}
      /\ \/ /\ todo' = rest
            /\ Cat(outq'[p], out'[p]) = Cat(Cat(outq[p], out[p]), m)
         \/ /\ todo' = todo /\ phase' = "gone"
            /\ Cat(outq'[p], out'[p]) = Cat(outq[p], out[p])
      /\ Cat(m, rest) = todo =>
            Cat(Cat(outq'[p], out'[p]), todo') = Cat(Cat(outq[p], out[p]), todo)
  <2>1. Typing /\ Bounds /\ Forward(p, m, rest, next)
    BY DEF IInv
  <2> HIDE DEF p
  <2> QED BY <1>2, <2>1, ForwardKeeps
<1>4. Typing'
  BY <1>1, <1>3 DEF IInv, Typing, Phase
<1>5. Bounds'
  BY <1>1, <1>3, Zenon DEF IInv, Bounds
<1>6. Turning'
  BY <1>1, <1>3 DEF Turning, Turn
<1>7. Transparent'
  <2> SUFFICES ASSUME NEW s \in Side, touched'[s] = {}
               PROVE  Line(s)' = sent'[s]
    BY Zenon DEF Transparent
  <2>1. Line(s) = sent[s] /\ sent' = sent
    BY Zenon DEF IInv, Transparent
  <2>2. CASE s # from
    <3>1. Todo(s)' = Todo(s)
      BY <2>2, Zenon DEF Todo
    <3>2. Other(s) \in Side /\ Other(s) # p
      BY <1>2, <2>2, SideFacts
    <3>3. Line(s)' = Line(s)
      BY <1>3, <3>1, <3>2, Zenon DEF Line
    <3> QED BY <2>1, <3>3
  <2>3. CASE s = from
    <3>1. Cat(Cat(outq'[p], out'[p]), todo') = Cat(Cat(outq[p], out[p]), todo)
      BY <1>3, <2>3, Zenon
    <3>2. PICK g \in Seq(Word), q \in Seq(Word), o \in Seq(Word), i \in Seq(Word) :
             /\ g = got[p] /\ q = outq[p] /\ o = out[p] /\ i = inq[s]
             /\ Line(s) = Cat(Cat(Cat(Cat(g, q), o), todo), i)
      BY <2>3, LineParts DEF IInv, Todo
    <3>3. PICK q2 \in Seq(Word), o2 \in Seq(Word), t2 \in Seq(Word) :
             q2 = outq'[p] /\ o2 = out'[p] /\ t2 = todo'
      BY <1>1, <1>2, <1>3, Zenon
    <3>4. Line(s)' = Cat(Cat(Cat(Cat(g, q2), o2), t2), i)
      BY <2>3, <3>2, <3>3, Zenon DEF Line, Todo, Cat
    <3>5. /\ Cat(Cat(Cat(g, q), o), todo) = Cat(g, Cat(Cat(q, o), todo))
          /\ Cat(Cat(Cat(g, q2), o2), t2) = Cat(g, Cat(Cat(q2, o2), t2))
      BY <1>1, Cat4
    <3> QED BY <2>1, <2>3, <3>1, <3>2, <3>3, <3>4, <3>5, Zenon
  <2> QED BY <2>2, <2>3
<1> QED BY <1>4, <1>5, <1>6, <1>7 DEF IInv

\* A step through the buffer: what is cut off and the rest of it.
LEMMA StepSplits ==
    ASSUME IInv, phase = "loop", AtMessage
    PROVE  /\ MessageSize \in 0 .. Len(todo)
           /\ SubSeq(todo, 1, MessageSize) \in Seq(Word)
           /\ Len(SubSeq(todo, 1, MessageSize)) <= BufSize
           /\ Rest(MessageSize) \in Seq(Word) /\ Len(Rest(MessageSize)) <= BufSize
           /\ Cat(SubSeq(todo, 1, MessageSize), Rest(MessageSize)) = todo
<1>1. todo \in Seq(Word) /\ todo # <<>> /\ Len(todo) <= BufSize /\ Len(todo) \in Nat
  BY LenProperties DEF IInv, Turning, Typing, Bounds
<1>2. MessageSize \in 0 .. Len(todo)
  <2>1. CASE whole
    BY <1>1, <2>1 DEF MessageSize
  <2>2. CASE ~whole
    <3>1. Head(todo) \in Word
      BY <1>1
    <3>2. PICK k \in Nat : k = Head(todo).size
      BY <3>1 DEF Word
    <3>3. MessageSize = k /\ k <= Len(todo)
      BY <2>2, <3>2, Zenon DEF MessageSize, AtMessage
    <3>4. Len(todo) \in Nat
      BY <1>1
    <3>5. k \in 0 .. Len(todo)
      BY <3>3, <3>4
    <3> QED BY <3>3, <3>5, Zenon
  <2> QED BY <2>1, <2>2
<1> DEFINE n == MessageSize
           x == SubSeq(todo, 1, n)
           y == SubSeq(todo, n + 1, Len(todo))
<1>3. /\ x \in Seq(Word) /\ y \in Seq(Word)
      /\ Len(x) = n /\ Len(y) = Len(todo) - n
  BY <1>1, <1>2, Cut
<1>4. Cat(x, y) = todo
  BY <1>1, <1>2, CatCut
<1>5. Len(x) <= BufSize /\ Len(y) <= BufSize
  BY <1>1, <1>2, <1>3, RelayAssumption
<1>6. CASE whole
  <2>1. MessageSize = Len(todo) /\ Rest(MessageSize) = <<>>
    BY <1>6 DEF MessageSize, Rest
  <2>2. x = todo
    BY <1>1, <2>1, SubSeqFull
  <2>3. Cat(todo, <<>>) = todo
    BY <1>1, CatEmpty
  <2>4. <<>> \in Seq(Word) /\ Len(<<>>) <= BufSize
    BY EmptySeq, RelayAssumption
  <2>5. Cat(x, Rest(MessageSize)) = todo
    BY <2>1, <2>2, <2>3, Zenon
  <2> QED BY <1>2, <1>3, <1>5, <2>1, <2>4, <2>5, Zenon
<1>7. CASE ~whole
  <2>1. Rest(MessageSize) = y
    BY <1>7, Zenon DEF Rest
  <2> QED BY <1>2, <1>3, <1>4, <1>5, <2>1, Zenon
<1> QED BY <1>6, <1>7

\* A message passed on goes from the buffer to the ring or the socket.
LEMMA PassOnHolds ==
    ASSUME IInv, PassOn
    PROVE  IInv'
<1> DEFINE rest == Rest(MessageSize)
           m == SubSeq(todo, 1, MessageSize)
<1>1. phase = "loop" /\ AtMessage
      /\ Forward(Other(from), m, rest, Turn(rest))
      /\ UNCHANGED <<sent, got, inq, closed, from, sends, touched>>
  BY Zenon DEF PassOn
<1>2. /\ m \in Seq(Word) /\ Len(m) <= BufSize
      /\ rest \in Seq(Word) /\ Len(rest) <= BufSize
      /\ Cat(m, rest) = todo
  BY <1>1, StepSplits
<1>3. Turn(rest) \in Phase
  BY DEF Turn, Phase
<1>4. touched' \in [Side -> SUBSET Way] /\ \A s \in Side : touched[s] # {} => touched'[s] # {}
  BY <1>1, Zenon DEF IInv, Typing
<1> HIDE DEF rest, m
<1> QED BY <1>1, <1>2, <1>3, <1>4, TurnHolds

\* An edit marks its stream, and moves what is left as PassOn does.
LEMMA EditHolds ==
    ASSUME IInv, NEW way \in {"edit", "resize"}, Edit(way)
    PROVE  IInv'
<1>1. PICK k \in EditedSizes(way) :
         LET rest == Rest(k)
             next == IF ~whole /\ k > Len(todo)
                     THEN "runaway" ELSE Turn(rest)
         IN  Forward(Other(from), Edited(k), rest, next)
  BY DEF Edit
<1> DEFINE m == Edited(k)
           rest == Rest(k)
           next == IF ~whole /\ k > Len(todo) THEN "runaway" ELSE Turn(rest)
<1>2. /\ phase = "loop" /\ AtMessage
      /\ touched' = [touched EXCEPT ![from] = @ \cup {way}]
      /\ UNCHANGED <<sent, got, inq, closed, from, sends>>
      /\ Forward(Other(from), m, rest, next)
  BY <1>1, Zenon DEF Edit
<1>3. todo \in Seq(Word) /\ todo # <<>> /\ Len(todo) <= BufSize /\ from \in Side
      /\ Len(todo) \in Nat
  BY <1>2, LenProperties DEF IInv, Turning, Typing, Bounds
<1>4. k \in Nat /\ k <= BufSize /\ (k = MessageSize => k \in 0 .. Len(todo))
  <2>1. MessageSize \in 0 .. Len(todo)
    BY <1>2, StepSplits
  <2>2. k = MessageSize \/ k \in MsgSizes \cup {0}
    BY <1>1 DEF EditedSizes
  <2>3. k \in MsgSizes \cup {0} => k \in Nat /\ k <= BufSize
    BY RelayAssumption
  <2>4. k = MessageSize => k \in 0 .. Len(todo)
    BY <2>1
  <2>5. k \in 0 .. Len(todo) => k \in Nat /\ k <= BufSize
    BY <1>3, RelayAssumption
  <2> QED BY <2>2, <2>3, <2>4, <2>5, Zenon
<1>5. m \in Seq(Word) /\ Len(m) = k
  <2>1. CASE k = MessageSize
    <3>1. m = [i \in 1 .. k |-> [todo[i] EXCEPT !.src = "user"]]
      BY <2>1, Zenon DEF Edited
    <3>2. ASSUME NEW i \in 1 .. k
          PROVE  [todo[i] EXCEPT !.src = "user"] \in Word
      <4>1. PICK w \in Word : w = todo[i]
        BY <1>3, <1>4, <2>1, ElementOfSeq
      <4> QED BY <4>1 DEF Word
    <3> HIDE DEF m
    <3> QED BY <1>4, <3>1, <3>2
  <2>2. CASE k # MessageSize
    <3>1. PICK h \in Word : h = Head(todo)
      BY <1>3
    <3>2. h.at \in Nat
      BY DEF Word
    <3>3. m = Message("user", h.at, k)
      BY <2>2, <3>1, Zenon DEF Edited
    <3> HIDE DEF m
    <3> QED BY <1>4, <3>2, <3>3, MessageType
  <2> QED BY <2>1, <2>2
<1>6. rest \in Seq(Word) /\ Len(rest) <= BufSize
  <2>1. CASE whole
    BY <2>1, EmptySeq, RelayAssumption DEF Rest
  <2>2. CASE ~whole
    <3>1. rest = SubSeq(todo, k + 1, Len(todo))
      BY <2>2 DEF Rest
    <3>2. CASE k <= Len(todo)
      <4>1. k \in 0 .. Len(todo)
        BY <1>3, <1>4, <3>2
      <4>2. rest \in Seq(Word) /\ Len(rest) = Len(todo) - k
        BY <1>3, <3>1, <4>1, Cut
      <4> QED BY <1>3, <1>4, <4>2, RelayAssumption
    <3>3. CASE ~(k <= Len(todo))
      <4>1. rest = <<>>
        BY <1>3, <1>4, <3>1, <3>3, SubSeqEmpty
      <4> QED BY <4>1, EmptySeq, RelayAssumption
    <3> QED BY <3>2, <3>3
  <2> QED BY <2>1, <2>2
<1>7. next \in Phase /\ (next \in {"idle", "loop"} => next = Turn(rest))
  BY DEF Turn, Phase
<1>8. /\ touched' \in [Side -> SUBSET Way] /\ touched'[from] # {}
      /\ \A s \in Side : touched[s] # {} => touched'[s] # {}
  <2>1. touched \in [Side -> SUBSET Way] /\ way \in Way
    BY DEF IInv, Typing, Way
  <2> QED BY <1>2, <1>3, <2>1
<1>9. Len(m) <= BufSize
  BY <1>4, <1>5
<1> HIDE DEF m, rest, next
<1> QED BY <1>2, <1>5, <1>6, <1>7, <1>8, <1>9, TurnHolds

\* A torn message marks its stream; nothing else moves.
LEMMA TornHolds ==
    ASSUME IInv, Torn
    PROVE  IInv'
<1>1. /\ phase = "loop" /\ phase' = "runaway" /\ touched' = [touched EXCEPT ![from] = @ \cup {"tear"}]
      /\ UNCHANGED <<sent, got, inq, outq, closed, out, from, todo, sends>>
  BY DEF Torn
<1>2. Typing'
  <2>1. touched' \in [Side -> SUBSET Way]
    BY <1>1 DEF IInv, Typing, Way
  <2>2. phase' \in Phase
    BY <1>1 DEF Phase
  <2> QED BY <1>1, <2>1, <2>2, Zenon DEF IInv, Typing
<1>3. Bounds' /\ Turning'
  BY <1>1 DEF IInv, Bounds, Turning
<1>4. ASSUME NEW s \in Side
      PROVE  Line(s)' = Line(s) /\ sent'[s] = sent[s] /\ (touched[s] # {} => touched'[s] # {})
  BY <1>1, Zenon DEF IInv, Typing, Line, Todo
<1>5. Transparent'
  BY <1>4, Zenon DEF IInv, Transparent
<1> QED BY <1>2, <1>3, <1>5 DEF IInv

\* An injected message marks its stream; the other stream is as it was.
LEMMA UserSendHolds ==
    ASSUME IInv, NEW p \in Side, UserSend(p)
    PROVE  IInv'
<1> DEFINE s == Other(p)
<1>1. PICK k \in MsgSizes :
         LET m == Message("user", sends + 1, k)
             n == Least(Room(p), Len(out[p]))
         IN  IF Fits(p, m)
             THEN /\ out' = [out EXCEPT ![p] = @ \o m]
                  /\ UNCHANGED outq
             ELSE /\ outq' = [outq EXCEPT ![p] = @ \o SubSeq(out[p], 1, n)]
                  /\ out' = [out EXCEPT ![p] = IF n = Len(@) THEN m
                                               ELSE SubSeq(@, n + 1, Len(@))]
  BY DEF UserSend
<1> DEFINE m == Message("user", sends + 1, k)
<1>2. /\ sends < MaxSends /\ sends' = sends + 1
      /\ touched' = [touched EXCEPT ![s] = @ \cup {"send"}]
      /\ UNCHANGED <<sent, got, inq, closed, from, todo, phase>>
  BY DEF UserSend
<1>3. sends \in Nat /\ sends' \in 0 .. MaxSends /\ k \in Nat /\ k <= BufSize
  BY <1>2, RelayAssumption DEF IInv, Typing
<1>4. m \in Seq(Word) /\ Len(m) = k
  <2>1. sends + 1 \in Nat /\ "user" \in Side \cup {"user"}
    BY <1>3
  <2> QED BY <1>3, <2>1, MessageType
<1> HIDE DEF m
<1>5. PICK q \in Seq(Word), r \in Seq(Word), room \in Nat :
         /\ q = outq[p] /\ r = out[p] /\ room = Room(p)
         /\ Len(r) <= BufSize /\ Len(q) <= SockCap /\ room <= SockCap - Len(q)
  <2>1. Typing /\ Bounds
    BY DEF IInv
  <2> QED BY <2>1, RoomIs, Zenon
<1>6. ASSUME NEW x \in Seq(Word), NEW y \in Seq(Word),
             Len(x) <= SockCap, Len(y) <= BufSize,
             outq' = [outq EXCEPT ![p] = x], out' = [out EXCEPT ![p] = y]
      PROVE  IInv'
  <2>1. Typing'
    <3>1. /\ outq' \in [Side -> Seq(Word)] /\ out' \in [Side -> Seq(Word)]
          /\ touched' \in [Side -> SUBSET Way]
      BY <1>2, <1>6 DEF IInv, Typing, Way
    <3> QED BY <1>2, <1>3, <3>1, Zenon DEF IInv, Typing
  <2>2. Bounds'
    BY <1>2, <1>6, Zenon DEF IInv, Typing, Bounds
  <2>3. Turning'
    BY <1>2, Zenon DEF IInv, Turning
  <2>4. Transparent'
    <3> SUFFICES ASSUME NEW t \in Side, touched'[t] = {}
                 PROVE  Line(t)' = sent'[t]
      BY Zenon DEF Transparent
    <3>1. t # s
      BY <1>2, SideFacts DEF IInv, Typing
    <3>2. Other(t) \in Side /\ Other(t) # p
      BY <3>1, SideFacts
    <3>3. touched[t] = {}
      BY <1>2, <3>1, SideFacts DEF IInv, Typing
    <3>4. Line(t) = sent[t]
      BY <3>3, Zenon DEF IInv, Transparent
    <3>5. outq'[Other(t)] = outq[Other(t)] /\ out'[Other(t)] = out[Other(t)]
      BY <1>6, <3>2 DEF IInv, Typing
    <3>6. Line(t)' = Line(t)
      BY <1>2, <3>5, Zenon DEF Line, Todo
    <3> QED BY <1>2, <3>4, <3>6, Zenon
  <2> QED BY <2>1, <2>2, <2>3, <2>4 DEF IInv
<1>7. CASE Len(Cat(r, m)) <= BufSize
  <2>1. out' = [out EXCEPT ![p] = Cat(r, m)] /\ UNCHANGED outq
    BY <1>1, <1>5, <1>7, Zenon DEF m, Cat, Fits
  <2>2. outq' = [outq EXCEPT ![p] = q]
    BY <1>5, <2>1 DEF IInv, Typing
  <2>3. Cat(r, m) \in Seq(Word) /\ Len(Cat(r, m)) = Len(r) + Len(m)
    BY <1>4, CatType
  <2> QED BY <1>5, <1>6, <1>7, <2>1, <2>2, <2>3
<1>8. CASE ~(Len(Cat(r, m)) <= BufSize)
  <2> DEFINE n == Least(room, Len(r))
             x == Cat(q, SubSeq(r, 1, n))
             y == IF n = Len(r) THEN m ELSE SubSeq(r, n + 1, Len(r))
  <2>1. outq' = [outq EXCEPT ![p] = x]
    BY <1>1, <1>5, <1>8, Zenon DEF m, Cat, Fits
  <2>2. out' = [out EXCEPT ![p] = y]
    BY <1>1, <1>5, <1>8, Zenon DEF m, Cat, Fits
  <2>3. n \in Nat /\ n <= room /\ n <= Len(r) /\ Len(r) - n <= BufSize
        /\ n <= SockCap - Len(q)
    <3>1. Len(r) \in Nat /\ Len(q) \in Nat
      BY LenProperties
    <3> QED BY <1>5, <3>1, RelayAssumption DEF Least
  <2> HIDE DEF n
  <2>4. /\ x \in Seq(Word) /\ Len(x) <= SockCap
        /\ SubSeq(r, n + 1, Len(r)) \in Seq(Word)
        /\ Len(SubSeq(r, n + 1, Len(r))) <= BufSize
    BY <2>3, FlushPart
  <2>5. y \in Seq(Word) /\ Len(y) <= BufSize
    BY <1>3, <1>4, <2>4
  <2> HIDE DEF x, y
  <2> QED BY <1>6, <2>1, <2>2, <2>4, <2>5
<1> QED BY <1>7, <1>8

\* The steps that move no word: a peer closes, wldbg hangs up, quits, is interrupted.
LEMMA QuietHolds ==
    ASSUME IInv, phase' \in {phase, "gone"}, closed' \in [Side -> BOOLEAN],
           UNCHANGED <<sent, got, inq, outq, out, from, todo, sends, touched>>
    PROVE  IInv'
<1>1. Typing'
  BY DEF IInv, Typing, Phase
<1>2. Bounds' /\ Turning'
  BY DEF IInv, Bounds, Turning
<1>3. Transparent'
  BY Zenon DEF IInv, Transparent, Line, Todo
<1> QED BY <1>1, <1>2, <1>3 DEF IInv

\* Every step keeps the invariant.
LEMMA StepHolds == IInv /\ [Next]_vars => IInv'
<1> SUFFICES ASSUME IInv, [Next]_vars
             PROVE  IInv'
  OBVIOUS
<1>1. ASSUME NEW s \in Side, PeerWrite(s) PROVE IInv'
  BY <1>1, PeerWriteHolds
<1>2. ASSUME NEW s \in Side, PeerRead(s) PROVE IInv'
  BY <1>2, PeerReadHolds
<1>3. ASSUME NEW s \in Side, PeerClose(s) PROVE IInv'
  <2>1. closed' \in [Side -> BOOLEAN]
    BY <1>3 DEF PeerClose, IInv, Typing
  <2> QED BY <1>3, <2>1, QuietHolds DEF PeerClose
<1>4. ASSUME NEW s \in Side, HangUp(s) PROVE IInv'
  BY <1>4, QuietHolds DEF HangUp, IInv, Typing
<1>5. ASSUME NEW s \in Side, Read(s) PROVE IInv'
  BY <1>5, ReadHolds
<1>6. ASSUME NEW s \in Side, UserSend(s) PROVE IInv'
  BY <1>6, UserSendHolds
<1>7. CASE PassOn
  BY <1>7, PassOnHolds
<1>8. ASSUME NEW way \in {"edit", "resize"}, Edit(way) PROVE IInv'
  BY <1>8, EditHolds
<1>9. CASE Torn
  BY <1>9, TornHolds
<1>10. CASE Quit
  BY <1>10, QuietHolds DEF Quit, IInv, Typing
<1>11. CASE Interrupt
  BY <1>11, QuietHolds DEF Interrupt, IInv, Typing
<1>12. CASE UNCHANGED vars
  BY <1>12, QuietHolds DEF vars, traffic, IInv, Typing
<1>13. ASSUME NEW way \in Ways \ {"send"}, Edit(way) PROVE IInv'
  <2>1. way \in {"edit", "resize"}
    BY RelayAssumption
  <2> QED BY <1>8, <1>13, <2>1
<1>14. CASE Step
  BY <1>1, <1>2, <1>3, <1>4, <1>5, <1>6, <1>7, <1>9, <1>10, <1>11, <1>13, <1>14
  DEF Step
<1> QED BY <1>12, <1>14 DEF Next

\* So the invariant holds throughout.
LEMMA Invariance == Spec => []IInv
BY InitHolds, StepHolds, PTL DEF Spec

\* The options are as they were read.
LEMMA WholeFixed == Spec => [](whole \in BOOLEAN)
<1> DEFINE W == whole \in BOOLEAN
<1>1. Init => W
  BY DEF Init
<1>2. W /\ [Next]_vars => W'
  BY Zenon DEF Next, vars
<1> QED BY <1>1, <1>2, PTL DEF Spec

-----------------------------------------------------------------------------
(* What follows for every behaviour of wldbg. *)

\* The invariant contains type correctness.
LEMMA TypingIsTypeOK == IInv /\ whole \in BOOLEAN => TypeOK
BY DEF IInv, Typing, Bounds, TypeOK

\* The state keeps its shape, and no ring, buffer or socket ever holds more than
\* it can (TypeOK): the sizes of wl_connection_write and wldbg->buffer suffice.
THEOREM TypeCorrect == Spec => []TypeOK
BY Invariance, WholeFixed, TypingIsTypeOK, PTL

\* As long as nobody touches a stream, no word of it is lost, repeated or moved,
\* whatever the sizes, the partial flushes, the errors and the quits.
THEOREM RelayIsTransparent == Spec => []Transparent
<1>1. IInv => Transparent
  BY DEF IInv
<1> QED BY <1>1, Invariance, PTL

\* What peer Other(s) has read is a beginning of what s wrote.
LEMMA GotIsPrefix ==
    ASSUME IInv, NEW s \in Side, touched[s] = {}
    PROVE  IsPrefix(Cat(got[Other(s)], outq[Other(s)]), sent[s])
<1>1. PICK g \in Seq(Word), q \in Seq(Word), o \in Seq(Word), t \in Seq(Word),
           i \in Seq(Word) :
         /\ g = got[Other(s)] /\ q = outq[Other(s)]
         /\ Line(s) = Cat(Cat(Cat(Cat(g, q), o), t), i)
  BY LineParts DEF IInv
<1>2. Cat(g, q) \in Seq(Word) /\ Cat(Cat(o, t), i) \in Seq(Word)
  BY CatType, Cat3Type
<1>3. Cat(Cat(Cat(Cat(g, q), o), t), i) = Cat(Cat(g, q), Cat(Cat(o, t), i))
  BY <1>2, Cat4, CatAssoc
<1>4. IsPrefix(Cat(g, q), Cat(Cat(g, q), Cat(Cat(o, t), i)))
  BY <1>2, PrefixOfConcat DEF Cat
<1>5. Line(s) = sent[s]
  BY Zenon DEF IInv, Transparent
<1> QED BY <1>1, <1>3, <1>4, <1>5, Zenon

\* A sequence is a prefix of itself.
LEMMA PrefixOfItself ==
    ASSUME NEW q \in Seq(Word)
    PROVE  IsPrefix(q, q)
<1>1. <<>> \in Seq(Word) /\ q \o <<>> = q
  BY EmptySeq, ConcatEmptySeq
<1>2. IsPrefix(q, q \o <<>>)
  BY <1>1, PrefixOfConcat
<1> QED BY <1>1, <1>2, Zenon

\* Pipe's operators are Relay's.
LEMMA PipeSides ==
    /\ Pipe!Side = Side
    /\ \A s : Pipe!Other(s) = Other(s)
    /\ \A q, r : Pipe!IsPrefix(q, r) = IsPrefix(q, r)
BY DEF Side, Other, Pipe!Side, Pipe!Other, IsPrefix, Pipe!IsPrefix

\* A peer's write extends what it has written.
LEMMA PeerWriteIsWrite ==
    ASSUME IInv, NEW s \in Side, PeerWrite(s)
    PROVE  Pipe!Write
<1>1. PICK k \in MsgSizes :
         sent' = [sent EXCEPT ![s] = @ \o Message(s, Len(sent[s]) + 1, k)]
  BY Zenon DEF PeerWrite
<1>2. UNCHANGED <<got, Tampered>>
  BY DEF PeerWrite, Tampered
<1>3. PICK w \in Seq(Word) : w = sent[s]
  BY DEF IInv, Typing
<1> DEFINE m == Message(s, Len(w) + 1, k)
<1>4. m \in Seq(Word)
  <2>1. Len(w) + 1 \in Nat /\ k \in Nat
    BY RelayAssumption, LenProperties
  <2> QED BY <2>1, MessageType
<1> HIDE DEF m
<1>5. sent'[s] = w \o m
  BY <1>1, <1>3, Zenon DEF m, IInv, Typing
<1>6. ASSUME NEW t \in Side
      PROVE  IsPrefix(sent[t], sent'[t])
  <2>1. CASE t = s
    <3>1. IsPrefix(w, w \o m)
      BY <1>4, PrefixOfConcat
    <3> QED BY <1>3, <1>5, <2>1, <3>1, Zenon
  <2>2. CASE t # s
    <3>1. sent'[t] = sent[t] /\ sent[t] \in Seq(Word)
      BY <1>1, <2>2, Zenon DEF IInv, Typing
    <3>2. IsPrefix(sent[t], sent[t])
      BY <3>1, PrefixOfItself
    <3> QED BY <3>1, <3>2, Zenon
  <2> QED BY <2>1, <2>2
<1>7. \A t \in Pipe!Side : Pipe!IsPrefix(sent[t], sent'[t])
  BY <1>6, PipeSides, Zenon
<1> QED BY <1>2, <1>7, Zenon DEF Pipe!Write

\* A peer's read delivers.
LEMMA PeerReadIsDeliver ==
    ASSUME IInv, NEW r \in Side, PeerRead(r)
    PROVE  Pipe!Deliver
<1>1. /\ got' = [got EXCEPT ![r] = Cat(got[r], outq[r])]
      /\ UNCHANGED <<sent, Tampered>>
  BY Zenon DEF PeerRead, Cat, Tampered
<1>2. ASSUME NEW p \in Side
      PROVE  IsPrefix(got[p], got'[p])
  <2>1. PICK g \in Seq(Word), q \in Seq(Word) : g = got[p] /\ q = outq[p]
    BY DEF IInv, Typing
  <2>2. CASE p = r
    <3>1. got'[p] = Cat(g, q)
      BY <1>1, <2>1, <2>2, Zenon DEF IInv, Typing
    <3>2. IsPrefix(g, Cat(g, q))
      BY PrefixOfConcat DEF Cat
    <3> QED BY <2>1, <3>1, <3>2, Zenon
  <2>3. CASE p # r
    <3>1. got'[p] = g
      BY <1>1, <2>1, <2>3, Zenon DEF IInv, Typing
    <3>2. IsPrefix(g, g)
      BY PrefixOfItself
    <3> QED BY <2>1, <3>1, <3>2, Zenon
  <2> QED BY <2>2, <2>3
<1>3. ASSUME NEW p \in Side, touched[Other(p)] = {}
      PROVE  IsPrefix(got'[p], sent[Other(p)])
  <2>1. Other(p) \in Side /\ Other(Other(p)) = p
    BY SideFacts
  <2>2. PICK g \in Seq(Word), q \in Seq(Word), o \in Seq(Word), t \in Seq(Word),
             i \in Seq(Word) :
           /\ g = got[p] /\ q = outq[p]
           /\ Line(Other(p)) = Cat(Cat(Cat(Cat(g, q), o), t), i)
    <3> DEFINE s == Other(p)
    <3>1. s \in Side /\ Other(s) = p
      BY <2>1
    <3> HIDE DEF s
    <3>2. \E g, q, o, t, i \in Seq(Word) :
             /\ g = got[p] /\ q = outq[p]
             /\ Line(s) = Cat(Cat(Cat(Cat(g, q), o), t), i)
      <4>1. Typing
        BY DEF IInv
      <4>2. \E g, q, o, t, i \in Seq(Word) :
               /\ g = got[Other(s)] /\ q = outq[Other(s)] /\ o = out[Other(s)]
               /\ t = Todo(s) /\ i = inq[s]
               /\ Line(s) = Cat(Cat(Cat(Cat(g, q), o), t), i)
        BY <3>1, <4>1, LineParts
      <4> QED BY <3>1, <4>2, Zenon
    <3> QED BY <3>2, Zenon DEF s
  <2>3. Line(Other(p)) = sent[Other(p)]
    BY <1>3, <2>1, Zenon DEF IInv, Transparent
  <2>4. IsPrefix(Cat(g, q), sent[Other(p)])
    BY <1>3, <2>1, <2>2, GotIsPrefix, Zenon
  <2>5. CASE p = r
    <3>1. got'[p] = Cat(g, q)
      BY <1>1, <2>2, <2>5, Zenon DEF IInv, Typing
    <3> QED BY <2>4, <3>1, Zenon
  <2>6. CASE p # r
    <3>1. got'[p] = g
      BY <1>1, <2>2, <2>6, Zenon DEF IInv, Typing
    <3>2. Cat(q, Cat(Cat(o, t), i)) \in Seq(Word)
      <4>1. Cat(Cat(o, t), i) \in Seq(Word)
        BY Cat3Type
      <4> QED BY <4>1, CatType
    <3>3. Cat(Cat(Cat(Cat(g, q), o), t), i) = Cat(g, Cat(q, Cat(Cat(o, t), i)))
      <4>1. Cat(g, q) \in Seq(Word) /\ Cat(Cat(o, t), i) \in Seq(Word)
        BY CatType, Cat3Type
      <4>2. Cat(Cat(Cat(Cat(g, q), o), t), i) = Cat(Cat(g, q), Cat(Cat(o, t), i))
        BY <4>1, Cat4, CatAssoc
      <4>3. Cat(Cat(g, q), Cat(Cat(o, t), i)) = Cat(g, Cat(q, Cat(Cat(o, t), i)))
        BY <4>1, CatAssoc
      <4> QED BY <4>2, <4>3, Zenon
    <3>4. IsPrefix(g, Cat(g, Cat(q, Cat(Cat(o, t), i))))
      BY <3>2, PrefixOfConcat DEF Cat
    <3> QED BY <2>2, <2>3, <3>1, <3>3, <3>4, Zenon
  <2> QED BY <2>5, <2>6
<1>4. \A p \in Pipe!Side :
         /\ Pipe!IsPrefix(got[p], got'[p])
         /\ ~Tampered[Pipe!Other(p)] => Pipe!IsPrefix(got'[p], sent[Pipe!Other(p)])
  BY <1>2, <1>3, PipeSides, SideFacts, Zenon DEF Tampered
<1> QED BY <1>1, <1>4, Zenon DEF Pipe!Deliver

\* Every step of wldbg or of a peer is a step of the pipes, or none of theirs.
LEMMA StepRefines == IInv /\ [Next]_vars => [Pipe!Next]_(Pipe!pipeVars)
<1> SUFFICES ASSUME IInv, [Next]_vars
             PROVE  Pipe!Next \/ UNCHANGED <<sent, got, Tampered>>
  BY DEF Pipe!pipeVars
<1>1. ASSUME NEW s \in Side, NEW way \in Way,
             touched' = [touched EXCEPT ![s] = @ \cup {way}],
             UNCHANGED <<sent, got>>
      PROVE  Pipe!Tamper
  <2>1. ASSUME NEW t \in Side PROVE Tampered[t] => Tampered'[t]
    BY <1>1 DEF IInv, Typing, Tampered
  <2> QED BY <1>1, <2>1, PipeSides, Zenon DEF Pipe!Tamper
<1>2. ASSUME NEW s \in Side, PeerWrite(s) PROVE Pipe!Next
  BY <1>2, PeerWriteIsWrite DEF Pipe!Next
<1>3. ASSUME NEW s \in Side, PeerRead(s) PROVE Pipe!Next
  BY <1>3, PeerReadIsDeliver DEF Pipe!Next
<1>4. ASSUME NEW s \in Side, UserSend(s) PROVE Pipe!Next
  <2>1. Other(s) \in Side /\ "send" \in Way
        /\ touched' = [touched EXCEPT ![Other(s)] = @ \cup {"send"}]
        /\ UNCHANGED <<sent, got>>
    BY <1>4, SideFacts DEF UserSend, Way
  <2> QED BY <1>1, <2>1 DEF Pipe!Next
<1>5. ASSUME NEW way \in {"edit", "resize"}, Edit(way) PROVE Pipe!Next
  <2>1. from \in Side /\ way \in Way
        /\ touched' = [touched EXCEPT ![from] = @ \cup {way}]
        /\ UNCHANGED <<sent, got>>
    BY <1>5 DEF Edit, IInv, Turning, Way
  <2> QED BY <1>1, <2>1 DEF Pipe!Next
<1>6. CASE Torn
  <2>1. from \in Side /\ "tear" \in Way
        /\ touched' = [touched EXCEPT ![from] = @ \cup {"tear"}]
        /\ UNCHANGED <<sent, got>>
    BY <1>6 DEF Torn, IInv, Turning, Way
  <2> QED BY <1>1, <2>1 DEF Pipe!Next
<1>7. ASSUME NEW s \in Side, PeerClose(s) \/ HangUp(s) \/ Read(s)
      PROVE  UNCHANGED <<sent, got, Tampered>>
  BY <1>7 DEF PeerClose, HangUp, Read, Tampered
<1>8. CASE PassOn \/ Quit \/ Interrupt \/ UNCHANGED vars
  BY <1>8 DEF PassOn, Quit, Interrupt, vars, traffic, Tampered
<1> QED
  BY <1>2, <1>3, <1>4, <1>5, <1>6, <1>7, <1>8, RelayAssumption DEF Next, Step

\* wldbg implements a pair of pipes (module Pipe) between the peers.
THEOREM RelayImplementsPipe == Spec => PipeSpec
<1>1. Init => Pipe!Init
  BY PipeSides DEF Init, Pipe!Init, Tampered
<1> QED BY <1>1, Invariance, StepRefines, PTL DEF Spec, PipeSpec, Pipe!Spec

-----------------------------------------------------------------------------
(* Streams of messages. *)

\* A stretch of a stream: around each of its words stands its message, as far as
\* the stretch goes.
Stretch(w) ==
    \A i \in 1 .. Len(w) :
        /\ 1 <= w[i].idx /\ w[i].idx <= w[i].size
        /\ \A j \in 1 .. Len(w) :
              i - w[i].idx < j /\ j <= i - w[i].idx + w[i].size =>
                  /\ w[j].idx = w[i].idx + j - i /\ w[j].size = w[i].size
                  /\ w[j].src = w[i].src /\ w[j].at = w[i].at

\* Of no message the beginning, or the end, is missing.
Starts(w) == \A i \in 1 .. Len(w) : w[i].idx <= i
Ends(w) == \A i \in 1 .. Len(w) : i - w[i].idx + w[i].size <= Len(w)

Row(w) == Stretch(w) /\ Starts(w) /\ Ends(w)

\* The words of two pieces in a row, and what each is made of.
LEMMA CatWords ==
    ASSUME NEW q \in Seq(Word), NEW r \in Seq(Word)
    PROVE  /\ Len(Cat(q, r)) = Len(q) + Len(r) /\ Len(q) \in Nat /\ Len(r) \in Nat
           /\ \A i \in 1 .. Len(q) : Cat(q, r)[i] = q[i] /\ q[i] \in Word
           /\ \A i \in 1 .. Len(r) : Cat(q, r)[Len(q) + i] = r[i] /\ r[i] \in Word
<1>1. /\ Len(q \o r) = Len(q) + Len(r)
      /\ \A i \in 1 .. Len(q) + Len(r) :
            (q \o r)[i] = IF i <= Len(q) THEN q[i] ELSE r[i - Len(q)]
  BY ConcatProperties
<1>2. /\ Len(q) \in Nat /\ Len(r) \in Nat
      /\ \A i \in 1 .. Len(q) : q[i] \in Word
      /\ \A i \in 1 .. Len(r) : r[i] \in Word
  BY LenProperties, ElementOfSeq
<1>3. \A i \in 1 .. Len(r) : (q \o r)[Len(q) + i] = r[i]
  BY <1>1, <1>2
<1>4. \A i \in 1 .. Len(q) : (q \o r)[i] = q[i]
  BY <1>1, <1>2
<1> QED BY <1>1, <1>2, <1>3, <1>4 DEF Cat

\* The words of three pieces in a row.
LEMMA Cat3Words ==
    ASSUME NEW a \in Seq(Word), NEW m \in Seq(Word), NEW b \in Seq(Word)
    PROVE  /\ Len(Cat(Cat(a, m), b)) = Len(a) + Len(m) + Len(b)
           /\ Len(a) \in Nat /\ Len(m) \in Nat /\ Len(b) \in Nat
           /\ \A i \in 1 .. Len(a) : Cat(Cat(a, m), b)[i] = a[i]
           /\ \A i \in 1 .. Len(m) : Cat(Cat(a, m), b)[Len(a) + i] = m[i]
           /\ \A i \in 1 .. Len(b) : Cat(Cat(a, m), b)[Len(a) + Len(m) + i] = b[i]
<1> DEFINE c == Cat(a, m)
<1>1. /\ Len(a) \in Nat /\ Len(m) \in Nat /\ Len(b) \in Nat
      /\ c \in Seq(Word) /\ Len(c) = Len(a) + Len(m)
      /\ \A i \in 1 .. Len(a) : c[i] = a[i]
      /\ \A i \in 1 .. Len(m) : c[Len(a) + i] = m[i]
  <2>1. c \in Seq(Word)
    BY CatType
  <2>2. /\ Len(a) \in Nat /\ Len(m) \in Nat /\ Len(c) = Len(a) + Len(m)
        /\ \A i \in 1 .. Len(a) : c[i] = a[i]
        /\ \A i \in 1 .. Len(m) : c[Len(a) + i] = m[i]
    BY CatWords
  <2>3. Len(b) \in Nat
    BY LenProperties
  <2> QED BY <2>1, <2>2, <2>3
<1> HIDE DEF c
<1>2. /\ Len(Cat(c, b)) = Len(c) + Len(b)
      /\ \A i \in 1 .. Len(c) : Cat(c, b)[i] = c[i]
      /\ \A i \in 1 .. Len(b) : Cat(c, b)[Len(c) + i] = b[i]
  BY <1>1, CatWords
<1>3. Len(Cat(c, b)) = Len(a) + Len(m) + Len(b)
  BY <1>1, <1>2
<1>4. \A i \in 1 .. Len(a) : i \in 1 .. Len(c)
  BY <1>1
<1>5. \A i \in 1 .. Len(m) : Len(a) + i \in 1 .. Len(c)
  BY <1>1
<1>6. \A i \in 1 .. Len(a) : Cat(c, b)[i] = a[i]
  BY <1>1, <1>2, <1>4
<1>7. \A i \in 1 .. Len(m) : Cat(c, b)[Len(a) + i] = m[i]
  BY <1>1, <1>2, <1>5
<1>8. \A i \in 1 .. Len(b) : Cat(c, b)[Len(a) + Len(m) + i] = b[i]
  BY <1>1, <1>2
<1> QED BY <1>1, <1>3, <1>6, <1>7, <1>8 DEF c

\* c is a, m and b in a row.
InARow(c, a, m, b) ==
    /\ Len(c) = Len(a) + Len(m) + Len(b)
    /\ Len(a) \in Nat /\ Len(m) \in Nat /\ Len(b) \in Nat
    /\ \A i \in 1 .. Len(a) : c[i] = a[i]
    /\ \A i \in 1 .. Len(m) : c[Len(a) + i] = m[i]
    /\ \A i \in 1 .. Len(b) : c[Len(a) + Len(m) + i] = b[i]

LEMMA CatInARow ==
    ASSUME NEW a \in Seq(Word), NEW m \in Seq(Word), NEW b \in Seq(Word)
    PROVE  InARow(Cat(Cat(a, m), b), a, m, b)
BY Cat3Words, Zenon DEF InARow

\* What the words of a sequence are.
LEMMA WordsOf ==
    \A w \in Seq(Word) :
        /\ Len(w) \in Nat
        /\ \A i \in 1 .. Len(w) : /\ w[i] \in Word
                                   /\ w[i].idx \in Nat /\ w[i].size \in Nat
<1> SUFFICES ASSUME NEW w \in Seq(Word)
             PROVE  /\ Len(w) \in Nat
                    /\ \A i \in 1 .. Len(w) : /\ w[i] \in Word
                                               /\ w[i].idx \in Nat /\ w[i].size \in Nat
  OBVIOUS
<1>1. Len(w) \in Nat /\ \A i \in 1 .. Len(w) : w[i] \in Word
  BY LenProperties, ElementOfSeq
<1>2. \A v \in Word : v.idx \in Nat /\ v.size \in Nat
  BY DEF Word
<1> QED BY <1>1, <1>2

\* A row of whole messages is one that Framed recognizes.
LEMMA RowIsFramed ==
    ASSUME NEW w \in Seq(Word), Row(w)
    PROVE  Framed(w)
<1>1. Len(w) \in Nat /\ \A i \in 1 .. Len(w) : w[i].idx \in Nat /\ w[i].size \in Nat
  BY WordsOf, Zenon
<1> SUFFICES ASSUME NEW i \in 1 .. Len(w)
             PROVE  /\ i - w[i].idx + 1 >= 1
                    /\ (i - w[i].idx + 1) + w[i].size - 1 <= Len(w)
                    /\ \A j \in i - w[i].idx + 1 .. (i - w[i].idx + 1) + w[i].size - 1 :
                          /\ w[j].idx = j - (i - w[i].idx + 1) + 1
                          /\ w[j].src = w[i].src /\ w[j].at = w[i].at
  BY Zenon DEF Framed
<1>2. /\ w[i].idx \in Nat /\ w[i].size \in Nat
      /\ w[i].idx <= i /\ i - w[i].idx + w[i].size <= Len(w)
  BY <1>1 DEF Row, Starts, Ends
<1>3. ASSUME NEW j \in i - w[i].idx + 1 .. (i - w[i].idx + 1) + w[i].size - 1
      PROVE  /\ w[j].idx = j - (i - w[i].idx + 1) + 1
             /\ w[j].src = w[i].src /\ w[j].at = w[i].at
  <2>1. j \in 1 .. Len(w) /\ i - w[i].idx < j /\ j <= i - w[i].idx + w[i].size
    BY <1>1, <1>2
  <2>2. w[j].idx = w[i].idx + j - i /\ w[j].src = w[i].src /\ w[j].at = w[i].at
    BY <2>1 DEF Row, Stretch
  <2>3. PICK x \in Nat : x = w[i].idx
    BY <1>2
  <2>4. w[i].idx + j - i = j - (i - w[i].idx + 1) + 1
    <3>1. j \in Int /\ i \in Int
      BY <2>1
    <3>2. x + j - i = j - (i - x + 1) + 1
      BY <3>1
    <3> QED BY <2>3, <3>2
  <2> QED BY <2>2, <2>4
<1> QED BY <1>1, <1>2, <1>3

\* The second piece begins where a message begins if the first one ends where one ends.
LEMMA RestStarts ==
    ASSUME NEW q \in Seq(Word), NEW r \in Seq(Word),
           Stretch(Cat(q, r)), Starts(Cat(q, r)), Ends(q)
    PROVE  Starts(r)
<1>1. /\ Len(Cat(q, r)) = Len(q) + Len(r) /\ Len(q) \in Nat /\ Len(r) \in Nat
      /\ \A i \in 1 .. Len(q) : Cat(q, r)[i] = q[i] /\ q[i] \in Word
      /\ \A i \in 1 .. Len(r) : Cat(q, r)[Len(q) + i] = r[i] /\ r[i] \in Word
  BY CatWords
<1>2. \A w \in Word : w.idx \in Nat /\ w.size \in Nat
  BY DEF Word
<1>3. SUFFICES ASSUME NEW i \in 1 .. Len(r), r[i].idx > i
               PROVE  FALSE
  BY <1>1, <1>2 DEF Starts
<1> DEFINE c == Cat(q, r)
           n == Len(q) + i
<1>4. n \in 1 .. Len(c) /\ c[n] = r[i] /\ n \in Nat
  BY <1>1
<1>5. c[n].idx <= n /\ 1 <= c[n].idx /\ c[n].idx <= c[n].size
  BY <1>4 DEF Stretch, Starts
<1>6. Len(q) \in 1 .. Len(q) /\ Len(q) \in 1 .. Len(c)
  BY <1>1, <1>2, <1>3, <1>4, <1>5
<1>7. c[Len(q)].idx = c[n].idx + Len(q) - n /\ c[Len(q)].size = c[n].size
  <2>1. n - c[n].idx < Len(q) /\ Len(q) <= n - c[n].idx + c[n].size
    BY <1>1, <1>2, <1>3, <1>4, <1>5
  <2> QED BY <1>4, <1>6, <2>1 DEF Stretch
<1>8. Len(q) - q[Len(q)].idx + q[Len(q)].size <= Len(q) /\ c[Len(q)] = q[Len(q)]
  BY <1>1, <1>6 DEF Ends
<1>9. PICK l \in Nat, x \in Nat, y \in Nat : l = Len(q) /\ x = r[i].idx /\ y = r[i].size
  BY <1>1, <1>2
<1>10. x > i /\ x <= y /\ n = l + i
  BY <1>3, <1>4, <1>5, <1>9
<1>11. l - (x + l - n) + y <= l
  BY <1>4, <1>7, <1>8, <1>9
<1>12. i \in Nat /\ i > 0
  BY <1>1
<1> QED BY <1>10, <1>11, <1>12

\* Each of two pieces of a stretch is one; the first begins, and the second
\* ends, where the stretch does.
LEMMA SplitStretch ==
    ASSUME NEW q \in Seq(Word), NEW r \in Seq(Word), Stretch(Cat(q, r))
    PROVE  /\ Stretch(q) /\ Stretch(r)
           /\ Starts(Cat(q, r)) => Starts(q)
           /\ Ends(Cat(q, r)) => Ends(r)
<1>1. /\ Len(Cat(q, r)) = Len(q) + Len(r) /\ Len(q) \in Nat /\ Len(r) \in Nat
      /\ \A i \in 1 .. Len(q) : Cat(q, r)[i] = q[i] /\ q[i] \in Word
      /\ \A i \in 1 .. Len(r) : Cat(q, r)[Len(q) + i] = r[i] /\ r[i] \in Word
  BY CatWords
<1>2. \A w \in Word : w.idx \in Nat /\ w.size \in Nat
  BY DEF Word
<1> DEFINE c == Cat(q, r)
<1>3. \A i \in 1 .. Len(q) : i \in 1 .. Len(c)
  BY <1>1
<1>4. \A i \in 1 .. Len(r) : Len(q) + i \in 1 .. Len(c)
  BY <1>1
<1>5. Stretch(q)
  BY <1>1, <1>3 DEF Stretch
<1>6. Stretch(r)
  <2> SUFFICES ASSUME NEW i \in 1 .. Len(r)
               PROVE  /\ 1 <= r[i].idx /\ r[i].idx <= r[i].size
                      /\ \A j \in 1 .. Len(r) :
                            i - r[i].idx < j /\ j <= i - r[i].idx + r[i].size =>
                               /\ r[j].idx = r[i].idx + j - i /\ r[j].size = r[i].size
                               /\ r[j].src = r[i].src /\ r[j].at = r[i].at
    BY DEF Stretch
  <2>1. /\ c[Len(q) + i] = r[i] /\ 1 <= r[i].idx /\ r[i].idx <= r[i].size
        /\ r[i].idx \in Nat /\ r[i].size \in Nat
    BY <1>1, <1>2, <1>4 DEF Stretch
  <2>2. ASSUME NEW j \in 1 .. Len(r), i - r[i].idx < j, j <= i - r[i].idx + r[i].size
        PROVE  /\ r[j].idx = r[i].idx + j - i /\ r[j].size = r[i].size
               /\ r[j].src = r[i].src /\ r[j].at = r[i].at
    <3>1. /\ Len(q) + i \in 1 .. Len(c) /\ Len(q) + j \in 1 .. Len(c)
          /\ c[Len(q) + i] = r[i] /\ c[Len(q) + j] = r[j]
      BY <1>1, <1>4
    <3>2. /\ (Len(q) + i) - c[Len(q) + i].idx < Len(q) + j
          /\ Len(q) + j <= (Len(q) + i) - c[Len(q) + i].idx + c[Len(q) + i].size
      <4>1. PICK l \in Nat, x \in Nat, y \in Nat : l = Len(q) /\ x = r[i].idx /\ y = r[i].size
        BY <1>1, <2>1
      <4>2. i \in Int /\ j \in Int /\ i - x < j /\ j <= i - x + y
        BY <1>1, <2>2, <4>1
      <4>3. (l + i) - x < l + j /\ l + j <= (l + i) - x + y
        BY <4>2
      <4> QED BY <3>1, <4>1, <4>3
    <3>3. /\ c[Len(q) + j].idx = c[Len(q) + i].idx + (Len(q) + j) - (Len(q) + i)
          /\ c[Len(q) + j].size = c[Len(q) + i].size
          /\ c[Len(q) + j].src = c[Len(q) + i].src
          /\ c[Len(q) + j].at = c[Len(q) + i].at
      BY <3>1, <3>2 DEF Stretch
    <3> QED BY <1>1, <2>1, <3>1, <3>3
  <2> QED BY <2>1, <2>2
<1>7. Starts(c) => Starts(q)
  BY <1>1, <1>3 DEF Starts
<1>8. Ends(c) => Ends(r)
  <2> SUFFICES ASSUME Ends(c), NEW i \in 1 .. Len(r)
               PROVE  i - r[i].idx + r[i].size <= Len(r)
    BY DEF Ends
  <2>1. (Len(q) + i) - r[i].idx + r[i].size <= Len(q) + Len(r)
    BY <1>1, <1>4 DEF Ends
  <2> QED BY <1>1, <1>2, <2>1
<1> QED BY <1>5, <1>6, <1>7, <1>8

\* A stretch that ends whole goes on with one that starts whole.
LEMMA JoinStretch ==
    ASSUME NEW q \in Seq(Word), NEW r \in Seq(Word),
           Stretch(q), Ends(q), Stretch(r), Starts(r)
    PROVE  /\ Stretch(Cat(q, r))
           /\ Starts(q) => Starts(Cat(q, r))
           /\ Ends(r) => Ends(Cat(q, r))
<1>1. /\ Len(Cat(q, r)) = Len(q) + Len(r) /\ Len(q) \in Nat /\ Len(r) \in Nat
      /\ \A i \in 1 .. Len(q) : Cat(q, r)[i] = q[i] /\ q[i] \in Word
      /\ \A i \in 1 .. Len(r) : Cat(q, r)[Len(q) + i] = r[i] /\ r[i] \in Word
  BY CatWords
<1>2. \A w \in Word : w.idx \in Nat /\ w.size \in Nat
  BY DEF Word
<1> DEFINE c == Cat(q, r)
<1>3. \A i \in 1 .. Len(c) : \/ i \in 1 .. Len(q) /\ c[i] = q[i]
                             \/ /\ i - Len(q) \in 1 .. Len(r)
                                /\ c[i] = r[i - Len(q)]
  <2> SUFFICES ASSUME NEW i \in 1 .. Len(c), i \notin 1 .. Len(q)
               PROVE  i - Len(q) \in 1 .. Len(r) /\ c[i] = r[i - Len(q)]
    BY <1>1
  <2>1. i - Len(q) \in 1 .. Len(r) /\ Len(q) + (i - Len(q)) = i
    BY <1>1
  <2>2. c[Len(q) + (i - Len(q))] = r[i - Len(q)]
    BY <1>1, <2>1
  <2> QED BY <2>1, <2>2
<1>4. \A i \in 1 .. Len(q) : /\ 1 <= q[i].idx /\ q[i].idx <= q[i].size
                             /\ i - q[i].idx + q[i].size <= Len(q)
                             /\ q[i].idx \in Nat /\ q[i].size \in Nat
  BY <1>1, <1>2 DEF Stretch, Ends
<1>5. \A i \in 1 .. Len(r) : /\ 1 <= r[i].idx /\ r[i].idx <= r[i].size /\ r[i].idx <= i
                             /\ r[i].idx \in Nat /\ r[i].size \in Nat
  BY <1>1, <1>2 DEF Stretch, Starts
<1>6. Stretch(c)
  <2>1. ASSUME NEW i \in 1 .. Len(c)
        PROVE  1 <= c[i].idx /\ c[i].idx <= c[i].size
    BY <1>3, <1>4, <1>5
  <2>2. ASSUME NEW i \in 1 .. Len(c), NEW j \in 1 .. Len(c),
               i - c[i].idx < j, j <= i - c[i].idx + c[i].size
        PROVE  /\ c[j].idx = c[i].idx + j - i /\ c[j].size = c[i].size
               /\ c[j].src = c[i].src /\ c[j].at = c[i].at
    <3>1. CASE i \in 1 .. Len(q) /\ c[i] = q[i]
      <4>1. j \in 1 .. Len(q) /\ c[j] = q[j]
        BY <1>1, <1>3, <1>4, <2>2, <3>1
      <4> QED BY <2>2, <3>1, <4>1 DEF Stretch
    <3>2. CASE i - Len(q) \in 1 .. Len(r) /\ c[i] = r[i - Len(q)]
      <4> DEFINE a == i - Len(q)
                 b == j - Len(q)
      <4> HIDE DEF c
      <4>4. PICK x \in Nat, y \in Nat : x = c[i].idx /\ y = c[i].size
        BY <1>5, <3>2
      <4>5. i - x < j /\ j <= i - x + y
        BY <2>2, <4>4
      <4>6. i \in Int /\ j \in Int /\ Len(q) \in Int
        BY <1>1
      <4>8. x <= i - Len(q)
        BY <1>5, <3>2, <4>4, Zenon
      <4>9. ~(j \in 1 .. Len(q))
        BY <4>5, <4>6, <4>8
      <4>1. b \in 1 .. Len(r) /\ c[j] = r[b]
        BY <1>3, <4>9, Zenon
      <4>7. (i - Len(q)) - x < j - Len(q) /\ j - Len(q) <= (i - Len(q)) - x + y
        BY <4>5, <4>6
      <4>2. a - r[a].idx < b /\ b <= a - r[a].idx + r[a].size /\ r[a].idx \in Nat
        BY <3>2, <4>4, <4>7
      <4>3. /\ r[b].idx = r[a].idx + b - a /\ r[b].size = r[a].size
            /\ r[b].src = r[a].src /\ r[b].at = r[a].at
        BY <3>2, <4>1, <4>2 DEF Stretch
      <4> QED BY <1>1, <3>2, <4>1, <4>2, <4>3
    <3> QED BY <1>3, <3>1, <3>2
  <2> QED BY <2>1, <2>2 DEF Stretch
<1>7. Starts(q) => Starts(c)
  <2> SUFFICES ASSUME Starts(q), NEW i \in 1 .. Len(c)
               PROVE  c[i].idx <= i
    BY DEF Starts
  <2>1. CASE i \in 1 .. Len(q) /\ c[i] = q[i]
    BY <2>1 DEF Starts
  <2>2. CASE i - Len(q) \in 1 .. Len(r) /\ c[i] = r[i - Len(q)]
    BY <1>1, <1>5, <2>2
  <2> QED BY <1>3, <2>1, <2>2
<1>8. Ends(r) => Ends(c)
  <2> SUFFICES ASSUME Ends(r), NEW i \in 1 .. Len(c)
               PROVE  i - c[i].idx + c[i].size <= Len(c)
    BY DEF Ends
  <2>1. CASE i \in 1 .. Len(q) /\ c[i] = q[i]
    BY <1>1, <1>4, <2>1
  <2>2. CASE i - Len(q) \in 1 .. Len(r) /\ c[i] = r[i - Len(q)]
    <3>1. (i - Len(q)) - c[i].idx + c[i].size <= Len(r)
      BY <2>2 DEF Ends
    <3>2. PICK x \in Nat, y \in Nat : x = c[i].idx /\ y = c[i].size
      BY <1>5, <2>2
    <3>3. i \in Int /\ Len(q) \in Nat /\ Len(r) \in Nat /\ Len(c) = Len(q) + Len(r)
      BY <1>1
    <3> QED BY <3>1, <3>2, <3>3
  <2> QED BY <1>3, <2>1, <2>2
<1> QED BY <1>6, <1>7, <1>8

\* The words of a message.
LEMMA MessageWords ==
    ASSUME NEW src \in Side \cup {"user"}, NEW at \in Nat, NEW k \in Nat
    PROVE  \A i \in 1 .. k : /\ Message(src, at, k)[i].src = src
                             /\ Message(src, at, k)[i].at = at
                             /\ Message(src, at, k)[i].size = k
                             /\ Message(src, at, k)[i].idx = i
<1> TAKE i \in 1 .. k
<1>1. Message(src, at, k)[i] = [src |-> src, at |-> at, size |-> k, idx |-> i]
  BY DEF Message
<1>2. PICK w : w = Message(src, at, k)[i]
  OBVIOUS
<1>3. w = [src |-> src, at |-> at, size |-> k, idx |-> i]
  BY <1>1, <1>2, Zenon
<1>4. w.src = src /\ w.at = at /\ w.size = k /\ w.idx = i
  BY <1>3
<1> QED BY <1>2, <1>4, Zenon

\* A message alone is a row.
LEMMA MessageRow ==
    ASSUME NEW src \in Side \cup {"user"}, NEW at \in Nat, NEW k \in Nat
    PROVE  Row(Message(src, at, k))
<1> DEFINE m == Message(src, at, k)
<1>1. Len(m) = k
  BY MessageType
<1>2. \A i \in 1 .. k : m[i].src = src /\ m[i].at = at /\ m[i].size = k /\ m[i].idx = i
  BY MessageWords
<1> HIDE DEF m
<1>3. Row(m)
  BY <1>1, <1>2 DEF Row, Stretch, Starts, Ends
<1> QED BY <1>3 DEF m

\* A stretch that is as long as its first word announces is one message.
LEMMA HeadMessage ==
    ASSUME NEW m \in Seq(Word), Stretch(m),
           m # <<>> => m[1].idx = 1 /\ Len(m) = m[1].size
    PROVE  Row(m)
<1>1. Len(m) \in Nat /\ \A i \in 1 .. Len(m) : m[i].idx \in Nat /\ m[i].size \in Nat
  BY WordsOf, Zenon
<1>2. SUFFICES ASSUME NEW i \in 1 .. Len(m)
               PROVE  m[i].idx <= i /\ i - m[i].idx + m[i].size <= Len(m)
  BY DEF Row, Starts, Ends
<1>3. 1 \in 1 .. Len(m) /\ m # <<>>
  BY <1>1, EmptySeq
<1>4. m[1].idx = 1 /\ Len(m) = m[1].size
  BY <1>3
<1>5. m[i].idx = m[1].idx + i - 1 /\ m[i].size = m[1].size
  <2>1. 1 - m[1].idx < i /\ i <= 1 - m[1].idx + m[1].size
    BY <1>1, <1>3, <1>4
  <2> QED BY <1>3, <2>1 DEF Stretch
<1> QED BY <1>1, <1>4, <1>5

\* The words of m, as the user's.
Marked(m) == [i \in 1 .. Len(m) |-> [m[i] EXCEPT !.src = "user"]]

\* Marking a message leaves it a message.
LEMMA MarkedRow ==
    ASSUME NEW m \in Seq(Word)
    PROVE  /\ Marked(m) \in Seq(Word) /\ Len(Marked(m)) = Len(m)
           /\ Row(m) => Row(Marked(m))
<1>1. Len(m) \in Nat /\ \A i \in 1 .. Len(m) : m[i] \in Word
  BY WordsOf, Zenon
<1>2. ASSUME NEW w \in Word
      PROVE  /\ [w EXCEPT !.src = "user"] \in Word
             /\ [w EXCEPT !.src = "user"].src = "user"
             /\ [w EXCEPT !.src = "user"].at = w.at
             /\ [w EXCEPT !.src = "user"].size = w.size
             /\ [w EXCEPT !.src = "user"].idx = w.idx
  BY DEF Word
<1>3. Marked(m) \in [1 .. Len(m) -> Word]
  BY <1>1, <1>2 DEF Marked
<1>4. Marked(m) \in Seq(Word) /\ Len(Marked(m)) = Len(m)
  BY <1>1, <1>3
<1>5. \A i \in 1 .. Len(m) :
         /\ Marked(m)[i].src = "user" /\ Marked(m)[i].at = m[i].at
         /\ Marked(m)[i].size = m[i].size /\ Marked(m)[i].idx = m[i].idx
  BY <1>1, <1>2 DEF Marked
<1>6. Row(m) => Row(Marked(m))
  BY <1>4, <1>5 DEF Row, Stretch, Starts, Ends
<1> QED BY <1>4, <1>6

\* Nothing at all is a row.
LEMMA EmptyRow == Row(<<>>)
BY EmptySeq DEF Row, Stretch, Starts, Ends

-----------------------------------------------------------------------------
(* What a step does to a stream. *)

\* The line from s is what has been put on its way to the other side, and what
\* is still to come.
Ahead(p) == Cat(Cat(got[p], outq[p]), out[p])
Behind(s) == Cat(Todo(s), inq[s])

\* m, one message unless the buffer is passed whole, is taken off what is to come.
Takes(s, m) ==
    /\ Behind(s) = Cat(m, Behind(s)') /\ sent'[s] = sent[s]
    /\ ~whole /\ m # <<>> => m[1].idx = 1 /\ Len(m) = m[1].size

Stays(s) ==
    /\ Ahead(Other(s))' = Ahead(Other(s)) /\ Behind(s)' = Behind(s)
    /\ sent'[s] = sent[s]

Writes(s) ==
    /\ Ahead(Other(s))' = Ahead(Other(s))
    /\ \E k \in MsgSizes :
          /\ Behind(s)' = Cat(Behind(s), Message(s, Len(sent[s]) + 1, k))
          /\ sent'[s] = Cat(sent[s], Message(s, Len(sent[s]) + 1, k))

Passes(s) ==
    \E m \in Seq(Word) :
        Takes(s, m) /\ Ahead(Other(s))' = Cat(Ahead(Other(s)), m)

Edits(s) ==
    /\ "edit" \in touched'[s]
    /\ \E m \in Seq(Word) :
          Takes(s, m) /\ Ahead(Other(s))' = Cat(Ahead(Other(s)), Marked(m))

Injects(s) ==
    /\ "send" \in touched'[s]
    /\ \E n \in Nat, k \in Nat :
          Ahead(Other(s))' = Cat(Ahead(Other(s)), Message("user", n, k))
    /\ Behind(s)' = Behind(s) /\ sent'[s] = sent[s]

Resizes(s) ==
    /\ "resize" \in touched'[s]
    /\ \E n \in Nat, k \in Nat :
          Ahead(Other(s))' = Cat(Ahead(Other(s)), Message("user", n, k))
    /\ \E c \in Seq(Word) : Behind(s) = Cat(c, Behind(s)')
    /\ sent'[s] = sent[s]

Moves(s) ==
    /\ touched[s] \subseteq touched'[s]
    /\ Stays(s) \/ Writes(s) \/ Passes(s) \/ Edits(s) \/ Injects(s) \/ Resizes(s)

\* The parts of a stream are sequences of words and make up its line.
LEMMA StreamParts ==
    ASSUME Typing, NEW s \in Side
    PROVE  /\ Ahead(s) \in Seq(Word) /\ Behind(s) \in Seq(Word)
           /\ Todo(s) \in Seq(Word) /\ inq[s] \in Seq(Word)
           /\ got[s] \in Seq(Word) /\ outq[s] \in Seq(Word) /\ out[s] \in Seq(Word)
           /\ Other(s) \in Side /\ Ahead(Other(s)) \in Seq(Word)
           /\ Line(s) = Cat(Ahead(Other(s)), Behind(s))
<1>1. ASSUME NEW p \in Side
      PROVE  /\ got[p] \in Seq(Word) /\ outq[p] \in Seq(Word) /\ out[p] \in Seq(Word)
             /\ Ahead(p) \in Seq(Word)
  <2>1. got[p] \in Seq(Word) /\ outq[p] \in Seq(Word) /\ out[p] \in Seq(Word)
    BY Zenon DEF Typing
  <2> QED BY <2>1, Cat3Type DEF Ahead
<1>2. Todo(s) \in Seq(Word) /\ inq[s] \in Seq(Word)
  BY EmptySeq DEF Typing, Todo
<1>3. Behind(s) \in Seq(Word)
  BY <1>2, CatType DEF Behind
<1>4. Other(s) \in Side
  BY SideFacts
<1>5. Line(s) = Cat(Cat(Ahead(Other(s)), Todo(s)), inq[s])
  BY LineCat, Zenon DEF Ahead
<1>6. Line(s) = Cat(Ahead(Other(s)), Behind(s))
  <2>1. Ahead(Other(s)) \in Seq(Word)
    BY <1>1, <1>4, Zenon
  <2>2. Cat(Cat(Ahead(Other(s)), Todo(s)), inq[s]) = Cat(Ahead(Other(s)), Cat(Todo(s), inq[s]))
    BY <2>1, <1>2, CatAssoc, Zenon
  <2> QED BY <1>5, <2>2, Zenon DEF Behind
<1> QED BY <1>1, <1>2, <1>3, <1>4, <1>6

\* They are after a step too.
LEMMA PartsNext ==
    ASSUME Typing', NEW s \in Side
    PROVE  Behind(s)' \in Seq(Word) /\ Ahead(Other(s))' \in Seq(Word)
<1> DEFINE p == Other(s)
<1>1. p \in Side
  BY SideFacts
<1> HIDE DEF p
<1>2. got'[p] \in Seq(Word) /\ outq'[p] \in Seq(Word) /\ out'[p] \in Seq(Word)
      /\ inq'[s] \in Seq(Word)
  BY <1>1, Zenon DEF Typing
<1>3. Todo(s)' \in Seq(Word)
  BY EmptySeq DEF Typing, Todo
<1>4. Ahead(p)' \in Seq(Word)
  BY <1>2, Cat3Type DEF Ahead
<1>5. Behind(s)' \in Seq(Word)
  BY <1>2, <1>3, CatType DEF Behind
<1> QED BY <1>4, <1>5 DEF p

\* And they make up the line after it.
LEMMA LineNext ==
    ASSUME Typing', NEW s \in Side
    PROVE  Line(s)' = Cat(Ahead(Other(s))', Behind(s)')
<1> DEFINE p == Other(s)
<1>1. p \in Side
  BY SideFacts
<1> HIDE DEF p
<1>2. got'[p] \in Seq(Word) /\ outq'[p] \in Seq(Word) /\ out'[p] \in Seq(Word)
      /\ inq'[s] \in Seq(Word)
  BY <1>1, Zenon DEF Typing
<1>3. Todo(s)' \in Seq(Word)
  BY EmptySeq DEF Typing, Todo
<1>4. Ahead(p)' = Cat(Cat(got'[p], outq'[p]), out'[p]) /\ Ahead(p)' \in Seq(Word)
  BY <1>2, Cat3Type DEF Ahead
<1>5. Line(s)' = Cat(Cat(Ahead(p)', Todo(s)'), inq'[s])
  BY <1>4, Zenon DEF Line, Cat, p
<1>6. Cat(Cat(Ahead(p)', Todo(s)'), inq'[s]) = Cat(Ahead(p)', Cat(Todo(s)', inq'[s]))
  BY <1>2, <1>3, <1>4, CatAssoc
<1> QED BY <1>5, <1>6, Zenon DEF p, Behind

\* A stream no part of which changes stays.
LEMMA UntouchedStays ==
    ASSUME NEW s \in Side, NEW p, p = Other(s),
           got'[p] = got[p], outq'[p] = outq[p], out'[p] = out[p],
           inq'[s] = inq[s], Todo(s)' = Todo(s), sent'[s] = sent[s]
    PROVE  Stays(s)
BY Zenon DEF Stays, Ahead, Behind

\* A peer writes a message.
LEMMA PeerWriteMoves ==
    ASSUME Typing, NEW t \in Side, PeerWrite(t), NEW s \in Side
    PROVE  Stays(s) \/ Writes(s)
<1>1. PICK k \in MsgSizes :
         /\ sent' = [sent EXCEPT ![t] = @ \o Message(t, Len(sent[t]) + 1, k)]
         /\ inq' = [inq EXCEPT ![t] = @ \o Message(t, Len(sent[t]) + 1, k)]
  BY Zenon DEF PeerWrite
<1>2. UNCHANGED <<got, outq, closed, out, from, todo, phase, sends, touched>>
  BY DEF PeerWrite
<1>3. CASE s # t
  <2>1. sent'[s] = sent[s] /\ inq'[s] = inq[s]
    BY <1>1, <1>3, Zenon DEF Typing
  <2>2. Todo(s)' = Todo(s)
    BY <1>2, Zenon DEF Todo
  <2> QED BY <1>2, <2>1, <2>2, UntouchedStays
<1>4. CASE s = t
  <2> DEFINE m == Message(s, Len(sent[s]) + 1, k)
  <2>1. sent'[s] = Cat(sent[s], m) /\ inq'[s] = Cat(inq[s], m)
    BY <1>1, <1>4, Zenon DEF Typing, Cat
  <2>2. m \in Seq(Word)
    <3>1. Len(sent[s]) + 1 \in Nat /\ k \in Nat
      BY LenProperties, RelayAssumption DEF Typing
    <3> QED BY <3>1, MessageType
  <2>3. Todo(s)' = Todo(s) /\ Ahead(Other(s))' = Ahead(Other(s))
    BY <1>2, Zenon DEF Todo, Ahead
  <2> HIDE DEF m
  <2>4. Behind(s)' = Cat(Behind(s), m)
    <3>1. Behind(s)' = Cat(Todo(s), Cat(inq[s], m))
      BY <2>1, <2>3, Zenon DEF Behind
    <3>2. Todo(s) \in Seq(Word) /\ inq[s] \in Seq(Word)
      BY StreamParts
    <3> QED BY <2>2, <3>1, <3>2, CatAssoc, Zenon DEF Behind
  <2> QED BY <1>1, <2>1, <2>3, <2>4, Zenon DEF Writes, m
<1> QED BY <1>3, <1>4

\* A peer reads: what was put on its way is in other places.
LEMMA PeerReadMoves ==
    ASSUME Typing, NEW p \in Side, PeerRead(p), NEW s \in Side
    PROVE  Stays(s)
<1>1. /\ got' = [got EXCEPT ![p] = Cat(got[p], outq[p])]
      /\ outq' = [outq EXCEPT ![p] = <<>>]
      /\ UNCHANGED <<sent, inq, closed, out, from, todo, phase, sends, touched>>
  BY Zenon DEF PeerRead, Cat
<1>2. Behind(s)' = Behind(s) /\ sent'[s] = sent[s]
  BY <1>1, Zenon DEF Behind, Todo
<1>3. CASE Other(s) # p
  <2>1. got'[Other(s)] = got[Other(s)] /\ outq'[Other(s)] = outq[Other(s)]
    BY <1>1, <1>3, SideFacts, Zenon DEF Typing
  <2> QED BY <1>1, <1>2, <2>1, Zenon DEF Stays, Ahead
<1>4. CASE Other(s) = p
  <2>1. got'[p] = Cat(got[p], outq[p]) /\ outq'[p] = <<>>
    BY <1>1, Zenon DEF Typing
  <2>2. Cat(Cat(got[p], outq[p]), <<>>) = Cat(got[p], outq[p])
    <3>1. got[p] \in Seq(Word) /\ outq[p] \in Seq(Word)
      BY StreamParts
    <3>2. Cat(got[p], outq[p]) \in Seq(Word)
      BY <3>1, CatType
    <3> QED BY <3>2, CatEmpty
  <2>3. Ahead(p)' = Ahead(p)
    BY <1>1, <2>1, <2>2, Zenon DEF Ahead
  <2> QED BY <1>2, <1>4, <2>3, Zenon DEF Stays
<1> QED BY <1>3, <1>4

\* wldbg reads: what is to come is in other places.
LEMMA ReadMoves ==
    ASSUME IInv, NEW t \in Side, Read(t), NEW s \in Side
    PROVE  Stays(s)
<1>1. PICK i \in Seq(Word) : i = inq[t]
  BY DEF IInv, Typing
<1> DEFINE n == Least(BufSize, Len(i))
           x == SubSeq(i, 1, n)
           y == SubSeq(i, n + 1, Len(i))
<1>2. /\ todo' = x
      /\ inq' = [inq EXCEPT ![t] = SubSeq(i, Len(x) + 1, Len(i))]
      /\ from' = t /\ phase = "idle"
      /\ UNCHANGED <<sent, got, outq, closed, out, sends, touched>>
  BY <1>1, Zenon DEF Read, Received
<1>3. n \in 0 .. Len(i)
  BY LenProperties, RelayAssumption DEF Least
<1> HIDE DEF n
<1>4. x \in Seq(Word) /\ Cat(x, y) = i /\ Len(x) = n
  BY <1>3, Cut, CatCut
<1>5. inq' = [inq EXCEPT ![t] = y]
  BY <1>2, <1>4, Zenon
<1> HIDE DEF x, y
<1>6. Todo(s) = <<>>
  BY <1>2, Zenon DEF IInv, Turning, Todo
<1>7. Ahead(Other(s))' = Ahead(Other(s)) /\ sent'[s] = sent[s]
  BY <1>2, Zenon DEF Ahead
<1>8. CASE s # t
  <2>1. Todo(s)' = <<>> /\ inq'[s] = inq[s]
    BY <1>2, <1>5, <1>8, Zenon DEF Todo, IInv, Typing
  <2> QED BY <1>6, <1>7, <2>1, Zenon DEF Stays, Behind
<1>9. CASE s = t
  <2>1. Todo(s)' = x /\ inq'[s] = y
    BY <1>2, <1>5, <1>9, Zenon DEF Todo, IInv, Typing
  <2>2. Behind(s)' = i
    BY <1>4, <2>1, Zenon DEF Behind
  <2>3. Behind(s) = i
    BY <1>1, <1>6, <1>9, CatEmpty, Zenon DEF Behind
  <2> QED BY <1>7, <2>2, <2>3, Zenon DEF Stays
<1> QED BY <1>8, <1>9

\* A turn of the loop takes c off what is to come and puts m on its way, or fails
\* before it has; the other stream stays.
LEMMA TurnMoves ==
    ASSUME IInv, phase = "loop", NEW next, NEW m \in Seq(Word), Len(m) <= BufSize,
           NEW rest \in Seq(Word), Len(rest) <= BufSize,
           Forward(Other(from), m, rest, next),
           UNCHANGED <<sent, got, inq, closed, from, sends>>,
           NEW c \in Seq(Word), Cat(c, rest) = todo, NEW s \in Side
    PROVE  \/ Stays(s)
           \/ /\ s = from /\ sent'[s] = sent[s]
              /\ Behind(s) = Cat(c, Behind(s)')
              /\ Ahead(Other(s))' = Cat(Ahead(Other(s)), m)
<1> DEFINE p == Other(from)
<1>1. from \in Side
  BY DEF IInv, Turning
<1>2. p \in Side /\ p # from
  BY <1>1, SideFacts
<1>3. /\ outq' \in [Side -> Seq(Word)] /\ out' \in [Side -> Seq(Word)]
      /\ \A q \in Side : Len(outq'[q]) <= SockCap /\ Len(out'[q]) <= BufSize
      /\ \A q \in Side : q # p => outq'[q] = outq[q] /\ out'[q] = out[q]
      /\ todo' \in {rest, todo}
      /\ phase' # "gone" => phase' = next /\ todo' = rest
      /\ phase' \in {next, "gone"}
      /\ \/ /\ todo' = rest
            /\ Cat(outq'[p], out'[p]) = Cat(Cat(outq[p], out[p]), m)
         \/ /\ todo' = todo /\ phase' = "gone"
            /\ Cat(outq'[p], out'[p]) = Cat(outq[p], out[p])
      /\ Cat(m, rest) = todo =>
            Cat(Cat(outq'[p], out'[p]), todo') = Cat(Cat(outq[p], out[p]), todo)
  <2>1. Typing /\ Bounds /\ Forward(p, m, rest, next)
    BY DEF IInv
  <2> HIDE DEF p
  <2> QED BY <1>2, <2>1, ForwardKeeps
<1>4. CASE s # from
  <2>1. Todo(s)' = Todo(s) /\ Other(s) \in Side /\ Other(s) # p
    BY <1>1, <1>4, SideFacts, Zenon DEF Todo
  <2>2. outq'[Other(s)] = outq[Other(s)] /\ out'[Other(s)] = out[Other(s)]
    BY <1>3, <2>1, Zenon
  <2> QED BY <2>1, <2>2, UntouchedStays
<1>5. CASE s = from
  <2> DEFINE g == got[p]  q == outq[p]  o == out[p]  i == inq[s]
             q2 == outq'[p]  o2 == out'[p]
  <2>1. /\ g \in Seq(Word) /\ q \in Seq(Word) /\ o \in Seq(Word) /\ i \in Seq(Word)
        /\ q2 \in Seq(Word) /\ o2 \in Seq(Word)
    BY <1>2, <1>3, Zenon DEF IInv, Typing
  <2>2. /\ Ahead(p) = Cat(Cat(g, q), o) /\ Ahead(p)' = Cat(Cat(g, q2), o2)
        /\ Behind(s) = Cat(todo, i) /\ Behind(s)' = Cat(todo', i)
        /\ sent'[s] = sent[s]
    BY <1>5, Zenon DEF Ahead, Behind, Todo
  <2>3. \/ todo' = rest /\ Cat(q2, o2) = Cat(Cat(q, o), m)
        \/ todo' = todo /\ Cat(q2, o2) = Cat(q, o)
    BY <1>3, Zenon
  <2> HIDE DEF g, q, o, i, q2, o2
  <2>4. Cat(q, o) \in Seq(Word)
    BY <2>1, CatType
  <2>5. /\ Cat(Cat(g, q), o) = Cat(g, Cat(q, o))
        /\ Cat(Cat(g, q2), o2) = Cat(g, Cat(q2, o2))
        /\ Cat(g, Cat(Cat(q, o), m)) = Cat(Cat(g, Cat(q, o)), m)
        /\ Cat(Cat(c, rest), i) = Cat(c, Cat(rest, i))
    BY <2>1, <2>4, CatAssoc
  <2>6. CASE todo' = rest /\ Cat(q2, o2) = Cat(Cat(q, o), m)
    <3>1. Ahead(p)' = Cat(Ahead(p), m)
      BY <2>2, <2>5, <2>6, Zenon
    <3>2. Behind(s) = Cat(c, Behind(s)')
      BY <2>2, <2>5, <2>6, Zenon
    <3> QED BY <1>5, <2>2, <3>1, <3>2, Zenon
  <2>7. CASE todo' = todo /\ Cat(q2, o2) = Cat(q, o)
    <3>1. Ahead(p)' = Ahead(p) /\ Behind(s)' = Behind(s)
      BY <2>2, <2>5, <2>7, Zenon
    <3> QED BY <1>5, <2>2, <3>1, Zenon DEF Stays
  <2> QED BY <2>3, <2>6, <2>7
<1> QED BY <1>4, <1>5

\* The message at the head of the buffer is as long as its header says.
LEMMA FirstMessage ==
    ASSUME IInv, phase = "loop", AtMessage, ~whole,
           SubSeq(todo, 1, MessageSize) # <<>>
    PROVE  /\ SubSeq(todo, 1, MessageSize)[1].idx = 1
           /\ Len(SubSeq(todo, 1, MessageSize)) = SubSeq(todo, 1, MessageSize)[1].size
<1>1. todo \in Seq(Word) /\ MessageSize \in 0 .. Len(todo) /\ Len(todo) \in Nat
  BY StepSplits, LenProperties DEF IInv, Typing
<1> DEFINE m == SubSeq(todo, 1, MessageSize)
<1>2. Len(m) = MessageSize /\ m \in Seq(Word)
  BY <1>1, Cut
<1>3. MessageSize # 0
  BY <1>1, <1>2, EmptySeq
<1>4. m[1] = todo[1] /\ Head(todo) = todo[1]
  BY <1>1, <1>3
<1>5. Head(todo).idx = 1 /\ MessageSize = Head(todo).size
  BY DEF AtMessage, MessageSize
<1> HIDE DEF m
<1>6. m[1].idx = 1 /\ Len(m) = m[1].size
  BY <1>2, <1>4, <1>5, Zenon
<1> QED BY <1>6, Zenon DEF m

\* What is left of the buffer is the end of it.
LEMMA RestIsRest ==
    ASSUME todo \in Seq(Word), Len(todo) <= BufSize, NEW k \in Nat
    PROVE  /\ Rest(k) \in Seq(Word) /\ Len(Rest(k)) <= BufSize
           /\ \E c \in Seq(Word) : Cat(c, Rest(k)) = todo
<1>1. Len(todo) \in Nat /\ <<>> \in Seq(Word) /\ Len(<<>>) = 0
  BY LenProperties, EmptySeq
<1>2. CASE whole \/ k > Len(todo)
  <2>1. Rest(k) = <<>>
    BY <1>1, <1>2, SubSeqEmpty DEF Rest
  <2>2. Cat(todo, <<>>) = todo
    BY CatEmpty
  <2> QED BY <1>1, <2>1, <2>2, RelayAssumption
<1>3. CASE ~whole /\ ~(k > Len(todo))
  <2>1. k \in 0 .. Len(todo) /\ Rest(k) = SubSeq(todo, k + 1, Len(todo))
    BY <1>1, <1>3 DEF Rest
  <2>2. /\ SubSeq(todo, 1, k) \in Seq(Word) /\ Rest(k) \in Seq(Word)
        /\ Len(Rest(k)) = Len(todo) - k
    BY <2>1, Cut
  <2>3. Cat(SubSeq(todo, 1, k), Rest(k)) = todo
    BY <2>1, CatCut
  <2>4. Len(Rest(k)) <= BufSize
    BY <1>1, <2>1, <2>2, RelayAssumption
  <2> QED BY <2>2, <2>3, <2>4, Zenon
<1> QED BY <1>2, <1>3

\* A message passed on is taken off and put on its way as it is.
LEMMA PassOnMoves ==
    ASSUME IInv, PassOn, NEW s \in Side
    PROVE  Stays(s) \/ Passes(s)
<1> DEFINE rest == Rest(MessageSize)
           m == SubSeq(todo, 1, MessageSize)
<1>1. phase = "loop" /\ AtMessage
      /\ Forward(Other(from), m, rest, Turn(rest))
      /\ UNCHANGED <<sent, got, inq, closed, from, sends, touched>>
  BY Zenon DEF PassOn
<1>2. /\ m \in Seq(Word) /\ Len(m) <= BufSize
      /\ rest \in Seq(Word) /\ Len(rest) <= BufSize
      /\ Cat(m, rest) = todo
  BY <1>1, StepSplits
<1>3. ~whole /\ m # <<>> => m[1].idx = 1 /\ Len(m) = m[1].size
  BY <1>1, FirstMessage
<1> HIDE DEF rest, m
<1>4. \/ Stays(s)
      \/ /\ s = from /\ sent'[s] = sent[s]
         /\ Behind(s) = Cat(m, Behind(s)')
         /\ Ahead(Other(s))' = Cat(Ahead(Other(s)), m)
  BY <1>1, <1>2, TurnMoves
<1> QED BY <1>2, <1>3, <1>4, Zenon DEF Passes, Takes

\* An edited message takes the place of the one that was cut off.
LEMMA EditMoves ==
    ASSUME IInv, NEW way \in {"edit", "resize"}, Edit(way), NEW s \in Side
    PROVE  Stays(s) \/ Edits(s) \/ Resizes(s)
<1>1. PICK k \in EditedSizes(way) :
         LET rest == Rest(k)
             next == IF ~whole /\ k > Len(todo)
                     THEN "runaway" ELSE Turn(rest)
         IN  Forward(Other(from), Edited(k), rest, next)
  BY DEF Edit
<1> DEFINE m == Edited(k)
           rest == Rest(k)
           next == IF ~whole /\ k > Len(todo) THEN "runaway" ELSE Turn(rest)
<1>2. /\ phase = "loop" /\ AtMessage
      /\ touched' = [touched EXCEPT ![from] = @ \cup {way}]
      /\ UNCHANGED <<sent, got, inq, closed, from, sends>>
      /\ Forward(Other(from), m, rest, next)
  BY <1>1, Zenon DEF Edit
<1>3. /\ from \in Side /\ way \in touched'[from]
      /\ todo \in Seq(Word) /\ Len(todo) \in Nat /\ Len(todo) <= BufSize
      /\ todo # <<>>
  BY <1>2, LenProperties DEF IInv, Typing, Turning, Bounds
<1>4. CASE k = MessageSize
  <2> DEFINE c == SubSeq(todo, 1, MessageSize)
  <2>1. /\ c \in Seq(Word) /\ Len(c) <= BufSize
        /\ rest \in Seq(Word) /\ Len(rest) <= BufSize
        /\ Cat(c, rest) = todo
    BY <1>2, <1>4, StepSplits
  <2>2. ~whole /\ c # <<>> => c[1].idx = 1 /\ Len(c) = c[1].size
    BY <1>2, FirstMessage
  <2>3. m = Marked(c)
    <3>1. MessageSize \in 0 .. Len(todo)
      BY <1>2, StepSplits
    <3>2. m = [i \in 1 .. MessageSize |-> [todo[i] EXCEPT !.src = "user"]]
      BY <1>4, Zenon DEF Edited
    <3>3. Len(c) = MessageSize /\ \A i \in 1 .. MessageSize : c[i] = todo[i]
      BY <1>3, <3>1
    <3> HIDE DEF c, m
    <3> QED BY <3>2, <3>3 DEF Marked
  <2>4. way = "edit"
    <3>1. way = "resize" => k # MessageSize
      BY <1>1 DEF EditedSizes
    <3> QED BY <1>4, <3>1
  <2> HIDE DEF c, m, rest, next
  <2>5. m \in Seq(Word) /\ Len(m) <= BufSize
    BY <2>1, <2>3, MarkedRow
  <2>6. \/ Stays(s)
        \/ /\ s = from /\ sent'[s] = sent[s]
           /\ Behind(s) = Cat(c, Behind(s)')
           /\ Ahead(Other(s))' = Cat(Ahead(Other(s)), m)
    BY <1>2, <2>1, <2>5, TurnMoves
  <2> QED BY <1>3, <2>1, <2>2, <2>3, <2>4, <2>6, Zenon DEF Edits, Takes
<1>5. CASE k # MessageSize
  <2>1. k \in Nat /\ k <= BufSize /\ way = "resize"
    <3>1. k \in MsgSizes \cup {0} /\ way # "edit"
      BY <1>1, <1>5 DEF EditedSizes
    <3> QED BY <3>1, RelayAssumption
  <2>2. PICK h \in Word : h = Head(todo)
    BY <1>3
  <2>3. m = Message("user", h.at, k) /\ h.at \in Nat
    <3>1. h.at \in Nat
      BY DEF Word
    <3> QED BY <1>5, <2>2, <3>1, Zenon DEF Edited
  <2>4. m \in Seq(Word) /\ Len(m) <= BufSize
    <3>1. /\ Message("user", h.at, k) \in Seq(Word)
          /\ Len(Message("user", h.at, k)) = k
      BY <2>1, <2>3, MessageType
    <3> HIDE DEF m
    <3> QED BY <2>1, <2>3, <3>1, Zenon
  <2>5. rest \in Seq(Word) /\ Len(rest) <= BufSize
        /\ \E c \in Seq(Word) : Cat(c, rest) = todo
    BY <1>3, <2>1, RestIsRest
  <2>6. PICK c \in Seq(Word) : Cat(c, rest) = todo
    BY <2>5, Zenon
  <2> HIDE DEF m, rest, next
  <2>7. \/ Stays(s)
        \/ /\ s = from /\ sent'[s] = sent[s]
           /\ Behind(s) = Cat(c, Behind(s)')
           /\ Ahead(Other(s))' = Cat(Ahead(Other(s)), m)
    BY <1>2, <2>4, <2>5, <2>6, TurnMoves
  <2> QED BY <1>3, <2>1, <2>3, <2>7, Zenon DEF Resizes
<1> QED BY <1>4, <1>5

\* A message from the user comes last of what is on its way.
LEMMA UserSendMoves ==
    ASSUME IInv, NEW p \in Side, UserSend(p), NEW s \in Side
    PROVE  Stays(s) \/ Injects(s)
<1>1. PICK k \in MsgSizes :
         LET m == Message("user", sends + 1, k)
             n == Least(Room(p), Len(out[p]))
         IN  IF Fits(p, m)
             THEN /\ out' = [out EXCEPT ![p] = @ \o m]
                  /\ UNCHANGED outq
             ELSE /\ outq' = [outq EXCEPT ![p] = @ \o SubSeq(out[p], 1, n)]
                  /\ out' = [out EXCEPT ![p] = IF n = Len(@) THEN m
                                               ELSE SubSeq(@, n + 1, Len(@))]
  BY DEF UserSend
<1> DEFINE m == Message("user", sends + 1, k)
<1>2. /\ touched' = [touched EXCEPT ![Other(p)] = @ \cup {"send"}]
      /\ UNCHANGED <<sent, got, inq, closed, from, todo, phase>>
  BY DEF UserSend
<1>3. sends + 1 \in Nat /\ k \in Nat
  BY RelayAssumption DEF IInv, Typing
<1>4. m \in Seq(Word)
  BY <1>3, MessageType
<1> HIDE DEF m
<1>5. Behind(s)' = Behind(s) /\ sent'[s] = sent[s]
  BY <1>2, Zenon DEF Behind, Todo
<1>6. CASE Other(s) # p
  <2>1. Other(s) \in Side
    BY SideFacts
  <2>2. outq'[Other(s)] = outq[Other(s)] /\ out'[Other(s)] = out[Other(s)]
    BY <1>1, <1>6, <2>1 DEF IInv, Typing
  <2> QED BY <1>2, <1>5, <2>2, Zenon DEF Stays, Ahead
<1>7. CASE Other(s) = p
  <2>1. "send" \in touched'[s]
    BY <1>2, <1>7, SideFacts DEF IInv, Typing
  <2> DEFINE g == got[p]  q == outq[p]  r == out[p]
             n == Least(Room(p), Len(r))
             x == SubSeq(r, 1, n)
             y == SubSeq(r, n + 1, Len(r))
  <2>2. g \in Seq(Word) /\ q \in Seq(Word) /\ r \in Seq(Word)
    BY Zenon DEF IInv, Typing
  <2>3. n \in 0 .. Len(r)
    <3>0. Typing /\ Bounds
      BY DEF IInv
    <3>1. PICK room \in Nat : room = Room(p)
      BY <3>0, RoomIs, Zenon
    <3> QED BY <2>2, <3>1, LenProperties DEF Least
  <2>4. x \in Seq(Word) /\ y \in Seq(Word) /\ Cat(x, y) = r /\ (n = Len(r) => x = r)
    <3>1. n = Len(r) => SubSeq(r, 1, n) = r
      BY <2>2, SubSeqFull
    <3> QED BY <2>2, <2>3, <3>1, Cut, CatCut
  <2>5. \/ outq'[p] = q /\ out'[p] = Cat(r, m)
        \/ outq'[p] = Cat(q, x) /\ out'[p] = IF n = Len(r) THEN m ELSE y
    BY <1>1, Zenon DEF Cat, m, IInv, Typing
  <2>6. Ahead(p) = Cat(Cat(g, q), r) /\ Ahead(p)' = Cat(Cat(g, outq'[p]), out'[p])
    BY <1>2, Zenon DEF Ahead
  <2> HIDE DEF g, q, r, n, x, y
  <2>7. Cat(g, q) \in Seq(Word) /\ Cat(Cat(g, q), Cat(r, m)) = Cat(Cat(Cat(g, q), r), m)
    BY <1>4, <2>2, CatType, CatAssoc
  <2>8. /\ Cat(g, Cat(q, x)) = Cat(Cat(g, q), x)
        /\ Cat(Cat(Cat(g, q), x), y) = Cat(Cat(g, q), Cat(x, y))
    BY <2>2, <2>4, <2>7, CatAssoc
  <2>9. Ahead(p)' = Ahead(p) \/ Ahead(p)' = Cat(Ahead(p), m)
    <3>1. CASE outq'[p] = q /\ out'[p] = Cat(r, m)
      BY <2>6, <2>7, <3>1, Zenon
    <3>2. CASE outq'[p] = Cat(q, x) /\ n = Len(r) /\ out'[p] = m
      BY <2>4, <2>6, <2>8, <3>2, Zenon
    <3>3. CASE outq'[p] = Cat(q, x) /\ out'[p] = y
      BY <2>4, <2>6, <2>8, <3>3, Zenon
    <3> QED BY <2>5, <3>1, <3>2, <3>3, Zenon
  <2> QED BY <1>3, <1>5, <1>7, <2>1, <2>9, Zenon DEF Stays, Injects, m
<1> QED BY <1>6, <1>7

\* Every step moves every stream in one of the six ways.
LEMMA StepMoves ==
    ASSUME IInv, [Next]_vars, NEW s \in Side
    PROVE  Moves(s)
<1>0. Typing /\ touched \in [Side -> SUBSET Way]
  BY DEF IInv, Typing
<1>1. ASSUME NEW t \in Side, PeerWrite(t) PROVE Moves(s)
  <2>1. Stays(s) \/ Writes(s)
    BY <1>0, <1>1, PeerWriteMoves
  <2>2. touched' = touched
    BY <1>1 DEF PeerWrite
  <2> QED BY <2>1, <2>2, Zenon DEF Moves
<1>2. ASSUME NEW p \in Side, PeerRead(p) PROVE Moves(s)
  <2>1. Stays(s) /\ touched' = touched
    BY <1>0, <1>2, PeerReadMoves DEF PeerRead
  <2> QED BY <2>1, Zenon DEF Moves
<1>3. ASSUME NEW t \in Side, Read(t) PROVE Moves(s)
  <2>1. Stays(s) /\ touched' = touched
    BY <1>3, ReadMoves DEF Read
  <2> QED BY <2>1, Zenon DEF Moves
<1>4. ASSUME NEW p \in Side, UserSend(p) PROVE Moves(s)
  <2>1. Stays(s) \/ Injects(s)
    BY <1>4, UserSendMoves
  <2>2. touched[s] \subseteq touched'[s]
    BY <1>0, <1>4, SideFacts DEF UserSend
  <2> QED BY <2>1, <2>2, Zenon DEF Moves
<1>5. CASE PassOn
  <2>1. Stays(s) \/ Passes(s)
    BY <1>5, PassOnMoves
  <2>2. touched' = touched
    BY <1>5 DEF PassOn
  <2> QED BY <2>1, <2>2, Zenon DEF Moves
<1>6. ASSUME NEW way \in {"edit", "resize"}, Edit(way) PROVE Moves(s)
  <2>1. Stays(s) \/ Edits(s) \/ Resizes(s)
    BY <1>6, EditMoves
  <2>2. touched[s] \subseteq touched'[s]
    BY <1>0, <1>6 DEF Edit
  <2> QED BY <2>1, <2>2, Zenon DEF Moves
<1>7. ASSUME UNCHANGED <<sent, got, inq, outq, out, from, todo>>,
             touched[s] \subseteq touched'[s]
      PROVE  Moves(s)
  <2>1. Stays(s)
    BY <1>7, Zenon DEF Stays, Ahead, Behind, Todo
  <2> QED BY <1>7, <2>1 DEF Moves
<1>8. CASE Torn
  <2>1. touched[s] \subseteq touched'[s]
    BY <1>0, <1>8 DEF Torn
  <2> QED BY <1>7, <1>8, <2>1 DEF Torn
<1>9. ASSUME NEW t \in Side, PeerClose(t) \/ HangUp(t) PROVE Moves(s)
  BY <1>7, <1>9 DEF PeerClose, HangUp
<1>10. CASE Quit \/ Interrupt \/ UNCHANGED vars
  BY <1>7, <1>10 DEF Quit, Interrupt, vars, traffic
<1>11. Ways \ {"send"} \subseteq {"edit", "resize"}
  BY RelayAssumption
<1> QED
  BY <1>1, <1>2, <1>3, <1>4, <1>5, <1>6, <1>8, <1>9, <1>10, <1>11 DEF Next, Step

-----------------------------------------------------------------------------
(* Whole messages. *)

\* What is to come from s ends where a message ends; as long as no size was
\* changed it also begins where one begins.  What is ahead is whole messages.
Framing(s) ==
    /\ Stretch(Behind(s)) /\ Ends(Behind(s))
    /\ ~whole /\ "resize" \notin touched[s] => Starts(Behind(s))
    /\ ~whole => Row(Ahead(Other(s)))

\* The loop runs off the data of a stream whose sizes were left alone only where
\* the read has cut a message.
Cutting ==
    phase = "runaway" /\ ~whole /\ from \in Side /\ "resize" \notin touched[from] =>
        todo # <<>> /\ Last(todo).idx # Last(todo).size

\* Two rows make a row.
LEMMA JoinRows ==
    ASSUME NEW q \in Seq(Word), NEW r \in Seq(Word), Row(q), Row(r)
    PROVE  Row(Cat(q, r))
BY JoinStretch DEF Row

\* However a stream moves, its messages stay whole.
LEMMA FramingHolds ==
    ASSUME IInv, IInv', NEW s \in Side, Framing(s), Moves(s), whole' = whole
    PROVE  Framing(s)'
<1> DEFINE a == Ahead(Other(s))
           b == Behind(s)
<1>1. /\ a \in Seq(Word) /\ b \in Seq(Word)
      /\ a' \in Seq(Word) /\ b' \in Seq(Word)
  BY StreamParts, PartsNext DEF IInv
<1>2. /\ Stretch(b) /\ Ends(b)
      /\ ~whole /\ "resize" \notin touched[s] => Starts(b)
      /\ ~whole => Row(a)
  BY DEF Framing
<1>3. "resize" \notin touched'[s] => "resize" \notin touched[s]
  BY DEF Moves
<1> SUFFICES /\ Stretch(b') /\ Ends(b')
             /\ ~whole /\ "resize" \notin touched[s] => Starts(b') \/ "resize" \in touched'[s]
             /\ ~whole => Row(a')
  BY <1>3 DEF Framing
<1>4. CASE Stays(s)
  <2>1. a' = a /\ b' = b
    BY <1>4 DEF Stays
  <2> HIDE DEF a, b
  <2> QED BY <1>2, <2>1, Zenon
<1>5. CASE Writes(s)
  <2>1. PICK k \in MsgSizes : b' = Cat(b, Message(s, Len(sent[s]) + 1, k))
    BY <1>5, Zenon DEF Writes
  <2>2. a' = a
    BY <1>5, Zenon DEF Writes
  <2> DEFINE m == Message(s, Len(sent[s]) + 1, k)
  <2>3. m \in Seq(Word) /\ Row(m)
    <3>1. Len(sent[s]) + 1 \in Nat /\ k \in Nat
      BY LenProperties, RelayAssumption DEF IInv, Typing
    <3> QED BY <3>1, MessageType, MessageRow
  <2> HIDE DEF m, a, b
  <2>4. /\ Stretch(Cat(b, m)) /\ Ends(Cat(b, m))
        /\ Starts(b) => Starts(Cat(b, m))
    BY <1>1, <1>2, <2>3, JoinStretch DEF Row
  <2> QED BY <1>2, <2>1, <2>2, <2>4, Zenon DEF m
<1>6. ASSUME NEW m \in Seq(Word), Takes(s, m)
      PROVE  /\ Stretch(b') /\ Ends(b') /\ (~whole => Row(m))
             /\ ~whole /\ "resize" \notin touched[s] => Starts(b')
  <2>1. b = Cat(m, b') /\ (~whole /\ m # <<>> => m[1].idx = 1 /\ Len(m) = m[1].size)
    BY <1>6, Zenon DEF Takes
  <2> HIDE DEF b
  <2>2. Stretch(m) /\ Stretch(b') /\ Ends(b')
    BY <1>1, <1>2, <2>1, SplitStretch
  <2>3. ~whole => Row(m)
    BY <2>1, <2>2, HeadMessage
  <2>4. Starts(b) /\ Row(m) => Starts(b')
    BY <1>1, <1>2, <2>1, RestStarts DEF Row
  <2> QED BY <1>2, <2>2, <2>3, <2>4, Zenon
<1>7. CASE Passes(s)
  <2>1. PICK m \in Seq(Word) : Takes(s, m) /\ a' = Cat(a, m)
    BY <1>7, Zenon DEF Passes
  <2>2. ~whole => Row(a')
    BY <1>1, <1>2, <1>6, <2>1, JoinRows
  <2> QED BY <1>6, <2>1, <2>2
<1>8. CASE Edits(s)
  <2>1. PICK m \in Seq(Word) : Takes(s, m) /\ a' = Cat(a, Marked(m))
    BY <1>8, Zenon DEF Edits
  <2>2. ~whole => Row(a')
    <3>1. ~whole => Row(Marked(m))
      BY <1>6, <2>1, MarkedRow
    <3>2. Marked(m) \in Seq(Word)
      BY MarkedRow
    <3> QED BY <1>1, <1>2, <2>1, <3>1, <3>2, JoinRows
  <2> QED BY <1>6, <2>1, <2>2
<1>9. ASSUME NEW n \in Nat, NEW k \in Nat, a' = Cat(a, Message("user", n, k))
      PROVE  ~whole => Row(a')
  <2>1. Message("user", n, k) \in Seq(Word) /\ Row(Message("user", n, k))
    BY MessageType, MessageRow
  <2> QED BY <1>1, <1>2, <1>9, <2>1, JoinRows
<1>10. CASE Injects(s)
  <2>1. b' = b /\ \E n \in Nat, k \in Nat : a' = Cat(a, Message("user", n, k))
    BY <1>10, Zenon DEF Injects
  <2>2. ~whole => Row(a')
    BY <1>9, <2>1
  <2> HIDE DEF b
  <2> QED BY <1>2, <2>1, <2>2, Zenon
<1>11. CASE Resizes(s)
  <2>1. /\ "resize" \in touched'[s]
        /\ \E n \in Nat, k \in Nat : a' = Cat(a, Message("user", n, k))
        /\ \E c \in Seq(Word) : b = Cat(c, b')
    BY <1>11, Zenon DEF Resizes
  <2>2. ~whole => Row(a')
    BY <1>9, <2>1
  <2>3. PICK c \in Seq(Word) : b = Cat(c, b')
    BY <2>1, Zenon
  <2> HIDE DEF b
  <2>4. Stretch(b') /\ Ends(b')
    BY <1>1, <1>2, <2>3, SplitStretch
  <2> QED BY <2>1, <2>2, <2>4, Zenon
<1> QED BY <1>4, <1>5, <1>7, <1>8, <1>10, <1>11 DEF Moves

\* The loop runs away only where the read has cut a message.
LEMMA CuttingHolds ==
    ASSUME IInv, \A s \in Side : Framing(s), Cutting, [Next]_vars
    PROVE  Cutting'
<1>1. whole' = whole
  BY DEF Next, vars
<1>2. CASE Torn
  <2> SUFFICES ASSUME ~whole, "resize" \notin touched'[from]
               PROVE  todo # <<>> /\ Last(todo).idx # Last(todo).size
    BY <1>1, <1>2 DEF Torn, Cutting
  <2>1. from \in Side /\ todo # <<>> /\ todo \in Seq(Word) /\ ~AtMessage
    BY <1>2 DEF Torn, IInv, Turning, Typing
  <2>2. "resize" \notin touched[from]
    BY <1>2, <2>1 DEF Torn, IInv, Typing
  <2> DEFINE i == inq[from]
  <2>3. i \in Seq(Word) /\ Stretch(Cat(todo, i)) /\ Starts(Cat(todo, i))
    <3>1. Behind(from) = Cat(todo, i)
      BY Zenon DEF Behind, Todo
    <3>2. Stretch(Behind(from)) /\ Starts(Behind(from))
      BY <2>1, <2>2 DEF Framing
    <3> QED BY <2>1, <3>1, <3>2 DEF IInv, Typing
  <2> HIDE DEF i
  <2>4. Stretch(todo) /\ Starts(todo)
    BY <2>1, <2>3, SplitStretch
  <2>5. /\ Len(todo) \in Nat \ {0}
        /\ \A j \in 1 .. Len(todo) : todo[j].idx \in Nat /\ todo[j].size \in Nat
    BY <2>1, WordsOf, EmptySeq
  <2>6. Head(todo) = todo[1] /\ Last(todo) = todo[Len(todo)]
    BY <2>1 DEF Last
  <2>7. 1 \in 1 .. Len(todo) /\ Len(todo) \in 1 .. Len(todo)
    BY <2>5
  <2>8. todo[1].idx = 1 /\ todo[1].size > Len(todo)
    <3>1. todo[1].idx = 1
      BY <2>4, <2>5, <2>7 DEF Stretch, Starts
    <3>2. ~(todo[1].size <= Len(todo))
      BY <2>1, <2>6, <3>1, Zenon DEF AtMessage
    <3> QED BY <2>5, <2>7, <3>1, <3>2
  <2>9. /\ todo[Len(todo)].idx = todo[1].idx + Len(todo) - 1
        /\ todo[Len(todo)].size = todo[1].size
    <3>1. 1 - todo[1].idx < Len(todo) /\ Len(todo) <= 1 - todo[1].idx + todo[1].size
      BY <2>5, <2>7, <2>8
    <3> QED BY <2>4, <2>7, <3>1 DEF Stretch
  <2> QED BY <2>1, <2>5, <2>6, <2>7, <2>8, <2>9
<1>3. ASSUME phase' # "runaway" PROVE Cutting'
  BY <1>3 DEF Cutting
<1>4. ASSUME UNCHANGED <<whole, from, todo, phase>>, touched[from] \subseteq touched'[from]
      PROVE  Cutting'
  BY <1>4 DEF Cutting
<1>5. ASSUME NEW s \in Side, PeerWrite(s) \/ PeerRead(s) \/ PeerClose(s) PROVE Cutting'
  BY <1>1, <1>4, <1>5 DEF PeerWrite, PeerRead, PeerClose
<1>6. ASSUME NEW p \in Side, UserSend(p) PROVE Cutting'
  BY <1>3, <1>6 DEF UserSend, AtPrompt
<1>7. ASSUME NEW s \in Side, HangUp(s) \/ Read(s) PROVE Cutting'
  BY <1>3, <1>7 DEF HangUp, Read
<1>8. CASE PassOn
  <2>1. phase' \in {"idle", "loop", "gone"}
    BY <1>8 DEF PassOn, Forward, Turn
  <2> QED BY <1>3, <2>1
<1>9. ASSUME NEW way \in {"edit", "resize"}, Edit(way) PROVE Cutting'
  <2>1. CASE way = "resize"
    <3>1. from \in Side => "resize" \in touched'[from'] /\ from' = from
      BY <1>9, <2>1 DEF Edit, IInv, Typing
    <3> QED BY <3>1, <1>9 DEF Cutting, Edit
  <2>2. CASE way = "edit"
    <3>1. PICK k \in EditedSizes(way) :
             LET rest == Rest(k)
                 next == IF ~whole /\ k > Len(todo)
                         THEN "runaway" ELSE Turn(rest)
             IN  Forward(Other(from), Edited(k), rest, next)
      BY <1>9 DEF Edit
    <3>2. k \in 0 .. Len(todo) /\ Len(todo) \in Nat
      <4>1. k = MessageSize
        BY <2>2, <3>1 DEF EditedSizes
      <4>2. MessageSize \in 0 .. Len(todo)
        BY <1>9, StepSplits DEF Edit
      <4>3. Len(todo) \in Nat
        BY LenProperties DEF IInv, Typing
      <4> QED BY <4>1, <4>2, <4>3
    <3>3. ~(~whole /\ k > Len(todo))
      BY <3>2
    <3>4. Forward(Other(from), Edited(k), Rest(k), Turn(Rest(k)))
      BY <3>1, <3>3, Zenon
    <3>5. phase' = Turn(Rest(k)) \/ phase' = "gone"
      BY <3>4, Zenon DEF Forward
    <3>6. phase' # "runaway"
      BY <3>5 DEF Turn
    <3> QED BY <1>3, <3>6
  <2> QED BY <2>1, <2>2
<1>10. CASE Quit \/ Interrupt
  BY <1>3, <1>10 DEF Quit, Interrupt
<1>11. CASE UNCHANGED vars
  BY <1>4, <1>11 DEF vars, traffic
<1>12. Ways \ {"send"} \subseteq {"edit", "resize"}
  BY RelayAssumption
<1> QED
  BY <1>2, <1>5, <1>6, <1>7, <1>8, <1>9, <1>10, <1>11, <1>12 DEF Next, Step

\* The framing invariant, on top of the first one.
Framings == (\A s \in Side : Framing(s)) /\ Cutting

\* Nothing is on its way when the connection is made.
LEMMA InitFramings == Init => Framings
<1> SUFFICES ASSUME Init
             PROVE  Framings
  OBVIOUS
<1>1. Cat(<<>>, <<>>) = <<>>
  BY EmptySeq, CatEmpty
<1>2. ASSUME NEW s \in Side
      PROVE  Ahead(Other(s)) = <<>> /\ Behind(s) = <<>>
  BY <1>1, SideFacts DEF Init, Ahead, Behind, Todo
<1>3. \A s \in Side : Framing(s)
  BY <1>2, EmptyRow DEF Framing, Row
<1>4. Cutting
  BY DEF Init, Cutting
<1> QED BY <1>3, <1>4 DEF Framings

\* Every step keeps it.
LEMMA StepFramings == IInv /\ IInv' /\ Framings /\ [Next]_vars => Framings'
<1> SUFFICES ASSUME IInv, IInv', Framings, [Next]_vars
             PROVE  Framings'
  OBVIOUS
<1>1. whole' = whole
  BY DEF Next, vars
<1>2. ASSUME NEW s \in Side PROVE Framing(s)'
  <2>1. Moves(s) /\ Framing(s)
    BY StepMoves DEF Framings
  <2> QED BY <1>1, <2>1, FramingHolds
<1>3. Cutting'
  BY CuttingHolds DEF Framings
<1> QED BY <1>2, <1>3, Zenon DEF Framings

\* What the invariants say of the messages in the buffer and on their way.
LEMMA FramingsFrame ==
    ASSUME IInv, Framings
    PROVE  StreamsFramed
<1>1. ASSUME NEW s \in Side, from = s, ~whole, "resize" \notin touched[s],
             todo # <<>> => Last(todo).idx = Last(todo).size
      PROVE  phase # "runaway" /\ Framed(todo)
  <2>1. phase # "runaway"
    BY <1>1 DEF Framings, Cutting
  <2>2. todo \in Seq(Word) /\ inq[s] \in Seq(Word)
    BY DEF IInv, Typing
  <2>3. Stretch(Cat(todo, inq[s])) /\ Starts(Cat(todo, inq[s]))
    <3>1. Behind(s) = Cat(todo, inq[s])
      BY <1>1, Zenon DEF Behind, Todo
    <3> QED BY <1>1, <3>1 DEF Framings, Framing
  <2>4. Stretch(todo) /\ Starts(todo)
    BY <2>2, <2>3, SplitStretch
  <2>5. /\ Len(todo) \in Nat
        /\ \A j \in 1 .. Len(todo) : todo[j].idx \in Nat /\ todo[j].size \in Nat
    BY <2>2, WordsOf
  <2>6. Ends(todo)
    <3> SUFFICES ASSUME NEW i \in 1 .. Len(todo), i - todo[i].idx + todo[i].size > Len(todo)
                 PROVE  FALSE
      BY <2>5 DEF Ends
    <3> DEFINE n == Len(todo)
    <3>1. n \in 1 .. n /\ todo # <<>>
      BY <2>5, EmptySeq
    <3>2. todo[n].idx = todo[n].size
      BY <1>1, <2>2, <3>1 DEF Last
    <3>3. todo[n].idx = todo[i].idx + n - i /\ todo[n].size = todo[i].size
      <4>1. i - todo[i].idx < n /\ n <= i - todo[i].idx + todo[i].size
        BY <2>4, <2>5, <3>1 DEF Stretch
      <4> QED BY <2>4, <3>1, <4>1 DEF Stretch
    <3>4. todo[i].idx \in Nat /\ todo[i].size \in Nat /\ n \in Nat /\ i \in Nat
      BY <2>5
    <3>5. todo[i].size = todo[i].idx + n - i
      BY <3>2, <3>3, Zenon
    <3> HIDE DEF n
    <3>6. ~(i - todo[i].idx + todo[i].size > n)
      BY <3>4, <3>5
    <3> QED BY <3>6 DEF n
  <2>7. Framed(todo)
    BY <2>2, <2>4, <2>6, RowIsFramed DEF Row
  <2> QED BY <2>1, <2>7
<1>2. ASSUME ~whole, NEW p \in Side
      PROVE  Framed(got[p] \o outq[p] \o out[p])
  <2>1. Other(p) \in Side /\ Other(Other(p)) = p
    BY SideFacts
  <2>2. Row(Ahead(p))
    BY <1>2, <2>1, Zenon DEF Framings, Framing
  <2>3. Ahead(p) \in Seq(Word)
    BY StreamParts DEF IInv
  <2>4. Framed(Ahead(p))
    BY <2>2, <2>3, RowIsFramed
  <2> QED BY <2>4, Zenon DEF Ahead, Cat
<1> QED BY <1>1, <1>2, Zenon DEF StreamsFramed

\* As long as no size is changed the loop hands out whole messages, and a read
\* that cuts one is the only way it runs off its data; what is on its way to a
\* peer is whole messages, whatever is edited, resized, injected or cut short.
THEOREM StreamsStayFramed == Spec => []StreamsFramed
<1>1. IInv /\ Framings => StreamsFramed
  BY FramingsFrame
<1> QED BY <1>1, Invariance, InitFramings, StepFramings, PTL DEF Spec

-----------------------------------------------------------------------------
(* Edits that keep the size. *)

\* v is w, or w as the user edited it.
Edition(v, w) == v = w \/ v = [w EXCEPT !.src = "user"]

\* q is r but for edited words.
Copies(q, r) == Len(q) = Len(r) /\ \A i \in 1 .. Len(r) : Edition(q[i], r[i])

InPlace(s) == touched[s] \subseteq {"edit"} => Copies(Line(s), sent[s])

\* An edited message put in the place of the message.
LEMMA MarkInPlace ==
    ASSUME NEW a \in Seq(Word), NEW m \in Seq(Word), NEW b \in Seq(Word),
           NEW r \in Seq(Word), Copies(Cat(Cat(a, m), b), r)
    PROVE  Copies(Cat(Cat(a, Marked(m)), b), r)
<1>1. PICK n \in Seq(Word) : n = Marked(m)
  BY MarkedRow
<1>0. Len(n) = Len(m) /\ \A i \in 1 .. Len(m) : n[i] = [m[i] EXCEPT !.src = "user"]
  <2>1. Len(n) = Len(m)
    BY <1>1, MarkedRow
  <2>2. \A i \in 1 .. Len(m) : n[i] = [m[i] EXCEPT !.src = "user"]
    BY <1>1 DEF Marked
  <2> QED BY <2>1, <2>2
<1> DEFINE x == Cat(Cat(a, m), b)
           y == Cat(Cat(a, n), b)
<1>2. /\ Len(x) = Len(a) + Len(m) + Len(b)
      /\ Len(a) \in Nat /\ Len(m) \in Nat /\ Len(b) \in Nat
      /\ \A i \in 1 .. Len(a) : x[i] = a[i]
      /\ \A i \in 1 .. Len(m) : x[Len(a) + i] = m[i]
      /\ \A i \in 1 .. Len(b) : x[Len(a) + Len(m) + i] = b[i]
  <2>1. InARow(x, a, m, b)
    BY CatInARow
  <2> HIDE DEF x
  <2> QED BY <2>1, Zenon DEF InARow
<1>3. /\ Len(y) = Len(a) + Len(m) + Len(b)
      /\ \A i \in 1 .. Len(a) : y[i] = a[i]
      /\ \A i \in 1 .. Len(m) : y[Len(a) + i] = n[i]
      /\ \A i \in 1 .. Len(b) : y[Len(a) + Len(m) + i] = b[i]
  <2>1. /\ Len(y) = Len(a) + Len(n) + Len(b)
        /\ Len(a) \in Nat /\ Len(n) \in Nat /\ Len(b) \in Nat
        /\ \A i \in 1 .. Len(a) : y[i] = a[i]
        /\ \A i \in 1 .. Len(n) : y[Len(a) + i] = n[i]
        /\ \A i \in 1 .. Len(b) : y[Len(a) + Len(n) + i] = b[i]
    <3>1. InARow(y, a, n, b)
      BY <1>1, CatInARow
    <3> HIDE DEF y
    <3> QED BY <3>1, Zenon DEF InARow
  <2>2. Len(n) = Len(m)
    BY <1>0
  <2> HIDE DEF y
  <2> QED BY <2>1, <2>2
<1> HIDE DEF x, y
<1>4. ASSUME NEW i \in 1 .. Len(x)
      PROVE  y[i] = x[i] \/ y[i] = [x[i] EXCEPT !.src = "user"]
  <2>1. CASE i <= Len(a)
    BY <1>2, <1>3, <2>1
  <2>2. CASE Len(a) < i /\ i <= Len(a) + Len(m)
    <3> DEFINE j == i - Len(a)
    <3>1. j \in 1 .. Len(m) /\ Len(a) + j = i
      BY <1>2, <2>2
    <3> HIDE DEF j
    <3>2. x[Len(a) + j] = m[j] /\ y[Len(a) + j] = [m[j] EXCEPT !.src = "user"]
      BY <1>0, <1>2, <1>3, <3>1
    <3> QED BY <3>1, <3>2, Zenon
  <2>3. CASE Len(a) + Len(m) < i
    <3> DEFINE j == i - (Len(a) + Len(m))
    <3>1. j \in 1 .. Len(b) /\ Len(a) + Len(m) + j = i
      BY <1>2, <2>3
    <3> HIDE DEF j
    <3>2. x[Len(a) + Len(m) + j] = b[j] /\ y[Len(a) + Len(m) + j] = b[j]
      BY <1>2, <1>3, <3>1
    <3> QED BY <3>1, <3>2, Zenon
  <2> QED BY <1>2, <2>1, <2>2, <2>3
<1>5. Len(r) \in Nat /\ \A i \in 1 .. Len(r) : r[i] \in Word
  BY WordsOf
<1>6. Len(x) = Len(r) /\ \A i \in 1 .. Len(r) : Edition(x[i], r[i])
  BY Zenon DEF Copies, x
<1>7. ASSUME NEW i \in 1 .. Len(r)
      PROVE  Edition(y[i], r[i])
  <2>1. Edition(x[i], r[i]) /\ (y[i] = x[i] \/ y[i] = [x[i] EXCEPT !.src = "user"])
    BY <1>4, <1>6
  <2>2. \A w \in Word : [[w EXCEPT !.src = "user"] EXCEPT !.src = "user"]
                            = [w EXCEPT !.src = "user"]
    BY DEF Word
  <2>3. [[r[i] EXCEPT !.src = "user"] EXCEPT !.src = "user"] = [r[i] EXCEPT !.src = "user"]
    BY <1>5, <2>2
  <2> QED BY <2>1, <2>3, Zenon DEF Edition
<1>8. Copies(y, r)
  BY <1>2, <1>3, <1>6, <1>7 DEF Copies
<1> QED BY <1>1, <1>8, Zenon DEF y

\* What is written comes behind, on both.
LEMMA WriteInPlace ==
    ASSUME NEW q \in Seq(Word), NEW r \in Seq(Word), NEW m \in Seq(Word), Copies(q, r)
    PROVE  Copies(Cat(q, m), Cat(r, m))
<1>1. Len(q) = Len(r) /\ \A i \in 1 .. Len(r) : Edition(q[i], r[i])
  BY Zenon DEF Copies
<1>4. Len(Cat(q, m)) = Len(q) + Len(m) /\ Len(Cat(r, m)) = Len(r) + Len(m)
      /\ Len(r) \in Nat /\ Len(m) \in Nat
  BY CatType, WordsOf
<1>2. Len(Cat(q, m)) = Len(Cat(r, m)) /\ Len(Cat(r, m)) = Len(r) + Len(m)
      /\ Len(r) \in Nat /\ Len(m) \in Nat
  BY <1>1, <1>4
<1>3. ASSUME NEW i \in 1 .. Len(Cat(r, m))
      PROVE  Edition(Cat(q, m)[i], Cat(r, m)[i])
  <2>1. CASE i <= Len(r)
    <3>1. i \in 1 .. Len(r) /\ i \in 1 .. Len(q)
      BY <1>1, <1>2, <2>1
    <3>2. Cat(q, m)[i] = q[i] /\ Cat(r, m)[i] = r[i]
      BY <3>1, CatWords
    <3> QED BY <1>1, <3>1, <3>2
  <2>2. CASE i > Len(r)
    <3> DEFINE j == i - Len(r)
    <3>1. j \in 1 .. Len(m) /\ Len(r) + j = i
      BY <1>2, <2>2
    <3> HIDE DEF j
    <3>2. Cat(q, m)[Len(q) + j] = m[j] /\ Cat(r, m)[Len(r) + j] = m[j]
      BY <3>1, CatWords
    <3> QED BY <1>1, <3>1, <3>2, Zenon DEF Edition
  <2> QED BY <1>2, <2>1, <2>2
<1> QED BY <1>2, <1>3, Zenon DEF Copies

\* However a stream moves that was only edited, the words stay where they stood.
LEMMA InPlaceHolds ==
    ASSUME IInv, IInv', NEW s \in Side, InPlace(s), Moves(s)
    PROVE  InPlace(s)'
<1> DEFINE a == Ahead(Other(s))
           b == Behind(s)
<1>1. /\ a \in Seq(Word) /\ b \in Seq(Word) /\ sent[s] \in Seq(Word)
      /\ a' \in Seq(Word) /\ b' \in Seq(Word)
  BY StreamParts, PartsNext DEF IInv, Typing
<1>2. Line(s) = Cat(a, b) /\ Line(s)' = Cat(a', b')
  BY StreamParts, LineNext DEF IInv
<1> SUFFICES ASSUME touched'[s] \subseteq {"edit"}
             PROVE  Copies(Cat(a', b'), sent'[s])
  BY <1>2, Zenon DEF InPlace
<1>3. Copies(Cat(a, b), sent[s])
  <2>1. touched[s] \subseteq {"edit"}
    BY DEF Moves
  <2> QED BY <1>2, <2>1, Zenon DEF InPlace
<1>4. Stays(s) \/ Writes(s) \/ Passes(s) \/ Edits(s)
  BY DEF Moves, Injects, Resizes
<1>5. CASE Stays(s)
  BY <1>3, <1>5, Zenon DEF Stays
<1>6. CASE Writes(s)
  <2>1. PICK k \in MsgSizes :
           /\ b' = Cat(b, Message(s, Len(sent[s]) + 1, k))
           /\ sent'[s] = Cat(sent[s], Message(s, Len(sent[s]) + 1, k))
    BY <1>6, Zenon DEF Writes
  <2>2. a' = a
    BY <1>6, Zenon DEF Writes
  <2> DEFINE m == Message(s, Len(sent[s]) + 1, k)
  <2>3. m \in Seq(Word)
    <3>1. Len(sent[s]) + 1 \in Nat /\ k \in Nat
      BY <1>1, LenProperties, RelayAssumption
    <3> QED BY <3>1, MessageType
  <2>4. b' = Cat(b, m) /\ sent'[s] = Cat(sent[s], m)
    BY <2>1
  <2> HIDE DEF a, b, m
  <2>5. Cat(a, b) \in Seq(Word) /\ Cat(Cat(a, b), m) = Cat(a, Cat(b, m))
    BY <1>1, <2>3, CatType, CatAssoc
  <2>6. Copies(Cat(Cat(a, b), m), Cat(sent[s], m))
    BY <1>1, <1>3, <2>3, <2>5, WriteInPlace
  <2> QED BY <2>2, <2>4, <2>5, <2>6, Zenon
<1>7. CASE Passes(s)
  <2>1. PICK m \in Seq(Word) : Takes(s, m) /\ a' = Cat(a, m)
    BY <1>7, Zenon DEF Passes
  <2>2. b = Cat(m, b') /\ sent'[s] = sent[s]
    BY <2>1, Zenon DEF Takes
  <2> HIDE DEF a, b
  <2>3. Cat(Cat(a, m), b') = Cat(a, Cat(m, b'))
    BY <1>1, CatAssoc
  <2> QED BY <1>3, <2>1, <2>2, <2>3, Zenon
<1>8. CASE Edits(s)
  <2>1. PICK m \in Seq(Word) : Takes(s, m) /\ a' = Cat(a, Marked(m))
    BY <1>8, Zenon DEF Edits
  <2>2. b = Cat(m, b') /\ sent'[s] = sent[s]
    BY <2>1, Zenon DEF Takes
  <2> HIDE DEF a, b
  <2>3. Cat(Cat(a, m), b') = Cat(a, Cat(m, b'))
    BY <1>1, CatAssoc
  <2>4. Copies(Cat(Cat(a, m), b'), sent[s])
    BY <1>3, <2>2, <2>3, Zenon
  <2>5. Copies(Cat(Cat(a, Marked(m)), b'), sent[s])
    BY <1>1, <2>4, MarkInPlace
  <2> QED BY <2>1, <2>2, <2>5, Zenon
<1> QED BY <1>4, <1>5, <1>6, <1>7, <1>8

\* The line is empty when the connection is made.
LEMMA InitLine ==
    ASSUME Init, NEW s \in Side
    PROVE  Line(s) = <<>> /\ sent[s] = <<>>
<1>1. Cat(<<>>, <<>>) = <<>>
  BY EmptySeq, CatEmpty
<1>2. Ahead(Other(s)) = <<>> /\ Behind(s) = <<>>
  BY <1>1, SideFacts DEF Init, Ahead, Behind, Todo
<1>3. Typing
  BY InitHolds DEF IInv
<1>4. Line(s) = Cat(Ahead(Other(s)), Behind(s))
  BY <1>3, StreamParts
<1> QED BY <1>1, <1>2, <1>4 DEF Init

InPlaces == \A s \in Side : InPlace(s)

\* Edits that keep the size of a message change that message and nothing else,
\* wherever its words are by now.
THEOREM EditsStayInPlace == Spec => []EditInPlace
<1>1. Init => InPlaces
  <2>1. ASSUME Init, NEW s \in Side PROVE InPlace(s)
    <3>1. Line(s) = <<>> /\ sent[s] = <<>>
      BY <2>1, InitLine
    <3>2. Copies(<<>>, <<>>)
      BY EmptySeq DEF Copies
    <3> QED BY <3>1, <3>2, Zenon DEF InPlace
  <2> QED BY <2>1 DEF InPlaces
<1>2. IInv /\ IInv' /\ InPlaces /\ [Next]_vars => InPlaces'
  <2>1. ASSUME IInv, IInv', InPlaces, [Next]_vars, NEW s \in Side
        PROVE  InPlace(s)'
    <3>1. Moves(s) /\ InPlace(s)
      BY <2>1, StepMoves DEF InPlaces
    <3> QED BY <2>1, <3>1, InPlaceHolds
  <2> QED BY <2>1 DEF InPlaces
<1>3. InPlaces => EditInPlace
  <2>1. ASSUME InPlaces, NEW s \in Side, touched[s] \subseteq {"edit"}
        PROVE  Copies(Line(s), sent[s])
    BY <2>1, Zenon DEF InPlaces, InPlace
  <2> QED BY <2>1 DEF EditInPlace, Copies, Edition
<1> QED BY <1>1, <1>2, <1>3, Invariance, PTL DEF Spec

-----------------------------------------------------------------------------
(* Injected messages. *)

\* Where a word stands in what its peer sent.
Spot(w) == w.at + w.idx - 1

\* Keeps, in these words.
LEMMA KeepsIs ==
    ASSUME NEW q, NEW r
    PROVE  Keeps(q, r) <=>
              /\ \A i \in 1 .. Len(q) : q[i].src # "user" =>
                    Spot(q[i]) \in 1 .. Len(r) /\ r[Spot(q[i])] = q[i]
              /\ \A i, j \in 1 .. Len(q) :
                    q[i].src # "user" /\ q[j].src # "user" /\ i < j =>
                       Spot(q[i]) < Spot(q[j])
              /\ \A k \in 1 .. Len(r) : \E i \in 1 .. Len(q) :
                    q[i].src # "user" /\ Spot(q[i]) = k
BY DEF Keeps, Spot

\* A message written comes behind on both.
LEMMA WriteKeeps ==
    ASSUME NEW q \in Seq(Word), NEW r \in Seq(Word), NEW k \in Nat, NEW s \in Side,
           Keeps(q, r)
    PROVE  Keeps(Cat(q, Message(s, Len(r) + 1, k)), Cat(r, Message(s, Len(r) + 1, k)))
<1> DEFINE m == Message(s, Len(r) + 1, k)
           c == Cat(q, m)
           d == Cat(r, m)
           n == Len(q)
           l == Len(r)
<1>1. n \in Nat /\ l \in Nat /\ m \in Seq(Word) /\ Len(m) = k
  <2>1. n \in Nat /\ l \in Nat /\ l + 1 \in Nat
    BY LenProperties
  <2> QED BY <2>1, MessageType
<1>2. \A i \in 1 .. k : m[i].src # "user" /\ Spot(m[i]) = l + i
  <2>1. "user" # s
    BY DEF Side
  <2> DEFINE at == l + 1
  <2>5. l \in Nat /\ at = l + 1 /\ at \in Nat /\ s \in Side \cup {"user"}
    BY <1>1
  <2>3. \A i \in 1 .. k : m[i].src = s /\ m[i].at = at /\ m[i].idx = i
    BY <2>5, MessageWords
  <2> HIDE DEF m, n, l, at
  <2>4. ASSUME NEW i \in 1 .. k PROVE m[i].at + m[i].idx - 1 = l + i
    <3>1. at + i - 1 = l + i
      BY <2>5
    <3> QED BY <2>3, <3>1, Zenon
  <2> QED BY <2>1, <2>3, <2>4 DEF Spot
<1>3. /\ \A i \in 1 .. n : q[i].src # "user" => Spot(q[i]) \in 1 .. l /\ r[Spot(q[i])] = q[i]
      /\ \A i, j \in 1 .. n : q[i].src # "user" /\ q[j].src # "user" /\ i < j =>
                                 Spot(q[i]) < Spot(q[j])
      /\ \A h \in 1 .. l : \E i \in 1 .. n : q[i].src # "user" /\ Spot(q[i]) = h
  BY KeepsIs
<1> HIDE DEF m
<1>4. /\ Len(c) = n + k
      /\ \A i \in 1 .. n : c[i] = q[i]
      /\ \A i \in 1 .. k : c[n + i] = m[i]
  BY <1>1, CatWords
<1>5. /\ Len(d) = l + k
      /\ \A i \in 1 .. l : d[i] = r[i]
      /\ \A i \in 1 .. k : d[l + i] = m[i]
  BY <1>1, CatWords
<1> HIDE DEF c, d, n, l
<1>6. \A i \in 1 .. n + k : \/ i \in 1 .. n /\ c[i] = q[i]
                            \/ /\ i - n \in 1 .. k /\ i > n
                               /\ c[i] = m[i - n]
                               /\ c[i].src # "user" /\ Spot(c[i]) = l + (i - n)
  <2> SUFFICES ASSUME NEW i \in 1 .. n + k, i > n
               PROVE  /\ i - n \in 1 .. k /\ c[i] = m[i - n]
                      /\ c[i].src # "user" /\ Spot(c[i]) = l + (i - n)
    BY <1>1, <1>4
  <2>1. i - n \in 1 .. k /\ n + (i - n) = i
    BY <1>1
  <2>2. c[n + (i - n)] = m[i - n]
    BY <1>4, <2>1
  <2>3. m[i - n].src # "user" /\ Spot(m[i - n]) = l + (i - n)
    BY <1>2, <2>1
  <2> QED BY <2>1, <2>2, <2>3
<1>7. ASSUME NEW i \in 1 .. n + k, c[i].src # "user"
      PROVE  Spot(c[i]) \in 1 .. l + k /\ d[Spot(c[i])] = c[i]
  <2>1. CASE i \in 1 .. n /\ c[i] = q[i]
    BY <1>1, <1>3, <1>5, <1>7, <2>1
  <2>2. CASE i - n \in 1 .. k /\ c[i] = m[i - n] /\ Spot(c[i]) = l + (i - n)
    BY <1>1, <1>5, <2>2
  <2> QED BY <1>6, <2>1, <2>2
<1>8. ASSUME NEW i \in 1 .. n + k, NEW j \in 1 .. n + k,
             c[i].src # "user", c[j].src # "user", i < j
      PROVE  Spot(c[i]) < Spot(c[j])
  <2>1. CASE j \in 1 .. n /\ c[j] = q[j]
    <3>1. i \in 1 .. n /\ c[i] = q[i]
      BY <1>1, <1>4, <1>8, <2>1
    <3> QED BY <1>3, <1>8, <2>1, <3>1
  <2>2. CASE j - n \in 1 .. k /\ j > n /\ Spot(c[j]) = l + (j - n)
    <3>1. CASE i \in 1 .. n /\ c[i] = q[i]
      <4>1. Spot(c[i]) \in 1 .. l
        BY <1>3, <1>8, <3>1
      <4> QED BY <1>1, <2>2, <4>1
    <3>2. CASE Spot(c[i]) = l + (i - n)
      BY <1>1, <1>8, <2>2, <3>2
    <3> QED BY <1>6, <3>1, <3>2
  <2> QED BY <1>6, <2>1, <2>2
<1>9. ASSUME NEW h \in 1 .. l + k
      PROVE  \E i \in 1 .. n + k : c[i].src # "user" /\ Spot(c[i]) = h
  <2>1. CASE h \in 1 .. l
    <3>1. PICK i \in 1 .. n : q[i].src # "user" /\ Spot(q[i]) = h
      BY <1>3, <2>1
    <3>2. i \in 1 .. n + k /\ c[i] = q[i]
      BY <1>1, <1>4
    <3> QED BY <3>1, <3>2
  <2>2. CASE h > l
    <3>1. h - l \in 1 .. k /\ n + (h - l) \in 1 .. n + k /\ l + (h - l) = h
      BY <1>1, <2>2
    <3>2. c[n + (h - l)].src # "user" /\ Spot(c[n + (h - l)]) = h
      BY <1>2, <1>4, <3>1
    <3> QED BY <3>1, <3>2
  <2> QED BY <1>1, <2>1, <2>2
<1>10. Keeps(c, d)
  BY <1>4, <1>5, <1>7, <1>8, <1>9, KeepsIs
<1> QED BY <1>10 DEF c, d, m, l

\* Words of the user in between change nothing.
LEMMA InjectKeeps ==
    ASSUME NEW a \in Seq(Word), NEW m \in Seq(Word), NEW b \in Seq(Word), NEW r,
           \A i \in 1 .. Len(m) : m[i].src = "user", Keeps(Cat(a, b), r)
    PROVE  Keeps(Cat(Cat(a, m), b), r)
<1> DEFINE c == Cat(Cat(a, m), b)
           d == Cat(a, b)
           la == Len(a)
           lm == Len(m)
           lb == Len(b)
<1>1. /\ la \in Nat /\ lm \in Nat /\ lb \in Nat
      /\ Len(c) = la + lm + lb
      /\ \A i \in 1 .. la : c[i] = a[i]
      /\ \A i \in 1 .. lm : c[la + i] = m[i]
      /\ \A i \in 1 .. lb : c[la + lm + i] = b[i]
  <2>1. InARow(c, a, m, b)
    BY CatInARow
  <2> HIDE DEF c
  <2> QED BY <2>1, Zenon DEF InARow
<1>2. /\ Len(d) = la + lb
      /\ \A i \in 1 .. la : d[i] = a[i]
      /\ \A i \in 1 .. lb : d[la + i] = b[i]
  BY CatWords
<1>3. /\ \A i \in 1 .. Len(d) : d[i].src # "user" =>
            Spot(d[i]) \in 1 .. Len(r) /\ r[Spot(d[i])] = d[i]
      /\ \A i, j \in 1 .. Len(d) : d[i].src # "user" /\ d[j].src # "user" /\ i < j =>
                                      Spot(d[i]) < Spot(d[j])
      /\ \A h \in 1 .. Len(r) : \E i \in 1 .. Len(d) :
                                     d[i].src # "user" /\ Spot(d[i]) = h
  BY KeepsIs
<1>4. \A i \in 1 .. lm : m[i].src = "user"
  OBVIOUS
<1> HIDE DEF c, d, la, lm, lb
\* back(i): where in d the word c[i] stands.
<1> DEFINE back(i) == IF i <= la THEN i ELSE i - lm
<1>5. ASSUME NEW i \in 1 .. Len(c), c[i].src # "user"
      PROVE  /\ back(i) \in 1 .. Len(d) /\ d[back(i)] = c[i]
             /\ i <= la \/ i > la + lm
  <2>1. CASE i <= la
    BY <1>1, <1>2, <2>1
  <2>2. CASE i > la /\ i <= la + lm
    <3> DEFINE j == i - la
    <3>1. j \in 1 .. lm /\ la + j = i
      BY <1>1, <2>2
    <3> HIDE DEF j
    <3>2. c[i] = m[j] /\ m[j].src = "user"
      BY <1>1, <1>4, <3>1
    <3> QED BY <1>5, <3>2
  <2>3. CASE i > la + lm
    <3> DEFINE j == i - (la + lm)
    <3>1. j \in 1 .. lb /\ la + lm + j = i /\ la + j = i - lm /\ ~(i <= la)
      BY <1>1, <2>3
    <3> HIDE DEF j
    <3>2. c[i] = b[j] /\ d[i - lm] = b[j]
      BY <1>1, <1>2, <3>1
    <3>3. i - lm \in 1 .. Len(d)
      BY <1>1, <1>2, <2>3
    <3> QED BY <2>3, <3>1, <3>2, <3>3
  <2> QED BY <1>1, <2>1, <2>2, <2>3
<1>6. ASSUME NEW i \in 1 .. Len(d)
      PROVE  \E j \in 1 .. Len(c) : c[j] = d[i]
  <2>1. CASE i <= la
    BY <1>1, <1>2, <2>1
  <2>2. CASE i > la
    <3> DEFINE j == i - la
    <3>1. j \in 1 .. lb /\ la + j = i /\ la + lm + j \in 1 .. Len(c)
      BY <1>1, <1>2, <2>2
    <3> HIDE DEF j
    <3>2. c[la + lm + j] = b[j] /\ d[i] = b[j]
      BY <1>1, <1>2, <3>1
    <3> QED BY <3>1, <3>2
  <2> QED BY <1>1, <2>1, <2>2
<1>7. ASSUME NEW i \in 1 .. Len(c), c[i].src # "user"
      PROVE  Spot(c[i]) \in 1 .. Len(r) /\ r[Spot(c[i])] = c[i]
  BY <1>3, <1>5, <1>7
<1>8. ASSUME NEW i \in 1 .. Len(c), NEW j \in 1 .. Len(c),
             c[i].src # "user", c[j].src # "user", i < j
      PROVE  Spot(c[i]) < Spot(c[j])
  <2>1. /\ back(i) \in 1 .. Len(d) /\ d[back(i)] = c[i] /\ (i <= la \/ i > la + lm)
        /\ back(j) \in 1 .. Len(d) /\ d[back(j)] = c[j] /\ (j <= la \/ j > la + lm)
    BY <1>5, <1>8
  <2>2. back(i) < back(j)
    BY <1>1, <1>8, <2>1
  <2> HIDE DEF back
  <2>3. PICK u \in 1 .. Len(d), v \in 1 .. Len(d) : u = back(i) /\ v = back(j)
    BY <2>1
  <2>4. d[u] = c[i] /\ d[v] = c[j] /\ u < v
    BY <2>1, <2>2, <2>3
  <2>5. Spot(d[u]) < Spot(d[v])
    BY <1>3, <1>8, <2>4
  <2> QED BY <2>4, <2>5
<1>9. ASSUME NEW h \in 1 .. Len(r)
      PROVE  \E i \in 1 .. Len(c) : c[i].src # "user" /\ Spot(c[i]) = h
  <2>1. PICK i \in 1 .. Len(d) : d[i].src # "user" /\ Spot(d[i]) = h
    BY <1>3
  <2>2. PICK j \in 1 .. Len(c) : c[j] = d[i]
    BY <1>6
  <2> QED BY <2>1, <2>2
<1>10. Keeps(c, r)
  BY <1>7, <1>8, <1>9, KeepsIs
<1> QED BY <1>10 DEF c

Kept(s) == touched[s] \subseteq {"send"} => Keeps(Line(s), sent[s])

\* However a stream moves that was only sent into, what its peer sent is all there.
LEMMA KeptHolds ==
    ASSUME IInv, IInv', NEW s \in Side, Kept(s), Moves(s)
    PROVE  Kept(s)'
<1> DEFINE a == Ahead(Other(s))
           b == Behind(s)
<1>1. /\ a \in Seq(Word) /\ b \in Seq(Word) /\ sent[s] \in Seq(Word)
      /\ a' \in Seq(Word) /\ b' \in Seq(Word)
  BY StreamParts, PartsNext DEF IInv, Typing
<1>2. Line(s) = Cat(a, b) /\ Line(s)' = Cat(a', b')
  BY StreamParts, LineNext DEF IInv
<1> SUFFICES ASSUME touched'[s] \subseteq {"send"}
             PROVE  Keeps(Cat(a', b'), sent'[s])
  BY <1>2, Zenon DEF Kept
<1>3. Keeps(Cat(a, b), sent[s])
  <2>1. touched[s] \subseteq {"send"}
    BY DEF Moves
  <2> QED BY <1>2, <2>1, Zenon DEF Kept
<1>4. Stays(s) \/ Writes(s) \/ Passes(s) \/ Injects(s)
  BY DEF Moves, Edits, Resizes
<1>5. CASE Stays(s)
  BY <1>3, <1>5, Zenon DEF Stays
<1>6. CASE Writes(s)
  <2> DEFINE m(k) == Message(s, Len(sent[s]) + 1, k)
  <2>1. PICK k \in MsgSizes : b' = Cat(b, m(k)) /\ sent'[s] = Cat(sent[s], m(k))
    BY <1>6, Zenon DEF Writes
  <2>2. a' = a
    BY <1>6, Zenon DEF Writes
  <2>3. m(k) \in Seq(Word) /\ k \in Nat
    <3>1. Len(sent[s]) + 1 \in Nat /\ k \in Nat
      BY <1>1, LenProperties, RelayAssumption
    <3> QED BY <3>1, MessageType
  <2> HIDE DEF a, b
  <2>4. Cat(a, b) \in Seq(Word)
    BY <1>1, CatType
  <2>5. Keeps(Cat(Cat(a, b), m(k)), Cat(sent[s], m(k)))
    BY <1>1, <1>3, <2>3, <2>4, WriteKeeps
  <2> HIDE DEF m
  <2>6. Cat(Cat(a, b), m(k)) = Cat(a, Cat(b, m(k)))
    BY <1>1, <2>3, CatAssoc
  <2> QED BY <2>1, <2>2, <2>5, <2>6, Zenon
<1>7. CASE Passes(s)
  <2>1. PICK m \in Seq(Word) : Takes(s, m) /\ a' = Cat(a, m)
    BY <1>7, Zenon DEF Passes
  <2>2. b = Cat(m, b') /\ sent'[s] = sent[s]
    BY <2>1, Zenon DEF Takes
  <2> HIDE DEF a, b
  <2>3. Cat(Cat(a, m), b') = Cat(a, Cat(m, b'))
    BY <1>1, CatAssoc
  <2> QED BY <1>3, <2>1, <2>2, <2>3, Zenon
<1>8. CASE Injects(s)
  <2>1. PICK n \in Nat, k \in Nat : a' = Cat(a, Message("user", n, k))
    BY <1>8, Zenon DEF Injects
  <2>2. b' = b /\ sent'[s] = sent[s]
    BY <1>8, Zenon DEF Injects
  <2> DEFINE m == Message("user", n, k)
  <2>3. m \in Seq(Word) /\ Len(m) = k
    BY MessageType
  <2>4. \A i \in 1 .. k : m[i].src = "user"
    BY DEF Message
  <2> HIDE DEF a, b, m
  <2>5. Keeps(Cat(Cat(a, m), b), sent[s])
    BY <1>1, <1>3, <2>3, <2>4, InjectKeeps
  <2> QED BY <2>1, <2>2, <2>5, Zenon DEF m
<1> QED BY <1>4, <1>5, <1>6, <1>7, <1>8

Keepings == \A s \in Side : Kept(s)

\* Injected messages only ever come on top: the words of the peer are all there,
\* each once, in the order it sent them, whatever is cut short on the way.
THEOREM SendsKeepStreams == Spec => []SendKeepsStream
<1>1. Init => Keepings
  <2>1. ASSUME Init, NEW s \in Side PROVE Kept(s)
    <3>1. Line(s) = <<>> /\ sent[s] = <<>>
      BY <2>1, InitLine
    <3>2. Keeps(<<>>, <<>>)
      BY EmptySeq, KeepsIs
    <3> QED BY <3>1, <3>2, Zenon DEF Kept
  <2> QED BY <2>1 DEF Keepings
<1>2. IInv /\ IInv' /\ Keepings /\ [Next]_vars => Keepings'
  <2>1. ASSUME IInv, IInv', Keepings, [Next]_vars, NEW s \in Side
        PROVE  Kept(s)'
    <3>1. Moves(s) /\ Kept(s)
      BY <2>1, StepMoves DEF Keepings
    <3> QED BY <2>1, <3>1, KeptHolds
  <2> QED BY <2>1 DEF Keepings
<1>3. Keepings => SendKeepsStream
  BY Zenon DEF Keepings, Kept, SendKeepsStream
<1> QED BY <1>1, <1>2, <1>3, Invariance, PTL DEF Spec
=============================================================================
