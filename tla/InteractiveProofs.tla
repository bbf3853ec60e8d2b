------------------------- MODULE InteractiveProofs -------------------------
(***************************************************************************)
(* Proofs about Interactive, for every set of messages and commands, every *)
(* pipeline and every bound.  Three arguments that hardly touch:           *)
(*                                                                         *)
(*   - the lists: what is inserted has an id that is counted up, and what  *)
(*     is deleted leaves the others as they were;                          *)
(*   - the loop: the cursor splits the autocmds into those that have run   *)
(*     if they were due and those that have not, and no command moves an   *)
(*     autocmd from one side to the other;                                 *)
(*   - the stop flag: at every moment it is set exactly if a stop has been *)
(*     asked for since the last prompt or a breakpoint was hit by the      *)
(*     message in the pass, which then is not skipped.                     *)
(***************************************************************************)
EXTENDS Interactive, SequenceTheorems, WellFoundedInduction, TLAPS

\* Why the stop flag is set, and that a message gone has left it to others.
StopHasReason ==
    /\ arrival.broke \in BOOLEAN
    /\ stop <=> (asked \/ arrival.broke)
    /\ skip => ~arrival.broke
    /\ phase \in {"idle", "query"} => ~arrival.broke
    /\ phase \in {"confirm", "discard", "stuck"} /\ asker = "query" => ~arrival.broke

\* What TypeOK and UniqueIds say of the lists, of the flags and of the rest.
ListsOK ==
    /\ DOMAIN lists = Kind /\ nextId \in [Kind -> Nat]
    /\ \A k \in Kind :
          /\ lists[k] \in Seq(Range(lists[k]))
          /\ Ids(lists[k]) \subseteq 0 .. nextId[k] - 1 /\ nextId[k] <= MaxIds[k]
    /\ UniqueIds

Flags == {stop, seen, exit, connected, skip, asked} \subseteq BOOLEAN

Rest ==
    /\ phase \in Phase
    /\ message \in Messages \cup {"none"}
    /\ cursor \in 0 .. AtEnd
    /\ asker \in {"query", "autocmds"}

IInv == ListsOK /\ Flags /\ Rest /\ StopHasReason

\* The loop is at place p of the autocmds: those in front of it that were due
\* have run, those from it on have not.
LoopAt(p) ==
    LET l == lists["autocmds"]
    IN  /\ p \in 1 .. Len(l) /\ l[p].id = cursor
        /\ \A i \in 1 .. p - 1 : l[i].id \in arrival.due => l[i].id \in Range(ran)
        /\ \A i \in p .. Len(l) : l[i].id \notin Range(ran)

\* The loop is through.
LoopEnded ==
    /\ cursor = AtEnd
    /\ \A x \in Ids(lists["autocmds"]) \cap arrival.due : x \in Range(ran)

\* Nothing is due between two messages.
LoopOff ==
    phase \in {"idle", "query"} \/ (phase \in {"confirm", "discard", "stuck"} /\ asker = "query")
       => cursor = AtEnd /\ arrival.due = {}

\* Ids that are due or have run were given out, and each due one is the id of
\* an autocmd that matches the message.
LoopIds ==
    /\ arrival.due \subseteq 0 .. nextId["autocmds"] - 1
    /\ ran \in Seq(0 .. nextId["autocmds"] - 1)
    /\ IsInjective(ran)
    /\ \A i \in 1 .. Len(lists["autocmds"]) :
          lists["autocmds"][i].id \in arrival.due => message \in lists["autocmds"][i].re

LInv ==
    /\ LoopIds /\ LoopOff
    /\ phase \notin {"left", "undefined"} => LoopEnded \/ \E p \in Nat : LoopAt(p)

LEMMA IInvImplies == IInv => TypeOK /\ UniqueIds
BY Zenon DEF IInv, TypeOK, ListsOK, Flags, Rest

-----------------------------------------------------------------------------
(* The lists. *)

\* The least of some natural numbers is one of them.
LEMMA MinIsIn ==
    ASSUME NEW S \in SUBSET Nat, S # {}
    PROVE  Min(S) \in S
<1> DEFINE R == {ss \in Nat \X Nat : ss[1] < ss[2]}
<1>1. IsWellFoundedOn(R, Nat)
  BY NatLessThanWellFounded, Zenon DEF OpToRel
<1>2. PICK x \in S : \A y \in S : ~(<<y, x>> \in R)
  <2> HIDE DEF R
  <2> QED BY <1>1, WFMin
<1>3. ASSUME NEW y \in S PROVE x <= y
  <2>1. y \in Nat /\ x \in Nat
    OBVIOUS
  <2>2. y < x => <<y, x>> \in R
    BY <2>1
  <2> HIDE DEF R
  <2>3. ~(y < x)
    BY <1>2, <2>2
  <2> QED BY <2>1, <2>3
<1> QED BY <1>3 DEF Min

\* A list is a sequence: what SMT needs to count its elements.
LEMMA ListLen ==
    ASSUME NEW l, l \in Seq(Range(l))
    PROVE  /\ Len(l) \in Nat
           /\ DOMAIN l = 1 .. Len(l)
           /\ \A i \in 1 .. Len(l) : l[i] \in Range(l)
           /\ \A i \in 1 .. Len(l) : l[i].id \in Ids(l)
BY LenProperties DEF Range, Ids

\* A sequence over any set is one over its range.
LEMMA IsList ==
    ASSUME NEW S, NEW l \in Seq(S)
    PROVE  l \in Seq(Range(l))
BY DEF Range

\* Insert puts x somewhere and leaves the others in their order.
LEMMA Inserting ==
    ASSUME NEW l, l \in Seq(Range(l)), NEW x
    PROVE  /\ Insert(l, x) \in Seq(Range(Insert(l, x)))
           /\ Len(Insert(l, x)) = Len(l) + 1
           /\ \E p \in 1 .. Len(l) + 1 : \A i \in 1 .. Len(l) + 1 :
                 Insert(l, x)[i] = IF i = p THEN x ELSE l[IF i < p THEN i ELSE i - 1]
<1> DEFINE S == Range(l) \cup {x}
<1>1. l \in Seq(S)
  BY SeqMonotonic
<1>2. CASE l = <<>>
  <2>1. Insert(l, x) = <<x>>
    BY <1>2 DEF Insert
  <2>2. Insert(l, x) \in Seq(S) /\ Len(Insert(l, x)) = 1 /\ Insert(l, x)[1] = x /\ Len(l) = 0
    BY <2>1, <1>2
  <2>3. \A i \in 1 .. Len(l) + 1 :
           Insert(l, x)[i] = IF i = 1 THEN x ELSE l[IF i < 1 THEN i ELSE i - 1]
    BY <2>2
  <2> HIDE DEF S
  <2>4. Insert(l, x) \in Seq(Range(Insert(l, x)))
    BY <2>2, IsList
  <2> QED BY <2>2, <2>3, <2>4
<1>3. CASE l # <<>>
  <2>1. Insert(l, x) = <<Head(l), x>> \o Tail(l)
    BY <1>3 DEF Insert
  <2>2. /\ Head(l) \in S /\ Head(l) = l[1]
        /\ Tail(l) \in Seq(S)
        /\ Len(Tail(l)) = Len(l) - 1 /\ Len(l) \in Nat \ {0}
        /\ \A i \in 1 .. Len(Tail(l)) : Tail(l)[i] = l[i + 1]
    BY <1>1, <1>3, HeadTailProperties, LenProperties, EmptySeq
  <2>3. <<Head(l), x>> \in Seq(S) /\ Len(<<Head(l), x>>) = 2
    BY <2>2
  <2>4. /\ Insert(l, x) \in Seq(S)
        /\ Len(Insert(l, x)) = 2 + Len(Tail(l))
        /\ \A i \in 1 .. 2 + Len(Tail(l)) : Insert(l, x)[i] =
              IF i <= 2 THEN <<Head(l), x>>[i] ELSE Tail(l)[i - 2]
    BY <2>1, <2>2, <2>3, ConcatProperties
  <2>5. \A i \in 1 .. Len(l) + 1 :
           Insert(l, x)[i] = IF i = 2 THEN x ELSE l[IF i < 2 THEN i ELSE i - 1]
    BY <2>2, <2>4
  <2> HIDE DEF S
  <2>6. Insert(l, x) \in Seq(Range(Insert(l, x)))
    BY <2>4, IsList
  <2>7. Len(Insert(l, x)) = Len(l) + 1 /\ 2 \in 1 .. Len(l) + 1
    BY <2>2, <2>4
  <2> QED BY <2>5, <2>6, <2>7
<1> QED BY <1>2, <1>3

\* RemoveAt takes the element at p away and leaves the others in their order.
LEMMA Removing ==
    ASSUME NEW l, l \in Seq(Range(l)), NEW p \in 1 .. Len(l)
    PROVE  /\ RemoveAt(l, p) \in Seq(Range(RemoveAt(l, p)))
           /\ Len(RemoveAt(l, p)) = Len(l) - 1
           /\ \A i \in 1 .. Len(l) - 1 :
                 RemoveAt(l, p)[i] = l[IF i < p THEN i ELSE i + 1]
<1> DEFINE a == SubSeq(l, 1, p - 1)
           b == SubSeq(l, p + 1, Len(l))
           S == Range(l)
<1>1. Len(l) \in Nat /\ \A i \in 1 .. Len(l) : l[i] \in S
  BY ListLen
<1>2. /\ a \in Seq(S) /\ Len(a) = p - 1
      /\ \A i \in 1 .. p - 1 : a[i] = l[i]
  BY <1>1, SubSeqProperties
<1>3. /\ b \in Seq(S) /\ Len(b) = Len(l) - p
      /\ \A i \in 1 .. Len(l) - p : b[i] = l[p + i]
  <2>1. \A i \in p + 1 .. Len(l) : l[i] \in S
    BY <1>1
  <2> QED BY <1>1, <2>1, SubSeqProperties
<1> HIDE DEF a, b
<1>4. /\ a \o b \in Seq(S)
      /\ Len(a \o b) = Len(l) - 1
      /\ \A i \in 1 .. Len(l) - 1 : (a \o b)[i] = IF i <= p - 1 THEN a[i] ELSE b[i - (p - 1)]
  BY <1>1, <1>2, <1>3, ConcatProperties
<1>5. \A i \in 1 .. Len(l) - 1 : (a \o b)[i] = l[IF i < p THEN i ELSE i + 1]
  BY <1>1, <1>2, <1>3, <1>4
<1>6. RemoveAt(l, p) = a \o b
  BY DEF RemoveAt, a, b
<1> QED BY <1>4, <1>5, <1>6, IsList

\* Where an id of the list is found.
LEMMA Selected ==
    ASSUME NEW l, l \in Seq(Range(l)), NEW id, id \in Ids(l)
    PROVE  Min({i \in 1 .. Len(l) : l[i].id = id}) \in {i \in 1 .. Len(l) : l[i].id = id}
<1>1. {i \in 1 .. Len(l) : l[i].id = id} # {}
  BY ListLen DEF Ids
<1>2. {i \in 1 .. Len(l) : l[i].id = id} \in SUBSET Nat
  BY ListLen
<1> QED BY <1>1, <1>2, MinIsIn

\* create_filter, create_breakpoint and create_autocmd: the new id is above all
\* that the list has.
LEMMA Creating ==
    ASSUME ListsOK, NEW kind \in Kind, NEW entry, Create(kind, entry)
    PROVE  ListsOK'
<1>1. CASE nextId[kind] >= MaxIds[kind]
  BY <1>1 DEF Create, ListsOK, UniqueIds
<1>2. CASE ~(nextId[kind] >= MaxIds[kind])
  <2> DEFINE l == lists[kind]
             x == Numbered(entry, nextId[kind])
             new == Insert(l, x)
  <2>1. /\ lists' = [lists EXCEPT ![kind] = new]
        /\ nextId' = [nextId EXCEPT ![kind] = @ + 1]
    BY <1>2 DEF Create
  <2>2. x.id = nextId[kind]
    BY DEF Numbered
  <2>3. /\ l \in Seq(Range(l)) /\ Ids(l) \subseteq 0 .. nextId[kind] - 1
        /\ \A i, j \in DOMAIN l : l[i].id = l[j].id => i = j
        /\ nextId[kind] \in Nat /\ MaxIds[kind] \in Nat
    BY InteractiveAssumption DEF ListsOK, UniqueIds, Kind
  <2> HIDE DEF l, x
  <2>4. PICK p \in 1 .. Len(l) + 1 : \A i \in 1 .. Len(l) + 1 :
               new[i] = IF i = p THEN x ELSE l[IF i < p THEN i ELSE i - 1]
    BY <2>3, Inserting
  <2>5. new \in Seq(Range(new)) /\ Len(new) = Len(l) + 1 /\ Len(l) \in Nat
    BY <2>3, Inserting, ListLen
  <2>6. DOMAIN new = 1 .. Len(l) + 1
    BY <2>5, ListLen
  <2>7. /\ DOMAIN l = 1 .. Len(l)
        /\ \A i \in 1 .. Len(l) : l[i].id \in 0 .. nextId[kind] - 1
    BY <2>3, ListLen
  <2> HIDE DEF new
  <2>8. \A i \in 1 .. Len(l) + 1 : new[i].id \in 0 .. nextId[kind]
    <3> SUFFICES ASSUME NEW i \in 1 .. Len(l) + 1 PROVE new[i].id \in 0 .. nextId[kind]
      OBVIOUS
    <3>1. CASE i = p
      BY <3>1, <2>2, <2>3, <2>4
    <3>2. CASE i < p
      BY <3>2, <2>3, <2>4, <2>5, <2>7
    <3>3. CASE i > p
      BY <3>3, <2>3, <2>4, <2>5, <2>7
    <3> QED BY <3>1, <3>2, <3>3, <2>5
  <2>9. ASSUME NEW i \in 1 .. Len(l) + 1, NEW j \in 1 .. Len(l) + 1, new[i].id = new[j].id
        PROVE  i = j
    <3>1. CASE i = p \/ j = p
      <4>1. ASSUME NEW k \in 1 .. Len(l) + 1, k # p PROVE new[k].id < nextId[kind]
        <5>1. PICK o \in 1 .. Len(l) : new[k] = l[o]
          <6>1. CASE k < p
            BY <2>4, <2>5, <4>1, <6>1
          <6>2. CASE k > p
            <7>1. new[k] = l[k - 1] /\ k - 1 \in 1 .. Len(l)
              BY <2>4, <2>5, <4>1, <6>2
            <7> QED BY <7>1
          <6> QED BY <2>5, <4>1, <6>1, <6>2
        <5>2. l[o].id \in 0 .. nextId[kind] - 1
          BY <2>7
        <5> QED BY <2>3, <5>1, <5>2
      <4> QED BY <4>1, <3>1, <2>2, <2>3, <2>4, <2>9
    <3>2. CASE i # p /\ j # p
      <4> DEFINE at(k) == IF k < p THEN k ELSE k - 1
      <4>1. at(i) \in DOMAIN l /\ at(j) \in DOMAIN l
        BY <3>2, <2>5, <2>7
      <4>2. l[at(i)].id = l[at(j)].id
        BY <3>2, <2>4, <2>9
      <4>3. at(i) = at(j)
        <5> HIDE DEF at
        <5> QED BY <4>1, <4>2, <2>3
      <4> QED BY <4>3, <3>2, <2>5
    <3> QED BY <3>1, <3>2
  <2>10. Ids(new) \subseteq 0 .. nextId[kind]
    BY <2>6, <2>8 DEF Ids
  <2>11. lists'[kind] = new /\ nextId'[kind] = nextId[kind] + 1
    BY <2>1 DEF ListsOK
  <2>12. \A k \in Kind \ {kind} : lists'[k] = lists[k] /\ nextId'[k] = nextId[k]
    BY <2>1 DEF ListsOK
  <2>13. DOMAIN lists' = Kind /\ nextId' \in [Kind -> Nat]
    BY <2>1, <2>3 DEF ListsOK
  <2>14. \A k \in Kind :
           /\ lists'[k] \in Seq(Range(lists'[k]))
           /\ Ids(lists'[k]) \subseteq 0 .. nextId'[k] - 1 /\ nextId'[k] <= MaxIds[k]
    <3> SUFFICES ASSUME NEW k \in Kind
                 PROVE  /\ lists'[k] \in Seq(Range(lists'[k]))
                        /\ Ids(lists'[k]) \subseteq 0 .. nextId'[k] - 1
                        /\ nextId'[k] <= MaxIds[k]
      OBVIOUS
    <3>1. CASE k = kind
      BY <3>1, <1>2, <2>3, <2>5, <2>10, <2>11
    <3>2. CASE k # kind
      BY <3>2, <2>12 DEF ListsOK
    <3> QED BY <3>1, <3>2
  <2>15. UniqueIds'
    <3>1. ASSUME NEW k \in Kind, NEW i \in DOMAIN lists'[k], NEW j \in DOMAIN lists'[k],
                 lists'[k][i].id = lists'[k][j].id
          PROVE  i = j
      <4>1. CASE k = kind
        BY <2>6, <2>9, <2>11, <3>1, <4>1
      <4>2. CASE k # kind
        BY <2>12, <3>1, <4>2 DEF ListsOK, UniqueIds
      <4> QED BY <4>1, <4>2
    <3> QED BY <3>1 DEF UniqueIds
  <2> QED BY <2>13, <2>14, <2>15 DEF ListsOK, Ids
<1> QED BY <1>1, <1>2

\* remove_filter, delete_breakpoint and remove_autocmd.
LEMMA Deleting ==
    ASSUME ListsOK, NEW kind \in Kind, NEW id, Delete(kind, id)
    PROVE  ListsOK'
<1> DEFINE l == lists[kind]
           new == RemoveFirstMatch(l, LAMBDA e : e.id = id)
           p == Min({i \in 1 .. Len(l) : l[i].id = id})
<1>1. /\ lists' = [lists EXCEPT ![kind] = new]
      /\ nextId' = nextId
  BY DEF Delete
<1>2. /\ l \in Seq(Range(l)) /\ Ids(l) \subseteq 0 .. nextId[kind] - 1
      /\ \A i, j \in DOMAIN l : l[i].id = l[j].id => i = j
  BY DEF ListsOK, UniqueIds
<1>3. new = IF \E i \in 1 .. Len(l) : l[i].id = id THEN RemoveAt(l, p) ELSE l
  BY ONLY DEF RemoveFirstMatch, SelectInSeq
<1> HIDE DEF l, new
<1>4. CASE ~\E i \in 1 .. Len(l) : l[i].id = id
  <2>1. new = lists[kind]
    BY <1>3, <1>4 DEF l
  <2>2. DOMAIN lists' = Kind /\ \A k \in Kind : lists'[k] = lists[k]
    BY <1>1, <2>1 DEF ListsOK
  <2> QED BY <1>1, <2>2 DEF ListsOK, UniqueIds, Ids
<1>5. CASE \E i \in 1 .. Len(l) : l[i].id = id
  <2>1. id \in Ids(l)
    BY <1>2, <1>5, ListLen
  <2>2. p \in 1 .. Len(l)
    BY <1>2, <2>1, Selected
  <2> HIDE DEF p
  <2>3. /\ new \in Seq(Range(new)) /\ Len(new) = Len(l) - 1 /\ Len(l) \in Nat
        /\ \A i \in 1 .. Len(l) - 1 : new[i] = l[IF i < p THEN i ELSE i + 1]
    BY <1>2, <1>3, <1>5, <2>2, Removing, ListLen
  <2>4. DOMAIN new = 1 .. Len(l) - 1 /\ DOMAIN l = 1 .. Len(l)
    BY <1>2, <2>3, ListLen
  <2>5. Ids(new) \subseteq Ids(l)
    <3>1. ASSUME NEW i \in DOMAIN new PROVE \E j \in DOMAIN l : new[i] = l[j]
      <4>1. new[i] = l[IF i < p THEN i ELSE i + 1]
        BY <2>3, <2>4
      <4>2. (IF i < p THEN i ELSE i + 1) \in DOMAIN l
        BY <2>2, <2>3, <2>4
      <4> QED BY <4>1, <4>2
    <3> QED BY <3>1 DEF Ids
  <2>6. ASSUME NEW i \in DOMAIN new, NEW j \in DOMAIN new, new[i].id = new[j].id
        PROVE  i = j
    <3> DEFINE at(k) == IF k < p THEN k ELSE k + 1
    <3>1. at(i) \in DOMAIN l /\ at(j) \in DOMAIN l
      BY <2>2, <2>3, <2>4
    <3>2. l[at(i)].id = l[at(j)].id
      BY <2>3, <2>4, <2>6
    <3>3. at(i) = at(j)
      <4> HIDE DEF at
      <4> QED BY <3>1, <3>2, <1>2
    <3> QED BY <3>3, <2>2, <2>4
  <2>7. lists'[kind] = new
    BY <1>1 DEF ListsOK
  <2>8. \A k \in Kind \ {kind} : lists'[k] = lists[k]
    BY <1>1 DEF ListsOK
  <2>9. \A k \in Kind : lists'[k] \in Seq(Range(lists'[k])) /\ Ids(lists'[k]) \subseteq Ids(lists[k])
    <3> SUFFICES ASSUME NEW k \in Kind
                 PROVE  /\ lists'[k] \in Seq(Range(lists'[k]))
                        /\ Ids(lists'[k]) \subseteq Ids(lists[k])
      OBVIOUS
    <3>1. CASE k = kind
      BY <3>1, <2>3, <2>5, <2>7 DEF l
    <3>2. CASE k # kind
      BY <3>2, <2>8 DEF ListsOK
    <3> QED BY <3>1, <3>2
  <2>10. UniqueIds'
    BY <2>6, <2>7, <2>8 DEF ListsOK, UniqueIds
  <2>11. DOMAIN lists' = Kind
    BY <1>1 DEF ListsOK
  <2> QED BY <1>1, <2>9, <2>10, <2>11 DEF ListsOK, Ids
<1> QED BY <1>4, <1>5

\* Whatever the command, the lists stay as they should be.
LEMMA Applying ==
    ASSUME ListsOK, NEW c, Apply(c)
    PROVE  ListsOK'
<1>1. CASE c.op \in {"hide", "showonly", "filter remove"}
  <2>1. CmdFilter(c)
    BY <1>1 DEF Apply
  <2>2. \/ \E entry : Create("filters", entry)
        \/ Delete("filters", c.id)
    BY <1>1, <2>1 DEF CmdFilter
  <2> QED BY <2>2, Creating, Deleting DEF Kind
<1>2. CASE c.op \in {"break", "break delete"}
  <2>1. CmdBreak(c)
    BY <1>2 DEF Apply
  <2>2. \/ \E entry : Create("breakpoints", entry)
        \/ Delete("breakpoints", c.id)
    BY <1>2, <2>1 DEF CmdBreak
  <2> QED BY <2>2, Creating, Deleting DEF Kind
<1>3. CASE c.op \in {"autocmd add", "autocmd remove"}
  <2>1. CmdAutocmd(c)
    BY <1>3 DEF Apply
  <2>2. \/ \E entry : Create("autocmds", entry)
        \/ Delete("autocmds", c.id)
    BY <1>3, <2>1 DEF CmdAutocmd
  <2> QED BY <2>2, Creating, Deleting DEF Kind
<1>4. CASE c.op \notin {"hide", "showonly", "filter remove", "break", "break delete",
                        "autocmd add", "autocmd remove"}
  <2>1. UNCHANGED <<lists, nextId>>
    BY <1>4 DEF Apply, settings
  <2> QED BY <2>1 DEF ListsOK, UniqueIds, Ids
<1> QED BY <1>1, <1>2, <1>3, <1>4

-----------------------------------------------------------------------------
(* The invariant. *)

\* An id of an autocmd is one the cursor can be at.
LEMMA CursorRange ==
    ASSUME ListsOK
    PROVE  Ids(lists["autocmds"]) \subseteq 0 .. AtEnd /\ AtEnd \in Nat
BY InteractiveAssumption DEF ListsOK, Kind, AtEnd

LEMMA InitInv == Init => IInv
<1> SUFFICES ASSUME Init PROVE IInv
  OBVIOUS
<1>1. Ids(<<>>) = {} /\ <<>> \in Seq(Range(<<>>))
  BY DEF Ids, Range
<1>2. ListsOK
  BY <1>1, InteractiveAssumption DEF Init, ListsOK, UniqueIds, Kind
<1>3. Rest
  <2>1. MaxIds["autocmds"] \in Nat
    BY InteractiveAssumption
  <2> QED BY <2>1 DEF Init, Rest, Phase, AtEnd
<1>5. Flags
  BY Zenon DEF Init, Flags
<1>4. StopHasReason
  BY DEF Init, StopHasReason, NoArrival
<1> QED BY <1>2, <1>3, <1>4, <1>5 DEF IInv

\* A step that leaves the lists alone.
LEMMA ListsSame ==
    ASSUME ListsOK, UNCHANGED settings
    PROVE  ListsOK'
BY DEF ListsOK, settings, UniqueIds, Ids

\* A message comes: it can raise the flag, and is skipped only if it hits no
\* breakpoint.
LEMMA MessageInv ==
    ASSUME IInv, NEW m \in Messages, Message(m)
    PROVE  IInv'
<1> USE DEF IInv
<1>1. ListsOK'
  BY ListsSame DEF Message
<1>2. Flags'
  BY Zenon DEF Message, Arrive, Flags
<1>3. Rest'
  <2>1. cursor' \in 0 .. AtEnd
    <3>1. CASE lists.autocmds = <<>>
      BY <3>1, CursorRange DEF Message
    <3>2. CASE lists.autocmds # <<>>
      <4>1. /\ lists["autocmds"] \in Seq(Range(lists["autocmds"]))
            /\ lists["autocmds"] # <<>>
        BY <3>2 DEF ListsOK, Kind
      <4>2. Head(lists["autocmds"]).id \in Ids(lists["autocmds"])
        BY <4>1, ListLen, HeadTailProperties, EmptySeq
      <4> QED BY <3>2, <4>2, CursorRange DEF Message
    <3> QED BY <3>1, <3>2
  <2> QED BY <2>1 DEF Message, Rest, Phase, AtEnd
<1>4. StopHasReason'
  BY DEF Message, Arrive, StopHasReason, Rest
<1> QED BY <1>1, <1>2, <1>3, <1>4

\* One turn of the loop: the cursor goes to an autocmd that is still there.
LEMMA RunAutocmdInv ==
    ASSUME IInv, RunAutocmd
    PROVE  IInv'
<1> USE DEF IInv
<1>1. PICK c : /\ Apply(c)
               /\ phase' \in {"autocmds", "confirm", "left", "undefined"}
               /\ phase' = "confirm" => asker' = "autocmds"
               /\ asker' \in {asker, "autocmds"}
               /\ exit' \in {exit, TRUE}
               /\ \/ cursor' = cursor
                  \/ cursor \in Ids(lists'.autocmds) /\ Advance
  BY DEF RunAutocmd, Quit
<1>2. ListsOK'
  BY <1>1, Applying
<1>3. Flags'
  BY <1>1, Zenon DEF RunAutocmd, Apply, Flags
<1>4. Rest'
  <2>1. cursor' \in 0 .. AtEnd
    <3>1. CASE cursor' = cursor
      BY <3>1 DEF Rest, AtEnd
    <3>2. CASE cursor \in Ids(lists'.autocmds) /\ Advance
      <4> DEFINE l == lists'["autocmds"]
                 i == Min({j \in 1 .. Len(l) : l[j].id = cursor})
      <4>1. l \in Seq(Range(l)) /\ Ids(l) \subseteq 0 .. AtEnd /\ AtEnd \in Nat
        <5>1. /\ l \in Seq(Range(l)) /\ Ids(l) \subseteq 0 .. nextId'["autocmds"] - 1
              /\ nextId'["autocmds"] <= AtEnd /\ nextId'["autocmds"] \in Nat
          BY <1>2 DEF ListsOK, Kind, AtEnd
        <5>2. AtEnd \in Nat
          BY InteractiveAssumption DEF Kind, AtEnd
        <5> HIDE DEF l
        <5> QED BY <5>1, <5>2
      <4>2. i \in {j \in 1 .. Len(l) : l[j].id = cursor}
        BY <3>2, <4>1, Selected
      <4>3. cursor' = IF i = Len(l) THEN AtEnd ELSE l[i + 1].id
        <5>1. cursor' = Following(l)
          BY <3>2 DEF Advance
        <5>2. {j \in 1 .. Len(l) : l[j].id = cursor} # {}
          BY <4>2
        <5> HIDE DEF l
        <5> QED BY <5>1, <5>2 DEF Following, SelectInSeq
      <4> HIDE DEF l, i
      <4>4. i # Len(l) => l[i + 1].id \in Ids(l)
        BY <4>1, <4>2, ListLen
      <4> QED BY <4>1, <4>3, <4>4
    <3> QED BY <1>1, <3>1, <3>2
  <2> QED BY <1>1, <2>1 DEF RunAutocmd, Rest, Phase, AtEnd
<1>5. StopHasReason'
  BY <1>1 DEF RunAutocmd, Apply, StopHasReason, Rest
<1> QED BY <1>2, <1>3, <1>4, <1>5

\* The message is through: the flag that is left is not the message's.
LEMMA ProcessMessageInv ==
    ASSUME IInv, ProcessMessage
    PROVE  IInv'
<1> USE DEF IInv
<1>1. ListsOK'
  BY ListsSame DEF ProcessMessage
<1>2. Flags'
  BY Zenon DEF ProcessMessage, EndLoop, Flags
<1>3. Rest'
  BY CursorRange DEF ProcessMessage, EndLoop, Rest, Phase, AtEnd
<1>4. StopHasReason'
  BY DEF ProcessMessage, EndLoop, NoArrival, StopHasReason
<1> QED BY <1>1, <1>2, <1>3, <1>4

\* A command at the prompt.
LEMMA CommandInv ==
    ASSUME IInv, NEW line \in Commands, Command(line)
    PROVE  IInv'
<1> USE DEF IInv
<1>1. PICK c : /\ Apply(c)
               /\ phase' \in {"idle", "query", "confirm", "left"}
               /\ asker' \in {asker, "query"}
               /\ exit' \in {exit, TRUE}
  BY DEF Command, Quit
<1>2. ListsOK'
  BY <1>1, Applying
<1>3. Flags'
  BY <1>1, Zenon DEF Command, Apply, loop, Flags
<1>4. Rest'
  BY <1>1 DEF Command, loop, Rest, Phase, AtEnd
<1>5. StopHasReason'
  BY <1>1 DEF Command, Apply, loop, StopHasReason
<1> QED BY <1>2, <1>3, <1>4, <1>5

\* What is left moves from phase to phase and changes no list and no reason to
\* stop.
LEMMA OtherInv ==
    ASSUME IInv,
           \/ Interrupt \/ EndOfInput \/ QueryEnds \/ Answer \/ Discard
           \/ Connect \/ Leave \/ UNCHANGED vars
    PROVE  IInv'
<1> USE DEF IInv
<1>1. UNCHANGED <<settings, stop, loop, asked>>
  BY DEF Interrupt, EndOfInput, QueryEnds, Answer, Discard, Connect, Leave, vars
<1>2. ListsOK'
  BY <1>1, ListsSame
<1>3. Flags'
  <2>1. /\ exit' \in {exit, TRUE} /\ connected' \in {connected, TRUE}
        /\ UNCHANGED <<stop, seen, skip, asked>>
    BY Zenon DEF Interrupt, EndOfInput, Quit, QueryEnds, Answer, Discard, Connect,
                 Leave, loop, vars
  <2> QED BY <2>1, Zenon DEF Flags
<1>4. Rest'
  BY <1>1 DEF Interrupt, EndOfInput, Quit, QueryEnds, Answer, Discard, Connect,
              Leave, loop, vars, Rest, Phase, AtEnd
<1>5. StopHasReason'
  BY <1>1 DEF Interrupt, EndOfInput, Quit, QueryEnds, Answer, Discard, Connect,
              Leave, loop, vars, StopHasReason, Rest
<1> QED BY <1>2, <1>3, <1>4, <1>5

\* Every step keeps the invariant.
LEMMA NextInv == IInv /\ [Next]_vars => IInv'
<1> SUFFICES ASSUME IInv, [Next]_vars PROVE IInv'
  OBVIOUS
<1>1. ASSUME NEW m \in Messages, Message(m) PROVE IInv'
  BY <1>1, MessageInv
<1>2. ASSUME RunAutocmd PROVE IInv'
  BY <1>2, RunAutocmdInv
<1>3. ASSUME ProcessMessage PROVE IInv'
  BY <1>3, ProcessMessageInv
<1>4. ASSUME NEW line \in Commands, Command(line) PROVE IInv'
  BY <1>4, CommandInv
<1> QED BY <1>1, <1>2, <1>3, <1>4, OtherInv DEF Next

-----------------------------------------------------------------------------
(* The loop over the autocmds. *)

\* What a command makes of the list of autocmds: an insertion, a removal, or
\* nothing.
LEMMA AutocmdsAfter ==
    ASSUME ListsOK, NEW c, Apply(c)
    PROVE  LET l == lists["autocmds"]
               new == lists'["autocmds"]
           IN  /\ nextId'["autocmds"] \in {nextId["autocmds"], nextId["autocmds"] + 1}
               /\ \/ new = l
                  \/ \E x : x.id = nextId["autocmds"] /\ new = Insert(l, x)
                  \/ \E p \in 1 .. Len(l) : new = RemoveAt(l, p)
<1> DEFINE l == lists["autocmds"]
           new == lists'["autocmds"]
<1>1. l \in Seq(Range(l)) /\ DOMAIN lists = Kind /\ nextId \in [Kind -> Nat]
  BY DEF ListsOK, Kind
<1>2. ASSUME NEW entry, Create("autocmds", entry)
      PROVE  /\ nextId'["autocmds"] \in {nextId["autocmds"], nextId["autocmds"] + 1}
             /\ \/ new = l
                \/ \E x : x.id = nextId["autocmds"] /\ new = Insert(l, x)
  <2>1. Numbered(entry, nextId["autocmds"]).id = nextId["autocmds"]
    BY DEF Numbered
  <2>2. CASE UNCHANGED <<lists, nextId>>
    BY <2>2
  <2>3. CASE /\ lists' = [lists EXCEPT !["autocmds"] =
                             Insert(@, Numbered(entry, nextId["autocmds"]))]
             /\ nextId' = [nextId EXCEPT !["autocmds"] = @ + 1]
    <3>1. new = Insert(l, Numbered(entry, nextId["autocmds"]))
      BY <2>3, <1>1 DEF Kind
    <3>2. nextId'["autocmds"] = nextId["autocmds"] + 1
      BY <2>3, <1>1 DEF Kind
    <3> HIDE DEF l, new
    <3> QED BY <2>1, <3>1, <3>2
  <2> QED BY <1>2, <2>2, <2>3 DEF Create
<1>3. ASSUME NEW id, Delete("autocmds", id)
      PROVE  /\ nextId'["autocmds"] = nextId["autocmds"]
             /\ new = l \/ \E p \in 1 .. Len(l) : new = RemoveAt(l, p)
  <2> DEFINE p == Min({i \in 1 .. Len(l) : l[i].id = id})
  <2>1. new = RemoveFirstMatch(l, LAMBDA e : e.id = id)
    BY <1>1, <1>3 DEF Delete, Kind
  <2>2. new = IF \E i \in 1 .. Len(l) : l[i].id = id THEN RemoveAt(l, p) ELSE l
    BY ONLY <2>1 DEF RemoveFirstMatch, SelectInSeq
  <2>3. (\E i \in 1 .. Len(l) : l[i].id = id) => p \in 1 .. Len(l)
    <3> HIDE DEF l
    <3>1. SUFFICES ASSUME \E i \in 1 .. Len(l) : l[i].id = id PROVE id \in Ids(l)
      BY <1>1, Selected
    <3> QED BY <1>1, <3>1, ListLen
  <2>4. nextId'["autocmds"] = nextId["autocmds"]
    BY <1>3 DEF Delete
  <2> HIDE DEF l, new, p
  <2> QED BY <2>2, <2>3, <2>4
<1>4. CASE c.op \in {"autocmd add", "autocmd remove"}
  <2>1. \/ \E entry : Create("autocmds", entry)
        \/ Delete("autocmds", c.id)
    BY <1>4 DEF Apply, CmdAutocmd
  <2> QED BY <2>1, <1>2, <1>3
<1>5. CASE c.op \notin {"autocmd add", "autocmd remove"}
  <2>1. \/ UNCHANGED <<lists, nextId>>
        \/ CmdFilter(c) /\ c.op \in {"hide", "showonly", "filter remove"}
        \/ CmdBreak(c) /\ c.op \in {"break", "break delete"}
    BY <1>5 DEF Apply, settings
  <2>2. \/ UNCHANGED <<lists, nextId>>
        \/ \E k \in {"filters", "breakpoints"} :
              (\E entry : Create(k, entry)) \/ Delete(k, c.id)
    BY <2>1 DEF CmdFilter, CmdBreak
  <2>3. new = l /\ nextId'["autocmds"] = nextId["autocmds"]
    BY <1>1, <2>2 DEF Create, Delete, Kind
  <2> QED BY <2>3
<1> QED BY <1>4, <1>5

\* An autocmd that is still there keeps the others on the side of it they were
\* on; what is new has the id that was next.
LEMMA Shifted ==
    ASSUME ListsOK, NEW c, Apply(c), NEW p \in 1 .. Len(lists["autocmds"]),
           lists["autocmds"][p].id \in Ids(lists'["autocmds"])
    PROVE  LET l == lists["autocmds"]
               new == lists'["autocmds"]
           IN  \E q \in 1 .. Len(new) :
                  /\ new[q] = l[p]
                  /\ \A i \in 1 .. q - 1 : \/ new[i].id = nextId["autocmds"]
                                            \/ \E j \in 1 .. p - 1 : new[i] = l[j]
                  /\ \A i \in q + 1 .. Len(new) : \/ new[i].id = nextId["autocmds"]
                                                   \/ \E j \in p + 1 .. Len(l) : new[i] = l[j]
<1> DEFINE l == lists["autocmds"]
           new == lists'["autocmds"]
           n == nextId["autocmds"]
           Good(q) == /\ q \in 1 .. Len(new) /\ new[q] = l[p]
                      /\ \A i \in 1 .. q - 1 : \/ new[i].id = n
                                                \/ \E j \in 1 .. p - 1 : new[i] = l[j]
                      /\ \A i \in q + 1 .. Len(new) : \/ new[i].id = n
                                                       \/ \E j \in p + 1 .. Len(l) : new[i] = l[j]
<1>1. /\ l \in Seq(Range(l)) /\ Len(l) \in Nat /\ DOMAIN l = 1 .. Len(l)
      /\ \A i, j \in DOMAIN l : l[i].id = l[j].id => i = j
  <2>1. l \in Seq(Range(l)) /\ \A i, j \in DOMAIN l : l[i].id = l[j].id => i = j
    BY DEF ListsOK, UniqueIds, Kind
  <2> HIDE DEF l
  <2> QED BY <2>1, ListLen
<1>2. \/ new = l
      \/ \E x : x.id = n /\ new = Insert(l, x)
      \/ \E r \in 1 .. Len(l) : new = RemoveAt(l, r)
  BY AutocmdsAfter
<1>3. p \in 1 .. Len(l) /\ l[p].id \in Ids(new)
  OBVIOUS
<1> SUFFICES \E q \in Nat : Good(q)
  OBVIOUS
<1> HIDE DEF l, new, n
<1>4. CASE new = l
  <2>1. Good(p)
    BY <1>1, <1>3, <1>4
  <2> QED BY <2>1, <1>3
<1>5. ASSUME NEW x, x.id = n, new = Insert(l, x) PROVE \E q \in Nat : Good(q)
  <2>1. Len(new) = Len(l) + 1
    BY <1>1, <1>5, Inserting
  <2>2. PICK r \in 1 .. Len(l) + 1 : \A i \in 1 .. Len(l) + 1 :
               new[i] = IF i = r THEN x ELSE l[IF i < r THEN i ELSE i - 1]
    <3>1. \E r \in 1 .. Len(l) + 1 : \A i \in 1 .. Len(l) + 1 :
             Insert(l, x)[i] = IF i = r THEN x ELSE l[IF i < r THEN i ELSE i - 1]
      <4>1. l \in Seq(Range(l))
        BY <1>1
      <4> QED BY <4>1, Inserting, Zenon
    <3> QED BY <1>5, <3>1
  <2>3. CASE p < r
    <3>1. new[p] = l[p]
      BY <1>1, <1>3, <2>2, <2>3
    <3>2. \A i \in 1 .. p - 1 : new[i] = l[i]
      BY <1>1, <1>3, <2>2, <2>3
    <3>3. \A i \in p + 1 .. Len(l) + 1 :
             new[i].id = n \/ \E j \in p + 1 .. Len(l) : new[i] = l[j]
      <4> SUFFICES ASSUME NEW i \in p + 1 .. Len(l) + 1, i # r
                   PROVE  \E j \in p + 1 .. Len(l) : new[i] = l[j]
        BY <1>3, <1>5, <2>2
      <4>1. CASE i < r
        BY <4>1, <1>1, <1>3, <2>2
      <4>2. CASE i > r
        <5>1. i - 1 \in p + 1 .. Len(l) /\ new[i] = l[i - 1]
          BY <4>2, <1>1, <1>3, <2>2, <2>3
        <5> QED BY <5>1
      <4> QED BY <4>1, <4>2, <1>1, <1>3
    <3> QED BY <1>1, <1>3, <2>1, <3>1, <3>2, <3>3
  <2>4. CASE p >= r
    <3>1. new[p + 1] = l[p]
      BY <1>1, <1>3, <2>2, <2>4
    <3>2. \A i \in 1 .. p : new[i].id = n \/ \E j \in 1 .. p - 1 : new[i] = l[j]
      <4> SUFFICES ASSUME NEW i \in 1 .. p, i # r
                   PROVE  \E j \in 1 .. p - 1 : new[i] = l[j]
        BY <1>1, <1>3, <1>5, <2>2
      <4>1. CASE i < r
        <5>1. i \in 1 .. p - 1 /\ new[i] = l[i]
          BY <4>1, <1>1, <1>3, <2>2, <2>4
        <5> QED BY <5>1
      <4>2. CASE i > r
        <5>1. i - 1 \in 1 .. p - 1 /\ new[i] = l[i - 1]
          BY <4>2, <1>1, <1>3, <2>2, <2>4
        <5> QED BY <5>1
      <4> QED BY <4>1, <4>2, <1>1, <1>3
    <3>3. \A i \in p + 2 .. Len(l) + 1 : new[i] = l[i - 1] /\ i - 1 \in p + 1 .. Len(l)
      BY <1>1, <1>3, <2>2, <2>4
    <3>4. Good(p + 1)
      BY <1>1, <1>3, <2>1, <3>1, <3>2, <3>3
    <3> HIDE DEF Good
    <3> QED BY <3>4, <1>3
  <2> QED BY <2>3, <2>4, <1>1, <1>3
<1>6. ASSUME NEW r \in 1 .. Len(l), new = RemoveAt(l, r) PROVE \E q \in Nat : Good(q)
  <2>1. /\ new \in Seq(Range(new)) /\ Len(new) = Len(l) - 1
        /\ \A i \in 1 .. Len(l) - 1 : new[i] = l[IF i < r THEN i ELSE i + 1]
    BY <1>1, <1>6, Removing
  <2>2. p # r
    <3>1. PICK i \in 1 .. Len(l) - 1 : new[i].id = l[p].id
      BY <1>3, <2>1, ListLen DEF Ids
    <3>2. (IF i < r THEN i ELSE i + 1) \in 1 .. Len(l)
      BY <1>1
    <3>3. (IF i < r THEN i ELSE i + 1) = p
      BY <1>1, <1>3, <2>1, <3>1, <3>2
    <3> QED BY <3>3
  <2>3. CASE p < r
    <3>1. \A i \in 1 .. p : new[i] = l[i]
      BY <1>1, <1>3, <2>1, <2>3
    <3>2. \A i \in p + 1 .. Len(new) : \E j \in p + 1 .. Len(l) : new[i] = l[j]
      BY <1>1, <1>3, <2>1, <2>3
    <3>3. p \in 1 .. Len(new)
      BY <1>1, <1>3, <2>1, <2>3
    <3>4. Good(p)
      BY <1>3, <3>1, <3>2, <3>3
    <3> HIDE DEF Good
    <3> QED BY <3>4, <1>3
  <2>4. CASE p > r
    <3>1. new[p - 1] = l[p] /\ p - 1 \in 1 .. Len(new)
      BY <1>1, <1>3, <2>1, <2>4
    <3>2. ASSUME NEW i \in 1 .. p - 2 PROVE \E j \in 1 .. p - 1 : new[i] = l[j]
      <4>1. new[i] = l[IF i < r THEN i ELSE i + 1]
        BY <1>1, <1>3, <2>1
      <4>2. (IF i < r THEN i ELSE i + 1) \in 1 .. p - 1
        BY <1>1, <1>3
      <4> QED BY <4>1, <4>2
    <3>3. ASSUME NEW i \in p .. Len(new) PROVE \E j \in p + 1 .. Len(l) : new[i] = l[j]
      <4>1. new[i] = l[i + 1] /\ i + 1 \in p + 1 .. Len(l)
        BY <1>1, <1>3, <2>1, <2>4
      <4> QED BY <4>1
    <3>4. PICK q : q = p - 1
      OBVIOUS
    <3>5. q \in Nat /\ q - 1 = p - 2 /\ q + 1 = p
      BY <1>1, <1>3, <3>4
    <3>6. Good(q)
      BY <3>1, <3>2, <3>3, <3>4, <3>5
    <3> HIDE DEF Good
    <3> QED BY <3>5, <3>6
  <2> QED BY <2>2, <2>3, <2>4, <1>3, <1>1
<1> QED BY <1>2, <1>4, <1>5, <1>6

\* A message comes: its autocmds are due, and the cursor is at the first.
LEMMA MessageLoop ==
    ASSUME IInv, NEW m \in Messages, Message(m)
    PROVE  LInv'
<1> DEFINE l == lists["autocmds"]
<1>1. /\ l \in Seq(Range(l)) /\ Ids(l) \subseteq 0 .. nextId["autocmds"] - 1
      /\ \A i, j \in DOMAIN l : l[i].id = l[j].id => i = j
  BY DEF IInv, ListsOK, UniqueIds, Kind
<1>2. /\ lists' = lists /\ nextId' = nextId /\ message' = m /\ ran' = <<>>
      /\ phase' = "autocmds"
      /\ cursor' = IF l = <<>> THEN AtEnd ELSE Head(l).id
      /\ arrival'.due = {x.id : x \in {y \in Range(l) : m \in y.re}}
  BY DEF Message, Arrive, settings
<1> HIDE DEF l
<1>3. Len(l) \in Nat /\ DOMAIN l = 1 .. Len(l) /\ \A i \in 1 .. Len(l) : l[i].id \in Ids(l)
  BY <1>1, ListLen
<1>4. Range(<<>>) = {} /\ <<>> \in Seq(0 .. nextId["autocmds"] - 1) /\ IsInjective(<<>>)
  BY DEF Range, IsInjective
<1>5. \A x \in arrival'.due : \E i \in 1 .. Len(l) : x = l[i].id /\ m \in l[i].re
  BY <1>2, <1>3 DEF Range
<1>6. LoopIds'
  <2>1. arrival'.due \subseteq 0 .. nextId["autocmds"] - 1
    BY <1>1, <1>3, <1>5
  <2>2. \A i \in 1 .. Len(l) : l[i].id \in arrival'.due => m \in l[i].re
    BY <1>1, <1>3, <1>5
  <2> QED BY <1>2, <1>4, <2>1, <2>2 DEF LoopIds, l
<1>7. LoopOff'
  BY <1>2 DEF LoopOff
<1>8. CASE l = <<>>
  <2>1. Ids(l) = {}
    BY <1>8 DEF Ids
  <2>2. LoopEnded'
    BY <1>2, <1>8, <2>1 DEF LoopEnded, l, AtEnd, Ids
  <2> QED BY <1>6, <1>7, <2>2 DEF LInv
<1>9. CASE l # <<>>
  <2>1. Len(l) >= 1 /\ Head(l) = l[1]
    BY <1>1, <1>3, <1>9, EmptySeq
  <2>2. LoopAt(1)'
    BY <1>2, <1>3, <1>4, <1>9, <2>1 DEF LoopAt, l
  <2> QED BY <1>6, <1>7, <2>2 DEF LInv
<1> QED BY <1>8, <1>9

\* One turn: the autocmd the cursor is at has run if it was due, the command
\* moved no other past it, and what it made is not due and has not run.
LEMMA RunAutocmdLoop ==
    ASSUME IInv, LInv, RunAutocmd
    PROVE  LInv'
<1> DEFINE l == lists["autocmds"]
           new == lists'["autocmds"]
           n == nextId["autocmds"]
<1>1. /\ l \in Seq(Range(l)) /\ Ids(l) \subseteq 0 .. n - 1
      /\ \A i, j \in DOMAIN l : l[i].id = l[j].id => i = j
      /\ n \in Nat /\ n <= AtEnd /\ AtEnd \in Nat
  BY InteractiveAssumption DEF IInv, ListsOK, UniqueIds, Kind, AtEnd
<1>2. /\ arrival.due \subseteq 0 .. n - 1 /\ ran \in Seq(0 .. n - 1) /\ IsInjective(ran)
      /\ \A i \in 1 .. Len(l) : l[i].id \in arrival.due => message \in l[i].re
  BY DEF LInv, LoopIds
<1>3. PICK p \in 1 .. Len(l) :
         /\ l[p].id = cursor
         /\ \A i \in 1 .. p - 1 : l[i].id \in arrival.due => l[i].id \in Range(ran)
         /\ \A i \in p .. Len(l) : l[i].id \notin Range(ran)
  BY DEF LInv, LoopAt, LoopEnded, RunAutocmd
<1>4. SelectInSeq(l, LAMBDA a : a.id = cursor) = p
  <2> DEFINE I == {i \in 1 .. Len(l) : l[i].id = cursor}
  <2>1. p \in I
    BY <1>3
  <2>2. SelectInSeq(l, LAMBDA a : a.id = cursor) = Min(I)
    BY <2>1 DEF SelectInSeq
  <2> HIDE DEF l
  <2>3. l \in Seq(Range(l)) /\ cursor \in Ids(l)
    BY <1>1, <1>3, ListLen
  <2>4. Min(I) \in I
    BY <2>3, Selected
  <2> QED BY <1>1, <1>3, <2>2, <2>4, ListLen
<1>5. PICK c : /\ Apply(c)
               /\ ran' = IF message \in l[p].re THEN Append(ran, cursor) ELSE ran
               /\ phase' \in {"left", "undefined"} \/ (cursor \in Ids(new) /\ Advance)
               /\ UNCHANGED <<arrival, message>>
               /\ phase' \notin {"idle", "query"}
               /\ phase' \in {"confirm", "discard", "stuck"} => asker' = "autocmds"
  BY <1>3, <1>4 DEF RunAutocmd, Quit
<1>6. ListsOK'
  BY <1>5, Applying DEF IInv
<1>7. nextId'["autocmds"] \in {n, n + 1}
  BY <1>5, AutocmdsAfter DEF IInv
<1>8. /\ new \in Seq(Range(new)) /\ \A i, j \in DOMAIN new : new[i].id = new[j].id => i = j
  BY <1>6 DEF ListsOK, UniqueIds, Kind
<1>9. \A i \in 1 .. Len(new) : new[i].id = n \/ \E j \in 1 .. Len(l) : new[i] = l[j]
  <2>1. \/ new = l
        \/ \E x : x.id = n /\ new = Insert(l, x)
        \/ \E r \in 1 .. Len(l) : new = RemoveAt(l, r)
    BY <1>5, AutocmdsAfter DEF IInv
  <2> HIDE DEF l, new, n
  <2>2. Len(l) \in Nat
    BY <1>1, ListLen
  <2>3. ASSUME NEW x, x.id = n, new = Insert(l, x), NEW i \in 1 .. Len(new)
        PROVE  new[i].id = n \/ \E j \in 1 .. Len(l) : new[i] = l[j]
    <3>1. l \in Seq(Range(l))
      BY <1>1
    <3>2. Len(Insert(l, x)) = Len(l) + 1
      BY <3>1, Inserting
    <3>3. \E r \in 1 .. Len(l) + 1 : \A k \in 1 .. Len(l) + 1 :
             Insert(l, x)[k] = IF k = r THEN x ELSE l[IF k < r THEN k ELSE k - 1]
      BY <3>1, Inserting, Zenon
    <3>4. PICK r \in 1 .. Len(l) + 1 :
             new[i] = IF i = r THEN x ELSE l[IF i < r THEN i ELSE i - 1]
      BY <2>3, <3>2, <3>3
    <3>5. i # r => (IF i < r THEN i ELSE i - 1) \in 1 .. Len(l)
      BY <2>2, <2>3, <3>2
    <3> QED BY <2>3, <3>4, <3>5
  <2>4. ASSUME NEW r \in 1 .. Len(l), new = RemoveAt(l, r), NEW i \in 1 .. Len(new)
        PROVE  \E j \in 1 .. Len(l) : new[i] = l[j]
    <3>1. Len(new) = Len(l) - 1 /\ new[i] = l[IF i < r THEN i ELSE i + 1]
      BY <1>1, <2>2, <2>4, Removing
    <3>2. (IF i < r THEN i ELSE i + 1) \in 1 .. Len(l)
      BY <2>2, <3>1
    <3> QED BY <3>1, <3>2
  <2> QED BY <2>1, <2>3, <2>4
<1> HIDE DEF l, new, n
<1>10. /\ Len(l) \in Nat /\ DOMAIN l = 1 .. Len(l) /\ \A i \in 1 .. Len(l) : l[i].id \in 0 .. n - 1
       /\ Len(new) \in Nat /\ DOMAIN new = 1 .. Len(new)
       /\ \A i \in 1 .. Len(new) : new[i].id \in Ids(new)
  BY <1>1, <1>8, ListLen
<1>11. /\ cursor \in 0 .. n - 1 /\ cursor \notin Range(ran) /\ Range(ran) \subseteq 0 .. n - 1
       /\ DOMAIN ran = 1 .. Len(ran) /\ Len(ran) \in Nat
  <2>1. DOMAIN ran = 1 .. Len(ran) /\ Len(ran) \in Nat /\ \A i \in 1 .. Len(ran) : ran[i] \in 0 .. n - 1
    BY <1>2, LenProperties
  <2>2. cursor \in 0 .. n - 1 /\ cursor \notin Range(ran)
    BY <1>3, <1>10
  <2> QED BY <2>1, <2>2 DEF Range
<1>12. /\ ran' \in Seq(0 .. n - 1) /\ IsInjective(ran')
       /\ Range(ran') = IF message \in l[p].re THEN Range(ran) \cup {cursor} ELSE Range(ran)
  <2>1. CASE message \in l[p].re
    <3>1. /\ ran' = Append(ran, cursor) /\ ran' \in Seq(0 .. n - 1)
          /\ Len(ran') = Len(ran) + 1 /\ DOMAIN ran' = 1 .. Len(ran) + 1
          /\ ran'[Len(ran) + 1] = cursor /\ \A i \in 1 .. Len(ran) : ran'[i] = ran[i]
      BY <1>2, <1>5, <1>11, <2>1
    <3>2. \A i \in 1 .. Len(ran) : ran[i] # cursor
      BY <1>11 DEF Range
    <3>3. IsInjective(ran')
      BY <1>2, <1>11, <3>1, <3>2 DEF IsInjective
    <3>4. Range(ran') = Range(ran) \cup {cursor}
      BY <1>11, <3>1 DEF Range
    <3> QED BY <2>1, <3>1, <3>3, <3>4
  <2>2. CASE message \notin l[p].re
    BY <1>2, <1>5, <2>2
  <2> QED BY <2>1, <2>2
<1>13. LoopIds'
  <2>1. /\ arrival'.due \subseteq 0 .. nextId'["autocmds"] - 1
        /\ ran' \in Seq(0 .. nextId'["autocmds"] - 1)
    <3>1. 0 .. n - 1 \subseteq 0 .. nextId'["autocmds"] - 1
      BY <1>1, <1>7
    <3>2. PICK S, T : S = 0 .. n - 1 /\ T = 0 .. nextId'["autocmds"] - 1 /\ S \subseteq T
      BY <3>1
    <3>3. arrival'.due \subseteq S /\ ran' \in Seq(S)
      BY <1>2, <1>5, <1>12, <3>2
    <3>4. ran' \in Seq(T)
      BY <3>2, <3>3, SeqMonotonic
    <3> QED BY <3>2, <3>3, <3>4
  <2>2. ASSUME NEW i \in 1 .. Len(new), new[i].id \in arrival.due PROVE message \in new[i].re
    <3>1. new[i].id # n
      BY <1>1, <1>2, <2>2
    <3>2. PICK j \in 1 .. Len(l) : new[i] = l[j]
      BY <1>9, <3>1
    <3> QED BY <1>2, <2>2, <3>2
  <2> QED BY <1>5, <1>12, <2>1, <2>2 DEF LoopIds, new
<1>14. LoopOff'
  BY <1>5 DEF LoopOff
<1>15. ASSUME cursor \in Ids(new), Advance
       PROVE  LoopEnded' \/ \E k \in Nat : LoopAt(k)'
  <2>1. PICK q \in 1 .. Len(new) :
           /\ new[q] = l[p]
           /\ \A i \in 1 .. q - 1 : new[i].id = n \/ \E j \in 1 .. p - 1 : new[i] = l[j]
           /\ \A i \in q + 1 .. Len(new) : new[i].id = n \/ \E j \in p + 1 .. Len(l) : new[i] = l[j]
    BY <1>3, <1>5, <1>15, Shifted DEF IInv, l, new, n
  <2>2. \A i \in 1 .. q : new[i].id \in arrival.due => new[i].id \in Range(ran')
    <3>1. \A i \in 1 .. q - 1 : new[i].id \in arrival.due => new[i].id \in Range(ran)
      <4> SUFFICES ASSUME NEW i \in 1 .. q - 1, new[i].id \in arrival.due
                   PROVE  new[i].id \in Range(ran)
        OBVIOUS
      <4>1. new[i].id # n
        BY <1>1, <1>2
      <4>2. PICK j \in 1 .. p - 1 : new[i] = l[j]
        BY <2>1, <4>1
      <4> QED BY <1>3, <4>2
    <3>2. new[q].id \in arrival.due => message \in l[p].re /\ new[q].id = cursor
      BY <1>2, <1>3, <2>1
    <3> QED BY <1>12, <3>1, <3>2
  <2>3. \A i \in q + 1 .. Len(new) : new[i].id \notin Range(ran')
    <3> SUFFICES ASSUME NEW i \in q + 1 .. Len(new) PROVE new[i].id \notin Range(ran')
      OBVIOUS
    <3>1. CASE new[i].id = n
      BY <3>1, <1>1, <1>11, <1>12
    <3>2. ASSUME NEW j \in p + 1 .. Len(l), new[i] = l[j] PROVE new[i].id \notin Range(ran')
      <4>1. l[j].id \notin Range(ran)
        BY <1>3
      <4>2. l[j].id # cursor
        BY <1>1, <1>3, <1>10
      <4> QED BY <1>12, <3>2, <4>1, <4>2
    <3> QED BY <2>1, <3>1, <3>2
  <2>4. cursor' = IF q = Len(new) THEN AtEnd ELSE new[q + 1].id
    <3> DEFINE I == {i \in 1 .. Len(new) : new[i].id = cursor}
    <3>1. q \in I
      BY <1>3, <2>1
    <3>2. Min(I) \in I
      BY <1>8, <1>15, Selected
    <3>3. Min(I) = q
      BY <1>8, <1>10, <3>1, <3>2
    <3>4. cursor' = Following(new)
      BY <1>15 DEF Advance, new
    <3> QED BY <3>1, <3>3, <3>4 DEF Following, SelectInSeq
  <2>5. CASE q = Len(new)
    <3>1. \A x \in Ids(new) : \E i \in 1 .. Len(new) : new[i].id = x
      BY <1>10 DEF Ids
    <3>2. \A x \in Ids(new) \cap arrival'.due : x \in Range(ran')
      BY <1>5, <2>2, <2>5, <3>1
    <3>3. cursor' = AtEnd'
      BY <2>4, <2>5 DEF AtEnd
    <3>4. LoopEnded'
      BY <3>2, <3>3 DEF LoopEnded, Ids, new
    <3> QED BY <3>4
  <2>6. CASE q # Len(new)
    <3>1. q + 1 \in 1 .. Len(new) /\ cursor' = new[q + 1].id
      BY <1>10, <2>4, <2>6
    <3>2. /\ \A i \in 1 .. (q + 1) - 1 : new[i].id \in arrival'.due => new[i].id \in Range(ran')
          /\ \A i \in q + 1 .. Len(new) : new[i].id \notin Range(ran')
      BY <1>5, <2>2, <2>3
    <3>3. LoopAt(q + 1)'
      BY <3>1, <3>2 DEF LoopAt, new
    <3> QED BY <3>1, <3>3
  <2> QED BY <2>5, <2>6
<1>16. phase' \notin {"left", "undefined"} => LoopEnded' \/ \E k \in Nat : LoopAt(k)'
  BY <1>5, <1>15
<1> QED BY <1>13, <1>14, <1>16 DEF LInv

\* The message is through, and nothing is due any more.
LEMMA ProcessMessageLoop ==
    ASSUME LInv, ProcessMessage
    PROVE  LInv'
<1>1. /\ cursor' = AtEnd /\ ran' = <<>> /\ arrival'.due = {}
      /\ lists' = lists /\ nextId' = nextId
  BY DEF ProcessMessage, EndLoop, NoArrival, settings
<1>2. <<>> \in Seq(0 .. nextId["autocmds"] - 1) /\ IsInjective(<<>>)
  BY DEF IsInjective
<1>3. LoopIds'
  BY <1>1, <1>2 DEF LoopIds
<1>4. LoopOff' /\ LoopEnded'
  BY <1>1 DEF LoopOff, LoopEnded, AtEnd
<1> QED BY <1>3, <1>4 DEF LInv

\* A command at the prompt: nothing is due, whatever it makes of the list.
LEMMA CommandLoop ==
    ASSUME IInv, LInv, NEW line \in Commands, Command(line)
    PROVE  LInv'
<1>1. PICK c : Apply(c)
  BY DEF Command
<1>2. /\ cursor = AtEnd /\ arrival.due = {}
      /\ UNCHANGED <<cursor, arrival, ran, message>>
  BY DEF LInv, LoopOff, Command, loop
<1>3. nextId["autocmds"] \in Nat /\ nextId'["autocmds"] \in {nextId["autocmds"], nextId["autocmds"] + 1}
  BY <1>1, AutocmdsAfter DEF IInv, ListsOK, Kind
<1>4. LoopIds'
  <2>1. 0 .. nextId["autocmds"] - 1 \subseteq 0 .. nextId'["autocmds"] - 1
    BY <1>3
  <2>2. ran \in Seq(0 .. nextId["autocmds"] - 1) /\ IsInjective(ran)
    BY DEF LInv, LoopIds
  <2>3. ran \in Seq(0 .. nextId'["autocmds"] - 1)
    BY <2>1, <2>2, SeqMonotonic
  <2> QED BY <1>2, <2>2, <2>3 DEF LoopIds
<1>5. LoopOff' /\ LoopEnded'
  BY <1>2 DEF LoopOff, LoopEnded, AtEnd
<1> QED BY <1>4, <1>5 DEF LInv

\* What is left touches neither the lists nor the loop.
LEMMA OtherLoop ==
    ASSUME IInv, LInv,
           \/ Interrupt \/ EndOfInput \/ QueryEnds \/ Answer \/ Discard
           \/ Connect \/ Leave \/ UNCHANGED vars
    PROVE  LInv'
<1>1. UNCHANGED <<lists, nextId, message, cursor, arrival, ran>>
  BY DEF Interrupt, EndOfInput, QueryEnds, Answer, Discard, Connect, Leave, vars,
         settings, loop
<1>2. LoopIds'
  BY <1>1 DEF LInv, LoopIds
<1>3. LoopOff'
  BY <1>1 DEF LInv, LoopOff, AtEnd, Interrupt, EndOfInput, Quit, QueryEnds, Answer,
              Discard, Connect, Leave, vars, IInv, Rest
<1>4. phase' \notin {"left", "undefined"} => phase \notin {"left", "undefined"}
  BY DEF Interrupt, EndOfInput, Quit, QueryEnds, Answer, Discard, Connect, Leave, vars
<1>5. LoopEnded => LoopEnded'
  BY <1>1 DEF LoopEnded, AtEnd, Ids
<1>6. \A p \in Nat : LoopAt(p) => LoopAt(p)'
  BY <1>1 DEF LoopAt
<1> QED BY <1>2, <1>3, <1>4, <1>5, <1>6 DEF LInv

LEMMA InitLoop == Init => LInv
<1> SUFFICES ASSUME Init PROVE LInv
  OBVIOUS
<1>1. <<>> \in Seq(0 .. nextId["autocmds"] - 1) /\ IsInjective(<<>>) /\ Len(<<>>) = 0
  BY DEF IsInjective
<1>2. LoopIds
  BY <1>1 DEF Init, LoopIds, NoArrival, Kind
<1>3. LoopOff /\ LoopEnded
  BY DEF Init, LoopOff, LoopEnded, NoArrival
<1> QED BY <1>2, <1>3 DEF LInv

\* Every step keeps it.
LEMMA NextLoop == IInv /\ LInv /\ [Next]_vars => LInv'
<1> SUFFICES ASSUME IInv, LInv, [Next]_vars PROVE LInv'
  OBVIOUS
<1>1. ASSUME NEW m \in Messages, Message(m) PROVE LInv'
  BY <1>1, MessageLoop
<1>2. ASSUME RunAutocmd PROVE LInv'
  BY <1>2, RunAutocmdLoop
<1>3. ASSUME ProcessMessage PROVE LInv'
  BY <1>3, ProcessMessageLoop
<1>4. ASSUME NEW line \in Commands, Command(line) PROVE LInv'
  BY <1>4, CommandLoop
<1> QED BY <1>1, <1>2, <1>3, <1>4, OtherLoop DEF Next

-----------------------------------------------------------------------------
(* Theorems. *)

\* The inductive invariant holds throughout: whatever the commands create, list
\* and delete, the lists and the counters of ids stay in step.
THEOREM Invariance == Spec => []IInv
BY InitInv, NextInv, PTL DEF Spec

\* What create_filter, create_breakpoint, create_autocmd and the removals make
\* of the lists are lists with ids below the next one.
THEOREM TypeCorrect == Spec => []TypeOK
BY Invariance, IInvImplies, PTL

\* No two filters, breakpoints or autocmds have one id, whatever was made and
\* deleted before.
THEOREM IdsAreUnique == Spec => []UniqueIds
BY Invariance, IInvImplies, PTL

\* Filters accumulate: showonly filters alone hide what matches none, hide
\* filters alone what matches any, and in a mixture a message that only filters
\* of one sort match is theirs, in whatever order the list has them.
THEOREM FiltersDoAccumulate == Spec => []FiltersAccumulate
<1>1. ListsOK => FiltersAccumulate
  <2> SUFFICES ASSUME ListsOK, NEW m \in Messages
               PROVE  LET shows == {f \in Range(lists.filters) : f.show}
                          hides == Range(lists.filters) \ shows
                          shown == \E f \in shows : m \in f.re
                          hid == \E f \in hides : m \in f.re
                      IN  /\ hid /\ ~shown => FilterMatch(lists.filters, m)
                          /\ shown /\ ~hid => ~FilterMatch(lists.filters, m)
                          /\ ~shown /\ ~hid =>
                               (FilterMatch(lists.filters, m) <=> shows # {})
    BY DEF FiltersAccumulate
  <2> DEFINE l == lists["filters"]
             I == {j \in 1 .. Len(l) : m \in l[j].re}
             i == IF I # {} THEN Min(I) ELSE 0
  <2>1. FilterMatch(l, m) <=> IF i # 0 THEN ~l[i].show ELSE \E f \in Range(l) : f.show
    BY DEF FilterMatch, SelectInSeq
  <2>2. l \in Seq(Range(l))
    BY DEF ListsOK, Kind
  <2> HIDE DEF l
  <2>3. DOMAIN l = 1 .. Len(l) /\ Len(l) \in Nat
    BY <2>2, ListLen
  <2>4. I # {} => i \in I
    <3>1. I \in SUBSET Nat
      BY <2>3
    <3> HIDE DEF I
    <3> QED BY <3>1, MinIsIn
  <2>5. I = {} => i = 0
    OBVIOUS
  <2>6. \A f \in Range(l) : m \in f.re => I # {}
    BY <2>3 DEF Range
  <2>7. \A j \in I : j # 0 /\ l[j] \in Range(l) /\ m \in l[j].re
    BY <2>3 DEF Range
  <2> HIDE DEF I, i
  <2>8. l = lists.filters
    BY DEF l
  <2> DEFINE Shown == \E f \in Range(l) : f.show /\ m \in f.re
             Hid == \E f \in Range(l) : ~f.show /\ m \in f.re
             Some == \E f \in Range(l) : f.show
  <2>9. CASE I = {}
    <3>1. ~Shown /\ ~Hid
      BY <2>6, <2>9
    <3>2. FilterMatch(l, m) <=> Some
      BY <2>1, <2>5, <2>9
    <3> QED BY <2>8, <3>1, <3>2
  <2>10. CASE I # {}
    <3>1. i # 0 /\ l[i] \in Range(l) /\ m \in l[i].re
      BY <2>4, <2>7, <2>10
    <3>2. FilterMatch(l, m) <=> ~l[i].show
      BY <2>1, <3>1
    <3>3. IF l[i].show THEN Shown ELSE Hid
      BY <3>1
    <3> QED BY <2>8, <3>2, <3>3
  <2> QED BY <2>9, <2>10
<1> QED BY <1>1, Invariance, PTL DEF IInv

\* When the loop is through, each autocmd that was due and is still there has
\* run, and none twice.
THEOREM AutocmdsDoRun == Spec => []AutocmdsRun
<1>1. IInv /\ LInv => AutocmdsRun
  <2> SUFFICES ASSUME IInv, LInv, phase = "autocmds", cursor = AtEnd
               PROVE  /\ arrival.due \cap Ids(lists.autocmds) \subseteq Range(ran)
                      /\ IsInjective(ran)
    BY DEF AutocmdsRun
  <2>1. /\ lists["autocmds"] \in Seq(Range(lists["autocmds"]))
        /\ Ids(lists["autocmds"]) \subseteq 0 .. nextId["autocmds"] - 1
        /\ nextId["autocmds"] \in Nat /\ nextId["autocmds"] <= AtEnd /\ AtEnd \in Nat
    BY InteractiveAssumption DEF IInv, ListsOK, Kind, AtEnd
  <2>2. \A p \in Nat : ~LoopAt(p)
    BY <2>1, ListLen DEF LoopAt
  <2> QED BY <2>2 DEF LInv, LoopEnded, LoopIds
<1>2. Spec => []LInv
  BY Invariance, InitLoop, NextLoop, PTL DEF Spec
<1> QED BY <1>1, <1>2, Invariance, PTL

\* A message that hits a breakpoint does not pass without a prompt.
THEOREM BreakpointsStop == Spec => BreakpointStops
<1> DEFINE A == phase = "autocmds" /\ phase' = "idle" => ~arrival.broke
<1>1. IInv /\ [Next]_vars => [A]_vars
  <2> SUFFICES ASSUME IInv, Next, phase = "autocmds", phase' = "idle"
               PROVE  ~arrival.broke
    BY DEF vars
  <2>1. ProcessMessage
    BY DEF Next, Message, RunAutocmd, Advance, Quit, Interrupt, Command, EndOfInput,
           QueryEnds, Answer, Discard, Connect, Leave
  <2> QED BY <2>1 DEF ProcessMessage, IInv, StopHasReason
<1> QED BY <1>1, Invariance, PTL DEF Spec, BreakpointStops

\* A message brings the prompt exactly if it is not skipped and a stop was asked
\* for since the last prompt, or it hits a breakpoint.
THEOREM StopsAsAsked == Spec => StopsWhenAsked
<1> DEFINE A == phase = "autocmds" /\ cursor = AtEnd /\ phase' # phase
                   => (phase' = "query" <=> ~skip /\ (asked \/ arrival.broke))
<1>1. IInv /\ [Next]_vars => [A]_vars
  <2> SUFFICES ASSUME IInv, Next, phase = "autocmds", cursor = AtEnd, phase' # phase
               PROVE  phase' = "query" <=> ~skip /\ (asked \/ arrival.broke)
    BY DEF vars
  <2>1. ProcessMessage
    BY DEF Next, Message, RunAutocmd, Interrupt, Command, EndOfInput,
           QueryEnds, Answer, Discard, Connect, Leave
  <2> QED BY <2>1 DEF ProcessMessage, IInv, StopHasReason
<1> QED BY <1>1, Invariance, PTL DEF Spec, StopsWhenAsked
=============================================================================
