---------------------------- MODULE PassesProofs ----------------------------
(***************************************************************************)
(* Proofs about Passes, for every command line, every directory the passes *)
(* may lie in and every bound.  The pipeline only ever changes in three    *)
(* ways: the interactive pass is put at its end when "resolve" is alone,   *)
(* something else is inserted behind the first pass, and the first pass of *)
(* some name is taken out.  None of them puts a pass in front of           *)
(* "resolve" or behind the interactive pass as long as "resolve" is there, *)
(* and what is inserted is either not a pass to be loaded once or comes    *)
(* from a library that was not loaded before, so that it cannot be in the  *)
(* pipeline yet.                                                           *)
(*                                                                         *)
(* What load_passes makes of the command line is told by Told: it is       *)
(* always behind some k words of the line, in front of which no pass is    *)
(* open (Follows), what is tried so far is what k words say, the words     *)
(* behind are still as they were given, and the pipeline is the pile of    *)
(* what was found.  Read is a recursive function; what it does at every    *)
(* place is proved by UpTo: the least place where it failed would follow   *)
(* one where it did not.                                                   *)
(***************************************************************************)
EXTENDS Passes, SequenceTheorems, FiniteSetTheorems, WellFoundedInduction, TLAPS

\* Where "resolve" and the interactive pass stand.
Ordered(list) ==
    /\ \A i \in 1 .. Len(list) : list[i] = "resolve" => i = 1
    /\ \A i, j \in 1 .. Len(list) :
          list[i] = "resolve" /\ list[j] = "interactive" => j = Len(list)

Piped ==
    /\ passes \in Seq(Names \ {"list"})
    /\ phase = "options" => passes = <<"resolve">>
    /\ Ordered(passes)

\* A pass that is loaded once stands in one place, and then its library, in
\* whichever directory there is, was loaded.
Single(n, list, held) ==
    /\ \A i, j \in 1 .. Len(list) : list[i] = n /\ list[j] = n => i = j
    /\ \A i \in 1 .. Len(list) : list[i] = n => \A d \in Where[n] : <<d, n>> \in held

OnceNames == {n \in Once \cap DOMAIN Where : Cardinality(Where[n]) = 1}

IInv == Piped /\ \A n \in OnceNames : Single(n, passes, libs)

\* The list pass is never in the pipeline: its init function ends the process.
Pipeline == Range(passes) \subseteq Names \ {"list"}

\* What TypeOK needs: the command line is a sequence of words, and load_passes
\* is within it or at its end.
Typed ==
    /\ TypeOK
    /\ argv \in Seq(Range(argv))
    /\ phase = "options" => at = 1

-----------------------------------------------------------------------------
(* Numbers, sequences and directories. *)

\* The least of some natural numbers is one of them, and none is below it.
LEMMA MinIsLeast ==
    ASSUME NEW S \in SUBSET Nat, S # {}
    PROVE  Min(S) \in S /\ \A y \in S : Min(S) <= y
<1> DEFINE R == {ss \in Nat \X Nat : ss[1] < ss[2]}
<1>1. IsWellFoundedOn(R, Nat)
  BY NatLessThanWellFounded, Zenon DEF OpToRel
<1>2. PICK x \in S : \A y \in S : ~(<<y, x>> \in R)
  <2> HIDE DEF R
  <2> QED BY <1>1, WFMin
<1>3. \A y \in S : x <= y
  <2> SUFFICES ASSUME NEW y \in S PROVE x <= y
    OBVIOUS
  <2>1. y \in Nat /\ x \in Nat
    OBVIOUS
  <2>2. y < x => <<y, x>> \in R
    BY <2>1
  <2> HIDE DEF R
  <2>3. ~(y < x)
    BY <1>2, <2>2
  <2> QED BY <2>1, <2>3
<1> QED BY <1>3 DEF Min

\* Insert leaves the others in their order, and the first the first.
LEMMA Inserting ==
    ASSUME NEW S, NEW l \in Seq(S), NEW x \in S
    PROVE  /\ Insert(l, x) \in Seq(S)
           /\ Len(Insert(l, x)) = Len(l) + 1
           /\ l = <<>> => Insert(l, x)[1] = x
           /\ l # <<>> => \A i \in 1 .. Len(l) + 1 :
                 Insert(l, x)[i] = IF i = 2 THEN x ELSE l[IF i < 2 THEN i ELSE i - 1]
<1>1. CASE l = <<>>
  BY <1>1 DEF Insert
<1>2. CASE l # <<>>
  <2>1. Insert(l, x) = <<Head(l), x>> \o Tail(l)
    BY <1>2 DEF Insert
  <2>2. /\ Head(l) \in S /\ Head(l) = l[1]
        /\ Tail(l) \in Seq(S)
        /\ Len(Tail(l)) = Len(l) - 1 /\ Len(l) \in Nat \ {0}
        /\ \A i \in 1 .. Len(Tail(l)) : Tail(l)[i] = l[i + 1]
    BY <1>2, HeadTailProperties, LenProperties, EmptySeq
  <2>3. <<Head(l), x>> \in Seq(S) /\ Len(<<Head(l), x>>) = 2
    BY <2>2
  <2>4. /\ Insert(l, x) \in Seq(S)
        /\ Len(Insert(l, x)) = 2 + Len(Tail(l))
        /\ \A i \in 1 .. 2 + Len(Tail(l)) : Insert(l, x)[i] =
              IF i <= 2 THEN <<Head(l), x>>[i] ELSE Tail(l)[i - 2]
    BY <2>1, <2>2, <2>3, ConcatProperties
  <2> QED BY <1>2, <2>2, <2>4
<1> QED BY <1>1, <1>2

\* RemoveFirst takes one x away, if there is one, and leaves the others in
\* their order.
LEMMA Removing ==
    ASSUME NEW S, NEW l \in Seq(S), NEW x
    PROVE  \/ RemoveFirst(l, x) = l
           \/ \E p \in 1 .. Len(l) :
                 /\ l[p] = x
                 /\ RemoveFirst(l, x) \in Seq(S)
                 /\ Len(RemoveFirst(l, x)) = Len(l) - 1
                 /\ \A i \in 1 .. Len(l) - 1 :
                       RemoveFirst(l, x)[i] = l[IF i < p THEN i ELSE i + 1]
<1> DEFINE p == Min({i \in 1 .. Len(l) : l[i] = x})
           a == SubSeq(l, 1, p - 1)
           b == SubSeq(l, p + 1, Len(l))
           new == RemoveFirst(l, x)
<1>1. new = IF \E i \in 1 .. Len(l) : l[i] = x THEN RemoveAt(l, p) ELSE l
  BY ONLY DEF RemoveFirst, SelectInSeq
<1>2. CASE ~\E i \in 1 .. Len(l) : l[i] = x
  BY <1>1, <1>2
<1>3. CASE \E i \in 1 .. Len(l) : l[i] = x
  <2>1. Len(l) \in Nat /\ \A i \in 1 .. Len(l) : l[i] \in S
    BY LenProperties, ElementOfSeq
  <2>2. p \in 1 .. Len(l) /\ l[p] = x
    <3> DEFINE I == {i \in 1 .. Len(l) : l[i] = x}
    <3>1. I \in SUBSET Nat /\ I # {}
      BY <1>3, <2>1
    <3>2. Min(I) \in I
      <4> HIDE DEF I
      <4> QED BY <3>1, MinIsLeast
    <3> QED BY <3>2
  <2> HIDE DEF p
  <2>3. /\ a \in Seq(S) /\ Len(a) = p - 1
        /\ \A i \in 1 .. p - 1 : a[i] = l[i]
    BY <2>1, <2>2, SubSeqProperties
  <2>4. /\ b \in Seq(S) /\ Len(b) = Len(l) - p
        /\ \A i \in 1 .. Len(l) - p : b[i] = l[p + i]
    <3>1. \A i \in p + 1 .. Len(l) : l[i] \in S
      BY <2>1, <2>2
    <3> QED BY <2>1, <2>2, <3>1, SubSeqProperties
  <2> HIDE DEF a, b, new
  <2>5. /\ a \o b \in Seq(S)
        /\ Len(a \o b) = Len(l) - 1
        /\ \A i \in 1 .. Len(l) - 1 : (a \o b)[i] = IF i <= p - 1 THEN a[i] ELSE b[i - (p - 1)]
    <3>1. /\ a \o b \in Seq(S) /\ Len(a \o b) = Len(a) + Len(b)
          /\ \A i \in 1 .. Len(a) + Len(b) :
                (a \o b)[i] = IF i <= Len(a) THEN a[i] ELSE b[i - Len(a)]
      BY <2>3, <2>4, ConcatProperties
    <3>2. Len(a) = p - 1 /\ Len(a) + Len(b) = Len(l) - 1
      BY <2>1, <2>2, <2>3, <2>4
    <3> QED BY <3>1, <3>2
  <2>6. \A i \in 1 .. Len(l) - 1 : (a \o b)[i] = l[IF i < p THEN i ELSE i + 1]
    BY <2>1, <2>2, <2>3, <2>4, <2>5
  <2>7. new = a \o b
    BY <1>1, <1>3 DEF RemoveAt, a, b
  <2>8. /\ new \in Seq(S) /\ Len(new) = Len(l) - 1
        /\ \A i \in 1 .. Len(l) - 1 : new[i] = l[IF i < p THEN i ELSE i + 1]
    BY <2>5, <2>6, <2>7
  <2> QED BY <2>2, <2>8 DEF new
<1> QED BY <1>2, <1>3

\* What load_pass opens lies in a directory that has the pass, and in none that
\* was used before if the pass is to be loaded once.
LEMMA Opening ==
    ASSUME NEW name, Creates(name), name # "list"
    PROVE  \E d \in Where[name] :
              /\ name \in DOMAIN Where
              /\ name \in Once => <<d, name>> \notin libs
              /\ Opened(name) = libs \cup {<<d, name>>}
<1>1. name \in DOMAIN Where /\ Found(name) # {} /\ Found(name) \in SUBSET Where[name]
  BY DEF Creates, Found
<1>2. Where[name] \in SUBSET Nat
  BY <1>1, PassesAssumption
<1> DEFINE d == Min(Found(name))
<1>3. d \in Found(name)
  BY <1>1, <1>2, MinIsLeast
<1>4. Opened(name) = libs \cup {<<d, name>>}
  BY DEF Opened
<1> HIDE DEF d
<1> QED BY <1>1, <1>3, <1>4 DEF Found

\* A pass whose init function neither fails nor exits has a library.
LEMMA HasLibrary ==
    ASSUME NEW name, NEW line, NEW i, NEW n, NEW outcome \in Outcomes(name, line, i, n),
           Creates(name), outcome # "exits"
    PROVE  name # "list" /\ name \in DOMAIN Where
<1>1. "list" \notin Fallible
  BY PassesAssumption DEF Hardcoded
<1>2. name = "list" => Outcomes(name, line, i, n) = {"exits"}
  BY <1>1 DEF Outcomes
<1> QED BY <1>2 DEF Creates

-----------------------------------------------------------------------------
(* The three ways the pipeline changes. *)

\* The pass stays where it is, and no library is let go.
LEMMA Staying ==
    ASSUME NEW n, Single(n, passes, libs), passes' = passes, libs \subseteq libs'
    PROVE  Single(n, passes', libs')
BY DEF Single

\* Something other than the two is inserted behind the first pass.
LEMMA InsertOrdered ==
    ASSUME NEW S, NEW l \in Seq(S), Ordered(l),
           NEW x \in S, x \notin {"resolve", "interactive"}
    PROVE  Ordered(Insert(l, x))
<1> DEFINE new == Insert(l, x)
<1>1. Len(l) \in Nat /\ Len(new) = Len(l) + 1 /\ (l = <<>> => new[1] = x)
  BY LenProperties, Inserting
<1>2. CASE l = <<>>
  <2>1. Len(new) = 1 /\ new[1] = x
    <3>1. Len(l) = 0
      BY <1>2
    <3> HIDE DEF new
    <3> QED BY <3>1, <1>1, <1>2
  <2> HIDE DEF new
  <2> QED BY <2>1 DEF Ordered, new
<1>3. CASE l # <<>>
  <2>1. \A i \in 1 .. Len(l) + 1 : new[i] = IF i = 2 THEN x ELSE l[IF i < 2 THEN i ELSE i - 1]
    BY <1>3, Inserting
  <2> HIDE DEF new
  <2>2. ASSUME NEW i \in 1 .. Len(new), new[i] = "resolve" PROVE i = 1 /\ l[1] = "resolve"
    <3>1. i # 2
      BY <1>1, <2>1, <2>2
    <3>2. CASE i = 1
      BY <3>2, <1>1, <1>3, <2>1, <2>2
    <3>3. CASE i > 2
      <4>1. i - 1 \in 1 .. Len(l) /\ l[i - 1] = "resolve"
        BY <3>3, <1>1, <2>1, <2>2
      <4> QED BY <4>1, <3>3 DEF Ordered
    <3> QED BY <3>1, <3>2, <3>3, <1>1
  <2>3. ASSUME NEW i \in 1 .. Len(new), NEW j \in 1 .. Len(new),
               new[i] = "resolve", new[j] = "interactive"
        PROVE  j = Len(new)
    <3>1. l[1] = "resolve" /\ 1 \in 1 .. Len(l)
      <4>1. Len(l) # 0
        BY <1>3, EmptySeq
      <4> QED BY <4>1, <1>1, <2>2, <2>3
    <3>2. j # 2 /\ j # 1
      BY <1>1, <2>1, <2>3, <3>1
    <3>3. j - 1 \in 1 .. Len(l) /\ l[j - 1] = "interactive"
      BY <3>2, <1>1, <2>1, <2>3
    <3>4. j - 1 = Len(l)
      BY <3>1, <3>3 DEF Ordered
    <3> QED BY <3>4, <1>1
  <2>4. Ordered(new)
    BY <2>2, <2>3 DEF Ordered
  <2> QED BY <2>4 DEF new
<1> QED BY <1>2, <1>3

\* What is inserted is not n, or n was not there and its library is loaded now.
LEMMA InsertSingle ==
    ASSUME NEW S, NEW l \in Seq(S), NEW n, NEW x \in S, NEW held, NEW more,
           Single(n, l, held), held \subseteq more,
           x = n => /\ \A i \in 1 .. Len(l) : l[i] # n
                    /\ \A d \in Where[n] : <<d, n>> \in more
    PROVE  Single(n, Insert(l, x), more)
<1> DEFINE new == Insert(l, x)
<1>1. Len(l) \in Nat /\ Len(new) = Len(l) + 1 /\ (l = <<>> => new[1] = x)
  BY LenProperties, Inserting
<1>2. CASE l = <<>>
  <2>1. Len(new) = 1 /\ new[1] = x
    <3>1. Len(l) = 0
      BY <1>2
    <3> HIDE DEF new
    <3> QED BY <3>1, <1>1, <1>2
  <2> HIDE DEF new
  <2> QED BY <2>1 DEF Single, new
<1>3. CASE l # <<>>
  <2>1. \A i \in 1 .. Len(l) + 1 : new[i] = IF i = 2 THEN x ELSE l[IF i < 2 THEN i ELSE i - 1]
    BY <1>3, Inserting
  <2>2. Len(l) # 0
    BY <1>3, EmptySeq
  <2> HIDE DEF new
  <2> DEFINE old(i) == IF i < 2 THEN i ELSE i - 1
  <2>3. ASSUME NEW i \in 1 .. Len(new), new[i] = n
        PROVE  (i = 2 /\ x = n) \/ (i # 2 /\ old(i) \in 1 .. Len(l) /\ l[old(i)] = n)
    BY <1>1, <2>1, <2>2, <2>3
  <2>4. ASSUME NEW i \in 1 .. Len(new), NEW j \in 1 .. Len(new), new[i] = n, new[j] = n
        PROVE  i = j
    <3>1. CASE x = n
      <4>1. i = 2 /\ j = 2
        <5> HIDE DEF old
        <5> QED BY <3>1, <2>3, <2>4
      <4> QED BY <4>1
    <3>2. CASE x # n
      <4>1. i # 2 /\ j # 2 /\ old(i) = old(j)
        <5> HIDE DEF old
        <5> QED BY <3>2, <2>3, <2>4 DEF Single
      <4> QED BY <4>1, <1>1
    <3> QED BY <3>1, <3>2
  <2>5. ASSUME NEW i \in 1 .. Len(new), new[i] = n PROVE \A d \in Where[n] : <<d, n>> \in more
    <3> HIDE DEF old
    <3> QED BY <2>3, <2>5 DEF Single
  <2>6. Single(n, new, more)
    BY <2>4, <2>5 DEF Single
  <2> QED BY <2>6 DEF new
<1> QED BY <1>2, <1>3

\* A pass is taken out.
LEMMA RemoveKeeps ==
    ASSUME NEW S, NEW l \in Seq(S), NEW x
    PROVE  /\ RemoveFirst(l, x) \in Seq(S)
           /\ Ordered(l) => Ordered(RemoveFirst(l, x))
           /\ \A n, held : Single(n, l, held) => Single(n, RemoveFirst(l, x), held)
<1> DEFINE new == RemoveFirst(l, x)
<1>1. CASE new = l
  BY <1>1
<1>2. CASE \E p \in 1 .. Len(l) :
              /\ l[p] = x /\ new \in Seq(S) /\ Len(new) = Len(l) - 1
              /\ \A i \in 1 .. Len(l) - 1 : new[i] = l[IF i < p THEN i ELSE i + 1]
  <2> HIDE DEF new
  <2>1. PICK p \in 1 .. Len(l) :
              /\ l[p] = x /\ new \in Seq(S) /\ Len(new) = Len(l) - 1
              /\ \A i \in 1 .. Len(l) - 1 : new[i] = l[IF i < p THEN i ELSE i + 1]
    BY <1>2
  <2> DEFINE old(i) == IF i < p THEN i ELSE i + 1
  <2>2. Len(l) \in Nat
    BY LenProperties
  <2>3. \A i \in 1 .. Len(new) : old(i) \in 1 .. Len(l) /\ new[i] = l[old(i)]
    BY <2>1, <2>2
  <2>4. \A i, j \in 1 .. Len(new) : old(i) = old(j) => i = j
    BY <2>1, <2>2
  <2>5. \A i \in 1 .. Len(new) : /\ old(i) = 1 => i = 1
                                 /\ old(i) = Len(l) => i = Len(new)
    BY <2>1, <2>2
  <2>6. ASSUME Ordered(l) PROVE Ordered(new)
    <3>1. ASSUME NEW i \in 1 .. Len(new), new[i] = "resolve" PROVE i = 1
      <4>1. old(i) \in 1 .. Len(l) /\ l[old(i)] = "resolve"
        BY <2>3, <3>1
      <4> HIDE DEF old
      <4> QED BY <4>1, <2>5, <2>6 DEF Ordered
    <3>2. ASSUME NEW i \in 1 .. Len(new), NEW j \in 1 .. Len(new),
                 new[i] = "resolve", new[j] = "interactive"
          PROVE  j = Len(new)
      <4>1. /\ old(i) \in 1 .. Len(l) /\ l[old(i)] = "resolve"
            /\ old(j) \in 1 .. Len(l) /\ l[old(j)] = "interactive"
        BY <2>3, <3>2
      <4> HIDE DEF old
      <4> QED BY <4>1, <2>5, <2>6 DEF Ordered
    <3> QED BY <3>1, <3>2 DEF Ordered
  <2>7. ASSUME NEW n, NEW held, Single(n, l, held) PROVE Single(n, new, held)
    <3> HIDE DEF old
    <3>1. ASSUME NEW i \in 1 .. Len(new), NEW j \in 1 .. Len(new), new[i] = n, new[j] = n
          PROVE  i = j
      BY <2>3, <2>4, <2>7, <3>1 DEF Single
    <3>2. ASSUME NEW i \in 1 .. Len(new), new[i] = n
          PROVE  \A d \in Where[n] : <<d, n>> \in held
      BY <2>3, <2>7, <3>2 DEF Single
    <3> QED BY <3>1, <3>2 DEF Single
  <2>8. new \in Seq(S)
    BY <2>1
  <2> QED BY <2>6, <2>7, <2>8 DEF new
<1>3. \/ new = l
      \/ \E p \in 1 .. Len(l) :
            /\ l[p] = x /\ new \in Seq(S) /\ Len(new) = Len(l) - 1
            /\ \A i \in 1 .. Len(l) - 1 : new[i] = l[IF i < p THEN i ELSE i + 1]
  BY Removing
<1> QED BY <1>1, <1>2, <1>3

-----------------------------------------------------------------------------
(* The steps. *)

\* A pass that was found is inserted, its library opened.
LEMMA Loading ==
    ASSUME IInv, NEW name \in DOMAIN Where, Creates(name), phase # "options",
           passes' = Insert(passes, name), libs' = Opened(name), phase' = phase
    PROVE  IInv'
<1>1. name \in Names \ {"list", "resolve", "interactive"}
  BY PassesAssumption DEF Names, Hardcoded
<1>2. PICK d \in Where[name] : /\ name \in Once => <<d, name>> \notin libs
                               /\ libs' = libs \cup {<<d, name>>}
  <2>1. name # "list"
    BY <1>1
  <2> QED BY <2>1, Opening, Zenon
<1>3. passes \in Seq(Names \ {"list"}) /\ Ordered(passes)
  BY DEF IInv, Piped
<1>4. passes' \in Seq(Names \ {"list"}) /\ Ordered(passes')
  BY <1>1, <1>3, Inserting, InsertOrdered
<1>5. ASSUME NEW n \in OnceNames PROVE Single(n, passes', libs')
  <2>1. Single(n, passes, libs)
    BY DEF IInv
  <2>2. libs \subseteq libs'
    BY <1>2
  <2>3. ASSUME name = n
        PROVE  /\ \A i \in 1 .. Len(passes) : passes[i] # n
               /\ \A e \in Where[n] : <<e, n>> \in libs'
    <3>1. n \in Once /\ IsFiniteSet(Where[n]) /\ Cardinality(Where[n]) = 1
      BY PassesAssumption DEF OnceNames
    <3>2. \E e : Where[n] = {e}
      BY <3>1, FS_Singleton
    <3>3. Where[n] = {d}
      BY <3>2, <2>3
    <3>4. <<d, n>> \notin libs /\ <<d, n>> \in libs'
      BY <1>2, <2>3, <3>1
    <3>5. \A i \in 1 .. Len(passes) : passes[i] # n
      BY <2>1, <3>3, <3>4 DEF Single
    <3> QED BY <3>3, <3>4, <3>5
  <2> QED BY <1>1, <1>3, <2>1, <2>2, <2>3, InsertSingle
<1> QED BY <1>4, <1>5 DEF IInv, Piped, OnceNames

\* The pipeline stays, and libraries may be opened.
LEMMA Keeping ==
    ASSUME IInv, passes' = passes, libs \subseteq libs', phase' = "options" => phase = "options"
    PROVE  IInv'
<1>1. \A n \in OnceNames : Single(n, passes', libs')
  BY Staying DEF IInv
<1> QED BY <1>1 DEF IInv, Piped, OnceNames

LEMMA OpenedMore ==
    ASSUME NEW name
    PROVE  libs \subseteq Opened(name)
BY DEF Opened

LEMMA ParseOptsKeeps ==
    ASSUME IInv, ParseOpts
    PROVE  IInv'
<1>1. libs' = libs /\ passes = <<"resolve">> /\ phase' # "options"
  BY DEF ParseOpts, InteractiveInit, IInv, Piped
<1>2. passes' \in {passes, Append(passes, "interactive")}
  BY DEF ParseOpts, InteractiveInit
<1>3. CASE passes' = passes
  BY <1>1, <1>3, Keeping
<1>4. CASE passes' = Append(passes, "interactive")
  <2>1. /\ passes \in Seq(Names \ {"list"}) /\ Len(passes) = 1 /\ passes[1] = "resolve"
        /\ "interactive" \in Names \ {"list"}
    BY <1>1 DEF Names, Hardcoded
  <2>2. Len(passes') = 2 /\ passes'[1] = "resolve" /\ passes'[2] = "interactive"
    <3>1. /\ Len(passes') = Len(passes) + 1 /\ passes'[Len(passes) + 1] = "interactive"
          /\ \A i \in 1 .. Len(passes) : passes'[i] = passes[i]
      BY <1>4, <2>1, AppendProperties
    <3> QED BY <2>1, <3>1
  <2>3. passes' \in Seq(Names \ {"list"})
    BY <1>4, <2>1, AppendProperties
  <2>4. Ordered(passes')
    <3>1. Len(passes)' = 2
      BY <2>2
    <3> QED BY <2>2 DEF Ordered
  <2>5. ASSUME NEW n \in OnceNames PROVE Single(n, passes', libs')
    <3>1. n # "resolve" /\ n # "interactive"
      BY PassesAssumption DEF OnceNames, Hardcoded
    <3>2. \A i \in 1 .. Len(passes') : passes'[i] # n
      BY <2>2, <3>1
    <3> QED BY <3>2 DEF Single
  <2> QED BY <1>1, <2>3, <2>4, <2>5 DEF IInv, Piped, OnceNames
<1> QED BY <1>2, <1>3, <1>4

LEMMA LoadPassKeeps ==
    ASSUME IInv, LoadPass
    PROVE  IInv'
<1> DEFINE n == CountArgs
           line == [argv EXCEPT ![at + n - 1] = Cut(@)]
           args == SubSeq(line, at, at + n - 1)
           name == IF Len(args[1]) = 1 THEN args[1][1] ELSE ""
<1>1. phase = "loading"
  BY DEF LoadPass
<1>2. CASE ~Creates(name)
  <2>1. phase' = phase /\ libs' = libs /\ passes' = passes
    BY <1>2 DEF LoadPass
  <2> QED BY <2>1, Keeping
<1>3. CASE Creates(name)
  <2>1. libs' = Opened(name)
    BY <1>3 DEF LoadPass
  <2>2. PICK outcome \in Outcomes(name, line, at, n) :
           /\ phase' = IF outcome = "exits" THEN "exited" ELSE phase
           /\ IF outcome \in {"fails", "exits"}
              THEN passes' = passes ELSE passes' = Insert(passes, name)
    BY <1>3 DEF LoadPass
  <2> HIDE DEF n, line, name
  <2>3. CASE outcome \in {"fails", "exits"}
    <3>1. passes' = passes /\ phase' # "options" /\ libs \subseteq libs'
      BY <1>1, <2>1, <2>2, <2>3, OpenedMore
    <3> QED BY <3>1, Keeping
  <2>4. CASE outcome \notin {"fails", "exits"}
    <3>1. passes' = Insert(passes, name) /\ phase' = phase
      BY <2>2, <2>4
    <3>2. name \in DOMAIN Where
      BY <1>3, <2>4, HasLibrary
    <3> QED BY <1>1, <1>3, <2>1, <3>1, <3>2, Loading
  <2> QED BY <2>3, <2>4
<1> QED BY <1>2, <1>3

LEMMA BeginKeeps ==
    ASSUME IInv, Begin
    PROVE  IInv'
<1>1. libs' = libs /\ phase' # "options" /\ passes' \in {passes, Insert(passes, "objinfo")}
  BY DEF Begin
<1>2. CASE passes' = passes
  BY <1>1, <1>2, Keeping
<1>3. CASE passes' = Insert(passes, "objinfo")
  <2>1. "objinfo" \in (Names \ {"list"}) \ {"resolve", "interactive"}
    BY DEF Names, Hardcoded
  <2>2. passes \in Seq(Names \ {"list"}) /\ Ordered(passes)
    BY DEF IInv, Piped
  <2>3. passes' \in Seq(Names \ {"list"}) /\ Ordered(passes')
    BY <1>3, <2>1, <2>2, Inserting, InsertOrdered
  <2>4. ASSUME NEW n \in OnceNames PROVE Single(n, passes', libs')
    <3>1. "objinfo" # n
      BY PassesAssumption DEF OnceNames, Hardcoded
    <3>2. Single(n, passes, libs)
      BY DEF IInv
    <3> QED BY <1>1, <1>3, <2>1, <2>2, <3>1, <3>2, InsertSingle
  <2> QED BY <1>1, <2>3, <2>4 DEF IInv, Piped, OnceNames
<1> QED BY <1>1, <1>2, <1>3

LEMMA AddPassKeeps ==
    ASSUME IInv, NEW name, AddPass(name)
    PROVE  IInv'
<1>1. phase = "running"
  BY DEF AddPass, Prompts
<1>2. CASE ~Creates(name)
  <2>1. phase' = phase /\ libs' = libs /\ passes' = passes
    BY <1>2 DEF AddPass
  <2> QED BY <2>1, Keeping
<1>3. CASE Creates(name)
  <2>1. libs' = Opened(name)
    BY <1>3 DEF AddPass
  <2>2. PICK outcome \in Outcomes(name, <<>>, 1, 0) :
           /\ phase' = IF outcome = "exits" THEN "exited" ELSE phase
           /\ passes' = IF outcome = "succeeds" THEN Insert(passes, name) ELSE passes
    BY <1>3 DEF AddPass
  <2>3. CASE outcome # "succeeds"
    <3>1. passes' = passes /\ phase' # "options" /\ libs \subseteq libs'
      BY <1>1, <2>1, <2>2, <2>3, OpenedMore
    <3> QED BY <3>1, Keeping
  <2>4. CASE outcome = "succeeds"
    <3>1. passes' = Insert(passes, name) /\ phase' = phase
      BY <2>2, <2>4
    <3>2. name \in DOMAIN Where
      BY <1>3, <2>4, HasLibrary
    <3> QED BY <1>1, <1>3, <2>1, <3>1, <3>2, Loading
  <2> QED BY <2>3, <2>4
<1> QED BY <1>2, <1>3

LEMMA RemovePassKeeps ==
    ASSUME IInv, NEW name, RemovePass(name)
    PROVE  IInv'
<1>1. passes' = RemoveFirst(passes, name) /\ phase' = phase /\ libs' = libs
  BY DEF RemovePass
<1>2. phase = "running"
  BY DEF RemovePass, Prompts
<1>3. passes' \in Seq(Names \ {"list"}) /\ Ordered(passes')
  BY <1>1, RemoveKeeps DEF IInv, Piped
<1>4. \A n \in OnceNames : Single(n, passes', libs')
  BY <1>1, RemoveKeeps DEF IInv, Piped
<1> QED BY <1>1, <1>2, <1>3, <1>4 DEF IInv, Piped, OnceNames

LEMMA InitHolds == Init => IInv
<1> SUFFICES ASSUME Init PROVE IInv
  OBVIOUS
<1>1. passes = <<"resolve">> /\ phase = "options"
  BY DEF Init
<1>2. passes \in Seq(Names \ {"list"}) /\ Len(passes) = 1 /\ passes[1] = "resolve"
  BY <1>1 DEF Names, Hardcoded
<1>3. Ordered(passes)
  BY <1>2 DEF Ordered
<1>4. ASSUME NEW n \in OnceNames PROVE Single(n, passes, libs)
  <2>1. n # "resolve"
    BY PassesAssumption DEF OnceNames, Hardcoded
  <2> QED BY <1>2, <2>1 DEF Single
<1> QED BY <1>1, <1>2, <1>3, <1>4 DEF IInv, Piped

LEMMA StepHolds == IInv /\ [Next]_vars => IInv'
<1> SUFFICES ASSUME IInv, [Next]_vars PROVE IInv'
  OBVIOUS
<1>1. CASE ParseOpts
  BY <1>1, ParseOptsKeeps
<1>2. CASE Program \/ Skip \/ NoneLeft \/ Leave
  <2>1. passes' = passes /\ libs' = libs /\ phase' # "options"
    BY <1>2 DEF Program, Skip, NoneLeft, Leave
  <2> QED BY <2>1, Keeping
<1>3. CASE LoadPass
  BY <1>3, LoadPassKeeps
<1>4. CASE Begin
  BY <1>4, BeginKeeps
<1>5. ASSUME NEW n \in Names, AddPass(n) PROVE IInv'
  BY <1>5, AddPassKeeps
<1>6. ASSUME NEW n \in Names, RemovePass(n) PROVE IInv'
  BY <1>6, RemovePassKeeps
<1>7. CASE UNCHANGED vars
  BY <1>7, Keeping DEF vars
<1> QED BY <1>1, <1>2, <1>3, <1>4, <1>5, <1>6, <1>7 DEF Next, Load

LEMMA IInvHolds == Spec => []IInv
BY InitHolds, StepHolds, PTL DEF Spec

-----------------------------------------------------------------------------
(* The theorems. *)

\* As long as "resolve" is in the pipeline it is the first pass and every pass
\* of the pipeline is run, whatever the command line asks for and "pass add" and
\* "pass remove" do afterwards (passes.c:143, interactive.c:231).
THEOREM ServesAll == Spec => []AllServed
<1>1. IInv => AllServed
  <2> SUFFICES ASSUME IInv, "resolve" \in Range(passes)
               PROVE  Head(passes) = "resolve" /\ Served(passes) = Len(passes)
    BY DEF AllServed
  <2>1. passes \in Seq(Names \ {"list"}) /\ Ordered(passes)
    BY DEF IInv, Piped
  <2>2. Len(passes) \in Nat /\ DOMAIN passes = 1 .. Len(passes)
    BY <2>1, LenProperties
  <2>3. PICK r \in 1 .. Len(passes) : passes[r] = "resolve"
    BY <2>2 DEF Range
  <2>4. r = 1
    BY <2>1, <2>3 DEF Ordered
  <2>5. Head(passes) = "resolve"
    <3>1. passes # <<>>
      BY <2>2, <2>3, <2>4
    <3> QED BY <2>1, <2>3, <2>4, <3>1, HeadTailProperties
  <2> DEFINE I == {i \in 1 .. Len(passes) : passes[i] = "interactive"}
  <2>6. Served(passes) = LET stop == IF I # {} THEN Min(I) ELSE 0
                         IN  IF stop = 0 THEN Len(passes) ELSE stop
    BY DEF Served, SelectInSeq
  <2>7. \A i \in I : i = Len(passes)
    BY <2>1, <2>3 DEF Ordered
  <2>8. I # {} => Min(I) \in I
    <3>1. I \in SUBSET Nat
      BY <2>2
    <3> HIDE DEF I
    <3> QED BY <3>1, MinIsLeast
  <2> HIDE DEF I
  <2>9. Served(passes) = Len(passes)
    <3>1. CASE I = {}
      BY <2>6, <3>1
    <3>2. CASE I # {}
      <4>1. Min(I) = Len(passes)
        BY <2>7, <2>8, <3>2
      <4> QED BY <2>6, <3>2, <4>1
    <3> QED BY <3>1, <3>2
  <2> QED BY <2>5, <2>9
<1> QED BY <1>1, IInvHolds, PTL

\* A pass that is to be loaded once is in the pipeline once, whatever the
\* command line and the prompt ask for, if its library lies in one directory
\* (load_pass, passes.c:54).
THEOREM LoadsOnce == Spec => []LoadedOnce
<1>1. IInv => LoadedOnce
  <2> SUFFICES ASSUME IInv, NEW n \in OnceNames
               PROVE  Cardinality({i \in DOMAIN passes : passes[i] = n}) <= 1
    BY DEF LoadedOnce, OnceNames
  <2>1. passes \in Seq(Names \ {"list"}) /\ Single(n, passes, libs)
    BY DEF IInv, Piped
  <2>2. DOMAIN passes = 1 .. Len(passes)
    BY <2>1, LenProperties
  <2> DEFINE I == {i \in DOMAIN passes : passes[i] = n}
  <2>3. \A i, j \in I : i = j
    BY <2>1, <2>2 DEF Single
  <2> HIDE DEF I
  <2>4. CASE I = {}
    BY <2>4, FS_EmptySet DEF I
  <2>5. CASE I # {}
    <3>1. PICK i \in I : TRUE
      BY <2>5
    <3>2. I = {i}
      BY <2>3, <3>1
    <3>3. Cardinality(I) = 1
      BY <3>2, FS_Singleton
    <3> QED BY <3>3 DEF I
  <2> QED BY <2>4, <2>5
<1> QED BY <1>1, IInvHolds, PTL

-----------------------------------------------------------------------------
(* Types. *)

\* A sequence over any set is one over its range.
LEMMA IsList ==
    ASSUME NEW S, NEW l \in Seq(S)
    PROVE  l \in Seq(Range(l))
BY DEF Range

\* What get_opts leaves, and the options it has seen.
LEMMA OptionsTyped ==
    ASSUME NEW line, line \in Seq(Range(line))
    PROVE  /\ Options(line).set \subseteq OptionWords
           /\ Options(line).rest \in Seq(Range(Options(line).rest))
<1> DEFINE E == {Len(line) + 1} \cup {i \in DOMAIN line : line[i] \notin OptionWords}
           end == Min(E)
           from == IF end <= Len(line) /\ line[end] = Dashes THEN end + 1 ELSE end
<1>1. Len(line) \in Nat /\ DOMAIN line = 1 .. Len(line)
  BY LenProperties
<1>2. E \in SUBSET Nat /\ E # {} /\ Len(line) + 1 \in E /\ \A i \in E : i \in Nat /\ i >= 1
  BY <1>1
<1>3. \A i \in 1 .. Len(line) : line[i] \notin OptionWords => i \in E
  BY <1>1
<1>4. Options(line).set = {line[i] : i \in 1 .. end - 1}
  BY DEF Options
<1>5. Options(line).rest = SubSeq(line, from, Len(line))
  BY DEF Options
<1> HIDE DEF E
<1>6. end \in E /\ \A i \in E : end <= i
  BY <1>2, MinIsLeast
<1>7. end \in 1 .. Len(line) + 1
  <2>1. end \in Nat /\ 1 <= end
    <3> HIDE DEF end
    <3> QED BY <1>2, <1>6
  <2>2. end <= Len(line) + 1
    <3> HIDE DEF end
    <3> QED BY <1>2, <1>6
  <2> HIDE DEF end
  <2> QED BY <1>1, <2>1, <2>2
<1> HIDE DEF end
<1>8. ASSUME NEW i \in 1 .. end - 1 PROVE line[i] \in OptionWords
  <2>1. i \in 1 .. Len(line) /\ ~(end <= i)
    BY <1>1, <1>7
  <2> QED BY <1>3, <1>6, <2>1
<1>9. from \in 1 .. Len(line) + 1
  BY <1>1, <1>7
<1> HIDE DEF from
<1>10. SubSeq(line, from, Len(line)) \in Seq(Range(line))
  <2>1. \A i \in from .. Len(line) : line[i] \in Range(line)
    BY <1>1, <1>9 DEF Range
  <2> QED BY <1>1, <1>9, <2>1, SubSeqProperties
<1>11. SubSeq(line, from, Len(line)) \in Seq(Range(SubSeq(line, from, Len(line))))
  BY <1>10, IsList
<1> QED BY <1>4, <1>5, <1>8, <1>11

\* count_args stays within the line.
LEMMA CountArgsFits ==
    ASSUME Typed, at <= Len(argv)
    PROVE  CountArgs \in 0 .. Len(argv) + 1 - at
<1> DEFINE ends == {k \in at .. Len(argv) : argv[k] = Dashes \/ Len(argv[k]) > 1}
           more == IF argv[Min(ends)] \in {Dashes, Comma} THEN 0 ELSE 1
<1>1. at \in Nat /\ Len(argv) \in Nat
  BY LenProperties DEF Typed, TypeOK
<1>2. CountArgs = IF ends = {} THEN Len(argv) - at + 1 ELSE Min(ends) - at + more
  BY DEF CountArgs
<1>3. ends \in SUBSET (at .. Len(argv)) /\ ends \in SUBSET Nat /\ more \in 0 .. 1
  BY <1>1
<1> HIDE DEF ends, more
<1>4. CASE ends = {}
  BY <1>1, <1>2, <1>4
<1>5. CASE ends # {}
  <2>1. Min(ends) \in at .. Len(argv)
    BY <1>3, <1>5, MinIsLeast
  <2> QED BY <1>1, <1>2, <1>3, <1>5, <2>1
<1> QED BY <1>4, <1>5

LEMMA InitTyped == Init => Typed
<1> SUFFICES ASSUME Init PROVE Typed
  OBVIOUS
<1>1. argv \in Seq(Range(argv)) /\ words = argv /\ at = 1 /\ Len(argv) \in Nat
  <2>1. argv \in Seq(Word)
    BY PassesAssumption DEF Init
  <2> QED BY <2>1, IsList, LenProperties DEF Init
<1>2. Range(passes) \subseteq Names \ {"list"}
  BY DEF Init, Range, Names, Hardcoded
<1>3. /\ phase = "options" /\ opts = {} /\ exit = FALSE /\ refused = FALSE
      /\ commands = 0 /\ libs = {}
  BY DEF Init
<1>4. phase \in Phase /\ opts \subseteq OptionWords /\ exit \in BOOLEAN /\ refused \in BOOLEAN
  BY <1>3 DEF Phase
<1>5. at \in 1 .. Len(argv) + 1 /\ Len(argv) = Len(words) /\ commands \in 0 .. MaxCommands
  BY <1>1, <1>3, PassesAssumption
<1>6. \A lib \in libs : lib[2] \in DOMAIN Where /\ lib[1] \in Where[lib[2]]
  BY <1>3
<1> QED BY <1>1, <1>2, <1>4, <1>5, <1>6 DEF Typed, TypeOK

\* The libraries stay those of the directories.
LEMMA LibsTyped ==
    ASSUME Typed, NEW name, Creates(name), libs' = Opened(name)
    PROVE  \A lib \in libs' : lib[2] \in DOMAIN Where /\ lib[1] \in Where[lib[2]]
<1>1. \A lib \in libs : lib[2] \in DOMAIN Where /\ lib[1] \in Where[lib[2]]
  BY DEF Typed, TypeOK
<1>2. CASE name = "list"
  BY <1>1, <1>2 DEF Opened
<1>3. CASE name # "list"
  <2>1. \E d \in Where[name] : name \in DOMAIN Where /\ libs' = libs \cup {<<d, name>>}
    BY <1>3, Opening
  <2> QED BY <1>1, <2>1
<1> QED BY <1>2, <1>3

LEMMA ParseOptsTyped ==
    ASSUME Typed, ParseOpts, Pipeline'
    PROVE  Typed'
<1>1. /\ opts' = Options(argv).set /\ argv' = Options(argv).rest /\ words' = argv'
      /\ UNCHANGED <<at, libs, exit, commands, refused>>
      /\ at = 1
  BY DEF ParseOpts, Typed
<1>2. phase' \in {"exited", "undefined", "loaded", "loading"}
  BY DEF ParseOpts, InteractiveInit
<1>3. opts' \subseteq OptionWords /\ argv' \in Seq(Range(argv'))
  BY <1>1, OptionsTyped DEF Typed
<1>4. at' \in 1 .. Len(argv') + 1 /\ Len(argv') = Len(words')
  BY <1>1, <1>3, LenProperties
<1> QED BY <1>1, <1>2, <1>3, <1>4 DEF Typed, TypeOK, Pipeline, Phase

LEMMA LoadPassTyped ==
    ASSUME Typed, LoadPass, Pipeline'
    PROVE  Typed'
<1> DEFINE n == CountArgs
           line == [argv EXCEPT ![at + n - 1] = Cut(@)]
           args == SubSeq(line, at, at + n - 1)
           name == IF Len(args[1]) = 1 THEN args[1][1] ELSE ""
<1>1. /\ phase = "loading" /\ at <= Len(argv) /\ n > 0 /\ argv' = line
      /\ UNCHANGED <<opts, words, commands>>
  BY DEF LoadPass, start
<1>2. /\ at \in Nat \ {0} /\ Len(argv) \in Nat /\ n \in 0 .. Len(argv) + 1 - at
      /\ Len(words) = Len(argv)
  BY <1>1, CountArgsFits, LenProperties DEF Typed, TypeOK
<1>3. argv' \in Seq(Range(argv')) /\ Len(argv') = Len(argv)
  <2> DEFINE S == Range(argv) \cup {Cut(argv[at + n - 1])}
  <2>1. argv \in Seq(S) /\ Cut(argv[at + n - 1]) \in S
    BY SeqMonotonic DEF Typed
  <2>2. at + n - 1 \in 1 .. Len(argv)
    BY <1>1, <1>2
  <2>3. line = [argv EXCEPT ![at + n - 1] = Cut(argv[at + n - 1])]
    OBVIOUS
  <2> HIDE DEF S, n
  <2>4. line \in Seq(S) /\ Len(line) = Len(argv)
    BY <2>1, <2>2, <2>3, ExceptSeq
  <2> HIDE DEF line
  <2> QED BY <1>1, <2>4, IsList
<1>4. at' \in {at, at + n} /\ phase' \in {"loading", "exited"}
  BY <1>1 DEF LoadPass, Past
<1>5. at' \in 1 .. Len(argv') + 1 /\ Len(argv') = Len(words')
  <2> HIDE DEF n
  <2> QED BY <1>1, <1>2, <1>3, <1>4
<1>6. exit' \in BOOLEAN /\ refused' \in BOOLEAN
  <2>1. exit \in BOOLEAN /\ refused \in BOOLEAN
    BY DEF Typed, TypeOK
  <2>2. exit' \in BOOLEAN
    <3>1. exit' = exit \/ exit' = (exit \/ (name = "dump" /\ <<"help">> \in Range(Tail(args))))
      BY DEF LoadPass
    <3> HIDE DEF name, args
    <3> QED BY <2>1, <3>1, Zenon
  <2>3. refused' \in BOOLEAN
    <3>1. refused' = refused \/ \E outcome : refused' = (refused \/ outcome = "fails")
      BY DEF LoadPass
    <3> QED BY <2>1, <3>1, Zenon
  <2> QED BY <2>2, <2>3
<1>7. \A lib \in libs' : lib[2] \in DOMAIN Where /\ lib[1] \in Where[lib[2]]
  <2>1. libs' = libs \/ (Creates(name) /\ libs' = Opened(name))
    BY DEF LoadPass
  <2> HIDE DEF name
  <2> QED BY <2>1, LibsTyped DEF Typed, TypeOK
<1> QED BY <1>1, <1>3, <1>4, <1>5, <1>6, <1>7 DEF Typed, TypeOK, Pipeline, Phase

LEMMA AddPassTyped ==
    ASSUME Typed, NEW name, AddPass(name), Pipeline'
    PROVE  Typed'
<1>1. /\ UNCHANGED <<opts, words, argv, at, exit, refused>>
      /\ phase' \in {"running", "exited"}
  BY DEF AddPass, Prompts, start, load
<1>2. commands' \in 0 .. MaxCommands
  BY PassesAssumption DEF AddPass, Prompts, Typed, TypeOK
<1>3. \A lib \in libs' : lib[2] \in DOMAIN Where /\ lib[1] \in Where[lib[2]]
  <2>1. libs' = libs \/ (Creates(name) /\ libs' = Opened(name))
    BY DEF AddPass
  <2> QED BY <2>1, LibsTyped DEF Typed, TypeOK
<1> QED BY <1>1, <1>2, <1>3 DEF Typed, TypeOK, Pipeline, Phase

LEMMA RemovePassTyped ==
    ASSUME Typed, NEW name, RemovePass(name), Pipeline'
    PROVE  Typed'
<1>1. commands' \in 0 .. MaxCommands
  BY PassesAssumption DEF RemovePass, Prompts, Typed, TypeOK
<1> QED BY <1>1 DEF RemovePass, Prompts, start, load, Typed, TypeOK, Pipeline

LEMMA TypedHolds == Spec => []Typed
<1>1. IInv => Pipeline
  BY LenProperties, ElementOfSeq DEF IInv, Piped, Range, Pipeline
<1>2. Typed /\ Pipeline' /\ [Next]_vars => Typed'
  <2> SUFFICES ASSUME Typed, Pipeline', [Next]_vars
               PROVE  Typed'
    OBVIOUS
  <2>1. CASE ParseOpts
    BY <2>1, ParseOptsTyped
  <2>2. CASE LoadPass
    BY <2>2, LoadPassTyped
  <2>3. CASE Program
    BY <2>3 DEF Program, start, Typed, TypeOK, Pipeline, Phase
  <2>4. CASE Skip
    <3>1. at \in Nat /\ Len(argv) \in Nat
      BY LenProperties DEF Typed, TypeOK
    <3> QED BY <2>4, <3>1 DEF Skip, start, Typed, TypeOK, Pipeline, Phase
  <2>5. CASE NoneLeft \/ Begin \/ Leave
    BY <2>5 DEF NoneLeft, Begin, Leave, start, load, Typed, TypeOK, Pipeline, Phase
  <2>6. ASSUME NEW m \in Names, AddPass(m) PROVE Typed'
    BY <2>6, AddPassTyped
  <2>7. ASSUME NEW m \in Names, RemovePass(m) PROVE Typed'
    BY <2>7, RemovePassTyped
  <2>8. CASE UNCHANGED vars
    BY <2>8 DEF vars, start, load, Typed, TypeOK, Pipeline
  <2> QED BY <2>1, <2>2, <2>3, <2>4, <2>5, <2>6, <2>7, <2>8 DEF Next, Load
<1> QED BY <1>1, <1>2, IInvHolds, InitTyped, PTL DEF Spec

\* Types, and a place in the command line that never runs past its end, though
\* it is stepped over by numbers of words that count_args finds and whose last
\* commas have been cut (load_passes, passes.c:273).
THEOREM PassesTypeCorrect == Spec => []TypeOK
<1>1. Typed => TypeOK
  BY DEF Typed
<1> QED BY <1>1, TypedHolds, PTL

-----------------------------------------------------------------------------
(* What is read and what is piled up. *)

LEMMA UpTo ==
    ASSUME NEW n \in Nat, NEW T, 0 \in T, \A k \in 0 .. n - 1 : k \in T => k + 1 \in T
    PROVE  0 .. n \subseteq T
<1> DEFINE U == {k \in 0 .. n : k \notin T}
<1>1. ASSUME U # {} PROVE FALSE
  <2>1. U \in SUBSET Nat
    OBVIOUS
  <2> DEFINE k == Min(U)
  <2>2. k \in U /\ \A y \in U : k <= y
    BY <1>1, <2>1, MinIsLeast
  <2> HIDE DEF k
  <2>3. k \in 1 .. n /\ k - 1 \in 0 .. n - 1 /\ (k - 1) + 1 = k
    BY <2>2
  <2>4. k - 1 \in U
    BY <2>2, <2>3
  <2> QED BY <2>2, <2>3, <2>4
<1> QED BY <1>1

\* The recursion of Read defines it.
LEMMA ReadIs ==
    ASSUME Len(PassLine) \in Nat
    PROVE  /\ Read[0] = NothingRead
           /\ \A k \in 1 .. Len(PassLine) : Read[k] = ReadWord(Read[k - 1], PassLine[k])
<1> DEFINE U == PassLine
           Does(h, n) == h = [k \in 0 .. n |-> IF k = 0 THEN NothingRead
                                                ELSE ReadWord(h[k - 1], U[k])]
           T == {n \in Nat : \E h : Does(h, n)}
<1> HIDE DEF U
<1>1. 0 \in T
  <2>1. Does([k \in 0 .. 0 |-> NothingRead], 0)
    OBVIOUS
  <2> QED BY <2>1
<1>2. ASSUME NEW n \in Nat, n \in T PROVE n + 1 \in T
  <2>1. PICK h : Does(h, n)
    BY <1>2
  <2> DEFINE g == [k \in 0 .. n + 1 |-> IF k = n + 1 THEN ReadWord(h[n], U[n + 1]) ELSE h[k]]
  <2>2. \A k \in 0 .. n : g[k] = h[k]
    OBVIOUS
  <2>3. \A k \in 0 .. n : h[k] = IF k = 0 THEN NothingRead ELSE ReadWord(h[k - 1], U[k])
    BY <2>1
  <2>4. ASSUME NEW k \in 0 .. n + 1
        PROVE  g[k] = IF k = 0 THEN NothingRead ELSE ReadWord(g[k - 1], U[k])
    <3>1. CASE k = n + 1
      <4>1. g[k] = ReadWord(h[n], U[k]) /\ k - 1 = n /\ k # 0
        BY <3>1
      <4> QED BY <2>2, <4>1
    <3>2. CASE k # n + 1
      <4>1. k \in 0 .. n /\ (k # 0 => k - 1 \in 0 .. n)
        BY <3>2
      <4> HIDE DEF g
      <4> QED BY <2>2, <2>3, <4>1
    <3> QED BY <3>1, <3>2
  <2>5. Does(g, n + 1)
    BY <2>4
  <2> HIDE DEF g, Does
  <2> QED BY <2>5
<1> HIDE DEF T
<1>3. 0 .. Len(PassLine) \subseteq T
  BY <1>1, <1>2, UpTo
<1>4. \E h : Does(h, Len(PassLine))
  BY <1>3 DEF T
<1>5. Read = CHOOSE h : Does(h, Len(PassLine))
  BY DEF Read, U
<1>6. Does(Read, Len(PassLine))
  BY <1>4, <1>5
<1>7. \A k \in 0 .. Len(PassLine) :
         Read[k] = IF k = 0 THEN NothingRead ELSE ReadWord(Read[k - 1], PassLine[k])
  BY <1>6 DEF U
<1> QED BY <1>7

\* The recursion of LastFirst, too, and a pass that is tried comes first.
LEMMA PilesUp ==
    ASSUME NEW t, t \in Seq(Range(t)), NEW x
    PROVE  /\ LastFirst(<<>>) = <<>>
           /\ LastFirst(Append(t, x)) =
                 IF x.made THEN <<x.name>> \o LastFirst(t) ELSE LastFirst(t)
<1> DEFINE Upon(e, h) == IF e.made THEN <<e.name>> \o h ELSE h
           Piles(s, h, n) == h = [k \in 0 .. n |-> IF k = 0 THEN <<>> ELSE Upon(s[k], h[k - 1])]
<1> HIDE DEF Upon
<1>1. ASSUME NEW s, Len(s) \in Nat
      PROVE  \E h : Piles(s, h, Len(s)) /\ LastFirst(s) = h[Len(s)]
  <2> DEFINE T == {n \in Nat : \E h : Piles(s, h, n)}
  <2>1. 0 \in T
    <3>1. Piles(s, [k \in 0 .. 0 |-> <<>>], 0)
      OBVIOUS
    <3> HIDE DEF Piles
    <3> QED BY <3>1
  <2>2. ASSUME NEW n \in Nat, n \in T PROVE n + 1 \in T
    <3>1. PICK h : Piles(s, h, n)
      BY <2>2
    <3> DEFINE g == [k \in 0 .. n + 1 |-> IF k = n + 1 THEN Upon(s[n + 1], h[n]) ELSE h[k]]
    <3>2. \A k \in 0 .. n : g[k] = h[k]
      OBVIOUS
    <3>3. \A k \in 0 .. n : h[k] = IF k = 0 THEN <<>> ELSE Upon(s[k], h[k - 1])
      BY <3>1
    <3>4. ASSUME NEW k \in 0 .. n + 1
          PROVE  g[k] = IF k = 0 THEN <<>> ELSE Upon(s[k], g[k - 1])
      <4>1. CASE k = n + 1
        <5>1. g[k] = Upon(s[k], h[n]) /\ k - 1 = n /\ k # 0
          BY <4>1
        <5> QED BY <3>2, <5>1
      <4>2. CASE k # n + 1
        <5>1. k \in 0 .. n /\ (k # 0 => k - 1 \in 0 .. n)
          BY <4>2
        <5> HIDE DEF g
        <5> QED BY <3>2, <3>3, <5>1
      <4> QED BY <4>1, <4>2
    <3>5. Piles(s, g, n + 1)
      BY <3>4
    <3> HIDE DEF g, Piles
    <3> QED BY <3>5
  <2> HIDE DEF T
  <2>3. 0 .. Len(s) \subseteq T
    BY <1>1, <2>1, <2>2, UpTo
  <2>4. \E h : Piles(s, h, Len(s))
    BY <1>1, <2>3 DEF T
  <2> DEFINE f == CHOOSE h : Piles(s, h, Len(s))
  <2>5. LastFirst(s) = f[Len(s)]
    BY DEF LastFirst, Upon
  <2> HIDE DEF Piles
  <2>6. Piles(s, f, Len(s))
    BY <2>4
  <2> QED BY <2>5, <2>6
<1>2. LastFirst(<<>>) = <<>>
  <2>1. Len(<<>>) = 0
    OBVIOUS
  <2>2. PICK h : Piles(<<>>, h, 0) /\ LastFirst(<<>>) = h[0]
    BY <1>1, <2>1
  <2> QED BY <2>2
<1>3. LastFirst(Append(t, x)) = Upon(x, LastFirst(t))
  <2> DEFINE u == Append(t, x)
             n == Len(t)
  <2>1. /\ n \in Nat /\ Len(u) = n + 1 /\ u[n + 1] = x
        /\ \A k \in 1 .. n : u[k] = t[k]
    BY AppendProperties, LenProperties
  <2> HIDE DEF u, n
  <2>2. PICK f : Piles(t, f, n) /\ LastFirst(t) = f[n]
    BY <1>1, <2>1 DEF n
  <2>3. PICK g : Piles(u, g, n + 1) /\ LastFirst(u) = g[n + 1]
    BY <1>1, <2>1
  <2>4. \A k \in 0 .. n : f[k] = IF k = 0 THEN <<>> ELSE Upon(t[k], f[k - 1])
    BY <2>2
  <2>5. \A k \in 0 .. n + 1 : g[k] = IF k = 0 THEN <<>> ELSE Upon(u[k], g[k - 1])
    BY <2>3
  <2> DEFINE T == {k \in 0 .. n : f[k] = g[k]}
  <2>6. 0 \in T
    BY <2>1, <2>4, <2>5
  <2>7. ASSUME NEW k \in 0 .. n - 1, k \in T PROVE k + 1 \in T
    <3>1. k + 1 \in 1 .. n /\ (k + 1) - 1 = k /\ k + 1 # 0
      BY <2>1
    <3>2. f[k + 1] = Upon(t[k + 1], f[k])
      BY <2>1, <2>4, <3>1
    <3>3. g[k + 1] = Upon(u[k + 1], g[k])
      BY <2>1, <2>5, <3>1
    <3> QED BY <2>1, <2>7, <3>1, <3>2, <3>3
  <2> HIDE DEF T, Piles
  <2>8. 0 .. n \subseteq T
    BY <2>1, <2>6, <2>7, UpTo
  <2>9. f[n] = g[n]
    BY <2>1, <2>8 DEF T
  <2>10. g[n + 1] = Upon(u[n + 1], g[n])
    BY <2>1, <2>5
  <2> QED BY <2>1, <2>2, <2>3, <2>9, <2>10 DEF u
<1> QED BY <1>2, <1>3 DEF Upon

\* Where the program is set off from the passes.
LEMMA LineCut ==
    ASSUME words \in Seq(Range(words))
    PROVE  /\ PassLine \in Seq(Range(words)) /\ Len(PassLine) \in 0 .. Len(words)
           /\ \A k \in 1 .. Len(PassLine) : PassLine[k] = words[k] /\ words[k] # Dashes
           /\ Len(PassLine) < Len(words) =>
                 /\ words[Len(PassLine) + 1] = Dashes
                 /\ ProgramLine = SubSeq(words, Len(PassLine) + 2, Len(words))
           /\ Len(PassLine) = Len(words) => ProgramLine = <<>>
<1> DEFINE I == {i \in 1 .. Len(words) : words[i] = Dashes}
           n == Len(words)
<1>1. n \in Nat /\ \A i \in 1 .. n : words[i] \in Range(words)
  BY LenProperties, ElementOfSeq
<1>2. DashesAt = IF I # {} THEN Min(I) ELSE 0
  BY DEF DashesAt, SelectInSeq
<1>3. CASE I = {}
  <2>1. PassLine = words /\ ProgramLine = <<>>
    BY <1>2, <1>3 DEF PassLine, ProgramLine
  <2>2. \A k \in 1 .. Len(words) : words[k] # Dashes
    BY <1>3
  <2> HIDE DEF I
  <2> QED BY <1>1, <2>1, <2>2
<1>4. CASE I # {}
  <2> DEFINE d == Min(I)
  <2>1. I \in SUBSET Nat
    BY <1>1
  <2>2. d \in I /\ \A i \in I : d <= i
    BY <1>4, <2>1, MinIsLeast
  <2> HIDE DEF d
  <2>3. d \in 1 .. n /\ words[d] = Dashes /\ d # 0
    BY <2>2
  <2>4. \A i \in 1 .. d - 1 : words[i] # Dashes
    BY <1>1, <2>2, <2>3
  <2>5. PassLine = SubSeq(words, 1, d - 1) /\ ProgramLine = SubSeq(words, d + 1, n)
    BY <1>2, <1>4, <2>3 DEF PassLine, ProgramLine, d
  <2> HIDE DEF I, n
  <2>6. /\ SubSeq(words, 1, d - 1) \in Seq(Range(words))
        /\ Len(SubSeq(words, 1, d - 1)) = d - 1
        /\ \A k \in 1 .. d - 1 : SubSeq(words, 1, d - 1)[k] = words[k]
    BY <1>1, <2>3, SubSeqProperties DEF n
  <2> QED BY <1>1, <2>3, <2>4, <2>5, <2>6 DEF n
<1> QED BY <1>3, <1>4

\* The words of the passes as arguments, without their commas.
Arguments == [i \in 1 .. Len(PassLine) |-> <<PassLine[i][1]>>]
Argument == {<<w[1]>> : w \in Range(words)}

Words == words \in Seq(Range(words)) /\ Range(words) \subseteq Word

LEMMA ArgumentsAre ==
    ASSUME Words
    PROVE  /\ Arguments \in Seq(Argument) /\ Len(Arguments) = Len(PassLine)
           /\ Len(PassLine) \in Nat /\ PassLine \in Seq(Range(words))
           /\ \A k \in 1 .. Len(PassLine) : /\ PassLine[k] \in Range(words)
                                           /\ Arguments[k] = <<PassLine[k][1]>>
<1>1. PassLine \in Seq(Range(words)) /\ Len(PassLine) \in Nat
  BY LineCut, LenProperties DEF Words
<1>2. \A k \in 1 .. Len(PassLine) : PassLine[k] \in Range(words)
  BY <1>1, ElementOfSeq
<1>3. \A k \in 1 .. Len(PassLine) : <<PassLine[k][1]>> \in Argument
  BY <1>2 DEF Argument
<1>4. Arguments \in [1 .. Len(PassLine) -> Argument]
  BY <1>3 DEF Arguments
<1>5. Arguments \in Seq(Argument)
  BY <1>1, <1>4, SeqDef
<1>6. Len(Arguments) = Len(PassLine)
  BY <1>1, <1>4, <1>5, LenProperties
<1> QED BY <1>1, <1>2, <1>5, <1>6 DEF Arguments

LEMMA CommaIs == Len(Comma) = 2
BY DEF Comma

\* What has been read is a row of passes, each with arguments.
IsReading(r) ==
    /\ r = [closed |-> r.closed, open |-> r.open]
    /\ r.closed \in Seq(Seq(Argument)) /\ r.open \in Seq(Argument)

LEMMA CloseIs ==
    ASSUME NEW r, IsReading(r)
    PROVE  /\ IsReading(Close(r)) /\ Close(r).open = <<>>
           /\ IF r.open = <<>> THEN Close(r) = r
              ELSE Close(r).closed = Append(r.closed, r.open)
<1>1. CASE r.open = <<>>
  BY <1>1 DEF Close
<1>2. CASE r.open # <<>>
  <2>1. Close(r) = [closed |-> Append(r.closed, r.open), open |-> <<>>]
    BY <1>2 DEF Close
  <2>2. Append(r.closed, r.open) \in Seq(Seq(Argument)) /\ <<>> \in Seq(Argument)
    BY AppendProperties, EmptySeq DEF IsReading
  <2> QED BY <1>2, <2>1, <2>2 DEF IsReading
<1> QED BY <1>1, <1>2

\* A word that is no lone comma is an argument; one with a comma ends the pass.
LEMMA ReadWordIs ==
    ASSUME Words, NEW r, IsReading(r), NEW k \in 1 .. Len(PassLine)
    PROVE  LET w == PassLine[k]
               more == [closed |-> r.closed, open |-> Append(r.open, Arguments[k])]
           IN  /\ IsReading(ReadWord(r, w)) /\ IsReading(more)
               /\ w = Comma => ReadWord(r, w) = Close(r)
               /\ w # Comma /\ Len(w) # 1 => ReadWord(r, w) = Close(more)
               /\ w # Comma /\ Len(w) = 1 => ReadWord(r, w) = more
<1> DEFINE w == PassLine[k]
           more == [closed |-> r.closed, open |-> Append(r.open, Arguments[k])]
<1>1. Arguments[k] = <<w[1]>> /\ Arguments[k] \in Argument
  BY ArgumentsAre, ElementOfSeq
<1>2. Append(r.open, Arguments[k]) \in Seq(Argument)
  BY <1>1, AppendProperties DEF IsReading
<1>3. IsReading(more)
  BY <1>2 DEF IsReading
<1>4. ReadWord(r, w) = IF Len(w) = 1 THEN (IF w = Comma THEN r ELSE more)
                       ELSE Close(IF w = Comma THEN r ELSE more)
  BY <1>1 DEF ReadWord
<1>5. Len(Comma) # 1
  BY CommaIs
<1> HIDE DEF more, w
<1>6. IsReading(Close(r)) /\ IsReading(Close(more))
  BY <1>3, CloseIs
<1>7. /\ w = Comma => ReadWord(r, w) = Close(r)
      /\ w # Comma /\ Len(w) # 1 => ReadWord(r, w) = Close(more)
      /\ w # Comma /\ Len(w) = 1 => ReadWord(r, w) = more
  BY <1>4, <1>5
<1>8. IsReading(ReadWord(r, w))
  BY <1>3, <1>6, <1>7
<1> QED BY <1>3, <1>7, <1>8 DEF more, w

LEMMA ReadTyped ==
    ASSUME Words
    PROVE  \A k \in 0 .. Len(PassLine) : IsReading(Read[k])
<1> DEFINE T == {k \in 0 .. Len(PassLine) : IsReading(Read[k])}
<1>1. Len(PassLine) \in Nat
  BY ArgumentsAre
<1>2. 0 \in T
  <2>1. IsReading(NothingRead)
    BY EmptySeq DEF NothingRead, IsReading
  <2>2. Read[0] = NothingRead
    BY <1>1, ReadIs
  <2> QED BY <1>1, <2>1, <2>2
<1>3. ASSUME NEW k \in 0 .. Len(PassLine) - 1, k \in T PROVE k + 1 \in T
  <2>1. k + 1 \in 1 .. Len(PassLine) /\ (k + 1) - 1 = k
    BY <1>1
  <2>2. Read[k + 1] = ReadWord(Read[k], PassLine[k + 1])
    BY <1>1, <2>1, ReadIs
  <2>3. IsReading(Read[k])
    BY <1>3
  <2> HIDE DEF T
  <2>4. IsReading(ReadWord(Read[k], PassLine[k + 1]))
    BY <2>1, <2>3, ReadWordIs
  <2>5. k + 1 \in 0 .. Len(PassLine)
    BY <2>1
  <2> QED BY <2>2, <2>4, <2>5 DEF T
<1> HIDE DEF T
<1>4. 0 .. Len(PassLine) \subseteq T
  BY <1>1, <1>2, <1>3, UpTo
<1> QED BY <1>4 DEF T

\* One row begins with another.
Begins(s, t) == Len(s) <= Len(t) /\ \A i \in 1 .. Len(s) : s[i] = t[i]

\* What is closed stays.
LEMMA ReadGrows ==
    ASSUME Words, NEW k \in 0 .. Len(PassLine)
    PROVE  Begins(Read[k].closed, Read[Len(PassLine)].closed)
<1> DEFINE n == Len(PassLine) - k
           T == {j \in 0 .. n : Begins(Read[k].closed, Read[k + j].closed)}
<1>1. Len(PassLine) \in Nat /\ n \in Nat /\ k + n = Len(PassLine) /\ k + 0 = k
  BY ArgumentsAre
<1>2. 0 \in T
  <2>1. Len(Read[k].closed) \in Nat
    BY ReadTyped, LenProperties DEF IsReading
  <2> QED BY <1>1, <2>1 DEF Begins
<1>3. ASSUME NEW j \in 0 .. n - 1, j \in T PROVE j + 1 \in T
  <2> DEFINE i == k + j
  <2>1. i + 1 \in 1 .. Len(PassLine) /\ i \in 0 .. Len(PassLine) /\ (i + 1) - 1 = i
        /\ k + (j + 1) = i + 1 /\ j + 1 \in 0 .. n
    BY <1>1
  <2> HIDE DEF i, n
  <2> DEFINE r == Read[i]
             m == Read[i + 1]
             c == Read[k].closed
             more == [closed |-> r.closed, open |-> Append(r.open, Arguments[i + 1])]
  <2>2. m = ReadWord(r, PassLine[i + 1])
    BY <1>1, <2>1, ReadIs
  <2>3. IsReading(r)
    BY <2>1, ReadTyped
  <2> HIDE DEF r
  <2>4. m \in {Close(r), Close(more), more} /\ IsReading(more)
    BY <2>1, <2>2, <2>3, ReadWordIs
  <2>5. more.closed = r.closed
    OBVIOUS
  <2> HIDE DEF m, more
  <2>6. \A q : IsReading(q) => \E e : Close(q).closed \in {q.closed, Append(q.closed, e)}
    BY CloseIs
  <2>7. \E e : m.closed \in {r.closed, Append(r.closed, e)}
    BY <2>3, <2>4, <2>5, <2>6
  <2>8. Begins(c, r.closed) /\ Len(c) \in Nat /\ Len(r.closed) \in Nat
    <3>1. Begins(c, r.closed)
      BY <1>3 DEF i, r
    <3>2. IsReading(Read[k])
      BY ReadTyped
    <3> QED BY <2>3, <3>1, <3>2, LenProperties DEF IsReading
  <2>9. ASSUME NEW e PROVE Begins(c, Append(r.closed, e))
    <3>1. /\ Len(Append(r.closed, e)) = Len(r.closed) + 1
          /\ \A h \in 1 .. Len(r.closed) : Append(r.closed, e)[h] = r.closed[h]
      <4>1. r.closed \in Seq(Seq(Argument) \cup {e}) /\ e \in Seq(Argument) \cup {e}
        BY <2>3, SeqMonotonic DEF IsReading
      <4> QED BY <4>1, AppendProperties
    <3> HIDE DEF c
    <3> QED BY <2>8, <3>1 DEF Begins
  <2>10. Begins(c, m.closed)
    BY <2>7, <2>8, <2>9
  <2> QED BY <2>1, <2>10 DEF m, i
<1> HIDE DEF T
<1>4. 0 .. n \subseteq T
  BY <1>1, <1>2, <1>3, UpTo
<1>5. n \in T
  BY <1>1, <1>4
<1> QED BY <1>1, <1>5 DEF T

\* Words without a comma are the arguments of one pass, and so is the next one.
LEMMA ReadAhead ==
    ASSUME Words, NEW k \in 0 .. Len(PassLine), NEW n \in 1 .. Len(PassLine) - k,
           Read[k].open = <<>>, \A j \in 1 .. n - 1 : Len(PassLine[k + j]) = 1,
           PassLine[k + n] # Comma
    PROVE  /\ Close(Read[k + n]).closed =
                  Append(Read[k].closed, SubSeq(Arguments, k + 1, k + n))
           /\ Len(PassLine[k + n]) # 1 => Read[k + n].open = <<>>
<1> DEFINE args(j) == SubSeq(Arguments, k + 1, k + j)
           r(j) == [closed |-> Read[k].closed, open |-> args(j)]
           T == {j \in 0 .. n - 1 : Read[k + j] = r(j)}
<1>0. Len(Comma) # 1
  BY CommaIs
<1>1. /\ Len(PassLine) \in Nat /\ n \in Nat \ {0} /\ Arguments \in Seq(Argument)
      /\ Len(Arguments) = Len(PassLine) /\ IsReading(Read[k])
      /\ \A j \in 1 .. n : Arguments[k + j] \in Argument
  <2>1. \A j \in 1 .. n : k + j \in 1 .. Len(PassLine)
    BY ArgumentsAre
  <2> QED BY <2>1, ArgumentsAre, ReadTyped, ElementOfSeq
<1>2. ASSUME NEW j \in 0 .. n - 1
      PROVE  args(j + 1) = Append(args(j), Arguments[k + (j + 1)]) /\ args(j) \in Seq(Argument)
  <2>1. /\ k + 1 \in 1 .. Len(Arguments) /\ k + (j + 1) \in k + 1 .. Len(Arguments)
        /\ (k + (j + 1)) - 1 = k + j
    BY <1>1
  <2>2. args(j + 1) = SubSeq(Arguments, k + 1, k + j) \o <<Arguments[k + (j + 1)]>>
    BY <1>1, <2>1, SubSeqRecursiveSecond
  <2>3. \A i \in k + 1 .. k + j : Arguments[i] \in Argument
    <3>1. \A i \in k + 1 .. k + j : i \in 1 .. Len(Arguments)
      BY <1>1
    <3> QED BY <1>1, <3>1, ElementOfSeq
  <2>4. args(j) \in Seq(Argument)
    BY <1>1, <2>3, SubSeqProperties
  <2>5. Arguments[k + (j + 1)] \in Argument
    BY <1>1
  <2> HIDE DEF args
  <2>6. Append(args(j), Arguments[k + (j + 1)]) = args(j) \o <<Arguments[k + (j + 1)]>>
    BY <2>4, <2>5, AppendIsConcat
  <2> QED BY <2>2, <2>4, <2>6 DEF args
<1>3. args(0) = <<>>
  BY <1>1, SubSeqEmpty
<1> HIDE DEF args
<1>4. \A j \in 0 .. n - 1 : IsReading(r(j))
  BY <1>1, <1>2 DEF IsReading
<1>5. 0 \in T
  <2>1. r(0) = [closed |-> Read[k].closed, open |-> <<>>]
    BY <1>3
  <2>2. Read[k] = [closed |-> Read[k].closed, open |-> Read[k].open]
    BY <1>1 DEF IsReading
  <2> QED BY <1>1, <2>1, <2>2
\* The next word, behind j words without a comma.
<1>6. ASSUME NEW j \in 0 .. n - 1, Read[k + j] = r(j), PassLine[k + (j + 1)] # Comma
      PROVE  Read[k + (j + 1)] = IF Len(PassLine[k + (j + 1)]) = 1 THEN r(j + 1)
                                 ELSE Close(r(j + 1))
  <2>1. k + (j + 1) \in 1 .. Len(PassLine) /\ (k + (j + 1)) - 1 = k + j
    BY <1>1
  <2>2. Read[k + (j + 1)] = ReadWord(r(j), PassLine[k + (j + 1)])
    BY <1>1, <1>6, <2>1, ReadIs
  <2>3. IsReading(r(j))
    BY <1>4
  <2>4. r(j + 1) = [closed |-> r(j).closed, open |-> Append(r(j).open, Arguments[k + (j + 1)])]
    BY <1>2
  <2> DEFINE q == r(j)
             i == k + (j + 1)
             more == [closed |-> q.closed, open |-> Append(q.open, Arguments[i])]
  <2>5. IsReading(q) /\ i \in 1 .. Len(PassLine) /\ more = r(j + 1)
        /\ PassLine[i] # Comma /\ Read[i] = ReadWord(q, PassLine[i])
    BY <1>6, <2>1, <2>2, <2>3, <2>4
  <2> HIDE DEF q, r, i
  <2>6. ReadWord(q, PassLine[i]) = IF Len(PassLine[i]) = 1 THEN more ELSE Close(more)
    BY <2>5, ReadWordIs
  <2> HIDE DEF more
  <2> QED BY <2>5, <2>6 DEF i
<1>7. ASSUME NEW j \in 0 .. (n - 1) - 1, j \in T PROVE j + 1 \in T
  <2>1. j \in 0 .. n - 1 /\ j + 1 \in 0 .. n - 1 /\ j + 1 \in 1 .. n - 1
    BY <1>1
  <2>2. Len(PassLine[k + (j + 1)]) = 1
    BY <2>1
  <2>3. PassLine[k + (j + 1)] # Comma
    BY <1>0, <2>2
  <2> QED BY <1>6, <1>7, <2>1, <2>2, <2>3
<1> HIDE DEF T
<1>8. 0 .. n - 1 \subseteq T
  <2>1. PICK u \in Nat : u = n - 1
    BY <1>1
  <2>2. 0 \in T /\ \A j \in 0 .. u - 1 : j \in T => j + 1 \in T
    BY <1>5, <1>7, <2>1
  <2>3. 0 .. u \subseteq T
    BY <2>2, UpTo
  <2> QED BY <2>1, <2>3
<1>9. Read[k + (n - 1)] = r(n - 1) /\ n - 1 \in 0 .. n - 1 /\ (n - 1) + 1 = n
  BY <1>1, <1>8 DEF T
<1>10. Read[k + n] = IF Len(PassLine[k + n]) = 1 THEN r(n) ELSE Close(r(n))
  <2> DEFINE j == n - 1
  <2>1. Read[k + j] = r(j) /\ j \in 0 .. n - 1 /\ j + 1 = n
    BY <1>9
  <2> HIDE DEF j, r
  <2> QED BY <1>6, <2>1
<1>11. args(n) = Append(args(n - 1), Arguments[k + n]) /\ Arguments[k + n] \in Argument
       /\ args(n - 1) \in Seq(Argument)
  <2>1. PICK j \in 0 .. n - 1 : j = n - 1 /\ j + 1 = n
    BY <1>9
  <2>2. args(j + 1) = Append(args(j), Arguments[k + (j + 1)]) /\ args(j) \in Seq(Argument)
    BY <1>2
  <2>3. Arguments[k + n] \in Argument
    BY <1>1
  <2> QED BY <2>1, <2>2, <2>3
<1>12. args(n) # <<>> /\ args(n) \in Seq(Argument)
  BY <1>11, AppendProperties
<1>13. IsReading(r(n)) /\ r(n).open # <<>>
  BY <1>1, <1>12 DEF IsReading
<1>14. Close(r(n)).closed = Append(Read[k].closed, args(n)) /\ Close(r(n)).open = <<>>
       /\ Close(Close(r(n))) = Close(r(n))
  <2>1. r(n).closed = Read[k].closed /\ r(n).open = args(n)
    OBVIOUS
  <2> HIDE DEF r
  <2> QED BY <1>13, <2>1, CloseIs
<1> HIDE DEF r
<1> QED BY <1>10, <1>14 DEF args

\* What is closed at a place between two passes is the beginning of what is asked for.
LEMMA ReadIsAsked ==
    ASSUME Words, NEW k \in 0 .. Len(PassLine),
           \/ Read[k].open = <<>>
           \/ k = Len(PassLine)
           \/ PassLine[k + 1] = Comma
    PROVE  Begins(Close(Read[k]).closed, AskedFor)
<1> DEFINE n == Len(PassLine)
<1>1. /\ n \in Nat /\ IsReading(Read[k]) /\ IsReading(Read[n])
      /\ Begins(Read[k].closed, Read[n].closed)
  BY ArgumentsAre, ReadTyped, ReadGrows
<1>2. AskedFor = Close(Read[n]).closed
  BY DEF AskedFor
<1>3. Begins(Read[n].closed, AskedFor)
  <2>1. Read[n].closed \in Seq(Seq(Argument)) /\ Read[n].open \in Seq(Argument)
    BY <1>1 DEF IsReading
  <2>2. AskedFor \in {Read[n].closed, Append(Read[n].closed, Read[n].open)}
    BY <1>1, <1>2, CloseIs
  <2>3. PICK c, e : c = Read[n].closed /\ e = Read[n].open
    OBVIOUS
  <2>4. Len(c) \in Nat /\ Begins(c, c)
    BY <2>1, <2>3, LenProperties DEF Begins
  <2>5. /\ Len(Append(c, e)) = Len(c) + 1
        /\ \A i \in 1 .. Len(c) : Append(c, e)[i] = c[i]
    BY <2>1, <2>3, AppendProperties
  <2>6. Begins(c, Append(c, e))
    BY <2>4, <2>5 DEF Begins
  <2> QED BY <2>2, <2>3, <2>4, <2>6
<1>4. ASSUME NEW s, NEW t, NEW u, Begins(s, t), Begins(t, u),
             Len(s) \in Nat, Len(t) \in Nat, Len(u) \in Nat
      PROVE  Begins(s, u)
  <2>1. Len(s) <= Len(t) /\ Len(t) <= Len(u)
    BY <1>4 DEF Begins
  <2>2. \A i \in 1 .. Len(s) : i \in 1 .. Len(t) /\ s[i] = t[i] /\ t[i] = u[i]
    BY <1>4, <2>1 DEF Begins
  <2> QED BY <1>4, <2>1, <2>2 DEF Begins
<1>5. Len(AskedFor) \in Nat /\ \A i \in 0 .. n : Len(Read[i].closed) \in Nat
  <2>1. AskedFor \in Seq(Seq(Argument))
    BY <1>1, <1>2, CloseIs DEF IsReading
  <2> QED BY <2>1, ReadTyped, LenProperties DEF IsReading
<1>6. CASE Read[k].open = <<>>
  <2>1. Close(Read[k]).closed = Read[k].closed
    BY <1>1, <1>6, CloseIs
  <2> QED BY <1>1, <1>3, <1>4, <1>5, <2>1
<1>7. CASE k = n
  <2>1. Close(Read[k]).closed = AskedFor
    BY <1>2, <1>7
  <2> QED BY <1>5, <2>1 DEF Begins
<1>8. CASE k # n /\ PassLine[k + 1] = Comma
  <2>1. k + 1 \in 1 .. n /\ (k + 1) - 1 = k
    BY <1>1, <1>8
  <2>2. Read[k + 1] = Close(Read[k])
    <3>0. PICK r : r = Read[k]
      OBVIOUS
    <3>1. PICK j \in 1 .. Len(PassLine) : j = k + 1 /\ j - 1 = k
      BY <2>1
    <3>2. Read[j] = ReadWord(Read[j - 1], PassLine[j])
      BY <1>1, ReadIs
    <3>3. ReadWord(r, PassLine[j]) = Close(r)
      BY <1>1, <1>8, <3>0, <3>1, ReadWordIs
    <3> QED BY <3>0, <3>1, <3>2, <3>3
  <2>3. Begins(Read[k + 1].closed, Read[n].closed)
    BY <2>1, ReadGrows
  <2> QED BY <1>1, <1>3, <1>4, <1>5, <2>1, <2>2, <2>3
<1> QED BY <1>6, <1>7, <1>8

-----------------------------------------------------------------------------
(* What load_passes has done at its place in the line. *)

ArgsOf(tries) == [k \in DOMAIN tries |-> tries[k].args]

\* The k words behind it have been read, there is nothing open but in front of a
\* comma or the end, and what is before it is as it was given.
Follows(k) ==
    /\ at = k + 1
    /\ \A i \in at .. Len(words) : argv[i] = words[i]
    /\ Read[k].open = <<>> \/ k = Len(PassLine) \/ PassLine[k + 1] = Comma
    /\ Close(Read[k]).closed = ArgsOf(tried)
    /\ IF phase = "loading" THEN program = <<>>
       ELSE k = Len(PassLine) /\ program = ProgramLine

Stacked ==
    /\ tried \in Seq(Range(tried)) /\ LastFirst(tried) \in Seq(Range(LastFirst(tried)))
    /\ passes = <<"resolve">> \o LastFirst(tried)

AsGiven ==
    /\ phase \in {"loading", "loaded"} /\ {Interactive, ServerMode} \cap opts = {}
    /\ ~refused /\ Proper

Told ==
    /\ Words
    /\ phase = "options" => /\ argv = words /\ at = 1 /\ passes = <<"resolve">>
                            /\ tried = <<>> /\ program = <<>>
    /\ AsGiven => Stacked /\ \E k \in 0 .. Len(PassLine) : Follows(k)

LEMMA InitTold == Init => Told
<1> SUFFICES ASSUME Init PROVE Told
  OBVIOUS
<1>1. words \in CommandLines /\ words = argv /\ phase = "options"
  BY DEF Init
<1>2. Words
  <2>1. words \in Seq(Word)
    BY <1>1, PassesAssumption
  <2>2. words \in Seq(Range(words)) /\ Range(words) \subseteq Word
    BY <2>1, IsList, LenProperties, ElementOfSeq DEF Range
  <2> QED BY <2>2 DEF Words
<1> QED BY <1>1, <1>2 DEF Init, Told, AsGiven

\* The line is read as before while the words stay.
LEMMA SameReading ==
    ASSUME words' = words
    PROVE  /\ PassLine' = PassLine /\ ProgramLine' = ProgramLine /\ Read' = Read
           /\ Words' = Words /\ Proper' = Proper /\ AskedFor' = AskedFor
<1>1. DashesAt' = DashesAt
  BY DEF DashesAt, SelectInSeq
<1>2. PassLine' = PassLine /\ ProgramLine' = ProgramLine
  BY <1>1 DEF PassLine, ProgramLine
<1>3. Read' = Read
  BY <1>2 DEF Read
<1> QED BY <1>2, <1>3 DEF Words, Proper, AskedFor

LEMMA ReadBegins == (Words => Read[0] = NothingRead /\ Len(PassLine) \in Nat)'
<1>1. Words => Read[0] = NothingRead /\ Len(PassLine) \in Nat
  BY ReadIs, ArgumentsAre
<1> QED BY <1>1, PTL

LEMMA OptionsRest ==
    ASSUME NEW line, line \in Seq(Range(line))
    PROVE  Range(Options(line).rest) \subseteq Range(line)
<1> DEFINE E == {Len(line) + 1} \cup {i \in DOMAIN line : line[i] \notin OptionWords}
           end == Min(E)
           from == IF end <= Len(line) /\ line[end] = Dashes THEN end + 1 ELSE end
<1>1. Len(line) \in Nat /\ DOMAIN line = 1 .. Len(line)
  BY LenProperties
<1>2. E \in SUBSET Nat /\ E # {} /\ \A i \in E : i \in Nat /\ i >= 1
  BY <1>1
<1>3. Options(line).rest = SubSeq(line, from, Len(line))
  BY DEF Options
<1> HIDE DEF E
<1>4. end \in Nat /\ end >= 1
  BY <1>2, MinIsLeast
<1> HIDE DEF end
<1>5. from \in Nat /\ from >= 1
  BY <1>4
<1> HIDE DEF from
<1>6. \A i \in from .. Len(line) : line[i] \in Range(line)
  BY <1>1, <1>5 DEF Range
<1>7. SubSeq(line, from, Len(line)) \in Seq(Range(line))
  BY <1>1, <1>5, <1>6, SubSeqProperties
<1> QED BY <1>3, <1>7, LenProperties, ElementOfSeq DEF Range

LEMMA ParseOptsTold ==
    ASSUME Told, ParseOpts
    PROVE  Told'
<1> DEFINE o == Options(argv)
<1>1. /\ phase = "options" /\ opts' = o.set /\ argv' = o.rest /\ words' = o.rest
      /\ UNCHANGED <<at, tried, refused>>
      /\ argv \in Seq(Range(argv)) /\ Range(argv) \subseteq Word
      /\ at = 1 /\ tried = <<>> /\ program = <<>> /\ passes = <<"resolve">>
  BY DEF ParseOpts, Told, Words
<1>2. Words'
  BY <1>1, OptionsTyped, OptionsRest DEF Words
<1>3. phase' # "options"
  BY <1>1 DEF ParseOpts, InteractiveInit
<1>4. ASSUME AsGiven' PROVE phase' = "loading" /\ UNCHANGED <<passes, program>>
  BY <1>1, <1>4 DEF ParseOpts, InteractiveInit, AsGiven
<1>5. ASSUME AsGiven' PROVE Stacked'
  <2>1. tried' = <<>> /\ LastFirst(<<>>) = <<>> /\ passes' = <<"resolve">>
    <3>1. <<>> \in Seq(Range(<<>>))
      BY EmptySeq
    <3> QED BY <1>1, <1>4, <1>5, <3>1, PilesUp
  <2>2. <<>> \in Seq(Range(<<>>)) /\ <<"resolve">> \o <<>> = <<"resolve">>
    BY EmptySeq
  <2> QED BY <2>1, <2>2 DEF Stacked
<1>6. ASSUME AsGiven' PROVE Follows(0)' /\ 0 \in 0 .. Len(PassLine')
  <2>1. Read'[0] = NothingRead /\ Len(PassLine') \in Nat
    BY <1>2, ReadBegins
  <2>2. NothingRead.open = <<>> /\ Close(NothingRead).closed = <<>>
    BY DEF NothingRead, Close
  <2>3. ArgsOf(<<>>) = <<>>
    BY DEF ArgsOf
  <2> QED BY <1>1, <1>4, <1>6, <2>1, <2>2, <2>3 DEF Follows
<1> QED BY <1>2, <1>3, <1>5, <1>6 DEF Told

\* What a step in load_passes finds.
LEMMA AtPlace ==
    ASSUME Typed, Told, AsGiven
    PROVE  /\ Words /\ Stacked /\ Len(PassLine) \in Nat /\ Len(words) \in Nat
           /\ Len(argv) = Len(words) /\ Len(PassLine) <= Len(words)
           /\ \E k \in 0 .. Len(PassLine) : Follows(k) /\ IsReading(Read[k])
<1>1. Words /\ Len(argv) = Len(words)
  BY DEF Told, Typed, TypeOK
<1>2. Len(words) \in Nat /\ Len(PassLine) \in 0 .. Len(words)
  BY <1>1, LineCut, LenProperties DEF Words
<1>3. PICK k \in 0 .. Len(PassLine) : Follows(k)
  BY DEF Told
<1>4. IsReading(Read[k])
  BY <1>1, ReadTyped
<1> QED BY <1>1, <1>2, <1>3, <1>4 DEF Told

LEMMA SkipTold ==
    ASSUME Typed, Told, Skip, AsGiven
    PROVE  Told'
<1>1. /\ phase = "loading" /\ at <= Len(argv) /\ argv[at] = Comma /\ at' = at + 1
      /\ UNCHANGED <<phase, opts, words, argv, program, tried, refused, passes>>
  BY DEF Skip, start
<1>2. PICK k \in 0 .. Len(PassLine) : Follows(k) /\ IsReading(Read[k])
  BY AtPlace
<1>3. /\ Words /\ Stacked /\ Len(PassLine) \in Nat /\ Len(words) \in Nat
      /\ Len(argv) = Len(words) /\ Len(PassLine) <= Len(words)
  BY AtPlace
<1>4. at = k + 1 /\ words[k + 1] = Comma
  BY <1>1, <1>2, <1>3 DEF Follows
<1>5. k # Len(PassLine)
  <2>1. Len(Comma) = 2 /\ Len(Dashes) = 1
    BY DEF Comma, Dashes
  <2>2. Len(PassLine) < Len(words) => words[Len(PassLine) + 1] = Dashes
    BY <1>3, LineCut DEF Words
  <2>3. ASSUME k = Len(PassLine) PROVE FALSE
    <3>1. Len(PassLine) < Len(words)
      BY <1>1, <1>3, <1>4, <2>3
    <3>2. Comma = Dashes
      BY <1>4, <2>2, <2>3, <3>1
    <3> QED BY <2>1, <3>2
  <2> QED BY <2>3
<1>6. k + 1 \in 1 .. Len(PassLine) /\ (k + 1) - 1 = k
  BY <1>3, <1>5
<1>7. PassLine[k + 1] = Comma
  BY <1>3, <1>4, <1>6, LineCut DEF Words
<1>8. Read[k + 1] = Close(Read[k])
  <2>1. Read[k + 1] = ReadWord(Read[k], PassLine[k + 1])
    BY <1>3, <1>6, ReadIs
  <2> QED BY <1>2, <1>3, <1>6, <1>7, <2>1, ReadWordIs
<1>9. Read[k + 1].open = <<>> /\ Close(Read[k + 1]) = Close(Read[k])
  BY <1>2, <1>8, CloseIs
<1>10. UNCHANGED <<PassLine, ProgramLine, Read, Words>>
  BY <1>1, SameReading
<1>11. Follows(k + 1)'
  <2>1. \A i \in at' .. Len(words) : argv[i] = words[i]
    BY <1>1, <1>2, <1>4 DEF Follows
  <2>2. ArgsOf(tried)' = ArgsOf(tried)
    BY <1>1 DEF ArgsOf
  <2> QED BY <1>1, <1>2, <1>4, <1>9, <1>10, <2>1, <2>2 DEF Follows
<1>12. Stacked'
  BY <1>1, <1>3 DEF Stacked, LastFirst
<1> QED BY <1>1, <1>3, <1>6, <1>10, <1>11, <1>12 DEF Told

LEMMA ProgramTold ==
    ASSUME Typed, Told, Program, AsGiven
    PROVE  Told'
<1>1. /\ phase = "loading" /\ at <= Len(argv) /\ argv[at] = Dashes
      /\ program' = SubSeq(argv, at + 1, Len(argv)) /\ phase' \in {"undefined", "loaded"}
      /\ UNCHANGED <<opts, words, argv, at, tried, refused, passes>>
  BY DEF Program, start
<1>2. PICK k \in 0 .. Len(PassLine) : Follows(k) /\ IsReading(Read[k])
  BY AtPlace
<1>3. /\ Words /\ Stacked /\ Len(PassLine) \in Nat /\ Len(words) \in Nat
      /\ Len(argv) = Len(words) /\ Len(PassLine) <= Len(words)
  BY AtPlace
<1>4. at = k + 1 /\ words[k + 1] = Dashes
  BY <1>1, <1>2, <1>3 DEF Follows
<1>5. k = Len(PassLine) /\ Len(PassLine) < Len(words)
  <2>1. k + 1 \in 1 .. Len(PassLine) => words[k + 1] # Dashes
    BY <1>3, LineCut DEF Words
  <2> QED BY <1>1, <1>3, <1>4, <2>1
<1>6. program' = ProgramLine
  <2>1. ProgramLine = SubSeq(words, k + 2, Len(words))
    BY <1>3, <1>5, LineCut DEF Words
  <2>2. \A i \in k + 2 .. Len(words) : argv[i] = words[i] /\ words[i] \in Range(words)
    <3>1. \A i \in k + 2 .. Len(words) : i \in 1 .. Len(words) /\ i \in at .. Len(words)
      BY <1>3, <1>4
    <3> QED BY <1>2, <1>3, <3>1, ElementOfSeq DEF Follows, Words
  <2> DEFINE s == SubSeq(argv, k + 2, Len(words))
             t == SubSeq(words, k + 2, Len(words))
  <2>3. program' = s
    BY <1>1, <1>3, <1>4
  <2>4. /\ s \in Seq(Range(words)) /\ t \in Seq(Range(words)) /\ Len(s) = Len(t)
        /\ Len(s) = IF k + 2 <= Len(words) THEN Len(words) - (k + 2) + 1 ELSE 0
        /\ \A i \in 1 .. Len(words) - (k + 2) + 1 :
              s[i] = argv[(k + 2) + i - 1] /\ t[i] = words[(k + 2) + i - 1]
    BY <1>3, <2>2, SubSeqProperties
  <2> HIDE DEF s, t
  <2>5. \A i \in 1 .. Len(s) : s[i] = t[i]
    <3> SUFFICES ASSUME NEW i \in 1 .. Len(s) PROVE s[i] = t[i]
      OBVIOUS
    <3>1. i \in 1 .. Len(words) - (k + 2) + 1 /\ (k + 2) + i - 1 \in k + 2 .. Len(words)
      BY <1>3, <2>4
    <3> QED BY <2>2, <2>4, <3>1
  <2>6. s = t
    BY <2>4, <2>5, SeqEqual
  <2> QED BY <2>1, <2>3, <2>6 DEF t
<1>7. UNCHANGED <<PassLine, ProgramLine, Read, Words>>
  BY <1>1, SameReading
<1>8. phase' = "loaded" => Follows(k)'
  <2>1. ArgsOf(tried)' = ArgsOf(tried)
    BY <1>1 DEF ArgsOf
  <2> QED BY <1>1, <1>2, <1>5, <1>6, <1>7, <2>1 DEF Follows
<1>9. Stacked'
  BY <1>1, <1>3 DEF Stacked, LastFirst
<1> QED BY <1>1, <1>3, <1>7, <1>8, <1>9 DEF Told, AsGiven

LEMMA NoneLeftTold ==
    ASSUME Typed, Told, NoneLeft, AsGiven
    PROVE  Told'
<1>1. /\ phase = "loading" /\ at > Len(argv) /\ phase' = "loaded"
      /\ UNCHANGED <<opts, words, argv, at, program, tried, refused, passes>>
  BY DEF NoneLeft, start, load
<1>2. PICK k \in 0 .. Len(PassLine) : Follows(k) /\ IsReading(Read[k])
  BY AtPlace
<1>3. /\ Words /\ Stacked /\ Len(PassLine) \in Nat /\ Len(words) \in Nat
      /\ Len(argv) = Len(words) /\ Len(PassLine) <= Len(words)
  BY AtPlace
<1>4. k = Len(PassLine) /\ Len(PassLine) = Len(words)
  BY <1>1, <1>2, <1>3 DEF Follows
<1>5. ProgramLine = <<>> /\ program = <<>>
  BY <1>1, <1>2, <1>3, <1>4, LineCut DEF Follows, Words
<1>6. UNCHANGED <<PassLine, ProgramLine, Read, Words>>
  BY <1>1, SameReading
<1>7. Follows(k)'
  <2>1. ArgsOf(tried)' = ArgsOf(tried)
    BY <1>1 DEF ArgsOf
  <2> QED BY <1>1, <1>2, <1>4, <1>5, <1>6, <2>1 DEF Follows
<1>8. Stacked'
  BY <1>1, <1>3 DEF Stacked, LastFirst
<1> QED BY <1>1, <1>3, <1>6, <1>7, <1>8 DEF Told

LEMMA WordLength ==
    ASSUME NEW w \in Word
    PROVE  /\ Len(w) \in Nat \ {0}
           /\ IF Len(w) > 1 THEN Len(w) # 1 ELSE Len(w) = 1 /\ w # Comma
<1>1. Len(w) \in Nat \ {0}
  BY EmptySeq DEF Word
<1>2. w = Comma => Len(w) = 2
  BY CommaIs
<1>3. \A l \in Nat \ {0} : IF l > 1 THEN l # 1 ELSE l = 1
  OBVIOUS
<1>5. Len(w) = 1 => w # Comma
  BY <1>2
<1> QED BY <1>1, <1>3, <1>5

\* What count_args finds: words without a comma, and one behind them that may have
\* one; then the line of the passes ends or there is a lone comma, unless it had.
LEMMA CountedArgs ==
    ASSUME Typed, at <= Len(argv), CountArgs > 0, \A i \in at .. Len(argv) : argv[i] \in Word
    PROVE  LET n == CountArgs
           IN  /\ n \in 1 .. Len(argv) + 1 - at
               /\ \A i \in at .. at + n - 2 : Len(argv[i]) = 1
               /\ \A i \in at .. at + n - 1 : argv[i] # Dashes /\ argv[i] # Comma
               /\ \/ Len(argv[at + n - 1]) # 1
                  \/ at + n - 1 = Len(argv)
                  \/ argv[at + n] \in {Dashes, Comma}
<1> DEFINE ends == {k \in at .. Len(argv) : argv[k] = Dashes \/ Len(argv[k]) > 1}
           end == Min(ends)
           n == CountArgs
<1>1. at \in Nat /\ Len(argv) \in Nat /\ n \in 0 .. Len(argv) + 1 - at
  BY CountArgsFits, LenProperties DEF Typed, TypeOK
<1>2. n = IF ends = {} THEN Len(argv) - at + 1
          ELSE end - at + (IF argv[end] \in {Dashes, Comma} THEN 0 ELSE 1)
  BY DEF CountArgs
<1>3. ends \in SUBSET Nat
  BY <1>1
<1>4. Len(Comma) = 2 /\ Len(Dashes) = 1
  BY DEF Comma, Dashes
<1>5. \A w \in Word : IF Len(w) > 1 THEN Len(w) # 1 ELSE Len(w) = 1 /\ w # Comma
  BY WordLength
<1>6. \A i \in at .. Len(argv) :
         i \notin ends => argv[i] # Dashes /\ argv[i] # Comma /\ Len(argv[i]) = 1
  BY <1>5, Zenon
<1>7. \A i \in ends : i \in at .. Len(argv) /\ (argv[i] = Dashes \/ Len(argv[i]) # 1)
  BY <1>5, Zenon
<1> HIDE DEF ends, n
<1>8. CASE ends = {}
  <2>1. n = Len(argv) - at + 1
    BY <1>2, <1>8
  <2> QED BY <1>1, <1>6, <1>8, <2>1 DEF n
<1>9. CASE ends # {}
  <2>1. end \in ends /\ \A i \in ends : end <= i
    BY <1>3, <1>9, MinIsLeast
  <2> HIDE DEF end
  <2>2. end \in at .. Len(argv) /\ (argv[end] = Dashes \/ Len(argv[end]) # 1)
    BY <1>7, <2>1
  <2>3. \A i \in at .. end - 1 : i \in at .. Len(argv) /\ i \notin ends
    BY <1>1, <2>1, <2>2
  <2>4. \A i \in at .. end - 1 : argv[i] # Dashes /\ argv[i] # Comma /\ Len(argv[i]) = 1
    BY <1>6, <2>3
  <2>5. CASE argv[end] \in {Dashes, Comma}
    <3>1. n = end - at
      BY <1>1, <1>2, <1>9, <2>2, <2>5
    <3>2. n \in 1 .. Len(argv) + 1 - at /\ at + n - 1 = end - 1 /\ at + n = end
      BY <1>1, <2>2, <3>1 DEF n
    <3> QED BY <1>1, <2>2, <2>4, <2>5, <3>2 DEF n
  <2>6. CASE argv[end] \notin {Dashes, Comma}
    <3>1. n = end - at + 1
      BY <1>2, <1>9, <2>6
    <3>2. n \in 1 .. Len(argv) + 1 - at /\ at + n - 1 = end /\ at + n - 2 = end - 1
      BY <1>1, <2>2, <3>1
    <3>3. \A i \in at .. end : argv[i] # Dashes /\ argv[i] # Comma
      BY <1>1, <2>2, <2>4, <2>6
    <3>4. Len(argv[end]) # 1
      BY <2>2, <2>6
    <3> QED BY <2>4, <3>2, <3>3, <3>4 DEF n
  <2> QED BY <2>5, <2>6
<1> QED BY <1>8, <1>9

LEMMA OneOf ==
    ASSUME NEW w, w[1] \in STRING
    PROVE  SubSeq(w, 1, 1) = <<w[1]>>
<1> DEFINE s == SubSeq(w, 1, 1)
<1>1. \A i \in 1 .. 1 : w[i] \in STRING
  OBVIOUS
<1>2. s \in Seq(STRING) /\ Len(s) = 1 /\ \A i \in 1 .. 1 : s[i] = w[1 + i - 1]
  BY <1>1, SubSeqProperties
<1>3. <<w[1]>> \in Seq(STRING) /\ Len(<<w[1]>>) = 1 /\ <<w[1]>>[1] = w[1]
  OBVIOUS
<1> HIDE DEF s
<1>4. \A i \in 1 .. 1 : s[i] = <<w[1]>>[i]
  BY <1>2, <1>3
<1>5. s = <<w[1]>>
  BY <1>2, <1>3, <1>4, SeqEqual
<1> QED BY <1>5 DEF s

\* A comma stands at the end only.
Plain(w) == Len(w) = 1 \/ Tail(w) \in {<<>>, <<"">>}

LEMMA CutIs ==
    ASSUME NEW w \in Word, Plain(w)
    PROVE  Cut(w) = <<w[1]>>
<1>1. w \in Seq(STRING) /\ w # <<>>
  BY DEF Word
<1>2. /\ Len(w) \in Nat \ {0} /\ DOMAIN w = 1 .. Len(w) /\ w \in [1 .. Len(w) -> STRING]
      /\ Len(Tail(w)) = Len(w) - 1
  BY <1>1, WordLength, LenProperties, HeadTailProperties
<1>3. Len(w) = 1 \/ Len(Tail(w)) = 0 \/ Len(Tail(w)) = 1
  <2>1. Len(<<>>) = 0 /\ Len(<<"">>) = 1
    OBVIOUS
  <2> QED BY <2>1 DEF Plain
<1>4. \A l \in Nat \ {0} : l = 1 \/ l - 1 = 0 \/ l - 1 = 1 => l = 1 \/ (l = 2 /\ l > 1 /\ l - 1 = 1)
  OBVIOUS
<1>5. Len(w) = 1 \/ (Len(w) = 2 /\ Len(w) > 1 /\ Len(w) - 1 = 1)
  BY <1>2, <1>3, <1>4
<1>6. 1 \in 1 .. Len(w) /\ w[1] \in STRING
  <2>1. \A l \in Nat \ {0} : 1 \in 1 .. l
    OBVIOUS
  <2> QED BY <1>2, <2>1
<1>7. CASE Len(w) = 1
  <2>1. ~(1 > 1)
    OBVIOUS
  <2>2. Cut(w) = w
    BY <1>7, <2>1 DEF Cut
  <2>3. <<w[1]>> \in Seq(STRING) /\ Len(<<w[1]>>) = 1 /\ \A i \in 1 .. 1 : <<w[1]>>[i] = w[i]
    BY <1>6
  <2>4. w = <<w[1]>>
    BY <1>1, <1>7, <2>3, SeqEqual
  <2> QED BY <2>2, <2>4
<1>8. CASE Len(w) = 2 /\ Len(w) > 1 /\ Len(w) - 1 = 1
  <2>1. Cut(w) = SubSeq(w, 1, 1)
    BY <1>8 DEF Cut, Front
  <2>2. SubSeq(w, 1, 1) = <<w[1]>>
    BY <1>6, OneOf
  <2> QED BY <2>1, <2>2
<1> QED BY <1>5, <1>7, <1>8

LEMMA ArgsOfMore ==
    ASSUME NEW t, t \in Seq(Range(t)), NEW x
    PROVE  ArgsOf(Append(t, x)) = Append(ArgsOf(t), x.args)
<1> DEFINE S == Range(t) \cup {x}
           A == {e.args : e \in S}
           n == Len(t)
           u == Append(t, x)
<1>1. t \in Seq(S) /\ x \in S
  BY SeqMonotonic
<1>2. /\ n \in Nat /\ DOMAIN t = 1 .. n /\ DOMAIN u = 1 .. n + 1
      /\ u[n + 1] = x /\ \A i \in 1 .. n : u[i] = t[i] /\ t[i] \in S
  BY <1>1, AppendProperties, LenProperties, ElementOfSeq
<1> HIDE DEF u, n, S
<1>3. ArgsOf(t) = [i \in 1 .. n |-> t[i].args] /\ ArgsOf(u) = [i \in 1 .. n + 1 |-> u[i].args]
  BY <1>2 DEF ArgsOf
<1>4. \A i \in 1 .. n : t[i].args \in A
  BY <1>2
<1>5. ArgsOf(t) \in Seq(A) /\ Len(ArgsOf(t)) = n /\ x.args \in A
  <2>1. ArgsOf(t) \in [1 .. n -> A]
    BY <1>3, <1>4
  <2>2. ArgsOf(t) \in Seq(A)
    BY <1>2, <2>1, SeqDef
  <2>3. DOMAIN ArgsOf(t) = 1 .. n /\ DOMAIN ArgsOf(t) = 1 .. Len(ArgsOf(t)) /\ Len(ArgsOf(t)) \in Nat
    BY <2>1, <2>2, LenProperties
  <2> QED BY <1>1, <1>2, <2>2, <2>3
<1> HIDE DEF A
<1> DEFINE v == Append(ArgsOf(t), x.args)
<1>6. /\ v \in Seq(A) /\ Len(v) = n + 1 /\ v[n + 1] = x.args
      /\ \A i \in 1 .. n : v[i] = ArgsOf(t)[i]
  BY <1>5, AppendProperties
<1>7. DOMAIN v = 1 .. n + 1
  BY <1>6, LenProperties
<1> HIDE DEF v
<1>8. \A i \in 1 .. n + 1 : ArgsOf(u)[i] = v[i]
  <2> SUFFICES ASSUME NEW i \in 1 .. n + 1 PROVE ArgsOf(u)[i] = v[i]
    OBVIOUS
  <2>1. CASE i = n + 1
    BY <1>2, <1>3, <1>6, <2>1
  <2>2. CASE i # n + 1
    <3>1. i \in 1 .. n
      BY <1>2, <2>2
    <3> QED BY <1>2, <1>3, <1>6, <3>1
  <2> QED BY <2>1, <2>2
<1>9. v = [i \in 1 .. n + 1 |-> v[i]]
  BY <1>6, <1>7, LenProperties
<1> QED BY <1>3, <1>8, <1>9 DEF u, v

\* A pass that is found goes in front of those found before.
LEMMA StackedMore ==
    ASSUME Stacked, NEW x, tried' = Append(tried, x), x.made \in BOOLEAN,
           passes' = IF x.made THEN Insert(passes, x.name) ELSE passes
    PROVE  Stacked'
<1> DEFINE l == LastFirst(tried)
           S == Range(l) \cup {x.name, "resolve"}
<1>1. tried' \in Seq(Range(tried'))
  <2>1. tried \in Seq(Range(tried) \cup {x}) /\ x \in Range(tried) \cup {x}
    BY SeqMonotonic DEF Stacked
  <2>2. tried' \in Seq(Range(tried) \cup {x})
    BY <2>1, AppendProperties
  <2> QED BY <2>2, IsList
<1>2. LastFirst(tried') = IF x.made THEN <<x.name>> \o l ELSE l
  BY PilesUp DEF Stacked
<1>3. LastFirst(tried)' = LastFirst(tried')
  BY DEF LastFirst
<1>4. l \in Seq(S) /\ x.name \in S /\ "resolve" \in S /\ passes = <<"resolve">> \o l
      /\ l \in Seq(Range(l))
  <2>1. l \in Seq(Range(l)) /\ Range(l) \subseteq S
    BY DEF Stacked
  <2> QED BY <2>1, SeqMonotonic DEF Stacked
<1> HIDE DEF l, S
<1>5. CASE ~x.made
  BY <1>1, <1>2, <1>3, <1>4, <1>5 DEF Stacked
<1>6. CASE x.made
  <2>1. <<x.name>> \in Seq(S) /\ <<"resolve">> \in Seq(S) /\ Len(<<"resolve">>) = 1
    BY <1>4
  <2>2. <<x.name>> \o l \in Seq(S)
    BY <1>4, <2>1, ConcatProperties
  <2>3. /\ passes \in Seq(S) /\ Len(passes) = 1 + Len(l)
        /\ \A i \in 1 .. 1 + Len(l) : passes[i] = IF i <= 1 THEN "resolve" ELSE l[i - 1]
    BY <1>4, <2>1, ConcatProperties
  <2>4. Head(passes) = "resolve" /\ passes # <<>> /\ Len(l) \in Nat
    BY <1>4, <2>3, LenProperties
  <2>5. Tail(passes) = l
    <3>1. /\ Tail(passes) \in Seq(S) /\ Len(Tail(passes)) = Len(l)
          /\ \A i \in 1 .. Len(l) : Tail(passes)[i] = passes[i + 1]
      BY <2>3, <2>4, HeadTailProperties
    <3>2. \A i \in 1 .. Len(l) : passes[i + 1] = l[i]
      BY <2>3, <2>4
    <3> QED BY <1>4, <3>1, <3>2, SeqEqual
  <2>6. passes' = <<"resolve", x.name>> \o l
    BY <1>6, <2>4, <2>5 DEF Insert
  <2>7. <<"resolve", x.name>> = <<"resolve">> \o <<x.name>>
    OBVIOUS
  <2>8. passes' = <<"resolve">> \o (<<x.name>> \o l)
    <3>1. (<<"resolve">> \o <<x.name>>) \o l = <<"resolve">> \o (<<x.name>> \o l)
      BY <1>4, <2>1, ConcatAssociative
    <3> QED BY <2>6, <2>7, <3>1
  <2>9. LastFirst(tried') = <<x.name>> \o l
    BY <1>2, <1>6
  <2>10. LastFirst(tried') \in Seq(Range(LastFirst(tried')))
    BY <2>2, <2>9, IsList
  <2> QED BY <1>1, <1>3, <2>8, <2>9, <2>10 DEF Stacked
<1> QED BY <1>5, <1>6

LEMMA LoadPassTold ==
    ASSUME Typed, Told, LoadPass, AsGiven'
    PROVE  Told'
<1> DEFINE n == CountArgs
           line == [argv EXCEPT ![at + n - 1] = Cut(@)]
           args == SubSeq(line, at, at + n - 1)
           name == IF Len(args[1]) = 1 THEN args[1][1] ELSE ""
           x == [args |-> args, name |-> name, made |-> Creates(name)]
<1>1. /\ phase = "loading" /\ at <= Len(argv) /\ n > 0 /\ argv' = line
      /\ UNCHANGED <<opts, words, program>>
      /\ tried' = IF refused THEN tried ELSE Append(tried, x)
      /\ IF Creates(name)
         THEN \E outcome \in Outcomes(name, line, at, n) :
                /\ phase' = IF outcome = "exits" THEN "exited" ELSE phase
                /\ IF outcome \in {"fails", "exits"}
                   THEN refused' = (refused \/ outcome = "fails") /\ UNCHANGED at
                   ELSE passes' = Insert(passes, name) /\ at' = at + n /\ UNCHANGED refused
         ELSE at' = at + n /\ UNCHANGED <<phase, passes, refused>>
  BY DEF LoadPass, start, Past
<1>2. phase' \in {"loading", "loaded"} /\ ~refused' /\ Proper' /\ {Interactive, ServerMode} \cap opts' = {}
  BY DEF AsGiven
<1> DEFINE made == Creates(name)
<1>3. /\ phase' = phase /\ ~refused /\ at' = at + n /\ tried' = Append(tried, x)
      /\ passes' = IF made THEN Insert(passes, name) ELSE passes
  <2>1. CASE ~Creates(name)
    BY <1>1, <1>2, <2>1
  <2>2. CASE Creates(name)
    <3> HIDE DEF name, n, line, x
    <3>1. PICK outcome : /\ phase' = IF outcome = "exits" THEN "exited" ELSE phase
                         /\ IF outcome \in {"fails", "exits"}
                            THEN refused' = (refused \/ outcome = "fails") /\ UNCHANGED at
                            ELSE passes' = Insert(passes, name) /\ at' = at + n /\ UNCHANGED refused
      BY <1>1, <2>2
    <3>2. outcome \notin {"fails", "exits"}
      BY <1>2, <3>1
    <3>3. ~refused /\ at' = at + n /\ passes' = Insert(passes, name) /\ phase' = phase
      BY <1>2, <3>1, <3>2
    <3> QED BY <1>1, <2>2, <3>3
  <2> QED BY <2>1, <2>2
<1>4. made \in BOOLEAN
  BY DEF Creates
<1>5. x.made = made /\ x.name = name /\ x.args = args
  OBVIOUS
<1>6. UNCHANGED <<PassLine, ProgramLine, Read, Words, Proper>>
  BY <1>1, SameReading
<1> HIDE DEF name, x, args, line, n, made
<1>7. AsGiven
  BY <1>1, <1>2, <1>3, <1>6 DEF AsGiven
<1>8. PICK k \in 0 .. Len(PassLine) : Follows(k) /\ IsReading(Read[k])
  BY <1>7, AtPlace
<1>9. /\ Words /\ Stacked /\ Len(PassLine) \in Nat /\ Len(words) \in Nat
      /\ Len(argv) = Len(words) /\ Len(PassLine) <= Len(words)
  BY <1>7, AtPlace
<1>10. /\ at = k + 1
       /\ \A i \in at .. Len(argv) : argv[i] = words[i] /\ argv[i] \in Word
  <2>1. at = k + 1 /\ \A i \in at .. Len(argv) : argv[i] = words[i]
    BY <1>8, <1>9 DEF Follows
  <2>2. \A i \in at .. Len(argv) : i \in 1 .. Len(words)
    BY <1>9, <2>1
  <2>3. \A i \in 1 .. Len(words) : words[i] \in Word
    BY <1>9, ElementOfSeq DEF Words
  <2> QED BY <2>1, <2>2, <2>3
<1>11. /\ n \in 1 .. Len(argv) + 1 - at
       /\ \A i \in at .. at + n - 2 : Len(argv[i]) = 1
       /\ \A i \in at .. at + n - 1 : argv[i] # Dashes /\ argv[i] # Comma
       /\ \/ Len(argv[at + n - 1]) # 1
          \/ at + n - 1 = Len(argv)
          \/ argv[at + n] \in {Dashes, Comma}
  BY <1>1, <1>10, CountedArgs DEF n
<1>12. n \in Nat \ {0} /\ at + n - 1 = k + n /\ at + n = k + n + 1 /\ k + n <= Len(words)
       /\ \A i \in k + 1 .. k + n : i \in at .. Len(argv) /\ i \in at .. at + n - 1
  <2>1. n \in 1 .. Len(argv) + 1 - at
    BY <1>11
  <2>2. at = k + 1
    BY <1>10
  <2>3. k \in Nat /\ Len(argv) \in Nat /\ Len(argv) = Len(words)
    BY <1>9
  <2> QED BY <2>1, <2>2, <2>3
<1>13. k + n <= Len(PassLine)
  <2> SUFFICES ASSUME ~(k + n <= Len(PassLine)) PROVE FALSE
    OBVIOUS
  <2>1. Len(PassLine) + 1 \in k + 1 .. k + n /\ Len(PassLine) < Len(words)
    BY <1>9, <1>12
  <2>2. words[Len(PassLine) + 1] = Dashes
    BY <1>9, <2>1, LineCut DEF Words
  <2> QED BY <1>10, <1>11, <1>12, <2>1, <2>2
<1>14. \A i \in k + 1 .. k + n :
          /\ i \in 1 .. Len(PassLine) /\ PassLine[i] = argv[i] /\ argv[i] = words[i]
          /\ argv[i] # Comma /\ argv[i] \in Word
  <2>1. \A i \in k + 1 .. k + n : i \in 1 .. Len(PassLine)
    BY <1>9, <1>12, <1>13
  <2> QED BY <1>9, <1>10, <1>11, <1>12, <2>1, LineCut DEF Words
<1>15. Read[k].open = <<>>
  <2>1. k # Len(PassLine) /\ k + 1 \in k + 1 .. k + n
    BY <1>9, <1>12, <1>13
  <2> QED BY <1>8, <1>14, <2>1 DEF Follows
<1>16. /\ Close(Read[k + n]).closed = Append(Read[k].closed, SubSeq(Arguments, k + 1, k + n))
       /\ Len(PassLine[k + n]) # 1 => Read[k + n].open = <<>>
  <2>1. \A j \in 1 .. n - 1 : Len(PassLine[k + j]) = 1
    <3>1. \A j \in 1 .. n - 1 : k + j \in at .. at + n - 2 /\ k + j \in k + 1 .. k + n
      BY <1>10, <1>12
    <3> QED BY <1>11, <1>14, <3>1
  <2>2. n \in 1 .. Len(PassLine) - k /\ k + n \in k + 1 .. k + n
    BY <1>9, <1>12, <1>13
  <2>3. PassLine[k + n] # Comma
    BY <1>14, <2>2
  <2> QED BY <1>9, <1>15, <2>1, <2>2, <2>3, ReadAhead
<1>17. \A i \in 1 .. Len(argv) : line[i] = IF i = k + n THEN Cut(argv[i]) ELSE argv[i]
  <2>1. DOMAIN argv = 1 .. Len(argv)
    BY LenProperties DEF Typed
  <2> QED BY <1>12, <2>1 DEF line
<1>18. args = SubSeq(Arguments, k + 1, k + n)
  <2>1. \A i \in k + 1 .. k + n : line[i] = Arguments[i] /\ Arguments[i] \in Argument
    <3> SUFFICES ASSUME NEW i \in k + 1 .. k + n
                 PROVE  line[i] = Arguments[i] /\ Arguments[i] \in Argument
      OBVIOUS
    <3>1. /\ i \in 1 .. Len(PassLine) /\ i \in 1 .. Len(argv) /\ argv[i] \in Word
          /\ PassLine[i] = argv[i]
      BY <1>9, <1>14
    <3>2. Arguments[i] = <<argv[i][1]>> /\ Arguments[i] \in Argument
      BY <1>9, <3>1, ArgumentsAre, ElementOfSeq
    <3>3. Plain(argv[i])
      <4>1. DOMAIN PassLine = 1 .. Len(PassLine)
        BY <1>9, ArgumentsAre, LenProperties
      <4>2. Proper
        BY <1>7 DEF AsGiven
      <4> QED BY <3>1, <4>1, <4>2 DEF Proper, Plain
    <3>4. i # k + n => Len(argv[i]) = 1
      <4>1. i # k + n => i \in at .. at + n - 2
        BY <1>10, <1>12
      <4> QED BY <1>11, <4>1
    <3>5. Cut(argv[i]) = <<argv[i][1]>>
      BY <3>1, <3>3, CutIs
    <3>6. i # k + n => Cut(argv[i]) = argv[i]
      <4>1. ~(1 > 1)
        OBVIOUS
      <4> QED BY <3>4, <4>1 DEF Cut
    <3> QED BY <1>17, <3>1, <3>2, <3>5, <3>6
  <2> DEFINE s == SubSeq(line, k + 1, k + n)
             t == SubSeq(Arguments, k + 1, k + n)
  <2>2. k + 1 \in Int /\ k + n \in Int /\ k + 1 <= k + n /\ (k + n) - (k + 1) + 1 = n
    BY <1>9, <1>12
  <2>3. /\ s \in Seq(Argument) /\ t \in Seq(Argument) /\ Len(s) = n /\ Len(t) = n
        /\ \A i \in 1 .. n : s[i] = line[(k + 1) + i - 1] /\ t[i] = Arguments[(k + 1) + i - 1]
    <3>0. PICK u, v : u = line /\ v = Arguments
      OBVIOUS
    <3>1. PICK a \in Int, b \in Int : a = k + 1 /\ b = k + n /\ a <= b /\ b - a + 1 = n
      BY <2>2
    <3>2. \A i \in a .. b : u[i] \in Argument /\ v[i] \in Argument
      BY <2>1, <3>0, <3>1
    <3>3. /\ SubSeq(u, a, b) \in Seq(Argument) /\ Len(SubSeq(u, a, b)) = b - a + 1
          /\ \A i \in 1 .. b - a + 1 : SubSeq(u, a, b)[i] = u[a + i - 1]
      BY <3>1, <3>2, SubSeqProperties
    <3>4. /\ SubSeq(v, a, b) \in Seq(Argument) /\ Len(SubSeq(v, a, b)) = b - a + 1
          /\ \A i \in 1 .. b - a + 1 : SubSeq(v, a, b)[i] = v[a + i - 1]
      BY <3>1, <3>2, SubSeqProperties
    <3> QED BY <3>0, <3>1, <3>3, <3>4
  <2> HIDE DEF s, t
  <2>4. \A i \in 1 .. n : (k + 1) + i - 1 \in k + 1 .. k + n
    BY <1>9, <1>12
  <2>5. \A i \in 1 .. Len(s) : s[i] = t[i]
    BY <2>1, <2>3, <2>4
  <2>6. s = t
    BY <2>3, <2>5, SeqEqual
  <2> QED BY <1>10, <1>12, <2>6 DEF args, s, t
<1>19. Close(Read[k + n]).closed = ArgsOf(tried)'
  <2>1. Close(Read[k]).closed = Read[k].closed
    BY <1>8, <1>15, CloseIs
  <2>2. Read[k].closed = ArgsOf(tried)
    BY <1>8, <2>1 DEF Follows
  <2>3. ArgsOf(Append(tried, x)) = Append(ArgsOf(tried), args)
    BY <1>5, <1>9, ArgsOfMore DEF Stacked
  <2>4. ArgsOf(tried)' = ArgsOf(tried')
    BY DEF ArgsOf
  <2> QED BY <1>3, <1>16, <1>18, <2>2, <2>3, <2>4
<1>20. Read[k + n].open = <<>> \/ k + n = Len(PassLine) \/ PassLine[k + n + 1] = Comma
  <2>1. PassLine[k + n] = argv[k + n]
    <3>1. k + n \in k + 1 .. k + n
      BY <1>9, <1>12
    <3> QED BY <1>14, <3>1
  <2>2. CASE Len(argv[at + n - 1]) # 1
    BY <1>12, <1>16, <2>1, <2>2
  <2>3. CASE at + n - 1 = Len(argv)
    BY <1>9, <1>12, <1>13, <2>3
  <2>4. CASE at + n - 1 # Len(argv) /\ argv[at + n] \in {Dashes, Comma} /\ k + n # Len(PassLine)
    <3>1. k + n + 1 \in at .. Len(argv) /\ k + n + 1 \in 1 .. Len(PassLine)
      BY <1>9, <1>10, <1>12, <1>13, <2>4
    <3>2. PassLine[k + n + 1] = words[k + n + 1] /\ words[k + n + 1] # Dashes
      BY <1>9, <3>1, LineCut DEF Words
    <3>3. words[k + n + 1] = argv[at + n]
      BY <1>10, <1>12, <3>1
    <3> QED BY <2>4, <3>2, <3>3
  <2> QED BY <1>11, <2>2, <2>3, <2>4
<1>21. PICK c : c = k + n
  OBVIOUS
<1>22. Follows(c)'
  <2>1. at' = c + 1
    BY <1>3, <1>12, <1>21
  <2>2. \A i \in at' .. Len(words) : argv'[i] = words[i]
    <3>1. \A i \in at' .. Len(words) : i \in 1 .. Len(argv) /\ i # k + n /\ i \in at .. Len(argv)
      BY <1>9, <1>10, <1>12, <1>21, <2>1
    <3> QED BY <1>1, <1>10, <1>17, <3>1
  <2>3. program' = <<>> /\ phase' = "loading"
    BY <1>1, <1>3, <1>8 DEF Follows
  <2>4. /\ words' = words /\ PassLine' = PassLine /\ Read' = Read
    BY <1>1, <1>6
  <2>5. ArgsOf(tried)' = ArgsOf(tried')
    BY DEF ArgsOf
  <2> QED BY <1>19, <1>20, <1>21, <2>1, <2>2, <2>3, <2>4, <2>5 DEF Follows
<1>23. Stacked'
  BY <1>3, <1>4, <1>5, <1>9, StackedMore
<1>24. c \in 0 .. Len(PassLine')
  BY <1>6, <1>21, <1>9, <1>12, <1>13
<1>25. phase' = "loading" /\ Words'
  BY <1>1, <1>3, <1>6, <1>9
<1> QED BY <1>22, <1>23, <1>24, <1>25 DEF Told

LEMMA StepTold ==
    ASSUME Typed, Told, [Next]_vars
    PROVE  Told'
<1>1. CASE ParseOpts
  BY <1>1, ParseOptsTold
<1>2. CASE ~ParseOpts
  <2>1. UNCHANGED words /\ (phase' = "options" => UNCHANGED vars)
    BY <1>2 DEF Next, Load, Program, Skip, LoadPass, NoneLeft, Begin, AddPass, RemovePass, Leave,
                Prompts, start, load, vars
  <2>2. Words'
    BY <2>1, SameReading DEF Told
  <2>3. CASE ~AsGiven'
    <3>1. phase' = "options" => (phase = "options" => /\ argv = words /\ at = 1
                /\ passes = <<"resolve">> /\ tried = <<>> /\ program = <<>>)'
      BY <2>1 DEF Told, vars, start, load
    <3> QED BY <2>2, <2>3, <3>1 DEF Told
  <2>4. CASE AsGiven' /\ UNCHANGED vars
    <3>1. UNCHANGED <<PassLine, ProgramLine, Read, Words, Proper>>
      BY <2>1, SameReading
    <3>2. ArgsOf(tried)' = ArgsOf(tried) /\ LastFirst(tried)' = LastFirst(tried)
      BY <2>4 DEF ArgsOf, LastFirst, vars, load
    <3> QED BY <2>4, <3>1, <3>2 DEF Told, AsGiven, Stacked, Follows, vars, start, load
  <2>5. CASE AsGiven' /\ ~UNCHANGED vars
    <3>1. Proper' = Proper
      BY <2>1, SameReading
    <3>2. Program \/ Skip \/ LoadPass \/ NoneLeft
      BY <1>2, <2>5 DEF Next, Load, Begin, AddPass, RemovePass, Leave, Prompts, AsGiven
    <3>3. CASE LoadPass
      BY <2>5, <3>3, LoadPassTold
    <3>4. CASE ~LoadPass
      <4>1. AsGiven
        BY <2>5, <3>1, <3>2, <3>4 DEF AsGiven, Program, Skip, NoneLeft, start, load
      <4> QED BY <3>2, <3>4, <4>1, ProgramTold, SkipTold, NoneLeftTold
    <3> QED BY <3>3, <3>4
  <2> QED BY <2>3, <2>4, <2>5
<1> QED BY <1>1, <1>2

\* What is told so far is what is asked for so far, and all of it in the end.
LEMMA ToldIsAsked ==
    ASSUME Told, AsGiven
    PROVE  LoadedAsAsked
<1>1. Words /\ Stacked
  BY DEF Told
<1>2. PICK k \in 0 .. Len(PassLine) : Follows(k)
  BY DEF Told
<1>3. /\ Read[k].open = <<>> \/ k = Len(PassLine) \/ PassLine[k + 1] = Comma
      /\ Close(Read[k]).closed = ArgsOf(tried)
      /\ phase = "loaded" => k = Len(PassLine) /\ program = ProgramLine
  BY <1>2 DEF Follows
<1>4. Begins(ArgsOf(tried), AskedFor)
  BY <1>1, <1>2, <1>3, ReadIsAsked
<1>5. IsReading(Read[k]) /\ IsReading(Read[Len(PassLine)]) /\ Len(PassLine) \in Nat
  BY <1>1, <1>2, ReadTyped, ArgumentsAre
<1>6. ArgsOf(tried) \in Seq(Seq(Argument)) /\ AskedFor \in Seq(Seq(Argument))
  BY <1>3, <1>5, CloseIs DEF AskedFor, IsReading
<1>7. IsPrefix(ArgsOf(tried), AskedFor)
  <2> DEFINE s == ArgsOf(tried) t == AskedFor
  <2>1. s \in Seq(Seq(Argument)) /\ t \in Seq(Seq(Argument)) /\ Begins(s, t)
    BY <1>4, <1>6
  <2> HIDE DEF s, t
  <2>2. /\ Len(s) \in Nat /\ Len(t) \in Nat /\ Len(s) <= Len(t)
        /\ \A i \in 1 .. Len(s) : s[i] = t[i]
    BY <2>1, LenProperties DEF Begins
  <2>3. SubSeq(s, 1, Len(s)) = SubSeq(t, 1, Len(s))
    BY <2>1, <2>2
  <2>4. IsPrefix(s, t)
    BY <2>2, <2>3 DEF IsPrefix
  <2> QED BY <2>4 DEF s, t
<1>8. ASSUME phase = "loaded" PROVE Len(tried) = Len(AskedFor) /\ program = ProgramLine
  <2>1. ArgsOf(tried) = AskedFor
    BY <1>3, <1>8 DEF AskedFor
  <2>2. Len(ArgsOf(tried)) = Len(tried)
    <3>1. tried \in Seq(Range(tried))
      BY <1>1 DEF Stacked
    <3>2. DOMAIN ArgsOf(tried) = 1 .. Len(tried) /\ Len(tried) \in Nat
      BY <3>1, LenProperties DEF ArgsOf
    <3> QED BY <1>6, <3>2, LenProperties
  <2> QED BY <1>3, <1>8, <2>1, <2>2
<1> QED BY <1>1, <1>7, <1>8 DEF LoadedAsAsked, Stacked, ArgsOf

\* As long as no init has failed, every proper command line is loaded as it is
\* written: each pass is tried in turn with its arguments, those found are in the
\* pipeline, the last one first, and the program is what stands behind "--",
\* though load_passes counts its way with count_args and cuts commas off the words
\* as it goes (passes.c:273).
THEOREM LoadsAsAsked == Spec => []LoadedAsAsked
<1>1. Told => LoadedAsAsked
  <2>1. ~AsGiven => LoadedAsAsked
    BY DEF AsGiven, LoadedAsAsked
  <2> QED BY <2>1, ToldIsAsked
<1>2. Typed /\ Told /\ [Next]_vars => Told'
  BY StepTold
<1> QED BY <1>1, <1>2, InitTold, TypedHolds, PTL DEF Spec
=============================================================================
