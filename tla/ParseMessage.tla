---------------------------- MODULE ParseMessage ----------------------------
(***************************************************************************)
(* src/parse-message.c: how wldbg takes the arguments of a message from    *)
(* its words.  Everything that looks at arguments, the records of ObjInfo  *)
(* and what is printed of a message, goes through this iterator.           *)
(*                                                                         *)
(* A message's data are its words, the two of the header included; words   *)
(* count from 1.  A signature is the sequence of its letters.              *)
(***************************************************************************)
EXTENDS Naturals, Sequences, SequencesExt

\* What stands before the letter of an argument: "may be null", and the version
\* a message came with.
Modifiers == {"?", "2", "3", "4", "5"}

\* signature_get_type, over the whole signature: the letters of the arguments.
ArgTypes(sig) == SelectSeq(sig, LAMBDA a : a \notin Modifiers)

\* The words the iterator steps over behind an argument that begins with word;
\* an "h" counts as one, though a descriptor takes none.
ArgSize(type, word) ==
    IF type \in {"s", "a"} THEN 1 + (word + 3) \div 4 ELSE 1

\* What is read at a place; behind the message it is whatever follows it.
WordAt(data, at) == IF at \in DOMAIN data THEN data[at] ELSE 0

\* The word argument k begins at, k calls of next_argument after a reset.
ArgAt(sig, data, k) ==
    FoldLeft(LAMBDA at, a : at + ArgSize(a, WordAt(data, at)), 3,
             SubSeq(ArgTypes(sig), 1, k - 1))

\* get_data_ptr: the place of the argument's data, behind the length of a string
\* or array; NULL, here 0, when that is empty.
ArgPtr(sig, data, k) ==
    LET at == ArgAt(sig, data, k)
    IN  IF ArgTypes(sig)[k] \notin {"s", "a"} THEN at
        ELSE IF WordAt(data, at) = 0 THEN 0 ELSE at + 1

\* The word the argument's data begin with.
ArgWord(sig, data, k) == WordAt(data, ArgPtr(sig, data, k))
=============================================================================
