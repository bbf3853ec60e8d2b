------------------------------ MODULE Printing ------------------------------
(***************************************************************************)
(* What wldbg says of a message it prints (src/print.c): the object and    *)
(* the arguments as the iterator of ParseMessage finds them, every object  *)
(* with the interface the tables of Resolver have for it.                  *)
(***************************************************************************)
EXTENDS Resolver, ParseMessage

CONSTANT MaxArgs   \* WL_CLOSURE_MAX_ARGS

ASSUME PrintingAssumption == MaxArgs \in Nat

\* The message m is by the tables: wl_message of the resolved message.
MessageOf(m, which) == Protocol[GetObject(m.id)][which][m.op]

\* Mutant of PrintArg: every argument is taken for one word.
PrintArgInRow(m, msg, k) ==
    LET type == ArgTypes(msg.sig)[k]
        word == WordAt(m.data, 2 + k)
    IN  [type |-> type, word |-> word,
         intf |-> IF type = "o" THEN GetObject(word)
                  ELSE IF type = "n" THEN msg.types[k] ELSE "NULL"]

\* print_arg: the word of argument k, and the interface of an object it names;
\* of a new object, the interface the message is declared with.
PrintArg(m, msg, k) ==
    LET type == ArgTypes(msg.sig)[k]
        word == ArgWord(msg.sig, m.data, k)
    IN  [type |-> type, word |-> word,
         intf |-> IF type = "o" THEN GetObject(word)
                  ELSE IF type = "n" THEN msg.types[k] ELSE "NULL"]

\* wldbg_message_print, for a message that was resolved: its first arguments.
Printed(m, which) ==
    LET msg == MessageOf(m, which)
        args == Len(ArgTypes(msg.sig))
    IN  [k \in 1 .. (IF args <= MaxArgs THEN args ELSE MaxArgs) |->
            PrintArg(m, msg, k)]

-----------------------------------------------------------------------------

\* The two ways into wldbg, and what comes next there.
Arriving(which) == IF which = "requests" THEN requests["wldbg"] ELSE events["wldbg"]

\* What the sender put for an argument of this type.
Meant(m, type) ==
    CASE type = "n" -> m.arg.new
      [] type = "o" -> m.arg.obj
      [] OTHER -> m.arg.number

\* Of message m and its signature, the arguments up to the first descriptor are
\* words and read as they were meant.
ReadAsMeant(m, sig) ==
    /\ ArgTypes(sig) \in Seq(Range(sig))
    /\ \A k \in 1 .. Len(ArgTypes(sig)) :
          /\ ArgTypes(sig)[k] \in {"n", "o", "u", "i"}
          /\ "h" \notin Range(SubSeq(ArgTypes(sig), 1, k - 1))
          => ArgWord(sig, m.data, k) = Meant(m, ArgTypes(sig)[k])

(***************************************************************************)
(* Protocols whose messages can be read, whatever their words: the         *)
(* iterator takes what the sender put; and an object that ends with an     *)
(* event is no argument of a request, which might cross the event.         *)
(***************************************************************************)
Legible ==
    /\ \A n \in ClientId : ReadAsMeant(DeleteId(n), Protocol["display"].events[1].sig)
    /\ \A i \in Interface, which \in {"requests", "events"} :
       \A op \in DOMAIN Protocol[i][which] :
          LET msg == Protocol[i][which][op]
          IN  /\ "o" \in Range(msg.sig) =>
                    msg.takes \in Interface /\ (which = "requests" => ~Fleeting(msg.takes))
              /\ \A id \in Id :
                 \A arg \in [new : {0} \cup ClientId \cup ServerId, made : msg.makes,
                             obj : {0} \cup Id, number : msg.numbers] :
                    ReadAsMeant([arg |-> arg, data |-> Wire(id, op, msg.sig, arg)], msg.sig)

\* Numbers and objects are printed as they were sent, in whatever order the
\* strings and arrays stand between them, and an object with the interface it
\* has for the sender, though its id was used before; all that up to the first
\* descriptor: behind it the words are read one place too far on
\* (wldbg_resolved_message_next_argument, print_arg).
PrintedAsMeant ==
    \A which \in {"requests", "events"} :
        Arriving(which) # <<>> =>
           LET m == Head(Arriving(which))
           IN  Understood(m, which) =>
                  LET msg == MessageOf(m, which)
                  IN  \A k \in DOMAIN Printed(m, which) :
                         LET arg == Printed(m, which)[k]
                         IN  /\ arg.type \in {"n", "o", "u", "i"}
                             /\ "h" \notin Range(SubSeq(ArgTypes(msg.sig), 1, k - 1))
                             => /\ arg.word = Meant(m, arg.type)
                                /\ arg.type = "o" /\ arg.word # 0 =>
                                      arg.intf = Shown(msg.takes)
=============================================================================
