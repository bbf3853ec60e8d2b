-------------------------------- MODULE Pipe --------------------------------
(***************************************************************************)
(* What wldbg promises to the two ends of a Wayland connection: between    *)
(* them it is a pair of pipes.  A peer writes, the other peer gets what    *)
(* was written, in order, nothing twice and nothing made up, until a pass, *)
(* the user or a message cut in two by a read tampers with a direction.    *)
(***************************************************************************)
EXTENDS Sequences, SequencesExt

VARIABLES
    sent,       \* sent[s]: all that peer s has written
    got,        \* got[p]: all that peer p has read
    tampered    \* tampered[s]: s's words are no longer passed on untouched

pipeVars == <<sent, got, tampered>>

Side == {"client", "server"}

Other(s) == IF s = "client" THEN "server" ELSE "client"

Init ==
    /\ sent = [s \in Side |-> <<>>]
    /\ got = [s \in Side |-> <<>>]
    /\ tampered = [s \in Side |-> FALSE]

\* A peer extends what it has written; nobody gets anything by that.
Write ==
    /\ \A s \in Side : IsPrefix(sent[s], sent'[s])
    /\ UNCHANGED <<got, tampered>>

\* A peer reads on: as long as nobody tampered with the direction toward it,
\* what it has got is the beginning of what the other one sent.
Deliver ==
    /\ \A p \in Side :
          /\ IsPrefix(got[p], got'[p])
          /\ ~tampered[Other(p)] => IsPrefix(got'[p], sent[Other(p)])
    /\ UNCHANGED <<sent, tampered>>

\* Tampering is for good.
Tamper ==
    /\ \A s \in Side : tampered[s] => tampered'[s]
    /\ UNCHANGED <<sent, got>>

Next == Write \/ Deliver \/ Tamper

Spec == Init /\ [][Next]_pipeVars
=============================================================================
