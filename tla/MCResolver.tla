----------------------------- MODULE MCResolver -----------------------------
(* The instance of Resolver for TLC that has wl_drm; ObjInfo's has the rest. *)
EXTENDS Resolver

Msg(sig, types, makes, ends) ==
    [sig |-> sig, types |-> types, makes |-> {makes}, takes |-> "none",
     numbers |-> {0}, ends |-> ends]

NothingBound == {<<>>}

\* wl_drm.create_prime_buffer: "2nhiiuiiiiii", here with one number.
DrmProtocol == [
    display |-> [requests |-> <<Msg(<<"n">>, <<"registry">>, "registry", FALSE)>>,
                 events |-> <<Msg(<<"u">>, <<"NULL">>, "none", FALSE)>>],
    registry |-> [requests |-> <<Msg(<<"u", "s", "u", "n">>, <<"NULL", "NULL", "NULL", "NULL">>,
                                     "drm", FALSE)>>,
                  events |-> <<>>],
    drm |-> [requests |-> <<[Msg(<<"2", "n", "h", "i">>, <<"buffer", "NULL", "NULL">>,
                                 "buffer", FALSE) EXCEPT !.numbers = {1, 3}]>>,
             events |-> <<>>],
    buffer |-> [requests |-> <<Msg(<<>>, <<>>, "none", TRUE)>>, events |-> <<>>]]

DrmLoaded == DOMAIN DrmProtocol

DrmNameWords == [i \in DrmLoaded \cup {"none"} |-> 2]
=============================================================================
