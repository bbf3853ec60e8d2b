----------------------------- MODULE MCObjInfo ------------------------------
(* The instance of ObjInfo for TLC: the interfaces the handlers know, one    *)
(* that makes buffers they do not know of, one with objects the compositor   *)
(* makes, and one wldbg has not loaded.                                      *)
EXTENDS ObjInfo

Msg(name, sig) ==
    [name |-> name, sig |-> sig, types |-> [k \in DOMAIN sig |-> "NULL"],
     makes |-> {"none"}, takes |-> "none", numbers |-> {0}, ends |-> FALSE]

Ends(msg) == [msg EXCEPT !.ends = TRUE]

Making(msg, intf) ==
    [msg EXCEPT !.makes = {intf},
                !.types = [k \in DOMAIN msg.sig |-> IF msg.sig[k] = "n" THEN intf ELSE @[k]]]

Taking(msg, intf) == [msg EXCEPT !.takes = intf]

Numbered(msg, numbers) == [msg EXCEPT !.numbers = numbers]

Serials == {1, 2, 3}

RecordedProtocol == [
    display |-> [requests |-> <<>>, events |-> <<Msg("delete_id", <<"u">>)>>],
    registry |-> [requests |-> <<[Msg("bind", <<"u", "s", "u", "n">>)
                                  EXCEPT !.makes = {"seat", "foreign"}]>>,
                  events |-> <<>>],
    compositor |-> [requests |-> <<Making(Msg("create_surface", <<"n">>), "surface")>>,
                    events |-> <<>>],
    shm |-> [requests |-> <<Making(Msg("create_pool", <<"n", "h", "i">>), "pool")>>,
             events |-> <<>>],
    pool |-> [requests |-> <<Making(Msg("create_buffer",
                                        <<"n", "i", "i", "i", "i", "u">>), "buffer")>>,
              events |-> <<>>],
    drm |-> [requests |-> <<Making(Msg("create_buffer",
                                       <<"n", "u", "i", "i", "u", "u">>), "buffer")>>,
             events |-> <<>>],
    shell |-> [requests |-> <<Taking(Making(Msg("get_xdg_surface", <<"n", "o">>),
                                            "xdg_surface"), "surface")>>,
               events |-> <<>>],
    surface |-> [requests |-> <<Ends(Msg("destroy", <<>>)),
                                Taking(Msg("attach", <<"?", "o", "i", "i">>), "buffer"),
                                Making(Msg("frame", <<"n">>), "callback"),
                                Msg("commit", <<>>)>>,
                 events |-> <<>>],
    buffer |-> [requests |-> <<Ends(Msg("destroy", <<>>))>>,
                events |-> <<Msg("release", <<>>)>>],
    xdg_surface |-> [requests |-> <<Ends(Msg("destroy", <<>>)),
                                    Numbered(Msg("ack_configure", <<"u">>), {1, 3})>>,
                     events |-> <<Numbered(Msg("configure", <<"i", "i", "a", "u">>),
                                           Serials)>>],
    seat |-> [requests |-> <<Ends(Msg("release", <<>>))>>,
              events |-> <<Msg("name", <<"s">>)>>],
    device |-> [requests |-> <<Making(Msg("get_data", <<"i", "n">>), "callback")>>,
                events |-> <<Making(Msg("data_offer", <<"n">>), "offer")>>],
    offer |-> [requests |-> <<Ends(Msg("destroy", <<>>))>>,
               events |-> <<Msg("offer", <<"s">>)>>],
    callback |-> [requests |-> <<>>, events |-> <<Ends(Msg("done", <<"u">>))>>],
    foreign |-> [requests |-> <<Ends(Msg("destroy", <<>>))>>, events |-> <<>>]]

RecordedLoaded == DOMAIN RecordedProtocol \ {"foreign"}

RecordedWords == [i \in DOMAIN RecordedProtocol \cup {"none"} |->
                     IF i = "foreign" THEN 1 ELSE 2]

\* Two ids are left to each: for surfaces and buffers, for xdg_surfaces, for
\* seats and for objects of the compositor's.
Beginnings == {<<"compositor", "pool", "drm">>, <<"compositor", "shell", "pool">>,
               <<"registry", "compositor", "pool">>, <<"registry", "compositor", "drm">>,
               <<"registry", "shm", "device">>}
=============================================================================
