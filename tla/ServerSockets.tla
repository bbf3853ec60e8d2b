---------------------------- MODULE ServerSockets ----------------------------
(***************************************************************************)
(* How wldbg in server mode puts itself between the clients and the        *)
(* compositor and goes away again (src/sockets.c, server_mode_init and     *)
(* free_server_mode_resources of src/wldbg.c): instances of wldbg work on  *)
(* the same two names in XDG_RUNTIME_DIR, one system call at a time, and   *)
(* any of them may be killed between two calls.                            *)
(***************************************************************************)
EXTENDS Naturals

CONSTANTS
    Wldbgs,     \* the instances of wldbg that may run
    MaxStarts   \* bound: how often one instance is started

ASSUME ServerSocketsAssumption ==
    /\ MaxStarts \in Nat
    /\ Wldbgs \cap {"none", "compositor", "dead"} = {}

VARIABLES
    name,    \* name[n]: whose socket name n is bound to
    lock,    \* who has locked the lock file of "display"
    pc,      \* pc[w]: where instance w is
    starts,  \* number of times w was started
    direct,  \* the instances given a compositor's address (wldbg -s ADDRESS)
    mixed,   \* history: one without an address has run beside another one
    killed   \* history: one was killed

history == <<mixed, killed>>
vars == <<name, lock, pc, starts, direct, history>>

\* The name clients use, and WLDBG_SERVER_MODE_SOCKET_NAME.
Name == {"display", "aside"}

\* "dead": the socket of a process that is gone; connecting is refused.
Socket == Wldbgs \cup {"none", "compositor", "dead"}

(***************************************************************************)
(* "renamed": the compositor's socket is out of the way; "bound": the own  *)
(* one is there, not locked; "unlinked": the first of the two calls that   *)
(* clean up is made; "undefined": freed memory was used.                   *)
(***************************************************************************)
Pc == {"off", "starting", "renamed", "bound", "serving", "leaving", "unlinked",
       "undefined"}

\* The names once process w is gone.
Without(w, f) == [n \in Name |-> IF f[n] = w THEN "dead" ELSE f[n]]

Goes(w, there) == pc' = [pc EXCEPT ![w] = there]

\* The compositor has its socket at the name, and its lock, or uses another.
Init ==
    /\ \E s \in {"none", "compositor"} :
          /\ name = [n \in Name |-> IF n = "display" THEN s ELSE "none"]
          /\ lock = s
    /\ pc = [w \in Wldbgs |-> "off"]
    /\ starts = [w \in Wldbgs |-> 0]
    /\ direct = {} /\ mixed = FALSE /\ killed = FALSE

\* wldbg -s, with an address or without.
Start(w) ==
    /\ pc[w] = "off" /\ starts[w] < MaxStarts
    /\ starts' = [starts EXCEPT ![w] = @ + 1]
    /\ direct' \in {direct \cup {w}, direct \ {w}}
    /\ mixed' = (mixed \/ \E v \in Wldbgs : pc[v] # "off" /\ ~({v, w} \subseteq direct'))
    /\ Goes(w, "starting")
    /\ UNCHANGED <<name, lock, killed>>

-----------------------------------------------------------------------------
(* Without an address: server_mode_change_sockets. *)

\* rename(orig, new): whatever was at the new name is lost.
Rename(w) ==
    /\ pc[w] = "starting" /\ w \notin direct
    /\ IF name["display"] = "none"
          THEN Goes(w, "off") /\ UNCHANGED name
          ELSE /\ name' = [display |-> "none", aside |-> name["display"]]
               /\ Goes(w, "renamed")
    /\ UNCHANGED <<lock, starts, direct, history>>

\* server_mode_add_socket.  When it fails the two paths are freed, but
\* server_mode still has them and wldbg_socket_name is set: the clean-up that
\* follows uses them.
Bind(w) ==
    /\ pc[w] = "renamed"
    /\ IF name["display"] # "none"
          THEN Goes(w, "undefined") /\ UNCHANGED name
          ELSE /\ name' = [name EXCEPT !["display"] = w]
               /\ Goes(w, "serving")
    /\ UNCHANGED <<lock, starts, direct, history>>

\* Mutant of Unlink: wldbg_socket_path is unlinked too, as it is with a lock.
UnlinkBoth(w) ==
    /\ pc[w] = "leaving" /\ w \notin direct
    /\ name' = [n \in Name |-> "none"]
    /\ Goes(w, "unlinked")
    /\ UNCHANGED <<lock, starts, direct, history>>

\* server_mode_change_sockets_back, the first half: whosever socket it is.
Unlink(w) ==
    /\ pc[w] = "leaving" /\ w \notin direct
    /\ name' = [name EXCEPT !["display"] = "none"]
    /\ Goes(w, "unlinked")
    /\ UNCHANGED <<lock, starts, direct, history>>

\* Mutant of RenameBack: the compositor's socket stays where it was put.
RenameNothing(w) ==
    /\ pc[w] = "unlinked" /\ w \notin direct
    /\ name' = Without(w, name)
    /\ Goes(w, "off")
    /\ UNCHANGED <<lock, starts, direct, history>>

\* The second half, and the end of the process.
RenameBack(w) ==
    /\ pc[w] = "unlinked" /\ w \notin direct
    /\ name' = Without(w, IF name["aside"] = "none" THEN name
                          ELSE [display |-> name["aside"], aside |-> "none"])
    /\ Goes(w, "off")
    /\ UNCHANGED <<lock, starts, direct, history>>

-----------------------------------------------------------------------------
(* With an address: server_mode_add_socket_with_lock. *)

\* Mutant of BindDirect: a socket at the name is taken for a stale one.
BindDirectOver(w) ==
    /\ pc[w] = "starting" /\ w \in direct
    /\ name' = [name EXCEPT !["display"] = w]
    /\ Goes(w, "bound")
    /\ UNCHANGED <<lock, starts, direct, history>>

\* The socket is bound before the lock is taken; a socket at the name, dead or
\* alive, ends the start and is left alone.
BindDirect(w) ==
    /\ pc[w] = "starting" /\ w \in direct
    /\ IF name["display"] # "none"
          THEN Goes(w, "off") /\ UNCHANGED name
          ELSE /\ name' = [name EXCEPT !["display"] = w]
               /\ Goes(w, "bound")
    /\ UNCHANGED <<lock, starts, direct, history>>

\* socket_lock.  If another holds the lock the socket is closed and the process
\* ends; the name stays.
Lock(w) ==
    /\ pc[w] = "bound"
    /\ IF lock # "none"
          THEN name' = Without(w, name) /\ Goes(w, "off") /\ UNCHANGED lock
          ELSE lock' = w /\ Goes(w, "serving") /\ UNCHANGED name
    /\ UNCHANGED <<starts, direct, history>>

\* free_server_mode_resources: the lock file goes, unlocked, ...
Unlock(w) ==
    /\ pc[w] = "leaving" /\ w \in direct
    /\ lock' = IF lock = w THEN "none" ELSE lock
    /\ Goes(w, "unlinked")
    /\ UNCHANGED <<name, starts, direct, history>>

\* ... and then the socket at the name.
UnlinkDirect(w) ==
    /\ pc[w] = "unlinked" /\ w \in direct
    /\ name' = Without(w, [name EXCEPT !["display"] = "none"])
    /\ Goes(w, "off")
    /\ UNCHANGED <<lock, starts, direct, history>>

-----------------------------------------------------------------------------

\* The loop ends, for whatever reason, and wldbg_destroy begins.
Leave(w) ==
    /\ pc[w] = "serving"
    /\ Goes(w, "leaving")
    /\ UNCHANGED <<name, lock, starts, direct, history>>

\* SIGTERM, SIGHUP, SIGKILL or a crash: only the kernel cleans up.
Kill(w) ==
    /\ pc[w] # "off"
    /\ name' = Without(w, name)
    /\ lock' = IF lock = w THEN "none" ELSE lock
    /\ Goes(w, "off")
    /\ killed' = TRUE
    /\ UNCHANGED <<starts, direct, mixed>>

CleanUp(w) == Unlink(w) \/ RenameBack(w) \/ Unlock(w) \/ UnlinkDirect(w)

SetUp(w) == Rename(w) \/ Bind(w) \/ BindDirect(w) \/ Lock(w)

Next ==
    \E w \in Wldbgs :
       Start(w) \/ SetUp(w) \/ Leave(w) \/ CleanUp(w) \/ Kill(w)

Spec == Init /\ [][Next]_vars

\* A process that is setting up or cleaning up gets on with it.
Fairness == \A w \in Wldbgs : WF_vars(SetUp(w)) /\ WF_vars(CleanUp(w))

FairSpec == Spec /\ Fairness

-----------------------------------------------------------------------------
(* Properties. *)

TypeOK ==
    /\ name \in [Name -> Socket]
    /\ lock \in Wldbgs \cup {"none", "compositor"}
    /\ pc \in [Wldbgs -> Pc]
    /\ \A w \in Wldbgs :
          pc[w] \notin IF w \in direct THEN {"renamed", "undefined"} ELSE {"bound"}
    /\ starts \in [Wldbgs -> 0 .. MaxStarts]
    /\ direct \subseteq Wldbgs
    /\ mixed \in BOOLEAN /\ killed \in BOOLEAN

\* While an instance serves, a client that connects to the name gets an instance
\* that serves, and that one gets the compositor.
Redirecting ==
    \A w \in Wldbgs \ direct :
       pc[w] = "serving" =>
          /\ name["display"] \in {v \in Wldbgs : pc[v] = "serving"}
          /\ name["aside"] = "compositor"

\* Nothing has happened yet that the instances without an address do not stand:
\* a kill, or another instance beside them.
Calm == ~mixed /\ ~killed

\* README.md:102: "every new connection is redirected to wldbg and only then to
\* the Wayland compositor", for instances that follow one another.
Redirected == Calm => Redirecting

\* Wherever an instance is between two calls, the compositor's socket has a name
\* from which it can be put back; and when none runs, it is put back and nothing
\* is left aside, as if wldbg had never been there.
CompositorKept ==
    Calm /\ lock = "compositor" =>
       /\ \E n \in Name : name[n] = "compositor"
       /\ (\A w \in Wldbgs : pc[w] = "off")
             => name = [display |-> "compositor", aside |-> "none"]

\* An instance that leaves gets the clients' name back to the compositor.
LeavingRestores ==
    \A w \in Wldbgs :
       (Calm /\ pc[w] = "leaving" /\ lock = "compositor")
          ~> (name["display"] = "compositor" \/ ~Calm)

\* An instance with an address that serves has the name and the lock, whatever
\* others start, fail or are killed meanwhile: the bind keeps them apart, though
\* it comes before the lock.  Unless one was killed, they leave neither behind.
DirectExclusive ==
    /\ ~mixed => \A w \in direct : pc[w] = "serving" => name["display"] = w /\ lock = w
    /\ Calm /\ (\A w \in Wldbgs : pc[w] = "off") /\ lock # "compositor" =>
          name["display"] = "none" /\ lock = "none"
=============================================================================
