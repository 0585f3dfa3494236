---------------------------- MODULE RemotedServer ----------------------------
(***************************************************************************)
(* Accepting and serving connections in sl-remoted (remoted/src/server.rs) *)
(* against the eligibility the controller publishes (Shared and the        *)
(* withdraw and establish of remoted/src/controller.rs).                   *)
(*                                                                         *)
(* The runtime has several threads.  The controller's withdrawal is        *)
(* synchronous but not atomic to the accept loops and the connections; an  *)
(* aborted accept loop still finishes the step between two awaits; a       *)
(* connection reads the generation once and then waits for it to change.   *)
(***************************************************************************)
EXTENDS Naturals, FiniteSets

CONSTANTS
    Conns,              \* connections there may be at a time
    Sources,            \* addresses of clients
    Views,              \* network views the controller may publish
    on_link,            \* view -> the sources that are on link
    NoView,
    MAX_CONNECTIONS,    \* permits of the semaphore
    MAX_GENERATION      \* bound: withdrawals of one behaviour

ASSUME ConnsAssumption == IsFiniteSet(Conns)
ASSUME ViewsAssumption == NoView \notin Views
ASSUME OnLinkAssumption == on_link \in [Views -> SUBSET Sources]
ASSUME LimitAssumption == MAX_CONNECTIONS \in Nat /\ MAX_GENERATION \in Nat

VARIABLES
    generation, \* the watch channel
    current,    \* [generation, view], or a view NoView: what admits reads
    pc,         \* how far the controller is in withdraw or establish
    marker,     \* /run/sl-remoted/listening: "absent", "present", or "left" behind
    loops,      \* generations whose accept loops are not aborted
    permits,    \* of the semaphore
    conn,       \* conn[c]: [stage, generation, source]
    publications\* history: generation -> the view published under it

controllerVars == <<generation, current, pc, marker, loops, publications>>
vars == <<controllerVars, permits, conn>>

Stages == {"none", "accepted", "admitted", "spawned", "serving"}
Steps == {"idle", "marker", "current", "close", "withdrawn", "published", "served"}
Unpublished == [generation |-> 0, view |-> NoView]
(* A task that has taken its permit. *)
Holding == {c \in Conns : conn[c].stage \in {"spawned", "serving"}}

-----------------------------------------------------------------------------
(* Controller::withdraw, then perhaps Controller::establish. *)

(* Marker::remove does not look whether it could. *)
remove == IF marker = "absent" THEN {"absent"} ELSE {"absent", "left"}

(* Anything may start a withdrawal: a notification, another view, staleness. *)
remove_marker ==
    /\ pc \in {"idle", "withdrawn"} /\ generation < MAX_GENERATION
    /\ pc' = "marker"
    /\ marker' \in remove
    /\ UNCHANGED <<generation, current, loops, publications, permits, conn>>

withdraw_current ==
    /\ pc = "marker"
    /\ pc' = "current"
    /\ current' = Unpublished
    /\ UNCHANGED <<generation, marker, loops, publications, permits, conn>>

\* Mutant: the connections are not told.
withdraw_generation_kept ==
    /\ pc = "current"
    /\ pc' = "close"
    /\ UNCHANGED <<generation, current, marker, loops, publications, permits, conn>>

withdraw_generation ==
    /\ pc = "current"
    /\ pc' = "close"
    /\ generation' = generation + 1
    /\ UNCHANGED <<current, marker, loops, publications, permits, conn>>

(* TcpListeners::close: abort takes effect at the loop's next await. *)
close ==
    /\ pc = "close"
    /\ pc' = "withdrawn"
    /\ loops' = {}
    /\ UNCHANGED <<generation, current, marker, publications, permits, conn>>

publish(view) ==
    /\ pc = "withdrawn"
    /\ pc' = "published"
    /\ current' = [generation |-> generation, view |-> view]
    /\ publications' = [publications EXCEPT ![generation] = view]
    /\ UNCHANGED <<generation, marker, loops, permits, conn>>

serve ==
    /\ pc = "published"
    /\ pc' = "served"
    /\ loops' = loops \cup {generation}
    /\ UNCHANGED <<generation, current, marker, publications, permits, conn>>

(* The marker comes last; when it cannot be written, everything is withdrawn. *)
create_marker ==
    /\ pc = "served"
    /\ \/ pc' = "idle" /\ marker' = "present"
       \/ generation < MAX_GENERATION /\ pc' = "marker" /\ marker' \in remove
    /\ UNCHANGED <<generation, current, loops, publications, permits, conn>>

-----------------------------------------------------------------------------
(* accept_loop: between accept and the next one it does not yield. *)

\* Mutant: only the generation is compared.
admits_any_source(g, source) ==
    current.view # NoView /\ current.generation = g

(* Shared::admits, under the read lock. *)
admits(g, source) ==
    /\ current.view # NoView /\ current.generation = g
    /\ source \in on_link[current.view]

Become(c, stage) == conn' = [conn EXCEPT ![c].stage = stage]

accept(c, g, source) ==
    /\ conn[c].stage = "none" /\ g \in loops
    /\ conn' = [conn EXCEPT ![c] = [stage |-> "accepted", generation |-> g, source |-> source]]
    /\ UNCHANGED <<controllerVars, permits>>

check_admits(c) ==
    /\ conn[c].stage = "accepted"
    /\ Become(c, IF admits(conn[c].generation, conn[c].source) THEN "admitted" ELSE "none")
    /\ UNCHANGED <<controllerVars, permits>>

try_acquire(c) ==
    /\ conn[c].stage = "admitted"
    /\ \/ permits = 0 /\ Become(c, "none") /\ UNCHANGED permits
       \/ permits > 0 /\ Become(c, "spawned") /\ permits' = permits - 1
    /\ UNCHANGED controllerVars

-----------------------------------------------------------------------------
(* serve_connection: subscribe, compare once, then work until the             *)
(* generation changes.                                                        *)

subscribe(c) ==
    /\ conn[c].stage = "spawned"
    /\ \/ conn[c].generation = generation /\ Become(c, "serving") /\ UNCHANGED permits
       \/ conn[c].generation # generation /\ Become(c, "none") /\ permits' = permits + 1
    /\ UNCHANGED controllerVars

(* Handshake and header timeouts, errors and the client's own close. *)
work_ends(c) ==
    /\ conn[c].stage = "serving"
    /\ Become(c, "none") /\ permits' = permits + 1
    /\ UNCHANGED controllerVars

\* Mutant: the permit is only given back when the work ends by itself.
changes_leak_permit(c) ==
    /\ conn[c].stage = "serving" /\ conn[c].generation # generation
    /\ Become(c, "none") /\ UNCHANGED permits
    /\ UNCHANGED controllerVars

\* Mutant: the connection waits for an older generation.
changes_awaits_older(c) ==
    /\ conn[c].stage = "serving" /\ conn[c].generation > generation
    /\ Become(c, "none") /\ permits' = permits + 1
    /\ UNCHANGED controllerVars

changes(c) ==
    /\ conn[c].stage = "serving" /\ conn[c].generation # generation
    /\ Become(c, "none") /\ permits' = permits + 1
    /\ UNCHANGED controllerVars

-----------------------------------------------------------------------------

Init ==
    /\ generation = 0 /\ current = Unpublished /\ pc = "idle" /\ marker = "absent"
    /\ loops = {}
    /\ publications = [g \in 0 .. MAX_GENERATION |-> NoView]
    /\ permits = MAX_CONNECTIONS
    /\ conn \in [Conns -> [stage : {"none"}, generation : {0}, source : Sources]]

Controller ==
    \/ remove_marker \/ withdraw_current \/ withdraw_generation \/ close
    \/ \E view \in Views : publish(view)
    \/ serve \/ create_marker

Next ==
    \/ Controller
    \/ \E c \in Conns :
        \/ \E g \in 0 .. MAX_GENERATION, source \in Sources : accept(c, g, source)
        \/ check_admits(c) \/ try_acquire(c)
        \/ subscribe(c) \/ work_ends(c) \/ changes(c)

Spec == Init /\ [][Next]_vars

(* A spawned task is polled, and wait_for wakes its select. *)
LiveSpec == Spec /\ \A c \in Conns : WF_vars(subscribe(c)) /\ WF_vars(changes(c))

-----------------------------------------------------------------------------

(* Every variable has its type. *)
TypeOK ==
    /\ generation \in 0 .. MAX_GENERATION
    /\ current \in [generation : 0 .. MAX_GENERATION, view : Views \cup {NoView}]
    /\ pc \in Steps /\ marker \in {"absent", "present", "left"}
    /\ loops \in SUBSET (0 .. MAX_GENERATION)
    /\ publications \in [0 .. MAX_GENERATION -> Views \cup {NoView}]
    /\ permits \in 0 .. MAX_CONNECTIONS
    /\ conn \in [Conns -> [stage : Stages, generation : 0 .. MAX_GENERATION, source : Sources]]

(* Each task holds one permit and every other permit is free, on every way   *)
(* out of serve_connection, so the service never refuses for good nor serves *)
(* more than MAX_CONNECTIONS (server.rs: the permit moves into the task).    *)
PermitsBalance == permits + Cardinality(Holding) = MAX_CONNECTIONS

(* No TLS byte is exchanged with a source that was not on link in the view   *)
(* published under the generation of its listener, whatever the controller   *)
(* replaced between accept, check and spawn (controller.rs: admits compares  *)
(* generation and source under one lock).                                    *)
ServedOnLink ==
    \A c \in Conns : conn[c].stage = "serving" =>
        LET view == publications[conn[c].generation]
        IN  view # NoView /\ conn[c].source \in on_link[view]

(* The marker is only there while the listeners accept under the generation  *)
(* that is published, unless removing it failed (controller.rs: removed      *)
(* first, created last).                                                     *)
MarkerMeansListening ==
    marker = "present" =>
        /\ loops = {generation}
        /\ current.generation = generation /\ current.view # NoView

(* Once withdraw has returned, no connection of an earlier view is taken     *)
(* into service any more, and those in service are all told to end: none     *)
(* has the new generation (controller.rs: "every listener and connection of  *)
(* an earlier generation ends").                                             *)
NothingSurvivesWithdrawal ==
    pc = "withdrawn" =>
        /\ loops = {}
        /\ \A c \in Conns : conn[c].stage # "none" => conn[c].generation < generation

(* A connection enters service only under the generation in force at that    *)
(* moment, although it was admitted some steps earlier (server.rs:           *)
(* serve_connection compares again after subscribing).                       *)
ServiceStartsCurrent ==
    [][\A c \in Conns :
        conn[c].stage # "serving" /\ conn'[c].stage = "serving"
            => conn[c].generation = generation]_vars

Outdated(c) == conn[c].stage \in {"spawned", "serving"} /\ conn[c].generation # generation

(* A connection whose generation was withdrawn ends, without the client's    *)
(* doing (server.rs: the select on changes.wait_for).                        *)
WithdrawnConnectionsEnd == \A c \in Conns : Outdated(c) ~> conn[c].stage = "none"
=============================================================================
