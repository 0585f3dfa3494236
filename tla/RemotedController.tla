-------------------------- MODULE RemotedController --------------------------
(***************************************************************************)
(* The controller task of sl-remoted (remoted/src/controller.rs): it alone *)
(* decides when the service listens.  Session1's status is the only source *)
(* of the network view; rtnetlink and bus-owner notifications invalidate   *)
(* it, and every await is raced against the next notification.             *)
(*                                                                         *)
(* Session1 passes the call on to sl-platformd, where concurrent GetStatus *)
(* calls share one observation (platformd/src/shared_read.rs): the flight. *)
(* It is a task of its own and outlives the caller that started it.        *)
(*                                                                         *)
(* Time is discrete.  The task is scheduled promptly: time does not pass   *)
(* while it has something to do (Urgent).                                  *)
(***************************************************************************)
EXTENDS Naturals, FiniteSets

CONSTANTS
    Views,          \* the network views Session1 may report
    Addresses,      \* addresses a listener may be bound to
    listen,         \* view -> the addresses it asks to listen on
    NoView,         \* nothing published, nothing answered
    RECONCILE,      \* time between two refreshes
    RETRY,          \* time between a failed refresh and the next
    STALE_AFTER,    \* age at which a failed refresh withdraws
    SESSION_TIMEOUT,\* time a refresh may take
    OBSERVATION     \* time an observation of sl-platformd may take

ASSUME ViewsAssumption ==
    Views \cap {NoView, "waiting", "error"} = {} /\ NoView \notin {"waiting", "error"}
ASSUME ListenAssumption == listen \in [Views -> SUBSET Addresses]
ASSUME TimesAssumption ==
    /\ RECONCILE \in Nat \ {0} /\ RETRY \in Nat \ {0}
    /\ STALE_AFTER \in Nat \ {0} /\ SESSION_TIMEOUT \in Nat \ {0}
    /\ OBSERVATION \in Nat

(* A failed refresh is retried sooner than a good one is repeated, and a good *)
(* one is repeated before it is stale.                                       *)
ASSUME LimitsAssumption == RETRY <= RECONCILE /\ RECONCILE <= STALE_AFTER

VARIABLES
    reported,   \* the view the network observer would report now
    flight,     \* the observation under way: [step, network, age]
    contended,  \* "yes" while the kernel may refuse an address
    events,     \* "none", "pending", or "broken" when the source of notifications failed
    phase,      \* "idle", "fetching", "debounce" or "exited"
    next,       \* time until the next refresh
    elapsed,    \* time the refresh under way has taken
    answer,     \* NoView, "waiting" on the flight, or what Session1 answered
    published,  \* the view last applied, even when nothing could be bound
    complete,   \* "yes" when each of its addresses was bound
    shared,     \* the view that connections are checked against
    bound,      \* the addresses with a listener
    marker,     \* /run/sl-remoted/listening: "absent", "present", or "left" behind
    age,        \* time since the view was last confirmed
    early,      \* history: of call and shared, those begun before the last notification
    outdated    \* history: of flight, answer and shared, those read before it

sessionVars == <<reported, flight, contended, events>>
loopVars == <<phase, next, elapsed, answer>>
exposureVars == <<published, complete, shared, bound, marker, age>>
historyVars == <<early, outdated>>
vars == <<sessionVars, loopVars, exposureVars, historyVars>>

NoFlight == [step |-> "none", network |-> NoView, age |-> 0]

-----------------------------------------------------------------------------

(* Marker::remove does not look whether it could. *)
remove == IF marker = "absent" THEN {"absent"} ELSE {"absent", "left"}

(* withdraw: marker, eligibility, listeners, and no view to compare with. *)
Withdrawn ==
    /\ marker' \in remove
    /\ shared' = NoView
    /\ bound' = {}
    /\ published' = NoView
    /\ complete' = "no"
    /\ age' = 0

(* establish, after a withdrawal: bind what can be bound; with no listener   *)
(* the view is kept but nothing is published; without the marker everything  *)
(* is withdrawn again.                                                       *)
establish(view) ==
    \/ \E addresses \in SUBSET listen[view] :
        /\ contended = "no" => addresses = listen[view]
        /\ bound' = addresses
        /\ published' = view
        /\ complete' = IF addresses = listen[view] THEN "yes" ELSE "no"
        /\ shared' = IF addresses = {} THEN NoView ELSE view
        /\ marker' \in IF addresses = {} THEN remove ELSE {"present"}
        /\ age' = 0
    \/ /\ listen[view] # {}
       /\ Withdrawn

\* Mutant: a failed refresh never withdraws.
apply_ignores_staleness(result) ==
    \/ /\ result = "error"
       /\ UNCHANGED exposureVars
       /\ next' = RETRY
    \/ /\ result # "error"
       /\ IF complete = "yes" /\ published = result
          THEN age' = 0 /\ UNCHANGED <<published, complete, shared, bound, marker>>
          ELSE establish(result)
       /\ next' = RECONCILE

\* Mutant: a view that is incompletely bound is confirmed like any other.
apply_confirms_partial(result) ==
    \/ /\ result = "error"
       /\ IF published = NoView \/ age >= STALE_AFTER
          THEN Withdrawn ELSE UNCHANGED exposureVars
       /\ next' = RETRY
    \/ /\ result # "error"
       /\ IF published = result
          THEN age' = 0 /\ UNCHANGED <<published, complete, shared, bound, marker>>
          ELSE establish(result)
       /\ next' = RECONCILE

\* Mutant: the new view is recorded while the old one stays in force.
apply_keeps_exposure(result) ==
    \/ /\ result = "error"
       /\ IF published = NoView \/ age >= STALE_AFTER
          THEN Withdrawn ELSE UNCHANGED exposureVars
       /\ next' = RETRY
    \/ /\ result # "error"
       /\ IF published # NoView
          THEN /\ age' = 0 /\ published' = result
               /\ UNCHANGED <<complete, shared, bound, marker>>
          ELSE establish(result)
       /\ next' = RECONCILE

(* apply: an unchanged view that is completely bound is only confirmed.  A   *)
(* failure withdraws what was never confirmed or is stale by now.            *)
apply(result) ==
    \/ /\ result = "error"
       /\ IF published = NoView \/ age >= STALE_AFTER
          THEN Withdrawn ELSE UNCHANGED exposureVars
       /\ next' = RETRY
    \/ /\ result # "error"
       /\ IF complete = "yes" /\ published = result
          THEN age' = 0 /\ UNCHANGED <<published, complete, shared, bound, marker>>
          ELSE establish(result)
       /\ next' = RECONCILE

-----------------------------------------------------------------------------
(* The loop: invalidation first (biased), then the timer or the refresh. *)

fetch ==
    /\ phase = "idle" /\ events = "none" /\ next = 0
    /\ phase' = "fetching"
    /\ elapsed' = 0
    /\ answer' = NoView
    /\ early' = early \ {"call"}
    /\ UNCHANGED <<sessionVars, next, exposureVars, outdated>>

(* What comes into force is as old as the call and the reading it came from. *)
Carried(history, origin) ==
    CASE shared' = NoView                -> history \ {origin, "shared"}
      [] answer \notin Views             -> history \ {origin}
      [] origin \in history              -> (history \ {origin}) \cup {"shared"}
      [] OTHER                           -> history \ {"shared"}

refreshed ==
    /\ phase = "fetching" /\ events = "none"
    /\ \/ answer \notin {NoView, "waiting"} /\ apply(answer)
       \/ answer \in {NoView, "waiting"} /\ elapsed = SESSION_TIMEOUT /\ apply("error")
    /\ early' = Carried(early, "call") /\ outdated' = Carried(outdated, "answer")
    /\ phase' = "idle"
    /\ answer' = NoView
    /\ elapsed' = 0
    /\ UNCHANGED sessionVars

\* Mutant: the refresh under way is not dropped, and its answer still counts.
invalidate_keeps_refresh ==
    /\ events # "none" /\ phase \in {"idle", "fetching"}
    /\ Withdrawn
    /\ events' = "none"
    /\ phase' = IF events = "broken" THEN "exited"
                ELSE IF phase = "fetching" THEN "fetching" ELSE "debounce"
    /\ early' = early \ {"shared"} /\ outdated' = outdated \ {"shared"}
    /\ UNCHANGED <<reported, flight, contended, next, elapsed, answer>>

(* Withdraw at once; a refresh under way is dropped with its answer, while   *)
(* the observation that it waited for goes on.                               *)
invalidate ==
    /\ events # "none" /\ phase \in {"idle", "fetching"}
    /\ Withdrawn
    /\ events' = "none"
    /\ phase' = IF events = "broken" THEN "exited" ELSE "debounce"
    /\ next' = 0 /\ elapsed' = 0 /\ answer' = NoView
    /\ early' = {} /\ outdated' = outdated \cap {"flight"}
    /\ UNCHANGED <<reported, flight, contended>>

(* A burst of notifications restarts DEBOUNCE, which is shorter than a unit. *)
debounce ==
    /\ phase = "debounce"
    /\ phase' = CASE events = "broken" -> "exited"
                  [] events = "pending" -> "debounce"
                  [] OTHER -> "idle"
    /\ events' = "none"
    /\ UNCHANGED <<reported, flight, contended, next, elapsed, answer, exposureVars,
                   historyVars>>

-----------------------------------------------------------------------------
(* Session1, sl-platformd, the kernel and the clock. *)

(* SharedRead::run: join the flight, or start one. *)
Joined == IF flight.step = "none" THEN [NoFlight EXCEPT !.step = "started"] ELSE flight

SessionCalls ==
    /\ phase = "fetching" /\ answer = NoView
    /\ answer' = "waiting"
    /\ flight' = Joined
    /\ UNCHANGED <<reported, contended, events, phase, next, elapsed, exposureVars,
                   historyVars>>

(* The console, the web status or corectl calls GetStatus. *)
OthersCall ==
    /\ flight.step = "none"
    /\ flight' = Joined
    /\ UNCHANGED <<reported, contended, events, loopVars, exposureVars, historyVars>>

(* observe_network; bootc, which is slower, is observed at the same time. *)
observe_network ==
    /\ flight.step = "started"
    /\ flight' = [flight EXCEPT !.step = "read", !.network = reported]
    /\ UNCHANGED <<reported, contended, events, loopVars, exposureVars, historyVars>>

\* Mutant: the observation that has ended is kept for later callers.
FlightEndsCached ==
    /\ flight.step # "none"
    /\ flight' = IF flight.step = "read" THEN [flight EXCEPT !.age = 0] ELSE NoFlight
    /\ \/ answer # "waiting" /\ UNCHANGED <<answer, outdated>>
       \/ answer = "waiting" /\ answer' = "error" /\ UNCHANGED outdated
       \/ /\ answer = "waiting" /\ flight.step = "read" /\ answer' = flight.network
          /\ outdated' = IF "flight" \in outdated THEN outdated \cup {"answer"} ELSE outdated
    /\ UNCHANGED <<reported, contended, events, phase, next, elapsed, exposureVars, early>>

(* The flight ends for all that joined it.  A status that fails, has another *)
(* schema, an address that does not parse or a /0 prefix is as good as none: *)
(* view_from_status fails closed.                                            *)
FlightEnds ==
    /\ flight.step # "none"
    /\ flight' = NoFlight
    /\ \/ /\ answer # "waiting"
          /\ outdated' = outdated \ {"flight"} /\ UNCHANGED answer
       \/ /\ answer = "waiting" /\ answer' = "error"
          /\ outdated' = outdated \ {"flight"}
       \/ /\ answer = "waiting" /\ flight.step = "read" /\ answer' = flight.network
          /\ outdated' = IF "flight" \in outdated THEN (outdated \ {"flight"}) \cup {"answer"}
                         ELSE outdated
    /\ UNCHANGED <<reported, contended, events, phase, next, elapsed, exposureVars, early>>

(* Session1 is gone, or one of its other owners does not answer. *)
SessionFails ==
    /\ phase = "fetching" /\ answer \in {NoView, "waiting"}
    /\ answer' = "error"
    /\ UNCHANGED <<sessionVars, phase, next, elapsed, exposureVars, historyVars>>

(* A link, address or route changes, or Session1 changes owner. *)
Notified(view) ==
    /\ phase # "exited" /\ events # "broken"
    /\ reported' = view
    /\ events' = "pending"
    /\ early' = {tag \in {"call", "shared"} :
                    IF tag = "call" THEN phase = "fetching" ELSE shared # NoView}
    /\ outdated' = {tag \in {"flight", "answer", "shared"} :
                    CASE tag = "flight" -> flight.step = "read"
                      [] tag = "answer" -> answer \in Views
                      [] OTHER          -> shared # NoView}
    /\ UNCHANGED <<flight, contended, loopVars, exposureVars>>

(* The observer catches up later than the kernel notified. *)
ReportedLate(view) ==
    /\ phase # "exited" /\ view # reported
    /\ reported' = view
    /\ UNCHANGED <<flight, contended, events, loopVars, exposureVars, historyVars>>

(* An address that another socket has, or that is not usable yet, and back. *)
AddressesChange ==
    /\ phase # "exited"
    /\ contended' = IF contended = "no" THEN "yes" ELSE "no"
    /\ UNCHANGED <<reported, flight, events, loopVars, exposureVars, historyVars>>

EventsBreak ==
    /\ phase # "exited" /\ events # "broken"
    /\ events' = "broken"
    /\ UNCHANGED <<reported, flight, contended, loopVars, exposureVars, historyVars>>

(* The process is started anew; the marker of the earlier run is removed. *)
Restart ==
    /\ phase = "exited"
    /\ phase' = "idle" /\ next' = 0 /\ elapsed' = 0 /\ answer' = NoView
    /\ events' = "none"
    /\ Withdrawn
    /\ early' = {} /\ outdated' = outdated \cap {"flight"}
    /\ UNCHANGED <<reported, flight, contended>>

Urgent ==
    \/ events # "none" /\ phase # "exited"
    \/ phase = "debounce"
    \/ phase = "idle" /\ next = 0
    \/ phase = "fetching" /\ (answer \notin {NoView, "waiting"} \/ elapsed = SESSION_TIMEOUT)
    \/ flight.step # "none" /\ flight.age = OBSERVATION

Tick ==
    /\ ~Urgent /\ phase # "exited"
    /\ age' = IF published = NoView THEN 0 ELSE age + 1
    /\ next' = IF phase = "idle" THEN next - 1 ELSE next
    /\ elapsed' = IF phase = "fetching" THEN elapsed + 1 ELSE elapsed
    /\ flight' = IF flight.step = "none" THEN flight ELSE [flight EXCEPT !.age = @ + 1]
    /\ UNCHANGED <<reported, contended, events, phase, answer, published, complete, shared,
                   bound, marker, historyVars>>

Init ==
    /\ reported \in Views /\ flight = NoFlight
    /\ contended = "no" /\ events = "none"
    /\ phase = "idle" /\ next = 0 /\ elapsed = 0 /\ answer = NoView
    /\ published = NoView /\ complete = "no"
    /\ shared = NoView /\ bound = {} /\ marker = "absent"
    /\ age = 0
    /\ early = {} /\ outdated = {}

Next ==
    \/ fetch \/ refreshed \/ invalidate \/ debounce
    \/ SessionCalls \/ OthersCall \/ observe_network \/ FlightEnds \/ SessionFails
    \/ AddressesChange \/ EventsBreak \/ Restart \/ Tick
    \/ \E view \in Views : Notified(view) \/ ReportedLate(view)

Spec == Init /\ [][Next]_vars

(* The task, the clock and sl-platformd's own deadlines go on; Session1 need *)
(* not call or answer.                                                       *)
LiveSpec == Spec /\ WF_vars(fetch) /\ WF_vars(refreshed) /\ WF_vars(invalidate)
                 /\ WF_vars(debounce) /\ WF_vars(Tick)
                 /\ WF_vars(flight.age = OBSERVATION /\ FlightEnds)

-----------------------------------------------------------------------------

(* Every variable has its type; no wait exceeds its limit. *)
TypeOK ==
    /\ reported \in Views /\ answer \in Views \cup {NoView, "waiting", "error"}
    /\ flight \in [step : {"none", "started", "read"}, network : Views \cup {NoView},
                   age : 0 .. OBSERVATION]
    /\ events \in {"none", "pending", "broken"}
    /\ phase \in {"idle", "fetching", "debounce", "exited"}
    /\ next \in 0 .. RECONCILE /\ elapsed \in 0 .. SESSION_TIMEOUT
    /\ published \in Views \cup {NoView} /\ shared \in Views \cup {NoView}
    /\ complete \in {"yes", "no"} /\ marker \in {"absent", "present", "left"}
    /\ contended \in {"yes", "no"}
    /\ bound \in SUBSET Addresses
    /\ age \in Nat
    /\ early \in SUBSET {"call", "shared"}
    /\ outdated \in SUBSET {"flight", "answer", "shared"}

(* The marker, the listeners and the eligibility that connections are        *)
(* checked against stand and fall together, whatever could not be bound or   *)
(* written, but for a marker that withdraw could not remove; and a listener  *)
(* only ever has an address of the view in force (controller.rs: withdraw    *)
(* before establish).                                                        *)
ExposureIsOne ==
    /\ marker = "present" <=> shared # NoView
    /\ bound # {} <=> shared # NoView
    /\ shared # NoView => shared = published /\ bound \subseteq listen[shared]
    /\ phase \in {"debounce", "exited"} => shared = NoView

(* A view is never in force that was asked for before the last notification, *)
(* however the refresh, the notification and the debounce interleave: until  *)
(* the notification is consumed nothing new is published, and consuming it   *)
(* withdraws (controller.rs: the biased selects of run).                     *)
AskedAfterNotification == "shared" \in early => events # "none"

(* An outdated view that a shared observation brought into force is not      *)
(* confirmed once more: an observation that has ended is never joined, and   *)
(* the next one reads after the notification (shared_read.rs: cleared and    *)
(* published under the lock).                                                *)
OutdatedNotRenewed ==
    [][shared # NoView /\ shared' = shared /\ age' < age => "shared" \notin outdated']_vars

(* Session1 may fail for as long as it likes: the view is withdrawn at the   *)
(* latest one retry and one refresh after it became stale.                   *)
BoundedStaleness ==
    shared # NoView => age < STALE_AFTER + RETRY + SESSION_TIMEOUT

Settled(view) ==
    /\ reported = view /\ events = "none" /\ phase # "exited"
    /\ answer # "error"
    /\ phase = "fetching" => answer \in Views \/ elapsed < SESSION_TIMEOUT
MarkerWritten == refreshed /\ answer \in Views => published' # NoView

(* When the network stays as it is, Session1 answers in time and the marker  *)
(* can be written, the view it reports is applied in the end and stays, also *)
(* a late report; and once the kernel refuses no address any more, none that *)
(* could not be bound before is left behind, although the view is the same   *)
(* (controller.rs: RECONCILE, RETRY and `complete' in apply).                *)
Converges ==
    \A view \in Views :
        <>[]Settled(view) /\ <>[][MarkerWritten]_vars =>
            /\ <>[](published = view)
            /\ <>[](contended = "no") => <>[](bound = listen[view])
=============================================================================
