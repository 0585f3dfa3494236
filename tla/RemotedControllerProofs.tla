----------------------- MODULE RemotedControllerProofs -----------------------
(***************************************************************************)
(* Proofs about RemotedController, for any views, addresses and time       *)
(* limits.  Three arguments: exposure is one thing because every change of *)
(* it passes through withdraw; no history of an earlier notification is    *)
(* left once the notification is consumed, because consuming it withdraws  *)
(* and drops the refresh; and the age of a view is bounded by the timers,  *)
(* because in each phase one of them runs down while the age goes up.      *)
(***************************************************************************)
EXTENDS RemotedController, TLAPS

(* Outside a refresh there is no answer, and after a notification nothing is *)
(* left to compare with; an observation that has read has read a view.       *)
AnswersToRefresh ==
    /\ flight.step = "read" => flight.network \in Views
    /\ phase # "fetching" => answer = NoView /\ elapsed = 0
    /\ phase \in {"debounce", "exited"} => next = 0 /\ published = NoView

(* A call that a notification overtook is there only until the notification  *)
(* is consumed.                                                              *)
NothingEarly ==
    /\ early # {} => events # "none"
    /\ phase \in {"debounce", "exited"} => early = {}

(* Beside a view in force, and beside an answer, there is no reading left    *)
(* that a consumed notification overtook.                                    *)
NothingOutdated ==
    events = "none" =>
        /\ answer \in Views => "flight" \notin outdated
        /\ shared # NoView => outdated \cap {"flight", "answer"} = {}

(* The longest time until the next refresh of a view begins. *)
Horizon == STALE_AFTER + RETRY - 1

(* The timer that runs bounds what the age can become. *)
AgeIsBounded ==
    /\ published = NoView => age = 0
    /\ phase = "idle" => age + next <= Horizon
    /\ phase = "fetching" => age <= Horizon + elapsed

Inv == /\ TypeOK /\ ExposureIsOne /\ AnswersToRefresh
       /\ NothingEarly /\ NothingOutdated /\ AgeIsBounded

-----------------------------------------------------------------------------

LEMMA InvInit == Init => Inv
  BY ViewsAssumption, TimesAssumption, LimitsAssumption
  DEF Init, Inv, TypeOK, ExposureIsOne, AnswersToRefresh, NothingEarly, NothingOutdated,
      AgeIsBounded, Horizon, NoFlight

(* The steps of the daemons around the task. *)
LEMMA InvSession ==
    ASSUME Inv, SessionCalls \/ OthersCall \/ observe_network \/ SessionFails
           \/ AddressesChange \/ EventsBreak
    PROVE  Inv'
  <1> USE DEF Inv
  <1>1. ASSUME SessionCalls \/ OthersCall PROVE Inv'
    <2>1. flight' \in [step : {"none", "started", "read"}, network : Views \cup {NoView},
                       age : 0 .. OBSERVATION]
      BY <1>1, TimesAssumption DEF SessionCalls, OthersCall, Joined, NoFlight, TypeOK
    <2>2. /\ UNCHANGED <<reported, contended, events, phase, next, elapsed, exposureVars,
                        historyVars>>
          /\ answer' \in {answer, "waiting"} /\ (phase # "fetching" => answer' = answer)
      BY <1>1 DEF SessionCalls, OthersCall, loopVars
    <2>3. flight'.step = "read" => flight'.network \in Views
      BY <1>1 DEF SessionCalls, OthersCall, Joined, NoFlight, TypeOK, AnswersToRefresh
    <2> QED BY <2>1, <2>2, <2>3, ViewsAssumption
        DEF exposureVars, historyVars, TypeOK, ExposureIsOne, AnswersToRefresh, NothingEarly,
            NothingOutdated, AgeIsBounded
  <1>2. ASSUME observe_network PROVE Inv'
    <2>1. /\ flight' \in [step : {"none", "started", "read"}, network : Views \cup {NoView},
                          age : 0 .. OBSERVATION]
          /\ flight'.network \in Views
      BY <1>2 DEF observe_network, TypeOK
    <2>2. UNCHANGED <<reported, contended, events, loopVars, exposureVars, historyVars>>
      BY <1>2 DEF observe_network
    <2> QED BY <2>1, <2>2 DEF loopVars, exposureVars, historyVars, TypeOK, ExposureIsOne,
                AnswersToRefresh, NothingEarly, NothingOutdated, AgeIsBounded
  <1>3. CASE SessionFails
    BY <1>3, ViewsAssumption
    DEF SessionFails, sessionVars, exposureVars, historyVars, TypeOK, ExposureIsOne,
        AnswersToRefresh, NothingEarly, NothingOutdated, AgeIsBounded
  <1>4. CASE EventsBreak
    BY <1>4 DEF EventsBreak, loopVars, exposureVars, historyVars, TypeOK, ExposureIsOne,
                AnswersToRefresh, NothingEarly, NothingOutdated, AgeIsBounded
  <1>5. CASE AddressesChange
    BY <1>5 DEF AddressesChange, loopVars, exposureVars, historyVars, TypeOK, ExposureIsOne,
                AnswersToRefresh, NothingEarly, NothingOutdated, AgeIsBounded
  <1> QED BY <1>1, <1>2, <1>3, <1>4, <1>5

LEMMA InvFlightEnds == ASSUME Inv, FlightEnds PROVE Inv'
  <1> USE DEF Inv
  <1>1. flight' \in [step : {"none", "started", "read"}, network : Views \cup {NoView},
                     age : 0 .. OBSERVATION]
    /\ flight'.step # "read"
    BY TimesAssumption DEF FlightEnds, NoFlight
  <1>2. UNCHANGED <<reported, contended, events, phase, next, elapsed, exposureVars, early>>
    BY DEF FlightEnds
  <1>3. /\ answer' \in Views \cup {NoView, "waiting", "error"}
        /\ outdated' \in SUBSET {"flight", "answer", "shared"}
        /\ "flight" \notin outdated'
        /\ "answer" \in outdated' => "answer" \in outdated \/ "flight" \in outdated
        /\ phase # "fetching" => answer' = answer
    BY ViewsAssumption DEF FlightEnds, TypeOK, AnswersToRefresh
  <1> QED BY <1>1, <1>2, <1>3 DEF exposureVars, TypeOK, ExposureIsOne,
        AnswersToRefresh, NothingEarly, NothingOutdated, AgeIsBounded

LEMMA InvReports ==
    ASSUME Inv, NEW view \in Views, Notified(view) \/ ReportedLate(view)
    PROVE  Inv'
  <1> USE DEF Inv
  <1>1. CASE Notified(view)
    BY <1>1 DEF Notified, loopVars, exposureVars, TypeOK, ExposureIsOne,
                AnswersToRefresh, NothingEarly, NothingOutdated, AgeIsBounded
  <1>2. CASE ReportedLate(view)
    BY <1>2 DEF ReportedLate, loopVars, exposureVars, historyVars, TypeOK, ExposureIsOne,
                AnswersToRefresh, NothingEarly, NothingOutdated, AgeIsBounded
  <1> QED BY <1>1, <1>2

(* Time passes only while a timer runs. *)
LEMMA InvTick == ASSUME Inv, Tick PROVE Inv'
  <1> USE DEF Inv
  <1>1. /\ phase \in {"idle", "fetching"} /\ events = "none"
        /\ phase = "idle" => next > 0
        /\ phase = "fetching" => elapsed < SESSION_TIMEOUT
        /\ flight.step # "none" => flight.age < OBSERVATION
    BY TimesAssumption DEF Tick, Urgent, TypeOK
  <1>2. TypeOK'
    <2>1. flight' \in [step : {"none", "started", "read"}, network : Views \cup {NoView},
                       age : 0 .. OBSERVATION]
      BY <1>1, TimesAssumption DEF Tick, TypeOK
    <2>2. next' \in 0 .. RECONCILE /\ elapsed' \in 0 .. SESSION_TIMEOUT /\ age' \in Nat
      BY <1>1, TimesAssumption DEF Tick, TypeOK
    <2> QED BY <2>1, <2>2 DEF Tick, TypeOK, historyVars
  <1>3. AgeIsBounded'
    BY <1>1, TimesAssumption, LimitsAssumption DEF Tick, TypeOK, AgeIsBounded, Horizon
  <1>4. ExposureIsOne' /\ AnswersToRefresh' /\ NothingEarly' /\ NothingOutdated'
    BY <1>1 DEF Tick, historyVars, ExposureIsOne, AnswersToRefresh, NothingEarly, NothingOutdated
  <1> QED BY <1>2, <1>3, <1>4

-----------------------------------------------------------------------------
(* The task. *)

LEMMA InvLoop == ASSUME Inv, fetch \/ debounce PROVE Inv'
  <1> USE DEF Inv
  <1>1. CASE fetch
    BY <1>1, ViewsAssumption, TimesAssumption, LimitsAssumption
    DEF fetch, sessionVars, exposureVars, TypeOK, ExposureIsOne, AnswersToRefresh,
        NothingEarly, NothingOutdated, AgeIsBounded, Horizon
  <1>2. ASSUME debounce PROVE Inv'
    <2>1. phase' \in {"idle", "debounce", "exited"}
      BY <1>2 DEF debounce
    <2> QED BY <1>2, <2>1, ViewsAssumption, TimesAssumption, LimitsAssumption
        DEF debounce, historyVars, exposureVars, TypeOK, ExposureIsOne, AnswersToRefresh,
            NothingEarly, NothingOutdated, AgeIsBounded, Horizon
  <1> QED BY <1>1, <1>2

(* Whatever withdraws and starts anew. *)
LEMMA InvWithdraws == ASSUME Inv, invalidate \/ Restart PROVE Inv'
  <1> USE DEF Inv
  <1>1. /\ Withdrawn /\ events' = "none" /\ phase' \in {"idle", "debounce", "exited"}
        /\ next' = 0 /\ elapsed' = 0 /\ answer' = NoView
        /\ early' = {} /\ outdated' = outdated \cap {"flight"}
        /\ UNCHANGED <<reported, flight, contended>>
    BY DEF invalidate, Restart
  <1> QED BY <1>1, ViewsAssumption, TimesAssumption, LimitsAssumption
      DEF Withdrawn, remove, TypeOK, ExposureIsOne, AnswersToRefresh, NothingEarly, NothingOutdated,
          AgeIsBounded, Horizon

(* What apply makes of an answer, or of its absence: the exposure is one     *)
(* again, and what is in force is either what was or what was answered.      *)
LEMMA AppliedExposure ==
    ASSUME TypeOK, ExposureIsOne, AgeIsBounded, phase = "fetching",
           NEW result \in Views \cup {"error"}, apply(result)
    PROVE  /\ published' \in Views \cup {NoView} /\ shared' \in Views \cup {NoView}
           /\ complete' \in {"yes", "no"} /\ marker' \in {"absent", "present", "left"}
           /\ bound' \in SUBSET Addresses
           /\ age' \in Nat /\ next' \in 0 .. RECONCILE
           /\ marker' = "present" <=> shared' # NoView
           /\ bound' # {} <=> shared' # NoView
           /\ shared' # NoView => shared' = published' /\ bound' \subseteq listen[shared']
           /\ published' = NoView => age' = 0
           /\ age' + next' <= Horizon
           /\ result = "error" /\ shared' # NoView => shared' = shared /\ age' = age
  <1>1. CASE Withdrawn /\ next' \in {RETRY, RECONCILE}
    BY <1>1, ViewsAssumption, TimesAssumption, LimitsAssumption DEF Withdrawn, remove, Horizon
  <1>2. CASE result = "error" /\ UNCHANGED exposureVars /\ next' = RETRY
             /\ ~(published = NoView \/ age >= STALE_AFTER)
    BY <1>2, TimesAssumption, LimitsAssumption
    DEF exposureVars, TypeOK, ExposureIsOne, AgeIsBounded, Horizon
  <1>3. CASE /\ result # "error" /\ published = result /\ next' = RECONCILE
             /\ age' = 0 /\ UNCHANGED <<published, complete, shared, bound, marker>>
    BY <1>3, ViewsAssumption, TimesAssumption, LimitsAssumption
    DEF TypeOK, ExposureIsOne, Horizon
  <1>4. ASSUME result # "error", next' = RECONCILE, NEW addresses \in SUBSET listen[result],
               bound' = addresses, published' = result, age' = 0,
               complete' = IF addresses = listen[result] THEN "yes" ELSE "no",
               shared' = IF addresses = {} THEN NoView ELSE result,
               marker' \in IF addresses = {} THEN {"absent", "left"} ELSE {"present"}
        PROVE  /\ published' \in Views \cup {NoView} /\ shared' \in Views \cup {NoView}
               /\ complete' \in {"yes", "no"} /\ marker' \in {"absent", "present", "left"}
               /\ bound' \in SUBSET Addresses
               /\ age' \in Nat /\ next' \in 0 .. RECONCILE
               /\ marker' = "present" <=> shared' # NoView
               /\ bound' # {} <=> shared' # NoView
               /\ shared' # NoView => shared' = published' /\ bound' \subseteq listen[shared']
               /\ published' = NoView => age' = 0
               /\ age' + next' <= Horizon
    <2>1. result \in Views /\ listen[result] \subseteq Addresses /\ result # NoView
      BY <1>4, ViewsAssumption, ListenAssumption
    <2>2. next' \in 0 .. RECONCILE /\ age' \in Nat /\ age' + next' <= Horizon
      BY <1>4, TimesAssumption, LimitsAssumption DEF Horizon
    <2> QED BY <1>4, <2>1, <2>2
  <1> QED BY <1>1, <1>2, <1>3, <1>4 DEF apply, establish, remove

(* The histories lose what the answer was, and nothing comes to them but the *)
(* view in force.                                                            *)
LEMMA CarriedHistory ==
    ASSUME NEW history, NEW origin, origin # "shared"
    PROVE  /\ origin \notin Carried(history, origin)
           /\ Carried(history, origin) \subseteq history \cup {"shared"}
           /\ "shared" \in Carried(history, origin) =>
                 "shared" \in history \/ origin \in history
           /\ /\ "shared" \in Carried(history, origin)
              /\ answer \in Views
              => origin \in history
  <1>1. CASE shared' = NoView
    BY <1>1 DEF Carried
  <1>2. CASE shared' # NoView /\ answer \notin Views
    BY <1>2 DEF Carried
  <1>3. CASE shared' # NoView /\ answer \in Views /\ origin \in history
    BY <1>3 DEF Carried
  <1>4. CASE shared' # NoView /\ answer \in Views /\ origin \notin history
    BY <1>4 DEF Carried
  <1> QED BY <1>1, <1>2, <1>3, <1>4

(* A refresh applies a view that was answered, or a failure. *)
LEMMA RefreshedApplies ==
    ASSUME TypeOK, refreshed
    PROVE  \E result \in Views \cup {"error"} :
              apply(result) /\ (answer \in Views => result = answer)
                            /\ (answer \notin Views => result = "error")
  BY ViewsAssumption DEF TypeOK, refreshed

LEMMA InvRefreshed == ASSUME Inv, refreshed PROVE Inv'
  <1> USE DEF Inv
  <1>1. PICK result \in Views \cup {"error"} :
            apply(result) /\ (answer \in Views => result = answer)
                          /\ (answer \notin Views => result = "error")
    BY RefreshedApplies
  <1>2. /\ phase = "fetching" /\ events = "none" /\ phase' = "idle"
        /\ answer' = NoView /\ elapsed' = 0 /\ UNCHANGED <<reported, flight, contended, events>>
        /\ early' = Carried(early, "call") /\ outdated' = Carried(outdated, "answer")
    BY DEF refreshed, sessionVars
  <1>3. /\ published' \in Views \cup {NoView} /\ shared' \in Views \cup {NoView}
        /\ complete' \in {"yes", "no"} /\ marker' \in {"absent", "present", "left"}
        /\ bound' \in SUBSET Addresses
        /\ age' \in Nat /\ next' \in 0 .. RECONCILE
        /\ marker' = "present" <=> shared' # NoView
        /\ bound' # {} <=> shared' # NoView
        /\ shared' # NoView => shared' = published' /\ bound' \subseteq listen[shared']
        /\ published' = NoView => age' = 0
        /\ age' + next' <= Horizon
        /\ result = "error" /\ shared' # NoView => shared' = shared /\ age' = age
    BY <1>1, <1>2, AppliedExposure
  <1>4. early = {}
    BY <1>2 DEF NothingEarly
  <1>5. early' \subseteq {}
    BY <1>2, <1>4, CarriedHistory
  <1>6. /\ "answer" \notin outdated' /\ outdated' \subseteq outdated \cup {"shared"}
    BY <1>2, CarriedHistory
  <1>7. TypeOK'
    <2>1. elapsed' \in 0 .. SESSION_TIMEOUT
      BY <1>2, TimesAssumption
    <2>2. early' \in SUBSET {"call", "shared"}
      BY <1>5
    <2>3. outdated' \in SUBSET {"flight", "answer", "shared"}
      BY <1>6 DEF TypeOK
    <2> QED BY <1>2, <1>3, <2>1, <2>2, <2>3 DEF TypeOK
  <1>8. ExposureIsOne'
    BY <1>2, <1>3 DEF ExposureIsOne
  <1>9. AnswersToRefresh' /\ NothingEarly'
    BY <1>2, <1>5 DEF AnswersToRefresh, NothingEarly
  <1>10. NothingOutdated'
    BY <1>1, <1>2, <1>3, <1>6, ViewsAssumption DEF NothingOutdated
  <1>11. AgeIsBounded'
    BY <1>2, <1>3 DEF AgeIsBounded
  <1> QED BY <1>7, <1>8, <1>9, <1>10, <1>11

-----------------------------------------------------------------------------

LEMMA InvNext == ASSUME Inv, [Next]_vars PROVE Inv'
  <1>1. CASE Next
    BY <1>1, InvSession, InvFlightEnds, InvReports, InvTick, InvLoop, InvWithdraws, InvRefreshed
    DEF Next
  <1>2. CASE UNCHANGED vars
    BY <1>2 DEF vars, sessionVars, loopVars, exposureVars, historyVars, Inv, TypeOK,
                ExposureIsOne, AnswersToRefresh, NothingEarly, NothingOutdated, AgeIsBounded
  <1> QED BY <1>1, <1>2

LEMMA Invariance == Spec => []Inv
  BY InvInit, InvNext, PTL DEF Spec

(* Every variable of the controller has its type, and no wait exceeds its    *)
(* limit, for any views and time limits (controller.rs: run).                *)
THEOREM ControllerTyped == Spec => []TypeOK
  <1>1. Inv => TypeOK
    BY DEF Inv
  <1> QED BY <1>1, Invariance, PTL

(* The marker, the listeners and the eligibility stand and fall together     *)
(* (controller.rs: withdraw, establish).                                     *)
THEOREM ExposureStaysOne == Spec => []ExposureIsOne
  <1>1. Inv => ExposureIsOne
    BY DEF Inv
  <1> QED BY <1>1, Invariance, PTL

(* No view is in force that was asked for before the last notification,      *)
(* however notifications and refreshes interleave (controller.rs: the biased *)
(* selects of run).                                                          *)
THEOREM NothingEarlyInForce == Spec => []AskedAfterNotification
  <1>1. Inv => AskedAfterNotification
    BY DEF Inv, NothingEarly, AskedAfterNotification
  <1> QED BY <1>1, Invariance, PTL

(* However long Session1 fails, a view is withdrawn within one retry and one *)
(* refresh of becoming stale, whatever the limits are (controller.rs:        *)
(* STALE_AFTER, RETRY, SESSION_TIMEOUT).                                     *)
THEOREM StalenessIsBounded == Spec => []BoundedStaleness
  <1>1. Inv => BoundedStaleness
    BY TimesAssumption, LimitsAssumption
    DEF Inv, TypeOK, ExposureIsOne, AgeIsBounded, Horizon, BoundedStaleness
  <1> QED BY <1>1, Invariance, PTL

(* A view that a notification overtook while it was observed is not          *)
(* confirmed a second time (shared_read.rs: an observation that has ended is *)
(* never joined).                                                            *)
THEOREM OutdatedNeverRenewed == Spec => OutdatedNotRenewed
  <1> DEFINE Renews == shared # NoView /\ shared' = shared /\ age' < age
  <1>1. ASSUME Inv, [Next]_vars, Renews
        PROVE  "shared" \notin outdated'
    <2>1. age \in Nat /\ age' # age
      BY <1>1 DEF Inv, TypeOK
    <2>2. refreshed
      <3>1. ~Tick
        BY <1>1, <2>1, ViewsAssumption DEF Tick, Inv, ExposureIsOne
      <3>2. ~invalidate /\ ~Restart
        BY <1>1 DEF invalidate, Restart, Withdrawn
      <3> QED BY <1>1, <2>1, <3>1, <3>2
          DEF Next, vars, exposureVars, fetch, debounce, SessionCalls, OthersCall,
              observe_network, FlightEnds, SessionFails, AddressesChange, EventsBreak,
              Notified, ReportedLate
    <2>3. PICK result \in Views \cup {"error"} :
              apply(result) /\ (answer \notin Views => result = "error")
      BY <1>1, <2>2, RefreshedApplies DEF Inv
    <2>4. answer \in Views
      BY <1>1, <2>1, <2>2, <2>3, AppliedExposure DEF Inv, refreshed
    <2>5. "answer" \notin outdated
      BY <1>1, <2>2 DEF Inv, NothingOutdated, refreshed
    <2> QED BY <2>2, <2>4, <2>5, CarriedHistory DEF refreshed
  <1>2. Inv /\ [Next]_vars => [Renews => "shared" \notin outdated']_vars
    BY <1>1
  <1> QED BY <1>2, Invariance, PTL DEF Spec, OutdatedNotRenewed
=============================================================================
