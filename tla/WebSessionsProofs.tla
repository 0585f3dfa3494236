-------------------------- MODULE WebSessionsProofs --------------------------
(***************************************************************************)
(* Proofs about WebSessions, for any number of concurrent requests and any *)
(* limits.  The invariant relates the requests under way to the map: an    *)
(* identifier between its draw and its insertion is known to nobody else,  *)
(* no clock reading is from the future, and the times in the map are never *)
(* later than what really happened.                                        *)
(***************************************************************************)
EXTENDS WebSessions, FiniteSetTheorems, TLAPS

(* What a request may be. *)
Tasking == [stage : Stages, id : Ids \cup {NoId}, now : Times, since : Times]

(* What the requests under way have read and drawn. *)
InFlight ==
    /\ \A t \in Tasks : task[t].id \in (1..issued) \cup {NoId} /\ task[t].now <= clock
    /\ \A t \in Tasks : At(t, "insert") =>
          /\ task[t].id \in 1..issued /\ task[t].id \notin sessions \cup dead
          /\ \A u \in Tasks \ {t} : task[u].id # task[t].id

(* The times in the map are those of a reading before the lock. *)
Recorded ==
    \A id \in sessions : last_used[id] <= used[id] /\ created[id] <= born[id]

(* The map holds at most MAX_SESSIONS entries (Sessions::create). *)
Capacity == Cardinality(sessions) <= MAX_SESSIONS

Inv == TypeOK /\ InFlight /\ Recorded /\ LogoutIsFinal /\ Capacity

-----------------------------------------------------------------------------

(* The map is a finite set of identifiers. *)
LEMMA MapIsFinite ==
    ASSUME TypeOK
    PROVE  /\ sessions \subseteq Ids /\ IsFiniteSet(sessions) /\ Cardinality(sessions) \in Nat
           /\ \A S \in SUBSET sessions :
                 IsFiniteSet(S) /\ Cardinality(S) \in Nat /\ Cardinality(S) <= Cardinality(sessions)
  <1>1. sessions \subseteq Ids
    BY WebBoundsAssumption DEF TypeOK, Ids
  <1>2. IsFiniteSet(Ids)
    BY WebBoundsAssumption, FS_Interval DEF Ids
  <1>3. IsFiniteSet(sessions)
    BY <1>1, <1>2, FS_Subset
  <1> QED BY <1>1, <1>3, FS_Subset, FS_CardinalityType

(* Initially there is neither a session nor a request. *)
LEMMA InvInit == Init => Inv
  <1> SUFFICES ASSUME Init PROVE Inv
    OBVIOUS
  <1>1. Capacity
    BY FS_EmptySet, SessionsAssumption DEF Init, Capacity
  <1>2. TypeOK /\ InFlight /\ Recorded /\ LogoutIsFinal
    BY WebBoundsAssumption, NoIdAssumption
       DEF Init, TypeOK, InFlight, Recorded, LogoutIsFinal, Idle, Ids, Times, Stages, At
  <1> QED BY <1>1, <1>2 DEF Inv

(* A request goes on without touching the map: with the identifier of a       *)
(* cookie, its own, or none.                                                  *)
LEMMA QuietStep ==
    ASSUME Inv, NEW t \in Tasks, NEW r \in Tasking, Becomes(t, r),
           UNCHANGED <<clock, Session, issued, history>>,
           r.stage # "insert", r.now <= clock, r.id \in (1..issued) \cup {NoId},
           \A u \in Tasks \ {t} : At(u, "insert") => r.id # task[u].id
    PROVE  Inv'
  <1>1. /\ task' \in [Tasks -> Tasking]
        /\ task'[t] = r /\ \A u \in Tasks \ {t} : task'[u] = task[u]
    BY DEF Inv, TypeOK, Becomes, Tasking
  <1>2. TypeOK' /\ Recorded' /\ LogoutIsFinal' /\ Capacity'
    BY <1>1 DEF Inv, TypeOK, Recorded, LogoutIsFinal, Capacity, Session, history, Tasking
  <1>3. InFlight'
    BY <1>1 DEF Inv, InFlight, At, Session, history
  <1> QED BY <1>2, <1>3 DEF Inv

(* A connection without a request. *)
LEMMA IdleFields ==
    /\ Idle \in Tasking /\ Idle.stage = "idle" /\ Idle.now = 0 /\ Idle.id = NoId
    /\ Idle.since = 0
  BY WebBoundsAssumption DEF Idle, Tasking, Stages, Times

(* The requests that only go on. *)
LEMMA QuietActions ==
    ASSUME Inv, NEW t \in Tasks,
           \/ login(t) \/ verify_password(t) \/ verify_fails(t) \/ create_fails(t)
           \/ validate_reads_clock(t) \/ validate_unreadable(t)
           \/ status_replies(t) \/ Dropped(t)
           \/ \E id \in Ids : status(t, id)
           \/ \E id \in Ids \cup {NoId} : logout(t, id)
    PROVE  Inv'
  <1> USE WebBoundsAssumption, NoIdAssumption
  <1>t. /\ task[t] \in Tasking /\ clock \in Times /\ issued \in 0..MAX_LOGINS
        /\ task[t].now <= clock /\ task[t].id \in (1..issued) \cup {NoId}
        /\ \A u \in Tasks \ {t} : At(u, "insert") =>
              task[u].id # NoId /\ task[u].id # task[t].id
    BY DEF Inv, TypeOK, InFlight, Tasking, Ids
  <1>1. ASSUME NEW r \in Tasking, Becomes(t, r), r.stage # "insert", r.now = 0,
               UNCHANGED <<clock, Session, issued, history>>,
               r.id \in (1..issued) \cup {NoId},
               \A u \in Tasks \ {t} : At(u, "insert") => r.id # task[u].id
        PROVE  Inv'
    <2>1. r.now <= clock
      BY <1>1, <1>t DEF Times
    <2> QED BY <1>1, <2>1, QuietStep
  <1>2. ASSUME Answer(t), UNCHANGED <<clock, Session, issued, history>> PROVE Inv'
    BY <1>1, <1>2, <1>t, IdleFields DEF Answer
  <1>3. CASE login(t)
    <2> DEFINE r == [Idle EXCEPT !.stage = "verify"]
    <2>1. r \in Tasking /\ r.stage = "verify" /\ r.now = 0 /\ r.id = NoId
      BY IdleFields DEF Tasking, Stages
    <2> HIDE DEF r
    <2>2. Becomes(t, r) /\ UNCHANGED <<clock, Session, issued, history>>
      BY <1>3 DEF login, r
    <2> QED BY <1>1, <1>t, <2>1, <2>2
  <1>4. CASE verify_password(t)
    <2> DEFINE r == [task[t] EXCEPT !.stage = "create"]
    <2>1. r \in Tasking /\ r.stage # "insert" /\ r.now = task[t].now /\ r.id = task[t].id
      BY <1>t DEF Tasking, Stages
    <2> QED BY <1>4, <1>t, <2>1, QuietStep DEF verify_password
  <1>5. CASE validate_reads_clock(t)
    <2> DEFINE r == [task[t] EXCEPT !.stage = "check", !.now = clock]
    <2>1. r \in Tasking /\ r.stage # "insert" /\ r.now = clock /\ r.id = task[t].id
      BY <1>t DEF Tasking, Stages
    <2>2. r.now <= clock
      BY <1>t, <2>1 DEF Times
    <2> QED BY <1>5, <1>t, <2>1, <2>2, QuietStep DEF validate_reads_clock
  <1>6. ASSUME NEW id \in Ids, status(t, id) PROVE Inv'
    <2>1. id \in 1..issued /\ \A u \in Tasks \ {t} : At(u, "insert") => id # task[u].id
      BY <1>6 DEF status, Cookies
    <2> DEFINE r == [Idle EXCEPT !.stage = "validate", !.id = id, !.since = clock]
    <2>2. r \in Tasking /\ r.stage = "validate" /\ r.now = 0 /\ r.id = id
      BY <1>t, IdleFields DEF Tasking, Stages
    <2> HIDE DEF r
    <2>3. Becomes(t, r) /\ UNCHANGED <<clock, Session, issued, history>>
      BY <1>6 DEF status, r
    <2> QED BY <1>1, <2>1, <2>2, <2>3
  <1>7. ASSUME NEW id \in Ids \cup {NoId}, logout(t, id) PROVE Inv'
    <2>1. /\ id \in (1..issued) \cup {NoId}
          /\ \A u \in Tasks \ {t} : At(u, "insert") => id # task[u].id
      BY <1>7, <1>t DEF logout, Cookies
    <2> DEFINE r == [Idle EXCEPT !.stage = "logout", !.id = id]
    <2>2. r \in Tasking /\ r.stage = "logout" /\ r.now = 0 /\ r.id = id
      BY IdleFields DEF Tasking, Stages
    <2> HIDE DEF r
    <2>3. Becomes(t, r) /\ UNCHANGED <<clock, Session, issued, history>>
      BY <1>7 DEF logout, r
    <2> QED BY <1>1, <2>1, <2>2, <2>3
  <1> QED
    BY <1>2, <1>3, <1>4, <1>5, <1>6, <1>7 DEF verify_fails, create_fails,
       validate_unreadable, status_replies, Dropped

-----------------------------------------------------------------------------
(* The steps that draw, and those that change the map *)

(* What create_draws draws nobody has. *)
LEMMA DrawStep == ASSUME Inv, NEW t \in Tasks, create_draws(t) PROVE Inv'
  <1> USE WebBoundsAssumption, NoIdAssumption
  <1> DEFINE r == [stage |-> "insert", id |-> issued + 1, now |-> clock, since |-> 0]
  <1>1. /\ issued \in Nat /\ issued < MAX_LOGINS /\ issued + 1 \in Ids
        /\ issued' = issued + 1 /\ clock \in Times
    BY DEF Inv, TypeOK, create_draws, Ids
  <1>2. /\ task' \in [Tasks -> Tasking]
        /\ task'[t] = r /\ \A u \in Tasks \ {t} : task'[u] = task[u]
    <2>1. r \in Tasking
      BY <1>1 DEF Tasking, Stages, Times
    <2> HIDE DEF r
    <2>2. task' = [task EXCEPT ![t] = r] /\ task \in [Tasks -> Tasking]
      BY DEF Inv, TypeOK, create_draws, Becomes, Tasking, r
    <2> QED BY <2>1, <2>2
  <1>3. TypeOK' /\ Recorded' /\ LogoutIsFinal' /\ Capacity'
    BY <1>1, <1>2 DEF Inv, TypeOK, Recorded, LogoutIsFinal, Capacity, create_draws,
                      Session, history, Tasking
  <1>4. issued + 1 \notin sessions \cup dead
    BY <1>1 DEF Inv, TypeOK
  <1>5. \A u \in Tasks : task[u].id # issued + 1 /\ task[u].id \in (1..issued') \cup {NoId}
    BY <1>1 DEF Inv, InFlight, Ids
  <1>6. \A u \in Tasks : task'[u].id \in (1..issued') \cup {NoId} /\ task'[u].now <= clock
    BY <1>1, <1>2, <1>5 DEF Inv, InFlight, Times
  <1>7. ASSUME NEW u \in Tasks, task'[u].stage = "insert"
        PROVE  /\ task'[u].id \in 1..issued' /\ task'[u].id \notin sessions \cup dead
               /\ \A v \in Tasks \ {u} : task'[v].id # task'[u].id
    <2>1. CASE u = t
      BY <1>1, <1>2, <1>4, <1>5, <2>1
    <2>2. CASE u # t
      <3>1. At(u, "insert") /\ task'[u] = task[u]
        BY <1>2, <1>7, <2>2 DEF At
      <3> QED BY <1>1, <1>2, <1>5, <3>1 DEF Inv, InFlight
    <2> QED BY <2>1, <2>2
  <1>8. InFlight'
    BY <1>6, <1>7 DEF InFlight, At, create_draws, Session, history
  <1> QED BY <1>3, <1>8 DEF Inv

(* Requests that end leave the others what they know. *)
LEMMA InFlightKept ==
    ASSUME Inv, UNCHANGED <<clock, issued>>, sessions' \subseteq sessions,
           \A t \in Tasks :
              \/ task'[t] = task[t]
              \/ /\ task'[t].stage # "insert"
                 /\ task'[t].id = NoId /\ task'[t].now = 0,
           \A t \in Tasks : At(t, "insert") /\ task'[t] = task[t] => task[t].id \notin dead'
    PROVE  InFlight'
  <1>1. ASSUME NEW t \in Tasks
        PROVE  task'[t].id \in (1..issued) \cup {NoId} /\ task'[t].now <= clock
    <2>1. clock \in Nat
      BY WebBoundsAssumption DEF Inv, TypeOK, Times
    <2> QED BY <2>1 DEF Inv, InFlight
  <1>2. ASSUME NEW t \in Tasks, task'[t].stage = "insert"
        PROVE  /\ task'[t].id \in 1..issued /\ task'[t].id \notin sessions' \cup dead'
               /\ \A u \in Tasks \ {t} : task'[u].id # task'[t].id
    <2>1. task'[t] = task[t] /\ At(t, "insert")
      BY <1>2 DEF At
    <2>2. /\ task[t].id \in 1..issued /\ task[t].id \notin sessions
          /\ \A u \in Tasks \ {t} : task[u].id # task[t].id
      BY <2>1 DEF Inv, InFlight
    <2>3. task[t].id # NoId
      BY <2>2, NoIdAssumption, WebBoundsAssumption DEF Inv, TypeOK
    <2> QED BY <2>1, <2>2, <2>3
  <1> QED BY <1>1, <1>2 DEF InFlight, At

(* A request ends and entries go: those that stay keep their times. *)
LEMMA KeepStep ==
    ASSUME Inv, NEW ids \in SUBSET sessions, Keep(ids), UNCHANGED <<clock, issued>>,
           dead' \subseteq 1..issued, ids \cap dead' = {},
           \/ \E t \in Tasks : Answer(t)
           \/ task' = [t \in Tasks |-> Idle],
           \A t \in Tasks : At(t, "insert") /\ task'[t] = task[t] => task[t].id \notin dead'
    PROVE  Inv'
  <1> USE WebBoundsAssumption, NoIdAssumption
  <1>1. /\ task' \in [Tasks -> Tasking]
        /\ \A t \in Tasks : task'[t] = task[t] \/ task'[t] = Idle
    BY IdleFields DEF Inv, TypeOK, Answer, Becomes, Tasking
  <1>2. sessions \subseteq Ids /\ sessions' = ids /\ Cardinality(ids) <= Cardinality(sessions)
        /\ Cardinality(ids) \in Nat /\ Cardinality(sessions) \in Nat
    BY MapIsFinite DEF Inv, Keep
  <1>3. Capacity'
    BY <1>2, SessionsAssumption DEF Inv, Capacity
  <1>4. \A f \in [Ids -> Times] :
            Of(ids, f) \in [Ids -> Times] /\ \A id \in ids : Of(ids, f)[id] = f[id]
    BY <1>2 DEF Of, Times
  <1>5. TypeOK'
    BY <1>1, <1>2, <1>4 DEF Inv, TypeOK, Keep, Tasking
  <1>6. Recorded'
    BY <1>2, <1>4 DEF Inv, TypeOK, Recorded, Keep
  <1>7. LogoutIsFinal'
    BY <1>2 DEF LogoutIsFinal
  <1>8. InFlight'
    <2>1. \A t \in Tasks :
            \/ task'[t] = task[t]
            \/ /\ task'[t].stage # "insert"
               /\ task'[t].id = NoId /\ task'[t].now = 0
      <3> SUFFICES ASSUME NEW t \in Tasks, task'[t] # task[t]
                   PROVE  /\ task'[t].stage # "insert"
                          /\ task'[t].id = NoId /\ task'[t].now = 0
        OBVIOUS
      <3>1. task'[t] = Idle
        BY <1>1
      <3> QED BY <3>1, IdleFields
    <2>2. sessions' \subseteq sessions
      BY <1>2
    <2> QED BY <2>1, <2>2, InFlightKept
  <1> QED BY <1>3, <1>5, <1>6, <1>7, <1>8 DEF Inv

(* Logout, refusal and restart. *)
LEMMA KeepActions ==
    ASSUME Inv, \/ \E t \in Tasks : validate_refuses(t) \/ remove(t)
                \/ Restart
    PROVE  Inv'
  <1>t. /\ dead \subseteq 1..issued /\ sessions \subseteq 1..issued
        /\ sessions \cap dead = {}
    BY DEF Inv, TypeOK, LogoutIsFinal
  <1>1. ASSUME NEW t \in Tasks, validate_refuses(t) PROVE Inv'
    <2> DEFINE ids == sessions \ {task[t].id}
    <2>1. /\ ids \in SUBSET sessions /\ Keep(ids) /\ UNCHANGED <<clock, issued, dead>>
          /\ Answer(t)
      BY <1>1 DEF validate_refuses
    <2>2. \A u \in Tasks : At(u, "insert") => task[u].id \notin dead
      BY DEF Inv, InFlight
    <2> HIDE DEF ids
    <2> QED BY <1>t, <2>1, <2>2, KeepStep
  <1>2. ASSUME NEW t \in Tasks, remove(t) PROVE Inv'
    <2> DEFINE ids == sessions \ {task[t].id}
    <2>1. /\ ids \in SUBSET sessions /\ Keep(ids) /\ UNCHANGED <<clock, issued>> /\ Answer(t)
          /\ dead' = dead \cup ({task[t].id} \ {NoId}) /\ At(t, "logout")
      BY <1>2 DEF remove
    <2>2. dead' \subseteq 1..issued /\ ids \cap dead' = {}
      BY <1>t, <2>1 DEF Inv, InFlight
    <2>3. \A u \in Tasks : At(u, "insert") => task[u].id \notin dead'
      BY <2>1 DEF Inv, InFlight, At
    <2> HIDE DEF ids
    <2> QED BY <2>1, <2>2, <2>3, KeepStep
  <1>3. CASE Restart
    <2>1. \A u \in Tasks : At(u, "insert") => Idle # task[u]
      BY DEF At, Idle
    <2>2. /\ {} \in SUBSET sessions /\ Keep({}) /\ UNCHANGED <<clock, issued>>
          /\ dead' = 1..issued /\ task' = [u \in Tasks |-> Idle]
      BY <1>3 DEF Restart
    <2>3. \A u \in Tasks : At(u, "insert") /\ task'[u] = task[u] => task[u].id \notin dead'
      BY <2>1, <2>2
    <2> QED BY <2>2, <2>3, KeepStep
  <1> QED BY <1>1, <1>2, <1>3

(* Accepting moves last_used to a reading, maybe back, and never past the clock. *)
LEMMA AcceptStep == ASSUME Inv, NEW t \in Tasks, validate_accepts(t) PROVE Inv'
  <1> USE WebBoundsAssumption, NoIdAssumption
  <1> DEFINE id == task[t].id
             r == [Idle EXCEPT !.stage = "fetch"]
  <1>1. r \in Tasking /\ r.stage = "fetch" /\ r.now = 0 /\ r.id = NoId
    BY IdleFields DEF Tasking, Stages
  <1> HIDE DEF r
  <1>2. /\ task' \in [Tasks -> Tasking]
        /\ task'[t] = r /\ \A u \in Tasks \ {t} : task'[u] = task[u]
    BY <1>1 DEF Inv, TypeOK, validate_accepts, Becomes, Tasking, r
  <1>3. /\ id \in sessions /\ id \in Ids /\ task[t].now \in Times
        /\ clock \in Times /\ task[t].now <= clock
    BY MapIsFinite DEF Inv, TypeOK, InFlight, validate_accepts
  <1>4. /\ last_used' \in [Ids -> Times] /\ used' \in [Ids -> Times]
        /\ last_used'[id] <= used'[id]
        /\ \A other \in Ids \ {id} :
              last_used'[other] = last_used[other] /\ used'[other] = used[other]
    BY <1>3 DEF Inv, TypeOK, validate_accepts, Times
  <1>5. UNCHANGED <<clock, sessions, created, issued, born, dead>>
    BY DEF validate_accepts
  <1>6. TypeOK' /\ LogoutIsFinal' /\ Capacity'
    BY <1>2, <1>4, <1>5 DEF Inv, TypeOK, LogoutIsFinal, Capacity, Tasking
  <1>7. Recorded'
    BY <1>4, <1>5, MapIsFinite DEF Inv, Recorded
  <1>8. InFlight'
    <2>1. \A u \in Tasks : At(u, "insert") => task[u].id \notin dead'
      BY <1>5 DEF Inv, InFlight
    <2>2. \A u \in Tasks :
            \/ task'[u] = task[u]
            \/ /\ task'[u].stage # "insert"
               /\ task'[u].id = NoId /\ task'[u].now = 0
      BY <1>1, <1>2
    <2>3. UNCHANGED <<clock, issued>> /\ sessions' \subseteq sessions
      BY <1>5
    <2> QED BY <2>1, <2>2, <2>3, InFlightKept
  <1> QED BY <1>6, <1>7, <1>8 DEF Inv

(* Making room: the insertion fills the map at most, and evicts only when it  *)
(* does fill it.                                                              *)
LEMMA MakesRoom ==
    ASSUME Inv, NEW live \in SUBSET sessions, NEW evicted \in create_evicts(live),
           NEW id \in Ids, id \notin sessions
    PROVE  LET after == (live \ {evicted}) \cup {id}
           IN  /\ Cardinality(after) <= MAX_SESSIONS
               /\ evicted \in live =>
                     evicted \in Oldest(live) /\ Cardinality(after) = MAX_SESSIONS
  <1> DEFINE kept == live \ {evicted}
  <1>1. /\ IsFiniteSet(live) /\ Cardinality(live) \in Nat
        /\ Cardinality(live) <= MAX_SESSIONS
        /\ IsFiniteSet(kept) /\ Cardinality(kept) \in Nat
    <2>1. live \in SUBSET sessions /\ kept \in SUBSET sessions /\ TypeOK
      BY DEF Inv
    <2>2. /\ IsFiniteSet(live) /\ Cardinality(live) \in Nat
          /\ Cardinality(live) <= Cardinality(sessions) /\ Cardinality(sessions) \in Nat
          /\ IsFiniteSet(kept) /\ Cardinality(kept) \in Nat
      BY <2>1, MapIsFinite
    <2> QED BY <2>2, SessionsAssumption DEF Inv, Capacity
  <1>2. Cardinality(kept \cup {id}) = Cardinality(kept) + 1
    <2>1. id \notin kept
      OBVIOUS
    <2> QED BY <1>1, <2>1, FS_AddElement
  <1>3. Cardinality(kept) =
            IF evicted \in live THEN Cardinality(live) - 1 ELSE Cardinality(live)
    BY <1>1, FS_RemoveElement
  <1>4. CASE Cardinality(live) >= MAX_SESSIONS
    <2>1. evicted \in Oldest(live) /\ evicted \in live
      BY <1>4 DEF create_evicts, Oldest
    <2> QED BY <1>1, <1>2, <1>3, <1>4, <2>1, SessionsAssumption
  <1>5. CASE ~(Cardinality(live) >= MAX_SESSIONS)
    <2>1. evicted = NoId
      BY <1>5 DEF create_evicts
    <2>2. evicted \notin live
      BY <2>1, NoIdAssumption, MapIsFinite DEF Inv, Ids
    <2> QED BY <1>1, <1>2, <1>3, <1>5, <2>2, SessionsAssumption
  <1> QED BY <1>4, <1>5

(* Inserting: the times are those of the reading, which is not in the future. *)
LEMMA InsertStep == ASSUME Inv, NEW t \in Tasks, create_inserts(t) PROVE Inv'
  <1> USE WebBoundsAssumption, NoIdAssumption
  <1> DEFINE id == task[t].id
             now == task[t].now
             live == Live(now)
  <1>1. /\ id \in 1..issued /\ id \in Ids /\ id \notin sessions \cup dead
        /\ now \in Times /\ clock \in Times /\ now <= clock
        /\ \A u \in Tasks \ {t} : task[u].id # id
    BY DEF Inv, TypeOK, InFlight, create_inserts, Ids
  <1>2. live \in SUBSET sessions /\ sessions \subseteq Ids
    BY MapIsFinite DEF Inv, Live
  <1>3. PICK evicted \in create_evicts(live) :
            /\ sessions' = (live \ {evicted}) \cup {id}
            /\ created' = [Of(live \ {evicted}, created) EXCEPT ![id] = now]
            /\ last_used' = [Of(live \ {evicted}, last_used) EXCEPT ![id] = now]
            /\ born' = [Of(live \ {evicted}, born) EXCEPT ![id] = clock]
            /\ used' = [Of(live \ {evicted}, used) EXCEPT ![id] = clock]
    BY DEF create_inserts
  <1>4. /\ task' \in [Tasks -> Tasking]
        /\ task'[t] = Idle /\ \A u \in Tasks \ {t} : task'[u] = task[u]
        /\ UNCHANGED <<clock, issued, dead>>
    BY IdleFields DEF Inv, TypeOK, create_inserts, Answer, Becomes, Tasking
  <1> DEFINE kept == live \ {evicted}
  <1>5. /\ kept \subseteq sessions /\ sessions' = kept \cup {id}
        /\ created' = [Of(kept, created) EXCEPT ![id] = now]
        /\ last_used' = [Of(kept, last_used) EXCEPT ![id] = now]
        /\ born' = [Of(kept, born) EXCEPT ![id] = clock]
        /\ used' = [Of(kept, used) EXCEPT ![id] = clock]
    BY <1>2, <1>3
  <1>6. Capacity'
    BY <1>1, <1>2, <1>3, MakesRoom DEF Capacity
  <1> HIDE DEF live, kept
  <1>7. \A f \in [Ids -> Times], x \in Times :
            /\ [Of(kept, f) EXCEPT ![id] = x] \in [Ids -> Times]
            /\ [Of(kept, f) EXCEPT ![id] = x][id] = x
            /\ \A other \in kept : [Of(kept, f) EXCEPT ![id] = x][other] = f[other]
    BY <1>1, <1>2, <1>5 DEF Of, Times
  <1>8. /\ created' \in [Ids -> Times] /\ last_used' \in [Ids -> Times]
        /\ born' \in [Ids -> Times] /\ used' \in [Ids -> Times]
        /\ created'[id] = now /\ last_used'[id] = now /\ born'[id] = clock /\ used'[id] = clock
        /\ \A other \in kept :
              /\ created'[other] = created[other] /\ last_used'[other] = last_used[other]
              /\ born'[other] = born[other] /\ used'[other] = used[other]
    BY <1>1, <1>5, <1>7 DEF Inv, TypeOK
  <1>9. TypeOK'
    BY <1>1, <1>4, <1>5, <1>8 DEF Inv, TypeOK, Tasking
  <1>10. Recorded'
    BY <1>1, <1>5, <1>8 DEF Inv, Recorded
  <1>11. LogoutIsFinal'
    BY <1>1, <1>4, <1>5 DEF Inv, LogoutIsFinal
  <1>12. ASSUME NEW u \in Tasks
         PROVE  task'[u].id \in (1..issued) \cup {NoId} /\ task'[u].now <= clock
    <2>1. CASE u = t
      BY <1>1, <1>4, <2>1, IdleFields DEF Times
    <2>2. CASE u # t
      BY <1>4, <2>2 DEF Inv, InFlight
    <2> QED BY <2>1, <2>2
  <1>13. ASSUME NEW u \in Tasks, task'[u].stage = "insert"
         PROVE  /\ task'[u].id \in 1..issued /\ task'[u].id \notin sessions' \cup dead
                /\ \A v \in Tasks \ {u} : task'[v].id # task'[u].id
    <2>1. u # t /\ task'[u] = task[u] /\ At(u, "insert")
      BY <1>4, <1>13, IdleFields DEF At
    <2>2. /\ task[u].id \in 1..issued /\ task[u].id \notin sessions \cup dead
          /\ \A v \in Tasks \ {u} : task[v].id # task[u].id
      BY <2>1 DEF Inv, InFlight
    <2>3. task[u].id # NoId
      BY <2>2 DEF Inv, TypeOK
    <2> QED BY <1>4, <1>5, <2>1, <2>2, <2>3, IdleFields
  <1>14. InFlight'
    BY <1>4, <1>12, <1>13 DEF InFlight, At
  <1> QED BY <1>6, <1>9, <1>10, <1>11, <1>14 DEF Inv

(* Time passes: readings age. *)
LEMMA TickStep == ASSUME Inv, Tick PROVE Inv'
  <1>1. clock \in Nat /\ clock' = clock + 1 /\ clock' \in Times /\ \A t \in Tasks : task[t].now \in Nat
    BY WebBoundsAssumption DEF Inv, TypeOK, Tick, Times
  <1>2. UNCHANGED <<sessions, created, last_used, task, issued, born, used, dead>>
    BY DEF Tick, Session, history
  <1>3. \A t \in Tasks : task[t].now <= clock'
    BY <1>1 DEF Inv, InFlight
  <1> QED
    BY <1>1, <1>2, <1>3 DEF Inv, TypeOK, InFlight, Recorded, LogoutIsFinal, Capacity, At

(* The invariant is inductive. *)
LEMMA InvNext == Inv /\ [Next]_vars => Inv'
  <1> SUFFICES ASSUME Inv, [Next]_vars PROVE Inv'
    OBVIOUS
  <1>1. CASE UNCHANGED vars
    BY <1>1 DEF vars, history, Inv, TypeOK, InFlight, Recorded, LogoutIsFinal, Capacity, At
  <1>2. CASE Next
    BY <1>2, QuietActions, DrawStep, KeepActions, AcceptStep, InsertStep, TickStep
       DEF Next, Serve
  <1> QED BY <1>1, <1>2

(* The invariant holds in every reachable state. *)
LEMMA InvAlways == Spec => []Inv
  BY InvInit, InvNext, PTL DEF Spec

-----------------------------------------------------------------------------

(* The types, for any number of requests and any limits. *)
THEOREM SessionTypes == Spec => []TypeOK
  BY InvAlways, PTL DEF Inv

(* The map never holds more than MAX_SESSIONS entries, whatever logins race. *)
THEOREM CapacityHolds == Spec => []Capacity
  BY InvAlways, PTL DEF Inv

(* A session that was logged out, or lost to a restart, never comes back. *)
THEOREM LogoutStaysFinal == Spec => []LogoutIsFinal
  BY InvAlways, PTL DEF Inv

(* A request arrives before it reads the clock, and before now. *)
Arrived ==
    \A t \in Tasks :
        task[t].since <= clock /\ (At(t, "check") => task[t].since <= task[t].now)

(* Arrival times are never later than the readings that follow them. *)
LEMMA ArrivedNext == Inv /\ Arrived /\ [Next]_vars => Arrived'
  <1> SUFFICES ASSUME Inv, Arrived, [Next]_vars PROVE Arrived'
    OBVIOUS
  <1> USE WebBoundsAssumption
  <1>t. /\ clock \in Times /\ clock \in Nat
        /\ \A t \in Tasks : task[t] \in Tasking /\ task[t].since <= clock
    BY DEF Inv, TypeOK, Tasking, Times, Arrived
  <1>1. ASSUME NEW u \in Tasks, NEW r, Becomes(u, r), clock' = clock,
               r.since <= clock, r.stage = "check" => r.since <= r.now
        PROVE  Arrived'
    BY <1>1 DEF Becomes, Arrived, At, Inv, TypeOK
  <1>2. ASSUME NEW u \in Tasks, Answer(u), clock' = clock PROVE Arrived'
    BY <1>1, <1>2, <1>t, IdleFields DEF Answer
  <1>3. ASSUME NEW u \in Tasks, login(u) PROVE Arrived'
    <2> DEFINE r == [Idle EXCEPT !.stage = "verify"]
    <2>1. r.since = 0 /\ r.stage = "verify"
      BY IdleFields DEF Tasking
    <2> HIDE DEF r
    <2>2. Becomes(u, r) /\ clock' = clock
      BY <1>3 DEF login, r
    <2> QED BY <1>1, <1>t, <2>1, <2>2
  <1>4. ASSUME NEW u \in Tasks, verify_password(u) PROVE Arrived'
    <2> DEFINE r == [task[u] EXCEPT !.stage = "create"]
    <2>1. r.since = task[u].since /\ r.stage = "create"
      BY <1>t DEF Tasking
    <2> HIDE DEF r
    <2>2. Becomes(u, r) /\ clock' = clock
      BY <1>4 DEF verify_password, r
    <2> QED BY <1>1, <1>t, <2>1, <2>2
  <1>5. ASSUME NEW u \in Tasks, create_draws(u) PROVE Arrived'
    <2> DEFINE r == [stage |-> "insert", id |-> issued + 1, now |-> clock, since |-> 0]
    <2>1. r.since = 0 /\ r.stage = "insert"
      OBVIOUS
    <2> HIDE DEF r
    <2>2. Becomes(u, r) /\ clock' = clock
      BY <1>5 DEF create_draws, r
    <2> QED BY <1>1, <1>t, <2>1, <2>2
  <1>6. ASSUME NEW u \in Tasks, validate_reads_clock(u) PROVE Arrived'
    <2> DEFINE r == [task[u] EXCEPT !.stage = "check", !.now = clock]
    <2>1. r.since = task[u].since /\ r.now = clock
      BY <1>t DEF Tasking
    <2> HIDE DEF r
    <2>2. Becomes(u, r) /\ clock' = clock
      BY <1>6 DEF validate_reads_clock, r
    <2> QED BY <1>1, <1>t, <2>1, <2>2
  <1>7. ASSUME NEW u \in Tasks, NEW id \in Ids, status(u, id) PROVE Arrived'
    <2> DEFINE r == [Idle EXCEPT !.stage = "validate", !.id = id, !.since = clock]
    <2>1. r.since = clock /\ r.stage = "validate"
      BY IdleFields DEF Tasking
    <2> HIDE DEF r
    <2>2. Becomes(u, r) /\ clock' = clock
      BY <1>7 DEF status, r
    <2> QED BY <1>1, <1>t, <2>1, <2>2
  <1>8. ASSUME NEW u \in Tasks, NEW id \in Ids \cup {NoId}, logout(u, id) PROVE Arrived'
    <2> DEFINE r == [Idle EXCEPT !.stage = "logout", !.id = id]
    <2>1. r.since = 0 /\ r.stage = "logout"
      BY IdleFields DEF Tasking
    <2> HIDE DEF r
    <2>2. Becomes(u, r) /\ clock' = clock
      BY <1>8 DEF logout, r
    <2> QED BY <1>1, <1>t, <2>1, <2>2
  <1>9. ASSUME NEW u \in Tasks, validate_accepts(u) PROVE Arrived'
    <2> DEFINE r == [Idle EXCEPT !.stage = "fetch"]
    <2>1. r.since = 0 /\ r.stage = "fetch"
      BY IdleFields DEF Tasking
    <2> HIDE DEF r
    <2>2. Becomes(u, r) /\ clock' = clock
      BY <1>9 DEF validate_accepts, r
    <2> QED BY <1>1, <1>t, <2>1, <2>2
  <1>10. ASSUME NEW u \in Tasks,
                \/ verify_fails(u) \/ create_fails(u) \/ create_inserts(u)
                \/ validate_unreadable(u) \/ validate_refuses(u)
                \/ status_replies(u) \/ remove(u) \/ Dropped(u)
         PROVE  Arrived'
    BY <1>2, <1>10 DEF verify_fails, create_fails, create_inserts, validate_unreadable,
                       validate_refuses, status_replies, remove, Dropped
  <1>11. CASE Restart
    <2>1. clock' = clock /\ \A t \in Tasks : task'[t] = Idle
      BY <1>11 DEF Restart
    <2>2. \A t \in Tasks : task'[t].since = 0 /\ task'[t].stage = "idle"
      BY <2>1, IdleFields
    <2> QED BY <1>t, <2>1, <2>2 DEF Arrived, At
  <1>12. CASE Tick
    <2>1. clock' = clock + 1 /\ task' = task /\ \A t \in Tasks : task[t].since \in Nat
      BY <1>12, <1>t DEF Tick, Tasking, Times
    <2> QED BY <1>t, <2>1 DEF Arrived, At
  <1>13. CASE UNCHANGED vars
    BY <1>13 DEF Arrived, At, vars
  <1> QED
    BY <1>3, <1>4, <1>5, <1>6, <1>7, <1>8, <1>9, <1>10, <1>11, <1>12, <1>13 DEF Next, Serve

(* Arrival times are right in every reachable state. *)
LEMMA ArrivedAlways == Spec => []Arrived
  <1>1. Init => Arrived
    <2> SUFFICES ASSUME Init, NEW t \in Tasks PROVE task[t].since <= clock /\ ~At(t, "check")
      BY DEF Arrived
    <2>1. task[t] = Idle /\ clock = 0
      BY DEF Init
    <2> QED BY <2>1, IdleFields DEF At
  <1> QED BY <1>1, ArrivedNext, InvAlways, PTL DEF Spec

(* A request that arrives when its session has reached a limit is refused: no *)
(* interleaving of clock readings lengthens a session by more than the delay  *)
(* of the one request that is accepted.                                       *)
THEOREM SessionsEndInTime == Spec => LimitsHold
  <1> DEFINE Own(t) == clock - task[t].since
             A == \A t \in Tasks : Accepted(t) =>
                     /\ clock < used[task[t].id] + IDLE_TIMEOUT + Own(t)
                     /\ clock < born[task[t].id] + ABSOLUTE_TIMEOUT + Own(t)
  <1>1. Inv /\ Arrived /\ [Next]_vars => A \/ UNCHANGED vars
    <2> SUFFICES ASSUME Inv, Arrived, Next, NEW t \in Tasks, Accepted(t)
                 PROVE  /\ clock < used[task[t].id] + IDLE_TIMEOUT + Own(t)
                        /\ clock < born[task[t].id] + ABSOLUTE_TIMEOUT + Own(t)
      OBVIOUS
    <2>1. validate_accepts(t)
      <3>1. ASSUME NEW u \in Tasks, NEW r, Becomes(u, r), r.stage # "fetch" PROVE FALSE
        BY <3>1 DEF Becomes, Accepted, At, Inv, TypeOK
      <3>2. ASSUME NEW u \in Tasks, NEW r, Becomes(u, r), u # t PROVE FALSE
        BY <3>2 DEF Becomes, Accepted, At, Inv, TypeOK
      <3>3. ASSUME NEW u \in Tasks, Answer(u) PROVE FALSE
        BY <3>1, <3>3, IdleFields DEF Answer
      <3>4. ASSUME NEW u \in Tasks,
                   \/ login(u) \/ verify_password(u) \/ create_draws(u)
                   \/ validate_reads_clock(u)
                   \/ \E id \in Ids : status(u, id)
                   \/ \E id \in Ids \cup {NoId} : logout(u, id)
            PROVE  FALSE
        <4>1. task[u] \in Tasking /\ Idle \in Tasking
          BY IdleFields DEF Inv, TypeOK, Tasking
        <4>2. CASE login(u)
          <5>1. [Idle EXCEPT !.stage = "verify"].stage # "fetch"
            BY <4>1 DEF Tasking
          <5> QED BY <3>1, <4>2, <5>1 DEF login
        <4>3. CASE verify_password(u)
          <5>1. [task[u] EXCEPT !.stage = "create"].stage # "fetch"
            BY <4>1 DEF Tasking
          <5> QED BY <3>1, <4>3, <5>1 DEF verify_password
        <4>4. CASE create_draws(u)
          <5>1. [stage |-> "insert", id |-> issued + 1, now |-> clock, since |-> 0].stage # "fetch"
            OBVIOUS
          <5> QED BY <3>1, <4>4, <5>1 DEF create_draws
        <4>5. CASE validate_reads_clock(u)
          <5>1. [task[u] EXCEPT !.stage = "check", !.now = clock].stage # "fetch"
            BY <4>1 DEF Tasking
          <5> QED BY <3>1, <4>5, <5>1 DEF validate_reads_clock
        <4>6. ASSUME NEW id \in Ids, status(u, id) PROVE FALSE
          <5>1. [Idle EXCEPT !.stage = "validate", !.id = id, !.since = clock].stage # "fetch"
            BY <4>1 DEF Tasking
          <5> QED BY <3>1, <4>6, <5>1 DEF status
        <4>7. ASSUME NEW id \in Ids \cup {NoId}, logout(u, id) PROVE FALSE
          <5>1. [Idle EXCEPT !.stage = "logout", !.id = id].stage # "fetch"
            BY <4>1 DEF Tasking
          <5> QED BY <3>1, <4>7, <5>1 DEF logout
        <4> QED BY <3>4, <4>2, <4>3, <4>4, <4>5, <4>6, <4>7
      <3>5. ASSUME NEW u \in Tasks,
                   \/ verify_fails(u) \/ create_fails(u) \/ create_inserts(u)
                   \/ validate_unreadable(u) \/ validate_refuses(u) \/ status_replies(u) \/ remove(u) \/ Dropped(u)
            PROVE  FALSE
        BY <3>3, <3>5 DEF verify_fails, create_fails, create_inserts, validate_unreadable,
                          validate_refuses, status_replies, remove, Dropped
      <3>6. ~Restart /\ ~Tick
        BY IdleFields DEF Restart, Tick, Accepted, At
      <3>7. PICK u \in Tasks : validate_accepts(u)
        BY <3>4, <3>5, <3>6 DEF Next, Serve
      <3>8. u = t
        BY <3>2, <3>7 DEF validate_accepts
      <3> QED BY <3>7, <3>8
    <2>2. /\ task[t].id \in sessions /\ task[t].id \in Ids
          /\ ~expired(task[t].id, task[t].now) /\ task[t].now \in Nat
      BY <2>1, MapIsFinite, WebBoundsAssumption DEF validate_accepts, Inv, TypeOK, Times
    <2> DEFINE id == task[t].id
    <2>3. /\ last_used[id] \in Times /\ used[id] \in Times
          /\ created[id] \in Times /\ born[id] \in Times
      BY <2>2 DEF Inv, TypeOK
    <2>4. last_used[id] <= used[id] /\ created[id] <= born[id]
      BY <2>2 DEF Inv, Recorded
    <2>5. /\ task[t].since \in Nat /\ clock \in Nat /\ task[t].since <= task[t].now
      BY <2>1, WebBoundsAssumption DEF validate_accepts, Inv, TypeOK, Times, Arrived
    <2>6. /\ task[t].now < used[id] + IDLE_TIMEOUT
          /\ task[t].now < born[id] + ABSOLUTE_TIMEOUT
      BY <2>2, <2>3, <2>4, TimeoutsAssumption, WebBoundsAssumption DEF expired, Times
    <2> QED BY <2>2, <2>3, <2>5, <2>6, TimeoutsAssumption, WebBoundsAssumption DEF Times
  <1> QED BY <1>1, InvAlways, ArrivedAlways, PTL DEF Spec, LimitsHold

(* What was expired at a reading is expired now. *)
LEMMA ExpiredStays ==
    ASSUME Inv, NEW t \in Tasks, NEW id \in sessions, expired(id, task[t].now)
    PROVE  expired(id, clock)
  <1>1. id \in Ids
    BY MapIsFinite DEF Inv
  <1>2. /\ last_used[id] \in Times /\ created[id] \in Times /\ clock \in Times
        /\ task[t].now \in Times /\ task[t].now <= clock
    BY <1>1 DEF Inv, TypeOK, InFlight
  <1> QED BY <1>2, TimeoutsAssumption, WebBoundsAssumption DEF expired, Times

(* A good session goes only by logout, restart, or as the oldest of a full map. *)
THEOREM OnlyOldestEvicted == Spec => EvictsOldest
  <1> DEFINE Leaves(id) ==
                \/ expired(id, clock)
                \/ id \in dead'
                \/ \E t \in Tasks :
                      /\ At(t, "insert") /\ task[t].id \in sessions'
                      /\ Cardinality(sessions') = MAX_SESSIONS
                      /\ \A other \in sessions' \ {task[t].id} :
                            /\ created[other] >= created[id]
                            /\ ~expired(other, task[t].now)
             A == \A id \in sessions \ sessions' : Leaves(id)
  <1>1. Inv /\ [Next]_vars => A \/ UNCHANGED vars
    <2> SUFFICES ASSUME Inv, Next, NEW id \in sessions, id \notin sessions'
                 PROVE  Leaves(id)
      OBVIOUS
    <2>1. \/ \E t \in Tasks : validate_refuses(t) \/ remove(t) \/ create_inserts(t)
          \/ Restart
      BY DEF Next, Serve, login, verify_password, verify_fails, create_draws, create_fails,
             validate_reads_clock, validate_unreadable, validate_accepts, status_replies,
             Dropped, status, logout,
             Tick, Session
    <2>2. ASSUME NEW t \in Tasks, validate_refuses(t) PROVE Leaves(id)
      BY <2>2, ExpiredStays DEF validate_refuses, Keep
    <2>3. ASSUME NEW t \in Tasks, remove(t) PROVE Leaves(id)
      <3>1. id = task[t].id /\ id # NoId
        BY <2>3, MapIsFinite, NoIdAssumption DEF remove, Keep, Inv, Ids
      <3> QED BY <2>3, <3>1 DEF remove
    <2>4. CASE Restart
      BY <2>4 DEF Restart, Inv, TypeOK
    <2>5. ASSUME NEW t \in Tasks, create_inserts(t) PROVE Leaves(id)
      <3> DEFINE live == Live(task[t].now)
      <3>1. /\ At(t, "insert") /\ task[t].id \in Ids /\ task[t].id \notin sessions
            /\ live \in SUBSET sessions
        BY <2>5, WebBoundsAssumption DEF create_inserts, Inv, TypeOK, InFlight, Live, Ids
      <3>2. PICK evicted \in create_evicts(live) :
                sessions' = (live \ {evicted}) \cup {task[t].id}
        BY <2>5 DEF create_inserts
      <3>3. CASE id \notin live
        BY <3>3, ExpiredStays DEF Live
      <3>4. CASE id \in live
        <4>1. id = evicted /\ evicted \in live
          BY <3>2, <3>4
        <4>2. evicted \in Oldest(live) /\ Cardinality(sessions') = MAX_SESSIONS
          <5> HIDE DEF live
          <5> QED BY <3>1, <3>2, <4>1, MakesRoom
        <4>3. ASSUME NEW other \in sessions' \ {task[t].id}
              PROVE  created[other] >= created[id] /\ ~expired(other, task[t].now)
          <5>1. other \in live /\ created[id] <= created[other]
            BY <3>2, <4>1, <4>2 DEF Oldest
          <5>2. created[id] \in Times /\ created[other] \in Times
            BY <3>1, <3>4, <5>1, MapIsFinite DEF Inv, TypeOK
          <5> QED BY <5>1, <5>2, WebBoundsAssumption DEF Live, Times
        <4> QED BY <3>1, <3>2, <4>2, <4>3
      <3> QED BY <3>3, <3>4
    <2> QED BY <2>1, <2>2, <2>3, <2>4, <2>5
  <1> QED BY <1>1, InvAlways, PTL DEF Spec, EvictsOldest
=============================================================================
