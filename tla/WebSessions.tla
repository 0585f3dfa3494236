----------------------------- MODULE WebSessions -----------------------------
(***************************************************************************)
(* The web sessions of sl-remoted (remoted/src/sessions.rs) under the      *)
(* requests that use them (login, logout and status of remoted/src/http.rs)*)
(*                                                                         *)
(* Requests run as tasks on several threads.  A task reads the clock       *)
(* before it takes the lock, so another one may come between; a login      *)
(* waits for sl-authd and a status for Session1, and the connection may    *)
(* be dropped while they wait.                                             *)
(***************************************************************************)
EXTENDS Naturals, FiniteSets

CONSTANTS
    Tasks,              \* requests served at a time
    NoId,               \* no cookie, or one this process never issued
    IDLE_TIMEOUT,
    ABSOLUTE_TIMEOUT,
    MAX_SESSIONS,
    MAX_LOGINS,         \* bound: identifiers issued in one behaviour
    MAX_TIME            \* bound: the clock

ASSUME TimeoutsAssumption ==
    IDLE_TIMEOUT \in Nat \ {0} /\ ABSOLUTE_TIMEOUT \in Nat \ {0}
ASSUME SessionsAssumption == MAX_SESSIONS \in Nat \ {0}
ASSUME WebBoundsAssumption == MAX_LOGINS \in Nat /\ MAX_TIME \in Nat
ASSUME NoIdAssumption == NoId \notin 1..MAX_LOGINS

(* Identifiers: 256 random bits, so none is drawn twice. *)
Ids == 1..MAX_LOGINS
Times == 0..MAX_TIME

VARIABLES
    clock,          \* CLOCK_BOOTTIME
    sessions,       \* the identifiers in the map
    created,        \* of each identifier: Session.created
    last_used,      \* of each identifier: Session.last_used
    task,           \* task[t]: [stage, id, now, since]
    issued,         \* how many identifiers were drawn
    born,           \* history: the clock when the session was inserted
    used,           \* history: the clock when it was last accepted
    dead            \* history: identifiers whose logout was answered

history == <<born, used, dead>>
vars == <<clock, sessions, created, last_used, task, issued, history>>

Session == <<sessions, created, last_used>>
(* since is a history too: the clock when a status request arrived. *)
Idle == [stage |-> "idle", id |-> NoId, now |-> 0, since |-> 0]
Stages == {"idle", "verify", "create", "insert",
           "validate", "check", "fetch", "logout"}

At(t, stage) == task[t].stage = stage
(* f for the sessions that stay; the rest is forgotten with its entry. *)
Of(ids, f) == [id \in Ids |-> IF id \in ids THEN f[id] ELSE 0]
Keep(ids) ==
    /\ sessions' = ids
    /\ created' = Of(ids, created) /\ last_used' = Of(ids, last_used)
    /\ born' = Of(ids, born) /\ used' = Of(ids, used)
Becomes(t, record) == task' = [task EXCEPT ![t] = record]
Answer(t) == Becomes(t, Idle)

(* Both differences saturate at 0. *)
expired(id, now) ==
    \/ now >= last_used[id] + IDLE_TIMEOUT
    \/ now >= created[id] + ABSOLUTE_TIMEOUT

-----------------------------------------------------------------------------
(* POST /api/v1/login.  A request that fails the origin, body or size checks *)
(* is answered without a trace.                                              *)

login(t) ==
    /\ At(t, "idle")
    /\ Becomes(t, [Idle EXCEPT !.stage = "verify"])
    /\ UNCHANGED <<clock, Session, issued, history>>

verify_password(t) ==
    /\ At(t, "verify")
    /\ Becomes(t, [task[t] EXCEPT !.stage = "create"])
    /\ UNCHANGED <<clock, Session, issued, history>>

verify_fails(t) ==
    /\ At(t, "verify")
    /\ Answer(t)
    /\ UNCHANGED <<clock, Session, issued, history>>

(* Sessions::create: the clock and the identifier, before the lock. *)
create_draws(t) ==
    /\ At(t, "create") /\ issued < MAX_LOGINS
    /\ issued' = issued + 1
    /\ Becomes(t, [stage |-> "insert", id |-> issued + 1, now |-> clock, since |-> 0])
    /\ UNCHANGED <<clock, Session, history>>

(* No clock or no randomness: unavailable. *)
create_fails(t) ==
    /\ At(t, "create")
    /\ Answer(t)
    /\ UNCHANGED <<clock, Session, issued, history>>

Live(now) == {id \in sessions : ~expired(id, now)}
Oldest(ids) == {id \in ids : \A other \in ids : created[id] <= created[other]}

\* Mutant: the least recently used session is evicted.
create_evicts_unused(live) ==
    IF Cardinality(live) < MAX_SESSIONS THEN {NoId}
    ELSE {id \in live : \A other \in live : last_used[id] <= last_used[other]}

(* What is evicted: one of the oldest, when the map is full. *)
create_evicts(live) ==
    IF Cardinality(live) >= MAX_SESSIONS THEN Oldest(live) ELSE {NoId}

(* Under the lock: drop what is expired, make room, insert. *)
create_inserts(t) ==
    LET id == task[t].id
        live == Live(task[t].now)
    IN /\ At(t, "insert")
       /\ \E evicted \in create_evicts(live) :
              LET kept == live \ {evicted}
              IN /\ sessions' = kept \cup {id}
                 /\ created' = [Of(kept, created) EXCEPT ![id] = task[t].now]
                 /\ last_used' = [Of(kept, last_used) EXCEPT ![id] = task[t].now]
                 /\ born' = [Of(kept, born) EXCEPT ![id] = clock]
                 /\ used' = [Of(kept, used) EXCEPT ![id] = clock]
       /\ Answer(t)
       /\ UNCHANGED <<clock, issued, dead>>

-----------------------------------------------------------------------------
(* GET /api/v1/status with a cookie. *)

(* A browser has only what a login answered; none has an id being inserted. *)
Cookies == (1..issued) \ {task[t].id : t \in {u \in Tasks : At(u, "insert")}}

status(t, id) ==
    /\ At(t, "idle") /\ id \in Cookies
    /\ Becomes(t, [Idle EXCEPT !.stage = "validate", !.id = id, !.since = clock])
    /\ UNCHANGED <<clock, Session, issued, history>>

\* Mutant: the clock reading is the one an earlier request left behind.
validate_reads_cached(t) ==
    /\ At(t, "validate")
    /\ Becomes(t, [task[t] EXCEPT !.stage = "check", !.now = last_used[task[t].id]])
    /\ UNCHANGED <<clock, Session, issued, history>>

(* Sessions::validate: the clock, before the lock. *)
validate_reads_clock(t) ==
    /\ At(t, "validate")
    /\ Becomes(t, [task[t] EXCEPT !.stage = "check", !.now = clock])
    /\ UNCHANGED <<clock, Session, issued, history>>

(* No clock: unauthenticated, and the session stays. *)
validate_unreadable(t) ==
    /\ At(t, "validate")
    /\ Answer(t)
    /\ UNCHANGED <<clock, Session, issued, history>>

\* Mutant: an identifier that is not in the map is taken in.
validate_inserts(t) ==
    LET id == task[t].id
    IN /\ At(t, "check") /\ ~expired(id, task[t].now)
       /\ sessions' = sessions \cup {id}
       /\ last_used' = [last_used EXCEPT ![id] = task[t].now]
       /\ used' = [used EXCEPT ![id] = clock]
       /\ Becomes(t, [Idle EXCEPT !.stage = "fetch"])
       /\ UNCHANGED <<clock, created, issued, born, dead>>

(* A concurrent request with a later reading may have come first: last_used *)
(* is then set back.                                                        *)
validate_accepts(t) ==
    LET id == task[t].id
    IN /\ At(t, "check") /\ id \in sessions /\ ~expired(id, task[t].now)
       /\ last_used' = [last_used EXCEPT ![id] = task[t].now]
       /\ used' = [used EXCEPT ![id] = clock]
       /\ Becomes(t, [Idle EXCEPT !.stage = "fetch"])
       /\ UNCHANGED <<clock, sessions, created, issued, born, dead>>

(* Unknown, or expired and then removed: unauthenticated. *)
validate_refuses(t) ==
    LET id == task[t].id
    IN /\ At(t, "check")
       /\ id \notin sessions \/ expired(id, task[t].now)
       /\ Keep(sessions \ {id})
       /\ Answer(t)
       /\ UNCHANGED <<clock, issued, dead>>

(* Session1 answers, fails or runs into its deadline. *)
status_replies(t) ==
    /\ At(t, "fetch")
    /\ Answer(t)
    /\ UNCHANGED <<clock, Session, issued, history>>

-----------------------------------------------------------------------------
(* POST /api/v1/logout, with or without a cookie. *)

logout(t, id) ==
    /\ At(t, "idle") /\ id \in Cookies \cup {NoId}
    /\ Becomes(t, [Idle EXCEPT !.stage = "logout", !.id = id])
    /\ UNCHANGED <<clock, Session, issued, history>>

remove(t) ==
    LET id == task[t].id
    IN /\ At(t, "logout")
       /\ Keep(sessions \ {id})
       /\ dead' = dead \cup ({id} \ {NoId})
       /\ Answer(t)
       /\ UNCHANGED <<clock, issued>>

-----------------------------------------------------------------------------
(* A withdrawal or the client ends the connection: the request is dropped   *)
(* where it waits, and what it did stays.                                   *)
Dropped(t) ==
    /\ task[t].stage \in {"verify", "fetch"}
    /\ Answer(t)
    /\ UNCHANGED <<clock, Session, issued, history>>

(* sl-remoted stops and may start again: nothing was persisted. *)
Restart ==
    /\ Keep({})
    /\ task' = [t \in Tasks |-> Idle]
    /\ dead' = 1..issued
    /\ UNCHANGED <<clock, issued>>

Tick ==
    /\ clock < MAX_TIME
    /\ clock' = clock + 1
    /\ UNCHANGED <<Session, task, issued, history>>

Init ==
    /\ clock = 0 /\ sessions = {} /\ issued = 0 /\ dead = {}
    /\ created = [id \in Ids |-> 0] /\ last_used = [id \in Ids |-> 0]
    /\ born = [id \in Ids |-> 0] /\ used = [id \in Ids |-> 0]
    /\ task = [t \in Tasks |-> Idle]

(* A request that has been taken on, but for the answer of a correct password. *)
Serve(t) ==
    \/ verify_fails(t) \/ create_draws(t) \/ create_fails(t) \/ create_inserts(t)
    \/ validate_reads_clock(t) \/ validate_unreadable(t)
    \/ validate_accepts(t) \/ validate_refuses(t)
    \/ status_replies(t) \/ remove(t)

Next ==
    \/ \E t \in Tasks :
          \/ login(t) \/ verify_password(t) \/ Serve(t) \/ Dropped(t)
          \/ \E id \in Ids : status(t, id)
          \/ \E id \in Ids \cup {NoId} : logout(t, id)
    \/ Restart
    \/ Tick

Spec == Init /\ [][Next]_vars

-----------------------------------------------------------------------------
(* Every variable has its type; the map and the logouts know only issued identifiers. *)
TypeOK ==
    /\ clock \in Times /\ issued \in 0..MAX_LOGINS
    /\ sessions \subseteq 1..issued /\ dead \subseteq 1..issued
    /\ created \in [Ids -> Times] /\ last_used \in [Ids -> Times]
    /\ born \in [Ids -> Times] /\ used \in [Ids -> Times]
    /\ task \in [Tasks -> [stage : Stages, id : Ids \cup {NoId},
                         now : Times, since : Times]]

(* Logout and a restart are final: no status request that comes to the check  *)
(* afterwards is accepted, and the identifier never enters the map again,     *)
(* also not through a request that began before (logout, validate).           *)
LogoutIsFinal == sessions \cap dead = {}

Accepted(t) == At(t, "check") /\ task[t].stage' = "fetch"

(* A request whose session had reached a limit by the time it arrived is      *)
(* refused, all in the time of the clock: when it arrived, when the session    *)
(* was inserted and when it was last accepted, not what the requests read.    *)
(* What is accepted past a limit is late by no more than the time the request *)
(* itself took from its arrival to the lock, and stale readings never add up: *)
(* setting last_used to one lengthens nothing (validate, expired).            *)
LimitsHold ==
    [][\A t \in Tasks : Accepted(t) =>
          LET own == clock - task[t].since
          IN /\ clock < used[task[t].id] + IDLE_TIMEOUT + own
             /\ clock < born[task[t].id] + ABSOLUTE_TIMEOUT + own]_vars

(* A session that is still good leaves the map only by its own logout, by a   *)
(* restart, or to make room in a full map in which nothing is older and       *)
(* nothing that the login knows to be expired is kept (create).               *)
EvictsOldest ==
    [][\A id \in sessions \ sessions' :
          \/ expired(id, clock)
          \/ id \in dead'
          \/ \E t \in Tasks :
                /\ At(t, "insert") /\ task[t].id \in sessions'
                /\ Cardinality(sessions') = MAX_SESSIONS
                /\ \A other \in sessions' \ {task[t].id} :
                      /\ created[other] >= created[id]
                      /\ ~expired(other, task[t].now)]_vars
=============================================================================
