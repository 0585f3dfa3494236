----------------------------- MODULE AuthService -----------------------------
(***************************************************************************)
(* The Auth1 service of sl-authd (authd/src/service.rs) under concurrent   *)
(* callers: the admission counter, the lock around Core, operations on     *)
(* blocking threads that go on when their caller's deadline is over, and a *)
(* panic that poisons the lock.  The callers are sl-remoted for a browser  *)
(* (remoted/src/http.rs, peers.rs), the consoles, sl-sessiond and          *)
(* sl-platformd, which makes one call at a time under its permit.          *)
(*                                                                         *)
(* An operation of Core runs with the lock held and is one step here;      *)
(* AuthCore has its parts.  Recovery keys are numbered in the order in     *)
(* which they are drawn; a pairing code is right or wrong when it is used. *)
(***************************************************************************)
EXTENDS Integers, FiniteSets

CONSTANTS
    Requests,       \* method calls that can be under way at a time
    MAX_ADMITTED,   \* operations that may hash or wait for their turn to hash
    KEYS            \* bound on the recovery keys drawn

ASSUME RequestsAssumption == IsFiniteSet(Requests)
ASSUME AdmittedAssumption == MAX_ADMITTED \in Nat \ {0}
ASSUME KeysAssumption == KEYS \in Nat

VARIABLES
    admitted,   \* Shared::admitted
    poisoned,   \* the lock: a holder panicked
    call,       \* call[r]: the method, how far it is, and the key in it
    account,    \* what Core holds: a state and the recovery key that goes with it
    drawn,      \* the recovery keys drawn so far
    told,       \* the keys that reached the person at the browser
    quiet       \* nobody calls any more

vars == <<admitted, poisoned, call, account, drawn, told, quiet>>

NoKey == 0
Keys == 1 .. KEYS

-----------------------------------------------------------------------------
(* The requests. *)

(* What hashes, and so is admitted first. *)
Hashing == {"verify_password", "consume_pairing", "confirm_recovery_key", "recover_password"}
Platform == {"ensure_pending_pairing", "cancel_pending_pairing", "reset_enrollment"}
Methods == Hashing \cup Platform \cup {"get"}

(* uid: asks the bus for the caller; queued: waits for the lock on a blocking *)
(* thread; done: gave it back, and has not yet dropped what the closure owns. *)
Stages == {"none", "uid", "queued", "done"}

(* key: the key presented, and once done the key answered with. *)
NoCall == [method |-> "none", stage |-> "none", waits |-> FALSE, permit |-> FALSE,
           key |-> NoKey]

Under(stage) == {r \in Requests : call[r].stage = stage}

(* The requests that own a Permit. *)
Holding == {r \in Requests : call[r].permit}

(* Shared::admit.  At the limit the answer is Busy and nothing has changed. *)
admit(method) ==
    IF method \in Hashing
    THEN admitted < MAX_ADMITTED /\ admitted' = admitted + 1
    ELSE UNCHANGED admitted

Begins(r, method, key) ==
    /\ ~quiet /\ call[r].stage = "none"
    /\ admit(method)
    /\ call' = [call EXCEPT ![r] =
                 [method |-> method, waits |-> method \in Platform,
                  permit |-> method \in Hashing, key |-> key,
                  stage |-> IF method = "verify_password" THEN "uid" ELSE "queued"]]
    /\ UNCHANGED <<poisoned, account, drawn, told, quiet>>

(* A browser: what passes the checks of host, origin, content type, size and *)
(* length is forwarded, with a key the person was told or a wrong one.       *)
login(r) == Begins(r, "verify_password", NoKey)
pair(r) == Begins(r, "consume_pairing", NoKey)
confirm(r, key) == key \in told \cup {NoKey} /\ Begins(r, "confirm_recovery_key", key)

(* A console that has the key; and get_pending_pairing of sl-platformd or     *)
(* get_enrollment_state of sl-sessiond and sl-remoted, which only look.      *)
recover(r) == Begins(r, "recover_password", NoKey)
look(r) == Begins(r, "get", NoKey)

(* sl-platformd: it waits for one call before it makes the next. *)
platform(r, method) ==
    /\ method \in Platform
    /\ \A other \in Requests : ~call[other].waits
    /\ Begins(r, method, NoKey)

(* Its AUTH_TIMEOUT is over; the operation stays where it is.  A browser or  *)
(* console that has gone shows when the reply is lost.                       *)
GivesUp(r) ==
    /\ call[r].waits
    /\ call' = [call EXCEPT ![r].waits = FALSE]
    /\ UNCHANGED <<admitted, poisoned, account, drawn, told, quiet>>

-----------------------------------------------------------------------------
(* The service. *)

(* Permit::drop, when the closure or the handler that owns it is dropped. *)
drop(r) == admitted' = IF call[r].permit THEN admitted - 1 ELSE admitted

Ends(r) == call' = [call EXCEPT ![r] = NoCall]

sender_uid(r) ==
    /\ call[r].stage = "uid"
    /\ call' = [call EXCEPT ![r].stage = "queued"]
    /\ UNCHANGED <<admitted, poisoned, account, drawn, told, quiet>>

\* Mutant: the early return forgets the permit.
sender_uid_leaks(r) ==
    /\ call[r].stage = "uid"
    /\ Ends(r)
    /\ UNCHANGED <<admitted, poisoned, account, drawn, told, quiet>>

(* An early return of the handler: the sender has left the bus. *)
sender_uid_fails(r) ==
    /\ call[r].stage = "uid"
    /\ drop(r)
    /\ Ends(r)
    /\ UNCHANGED <<poisoned, account, drawn, told, quiet>>

(* What the operation makes of the account, and the key it answers with. *)
Result(a, key) == [account |-> a, key |-> key]
Keeps == Result(account, NoKey)
Unenrolled == [state |-> "unenrolled", key |-> NoKey]

(* With the right code.  Drawing the key may fail, and does at the bound. *)
consume_pairing ==
    IF account.state = "pending" /\ drawn < KEYS
    THEN Result([state |-> "unconfirmed", key |-> drawn + 1], drawn + 1) ELSE Keeps

\* Mutant: any key that was ever handed out confirms, not only the stored one.
confirm_any_key(r) ==
    IF account.state = "unconfirmed" /\ call[r].key # NoKey
    THEN Result([account EXCEPT !.state = "enrolled"], NoKey) ELSE Keeps

confirm_recovery_key(r) ==
    IF account.state = "unconfirmed" /\ call[r].key = account.key
    THEN Result([account EXCEPT !.state = "enrolled"], NoKey) ELSE Keeps

ensure_pending_pairing ==
    IF account.state = "unenrolled" THEN Result([Unenrolled EXCEPT !.state = "pending"], NoKey)
    ELSE Keeps

cancel_pending_pairing ==
    IF account.state = "pending" THEN Result(Unenrolled, NoKey) ELSE Keeps

operation(r) ==
    CASE call[r].method = "consume_pairing" -> consume_pairing
      [] call[r].method = "confirm_recovery_key" -> confirm_recovery_key(r)
      [] call[r].method = "ensure_pending_pairing" -> ensure_pending_pairing
      [] call[r].method = "cancel_pending_pairing" -> cancel_pending_pairing
      [] call[r].method = "reset_enrollment" -> Result(Unenrolled, NoKey)
      [] OTHER -> Keeps

(* It succeeds, fails without a trace (a wrong secret, a write that failed), *)
(* or fails although its write is visible; the last wrong guess of a code    *)
(* destroys the pairing.                                                     *)
Outcomes(r) ==
    {operation(r), Keeps, Result(operation(r).account, NoKey)}
        \cup (IF call[r].method = "consume_pairing" /\ account.state = "pending"
              THEN {Result(Unenrolled, NoKey)} ELSE {})

Draws(r) == call[r].method = "consume_pairing" /\ account.state = "pending" /\ drawn < KEYS

(* Without a permit nothing is left to do but the reply. *)
Unlocks(r, key) ==
    call' = [call EXCEPT ![r] =
                IF @.permit THEN [NoCall EXCEPT !.stage = "done", !.permit = TRUE, !.key = key]
                ELSE NoCall]

(* The lock goes to any of its waiters, not the first one; what the          *)
(* operation reads, it reads now.                                            *)
with_core(r) ==
    /\ call[r].stage = "queued" /\ ~poisoned
    /\ drawn' = IF Draws(r) THEN drawn + 1 ELSE drawn
    /\ \E result \in Outcomes(r) : account' = result.account /\ Unlocks(r, result.key)
    /\ UNCHANGED <<admitted, poisoned, told, quiet>>

(* The operation panics, before or after its commit. *)
panics(r) ==
    /\ call[r].stage = "queued" /\ ~poisoned
    /\ drawn' = IF Draws(r) THEN drawn + 1 ELSE drawn
    /\ account' \in {account, operation(r).account}
    /\ poisoned' = TRUE
    /\ Unlocks(r, NoKey)
    /\ UNCHANGED <<admitted, told, quiet>>

\* Mutant: whoever waits for a poisoned lock goes on waiting.
blocks(r) == FALSE /\ UNCHANGED vars

(* A poisoned lock answers Unavailable. *)
refuses(r) ==
    /\ call[r].stage = "queued" /\ poisoned
    /\ Unlocks(r, NoKey)
    /\ UNCHANGED <<admitted, poisoned, account, drawn, told, quiet>>

(* The closure drops the permit; the reply arrives or finds nobody. *)
run(r) ==
    /\ call[r].stage = "done"
    /\ drop(r)
    /\ Ends(r)
    /\ told' \in {told, told \cup ({call[r].key} \ {NoKey})}
    /\ UNCHANGED <<poisoned, account, drawn, quiet>>

(* A deadline passes: prepare discards what has expired. *)
Expires ==
    /\ account.state \in {"pending", "unconfirmed"}
    /\ account' = Unenrolled
    /\ UNCHANGED <<admitted, poisoned, call, drawn, told, quiet>>

(* The process ends and is started again; the pairing was in memory. *)
Restart ==
    /\ admitted' = 0 /\ poisoned' = FALSE
    /\ call' = [r \in Requests |-> NoCall]
    /\ account' = IF account.state = "pending" THEN Unenrolled ELSE account
    /\ UNCHANGED <<drawn, told, quiet>>

CallsEnd == ~quiet /\ quiet' = TRUE
            /\ UNCHANGED <<admitted, poisoned, call, account, drawn, told>>

-----------------------------------------------------------------------------

Init ==
    /\ admitted = 0 /\ poisoned = FALSE
    /\ call = [r \in Requests |-> NoCall]
    /\ account = Unenrolled
    /\ drawn = 0 /\ told = {} /\ quiet = FALSE

Calls(r) ==
    \/ login(r) \/ pair(r) \/ recover(r) \/ look(r)
    \/ \E key \in Keys \cup {NoKey} : confirm(r, key)
    \/ \E method \in Platform : platform(r, method)

Serves(r) ==
    sender_uid(r) \/ sender_uid_fails(r) \/ with_core(r) \/ panics(r) \/ refuses(r) \/ run(r)

Next ==
    \/ \E r \in Requests : Calls(r) \/ Serves(r) \/ GivesUp(r)
    \/ Expires \/ Restart \/ CallsEnd

Spec == Init /\ [][Next]_vars

(* The bus answers, blocking threads run, a free lock is given to one of its *)
(* waiters and an operation ends; no caller has to do anything.              *)
LiveSpec ==
    /\ Spec
    /\ WF_vars(\E r \in Requests : with_core(r) \/ refuses(r))
    /\ \A r \in Requests : WF_vars(sender_uid(r)) /\ WF_vars(run(r))

-----------------------------------------------------------------------------

(* Every variable has its type. *)
TypeOK ==
    /\ admitted \in Int /\ poisoned \in BOOLEAN /\ quiet \in BOOLEAN
    /\ call \in [Requests -> [method : Methods \cup {"none"}, stage : Stages,
                              waits : BOOLEAN, permit : BOOLEAN, key : Nat]]
    /\ account \in [state : {"unenrolled", "pending", "unconfirmed", "enrolled"}, key : Nat]
    /\ drawn \in Nat /\ told \subseteq 1 .. drawn

(* The counter is the number of operations that hash or wait for their turn, *)
(* never more than MAX_ADMITTED: when callers have gone, the name of a       *)
(* sender is not found or a thread has panicked, no admission is lost for    *)
(* good and none is given twice (service.rs: the permit moves into the       *)
(* blocking closure and is dropped with it).                                 *)
AdmissionBalances == admitted = Cardinality(Holding) /\ admitted <= MAX_ADMITTED

(* An account is finally enrolled only with a recovery key that reached its  *)
(* owner: an enrollment whose reply was lost, because the caller's deadline  *)
(* passed while it waited or hashed, can be reset or left to expire but is   *)
(* never confirmed, not even by a late confirmation of an earlier enrollment *)
(* (service.rs: a queued request reads the state when it runs).              *)
EnrolledKeyWasTold == account.state = "enrolled" => account.key \in told

(* When no more calls come, every operation that was admitted or queued ends *)
(* and the service is free again, whoever gave up and whatever panicked: the *)
(* lock of a thread that panicked refuses, and does not block, the others.   *)
DrainsWhenQuiet == quiet ~> (admitted = 0 /\ Under("none") = Requests)
=============================================================================
