------------------------------ MODULE AuthCore ------------------------------
(***************************************************************************)
(* sl-authd's state machine (authd/src/machine.rs) on its state file       *)
(* (authd/src/store.rs): one operator account that is unenrolled, waiting  *)
(* for a pairing code, provisionally enrolled or enrolled.                 *)
(*                                                                         *)
(* Every method runs under one mutex, from prepare() to its reply.  pc is  *)
(* the place the running method has reached; the Argon2id computations are *)
(* the places where time passes inside a method.  A hash is modelled by    *)
(* the secret it is the hash of.                                           *)
(***************************************************************************)
EXTENDS Naturals

CONSTANTS
    Uids,                  \* D-Bus sender uids (web and console)
    Passwords,             \* password texts that are not recovery keys
    Weak,                  \* those under PASSWORD_MIN_CODE_POINTS code points
    Codes,                 \* pairing codes
    Keys,                  \* recovery keys, in their canonical text
    Garbage,               \* an argument over its bound or not well formed
    PAIRING_LIFETIME, CONFIRMATION_WINDOW, PAIRING_ATTEMPTS,
    BACKOFF_THRESHOLD, BACKOFF_CAP,
    U32_MAX,               \* where the failure counter saturates
    MaxBoot, MaxWall       \* bounds of the two clocks

ASSUME ConstantsAssumption ==
    /\ PAIRING_LIFETIME \in Nat \ {0} /\ CONFIRMATION_WINDOW \in Nat \ {0}
    /\ PAIRING_ATTEMPTS \in Nat \ {0}
    /\ BACKOFF_THRESHOLD \in Nat \ {0} /\ BACKOFF_CAP \in Nat \ {0}
    /\ U32_MAX \in Nat \ {0}
    /\ MaxBoot \in Nat /\ MaxWall \in Nat

ASSUME InputsAssumption ==
    /\ Weak \subseteq Passwords
    /\ Passwords \cap Keys = {}
    /\ Garbage \notin Uids \cup Passwords \cup Codes \cup Keys

VARIABLES
    disk,                  \* what a reader of state.json finds now
    durable,               \* what a power loss is certain to leave
    temp,                  \* state.json.tmp exists
    persisted,             \* Core.persisted
    pairing,               \* Core.pairing
    expired_provisional,   \* Core.expired_provisional
    backoff,               \* Core.backoff; no entry is a count of 0
    boot, wall,            \* CLOCK_BOOTTIME and the wall clock, in seconds
    pc,                    \* where the method that holds the mutex is
    args,                  \* its arguments
    reply,                 \* the last reply sent
    \* History, read by no action:
    drawn,                 \* codes and keys the random source has produced
    promised,              \* the last state a commit reported durable
    confirmed,             \* keys presented inside their window
    wrong,                 \* wrong codes submitted against each code
    failed                 \* of each scope: its failures since it was last forgiven

store == <<disk, durable, temp>>
core == <<persisted, pairing, expired_provisional, backoff>>
clocks == <<boot, wall>>
control == <<pc, args, reply>>
history == <<drawn, promised, confirmed, wrong, failed>>
vars == <<store, core, clocks, control, history>>

-----------------------------------------------------------------------------
(* Values *)

Secrets == Passwords \cup Keys   \* what a caller can submit as a password

Scopes == Uids \cup {"recovery", "confirmation"}

Unenrolled == [state |-> "unenrolled"]

EnrolledUnconfirmed(p, k, d) ==
    [state |-> "unconfirmed", password |-> p, key |-> k, deadline |-> d]

Enrolled(p, k) == [state |-> "enrolled", password |-> p, key |-> k]

\* Both the file load() refuses and Core.persisted = None.
Invalid == [state |-> "invalid"]

Persisted ==
    {Unenrolled}
        \cup [state : {"unconfirmed"}, password : Secrets, key : Keys, deadline : Nat]
        \cup [state : {"enrolled"}, password : Secrets, key : Keys]

NoPairing == [state |-> "none"]

Pairing(c, expires) ==
    [state |-> "pending", code |-> c, expires_boot |-> expires, wrong_attempts |-> 0]

Pairings ==
    {NoPairing}
        \cup [state : {"pending"}, code : Codes, expires_boot : Nat, wrong_attempts : Nat]

NoFailures == [failures |-> 0, last_failure |-> 0]

\* How many (up to the threshold), when the last one was, and how long to wait.
NeverFailed == [count |-> 0, at |-> 0, wait |-> 0]

Args(u, p, k) == [uid |-> u, password |-> p, key |-> k]

NoArgs == Args(Garbage, Garbage, Garbage)

Failures ==
    {"NotEnrolled", "EnrollmentUnconfirmed", "AlreadyEnrolled",
     "NoPendingPairing", "InvalidPairingCode", "PairingAttemptsExhausted",
     "NoProvisionalEnrollment", "ConfirmationExpired", "InvalidCredential",
     "PasswordRejected", "RateLimited", "InvalidArgument", "Unavailable"}

-----------------------------------------------------------------------------
(* Helpers of machine.rs *)

\* A deadline further ahead than a fresh enrollment could set is expired too.
deadline_expired(deadline, now) ==
    now >= deadline \/ deadline > now + CONFIRMATION_WINDOW

\* 1 << exponent, for the exponents below the cut-off of backoff_delay.
Shifted == <<1, 2, 4, 8, 16, 32, 64, 128, 256, 512>>

backoff_delay(failures) ==
    IF failures < BACKOFF_THRESHOLD THEN 0
    ELSE LET exponent == failures - BACKOFF_THRESHOLD
         IN  IF exponent >= 10 \/ Shifted[exponent + 1] > BACKOFF_CAP
             THEN BACKOFF_CAP
             ELSE Shifted[exponent + 1]

\* The counter saturates where the delay no longer grows, and the delay is at
\* its cap when the exponent is cut off.
ASSUME BackoffAssumption ==
    backoff_delay(U32_MAX) = BACKOFF_CAP /\ BACKOFF_CAP <= 1024

\* The clock is read only when the scope has an entry, and may be unreadable.
check_backoff(scope, result) ==
    LET counter == backoff[scope]
        until == counter.last_failure + backoff_delay(counter.failures)
    IN  \/ counter.failures = 0 /\ result = "ok"
        \/ counter.failures > 0 /\ result = "Unavailable"
        \/ counter.failures > 0 /\ boot >= until /\ result = "ok"
        \/ counter.failures > 0 /\ boot < until /\ result = "RateLimited"

\* Mutant: the time of a failure is not stored.
record_failure_untimed(scope, result) ==
    LET counted == IF backoff[scope].failures < U32_MAX
                   THEN backoff[scope].failures + 1 ELSE U32_MAX
    IN  /\ result \in {"InvalidCredential", "Unavailable"}
        /\ backoff' = [backoff EXCEPT ![scope].failures = counted]

\* The failure counts even when the clock cannot be read.
record_failure(scope, result) ==
    LET counted == IF backoff[scope].failures < U32_MAX
                   THEN backoff[scope].failures + 1 ELSE U32_MAX
    IN  \/ /\ result = "InvalidCredential"
           /\ backoff' = [backoff EXCEPT ![scope] =
                            [failures |-> counted, last_failure |-> boot]]
        \/ /\ result = "Unavailable"
           /\ backoff' = [backoff EXCEPT ![scope].failures = counted]

\* Mutant: a success in one scope clears the whole map.
record_success_clears_all(scope) == backoff' = [s \in Scopes |-> NoFailures]

record_success(scope) == backoff' = [backoff EXCEPT ![scope] = NoFailures]

\* History: the demanded wait is one second from the threshold on and doubles
\* with each failure up to the cap; a failure is timed when the clock is read.
Fails(scope, result) ==
    LET before == failed[scope]
        reached == before.count + 1 >= BACKOFF_THRESHOLD
        doubled == IF before.wait = 0 THEN 1 ELSE 2 * before.wait
    IN  failed' = [failed EXCEPT ![scope] =
            [count |-> IF reached THEN BACKOFF_THRESHOLD ELSE before.count + 1,
             at    |-> IF result = "InvalidCredential" THEN boot ELSE before.at,
             wait  |-> IF ~reached THEN 0
                       ELSE IF doubled > BACKOFF_CAP THEN BACKOFF_CAP ELSE doubled]]

Forgives(scope) == failed' = [failed EXCEPT ![scope] = NeverFailed]

\* Mutant: the deadline is not checked again after the key has been hashed.
ProvisionalExpired_not_rechecked ==
    /\ pc # "confirm"
    /\ persisted.state = "unconfirmed"
    /\ deadline_expired(persisted.deadline, wall)

ProvisionalExpired ==
    /\ persisted.state = "unconfirmed"
    /\ deadline_expired(persisted.deadline, wall)

UnexpiredPairing ==
    IF pairing # NoPairing /\ boot >= pairing.expires_boot THEN NoPairing ELSE pairing

Reply(result) ==
    /\ pc' = "idle"
    /\ args' = NoArgs
    /\ reply' = result

\* A method that answers without touching the store, the core or the history.
Answer(result) ==
    Reply(result) /\ UNCHANGED <<store, core, clocks, history>>

\* A method that goes on to a hash computation, where time passes.
Compute(place, a) == pc' = place /\ args' = a /\ UNCHANGED reply

-----------------------------------------------------------------------------
(* store.rs: Store::write and Core::commit *)

Outcomes == {"durable", "not_renamed", "not_synced"}

\* Mutant: success is reported without the directory fsync.
write_without_directory_sync(state, outcome) ==
    \/ outcome = "durable" /\ ~temp /\ disk' = state /\ UNCHANGED <<durable, temp>>
    \/ outcome = "not_renamed" /\ temp' \in BOOLEAN /\ UNCHANGED <<disk, durable>>

\* A leftover temporary file makes O_EXCL fail; the failure path unlinks it,
\* and that unlink may fail as well.
write(state, outcome) ==
    \/ /\ outcome = "durable" /\ ~temp
       /\ disk' = state /\ durable' = state /\ UNCHANGED temp
    \/ /\ outcome = "not_renamed"
       /\ temp' \in BOOLEAN /\ UNCHANGED <<disk, durable>>
    \/ /\ outcome = "not_synced" /\ ~temp
       /\ disk' = state /\ UNCHANGED <<durable, temp>>

\* Mutant: a failure after the rename is treated like one before it.
commit_trusts_memory(state, outcome) ==
    /\ write(state, outcome)
    /\ persisted' = IF outcome = "durable" THEN state ELSE persisted
    /\ promised' = IF outcome = "durable" THEN state
                   ELSE IF outcome = "not_renamed" THEN promised ELSE Invalid

\* Memory follows the file; after an unsynced rename it is not to be trusted.
\* The caller of commit sets pairing' with PairingAfter.
commit(state, outcome) ==
    /\ write(state, outcome)
    /\ persisted' = CASE outcome = "durable"     -> state
                      [] outcome = "not_renamed" -> persisted
                      [] outcome = "not_synced"  -> Invalid
    /\ promised' = CASE outcome = "durable"     -> state
                     [] outcome = "not_renamed" -> promised
                     [] outcome = "not_synced"  -> Invalid

PairingAfter(outcome, onSuccess, onFailure) ==
    CASE outcome = "durable"     -> onSuccess
      [] outcome = "not_renamed" -> onFailure
      [] outcome = "not_synced"  -> NoPairing

-----------------------------------------------------------------------------
(* Core::prepare, which starts every method but reset_enrollment, ends     *)
(* Core::open and is repeated by confirm_recovery_key after its hash.      *)

AfterPrepare == [idle |-> "prepared", opening |-> "idle", confirm |-> "finish"]

\* prepare fails: the method answers Unavailable, open ignores the failure.
PrepareFails ==
    IF pc = "opening"
    THEN pc' = "idle" /\ UNCHANGED <<args, reply>>
    ELSE Reply("Unavailable")

PreparePasses ==
    /\ pc' = AfterPrepare[pc]
    /\ UNCHANGED args
    /\ reply' = IF pc = "idle" THEN "none" ELSE reply

\* The state is invalid, or CLOCK_BOOTTIME cannot be read.
PrepareRefuses ==
    /\ pc \in DOMAIN AfterPrepare
    /\ PrepareFails
    /\ UNCHANGED <<store, core, clocks, history>>

PrepareKeeps ==
    /\ pc \in DOMAIN AfterPrepare
    /\ persisted # Invalid /\ ~ProvisionalExpired
    /\ pairing' = UnexpiredPairing
    /\ PreparePasses
    /\ UNCHANGED <<store, persisted, expired_provisional, backoff, clocks, history>>

PrepareDiscards ==
    /\ pc \in DOMAIN AfterPrepare
    /\ persisted # Invalid /\ ProvisionalExpired
    /\ \E o \in Outcomes :
          /\ commit(Unenrolled, o)
          /\ pairing' = PairingAfter(o, UnexpiredPairing, UnexpiredPairing)
          /\ expired_provisional' = (o = "durable" \/ expired_provisional)
          /\ IF o = "durable" THEN PreparePasses ELSE PrepareFails
    /\ UNCHANGED <<backoff, clocks, drawn, confirmed, wrong, failed>>

prepare == PrepareRefuses \/ PrepareKeeps \/ PrepareDiscards

-----------------------------------------------------------------------------
(* verify_password *)

NotEnrolledError(result) ==
    \/ persisted.state = "unconfirmed" /\ result = "EnrollmentUnconfirmed"
    \/ persisted.state = "unenrolled" /\ result = "NotEnrolled"

verify_password_refuses(uid, password) ==
    /\ pc = "prepared"
    /\ \E result \in Failures :
          /\ \/ password = Garbage /\ result = "InvalidArgument"
             \/ password # Garbage /\ NotEnrolledError(result)
             \/ /\ password # Garbage /\ persisted.state = "enrolled"
                /\ check_backoff(uid, result)
          /\ Answer(result)

verify_password_begins(uid, password) ==
    /\ pc = "prepared"
    /\ password # Garbage /\ persisted.state = "enrolled"
    /\ check_backoff(uid, "ok")
    /\ Compute("verify", Args(uid, password, Garbage))
    /\ UNCHANGED <<store, core, clocks, history>>

verify_password_ends ==
    /\ pc = "verify"
    /\ \/ args.password = persisted.password
          /\ record_success(args.uid) /\ Forgives(args.uid) /\ Reply("ok")
       \/ args.password # persisted.password
          /\ \E result \in Failures :
                /\ record_failure(args.uid, result) /\ Fails(args.uid, result)
                /\ Reply(result)
    /\ UNCHANGED <<store, persisted, pairing, expired_provisional, clocks,
                   drawn, promised, confirmed, wrong>>

\* Argon2id or the random source fails; nothing has been changed yet.
hash_fails ==
    /\ pc \in {"verify", "enroll", "confirm", "recover", "rehash"}
    /\ Answer("Unavailable")

-----------------------------------------------------------------------------
(* consume_pairing *)

consume_pairing_refuses(code, password) ==
    /\ pc = "prepared"
    /\ \E result \in Failures :
          /\ \/ /\ Garbage \in {code, password}
                /\ result = "InvalidArgument"
             \/ /\ Garbage \notin {code, password}
                /\ \/ persisted.state = "enrolled" /\ result = "AlreadyEnrolled"
                   \/ persisted.state = "unconfirmed" /\ result = "EnrollmentUnconfirmed"
                   \/ /\ persisted.state = "unenrolled" /\ pairing = NoPairing
                      /\ result = "NoPendingPairing"
                   \/ /\ persisted.state = "unenrolled" /\ pairing # NoPairing
                      /\ code = pairing.code
                      /\ \/ password \in Weak /\ result = "PasswordRejected"
                         \/ password \notin Weak /\ result = "Unavailable" \* random source
          /\ Answer(result)

\* Mutant: one attempt too many.
consume_pairing_wrong_code_off_by_one(code, password) ==
    /\ pc = "prepared"
    /\ Garbage \notin {code, password}
    /\ persisted.state = "unenrolled" /\ pairing # NoPairing
    /\ code # pairing.code
    /\ wrong' = [wrong EXCEPT ![pairing.code] = @ + 1]
    /\ pairing' = IF pairing.wrong_attempts >= PAIRING_ATTEMPTS THEN NoPairing
                  ELSE [pairing EXCEPT !.wrong_attempts = @ + 1]
    /\ Reply("InvalidPairingCode")
    /\ UNCHANGED <<store, persisted, expired_provisional, backoff, clocks,
                   drawn, promised, confirmed, failed>>

consume_pairing_wrong_code(code, password) ==
    /\ pc = "prepared"
    /\ Garbage \notin {code, password}
    /\ persisted.state = "unenrolled" /\ pairing # NoPairing
    /\ code # pairing.code
    /\ wrong' = [wrong EXCEPT ![pairing.code] = @ + 1]
    /\ IF pairing.wrong_attempts + 1 >= PAIRING_ATTEMPTS
       THEN /\ pairing' = NoPairing
            /\ Reply("PairingAttemptsExhausted")
       ELSE /\ pairing' = [pairing EXCEPT !.wrong_attempts = @ + 1]
            /\ Reply("InvalidPairingCode")
    /\ UNCHANGED <<store, persisted, expired_provisional, backoff, clocks,
                   drawn, promised, confirmed, failed>>

\* The right code and a long enough password: draw a recovery key.
consume_pairing_draws(code, password, key) ==
    /\ pc = "prepared"
    /\ Garbage \notin {code, password}
    /\ persisted.state = "unenrolled" /\ pairing # NoPairing
    /\ code = pairing.code
    /\ password \notin Weak
    /\ key \notin drawn /\ drawn' = drawn \cup {key}
    /\ IF password = key
       THEN Reply("PasswordRejected")
       ELSE Compute("enroll", Args(Garbage, password, key))
    /\ UNCHANGED <<store, core, clocks, promised, confirmed, wrong, failed>>

consume_pairing_ends ==
    /\ pc = "enroll"
    /\ \E o \in Outcomes :
          /\ commit(EnrolledUnconfirmed(args.password, args.key,
                                        wall + CONFIRMATION_WINDOW), o)
          /\ pairing' = PairingAfter(o, NoPairing, pairing)
          /\ expired_provisional' = (o # "durable" /\ expired_provisional)
          /\ Reply(IF o = "durable" THEN "ok" ELSE "Unavailable")
    /\ UNCHANGED <<backoff, clocks, drawn, confirmed, wrong, failed>>

-----------------------------------------------------------------------------
(* confirm_recovery_key *)

confirm_recovery_key_refuses(key) ==
    /\ pc = "prepared"
    /\ \E result \in Failures :
          /\ \/ key = Garbage /\ result = "InvalidArgument"
             \/ /\ key # Garbage /\ persisted.state # "unconfirmed"
                /\ result = IF expired_provisional THEN "ConfirmationExpired"
                            ELSE "NoProvisionalEnrollment"
             \/ /\ key # Garbage /\ persisted.state = "unconfirmed"
                /\ check_backoff("confirmation", result)
          /\ Answer(result)

confirm_recovery_key_begins(key) ==
    /\ pc = "prepared"
    /\ key # Garbage /\ persisted.state = "unconfirmed"
    /\ check_backoff("confirmation", "ok")
    /\ Compute("confirm", Args(Garbage, Garbage, key))
    /\ UNCHANGED <<store, core, clocks, history>>

\* After the hash, prepare runs again and takes "confirm" to "finish".
confirm_recovery_key_expired ==
    /\ pc = "finish"
    /\ expired_provisional /\ persisted.state # "unconfirmed"
    /\ Answer("ConfirmationExpired")

confirm_recovery_key_mismatch ==
    /\ pc = "finish"
    /\ persisted.state = "unconfirmed" /\ args.key # persisted.key
    /\ \E result \in Failures :
          /\ record_failure("confirmation", result) /\ Fails("confirmation", result)
          /\ Reply(result)
    /\ UNCHANGED <<store, persisted, pairing, expired_provisional, clocks,
                   drawn, promised, confirmed, wrong>>

confirm_recovery_key_ends ==
    /\ pc = "finish"
    /\ persisted.state = "unconfirmed" /\ args.key = persisted.key
    /\ confirmed' = IF deadline_expired(persisted.deadline, wall)
                    THEN confirmed ELSE confirmed \cup {args.key}
    /\ \E o \in Outcomes :
          /\ commit(Enrolled(persisted.password, persisted.key), o)
          /\ pairing' = PairingAfter(o, pairing, pairing)
          /\ IF o = "durable"
             THEN /\ record_success("confirmation") /\ Forgives("confirmation")
                  /\ Reply("ok")
             ELSE UNCHANGED <<backoff, failed>> /\ Reply("Unavailable")
    /\ UNCHANGED <<expired_provisional, clocks, drawn, wrong>>

-----------------------------------------------------------------------------
(* recover_password *)

recover_password_refuses(key, password) ==
    /\ pc = "prepared"
    /\ \E result \in Failures :
          /\ \/ Garbage \in {key, password} /\ result = "InvalidArgument"
             \/ Garbage \notin {key, password} /\ NotEnrolledError(result)
             \/ /\ Garbage \notin {key, password} /\ persisted.state = "enrolled"
                /\ check_backoff("recovery", result)
          /\ Answer(result)

\* Mutant: a provisional enrollment may be recovered as well.
recover_password_begins_unconfirmed(key, password) ==
    /\ pc = "prepared"
    /\ Garbage \notin {key, password} /\ persisted.state \in {"unconfirmed", "enrolled"}
    /\ check_backoff("recovery", "ok")
    /\ Compute("recover", Args(Garbage, password, key))
    /\ UNCHANGED <<store, core, clocks, history>>

recover_password_begins(key, password) ==
    /\ pc = "prepared"
    /\ Garbage \notin {key, password} /\ persisted.state = "enrolled"
    /\ check_backoff("recovery", "ok")
    /\ Compute("recover", Args(Garbage, password, key))
    /\ UNCHANGED <<store, core, clocks, history>>

\* The key decides before the new password is looked at.
recover_password_checks ==
    /\ pc = "recover"
    /\ \/ /\ args.key # persisted.key
          /\ \E result \in Failures :
                /\ record_failure("recovery", result) /\ Fails("recovery", result)
                /\ Reply(result)
       \/ /\ args.key = persisted.key
          /\ record_success("recovery") /\ Forgives("recovery")
          /\ IF args.password \in Weak \/ args.password = args.key
             THEN Reply("PasswordRejected")
             ELSE Compute("rehash", args)
    /\ UNCHANGED <<store, persisted, pairing, expired_provisional, clocks,
                   drawn, promised, confirmed, wrong>>

recover_password_ends ==
    /\ pc = "rehash"
    /\ \E o \in Outcomes :
          /\ commit(Enrolled(args.password, persisted.key), o)
          /\ pairing' = PairingAfter(o, pairing, pairing)
          /\ Reply(IF o = "durable" THEN "ok" ELSE "Unavailable")
    /\ UNCHANGED <<expired_provisional, backoff, clocks, drawn, confirmed, wrong, failed>>

-----------------------------------------------------------------------------
(* The methods sl-platformd calls *)

ensure_pending_pairing_keeps ==
    /\ pc = "prepared"
    /\ persisted # Unenrolled \/ pairing # NoPairing
    /\ Answer("ok")

ensure_pending_pairing_fails ==
    /\ pc = "prepared"
    /\ persisted = Unenrolled /\ pairing = NoPairing
    /\ Answer("Unavailable")

ensure_pending_pairing_creates(code) ==
    /\ pc = "prepared"
    /\ persisted = Unenrolled /\ pairing = NoPairing
    /\ code \notin drawn /\ drawn' = drawn \cup {code}
    /\ pairing' = Pairing(code, boot + PAIRING_LIFETIME)
    /\ expired_provisional' = FALSE
    /\ Reply("ok")
    /\ UNCHANGED <<store, persisted, backoff, clocks, promised, confirmed, wrong, failed>>

cancel_pending_pairing ==
    /\ pc = "prepared"
    /\ pairing' = NoPairing
    /\ Reply("ok")
    /\ UNCHANGED <<store, persisted, expired_provisional, backoff, clocks, history>>

\* No prepare: it is the one method that works on an invalid state.
reset_enrollment ==
    /\ pc = "idle"
    /\ \E o \in Outcomes :
          /\ commit(Unenrolled, o)
          /\ pairing' = PairingAfter(o, NoPairing, pairing)
          /\ expired_provisional' = (o # "durable" /\ expired_provisional)
          /\ backoff' = IF o = "durable" THEN [s \in Scopes |-> NoFailures] ELSE backoff
          /\ failed' = IF o = "durable" THEN [s \in Scopes |-> NeverFailed] ELSE failed
          /\ Reply(IF o = "durable" THEN "ok" ELSE "Unavailable")
    /\ UNCHANGED <<clocks, drawn, confirmed, wrong>>

\* get_pending_pairing and get_enrollment_state only read what prepare left.
get_state ==
    /\ pc = "prepared"
    /\ Answer("ok")

-----------------------------------------------------------------------------
(* The process, the machine and time *)

\* Core::open up to its prepare.  load() refuses an invalid or unreadable file.
open ==
    /\ pc = "down"
    /\ \/ temp' = FALSE /\ persisted' \in {disk, Invalid}
       \/ temp /\ temp' = TRUE /\ persisted' = Invalid
    /\ pc' = "opening"
    /\ pairing' = NoPairing
    /\ expired_provisional' = FALSE
    /\ backoff' = [s \in Scopes |-> NoFailures]
    /\ failed' = [s \in Scopes |-> NeverFailed]
    /\ UNCHANGED <<disk, durable, args, reply, clocks, drawn, promised, confirmed, wrong>>

Stopped ==
    /\ pc' = "down" /\ args' = NoArgs /\ reply' = "none"
    /\ persisted' = Invalid /\ pairing' = NoPairing
    /\ expired_provisional' = FALSE
    /\ backoff' = [s \in Scopes |-> NoFailures]
    /\ failed' = [s \in Scopes |-> NeverFailed]
    /\ UNCHANGED <<drawn, promised, confirmed, wrong>>

\* sl-authd dies; inside a method it may be writing the temporary file.
Crash ==
    /\ pc # "down"
    /\ UNCHANGED temp \/ (pc # "idle" /\ temp' = TRUE)
    /\ Stopped
    /\ UNCHANGED <<disk, durable, clocks>>

\* An unsynced rename may be lost; the boot clock restarts.
PowerLoss ==
    /\ disk' \in {disk, durable} /\ durable' = disk'
    /\ \/ UNCHANGED temp
       \/ temp' = FALSE
       \/ pc \notin {"idle", "down"} /\ temp' = TRUE
    /\ boot' = 0
    /\ Stopped
    /\ UNCHANGED wall

\* The kernel writes back by itself what no fsync was heard to have written.
Writeback ==
    /\ durable # disk
    /\ durable' = disk
    /\ UNCHANGED <<disk, temp, core, clocks, control, history>>

TimePasses == pc \in {"down", "idle", "verify", "enroll", "confirm", "recover", "rehash"}

Tick ==
    /\ TimePasses
    /\ boot < MaxBoot /\ wall < MaxWall
    /\ boot' = boot + 1 /\ wall' = wall + 1
    /\ UNCHANGED <<store, core, control, history>>

\* The wall clock is stepped, in either direction.
StepWall ==
    /\ TimePasses
    /\ wall' \in 0 .. MaxWall
    /\ UNCHANGED <<store, core, control, history, boot>>

-----------------------------------------------------------------------------
Init ==
    /\ disk \in {Unenrolled, Invalid} /\ durable = disk /\ temp \in BOOLEAN
    /\ persisted = Invalid /\ pairing = NoPairing
    /\ expired_provisional = FALSE
    /\ backoff = [s \in Scopes |-> NoFailures]
    /\ boot = 0 /\ wall = 0
    /\ pc = "down" /\ args = NoArgs /\ reply = "none"
    /\ drawn = {} /\ promised = Invalid /\ confirmed = {}
    /\ wrong = [c \in Codes |-> 0]
    /\ failed = [s \in Scopes |-> NeverFailed]

PasswordInputs == Secrets \cup {Garbage}
CodeInputs == Codes \cup {Garbage}
KeyInputs == Keys \cup {Garbage}

Verify ==
    \/ \E uid \in Uids, p \in PasswordInputs :
          verify_password_refuses(uid, p) \/ verify_password_begins(uid, p)
    \/ verify_password_ends

Consume ==
    \/ \E c \in CodeInputs, p \in PasswordInputs :
          \/ consume_pairing_refuses(c, p)
          \/ consume_pairing_wrong_code(c, p)
          \/ \E k \in Keys : consume_pairing_draws(c, p, k)
    \/ consume_pairing_ends

Confirm ==
    \/ \E k \in KeyInputs :
          confirm_recovery_key_refuses(k) \/ confirm_recovery_key_begins(k)
    \/ confirm_recovery_key_expired
    \/ confirm_recovery_key_mismatch
    \/ confirm_recovery_key_ends

Recover ==
    \/ \E k \in KeyInputs, p \in PasswordInputs :
          recover_password_refuses(k, p) \/ recover_password_begins(k, p)
    \/ recover_password_checks
    \/ recover_password_ends

PlatformMethods ==
    \/ ensure_pending_pairing_keeps
    \/ ensure_pending_pairing_fails
    \/ \E c \in Codes : ensure_pending_pairing_creates(c)
    \/ cancel_pending_pairing
    \/ reset_enrollment
    \/ get_state

Environment == open \/ Crash \/ PowerLoss \/ Writeback \/ Tick \/ StepWall

Next ==
    \/ prepare \/ hash_fails
    \/ Verify \/ Consume \/ Confirm \/ Recover
    \/ PlatformMethods
    \/ Environment

Spec == Init /\ [][Next]_vars

-----------------------------------------------------------------------------
(* Properties *)

Places ==
    {"down", "opening", "idle", "prepared", "verify", "enroll", "confirm",
     "finish", "recover", "rehash"}

\* Every variable has its type.
TypeOK ==
    /\ disk \in Persisted \cup {Invalid}
    /\ durable \in Persisted \cup {Invalid}
    /\ temp \in BOOLEAN
    /\ persisted \in Persisted \cup {Invalid}
    /\ pairing \in Pairings
    /\ expired_provisional \in BOOLEAN
    /\ backoff \in [Scopes -> [failures : Nat, last_failure : Nat]]
    /\ boot \in Nat /\ wall \in Nat
    /\ pc \in Places
    /\ args \in [uid : Uids \cup {Garbage}, password : PasswordInputs, key : KeyInputs]
    /\ reply \in Failures \cup {"none", "ok"}
    /\ drawn \subseteq Codes \cup Keys
    /\ promised \in Persisted \cup {Invalid}
    /\ confirmed \subseteq Keys
    /\ wrong \in [Codes -> Nat]
    /\ failed \in [Scopes -> [count : Nat, at : Nat, wait : Nat]]

\* sl-authd is in exactly one of its four states: a pairing is pending only
\* while nobody is enrolled, not even provisionally, and the note that an
\* enrollment expired never coexists with a pairing or a newer enrollment.
OneOfFourStates ==
    /\ pairing # NoPairing => persisted = Unenrolled
    /\ expired_provisional => persisted \in {Unenrolled, Invalid} /\ pairing = NoPairing

\* What Core answers from is what state.json holds: no failed write, crash or
\* restart leaves memory that disagrees with the visible file.
MemoryMatchesDisk == persisted # Invalid => persisted = disk

\* A state whose commit succeeded is still there, visible and durable, until a
\* later write replaces it: through crashes, power losses and failed writes.
PromiseKept == promised # Invalid => disk = promised /\ durable = promised

\* No account is finally enrolled, on disk or after a power loss, unless its
\* recovery key was presented before the confirmation deadline, even when the
\* deadline passes while the key is being hashed or the clock is stepped.
OnlyConfirmedKeysEnroll ==
    \A f \in {disk, durable} : f.state = "enrolled" => f.key \in confirmed

\* No stored account has a weak password or its own recovery key as password,
\* whichever of consume_pairing and recover_password set it.
StoredPasswordsObeyRules ==
    \A f \in {disk, durable} :
        f.state \in {"unconfirmed", "enrolled"} =>
            f.password \notin Weak /\ f.password # f.key

\* However calls, cancellations and restarts interleave, a pairing code takes
\* at most PAIRING_ATTEMPTS wrong guesses, and is gone after the last one.
GuessBudget ==
    \A c \in Codes :
        /\ wrong[c] <= PAIRING_ATTEMPTS
        /\ pairing # NoPairing /\ pairing.code = c => wrong[c] < PAIRING_ATTEMPTS

\* The scope whose secret the running method is looking at.
Examined(s) ==
    \/ pc = "verify" /\ s = args.uid
    \/ pc \in {"confirm", "finish"} /\ s = "confirmation"
    \/ pc = "recover" /\ s = "recovery"

\* No secret is looked at before the wait since the scope's last timed failure
\* is over, which doubles with each failure in the scope, up to the cap, and
\* counts the failures that could not be timed too (check_backoff,
\* record_failure).
FailuresCostTime ==
    \A s \in Scopes : Examined(s) => boot >= failed[s].at + failed[s].wait

\* ConfirmationExpired is answered only when the provisional material has been
\* durably discarded.
ExpiredMeansDiscarded ==
    reply = "ConfirmationExpired" => disk = Unenrolled /\ durable = Unenrolled

\* A scope's failure count goes down only for the credential of that very scope,
\* for a durable reset or with the process: no other success forgives it.
ForgivenOnlyByOwnSecret ==
    [][\A s \in Scopes : backoff'[s].failures < backoff[s].failures =>
        \/ pc' = "down"
        \/ pc = "idle" /\ pc' = "idle" /\ promised' = Unenrolled
        \/ pc = "verify" /\ s = args.uid /\ args.password = disk.password
        \/ pc = "finish" /\ s = "confirmation" /\ disk'.state = "enrolled"
        \/ pc = "recover" /\ s = "recovery" /\ args.key = disk.key]_vars

\* What an observer of the state file sees of it: not the deadline.
Public(f) ==
    IF f.state = "unconfirmed"
    THEN [state |-> "unconfirmed", password |-> f.password, key |-> f.key]
    ELSE f

Account == INSTANCE OperatorAccount
               WITH account <- Public(disk), safe <- Public(durable)

\* The state file behaves as the operator account of the documentation's state
\* table: every write is one of its transitions, whatever fails around it.
ImplementsAccount == Account!Spec
=============================================================================
