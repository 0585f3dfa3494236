--------------------------- MODULE RemoteLifecycle ---------------------------
(***************************************************************************)
(* The remote-management lifecycle: the three mutating Platform1 methods   *)
(* (platformd/src/remote.rs) drive the worker units (RemoteWorker), sl-authd *)
(* and sl-remoted through systemd, each under one permit and with a time   *)
(* limit on every wait, while the machine may crash and boot at any point, *)
(* with or without the kernel argument that asks for a reset.  A fourth    *)
(* method reads what the console shows for an enrollment.                  *)
(*                                                                         *)
(* systemd and sl-authd are modelled from how this code uses them: unit    *)
(* jobs, Requires=, the conditions of sl-remoted.service, and three atomic *)
(* authentication calls whose answer may be lost, and which may still take *)
(* effect when nobody waits for them any more.                             *)
(***************************************************************************)
EXTENDS RemoteWorker, Sequences

CONSTANT
    OVERRUNS    \* bound on the overruns: a wait given up while what it waits for still
                \* runs, a method called while a start of sl-remoted is queued, a boot
                \* reset repeated by anything but a start of sl-remoted

ASSUME OverrunsAssumption == OVERRUNS \in Nat

VARIABLES
    phase,      \* "off", "booting" until the boot reset was tried, "up" once sl-platformd runs
    cmdline,    \* "reset" when this boot carries signallayer.remote-management-reset
    boot_unit,  \* sl-rm-boot-reset.service: "idle", "running", "done" or "failed"
    remoted,    \* sl-remoted.service: "inactive", "queued", "active", "stopping", "restarting"
    serving,    \* the generation sl-remoted loaded at its start
    call,       \* the method that holds the permit
    at,         \* the step of its sequence
    waiting,    \* "yes" when the step was issued and its end is awaited
    saw,        \* the markers Reenroll has read
    shown,      \* what GetRemoteManagementEnrollment has read
    reply,      \* the outcome of the last method
    overruns,   \* the overruns so far
    account,    \* the operator account of sl-authd
    pairing,    \* its pending pairing
    late,       \* member -> the calls of it given up and still to take effect
    torn,       \* history: the fsync of a marker failed and none succeeded since
    admin,      \* history: "on" after an Enable that succeeded, "off" after such a Disable;
                \* "on, torn" and "off, torn" when torn held then
    before,     \* history: what existed when the running Reenroll was called
    condemned,  \* history: what a committed boot reset or a successful Reenroll revoked
    moments,    \* history: what tls/current named during the enrollment read that runs,
                \* at the moments when a pairing was pending
    issued      \* history: a pairing became pending during that read

platformVars == <<call, at, waiting, saw, shown, reply>>
systemdVars == <<phase, cmdline, boot_unit, remoted, serving>>
authVars == <<account, pairing>>
historyVars == <<torn, admin, before, condemned, moments, issued>>
vars == <<workerVars, platformVars, systemdVars, authVars, historyVars, overruns, late>>

-----------------------------------------------------------------------------
(* sl-authd. *)

Account == "account"
Code == "code"
Credentials == {Account, Code}

ASSUME AccountAssumption == Credentials \cap (Generations \cup {NoGeneration}) = {}

(* The generations on disk, the account and the pairing if there is one. *)
Existing ==
    visible.gens \cup (IF account = "enrolled" THEN {Account} ELSE {})
                 \cup (IF pairing = "pending" THEN {Code} ELSE {})

(* The calls of sl-platformd and of the boot reset. *)
Members == {"ensure", "reset", "cancel"}
NoneLate == [member \in Members |-> 0]

ResetEnrollment ==
    /\ account' = "none"
    /\ pairing' = "none"

EnsurePendingPairing ==
    /\ pairing' = IF account = "none" THEN "pending" ELSE pairing
    /\ UNCHANGED account

CancelPendingPairing ==
    /\ pairing' = "none"
    /\ UNCHANGED account

(* A browser that reaches sl-remoted uses the pairing. *)
Enroll ==
    /\ remoted = "active" /\ pairing = "pending"
    /\ account' = "enrolled"
    /\ pairing' = "none"
    /\ UNCHANGED <<workerVars, platformVars, systemdVars>>

Expire ==
    /\ phase # "off" /\ pairing = "pending"
    /\ pairing' = "none"
    /\ UNCHANGED <<workerVars, platformVars, systemdVars, account>>

-----------------------------------------------------------------------------
(* systemd and the boot. *)

(* Starting sl-remoted also starts what it Requires=: the boot reset, which  *)
(* is skipped without the kernel argument and stays active once it worked.   *)
QueueRemoted ==
    /\ remoted' = "queued"
    /\ IF cmdline = "reset" /\ boot_unit = "failed"
       THEN boot_unit' = "running" /\ StartWorker("boot_reset")
       ELSE UNCHANGED <<boot_unit, workerVars>>
    /\ UNCHANGED <<phase, cmdline, serving>>

Boot ==
    /\ phase = "off"
    /\ phase' = "booting"
    /\ remoted' = "queued"
    /\ \E argument \in {"reset", "none"} :
        /\ cmdline' = argument
        /\ IF argument = "reset"
           THEN boot_unit' = "running" /\ StartWorker("boot_reset")
           ELSE UNCHANGED <<boot_unit, workerVars>>
    /\ UNCHANGED <<serving, platformVars, authVars>>

(* sl-platformd is ordered after the boot reset. *)
PlatformUp ==
    /\ phase = "booting" /\ boot_unit # "running"
    /\ phase' = "up"
    /\ UNCHANGED <<workerVars, platformVars, cmdline, boot_unit, remoted, serving,
                   authVars>>

(* The boot reset ends; when it failed, a start of sl-remoted that waits for *)
(* it fails too.                                                             *)
BootUnitSettles ==
    /\ boot_unit = "running" /\ wpc["boot_reset"] = "idle"
    /\ boot_unit' = IF outcome["boot_reset"] = "success" THEN "done" ELSE "failed"
    /\ remoted' = IF boot_unit' = "failed" /\ remoted = "queued" THEN "inactive" ELSE remoted
    /\ CollectWorker("boot_reset")
    /\ UNCHANGED <<platformVars, phase, cmdline, serving, authVars>>

(* sl-console restarts and Wants= the boot reset. *)
BootResetRetried ==
    /\ cmdline = "reset" /\ boot_unit = "failed"
    /\ boot_unit' = "running"
    /\ StartWorker("boot_reset")
    /\ UNCHANGED <<platformVars, phase, cmdline, remoted, serving, authVars>>

\* Mutant: sl-remoted.service without ConditionPathExists=!reset-pending.
StartConditionsIgnoreReset == marker_exists(Enabled) /\ visible.link \in visible.gens

StartConditions ==
    /\ marker_exists(Enabled)
    /\ visible.link \in visible.gens
    /\ ~marker_exists(ResetPending)

(* The start job or an automatic restart: the conditions are evaluated   *)
(* now, and only now.  Without a loadable identity sl-remoted exits, and is  *)
(* restarted.                                                                *)
RemotedStarts ==
    /\ remoted = "restarting" \/ (remoted = "queued" /\ boot_unit # "running")
    /\ remoted' = IF ~StartConditions THEN "inactive"
                  ELSE IF Complete(visible) THEN "active" ELSE "restarting"
    /\ serving' = IF remoted' = "active" THEN visible.link ELSE NoGeneration
    /\ UNCHANGED <<workerVars, platformVars, phase, cmdline, boot_unit, authVars>>

RemotedExits ==
    /\ remoted = "active"
    /\ remoted' = "restarting"
    /\ serving' = NoGeneration
    /\ UNCHANGED <<workerVars, platformVars, phase, cmdline, boot_unit, authVars>>

RemotedStops ==
    /\ remoted = "stopping"
    /\ remoted' = "inactive"
    /\ serving' = NoGeneration
    /\ UNCHANGED <<workerVars, platformVars, phase, cmdline, boot_unit, authVars>>

NothingShown == [fingerprint |-> NoGeneration, code |-> "none"]

(* Power loss or reboot.  The pairing is in memory, the account on disk. *)
Crash ==
    /\ phase # "off"
    /\ phase' = "off"
    /\ WorkersCrash
    /\ cmdline' = "none" /\ boot_unit' = "idle"
    /\ remoted' = "inactive" /\ serving' = NoGeneration
    /\ pairing' = "none"
    /\ call' = "none" /\ at' = 1 /\ waiting' = "no" /\ saw' = {} /\ reply' = "none"
    /\ shown' = NothingShown
    /\ UNCHANGED account

WorkerRuns(u) ==
    /\ WorkerStep(u)
    /\ UNCHANGED <<platformVars, systemdVars, authVars>>

(* The boot reset calls sl-authd: done, done but not heard of, or not done. *)
WorkerResets ==
    /\ wpc["boot_reset"] = "reset_enrollment"
    /\ UNCHANGED <<visible, durable, filled, drawn, platformVars, systemdVars>>
    /\ \/ ResetEnrollment /\ (Proceeds("boot_reset") \/ Ends("boot_reset", "failed"))
       \/ Ends("boot_reset", "failed") /\ UNCHANGED authVars

-----------------------------------------------------------------------------
(* The methods of Platform1. *)

Methods == {"enable", "disable", "reenroll", "enrollment"}

\* Mutant: Reenroll clears the marker first and resets afterwards.
SequenceClearsEarly ==
    [enable |-> <<"check_reset", "enable", "ensure", "start">>,
     disable |-> <<"disable", "stop", "cancel">>,
     reenroll |-> <<"stop", "read_reset", "clear", "reset", "rotate",
                    "read_enabled", "ensure", "start">>,
     enrollment |-> <<"network", "fingerprint", "pairing", "show">>]

\* Mutant: the pairing is read first.
SequencePairingFirst ==
    [enable |-> <<"check_reset", "enable", "ensure", "start">>,
     disable |-> <<"disable", "stop", "cancel">>,
     reenroll |-> <<"stop", "reset", "rotate", "read_enabled", "ensure",
                    "read_reset", "clear", "start">>,
     enrollment |-> <<"network", "pairing", "fingerprint", "show">>]

Sequence ==
    [enable |-> <<"check_reset", "enable", "ensure", "start">>,
     disable |-> <<"disable", "stop", "cancel">>,
     reenroll |-> <<"stop", "reset", "rotate", "read_enabled", "ensure",
                    "read_reset", "clear", "start">>,
     enrollment |-> <<"network", "fingerprint", "pairing", "show">>]

Unit == [enable |-> "enable", disable |-> "disable", rotate |-> "rotate", clear |-> "clear_reset"]

On(step) == call # "none" /\ Sequence[call][at] = step
OnWorker == call # "none" /\ Sequence[call][at] \in DOMAIN Unit
ItsUnit == Unit[Sequence[call][at]]

(* The step is to be issued, and is not one Reenroll leaves out: there is no *)
(* pairing and no start on a disabled machine, and nothing to clear without  *)
(* a pending reset.                                                          *)
Skipped ==
    /\ call = "reenroll"
    /\ \/ (On("ensure") \/ On("start")) /\ Enabled \notin saw
       \/ On("clear") /\ ResetPending \notin saw
Due(step) == On(step) /\ waiting = "no" /\ ~Skipped

(* The method returns and drops the permit. *)
Returns(result) ==
    /\ call' = "none" /\ at' = 1 /\ waiting' = "no" /\ saw' = {}
    /\ shown' = NothingShown
    /\ reply' = result

(* The step is over: on to the next one, or Ok(()) after the last. *)
Advances ==
    IF at = Len(Sequence[call])
    THEN Returns("ok")
    ELSE at' = at + 1 /\ waiting' = "no" /\ UNCHANGED <<call, saw, shown, reply>>

Waits == waiting' = "yes" /\ UNCHANGED <<call, at, saw, shown, reply>>

(* try_acquire: with the permit taken the answer is Busy and nothing happens. *)
Call(method) ==
    /\ phase = "up" /\ call = "none"
    /\ call' = method
    /\ reply' = "none"
    /\ UNCHANGED <<workerVars, systemdVars, authVars, at, waiting, saw, shown>>

(* A D-Bus or file-system error ends the sequence at the step it hits. *)
StepFails ==
    /\ call # "none" /\ waiting = "no"
    /\ Returns("error")
    /\ UNCHANGED <<workerVars, systemdVars, authVars>>

skip ==
    /\ Skipped
    /\ Advances
    /\ UNCHANGED <<workerVars, systemdVars, authVars>>

check_reset ==
    /\ Due("check_reset")
    /\ IF marker_exists(ResetPending) THEN Returns("error") ELSE Advances
    /\ UNCHANGED <<workerVars, systemdVars, authVars>>

read_marker ==
    /\ Due("read_enabled") \/ Due("read_reset")
    /\ saw' = saw \cup (visible.root \cap
                        {IF On("read_enabled") THEN Enabled ELSE ResetPending})
    /\ at' = at + 1
    /\ UNCHANGED <<workerVars, systemdVars, authVars, call, waiting, shown, reply>>

(* run_worker: Busy when the unit still runs, else start it ...  *)
run_worker ==
    /\ OnWorker /\ Due(Sequence[call][at])
    /\ IF wpc[ItsUnit] # "idle"
       THEN Returns("error") /\ UNCHANGED workerVars
       ELSE StartWorker(ItsUnit) /\ Waits
    /\ UNCHANGED <<systemdVars, authVars>>

(* ... and wait for its end, ...                                 *)
worker_ended ==
    /\ OnWorker /\ waiting = "yes"
    /\ wpc[ItsUnit] = "idle"
    /\ IF outcome[ItsUnit] = "success" THEN Advances ELSE Returns("error")
    /\ CollectWorker(ItsUnit)
    /\ UNCHANGED <<systemdVars, authVars>>

(* ... but at most WORKER_TIMEOUT; the unit runs on.             *)
worker_timeout ==
    /\ OnWorker /\ waiting = "yes"
    /\ wpc[ItsUnit] # "idle"
    /\ Returns("error")
    /\ UNCHANGED <<workerVars, systemdVars, authVars>>

(* A call to sl-authd is done and answered, or done and not heard of within  *)
(* AUTH_TIMEOUT; one that is not done is StepFails.                          *)
auth ==
    /\ \/ Due("ensure") /\ EnsurePendingPairing
       \/ Due("reset") /\ ResetEnrollment
       \/ Due("cancel") /\ CancelPendingPairing
    /\ Advances \/ Returns("error")
    /\ UNCHANGED <<workerVars, systemdVars>>

(* AUTH_TIMEOUT is over: the method, or the boot reset, fails, and sl-authd  *)
(* has the call all the same.                                                *)
auth_timeout(member) ==
    /\ late' = [late EXCEPT ![member] = @ + 1]
    /\ \/ Due(member) /\ StepFails
       \/ /\ member = "reset" /\ wpc["boot_reset"] = "reset_enrollment"
          /\ Ends("boot_reset", "failed")
          /\ UNCHANGED <<visible, durable, filled, drawn, platformVars, systemdVars, authVars>>

LateCall(member) ==
    /\ late[member] > 0
    /\ late' = [late EXCEPT ![member] = @ - 1]
    /\ \/ member = "ensure" /\ EnsurePendingPairing
       \/ member = "reset" /\ ResetEnrollment
       \/ member = "cancel" /\ CancelPendingPairing
    /\ UNCHANGED <<workerVars, platformVars, systemdVars>>

(* StartUnit is refused while a stop is under way. *)
start_remoted ==
    /\ Due("start")
    /\ \/ /\ remoted = "active"
          /\ Advances
          /\ UNCHANGED <<workerVars, systemdVars>>
       \/ /\ remoted = "inactive"
          /\ QueueRemoted
          /\ Waits
       \/ /\ remoted \in {"queued", "restarting"}
          /\ Waits
          /\ UNCHANGED <<workerVars, systemdVars>>
    /\ UNCHANGED authVars

start_done ==
    /\ On("start") /\ waiting = "yes"
    /\ remoted = "active"
    /\ Advances
    /\ UNCHANGED <<workerVars, systemdVars, authVars>>

(* REMOTED_TIMEOUT: a start whose conditions failed leaves the unit inactive, *)
(* which the poll takes for not yet started.                                  *)
start_timeout ==
    /\ On("start") /\ waiting = "yes"
    /\ Returns("error")
    /\ UNCHANGED <<workerVars, systemdVars, authVars>>

(* A start job that is still queued shows as inactive, and is not cancelled. *)
stop_remoted ==
    /\ Due("stop")
    /\ \/ /\ remoted \in {"inactive", "queued"}
          /\ Advances
          /\ UNCHANGED remoted
       \/ /\ remoted \in {"active", "restarting", "stopping"}
          /\ remoted' = "stopping"
          /\ Waits
    /\ UNCHANGED <<workerVars, phase, cmdline, boot_unit, serving, authVars>>

stop_done ==
    /\ On("stop") /\ waiting = "yes"
    /\ remoted = "inactive"
    /\ Advances
    /\ UNCHANGED <<workerVars, systemdVars, authVars>>

stop_timeout ==
    /\ On("stop") /\ waiting = "yes"
    /\ remoted # "inactive"
    /\ Returns("error")
    /\ UNCHANGED <<workerVars, systemdVars, authVars>>

(* enrollment: the network (NetworkObservation has it), ...                  *)
enrollment_network ==
    /\ Due("network")
    /\ Advances
    /\ UNCHANGED <<workerVars, systemdVars, authVars>>

Reads(result) ==
    /\ shown' = result
    /\ at' = at + 1
    /\ UNCHANGED <<workerVars, systemdVars, authVars, call, waiting, saw, reply>>

(* ... the fingerprint of the current identity, if there is one, ...         *)
fingerprint ==
    /\ Due("fingerprint")
    /\ visible.link = NoGeneration \/ Complete(visible)
    /\ Reads([shown EXCEPT !.fingerprint = visible.link])

(* ... and the pairing.  A fingerprint or code that is not valid is StepFails. *)
pending_pairing ==
    /\ Due("pairing")
    /\ Reads([shown EXCEPT !.code = pairing])

show ==
    /\ Due("show")
    /\ Returns("ok")
    /\ UNCHANGED <<workerVars, systemdVars, authVars>>

-----------------------------------------------------------------------------

(* The boot reset has committed its marker and is about to destroy. *)
ResetBegins == wpc["boot_reset"] # "unlink_current" /\ wpc'["boot_reset"] = "unlink_current"
Succeeds(method) == call = method /\ call' = "none" /\ reply' = "ok"
Called(method) == call = "none" /\ call' = method
SyncFails(u) == wpc[u] \in {"sync_create", "sync_unlink"} /\ outcome'[u] = "failed"

HistoryStep ==
    LET gone == (IF account' = "none" THEN {Account} ELSE {})
                  \cup (IF pairing' = "none" THEN {Code} ELSE {})
    IN
    /\ before' = CASE call' # "reenroll" -> {}
                   [] Called("reenroll") -> Existing
                   [] OTHER -> before \ gone
    /\ condemned' = (condemned \cup (IF Succeeds("reenroll") THEN before ELSE {})
                               \cup (IF ResetBegins THEN Existing ELSE {})) \ gone
    /\ torn' = /\ phase' # "off" /\ durable'.root = durable.root
               /\ torn \/ \E u \in Units : SyncFails(u)
    /\ admin' = CASE Succeeds("enable") -> IF torn THEN "on, torn" ELSE "on"
                  [] Succeeds("disable") -> IF torn THEN "off, torn" ELSE "off"
                  [] Called("enable") \/ Called("disable") -> "unknown"
                  [] OTHER -> admin
    /\ moments' = IF call' # "enrollment" THEN {}
                  ELSE moments \cup (IF pairing' = "pending" THEN {visible'.link} ELSE {})
    /\ issued' = /\ call = "enrollment" /\ call' = "enrollment"
                 /\ issued \/ (pairing = "none" /\ pairing' = "pending")

(* One side goes on while the other assumes it has stopped. *)
Overrun ==
    \/ worker_timeout
    \/ start_timeout /\ boot_unit = "running"
    \/ BootResetRetried
    \/ remoted = "queued" /\ \E method \in Methods \ {"enrollment"} : Call(method)

Init ==
    /\ WorkerInit
    /\ phase = "off" /\ cmdline = "none" /\ boot_unit = "idle"
    /\ remoted = "inactive" /\ serving = NoGeneration
    /\ call = "none" /\ at = 1 /\ waiting = "no" /\ saw = {} /\ reply = "none"
    /\ shown = NothingShown
    /\ account = "none" /\ pairing = "none" /\ late = NoneLate
    /\ overruns = 0
    /\ torn = FALSE /\ admin = "unknown" /\ before = {} /\ condemned = {}
    /\ moments = {} /\ issued = FALSE

PlatformStep ==
    \/ StepFails \/ skip \/ check_reset \/ read_marker
    \/ run_worker \/ worker_ended \/ auth
    \/ start_remoted \/ start_done \/ (start_timeout /\ boot_unit # "running")
    \/ stop_remoted \/ stop_done \/ stop_timeout
    \/ enrollment_network \/ fingerprint \/ pending_pairing \/ show

SystemdStep ==
    \/ PlatformUp \/ BootUnitSettles \/ RemotedStarts \/ RemotedStops

Environment ==
    \/ Enroll \/ Expire \/ Boot \/ RemotedExits \/ Crash
    \/ Writeback /\ UNCHANGED <<platformVars, systemdVars, authVars>>

Next ==
    /\ \/ /\ \/ \E method \in Methods :
                (remoted # "queued" \/ method = "enrollment") /\ Call(method)
             \/ PlatformStep
             \/ \E u \in Units : WorkerRuns(u)
             \/ WorkerResets
             \/ SystemdStep
             \/ Environment
          /\ late' = IF phase' = "off" THEN NoneLate ELSE late
          /\ UNCHANGED overruns
       \/ /\ \E member \in Members : LateCall(member)
          /\ UNCHANGED overruns
       \/ /\ overruns < OVERRUNS
          /\ overruns' = overruns + 1
          /\ \/ Overrun /\ UNCHANGED late
             \/ \E member \in Members : auth_timeout(member)
    /\ HistoryStep

Spec == Init /\ [][Next]_vars

-----------------------------------------------------------------------------

(* Every variable has its type. *)
TypeOK ==
    /\ WorkerTypeOK
    /\ phase \in {"off", "booting", "up"}
    /\ cmdline \in {"none", "reset"}
    /\ boot_unit \in {"idle", "running", "done", "failed"}
    /\ remoted \in {"inactive", "queued", "active", "stopping", "restarting"}
    /\ serving \in Generations \cup {NoGeneration}
    /\ call \in Methods \cup {"none"}
    /\ at \in 1 .. 8
    /\ waiting \in {"no", "yes"}
    /\ saw \in SUBSET {Enabled, ResetPending}
    /\ shown \in [fingerprint : Generations \cup {NoGeneration}, code : {"none", "pending"}]
    /\ reply \in {"none", "ok", "error"}
    /\ overruns \in 0 .. OVERRUNS
    /\ account \in {"none", "enrolled"}
    /\ pairing \in {"none", "pending"}
    /\ late \in [Members -> Nat]
    /\ torn \in BOOLEAN
    /\ admin \in {"unknown", "on", "off", "on, torn", "off, torn"}
    /\ before \in SUBSET (Generations \cup Credentials)
    /\ condemned \in SUBSET (Generations \cup Credentials)
    /\ moments \in SUBSET (Generations \cup {NoGeneration})
    /\ issued \in BOOLEAN

(* tls/current, on disk and as processes see it, never names a generation    *)
(* that is missing or only partly written, whatever failed and wherever the  *)
(* machine crashed (worker.rs: generate_identity before swap_current before  *)
(* remove_unreferenced_generations).                                         *)
NoPartialIdentity ==
    /\ visible.link = NoGeneration \/ Complete(visible)
    /\ durable.link = NoGeneration \/ Complete(durable)

(* A reset that was once committed holds: sl-remoted never serves again a    *)
(* generation, or with an operator account or a pairing, that existed when   *)
(* the boot reset committed reset-pending or when a Reenroll was called that *)
(* succeeded, in this boot or any later one.                                 *)
RevokedNeverServed ==
    serving # NoGeneration => condemned \cap ({serving} \cup Credentials) = {}

(* sl-remoted does not run while reset-pending exists. *)
SilentWhileResetPending ==
    marker_exists(ResetPending) => serving = NoGeneration

DisabledForGood == Enabled \notin visible.root \cup durable.root /\ serving = NoGeneration
EnabledForGood == Enabled \in visible.root \cap durable.root

(* What the operator was last told holds: after a Disable that succeeded the *)
(* machine is disabled, sl-remoted is down, and neither a crash, a boot nor  *)
(* a Reenroll brings it back; after such an Enable it stays enabled.  The    *)
(* method after a marker's failed fsync is left out (worker.rs: rename, then *)
(* fsync, then the answer).                                                  *)
AnswerHolds ==
    /\ admin = "off" => DisabledForGood
    /\ admin = "on" => EnabledForGood

(* A worker fails only when an operation of its own run failed: what earlier *)
(* runs and crashes left behind never makes one fail, so a retry converges.  *)
RetryConverges == \A u \in Units : outcome[u] \notin {"invalid", "collision"}

(* When Reenroll succeeds, the account, the pairing and every generation it  *)
(* found are gone, a new complete identity is durable and no reset is        *)
(* pending, on disk either unless a marker's fsync failed before.            *)
ReenrollRepairs ==
    [][Succeeds("reenroll") =>
         /\ before \cap (Credentials \cup visible.gens \cup durable.gens) = {}
         /\ Complete(durable) /\ durable.link = visible.link
         /\ ResetPending \notin visible.root
         /\ ~torn => ResetPending \notin durable.root]_vars

(* docs/platform-api-0.3.md: "The permit is used so the result is never a    *)
(* mixture from before and after a concurrent mutation."  A fingerprint that *)
(* is shown with a pairing code was the current one at a moment of the call  *)
(* when that pairing was pending, also while a worker that outlived its      *)
(* method, or the boot reset, replaces the identity (remote.rs: the          *)
(* fingerprint is read before the pairing).  The exception takes two waits   *)
(* that were given up: a pairing that sl-authd issues late, during the call, *)
(* beside a worker that replaces the identity.                               *)
ShownTogether ==
    On("show") /\ shown.code = "pending" =>
        shown.fingerprint \in moments \/ (issued /\ overruns > 1)
=============================================================================
