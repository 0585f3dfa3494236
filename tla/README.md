# A TLA+ verification project for SignalLayer CoreOS

SignalLayer CoreOS is an image-based appliance operating system. A handful of
small Rust daemons manage one machine: they stage and activate updates through
`bootc`, switch a local web service ("remote management") on and off, keep the
one operator account, and offer a console on the machine's terminals. Most of
what can go wrong is not in one function but between two of them: a timeout
that returns while systemd goes on, a power loss between a rename and its
fsync, a network notification that cancels a request whose answer is already
under way somewhere else.

This directory holds TLA+ models of those daemons, TLC configurations that
check them, and TLAPS proofs about all of them: the account machine and the service
around it, the life of remote management with its worker, the deployments, the
observation of the network, the controller, the connections, the consoles and the web
sessions. Every invariant and action property that a run checks is also a theorem, apart
from those of the two runs that expect a violation; of the lifecycle most hold up to the
first wait that is given up, as in the run. Paths in this file are relative to the repository (`src/` in `PROJECT.json`). `PROJECT.json` maps every
definition to the lines it models and lists runs, mutants, findings, hazards and
theorems.

    tlc -workers 2 -config MCAuthCore.cfg MCAuthCore           # one run
    tlapm AuthCoreProofs.tla                                   # the proofs about it

## 1. Inventory

| part | state | operations | talks to |
|---|---|---|---|
| **sl-authd** (`authd/`) | `state.json` (unenrolled, provisional, enrolled, or unreadable); in memory a pending pairing, a note that an enrollment expired, backoff counters per scope | GetState, EnsurePendingPairing, CancelPendingPairing, ResetEnrollment, ConsumePairing, ConfirmRecoveryKey, VerifyPassword, RecoverPassword | called by platformd, remoted, console, the worker and sessiond |
| **Auth1 service** of sl-authd (`authd/src/service.rs`) | a counter of admitted operations, the lock around the account machine, and whether a panic poisoned it | admit, with_core, run, one handler per method above | its callers give up after their own deadlines |
| **sl-remote-worker** (`remote-worker/`, `crates/remote-state/`) | the state directory: markers `enabled` and `reset-pending`, TLS generations, the link `tls/current` | five modes, one per oneshot unit: enable, disable, rotate, clear-reset, boot-reset | run by systemd; boot-reset calls sl-authd |
| **sl-platformd**, remote part (`platformd/src/remote.rs`) | one permit | EnableRemoteManagement, DisableRemoteManagement, ReenrollRemoteManagement, GetRemoteManagementEnrollment | starts worker units and sl-remoted, calls sl-authd |
| **sl-platformd**, deployments (`platformd/src/main.rs`) | one permit | StartUpdate, StartRollback, StartReboot | systemd units, `bootc status` |
| **corectl** (`corectl/`, `crates/platform-client/`) | none | status, update, rollback, reboot; reboot has three exit codes | platformd |
| **sl-platformd**, status (`platformd/src/shared_read.rs`, `main.rs`) | one shared observation in flight | GetStatus | bootc, systemd, the network observer |
| **network observer** (`network-observer/`) | one permit | GetNetworkStatus | reads NetworkManager's properties one after the other; called by platformd |
| **sl-sessiond** (`sessiond/`) | none | GetPlatformStatus | platformd and sl-authd |
| **sl-remoted**, controller (`remoted/src/controller.rs`) | published view, listeners, the marker `/run/sl-remoted/listening`, a generation counter | run, apply, establish, withdraw, invalidate | Session1, rtnetlink, the bus |
| **sl-remoted**, server (`remoted/src/server.rs`) | a semaphore of 64 permits, one task per connection | accept_loop, serve_connection | reads what the controller publishes |
| **sl-remoted**, sessions and HTTP (`remoted/src/sessions.rs`, `http.rs`) | the session map | login, logout, status, pair, confirm, recover | sl-authd, Session1 |
| **sl-console** (`console/`) | per terminal: authenticated, last enrolled, reset incomplete | menu loop, authenticate, act, recover, refresh | Session1, Auth1, Platform1 |
| units and policy (`image/`) | | conditions, `Requires=`, `Restart=`, bus policy | |
| protocol crates, tools, management-lifecycle | no shared state, or not in the image | | |

What is hard here, by kind (each at its line under `hazards` in `PROJECT.json`):

* **Crash and power loss** between a rename and its directory fsync (authd's
  store, the worker's markers and link), and between the steps of a sequence.
* **Deadlines that end the wait, not the work.** Every wait of platformd has a
  deadline; the unit, the queued job, the shared observation, sl-authd's hashing
  and the called method all go on after it.
* **State read before an await and used after it**: the bootc state in
  StartRollback, the Boolean `enrolled` in the console, the clock in a session
  check, the network view that a refresh asked for, the fingerprint that is shown
  with a pairing code read after it, the addresses of a connection that is replaced
  while they are read.
* **Withdrawal that is synchronous but not atomic** to accept loops, connections
  and sl-sessiond.
* **Limits**: permits, admissions, session capacity, guess counts, backoff exponents,
  prefix lengths, two clocks of which one may be set.
* **Replies that are lost** when they carry the only copy of something: the recovery
  key, the word that a reboot was accepted.
* **Things that must come back**: permits, the slot of a shared observation, the
  prompt, the exposure after the network has settled.

## 2. Modules

| module | models | extends |
|---|---|---|
| `AuthCore` | sl-authd's `Core` and `Store` | |
| `OperatorAccount` | abstract specification: the account of the documentation's state table and what a power loss may undo | |
| `AuthCoreProofs` | the proofs about `AuthCore` | `AuthCore`, `TLAPS` |
| `RemoteWorker` | the five worker modes, file operation by file operation | |
| `AuthService` | the Auth1 service: admission, the lock, operations that outlive their caller, lost replies | |
| `AuthServiceProofs` | the proofs about `AuthService` | `AuthService`, `TLAPS` |
| `RemoteLifecycle` | platformd's four sequences, systemd, boot and crash, an abstract sl-authd, composed with the worker | `RemoteWorker` |
| `RemotedController` | the controller task, Session1 and platformd's shared observation | |
| `RemotedServer` | accept loops and connections against the steps of withdraw and establish | |
| `NetworkObservation` | NetworkManager, the network observer, platformd's shared observations and enrollment reads, and what sl-remoted makes of a status | |
| `DeploymentMutations` | StartUpdate, StartRollback, StartReboot, GetStatus, the workers, bootc, `corectl reboot` | |
| `PlatformProofs` | the proofs about `NetworkObservation` and `DeploymentMutations` | both, `TLAPS` |
| `Console` | the consoles of both terminals, against an account that others change | |
| `WebSessions` | the session map under concurrent requests | |
| `RemoteLifecycleProofs` | the proofs about `RemoteLifecycle` and the worker in it | `RemoteLifecycle`, `TLAPS` |
| `RemotedControllerProofs` | the proofs about `RemotedController` | `RemotedController`, `TLAPS` |
| `ConsoleProofs` | the proofs about `Console` | `Console`, `TLAPS` |
| `RemotedServerProofs` | the proofs about `RemotedServer` | `RemotedServer`, `TLAPS` |
| `WebSessionsProofs` | the proofs about `WebSessions` | `WebSessions`, `TLAPS` |
| `MC*` | symmetry sets and function-valued constants for TLC; `AuthService`, `DeploymentMutations` and `Console` are instantiated by their cfgs directly | |

Definitions keep the names of the Rust functions they model. A definition whose comment
begins with "Mutant:" is the form a plausible bug would give the definition after it;
the mutants of `PROJECT.json` use them to show that the property of a run depends on
that code.

### AuthCore (`authd/src/machine.rs`, `authd/src/store.rs`)

Every method holds one mutex from `prepare()` to its reply, so there is one `pc`.
A method without hashing is one action. A method that hashes is two or three
(`..._begins`, `..._ends`), and time may pass between them: that is where the
confirmation window can close during the hash of the key (`machine.rs:370`).
`prepare` discards an expired provisional enrollment first, with a write that may
fail. A failed hash and failed randomness are `hash_fails` and the refusals.

`commit` has three outcomes, as `Store::write` has: durable; failed before the
rename, with the old file left; failed after it, with the new file visible, its
durability unknown, and memory set to `Invalid` so that everything but a reset is
refused. `disk` is what a reader finds, `durable` what a power loss is certain to
leave; a power loss leaves either, and `Writeback`, the kernel's own, may make the visible
file durable at any time. A power loss during a write may leave its temporary, which
`Store::open` removes. `StepWall` sets the wall clock to anything,
`Tick` advances the boot clock; both also pass while the machine is down.

Abstractions: a hash is the secret it is the hash of; a random draw is fresh; an
argument over its bound or not well formed is `Garbage`; `expires_at`, which is
only displayed, is not kept; that a password equals the pairing code is not
modelled because a code has 8 or 9 characters and a password at least 12.
`U32_MAX` is a small number at which the counter saturates. `drawn`, `promised`,
`confirmed`, `wrong` and `failed` are history that no action reads (the first only makes
draws fresh). `failed` has for each scope when its last failure that was timed happened
and the wait that followed from it, doubled for each failure, the untimed ones included,
up to the cap; it is kept apart from what `record_failure` stores, so that a failure the
code forgets to store, or to time, shows.

### AuthService (`authd/src/service.rs`; the callers in `remoted/src/http.rs`, `peers.rs`, `platformd/src/remote.rs`)

A request is a record: its method, how far it is (asking the bus for the caller's uid,
queued for the lock on a blocking thread, done but still owning its permit), whether
platformd still waits for it, whether it owns an admission, and the key in it. `admit`
counts up before anything else and refuses at the limit; `drop` counts down wherever
the code drops a `Permit`: in the closure, and in the handler when the sender has left
the bus. The lock is not fair: `with_core` may serve any waiter, and reads the account
only then. `panics` leaves the account before or after the commit and poisons the
lock, after which every method is `Unavailable` until the process is restarted. A reply
that arrives is an element of `told`; one that finds nobody is not.

An operation is one step here, with three outcomes: it succeeds, it fails without a
trace, or it fails although its write is visible. `AuthCore` has its parts, and the
backoff and the clocks. Keys are numbered as they are drawn, `KEYS` bounds them; a
pairing code is right or wrong when it is used. `quiet` ends the calls, so that draining
can be stated.

### RemoteWorker and RemoteLifecycle (`remote-worker/src`, `crates/remote-state`, `platformd/src/remote.rs`, the units)

The worker is a program of file operations: temporaries removed, marker created
and renamed, directory synced, generation made and filled, link swapped, the
other generations removed. Any of them may fail, and `Crash` may come between any
two. `visible` and `durable` are two copies of the directory; an fsync copies one
to the other and `Writeback` may do so at any time, in order. With
`FSYNC = "may fail"` an fsync of a directory can fail after its change is visible.

A method of platformd is a sequence of steps (`Sequence`), each of which is issued and
then awaited (`waiting`), may fail, and has a deadline. A caller that finds the permit
taken gets Busy and changes nothing. systemd is modelled from how the code uses it:
queued and running jobs, `Requires=sl-rm-boot-reset.service` of sl-remoted, the
conditions of its start, `Restart=on-failure`, the restart of the boot reset when a
console starts. sl-authd is a few atomic calls whose answer may be lost. `AUTH_TIMEOUT`
ends the wait and not the call: `auth_timeout` leaves it in `late`, from where `LateCall`
may take effect at any later time until the machine goes down. That is an overrun, of a
method as of the boot reset. `torn`
(history) holds from a failed fsync of a marker until the root directory has been synced
again, and `admin` is the last answer about the administrative state, marked when it was
given while `torn`. `OVERRUNS` bounds how often a wait is given up while what it waits
for still runs; a crash of platformd alone is the same thing to the rest of the system.

GetRemoteManagementEnrollment is the fourth sequence: the network, the fingerprint that
`tls/current` leads to, the pairing. It changes nothing and `shown` is what it has read;
`moments` (history) is what `tls/current` named during the call whenever a pairing was
pending, and `issued` that a pairing became pending during it. What it reads of the network is in `NetworkObservation`.

`before` and `condemned` (history) are what a Reenroll found when it was called, and what
was revoked: generations, the account and the pairing code. A draw of a code makes a new
one, so a code that is drawn again is not the one that was revoked. A temporary or a link
that another run left makes the worker end with a collision; its error path tries to
remove it, which may fail too.

Not modelled: systemd's start limit of sl-remoted, file modes and ownership, the
`openssl` calls (one step, `fill`).

Seen while exploring with `OVERRUNS = 1`, and why most properties are in the run
without: a queued start job shows as inactive, so `stop_remoted` has nothing
to stop and the job runs after the method returned; an enable worker that outlived
its method enables again after a later Disable; a boot reset retried at run time
beside an enable worker lets sl-remoted serve what the reset was to revoke; a late
EnsurePendingPairing leaves a code after a Disable.

### RemotedController (`remoted/src/controller.rs`, `netlink.rs`, `network.rs`, `peers.rs`, `platformd/src/shared_read.rs`)

`run` is two biased selects: a notification always wins over a refresh. The phases
are idle (until `next`), fetching, debounce, exited. `establish` binds any subset of
the view's addresses, all of them unless the kernel may refuse some (`contended`, which
`AddressesChange` switches), and may fail to write the marker, in which case it withdraws.
`withdraw` removes the marker and ignores a failure to: the marker is then left behind.
`flight` is platformd's observation: the first caller starts it, the others join it,
and it goes on when they are gone. `ReportedLate` lets the network observer report a
change only some time after the kernel's notification. Time is in units of 10 s
(`RETRY`, 5 s, rounded up to one; the debounce is shorter than a unit), and does not
pass while the task has something to do. Views are model values with the addresses
they listen on; how a status becomes a view is in `NetworkObservation`.
`early` and `outdated` are history.

### NetworkObservation (`network-observer/src/main.rs`, `platformd/src/shared_read.rs`, `platformd/src/remote.rs`, `remoted/src/network.rs`)

The observer reads the primary connection, its device, its IPv4 and its IPv6
configuration, one action each, under one permit; NetworkManager may replace the
connection or its addresses between any two. The objects of a connection that was replaced
may be gone or may still be there: the reads go by path, and either fail or give any of
the configurations of that connection (`Readable`). A second
caller finds the observer Busy. `slot` is `SharedRead::in_flight`: a status call joins
the observation in it or starts one, an observation empties it when it publishes and
again when it is dropped, and only if it is its own. Enrollment reads of the console
do not share. Whoever stops waiting leaves the observer reading.

An address is a family, its bits and a prefix length, with `V4_WIDTH` bits for one
family and one more for the other, whose upper half holds the mapped addresses. `mask`,
`contains`, `canonical`, `eligible`, `enrollment_url` and `view_from_status` compute on
them as the code does on 32 and 128 bits; the checks against leading bits in
`UrlIsServed` are the reference. `pow2` is a recursive function, so that the proofs can
reason about it. A source that is an IPv4-mapped address is compared as the
IPv4 address it stands for, while the prefix of an interface with such an address stays one
of the other family (`remoted/src/network.rs:111-121`); `UrlIsServed` states that exception.
The order of addresses as text, which decides
between several of one family, is left open. Left out: the state number, the interface
name and the gateways.

### RemotedServer (`remoted/src/server.rs`, `controller.rs`)

`withdraw` and `establish` are sequences of steps (remove the marker, clear
`current`, raise the generation, abort the loops; bind, publish, create the marker),
and the connections' steps interleave with each: `accept` in a loop that may be
aborted but still finishes the step between two awaits, `check_admits`,
`try_acquire` with the spawn, `subscribe` (the first poll, which compares the
generation again), the work, and `changes`. A marker that could not be removed is left
behind. `MAX_GENERATION` bounds the number of
withdrawals.

### DeploymentMutations (`platformd/src/main.rs`, `corectl/src/main.rs`, `crates/platform-client/src/lib.rs`)

A start method holds the permit over its observations, one action each, then over
`start_worker`, which reads the unit's ActiveState and InvocationID, calls StartUnit
(`start_unit`, an await later: a late job may have begun between) and polls until the unit
is active, its InvocationID is another (`ran`) or three seconds are over. A queued job leaves the unit's ActiveState inactive. `bootc` is
external: an update stages, `bootc rollback` toggles the order of the two
deployments, and a boot applies what is staged or selected. `GetStatus` takes no
permit and is three readings. The specification is called `DeploymentSpec`, with its parts
named alike, so that `PlatformProofs` can extend this module beside the other one. The three seconds may be over while the job is still
queued; the history variable `late` remembers until the next boot that this happened,
because the checks of the later methods cannot see such a job. A unit is idle, queued or
running; whether the last run of an idle one failed matters only to the status, where it
is a choice when bootc has been read. `status` is the observation under way and the
report it has made so far.

`corectl reboot` is one of the callers: it asks, and the reply, the bus in place of a
daemon that has gone, tells it accepted or failed; when its own deadline passes or the
connection closes it exits with "outcome unknown" and knows nothing more. `job` is
history: what became of the reboot it asked for.

### Console (`console/src/lib.rs`, `console/src/main.rs`)

One process per terminal. `Controller`'s fields are `ctl`; the menu loop and the awaits
inside the controller are places of `pc`. An operator is a number no later enrollment
has again, which the code never sees: it sees one Boolean. A lifecycle sequence runs at
platformd (`sequence`) and may outlive its console's deadline. A view's fields are the
controller's fields, so the menu is the place `menu`. Killing the process is the same as
`read_line` failing: it starts over. The code is none, pending or shown; its expiry
belongs to `AuthCore`. Every connection begins with `BusBackend::connect`; when it fails,
the loop of `main` says so and tries again (`retry`) without a prompt and without a
deadline. The secret prompts are places of their own, which somebody has to leave by
typing (`read_secret`). A Disable that fails may have cancelled the code or not. A boot
reset at run time belongs to `RemoteLifecycle`.

### WebSessions (`remoted/src/sessions.rs`, `http.rs`)

A request is a task: login (waits for sl-authd, reads the clock, takes the lock and
inserts), status (reads the clock, takes the lock and checks, waits for Session1),
logout. Another task may come between the clock and the lock. A dropped connection
ends its task at an await. A clock that cannot be read refuses a status request and
leaves the session (`validate_unreadable`). `since`, `born` and `used` are history: when
the request arrived, the session was inserted and last accepted, in the time of the clock
and not as the requests read it. Identifiers have 256 random bits and are never drawn
twice. Requests that the host, origin, type or size checks refuse change nothing and
have no action. The fields of a removed entry are forgotten.

## 3. Runs

Every property of a passing run has a mutant that violates it under the same cfg. Each
module states its types as `TypeOK` (or `DeploymentTypeOK`); all of them are proved (section 4), and any can be
checked by adding it as an `INVARIANT` to a cfg, where all hold.

| run | question | distinct states |
|---|---|---|
| `account` | the account machine with failed writes, restarts, power losses, clock steps, expiry and wrong secrets; also that it implements `OperatorAccount` | 864 k |
| `service` | the Auth1 service with callers that give up, senders that leave the bus, panics and a restart | 270 k |
| `remote_lifecycle` | a failure (fsyncs included) or crash at every step of every sequence | 1.17 M |
| `remote_permit` | one overrun, of a worker, a start job or a call of sl-authd: a pending reset still silences sl-remoted, and the console shows a fingerprint and a code that belong together | 1.3 M |
| `observation` | the observer's one permit between status calls and the console, while the network changes | 265 k |
| `controller` | exposure against notifications, failures and shared observations | 668 k |
| `server` | connections against withdrawals | 52 k |
| `deployment` | the three start methods, GetStatus and corectl reboot, with jobs that begin in time or late | 478 k |
| `console` | two consoles, calls that outlive their deadline | 326 k |
| `sessions` | the session map | 2.6 M |

What they show, beyond types:

* **Account.** Memory never disagrees with the visible file (`MemoryMatchesDisk`); what
  was answered as done survives every failure (`PromiseKept`); nobody is finally
  enrolled without presenting the key inside the window (`OnlyConfirmedKeysEnroll`),
  also when the window closes during the hash; a code takes at most `PAIRING_ATTEMPTS`
  wrong guesses over its whole life (`GuessBudget`); no secret is
  looked at before the wait since the scope's last failure is over (`FailuresCostTime`), and
  failures are forgiven only by the
  secret of their own scope (`ForgivenOnlyByOwnSecret`); the file implements
  `OperatorAccount`.
* **Service.** The counter is the number of operations that own an admission, and never
  past the limit, whichever way each of them ends (`AdmissionBalances`); nobody is
  enrolled with a recovery key that was not delivered, although the reply that carries
  it may be lost and the operation commits all the same (`EnrolledKeyWasTold`); when the
  calls stop every admission is given back, also after a panic (`DrainsWhenQuiet`).
* **Lifecycle.** The link never names a partial identity; what a committed reset revoked
  is never served again; sl-remoted is silent while a reset is pending; what Enable and
  Disable answered survives every power loss (`AnswerHolds`), except for an answer given
  after the fsync of a marker failed; nothing an earlier run left behind makes a retry
  fail; a Reenroll that succeeds has left nothing it found, neither account nor code nor
  any generation, on disk either. A fingerprint that is shown with a pairing code was
  current while that pairing was pending, also beside a worker or a call of sl-authd that
  nobody waits for any more (`ShownTogether`), unless two waits were given up.
* **Network.** Status calls never find the observer busy with another live status call
  (`NeverRefuseEachOther`); an observation that fails, panics or is left alone keeps
  neither the slot nor its callers (`FlightsEnd`); the URL on the console is an address
  of the connection it was read for, and one that sl-remoted listens on, and the peers
  sl-remoted lets in are exactly those whose leading bits match (`UrlIsServed`).
* **Exposure.** Marker, listeners and eligibility stand and fall together
  (`ExposureIsOne`); nothing asked for before a notification is in force once the
  notification is consumed (`AskedAfterNotification`); a view is withdrawn at most one
  retry and one refresh after it became stale (`BoundedStaleness`); exposure converges
  to the network, and to all addresses of it once the kernel refuses none (`Converges`).
* **Connections.** Permits balance; only on-link sources of the view of their own
  listener are served; a withdrawal leaves no connection of an earlier generation.
* **Deployments.** Until a job outlives its request, the two workers exclude each other,
  the next boot has one choice, a rollback never discards a staged update and a reboot
  begins only when nothing runs. What `corectl reboot` reports is true: after 0 a reboot
  was begun, after 1 none can come of this request unless platformd itself gave up on
  the job or went away (`RebootReportTrue`). Status never calls a worker idle that was
  busy all through the observation, and the permit comes back, in any case.
* **Console and sessions.** An unlocked console was unlocked by a check it has not
  forgotten; with a connection the prompt always comes back, and without one it does if the
  bus takes a connection in the end. A request that arrives after a limit of its session is
  refused, in the time of the clock: acceptance past a limit is late by no more than that
  request's own delay, and stale readings do not add up (`LimitsHold`); a logout is final;
  only the oldest session is evicted.

### Where the code and a document disagree

Two runs expect a violation. Each checks one sentence of a document; the quote and
the explanation are under `findings`.

| run | sentence | what TLC shows |
|---|---|---|
| `repeated_rollback` | rollback is rejected when already queued | bootc is read before the rollback unit; the first rollback ends in between |
| `other_operator` | "lifecycle actions require a successful Auth1 password check" | the check was the previous operator's: the account was reset and enrolled again between two status reads of the console |

More were seen while modelling and have no run of their own. Where a formula is given,
it can be reproduced by adding it to the module and checking it.

* `docs/platform-api-0.3.md:300`, "No failure leaves a partially written marker or TLS
  identity.": `NoPartialIdentity` fails with `OVERRUNS = 1`. `run_worker` gives up after
  `WORKER_TIMEOUT`, the unit goes on beside the next worker, and the link can be left
  naming a generation that the other one removed.
* `docs/platform-api-0.3.md:322`, "the on-disk marker is the truth, and a retry of the
  same method converges.": `admin \in {"on", "on, torn"} => EnabledForGood` fails in
  `RemoteLifecycle`. `create_marker` returns at once when the marker is there, also when
  the fsync after its rename had failed, so that a power loss undoes an acknowledged Enable.
* `docs/platform-api-0.3.md:236-237`, "the result is never a mixture from before and after a
  concurrent mutation": `ShownTogether` without its last disjunct fails with
  `OVERRUNS = 2`. A late EnsurePendingPairing takes effect between the two reads while a
  late worker, or the boot reset, has replaced the identity: the old fingerprint is shown
  with a code that was never pending beside it.
* `docs/platform-api-0.3.md:290`, row 3 of the Reenroll matrix (a failed reset of sl-authd
  leaves the account unchanged): the ten seconds platformd waits do not stop the reset,
  which may run later. In `RemoteLifecycle` this is `auth_timeout` followed by `LateCall`, in
  `AuthService` `GivesUp` followed by `with_core`.
* `docs/platform-api-0.3.md:294`, row 7 of the Reenroll matrix (a failed start leaves the
  new identity): the start of sl-remoted may run the boot reset, which removes it.
* `docs/authd-interface-0.0.3.md:200`, "A failed reset clears nothing.": in `AuthCore`,
  `[][reset_enrollment /\ reply' = "Unavailable" => UNCHANGED <<pairing, backoff>>]_vars`
  fails. A write that fails after its rename has dropped the pairing.
* `docs/remote-api-0.0.3.md:67-69`, a view is stale after 120 s and then withdrawn: in
  `RemotedController`, `shared # NoView => age <= STALE_AFTER` fails. Staleness is only
  looked at when a refresh fails; `BoundedStaleness` states the bound that holds.
* `remoted/src/controller.rs:274-275`, a dropped refresh's "result can never be
  published": `"shared" \in outdated => events # "none"` fails, since the next refresh
  joins the observation the dropped one had started. `OutdatedNotRenewed` and
  `Converges` state what holds.
* `docs/rollback.md:18-20`, rollback is rejected while an update worker is active:
  `RollbackSparesUpdate` without its `~late` fails. An update job that was queued when
  its request gave up runs beside the rollback.
* `docs/management-plane-0.0.2.md:287`, exit code 1 of `corectl reboot` "means rejected or
  an error" and 3 that "the system may be rebooting": in `DeploymentMutations`,
  `corectl = "failed" => job = "none"` fails. platformd gave up on a job it had handed
  over, or went away, and the job runs.
* `docs/local-console-0.0.3.md:24-25`, `ResetIncomplete` is displayed as a distinct repair
  state: in `Console`, `\A c \in Consoles : pc[c] = "menu" => ~ctl[c].reset_incomplete`
  is an invariant. The status read before the menu always clears it.
* `docs/platform-status.md:53`, concurrent status calls "receive `Busy`": they share one
  observation (`docs/platform-api-0.3.md:375`). The older document was not updated.
* A network with a /0 prefix: platformd makes a URL from it, and `view_from_status`
  refuses the whole status, so that sl-remoted serves nobody there. No document says
  which of the two is meant; `UrlIsServed` names the case.

### Bounds

* `account`: two codes and two keys, so that an account can be replaced by another and
  an old key be tried on the new one. Windows of one tick and two values of each clock:
  a deadline is before, at and after the wall clock, and the clock steps back across it.
  Two attempts per code. A backoff threshold of 1, a cap of 2 and a counter that saturates at
  2, so that counts below, at and past the threshold, the cap and the saturation occur, with
  waits of one tick, which pass, and of two, which only a restart ends.
  One uid beside the recovery and confirmation scopes, so that the success of one scope
  can be seen to leave the others alone.
* `service`: three requests for two admissions, so that one is refused at the limit while
  two wait; two keys, so that a key of an earlier enrollment can meet a later one.
* `remote_lifecycle`, `remote_permit`: two generations, the one in use and the one a
  rotation makes, or the one a failed rotation left and its retry's. When the names are
  used up a worker that needs one fails, which it may do anyway. One overrun is enough
  for two actors on one directory, and for a late call of sl-authd beside a method. `remote_permit` has
  a `VIEW` of what can make a difference to its two properties (`Relevant` in
  `MCRemoteLifecycle`, which says what it leaves out and why).
* `observation`: three callers and two observations, so that one can end while the next
  is under way and a caller waits for each; two connections, with both families, a host
  route, a link-local address of each family, a loopback, a mapped address, a /0 prefix, and
  more addresses than platformd accepts; three and four bits, so that every possible peer is looked at.
* `controller`: the constants are the code's, in units of 10 s. Three views (two with
  different addresses, one with none), of which an address may be refused.
* `server`: two connections for one permit, three withdrawals: a connection can be two
  generations late.
* `console`: two consoles and one operator, who may be reset; `other_operator` has a
  second one to come after.
* `sessions`: capacity 2, three logins, limits 2 and 3 with a clock to 3: eviction, both
  expiries, and two tasks at every pair of stages.

`SYMMETRY` (codes, keys, generations, tasks) is used only in runs without a liveness
property, and on sets whose members the specification never tells apart.

### Fairness

No run assumes that an operator, a peer or the network does anything.

* `AuthService`: the bus answers, blocking threads run, a free lock goes to some waiter
  and an operation ends (hashing has no unbounded wait). Which waiter is left open.
* `NetworkObservation`: every await of an observation has a deadline, and the task it was
  spawned as is polled. The observer and NetworkManager need not answer.
* `RemotedController`: the task is polled, the clock advances, an observation ends at
  platformd's own deadline. Session1 need not answer: the refresh has its own timeout.
  `Converges` assumes in its premise that the network settles and Session1 answers.
* `RemotedServer`: a spawned task is polled and `wait_for` wakes it. Clients need not
  finish.
* `DeploymentMutations`: each await of a method has a deadline. systemd need not run a
  job.
* `Console`: each call has a deadline (`READ_AUTH_TIMEOUT`, `LIFECYCLE_TIMEOUT`,
  `REENROLL_TIMEOUT`), as has each step of a sequence; the fairness is on the program's own
  steps only. `connect` has no deadline and may fail for ever: `ConsoleAnswers` takes a bus
  that accepts in the end as its premise. Nobody has to type, at the menu or at a secret
  prompt, both of which count as prompts.

## 4. Proofs

Eight modules hold proofs. Each theorem is for every value of the constants, from the
assumptions named in the module it is about:

* `AuthCore`: `ConstantsAssumption`, `InputsAssumption`, `BackoffAssumption` (the counter
  saturates only where the delay is at its cap, and the cap is no more than 2^10, where
  `backoff_delay` cuts the exponent off: 900 s in `machine.rs`); `AuthService`: `RequestsAssumption`,
  `AdmittedAssumption`, `KeysAssumption`;
* `RemoteWorker`: `GenerationsAssumption`, `FsyncAssumption`; `RemoteLifecycle`:
  `OverrunsAssumption`, `AccountAssumption`;
* `NetworkObservation`: `FlightsAssumption`, `ConnectionsAssumption`, `ConfigsAssumption`,
  `WidthAssumption`;
  `DeploymentMutations` has no constants;
* `RemotedController`: `ViewsAssumption`, `ListenAssumption`, `TimesAssumption` and
  `LimitsAssumption`, the one that says more than a type: a retry comes no later than a
  reconciliation and that no later than a view becomes stale (5 s, 60 s and 120 s in
  `controller.rs`); without it a view would become stale before anyone looks;
* `RemotedServer`: `ConnsAssumption`, `ViewsAssumption`, `OnLinkAssumption`, `LimitAssumption`;
* `Console`: `ConsolesAssumption`, `OperatorAssumption`;
* `WebSessions`: `TimeoutsAssumption`, `SessionsAssumption`, `WebBoundsAssumption`,
  `NoIdAssumption`.

They say that limits are numbers, sets of connections and requests finite,
configurations sets of addresses and the null values distinct.

| theorem | property | module |
|---|---|---|
| `TypeCorrect`, `ServiceTyped`, `LifecycleTyped`, `ObservationTyped`, `DeploymentTyped`, `ControllerTyped`, `ServerTypes`, `ConsoleTyped`, `SessionTypes` | `TypeOK` (`DeploymentTypeOK`) | each |
| `FourStates` | `OneOfFourStates` (proved only) | `AuthCoreProofs` |
| `MemoryIsDisk` | `MemoryMatchesDisk` | |
| `CommitsAreDurable` | `PromiseKept` | |
| `NoLateEnrollment` | `OnlyConfirmedKeysEnroll` | |
| `PasswordRules` | `StoredPasswordsObeyRules` (proved only) | |
| `ExpiryIsReal` | `ExpiredMeansDiscarded` (proved only) | |
| `GuessesAreBounded` | `GuessBudget` | |
| `FailuresAreSlow` | `FailuresCostTime` | |
| `OnlyOwnSecretForgives` | `ForgivenOnlyByOwnSecret` | |
| `AccountRefined` | `ImplementsAccount`: the refinement of `OperatorAccount` | |
| `AdmissionAlwaysBalances` | `AdmissionBalances` | `AuthServiceProofs` |
| `NobodyLosesTheKey` | `EnrolledKeyWasTold` | |
| `ServiceRefinesOperator` | `ImplementsOperator`: the refinement of `OperatorAccount` (proved only) | |
| `SilentUnderReset` | `SilentWhileResetPending` | `RemoteLifecycleProofs` |
| `ConsoleShowsOnePair` | `ShownTogether`, with its exception for two overruns | |
| `IdentityAlwaysWhole` | `NoPartialIdentity`, until the first overrun | |
| `LeftoversNeverFail` | `RetryConverges`, until the first overrun | |
| `AnswersHold` | `AnswerHolds`, until the first overrun | |
| `RevokedStaysDown` | `RevokedNeverServed`, until the first overrun | |
| `ReenrollAlwaysRepairs` | `ReenrollRepairs`, without an overrun | |
| `StatusNeverRefused` | `NeverRefuseEachOther` | `PlatformProofs` |
| `UrlAlwaysServed` | `UrlIsServed` | |
| `NextBootHasOneChoice` | `OneChoiceForNextBoot` | |
| `RollbackAlwaysSparesUpdate` | `RollbackSparesUpdate` | |
| `RebootsOnlyWhenQuiet` | `RebootOnlyWhenQuiet` | |
| `RebootReportsTrue` | `RebootReportTrue` | |
| `IdleWasAlwaysTrue` | `IdleWasTrue` | |
| `ExposureStaysOne` | `ExposureIsOne` | `RemotedControllerProofs` |
| `NothingEarlyInForce` | `AskedAfterNotification` | |
| `StalenessIsBounded` | `BoundedStaleness` | |
| `OutdatedNeverRenewed` | `OutdatedNotRenewed` | |
| `PermitsAlwaysBalance` | `PermitsBalance` | `RemotedServerProofs` |
| `OnlyOnLinkServed` | `ServedOnLink` | |
| `MarkerIsHonest` | `MarkerMeansListening` (proved only) | |
| `WithdrawalIsComplete` | `NothingSurvivesWithdrawal` | |
| `ServiceIsCurrent` | `ServiceStartsCurrent` (proved only) | |
| `UnlockedOnlyByCheck` | `UnlockedByCheck` | `ConsoleProofs` |
| `OneOperatorAuthorises` | `AuthorisedByOperator`, up to the second enrollment | |
| `CapacityHolds` | `Capacity` (proved only) | `WebSessionsProofs` |
| `LogoutStaysFinal` | `LogoutIsFinal` | |
| `SessionsEndInTime` | `LimitsHold` | |
| `OnlyOldestEvicted` | `EvictsOldest` | |

**AuthCore.** None of the properties is inductive alone. The invariant has four layers.

1. `TypeInv` is `TypeOK` and `PlaceKnows`: what a method knows at each place because
   of the checks before its hash: at `enroll` the account is unenrolled and the
   password obeys the rules, at `finish` a provisional enrollment is there and its key
   was presented in time, and so on. It is needed because the write at the end of a
   method uses what was checked before the hash, and only the mutex keeps it true.
2. `Agreement` is `StoreInv` (memory, file, durable file and promise agree; every
   enrolled file has a confirmed key and lawful password) and `NoteInv` (the pairing,
   the note of an expiry and the reply fit the file). `PromiseKept` and
   `MemoryMatchesDisk` need each other: a failed write after the rename breaks the
   promise and must give up memory in the same step.

3. `CodeInv`: the count in the pending pairing is what its code has seen, the code is one
   that was drawn, and a code not drawn yet has seen nothing. So no code gets its budget
   twice.
4. `BackoffInv`: the stored count and time of each scope demand the wait that its history
   `failed` does (`Mirrors`), and where a method looks at a secret, the wait it checked
   before the hash (`Waited`) is still over. The doubling of the history and the shift in
   `backoff_delay` are different computations; that they agree for every threshold and cap,
   also past the saturation, is part of the proof. The counts are only touched under the
   mutex and the boot clock never goes back.

Each layer has one lemma per group of actions, and `commit` has one lemma per layer
that treats its three outcomes once for all methods. Every layer uses the first. The
refinement uses the first two: a step of the machine is a step of the account or leaves
the file as it is, and a power loss may undo only what was not yet answered.

**AuthService.** A request without a call owns no permit (`FreeOwnsNothing`), so the set
of owners grows or shrinks by the one request that moves, and the counter with it;
`HoldingChanges` is that fact about `Cardinality`, cited by every action. The key needs
`ConfirmsWhatWasTold`: a confirmation under way carries a key its caller was told, or a
wrong one. That survives any wait for the lock because nobody is ever made to forget a
key; with `ProvisionalHasKey` a wrong one cannot match. `KeysAreDrawn` keeps an old key
from being drawn again. The refinement of `OperatorAccount` is the same abstract account
that `AuthCore` implements, seen through the service: `Transition` lists how any step may
change the account, and each of them is a step of the state table or leaves what would be
read after a restart, since the pairing is in memory only. That a request was queued for
long does not matter because `with_core` reads the account when it has the lock. Passwords
are not told apart here, and every write is taken as safe; `AuthCore` has both.

**RemoteLifecycle.** The proofs are about the composition with the worker, for any set of
generations and both values of `FSYNC`. `Base` is the types together with systemd's
bookkeeping: which unit can be at which step, which job may be queued or running for which
step of which method. On it rest two theorems for any number of overruns. sl-remoted is
silent while a reset is pending because its start needs the boot reset to have ended and
whoever writes the marker has stopped it, or comes before it. What the console shows needs
`ReadInTime`: the moments recorded so far cover the fingerprint that was read, because the
pairing is read after it, unless a late call of sl-authd issued that pairing during the
read. Then `OnlyLate` helps: if that call was the only overrun, no worker is left over,
nothing replaces the identity during the read, and the fingerprint is still the current
one when the pairing appears. A second overrun takes that away, which is the exception in
`ShownTogether` (section 3 has the document it contradicts).

The other properties fail with one overrun (section 2), so their theorems are about the
states up to the first one: `overruns = 0 => P`, which is what the run `remote_lifecycle`
checks with `OVERRUNS = 0`. They come layer upon layer.

* `Undisturbed`: a process, or its result, belongs to the method that waits for it
  (`Alone`), and it finds the directory in order (`Ordered`): the link is whole, and each
  step of each mode knows what the steps before it have left. `NoPartialIdentity` and
  `RetryConverges` follow. `Alone` is what an overrun breaks.
* `Answered`: a crash leaves the markers that processes see, except for a fsync that failed
  or is still to come (`Settled`); what each worker and each method has reached at its step
  (`WorkersReached`, `MethodsReached`). `AnswerHolds` follows.
* `Revoked`: what was revoked, the pairing code included, is only still there under a
  pending reset, on disk as well (`HeldBack`); the generation a process is making was never revoked (`Unspoilt`); what the
  boot reset found is committed before it destroys anything and destroyed for good before
  the marker goes (`ResetPlaces`); and the same for each place of Enable and Reenroll.
  `RevokedNeverServed` and `ReenrollRepairs` follow.

Each layer was first checked by TLC as an invariant of `remote_lifecycle`. The action
lemmas say which fields of the directory and which places a step changes; the layers are
then proved from these effects, not from the actions' text.

**RemotedController.** `ExposureIsOne` is nearly inductive, since every change of exposure
passes through `withdraw`, after which a marker is absent or the one left behind. `NothingEarly` and `NothingOutdated` say that what a consumed
notification overtook is gone: consuming it withdraws and drops the refresh.
`AgeIsBounded` is a potential: in each phase one timer runs down while the age goes up, and
their sum stays below `STALE_AFTER + RETRY`, to which a refresh adds its own time.

**Console.** `UnlockedByCheck` needs `UnlockedSawOperator`: the status read locks a console
by comparing with what it saw last, so an unlocked console must have seen an operator; and
`CheckRemembered`, since the check is made one await before it counts.
`ActsAfterCheck` gives the theorem about one operator, and shows where two differ: the
check is somebody's, and only with one operator is it the same one.

**NetworkObservation.** `SlotIsTheirs`: an observation that has not published is the one
in the slot, so there is at most one of them. `AskerAsks`: the observer reads for a live
observation only while that one waits for it. A second observation can therefore begin
only when the first has published, and the observer cannot be reading for it. The first
part is what `same_channel` in `EndFlight::clear` is for. The URL is of one connection
because the reads after the first go by the path it gave, also when that connection was
replaced (`ReadingOwn`), and sl-remoted listens there because it excludes the same addresses as platformd
(`UrlIsOfItsConnection`).

`UrlAlwaysServed` adds who is let in, and that is about numbers: `mask` clears low bits by
subtraction, `contains` compares what is left, and `SameNetwork` compares the leading bits
one by one. For every width, that these agree is an induction over the number of bits
compared (`LeadingBits`): equality of the quotients by 2d and of the next bit is equality
of the quotients by d (`Halving`), and equal masked numbers are equal quotients (`Masked`).
The library's induction theorems take an operator as a parameter and cannot be
instantiated, so `SetInduction` states induction for a set of numbers instead, and is
proved from the least number outside it (`WFMin`). That the recursive function `pow2`
exists is proved in the same way, from its finite beginnings (`PowersExist`), and with it
that it doubles and is never 0. The code's `checked_shl` of a full width, for a /0
prefix, is the case of no leading bits.

**DeploymentMutations.** TLC visits every state of this module, which has no constants; the
proofs say why the properties hold. `MutationInv` has three parts that hold until a job
outlives its request. `QueuedIsAwaited`: a job in systemd's queue, which no observation
can see, is that of the method under way, because the permit is kept until the worker is
seen. `WorkersExclude`: one deployment worker at a time, and none beside what the other one
left for the next boot. `ObservedHolds`: what a method observed is still so when it uses
it. The last needs the first (a worker that did not run can only begin from the queue)
and the order of the observations (worker before bootc): an update that ends in between is
seen as staged. `Return` sets `late` exactly where it breaks the first part. `ReportInv`
follows the request of corectl: which method is its own, and what its job is at each step
of it; the report is then what the last step knew. `StatusInv` has for each reading what
it means for the moments so far: a worker found not running was idle at that moment or had
left something for the next boot; what it left is seen by the reading of bootc, unless it
went away again, and a rollback that is deselected ends its worker at the same moment.

**RemotedServer.** The invariant `Inv` says for each step of withdraw and establish what
is announced (`Announced`) and which loops accept (`Listening`), and for each connection
what the checks it has passed still mean (`Known`): its generation is not newer than the
one in force, older once the generation was raised, and once admitted its source is on
link in what was published under its generation. That last fact survives because a
generation is published under at most once: `Known` says that nobody carries the
generation that `publish` writes. The permits need `Cardinality` and are treated apart.

**WebSessions.** `InFlight` says that an identifier between its draw and its insertion is
in nobody else's hands, neither in the map nor logged out, and that no reading is from the
future; `Recorded` that the times in the map are never later than the history's. Without
the first a logout could race the insertion of its own session; the second is why a
`last_used` that is set back only ever shortens a session. A request reads the clock after
it arrived, so that what it accepts was within the limits at its arrival: all that is
left of a limit's excess is the request's own delay.

Only model-checked:

* Liveness (`DrainsWhenQuiet`, `FlightsEnd`, `Converges`, `WithdrawnConnectionsEnd`,
  `PermitComesBack`, `ConsoleAnswers`), which with `ENABLED` is outside the prover's reach.
* The lifecycle with overruns beyond `SilentWhileResetPending` and `ShownTogether`: the
  other properties do not hold there.

## 5. What is not modelled

* Argon2id, getrandom, TLS, `openssl`, `bootc`, systemd, NetworkManager and the D-Bus
  daemon: external; what the code relies on is an action or an input.
* The alphabets of codes and keys (`authd/src/codes.rs`), JSON, the release file, error
  texts, rendering: pure conversions that no property here is about.
* The argument checks of the `checked_interface` handlers: a call that fails them changes
  nothing.
* `corectl` status, update and rollback: one call whose reply is printed. Their calls are
  among those of `DeploymentMutations`.
* The data types and schema checks of the protocol crates.
* Release and root filesystem tools, SELinux and bus policy, the web page: build steps,
  static policy, browser code.
* `management-lifecycle/identity.py`: not in the image; planned.

## 6. Plan

Done, in this order: `AuthCore` with its proofs, `RemoteWorker` and `RemoteLifecycle`,
`RemotedController`, `RemotedServer`, `DeploymentMutations`, `Console`, `WebSessions`,
the proofs about `RemotedServer` and `WebSessions`, `AuthService`, the enrollment read in
`RemoteLifecycle`, `NetworkObservation`, `corectl reboot`, the proofs about
`AuthService` and `NetworkObservation`, and those about `RemotedController`, `Console` and
`RemoteLifecycle`, with the third and fourth layer and the refinement of `AuthCore`, the
bits of a prefix, the proofs about `DeploymentMutations` and the refinement of
`OperatorAccount` by `AuthService`; then the late calls of sl-authd, the clock of a session
check, failures against the time since the last one, addresses the kernel refuses, the
console's connection and the two awaits of `start_worker`.

Next, models:

1. `Codes`: parsing and formatting of codes and keys, against a reference over bounded
   alphabets.
2. `IdentityProvisioner`: the ordered edits of the account files and their recovery.
3. The late calls of sl-authd in `RemoteLifecycle` with the admission and the lock of
   `AuthService` around them.

Next, proofs:

1. `RemoteLifecycle`: which of the properties that an overrun breaks hold again after the
   next complete sequence or boot, and under which condition.
