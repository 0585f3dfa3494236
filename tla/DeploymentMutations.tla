------------------------ MODULE DeploymentMutations ------------------------
(***************************************************************************)
(* StartUpdate, StartRollback, StartReboot and GetStatus of sl-platformd   *)
(* (platformd/src/main.rs) over the fixed systemd workers and bootc.       *)
(*                                                                         *)
(* A start method holds the one mutation-start permit while it observes    *)
(* the workers and bootc, and until systemd has begun the worker or the    *)
(* 3 s of start_worker are over.  A queued job is not seen: the ActiveState *)
(* of its unit is still inactive or failed.  GetStatus takes no permit and *)
(* reads the workers and bootc one after the other.  One of the callers is *)
(* "corectl reboot", which reports what became of its request              *)
(* (corectl/src/main.rs, crates/platform-client/src/lib.rs).               *)
(***************************************************************************)
EXTENDS Naturals, FiniteSets

Units == {"update", "rollback", "reboot"}
Deployers == {"update", "rollback"}

VARIABLES
    unit,           \* unit[u]: "idle" (inactive or failed), "queued" or "running"
    staged,         \* bootc: an update is staged
    retained,       \* bootc: there is a deployment to roll back to
    rollbackQueued, \* bootc: the rollback is selected for the next boot
    method,         \* the unit the holder of the permit is to start, or "none"
    step,           \* what that method does next
    saw,            \* the workers it saw running
    ran,            \* its unit has begun a run since its InvocationID was read
    late,           \* history: since the last boot a job outlived its request
    corectl,        \* "corectl reboot": "asking", or what the reply told it
    ours,           \* the method under way is its request
    job,            \* history: what became of the reboot it asked for
    status,         \* the observation under way: [step, running, report]
    idle            \* history: workers idle, with nothing pending, at a moment of it

bootcVars == <<staged, retained, rollbackQueued>>
clientVars == <<corectl, ours, job>>
callVars == <<method, step, saw, ran, late, clientVars>>
statusVars == <<status, idle>>
deploymentVars == <<unit, bootcVars, callVars, statusVars>>

worker_running(u) == unit[u] = "running"
Running == {u \in Units : worker_running(u)}
NoReport == [state |-> "idle", reboot_required |-> FALSE]
NoStatus == [step |-> "none", running |-> {}, report |-> [u \in Deployers |-> NoReport]]

(* What the worker leaves for the next boot. *)
Pending(u) == CASE u = "update" -> staged [] u = "rollback" -> rollbackQueued [] OTHER -> FALSE

-----------------------------------------------------------------------------
(* The start methods. *)

Steps == {"none", "observe", "observe_other", "bootc", "observe_own", "active", "start", "poll"}

(* The other method, without the permit, answers Busy. *)
Begin(m) ==
    /\ method = "none"
    /\ method' = m
    /\ step' = "observe"
    /\ UNCHANGED <<unit, bootcVars, saw, ran, late, statusVars>>

Call(m) == Begin(m) /\ UNCHANGED clientVars

(* Success and every error alike give the permit back.  The reply, or the    *)
(* bus in place of a daemon that has gone, tells the client.                 *)
Return(result) ==
    /\ method' = "none" /\ step' = "none" /\ saw' = {} /\ ran' = FALSE
    /\ late' = (late \/ (step = "poll" /\ unit[method] = "queued"))
    /\ corectl' = IF ours /\ corectl = "asking" THEN result ELSE corectl
    /\ job' = IF ours /\ step = "poll" /\ result = "failed" THEN "given up" ELSE job
    /\ ours' = FALSE
Goto(next) == step' = next /\ UNCHANGED <<method, ran, late, clientVars>>

(* A bus call, the systemd manager or bootc fails or exceeds its deadline. *)
Unavailable ==
    /\ method # "none" /\ step # "poll"
    /\ Return("failed")
    /\ UNCHANGED <<unit, bootcVars, statusVars>>

Other == IF method = "update" THEN "rollback" ELSE "update"

\* Mutant: the other worker is not looked at.
observe_skipped ==
    /\ step = "observe"
    /\ Goto(IF method = "reboot" THEN "observe_other" ELSE "bootc") /\ UNCHANGED saw
    /\ UNCHANGED <<unit, bootcVars, statusVars>>

(* StartUpdate and StartRollback stop when the other worker runs; StartReboot *)
(* looks at both workers first.                                               *)
observe ==
    /\ step = "observe"
    /\ IF method = "reboot"
       THEN Goto("observe_other") /\ saw' = Running \cap {"update"}
       ELSE IF worker_running(Other) THEN Return("failed") ELSE Goto("bootc") /\ UNCHANGED saw
    /\ UNCHANGED <<unit, bootcVars, statusVars>>

\* Mutant: the conflict is not looked for.
observe_other_ignored ==
    /\ step = "observe_other"
    /\ Goto("observe_own") /\ UNCHANGED saw
    /\ UNCHANGED <<unit, bootcVars, statusVars>>

observe_other ==
    /\ step = "observe_other"
    /\ IF saw \cup (Running \cap {"rollback"}) # {}
       THEN Return("failed") ELSE Goto("observe_own") /\ UNCHANGED saw
    /\ UNCHANGED <<unit, bootcVars, statusVars>>

\* Mutant: an update may follow a rollback that is queued.
Refused_rollback_only ==
    method = "rollback" /\ (staged \/ ~retained \/ rollbackQueued)

(* observe_mutation_state and what each method makes of it. *)
Refused ==
    \/ method = "update" /\ rollbackQueued
    \/ method = "rollback" /\ (staged \/ ~retained \/ rollbackQueued)

observe_mutation_state ==
    /\ step = "bootc"
    /\ IF Refused THEN Return("failed") ELSE Goto("active") /\ UNCHANGED saw
    /\ UNCHANGED <<unit, bootcVars, statusVars>>

observe_own ==
    /\ step = "observe_own"
    /\ IF worker_running("reboot") THEN Return("failed") ELSE Goto("active") /\ UNCHANGED saw
    /\ UNCHANGED <<unit, bootcVars, statusVars>>

(* start_worker: the unit's own ActiveState and InvocationID. *)
start_worker ==
    /\ step = "active"
    /\ IF worker_running(method) THEN Return("failed") ELSE Goto("start") /\ UNCHANGED saw
    /\ UNCHANGED <<unit, bootcVars, statusVars>>

(* StartUnit in mode "fail", another await: it joins a job that is queued or *)
(* running by now.                                                           *)
start_unit ==
    /\ step = "start"
    /\ step' = "poll"
    /\ unit' = IF worker_running(method) THEN unit ELSE [unit EXCEPT ![method] = "queued"]
    /\ job' = CASE ours /\ ran -> "begun" [] ours /\ ~ran -> "handed" [] OTHER -> job
    /\ UNCHANGED <<bootcVars, method, saw, ran, late, corectl, ours, statusVars>>

(* Active, or another InvocationID than the one read before. *)
start_polled ==
    /\ step = "poll" /\ (worker_running(method) \/ ran)
    /\ Return("accepted")
    /\ UNCHANGED <<unit, bootcVars, statusVars>>

\* Mutant: no limit on the wait for the job.
start_waits_on == FALSE /\ UNCHANGED deploymentVars

(* The 3 s are over: the job may wait on, e.g. for network-online.target. *)
start_timeout ==
    /\ step = "poll"
    /\ Return("failed")
    /\ UNCHANGED <<unit, bootcVars, statusVars>>

(* The process ends with its permit; jobs and workers go on. *)
PlatformdRestarts ==
    /\ method # "none" \/ status.step # "none"
    /\ Return("failed")
    /\ status' = NoStatus /\ idle' = {}
    /\ UNCHANGED <<unit, bootcVars>>

-----------------------------------------------------------------------------
(* corectl reboot. *)

(* PlatformClient::start_reboot: status has to say 0.2 or later, then the    *)
(* request is sent.  Without a bus, a status or the permit nothing happens.  *)
start_reboot ==
    /\ corectl = "none"
    /\ Begin("reboot")
    /\ corectl' = "asking" /\ ours' = TRUE /\ job' = "none"

\* Mutant: a deadline that passes is an error like any other.
map_bus_error ==
    /\ corectl = "asking"
    /\ corectl' = "failed"
    /\ UNCHANGED <<unit, bootcVars, method, step, saw, ran, late, ours, job, statusVars>>

Exits ==
    /\ corectl' = "none" /\ ours' = FALSE /\ job' = "none"
    /\ UNCHANGED <<unit, bootcVars, method, step, saw, ran, late, statusVars>>

(* The connection is closed or METHOD_TIMEOUT is over before the reply: the  *)
(* outcome is unknown, and so it is reported.                                *)
map_reboot_error == corectl = "asking" /\ Exits

(* The report of the reply. *)
reboot_report == corectl \in {"accepted", "failed"} /\ Exits

-----------------------------------------------------------------------------
(* systemd, the workers and bootc. *)

(* Observed by whoever watches the observation from outside. *)
IdleNow == {u \in Deployers : unit'[u] # "running" /\ ~Pending(u)'}
Watched == idle' = IF status.step = "none" THEN {} ELSE idle \cup IdleNow

JobRuns(u) ==
    /\ unit[u] = "queued"
    /\ unit' = [unit EXCEPT ![u] = "running"]
    /\ ran' = (ran \/ (u = method /\ step \in {"start", "poll"}))
    /\ job' = IF u = "reboot" /\ job = "handed" THEN "begun" ELSE job
    /\ UNCHANGED <<bootcVars, method, step, saw, late, corectl, ours, status>>
    /\ Watched

WorkerFails(u) ==
    /\ unit[u] = "running"
    /\ unit' = [unit EXCEPT ![u] = "idle"]
    /\ UNCHANGED <<bootcVars, callVars, status>>
    /\ Watched

(* bootc upgrade stages what is new. *)
UpdateEnds ==
    /\ unit["update"] = "running"
    /\ unit' = [unit EXCEPT !["update"] = "idle"]
    /\ staged' \in {staged, TRUE}
    /\ UNCHANGED <<retained, rollbackQueued, callVars, status>>
    /\ Watched

(* bootc rollback selects the other deployment; done twice it deselects it. *)
RollbackEnds ==
    /\ unit["rollback"] = "running"
    /\ unit' = [unit EXCEPT !["rollback"] = "idle"]
    /\ rollbackQueued' = ~rollbackQueued
    /\ UNCHANGED <<staged, retained, callVars, status>>
    /\ Watched

(* The reboot worker has done its work, or the power failed. *)
Boot ==
    /\ unit' = [u \in Units |-> "idle"]
    /\ retained' = (retained \/ staged)
    /\ staged' = FALSE /\ rollbackQueued' = FALSE
    /\ method' = "none" /\ step' = "none" /\ saw' = {} /\ ran' = FALSE /\ late' = FALSE
    /\ corectl' = "none" /\ ours' = FALSE /\ job' = "none"
    /\ status' = NoStatus /\ idle' = {}

-----------------------------------------------------------------------------
(* observe_status: the workers first, then bootc. *)

observe_update_worker ==
    /\ status.step = "none"
    /\ status' = [NoStatus EXCEPT !.step = "rollback", !.running = Running \cap {"update"}]
    /\ idle' = {u \in Deployers : ~worker_running(u) /\ ~Pending(u)}
    /\ UNCHANGED <<unit, bootcVars, callVars>>

\* Mutant: only the update worker is observed.
observe_rollback_worker_skipped ==
    /\ status.step = "rollback"
    /\ status' = [status EXCEPT !.step = "bootc"]
    /\ UNCHANGED <<unit, bootcVars, callVars, idle>>

observe_rollback_worker ==
    /\ status.step = "rollback"
    /\ status' = [status EXCEPT !.step = "bootc",
                                !.running = @ \cup (Running \cap {"rollback"})]
    /\ UNCHANGED <<unit, bootcVars, callVars, idle>>

(* update_from_observations and rollback_from_observations; whether the last *)
(* run of a worker failed was observed with its state.                       *)
from_observations(running, failed, pending) ==
    [state |-> CASE running -> "running" [] ~running /\ failed -> "failed"
                 [] OTHER -> IF pending THEN "pending" ELSE "idle",
     reboot_required |-> pending]

observe_bootc ==
    /\ status.step = "bootc"
    /\ \E failed \in SUBSET Deployers :
        status' = [NoStatus EXCEPT !.step = "done",
                    !.report = [u \in Deployers |->
                        from_observations(u \in status.running, u \in failed, Pending(u))]]
    /\ UNCHANGED <<unit, bootcVars, callVars, idle>>

reply_status ==
    /\ status.step # "none"
    /\ status' = NoStatus /\ idle' = {}
    /\ UNCHANGED <<unit, bootcVars, callVars>>

-----------------------------------------------------------------------------

DeploymentInit ==
    /\ unit = [u \in Units |-> "idle"]
    /\ staged = FALSE /\ retained \in BOOLEAN /\ rollbackQueued = FALSE
    /\ method = "none" /\ step = "none" /\ saw = {} /\ ran = FALSE /\ late = FALSE
    /\ corectl = "none" /\ ours = FALSE /\ job = "none"
    /\ status = NoStatus /\ idle = {}

StartMethod ==
    \/ \E m \in Units : Call(m)
    \/ Unavailable \/ observe \/ observe_other \/ observe_mutation_state \/ observe_own
    \/ start_worker \/ start_unit \/ start_polled \/ start_timeout \/ PlatformdRestarts

Workers ==
    \/ \E u \in Units : JobRuns(u) \/ WorkerFails(u)
    \/ UpdateEnds \/ RollbackEnds \/ Boot

Corectl == start_reboot \/ map_reboot_error \/ reboot_report

GetStatus == observe_update_worker \/ observe_rollback_worker \/ observe_bootc \/ reply_status

DeploymentNext == StartMethod \/ Corectl \/ Workers \/ GetStatus

DeploymentSpec == DeploymentInit /\ [][DeploymentNext]_deploymentVars

(* Each await of a method has its deadline; systemd need not run a job. *)
DeploymentLiveSpec ==
    /\ DeploymentSpec
    /\ WF_deploymentVars(\/ observe \/ observe_other \/ observe_mutation_state \/ observe_own
                         \/ start_worker \/ start_unit \/ start_polled \/ start_timeout)

-----------------------------------------------------------------------------

(* Every variable has its type; a call has a step exactly while it runs. *)
DeploymentTypeOK ==
    /\ unit \in [Units -> {"idle", "queued", "running"}]
    /\ staged \in BOOLEAN /\ retained \in BOOLEAN /\ rollbackQueued \in BOOLEAN
    /\ method \in Units \cup {"none"} /\ step \in Steps
    /\ method = "none" <=> step = "none"
    /\ saw \in SUBSET {"update"} /\ ran \in BOOLEAN /\ late \in BOOLEAN
    /\ corectl \in {"none", "asking", "accepted", "failed"} /\ ours \in BOOLEAN
    /\ job \in {"none", "handed", "begun", "given up"}
    /\ status \in [step : {"none", "rollback", "bootc", "done"},
                   running : SUBSET Deployers,
                   report : [Deployers -> [state : {"idle", "failed", "running", "pending"},
                                           reboot_required : BOOLEAN]]]
    /\ idle \in SUBSET Deployers

(* Unless a job outlived its request, bootc is never run twice at a time,    *)
(* and an update and a rollback never contend for the next boot (main.rs:    *)
(* the permit is kept until the worker is seen, not only until StartUnit).   *)
(* That the one choice is the last one asked for is not said: see            *)
(* RollbackNotRepeated.                                                      *)
OneChoiceForNextBoot ==
    ~late => /\ ~(worker_running("update") /\ worker_running("rollback"))
             /\ ~(staged /\ rollbackQueued)

RollbackHandedOver == ~late /\ unit["rollback"] # "queued" /\ unit'["rollback"] = "queued"

(* The rollback is handed to systemd only while a deployment is retained, no *)
(* update is staged and no worker runs.  Each was observed earlier, one after *)
(* the other, and still holds (main.rs: the update worker is observed before *)
(* bootc, so an update that ends in between is seen as staged), unless a job *)
(* outlived its request.                                                     *)
RollbackSparesUpdate ==
    [][RollbackHandedOver =>
        /\ retained /\ ~staged
        /\ ~worker_running("update") /\ ~worker_running("rollback")]_deploymentVars

(* docs/rollback.md: the daemon also rejects a request when a rollback is    *)
(* already queued; bootc would deselect it again.                            *)
RollbackNotRepeated == [][RollbackHandedOver => ~rollbackQueued]_deploymentVars

(* A reboot is not begun under a running deployment worker, although that    *)
(* was looked up before the reboot worker itself was, unless a job outlived  *)
(* its request.                                                              *)
RebootOnlyWhenQuiet ==
    [][~late /\ unit["reboot"] # "running" /\ unit'["reboot"] = "running" =>
        ~worker_running("update") /\ ~worker_running("rollback")]_deploymentVars

(* GetStatus calls a worker idle or failed, with no reboot required, only if *)
(* there was a moment of the observation when it did not run and had left    *)
(* nothing for the next boot, although worker and bootc are read one after   *)
(* the other (main.rs: observe_status reads bootc last).                     *)
IdleWasTrue ==
    status.step = "done" =>
        \A u \in Deployers :
            status.report[u].state # "running" /\ ~status.report[u].reboot_required => u \in idle

(* docs/management-plane-0.0.2.md: of "corectl reboot", 0 means accepted and *)
(* 1 rejected or an error, while what may still come about is 3, outcome     *)
(* unknown.  So after 0 the reboot was begun, and after 1 this request is    *)
(* over and has left no reboot job to systemd, unless sl-platformd itself    *)
(* gave up waiting for a job it had handed over, or went away.               *)
RebootReportTrue ==
    /\ corectl = "accepted" => job = "begun"
    /\ corectl = "failed" => ~ours /\ job \in {"none", "given up"}

(* Whatever the workers do, and although systemd may never begin a job, the  *)
(* permit comes back (main.rs: start_worker's SYSTEMD_TIMEOUT).              *)
PermitComesBack == method # "none" ~> method = "none"
=============================================================================
