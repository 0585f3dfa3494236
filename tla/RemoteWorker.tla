---------------------------- MODULE RemoteWorker ----------------------------
(***************************************************************************)
(* sl-remote-worker (remote-worker/src) and the state directory it writes  *)
(* (crates/remote-state): the marker files enabled and reset-pending, the  *)
(* TLS generation directories and the symlink tls/current.  Five oneshot   *)
(* units run the one program, each with a fixed mode; a run is a sequence  *)
(* of file operations, and a crash may fall between any two of them.       *)
(*                                                                         *)
(* A directory is the set of the names it shows.  "visible" is what a      *)
(* process sees, "durable" what a crash leaves; fsync copies one to the    *)
(* other, and so may the kernel at any time (Writeback).                   *)
(***************************************************************************)
EXTENDS Naturals, FiniteSets

CONSTANTS
    Generations,    \* generation names; 64 random bits, so a name is never drawn twice
    NoGeneration,   \* the absence of a generation: no link, no local
    FSYNC           \* "reliable", or "may fail": whether fsync of a directory can fail

ASSUME GenerationsAssumption == NoGeneration \notin Generations
ASSUME FsyncAssumption == FSYNC \in {"reliable", "may fail"}

VARIABLES
    visible,    \* the state directory as processes see it
    durable,    \* the state directory as a crash would leave it
    filled,     \* generations whose key, certificate and fingerprint are written and synced
    drawn,      \* generation names already drawn
    wpc,        \* unit -> the step its process is at, "idle" when there is none
    wgen,       \* unit -> the generation its process created
    wref,       \* unit -> the generation it took for referenced when it began to clean
    outcome     \* unit -> how its last run ended

workerVars == <<visible, durable, filled, drawn, wpc, wgen, wref, outcome>>

-----------------------------------------------------------------------------
(* The state directory. *)

Enabled == "enabled"
ResetPending == "reset-pending"
Temporary == [name \in {Enabled, ResetPending} |->
                IF name = Enabled THEN "enabled.tmp" ELSE "reset-pending.tmp"]
Temporaries == {Temporary[Enabled], Temporary[ResetPending]}

(* root: the files of the state directory; gens: the generation directories *)
(* of tls/; link: the target of tls/current; next: that of tls/current.tmp. *)
Directory == [root : SUBSET ({Enabled, ResetPending} \cup Temporaries),
              gens : SUBSET Generations,
              link : Generations \cup {NoGeneration},
              next : Generations \cup {NoGeneration}]

Empty == [root |-> {}, gens |-> {}, link |-> NoGeneration, next |-> NoGeneration]

marker_exists(name) == name \in visible.root

(* A symlink to a generation directory that holds everything it should. *)
Complete(directory) == directory.link \in directory.gens \cap filled

(* Ok(None), Ok(Some) and Err of current_identity. *)
current_identity ==
    IF visible.link = NoGeneration THEN "none"
    ELSE IF Complete(visible) THEN "valid" ELSE "invalid"

(* fsync of the state directory, and of tls/. *)
RootSynced(v) == [durable EXCEPT !.root = v.root]
TlsSynced(v) == [durable EXCEPT !.gens = v.gens, !.link = v.link, !.next = v.next]

-----------------------------------------------------------------------------
(* The program. *)

Units == {"enable", "disable", "rotate", "boot_reset", "clear_reset"}

Identity == {"list_old", "clean_old", "mkdir", "fill", "symlink", "swap", "sync_swap",
             "list_new", "clean_new"}
Steps == Identity \cup
    {"idle", "stale", "may_enable", "create", "rename", "sync_create",
     "unlink", "sync_unlink", "unlink_current", "sync_current", "reset_enrollment"}

Outcomes == {"none", "success", "failed", "refused", "invalid", "collision"}

(* The marker a unit creates or removes. *)
Marker(u) == IF u \in {"enable", "disable"} THEN Enabled ELSE ResetPending

(* The step after step s of unit u, "end" after the last. *)
Follows(u, s) ==
    CASE s = "stale" -> CASE u = "enable" -> "may_enable"
                          [] u = "rotate" -> "list_old"
                          [] u = "boot_reset" -> "create"
                          [] OTHER -> "unlink"
      [] s = "may_enable" -> "list_old"
      [] s = "list_old" -> "clean_old"
      [] s = "clean_old" -> "mkdir"
      [] s = "mkdir" -> "fill"
      [] s = "fill" -> "symlink"
      [] s = "symlink" -> "swap"
      [] s = "swap" -> "sync_swap"
      [] s = "sync_swap" -> "list_new"
      [] s = "list_new" -> "clean_new"
      [] s = "clean_new" -> CASE u = "enable" -> "create"
                              [] u = "boot_reset" -> "unlink"
                              [] OTHER -> "end"
      [] s = "create" -> "rename"
      [] s = "rename" -> "sync_create"
      [] s = "sync_create" -> IF u = "boot_reset" THEN "unlink_current" ELSE "end"
      [] s = "unlink_current" -> "sync_current"
      [] s = "sync_current" -> "reset_enrollment"
      [] s = "reset_enrollment" -> "list_new"
      [] s = "unlink" -> "sync_unlink"
      [] OTHER -> "end"

(* The process of unit u ends. *)
Ends(u, result) ==
    /\ wpc' = [wpc EXCEPT ![u] = "idle"]
    /\ wgen' = [wgen EXCEPT ![u] = NoGeneration]
    /\ wref' = [wref EXCEPT ![u] = NoGeneration]
    /\ outcome' = [outcome EXCEPT ![u] = result]

(* It goes on to the step after s. *)
Passes(u, s) ==
    IF Follows(u, s) = "end"
    THEN Ends(u, "success")
    ELSE /\ wpc' = [wpc EXCEPT ![u] = Follows(u, s)]
         /\ UNCHANGED <<wgen, wref, outcome>>

Proceeds(u) == Passes(u, wpc[u])

(* A file operation of step s fails: the process ends with whatever v its   *)
(* own clean-up leaves.                                                     *)
Fails(u, v) ==
    /\ visible' = v
    /\ Ends(u, "failed")
    /\ UNCHANGED <<durable, filled, drawn>>

-----------------------------------------------------------------------------
(* Its steps.  Each may fail, and then the run is over. *)

\* Mutant: the temporaries of an interrupted run are left where they are.
keep_stale_temporaries(u) ==
    /\ wpc[u] = "stale"
    /\ Proceeds(u)
    /\ UNCHANGED <<visible, durable, filled, drawn>>

remove_stale_temporaries(u) ==
    /\ wpc[u] = "stale"
    /\ \/ /\ visible' = [visible EXCEPT !.root = @ \ Temporaries, !.next = NoGeneration]
          /\ Proceeds(u)
          /\ UNCHANGED <<durable, filled, drawn>>
       \/ Fails(u, visible)

(* Refused while a reset is pending.  An existing identity is kept, an       *)
(* invalid one is left for Reenroll to repair.                               *)
enable(u) ==
    /\ wpc[u] = "may_enable"
    /\ UNCHANGED <<visible, durable, filled, drawn>>
    /\ \/ marker_exists(ResetPending) /\ Ends(u, "refused")
       \/ /\ ~marker_exists(ResetPending)
          /\ \/ current_identity = "none" /\ Proceeds(u)
             \/ current_identity = "valid" /\ Passes(u, "clean_new")
             \/ current_identity = "invalid" /\ Ends(u, "invalid")
       \/ Ends(u, "failed")

(* O_EXCL creation of the temporary; a failure removes it, whoever made it,  *)
(* unless that fails too.  An existing marker is left as it is, and is not   *)
(* synced again.                                                             *)
create_marker(u) ==
    LET name == Marker(u)
        gone == [visible EXCEPT !.root = @ \ {Temporary[name]}]
    IN
    /\ wpc[u] = "create"
    /\ \/ /\ marker_exists(name)
          /\ Passes(u, "sync_create")
          /\ UNCHANGED <<visible, durable, filled, drawn>>
       \/ /\ ~marker_exists(name)
          /\ IF Temporary[name] \in visible.root
             THEN Ends(u, "collision") /\ visible' \in {visible, gone}
             ELSE /\ visible' = [visible EXCEPT !.root = @ \cup {Temporary[name]}]
                  /\ Proceeds(u)
          /\ UNCHANGED <<durable, filled, drawn>>
       \/ Fails(u, visible)

rename_marker(u) ==
    LET name == Marker(u)
        gone == [visible EXCEPT !.root = @ \ {Temporary[name]}]
    IN  /\ wpc[u] = "rename"
        /\ \/ /\ Temporary[name] \in visible.root
              /\ visible' = [gone EXCEPT !.root = @ \cup {name}]
              /\ Proceeds(u)
              /\ UNCHANGED <<durable, filled, drawn>>
           \/ Fails(u, gone) \/ Fails(u, visible)

(* An absent marker is left absent, and the directory is not synced again.   *)
remove_marker(u) ==
    /\ wpc[u] = "unlink"
    /\ \/ /\ marker_exists(Marker(u))
          /\ visible' = [visible EXCEPT !.root = @ \ {Marker(u)}]
          /\ Proceeds(u)
          /\ UNCHANGED <<durable, filled, drawn>>
       \/ /\ ~marker_exists(Marker(u))
          /\ Passes(u, "sync_unlink")
          /\ UNCHANGED <<visible, durable, filled, drawn>>
       \/ Fails(u, visible)

\* Mutant: the directory is not synced.
skip_fsync_root(u) ==
    /\ wpc[u] \in {"sync_create", "sync_unlink"}
    /\ Proceeds(u)
    /\ UNCHANGED <<visible, durable, filled, drawn>>

fsync_root(u) ==
    /\ wpc[u] \in {"sync_create", "sync_unlink"}
    /\ \/ /\ durable' = RootSynced(visible)
          /\ Proceeds(u)
          /\ UNCHANGED <<visible, filled, drawn>>
       \/ FSYNC = "may fail" /\ Fails(u, visible)

\* Mutant: no generation is ever taken for one to remove.
list_no_generations(u) ==
    /\ wpc[u] \in {"list_old", "list_new"}
    /\ Passes(u, Follows(u, wpc[u]))
    /\ UNCHANGED <<visible, durable, filled, drawn>>

(* remove_unreferenced_generations reads current once; with no generation to *)
(* remove it neither writes nor syncs, ...                                   *)
list_generations(u) ==
    /\ wpc[u] \in {"list_old", "list_new"}
    /\ \/ /\ visible.gens \subseteq {visible.link}
          /\ Passes(u, Follows(u, wpc[u]))
       \/ /\ ~(visible.gens \subseteq {visible.link})
          /\ wref' = [wref EXCEPT ![u] = visible.link]
          /\ wpc' = [wpc EXCEPT ![u] = Follows(u, wpc[u])]
          /\ UNCHANGED <<wgen, outcome>>
       \/ Ends(u, "failed")
    /\ UNCHANGED <<visible, durable, filled, drawn>>

(* ... and otherwise removes them one at a time and syncs tls/.              *)
remove_unreferenced_generations(u) ==
    LET others == visible.gens \ {wref[u]} IN
    /\ wpc[u] \in {"clean_old", "clean_new"}
    /\ \/ /\ \E g \in others : visible' = [visible EXCEPT !.gens = @ \ {g}]
          /\ UNCHANGED <<durable, filled, drawn, wpc, wgen, wref, outcome>>
       \/ /\ others = {}
          /\ durable' = TlsSynced(visible)
          /\ Proceeds(u)
          /\ UNCHANGED <<visible, filled, drawn>>
       \/ Fails(u, visible)

make_generation(u) ==
    /\ wpc[u] = "mkdir"
    /\ \/ \E g \in Generations \ drawn :
            /\ drawn' = drawn \cup {g}
            /\ visible' = [visible EXCEPT !.gens = @ \cup {g}]
            /\ wgen' = [wgen EXCEPT ![u] = g]
            /\ wpc' = [wpc EXCEPT ![u] = Follows(u, "mkdir")]
            /\ UNCHANGED <<durable, filled, wref, outcome>>
       \/ Fails(u, visible)

\* Mutant: current is pointed at the generation before its files are there.
swap_current_unfilled(u) ==
    /\ wpc[u] = "fill"
    /\ visible' = [visible EXCEPT !.next = wgen[u]]
    /\ wpc' = [wpc EXCEPT ![u] = "swap"]
    /\ UNCHANGED <<durable, filled, drawn, wgen, wref, outcome>>

(* openssl writes the key and the certificate, the worker the fingerprint.   *)
(* A failure removes the directory again, unless that fails too.             *)
fill_generation(u) ==
    LET g == wgen[u] IN
    /\ wpc[u] = "fill"
    /\ \/ /\ g \in visible.gens
          /\ filled' = filled \cup {g}
          /\ Proceeds(u)
          /\ UNCHANGED <<visible, durable, drawn>>
       \/ \E kept \in {{}, {g}} :
            Fails(u, [visible EXCEPT !.gens = (@ \ {g}) \cup (@ \cap kept)])

(* swap_current: a symlink under a temporary name, ...                       *)
symlink(u) ==
    LET gone == [visible EXCEPT !.next = NoGeneration] IN
    /\ wpc[u] = "symlink"
    /\ \/ /\ IF visible.next # NoGeneration
             THEN Ends(u, "collision") /\ visible' \in {visible, gone}
             ELSE visible' = [visible EXCEPT !.next = wgen[u]] /\ Proceeds(u)
          /\ UNCHANGED <<durable, filled, drawn>>
       \/ Fails(u, visible)

(* ... renamed over current, then fsync.                                     *)
swap_current(u) ==
    LET gone == [visible EXCEPT !.next = NoGeneration] IN
    /\ wpc[u] = "swap"
    /\ \/ /\ visible.next # NoGeneration
          /\ visible' = [gone EXCEPT !.link = visible.next]
          /\ Proceeds(u)
          /\ UNCHANGED <<durable, filled, drawn>>
       \/ Fails(u, gone) \/ Fails(u, visible)

remove_current(u) ==
    /\ wpc[u] = "unlink_current"
    /\ \/ /\ visible.link # NoGeneration
          /\ visible' = [visible EXCEPT !.link = NoGeneration]
          /\ Proceeds(u)
          /\ UNCHANGED <<durable, filled, drawn>>
       \/ /\ visible.link = NoGeneration
          /\ Passes(u, "sync_current")
          /\ UNCHANGED <<visible, durable, filled, drawn>>
       \/ Fails(u, visible)

fsync_tls(u) ==
    /\ wpc[u] \in {"sync_swap", "sync_current"}
    /\ \/ /\ durable' = TlsSynced(visible)
          /\ Proceeds(u)
          /\ UNCHANGED <<visible, filled, drawn>>
       \/ FSYNC = "may fail" /\ Fails(u, visible)

(* Every step but the call to sl-authd, which the composition adds.          *)
WorkerStep(u) ==
    \/ remove_stale_temporaries(u) \/ enable(u)
    \/ create_marker(u) \/ rename_marker(u) \/ remove_marker(u) \/ fsync_root(u)
    \/ list_generations(u) \/ remove_unreferenced_generations(u)
    \/ make_generation(u) \/ fill_generation(u) \/ symlink(u)
    \/ swap_current(u) \/ remove_current(u) \/ fsync_tls(u)

(* systemd starts the unit, which is not running.                            *)
StartWorker(u) ==
    /\ wpc' = [wpc EXCEPT ![u] = "stale"]
    /\ outcome' = [outcome EXCEPT ![u] = "none"]
    /\ UNCHANGED <<visible, durable, filled, drawn, wgen, wref>>

(* The result of the run has been read, and matters to nobody any more.      *)
CollectWorker(u) ==
    /\ outcome' = [outcome EXCEPT ![u] = "none"]
    /\ UNCHANGED <<visible, durable, filled, drawn, wpc, wgen, wref>>

(* The kernel writes a directory back on its own.                            *)
Writeback ==
    /\ durable' \in {RootSynced(visible), TlsSynced(visible)}
    /\ durable' # durable
    /\ UNCHANGED <<visible, filled, drawn, wpc, wgen, wref, outcome>>

(* A crash leaves what is durable, and no process.                           *)
WorkersCrash ==
    /\ visible' = durable
    /\ wpc' = [u \in Units |-> "idle"]
    /\ wgen' = [u \in Units |-> NoGeneration]
    /\ wref' = [u \in Units |-> NoGeneration]
    /\ outcome' = [u \in Units |-> "none"]
    /\ UNCHANGED <<durable, filled, drawn>>

WorkerInit ==
    /\ visible = Empty
    /\ durable = Empty
    /\ filled = {}
    /\ drawn = {}
    /\ wpc = [u \in Units |-> "idle"]
    /\ wgen = [u \in Units |-> NoGeneration]
    /\ wref = [u \in Units |-> NoGeneration]
    /\ outcome = [u \in Units |-> "none"]

WorkerTypeOK ==
    /\ visible \in Directory /\ durable \in Directory
    /\ filled \in SUBSET Generations /\ drawn \in SUBSET Generations
    /\ wpc \in [Units -> Steps]
    /\ wgen \in [Units -> Generations \cup {NoGeneration}]
    /\ wref \in [Units -> Generations \cup {NoGeneration}]
    /\ outcome \in [Units -> Outcomes]
=============================================================================
