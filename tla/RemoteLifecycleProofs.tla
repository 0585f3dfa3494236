------------------------ MODULE RemoteLifecycleProofs ------------------------
(***************************************************************************)
(* Proofs about RemoteLifecycle and the worker it contains, for any number *)
(* of generations and whether or not a fsync may fail.                     *)
(*                                                                         *)
(* Whatever overruns: the types with systemd's bookkeeping (Base), the     *)
(* silence under a pending reset, and what the console shows.  Until the   *)
(* first overrun, layer upon layer: one process at a time on the directory *)
(* (Alone) that finds it in order (Ordered); what the operator was told    *)
(* (Answered); what was revoked (Revoked).                                 *)
(***************************************************************************)
EXTENDS RemoteLifecycle, TLAPS

-----------------------------------------------------------------------------
(* The program of the worker: which unit can be at which step. *)

Runs(u, s) ==
    /\ s = "may_enable" => u = "enable"
    /\ s \in {"create", "rename", "sync_create"} => u \in {"enable", "boot_reset"}
    /\ s \in {"list_old", "clean_old", "mkdir", "fill", "symlink", "swap", "sync_swap"} =>
          u \in {"enable", "rotate"}
    /\ s \in {"list_new", "clean_new"} => u \in {"enable", "rotate", "boot_reset"}
    /\ s \in {"unlink", "sync_unlink"} => u \in {"disable", "boot_reset", "clear_reset"}
    /\ s \in {"unlink_current", "sync_current", "reset_enrollment"} => u = "boot_reset"

FlowOK == \A u \in Units : Runs(u, wpc[u])

LEMMA StaleFollows ==
    /\ Follows("enable", "stale") = "may_enable"
    /\ Follows("rotate", "stale") = "list_old"
    /\ Follows("boot_reset", "stale") = "create"
    /\ Follows("disable", "stale") = "unlink"
    /\ Follows("clear_reset", "stale") = "unlink"
  BY DEF Follows

LEMMA CleanedFollows ==
    /\ Follows("enable", "clean_new") = "create"
    /\ Follows("rotate", "clean_new") = "end"
    /\ Follows("boot_reset", "clean_new") = "unlink"
  BY DEF Follows

LEMMA CreatedFollows ==
    /\ Follows("enable", "sync_create") = "end"
    /\ Follows("boot_reset", "sync_create") = "unlink_current"
  BY DEF Follows

LEMMA PlainFollows ==
    ASSUME NEW u \in Units
    PROVE  /\ Follows(u, "may_enable") = "list_old"
           /\ Follows(u, "list_old") = "clean_old"
           /\ Follows(u, "clean_old") = "mkdir"
           /\ Follows(u, "mkdir") = "fill"
           /\ Follows(u, "fill") = "symlink"
           /\ Follows(u, "symlink") = "swap"
           /\ Follows(u, "swap") = "sync_swap"
           /\ Follows(u, "sync_swap") = "list_new"
           /\ Follows(u, "list_new") = "clean_new"
           /\ Follows(u, "create") = "rename"
           /\ Follows(u, "rename") = "sync_create"
           /\ Follows(u, "unlink_current") = "sync_current"
           /\ Follows(u, "sync_current") = "reset_enrollment"
           /\ Follows(u, "reset_enrollment") = "list_new"
           /\ Follows(u, "unlink") = "sync_unlink"
           /\ Follows(u, "sync_unlink") = "end"
  BY DEF Follows

LEMMA FollowsRuns ==
    ASSUME NEW u \in Units, NEW s \in Steps \ {"idle"}, Runs(u, s)
    PROVE  /\ Follows(u, s) \in (Steps \ {"idle", "stale"}) \cup {"end"}
           /\ Follows(u, s) # "end" => Runs(u, Follows(u, s))
  <1>1. CASE s = "stale"
    BY <1>1, StaleFollows DEF Units, Runs, Steps, Identity
  <1>2. CASE s = "clean_new"
    BY <1>2, CleanedFollows DEF Units, Runs, Steps, Identity
  <1>3. CASE s = "sync_create"
    BY <1>3, CreatedFollows DEF Units, Runs, Steps, Identity
  <1>4. CASE s \notin {"stale", "clean_new", "sync_create"}
    BY <1>4, PlainFollows DEF Units, Runs, Steps, Identity
  <1> QED BY <1>1, <1>2, <1>3, <1>4

-----------------------------------------------------------------------------
(* Types of the worker. *)

Names == {Enabled, ResetPending} \cup Temporaries
Targets == Generations \cup {NoGeneration}

LEMMA NamesDiffer ==
    /\ Enabled # ResetPending /\ Temporaries \subseteq Names
    /\ Temporaries \cap {Enabled, ResetPending} = {}
    /\ Temporary[Enabled] # Temporary[ResetPending]
    /\ Temporary[Enabled] \in Temporaries /\ Temporary[ResetPending] \in Temporaries
    /\ \A u \in Units : Marker(u) \in {Enabled, ResetPending}
    /\ \A u \in Units : Marker(u) = Enabled <=> u \in {"enable", "disable"}
  BY DEF Names, Enabled, ResetPending, Temporaries, Temporary, Marker

LEMMA DirectoryFields ==
    ASSUME NEW d \in Directory
    PROVE  /\ d.root \in SUBSET Names /\ d.gens \in SUBSET Generations
           /\ d.link \in Targets /\ d.next \in Targets
  BY DEF Directory, Names, Targets

LEMMA RootEdited ==
    ASSUME NEW d \in Directory, NEW r \in SUBSET Names
    PROVE  /\ [d EXCEPT !.root = r] \in Directory
           /\ [d EXCEPT !.root = r].root = r /\ [d EXCEPT !.root = r].gens = d.gens
           /\ [d EXCEPT !.root = r].link = d.link /\ [d EXCEPT !.root = r].next = d.next
  BY DEF Directory, Names

LEMMA GensEdited ==
    ASSUME NEW d \in Directory, NEW g \in SUBSET Generations
    PROVE  /\ [d EXCEPT !.gens = g] \in Directory
           /\ [d EXCEPT !.gens = g].root = d.root /\ [d EXCEPT !.gens = g].gens = g
           /\ [d EXCEPT !.gens = g].link = d.link /\ [d EXCEPT !.gens = g].next = d.next
  BY DEF Directory

LEMMA LinkEdited ==
    ASSUME NEW d \in Directory, NEW t \in Targets
    PROVE  /\ [d EXCEPT !.link = t] \in Directory
           /\ [d EXCEPT !.link = t].root = d.root /\ [d EXCEPT !.link = t].gens = d.gens
           /\ [d EXCEPT !.link = t].link = t /\ [d EXCEPT !.link = t].next = d.next
  BY DEF Directory, Targets

LEMMA NextEdited ==
    ASSUME NEW d \in Directory, NEW t \in Targets
    PROVE  /\ [d EXCEPT !.next = t] \in Directory
           /\ [d EXCEPT !.next = t].root = d.root /\ [d EXCEPT !.next = t].gens = d.gens
           /\ [d EXCEPT !.next = t].link = d.link /\ [d EXCEPT !.next = t].next = t
  BY DEF Directory, Targets

LEMMA Synced ==
    ASSUME WorkerTypeOK
    PROVE  /\ RootSynced(visible) \in Directory
           /\ RootSynced(visible).root = visible.root
           /\ RootSynced(visible).gens = durable.gens
           /\ RootSynced(visible).link = durable.link
           /\ RootSynced(visible).next = durable.next
           /\ TlsSynced(visible) \in Directory
           /\ TlsSynced(visible).root = durable.root
           /\ TlsSynced(visible).gens = visible.gens
           /\ TlsSynced(visible).link = visible.link
           /\ TlsSynced(visible).next = visible.next
  <1>1. visible \in Directory /\ durable \in Directory
    BY DEF WorkerTypeOK
  <1>2. RootSynced(visible) = [durable EXCEPT !.root = visible.root]
    BY DEF RootSynced
  <1>3. TlsSynced(visible) = [durable EXCEPT !.gens = visible.gens, !.link = visible.link,
                                             !.next = visible.next]
    BY DEF TlsSynced
  <1>4. /\ TlsSynced(visible) \in Directory
        /\ TlsSynced(visible).root = durable.root
        /\ TlsSynced(visible).gens = visible.gens
        /\ TlsSynced(visible).link = visible.link
        /\ TlsSynced(visible).next = visible.next
    BY <1>1, <1>3, DirectoryFields DEF Directory, Targets
  <1> QED BY <1>1, <1>2, <1>4, RootEdited, DirectoryFields

(* What a process is doing. *)
ProcessOK ==
    /\ wpc \in [Units -> Steps]
    /\ wgen \in [Units -> Targets] /\ wref \in [Units -> Targets]
    /\ outcome \in [Units -> Outcomes]
    /\ FlowOK

WorkerOK == WorkerTypeOK /\ FlowOK

(* Only process u has moved, and its generations are kept. *)
Goes(u, s) == wpc' = [wpc EXCEPT ![u] = s] /\ UNCHANGED <<wgen, wref, outcome>>

LEMMA EndsIsTyped ==
    ASSUME ProcessOK, NEW u \in Units, NEW r \in Outcomes, Ends(u, r)
    PROVE  ProcessOK'
  BY DEF ProcessOK, Ends, FlowOK, Runs, Steps, Targets

LEMMA GoesIsTyped ==
    ASSUME ProcessOK, NEW u \in Units, NEW s \in Steps, Runs(u, s), Goes(u, s)
    PROVE  ProcessOK'
  BY DEF ProcessOK, Goes, FlowOK

LEMMA PassesGoes ==
    ASSUME NEW u, NEW s, Passes(u, s)
    PROVE  \/ Follows(u, s) = "end" /\ Ends(u, "success")
           \/ Follows(u, s) # "end" /\ Goes(u, Follows(u, s))
  BY DEF Passes, Goes

(* The files are typed; together with ProcessOK this is WorkerOK. *)
FilesOK ==
    /\ visible \in Directory /\ durable \in Directory
    /\ filled \in SUBSET Generations /\ drawn \in SUBSET Generations

LEMMA WorkerParts == WorkerOK <=> FilesOK /\ ProcessOK
  BY DEF WorkerOK, FilesOK, ProcessOK, WorkerTypeOK, Targets

LEMMA FilesUntouched ==
    ASSUME FilesOK, UNCHANGED <<visible, durable, filled, drawn>>
    PROVE  FilesOK'
  BY DEF FilesOK

Shows(root, gens, link, next) ==
    /\ visible' \in Directory
    /\ visible'.root = root /\ visible'.gens = gens
    /\ visible'.link = link /\ visible'.next = next

(* Process u ends, or goes on to the step after s. *)
EndsOrGoes(u, s) == \/ Follows(u, s) = "end" /\ Ends(u, "success")
                    \/ Follows(u, s) # "end" /\ Goes(u, Follows(u, s))

LEMMA EndsKeepsOK ==
    ASSUME WorkerOK, NEW u \in Units, NEW r \in Outcomes, Ends(u, r), FilesOK'
    PROVE  WorkerOK'
  <1>1. ProcessOK'
    BY WorkerParts, EndsIsTyped
  <1> QED BY <1>1, WorkerParts, PTL

LEMMA PassesKeepsOK ==
    ASSUME WorkerOK, NEW u \in Units, NEW s \in Steps \ {"idle"}, Runs(u, s), FilesOK',
           EndsOrGoes(u, s)
    PROVE  WorkerOK'
  <1>1. "success" \in Outcomes
    BY DEF Outcomes
  <1>2. ProcessOK'
    BY <1>1, WorkerParts, FollowsRuns, EndsIsTyped, GoesIsTyped DEF EndsOrGoes
  <1> QED BY <1>2, WorkerParts, PTL

LEMMA Running ==
    ASSUME WorkerOK, NEW u \in Units
    PROVE  /\ wpc[u] \in Steps /\ Runs(u, wpc[u])
           /\ visible \in Directory /\ durable \in Directory
           /\ visible.root \in SUBSET Names /\ visible.gens \in SUBSET Generations
           /\ visible.link \in Targets /\ visible.next \in Targets /\ NoGeneration \in Targets
           /\ wgen[u] \in Targets
           /\ {"failed", "collision", "refused", "invalid", "success"} \subseteq Outcomes
           /\ Temporary[Marker(u)] \in Names /\ Marker(u) \in Names
           /\ FilesOK
  <1>1. FilesOK /\ ProcessOK
    BY WorkerParts
  <1>2. visible \in Directory /\ durable \in Directory
    BY <1>1 DEF FilesOK
  <1>3. wpc[u] \in Steps /\ Runs(u, wpc[u]) /\ wgen[u] \in Targets
    BY <1>1 DEF ProcessOK, FlowOK
  <1> QED BY <1>1, <1>2, <1>3, DirectoryFields, NamesDiffer DEF Outcomes, Names, Targets

LEMMA StaleEffect ==
    ASSUME WorkerOK, NEW u \in Units, remove_stale_temporaries(u)
    PROVE  /\ WorkerOK' /\ UNCHANGED <<durable, filled, drawn>> /\ wpc[u] = "stale"
           /\ \/ Ends(u, "failed") /\ UNCHANGED visible
              \/ /\ EndsOrGoes(u, "stale")
                 /\ Shows(visible.root \ Temporaries, visible.gens, visible.link, NoGeneration)
  <1> USE Running
  <1>1. UNCHANGED <<durable, filled, drawn>> /\ wpc[u] = "stale"
    BY DEF remove_stale_temporaries, Fails
  <1>2. CASE Ends(u, "failed") /\ UNCHANGED visible
    BY <1>1, <1>2, EndsKeepsOK, FilesUntouched
  <1>3. CASE /\ visible' = [visible EXCEPT !.root = @ \ Temporaries, !.next = NoGeneration]
             /\ Passes(u, "stale")
    <2>1. Shows(visible.root \ Temporaries, visible.gens, visible.link, NoGeneration)
      BY <1>3 DEF Shows, Directory, Names, Targets
    <2>2. FilesOK'
      BY <1>1, <2>1 DEF Shows, FilesOK
    <2>3. EndsOrGoes(u, "stale")
      BY <1>3, PassesGoes DEF EndsOrGoes
    <2> QED BY <1>1, <2>1, <2>2, <2>3, PassesKeepsOK
  <1> QED BY <1>1, <1>2, <1>3 DEF remove_stale_temporaries, Fails, Proceeds

LEMMA EnableEffect ==
    ASSUME WorkerOK, NEW u \in Units, enable(u)
    PROVE  /\ WorkerOK' /\ UNCHANGED <<visible, durable, filled, drawn>>
           /\ wpc[u] = "may_enable" /\ u = "enable"
           /\ \/ Ends(u, "failed")
              \/ ResetPending \in visible.root /\ Ends(u, "refused")
              \/ visible.link # NoGeneration /\ ~Complete(visible) /\ Ends(u, "invalid")
              \/ ResetPending \notin visible.root /\ visible.link = NoGeneration /\ Goes(u, "list_old")
              \/ ResetPending \notin visible.root /\ Complete(visible) /\ Goes(u, "create")
  <1> USE Running
  <1>1. UNCHANGED <<visible, durable, filled, drawn>> /\ wpc[u] = "may_enable" /\ u = "enable"
    BY DEF enable, Runs
  <1>2. FilesOK'
    BY <1>1, FilesUntouched
  <1>3. \/ Ends(u, "failed")
        \/ ResetPending \in visible.root /\ Ends(u, "refused")
        \/ visible.link # NoGeneration /\ ~Complete(visible) /\ Ends(u, "invalid")
        \/ ResetPending \notin visible.root /\ visible.link = NoGeneration /\ Goes(u, "list_old")
        \/ ResetPending \notin visible.root /\ Complete(visible) /\ Goes(u, "create")
    BY <1>1, PassesGoes, PlainFollows, CleanedFollows
    DEF enable, Proceeds, current_identity, marker_exists
  <1>4. {"list_old", "create"} \subseteq Steps /\ Runs(u, "list_old") /\ Runs(u, "create")
    BY <1>1 DEF Steps, Identity, Runs
  <1>5. ProcessOK'
    BY <1>3, <1>4, EndsIsTyped, GoesIsTyped, WorkerParts
  <1> QED BY <1>1, <1>2, <1>3, <1>5, WorkerParts, PTL

LEMMA CreateEffect ==
    ASSUME WorkerOK, NEW u \in Units, create_marker(u)
    PROVE  /\ WorkerOK' /\ UNCHANGED <<durable, filled, drawn>>
           /\ wpc[u] = "create" /\ u \in {"enable", "boot_reset"}
           /\ \/ Ends(u, "failed") /\ UNCHANGED visible
              \/ Marker(u) \in visible.root /\ EndsOrGoes(u, "sync_create") /\ UNCHANGED visible
              \/ /\ Temporary[Marker(u)] \in visible.root /\ Ends(u, "collision")
                 /\ \/ UNCHANGED visible
                    \/ Shows(visible.root \ {Temporary[Marker(u)]}, visible.gens, visible.link,
                             visible.next)
              \/ /\ Goes(u, "rename")
                 /\ Shows(visible.root \cup {Temporary[Marker(u)]}, visible.gens, visible.link,
                          visible.next)
  <1> DEFINE temp == Temporary[Marker(u)]
             name == Marker(u)
  <1>r. /\ visible \in Directory /\ visible.root \in SUBSET Names /\ temp \in Names
        /\ {"failed", "collision"} \subseteq Outcomes /\ FilesOK /\ Runs(u, wpc[u])
    BY Running
  <1>1. UNCHANGED <<durable, filled, drawn>> /\ wpc[u] = "create"
    BY DEF create_marker, Fails
  <1>2. u \in {"enable", "boot_reset"} /\ "rename" \in Steps /\ Runs(u, "rename")
        /\ "create" \in Steps \ {"idle"} /\ Runs(u, "create")
        /\ "sync_create" \in Steps \ {"idle"} /\ Runs(u, "sync_create")
    BY <1>1, <1>r DEF Runs, Steps, Identity
  <1>3. CASE UNCHANGED visible /\ (Ends(u, "failed") \/ (temp \in visible.root /\ Ends(u, "collision")))
    BY <1>r, <1>1, <1>2, <1>3, EndsKeepsOK, FilesUntouched
  <1>4. CASE UNCHANGED visible /\ name \in visible.root /\ Passes(u, "sync_create")
    <2>1. EndsOrGoes(u, "sync_create")
      BY <1>4, PassesGoes DEF EndsOrGoes
    <2> QED BY <1>r, <1>1, <1>2, <1>4, <2>1, PassesKeepsOK, FilesUntouched
  <1>5. CASE visible' = [visible EXCEPT !.root = @ \cup {temp}] /\ Passes(u, "create")
    <2>1. visible.root \cup {temp} \in SUBSET Names
      BY <1>r
    <2>2. Shows(visible.root \cup {temp}, visible.gens, visible.link, visible.next)
      BY <1>5, <1>r, <2>1, RootEdited DEF Shows
    <2>3. FilesOK'
      BY <1>1, <1>r, <2>2 DEF Shows, FilesOK
    <2>4. EndsOrGoes(u, "create") /\ Goes(u, "rename")
      BY <1>5, PassesGoes, PlainFollows DEF EndsOrGoes
    <2> QED BY <1>1, <1>2, <2>2, <2>3, <2>4, PassesKeepsOK
  <1>6. CASE /\ temp \in visible.root /\ Ends(u, "collision")
             /\ visible' = [visible EXCEPT !.root = @ \ {temp}]
    <2>1. visible.root \ {temp} \in SUBSET Names
      BY <1>r
    <2>2. Shows(visible.root \ {temp}, visible.gens, visible.link, visible.next)
      BY <1>6, <1>r, <2>1, RootEdited DEF Shows
    <2>3. FilesOK'
      BY <1>1, <1>r, <2>2 DEF Shows, FilesOK
    <2> QED BY <1>r, <1>1, <1>2, <1>6, <2>2, <2>3, EndsKeepsOK
  <1> QED BY <1>1, <1>3, <1>4, <1>5, <1>6 DEF create_marker, Fails, Proceeds, marker_exists

LEMMA RenameEffect ==
    ASSUME WorkerOK, NEW u \in Units, rename_marker(u)
    PROVE  /\ WorkerOK' /\ UNCHANGED <<durable, filled, drawn>>
           /\ wpc[u] = "rename" /\ u \in {"enable", "boot_reset"}
           /\ \/ Ends(u, "failed") /\ UNCHANGED visible
              \/ /\ Ends(u, "failed")
                 /\ Shows(visible.root \ {Temporary[Marker(u)]}, visible.gens, visible.link,
                          visible.next)
              \/ /\ Goes(u, "sync_create")
                 /\ Shows((visible.root \ {Temporary[Marker(u)]}) \cup {Marker(u)}, visible.gens,
                          visible.link, visible.next)
  <1> DEFINE temp == Temporary[Marker(u)]
             name == Marker(u)
             gone == [visible EXCEPT !.root = @ \ {temp}]
  <1>r. /\ visible \in Directory /\ visible.root \in SUBSET Names /\ temp \in Names
        /\ name \in Names /\ "failed" \in Outcomes /\ FilesOK /\ Runs(u, wpc[u])
    BY Running
  <1>1. UNCHANGED <<durable, filled, drawn>> /\ wpc[u] = "rename"
    BY DEF rename_marker, Fails
  <1>2. u \in {"enable", "boot_reset"} /\ "rename" \in Steps \ {"idle"} /\ Runs(u, "rename")
    BY <1>1, <1>r DEF Runs, Steps, Identity
  <1>3. /\ gone \in Directory /\ gone.root = visible.root \ {temp}
        /\ gone.gens = visible.gens /\ gone.link = visible.link /\ gone.next = visible.next
    BY <1>r, RootEdited
  <1> HIDE DEF gone
  <1>4. CASE visible' = gone /\ Ends(u, "failed")
    <2>1. Shows(visible.root \ {temp}, visible.gens, visible.link, visible.next)
      BY <1>3, <1>4 DEF Shows
    <2>2. FilesOK'
      BY <1>1, <1>r, <2>1 DEF Shows, FilesOK
    <2> QED BY <1>r, <1>1, <1>2, <1>4, <2>1, <2>2, EndsKeepsOK
  <1>5. CASE visible' = [gone EXCEPT !.root = @ \cup {name}] /\ Passes(u, "rename")
    <2>1. gone.root \cup {name} \in SUBSET Names
      BY <1>r, <1>3
    <2>2. Shows((visible.root \ {temp}) \cup {name}, visible.gens, visible.link, visible.next)
      BY <1>3, <1>5, <2>1, RootEdited DEF Shows
    <2>3. FilesOK'
      BY <1>1, <1>r, <2>2 DEF Shows, FilesOK
    <2>4. EndsOrGoes(u, "rename") /\ Goes(u, "sync_create")
      BY <1>5, PassesGoes, PlainFollows DEF EndsOrGoes
    <2> QED BY <1>1, <1>2, <2>2, <2>3, <2>4, PassesKeepsOK
  <1>6. CASE UNCHANGED visible /\ Ends(u, "failed")
    BY <1>r, <1>1, <1>2, <1>6, EndsKeepsOK, FilesUntouched
  <1> QED BY <1>1, <1>4, <1>5, <1>6 DEF rename_marker, Fails, Proceeds, gone

LEMMA UnlinkEffect ==
    ASSUME WorkerOK, NEW u \in Units, remove_marker(u)
    PROVE  /\ WorkerOK' /\ UNCHANGED <<durable, filled, drawn>>
           /\ wpc[u] = "unlink" /\ u \in {"disable", "boot_reset", "clear_reset"}
           /\ \/ Ends(u, "failed") /\ UNCHANGED visible
              \/ Marker(u) \notin visible.root /\ Ends(u, "success") /\ UNCHANGED visible
              \/ /\ Goes(u, "sync_unlink")
                 /\ Shows(visible.root \ {Marker(u)}, visible.gens, visible.link, visible.next)
  <1> DEFINE name == Marker(u)
  <1>r. /\ visible \in Directory /\ visible.root \in SUBSET Names
        /\ {"failed", "success"} \subseteq Outcomes /\ FilesOK /\ Runs(u, wpc[u])
    BY Running
  <1>1. UNCHANGED <<durable, filled, drawn>> /\ wpc[u] = "unlink"
    BY DEF remove_marker, Fails
  <1>2. /\ u \in {"disable", "boot_reset", "clear_reset"}
        /\ "unlink" \in Steps \ {"idle"} /\ Runs(u, "unlink")
    BY <1>1, <1>r DEF Runs, Steps, Identity
  <1>3. CASE UNCHANGED visible /\ Ends(u, "failed")
    BY <1>r, <1>1, <1>2, <1>3, EndsKeepsOK, FilesUntouched
  <1>4. CASE UNCHANGED visible /\ name \notin visible.root /\ Passes(u, "sync_unlink")
    <2>1. Ends(u, "success")
      BY <1>4, PassesGoes, PlainFollows
    <2> QED BY <1>r, <1>1, <1>2, <1>4, <2>1, EndsKeepsOK, FilesUntouched
  <1>5. CASE visible' = [visible EXCEPT !.root = @ \ {name}] /\ Passes(u, "unlink")
    <2>1. visible.root \ {name} \in SUBSET Names
      BY <1>r
    <2>2. Shows(visible.root \ {name}, visible.gens, visible.link, visible.next)
      BY <1>5, <1>r, <2>1, RootEdited DEF Shows
    <2>3. FilesOK'
      BY <1>1, <1>r, <2>2 DEF Shows, FilesOK
    <2>4. EndsOrGoes(u, "unlink") /\ Goes(u, "sync_unlink")
      BY <1>5, PassesGoes, PlainFollows DEF EndsOrGoes
    <2> QED BY <1>1, <1>2, <2>2, <2>3, <2>4, PassesKeepsOK
  <1> QED BY <1>1, <1>3, <1>4, <1>5 DEF remove_marker, Fails, Proceeds, marker_exists

LEMMA FsyncRootEffect ==
    ASSUME WorkerOK, NEW u \in Units, fsync_root(u)
    PROVE  /\ WorkerOK' /\ UNCHANGED <<visible, filled, drawn>>
           /\ wpc[u] \in {"sync_create", "sync_unlink"}
           /\ \/ Ends(u, "failed") /\ UNCHANGED durable
              \/ EndsOrGoes(u, wpc[u]) /\ durable' = RootSynced(visible)
  <1>r. /\ {"failed", "success"} \subseteq Outcomes /\ FilesOK /\ Runs(u, wpc[u])
    BY Running
  <1>1. UNCHANGED <<visible, filled, drawn>> /\ wpc[u] \in {"sync_create", "sync_unlink"}
    BY DEF fsync_root, Fails
  <1>2. wpc[u] \in Steps \ {"idle"}
    BY <1>1 DEF Steps
  <1>3. CASE UNCHANGED durable /\ Ends(u, "failed")
    BY <1>r, <1>1, <1>3, EndsKeepsOK, FilesUntouched
  <1>4. CASE durable' = RootSynced(visible) /\ Passes(u, wpc[u])
    <2>1. FilesOK'
      BY <1>r, <1>1, <1>4, Synced DEF FilesOK, WorkerOK
    <2>2. EndsOrGoes(u, wpc[u])
      BY <1>4, PassesGoes DEF EndsOrGoes
    <2> QED BY <1>r, <1>1, <1>2, <1>4, <2>1, <2>2, PassesKeepsOK
  <1> QED BY <1>1, <1>3, <1>4 DEF fsync_root, Fails, Proceeds

LEMMA FsyncTlsEffect ==
    ASSUME WorkerOK, NEW u \in Units, fsync_tls(u)
    PROVE  /\ WorkerOK' /\ UNCHANGED <<visible, filled, drawn>>
           /\ wpc[u] \in {"sync_swap", "sync_current"}
           /\ \/ Ends(u, "failed") /\ UNCHANGED durable
              \/ /\ durable' = TlsSynced(visible)
                 /\ \/ wpc[u] = "sync_swap" /\ Goes(u, "list_new")
                    \/ wpc[u] = "sync_current" /\ Goes(u, "reset_enrollment")
  <1>r. /\ {"failed", "success"} \subseteq Outcomes /\ FilesOK /\ Runs(u, wpc[u])
    BY Running
  <1>1. UNCHANGED <<visible, filled, drawn>> /\ wpc[u] \in {"sync_swap", "sync_current"}
    BY DEF fsync_tls, Fails
  <1>2. wpc[u] \in Steps \ {"idle"}
    BY <1>1 DEF Steps, Identity
  <1>3. CASE UNCHANGED durable /\ Ends(u, "failed")
    BY <1>r, <1>1, <1>3, EndsKeepsOK, FilesUntouched
  <1>4. CASE durable' = TlsSynced(visible) /\ Passes(u, wpc[u])
    <2>1. FilesOK'
      BY <1>r, <1>1, <1>4, Synced DEF FilesOK, WorkerOK
    <2>2. /\ EndsOrGoes(u, wpc[u])
          /\ \/ wpc[u] = "sync_swap" /\ Goes(u, "list_new")
             \/ wpc[u] = "sync_current" /\ Goes(u, "reset_enrollment")
      BY <1>1, <1>4, PassesGoes, PlainFollows DEF EndsOrGoes
    <2> QED BY <1>r, <1>1, <1>2, <1>4, <2>1, <2>2, PassesKeepsOK
  <1> QED BY <1>1, <1>3, <1>4 DEF fsync_tls, Fails, Proceeds

(* Process u takes what tls/current names now for the generation to keep. *)
Takes(u, s) ==
    /\ wpc' = [wpc EXCEPT ![u] = s]
    /\ wref' = [wref EXCEPT ![u] = visible.link]
    /\ UNCHANGED <<wgen, outcome>>

LEMMA ListEffect ==
    ASSUME WorkerOK, NEW u \in Units, list_generations(u)
    PROVE  /\ WorkerOK' /\ UNCHANGED <<visible, durable, filled, drawn>>
           /\ wpc[u] \in {"list_old", "list_new"}
           /\ \/ Ends(u, "failed")
              \/ wpc[u] = "list_old" /\ visible.gens \subseteq {visible.link} /\ Goes(u, "mkdir")
              \/ /\ wpc[u] = "list_new" /\ visible.gens \subseteq {visible.link}
                 /\ EndsOrGoes(u, "clean_new")
              \/ wpc[u] = "list_old" /\ Takes(u, "clean_old")
              \/ wpc[u] = "list_new" /\ Takes(u, "clean_new")
  <1>r. /\ {"failed", "success"} \subseteq Outcomes /\ FilesOK /\ Runs(u, wpc[u])
        /\ visible.link \in Targets
    BY Running
  <1>1. /\ UNCHANGED <<visible, durable, filled, drawn>> /\ FilesOK'
        /\ wpc[u] \in {"list_old", "list_new"}
    BY <1>r, FilesUntouched DEF list_generations
  <1>2. /\ {"clean_old", "clean_new"} \subseteq Steps \ {"idle"}
        /\ wpc[u] = "list_old" => Runs(u, "clean_old") /\ Follows(u, wpc[u]) = "clean_old"
        /\ wpc[u] = "list_new" => Runs(u, "clean_new") /\ Follows(u, wpc[u]) = "clean_new"
    BY <1>1, <1>r, PlainFollows DEF Steps, Identity, Runs
  <1>3. CASE Ends(u, "failed")
    BY <1>r, <1>1, <1>3, EndsKeepsOK
  <1>4. CASE wpc[u] = "list_old" /\ visible.gens \subseteq {visible.link} /\ Passes(u, "clean_old")
    <2>1. EndsOrGoes(u, "clean_old") /\ Goes(u, "mkdir")
      BY <1>4, PassesGoes, PlainFollows DEF EndsOrGoes
    <2> QED BY <1>1, <1>2, <1>4, <2>1, PassesKeepsOK
  <1>5. CASE wpc[u] = "list_new" /\ visible.gens \subseteq {visible.link} /\ Passes(u, "clean_new")
    <2>1. EndsOrGoes(u, "clean_new")
      BY <1>5, PassesGoes DEF EndsOrGoes
    <2> QED BY <1>1, <1>2, <1>5, <2>1, PassesKeepsOK
  <1>6. ASSUME NEW s \in {"clean_old", "clean_new"}, Runs(u, s), Takes(u, s)
        PROVE  WorkerOK'
    <2>1. ProcessOK
      BY WorkerParts
    <2>2. s \in Steps
      BY <1>2
    <2>3. ProcessOK'
      BY <1>r, <1>6, <2>1, <2>2 DEF ProcessOK, Takes, FlowOK
    <2> QED BY <1>1, <2>3, WorkerParts, PTL
  <1>7. CASE /\ wref' = [wref EXCEPT ![u] = visible.link]
             /\ wpc' = [wpc EXCEPT ![u] = Follows(u, wpc[u])]
             /\ UNCHANGED <<wgen, outcome>>
    <2>1. \/ wpc[u] = "list_old" /\ Takes(u, "clean_old") /\ Runs(u, "clean_old")
          \/ wpc[u] = "list_new" /\ Takes(u, "clean_new") /\ Runs(u, "clean_new")
      BY <1>1, <1>2, <1>7 DEF Takes
    <2> QED BY <1>1, <1>6, <2>1
  <1> QED BY <1>1, <1>2, <1>3, <1>4, <1>5, <1>7 DEF list_generations

LEMMA CleanEffect ==
    ASSUME WorkerOK, NEW u \in Units, remove_unreferenced_generations(u)
    PROVE  /\ WorkerOK' /\ UNCHANGED <<filled, drawn>>
           /\ wpc[u] \in {"clean_old", "clean_new"}
           /\ \/ Ends(u, "failed") /\ UNCHANGED <<visible, durable>>
              \/ /\ \E g \in visible.gens \ {wref[u]} :
                      Shows(visible.root, visible.gens \ {g}, visible.link, visible.next)
                 /\ UNCHANGED <<durable, wpc, wgen, wref, outcome>>
              \/ /\ visible.gens \subseteq {wref[u]} /\ durable' = TlsSynced(visible)
                 /\ UNCHANGED visible
                 /\ \/ wpc[u] = "clean_old" /\ Goes(u, "mkdir")
                    \/ wpc[u] = "clean_new" /\ EndsOrGoes(u, "clean_new")
  <1>r. /\ {"failed", "success"} \subseteq Outcomes /\ FilesOK /\ Runs(u, wpc[u])
        /\ visible \in Directory /\ visible.gens \in SUBSET Generations
    BY Running
  <1>1. UNCHANGED <<filled, drawn>> /\ wpc[u] \in {"clean_old", "clean_new"}
    BY DEF remove_unreferenced_generations, Fails
  <1>2. wpc[u] \in Steps \ {"idle"}
    BY <1>1 DEF Steps, Identity
  <1>3. CASE UNCHANGED <<visible, durable>> /\ Ends(u, "failed")
    BY <1>r, <1>1, <1>3, EndsKeepsOK, FilesUntouched
  <1>4. CASE /\ \E g \in visible.gens \ {wref[u]} : visible' = [visible EXCEPT !.gens = @ \ {g}]
             /\ UNCHANGED <<durable, wpc, wgen, wref, outcome>>
    <2>1. PICK g \in visible.gens \ {wref[u]} : visible' = [visible EXCEPT !.gens = @ \ {g}]
      BY <1>4
    <2>2. visible.gens \ {g} \in SUBSET Generations
      BY <1>r
    <2>3. Shows(visible.root, visible.gens \ {g}, visible.link, visible.next)
      BY <1>r, <2>1, <2>2, GensEdited DEF Shows
    <2>4. FilesOK'
      BY <1>r, <1>1, <1>4, <2>3 DEF Shows, FilesOK
    <2>5. ProcessOK /\ ProcessOK'
      BY <1>4, WorkerParts DEF ProcessOK, FlowOK
    <2>6. WorkerOK'
      BY <2>4, <2>5, WorkerParts, PTL
    <2> QED BY <1>1, <1>4, <2>3, <2>6
  <1>5. CASE /\ visible.gens \ {wref[u]} = {} /\ durable' = TlsSynced(visible)
             /\ Passes(u, wpc[u]) /\ UNCHANGED visible
    <2>1. FilesOK'
      BY <1>r, <1>1, <1>5, Synced DEF FilesOK, WorkerOK
    <2>2. /\ EndsOrGoes(u, wpc[u])
          /\ \/ wpc[u] = "clean_old" /\ Goes(u, "mkdir")
             \/ wpc[u] = "clean_new" /\ EndsOrGoes(u, "clean_new")
      BY <1>1, <1>5, PassesGoes, PlainFollows DEF EndsOrGoes
    <2>3. visible.gens \subseteq {wref[u]}
      BY <1>5
    <2> QED BY <1>r, <1>1, <1>2, <1>5, <2>1, <2>2, <2>3, PassesKeepsOK
  <1> QED BY <1>1, <1>3, <1>4, <1>5 DEF remove_unreferenced_generations, Fails, Proceeds

(* Process u creates the directory of a name drawn for the first time. *)
Draws(u, g) ==
    /\ g \notin drawn /\ drawn' = drawn \cup {g}
    /\ wpc' = [wpc EXCEPT ![u] = "fill"]
    /\ wgen' = [wgen EXCEPT ![u] = g]
    /\ UNCHANGED <<durable, filled, wref, outcome>>
    /\ Shows(visible.root, visible.gens \cup {g}, visible.link, visible.next)

LEMMA MakeEffect ==
    ASSUME WorkerOK, NEW u \in Units, make_generation(u)
    PROVE  /\ WorkerOK' /\ wpc[u] = "mkdir"
           /\ \/ Ends(u, "failed") /\ UNCHANGED <<visible, durable, filled, drawn>>
              \/ \E g \in Generations : Draws(u, g)
  <1>r. /\ {"failed", "success"} \subseteq Outcomes /\ FilesOK /\ Runs(u, wpc[u])
        /\ visible \in Directory /\ visible.gens \in SUBSET Generations
    BY Running
  <1>1. wpc[u] = "mkdir"
    BY DEF make_generation
  <1>2. CASE UNCHANGED <<visible, durable, filled, drawn>> /\ Ends(u, "failed")
    BY <1>r, <1>1, <1>2, EndsKeepsOK, FilesUntouched
  <1>3. CASE \E g \in Generations \ drawn :
            /\ drawn' = drawn \cup {g}
            /\ visible' = [visible EXCEPT !.gens = @ \cup {g}]
            /\ wgen' = [wgen EXCEPT ![u] = g]
            /\ wpc' = [wpc EXCEPT ![u] = Follows(u, "mkdir")]
            /\ UNCHANGED <<durable, filled, wref, outcome>>
    <2>1. PICK g \in Generations \ drawn :
            /\ drawn' = drawn \cup {g}
            /\ visible' = [visible EXCEPT !.gens = @ \cup {g}]
            /\ wgen' = [wgen EXCEPT ![u] = g]
            /\ wpc' = [wpc EXCEPT ![u] = Follows(u, "mkdir")]
            /\ UNCHANGED <<durable, filled, wref, outcome>>
      BY <1>3
    <2>2. visible.gens \cup {g} \in SUBSET Generations
      BY <1>r
    <2>3. Draws(u, g)
      BY <1>r, <2>1, <2>2, GensEdited, PlainFollows DEF Shows, Draws
    <2>4. FilesOK'
      BY <1>r, <2>1, <2>3 DEF Shows, FilesOK, Draws
    <2>5. ProcessOK /\ "fill" \in Steps /\ Runs(u, "fill")
      BY <1>1, <1>r, WorkerParts DEF Steps, Identity, Runs
    <2>6. ProcessOK'
      BY <2>3, <2>5 DEF ProcessOK, FlowOK, Draws, Targets
    <2>7. WorkerOK'
      BY <2>4, <2>6, WorkerParts, PTL
    <2> QED BY <1>1, <2>3, <2>7
  <1> QED BY <1>1, <1>2, <1>3 DEF make_generation, Fails

LEMMA FillEffect ==
    ASSUME WorkerOK, NEW u \in Units, fill_generation(u)
    PROVE  /\ WorkerOK' /\ UNCHANGED <<durable, drawn>> /\ wpc[u] = "fill"
           /\ \/ /\ wgen[u] \in visible.gens /\ filled' = filled \cup {wgen[u]}
                 /\ Goes(u, "symlink") /\ UNCHANGED visible
              \/ /\ Ends(u, "failed") /\ UNCHANGED filled
                 /\ \E gens \in SUBSET visible.gens :
                      /\ visible.gens \ {wgen[u]} \subseteq gens
                      /\ Shows(visible.root, gens, visible.link, visible.next)
  <1>r. /\ {"failed", "success"} \subseteq Outcomes /\ FilesOK /\ Runs(u, wpc[u])
        /\ visible \in Directory /\ visible.gens \in SUBSET Generations
    BY Running
  <1>1. UNCHANGED <<durable, drawn>> /\ wpc[u] = "fill"
    BY DEF fill_generation, Fails
  <1>2. "fill" \in Steps \ {"idle"} /\ Runs(u, "fill")
    BY <1>1, <1>r DEF Steps, Identity
  <1>3. CASE /\ wgen[u] \in visible.gens /\ filled' = filled \cup {wgen[u]}
             /\ Passes(u, "fill") /\ UNCHANGED visible
    <2>1. FilesOK'
      BY <1>r, <1>1, <1>3 DEF FilesOK
    <2>2. EndsOrGoes(u, "fill") /\ Goes(u, "symlink")
      BY <1>3, PassesGoes, PlainFollows DEF EndsOrGoes
    <2> QED BY <1>r, <1>1, <1>2, <1>3, <2>1, <2>2, PassesKeepsOK
  <1>4. ASSUME NEW kept \in {{}, {wgen[u]}},
               Fails(u, [visible EXCEPT !.gens = (@ \ {wgen[u]}) \cup (@ \cap kept)])
        PROVE  /\ WorkerOK' /\ Ends(u, "failed") /\ UNCHANGED filled
               /\ \E gens \in SUBSET visible.gens :
                      /\ visible.gens \ {wgen[u]} \subseteq gens
                      /\ Shows(visible.root, gens, visible.link, visible.next)
    <2> DEFINE gens == (visible.gens \ {wgen[u]}) \cup (visible.gens \cap kept)
    <2>1. /\ gens \in SUBSET visible.gens /\ visible.gens \ {wgen[u]} \subseteq gens
          /\ gens \in SUBSET Generations
      BY <1>r
    <2>2. visible' = [visible EXCEPT !.gens = gens] /\ Ends(u, "failed") /\ UNCHANGED filled
      BY <1>4 DEF Fails
    <2> HIDE DEF gens
    <2>3. Shows(visible.root, gens, visible.link, visible.next)
      BY <1>r, <2>1, <2>2, GensEdited DEF Shows
    <2>4. FilesOK'
      BY <1>r, <1>1, <2>2, <2>3 DEF Shows, FilesOK
    <2> QED BY <1>r, <2>1, <2>2, <2>3, <2>4, EndsKeepsOK
  <1> QED BY <1>1, <1>3, <1>4 DEF fill_generation, Proceeds

LEMMA SymlinkEffect ==
    ASSUME WorkerOK, NEW u \in Units, symlink(u)
    PROVE  /\ WorkerOK' /\ UNCHANGED <<durable, filled, drawn>> /\ wpc[u] = "symlink"
           /\ \/ Ends(u, "failed") /\ UNCHANGED visible
              \/ /\ visible.next # NoGeneration /\ Ends(u, "collision")
                 /\ \/ UNCHANGED visible
                    \/ Shows(visible.root, visible.gens, visible.link, NoGeneration)
              \/ /\ Goes(u, "swap")
                 /\ Shows(visible.root, visible.gens, visible.link, wgen[u])
  <1>r. /\ {"failed", "collision"} \subseteq Outcomes /\ FilesOK /\ Runs(u, wpc[u])
        /\ visible \in Directory /\ wgen[u] \in Targets /\ NoGeneration \in Targets
    BY Running
  <1>1. UNCHANGED <<durable, filled, drawn>> /\ wpc[u] = "symlink"
    BY DEF symlink, Fails
  <1>2. "symlink" \in Steps \ {"idle"} /\ Runs(u, "symlink")
    BY <1>1, <1>r DEF Steps, Identity
  <1>3. CASE /\ Ends(u, "failed") \/ (visible.next # NoGeneration /\ Ends(u, "collision"))
             /\ UNCHANGED visible
    BY <1>r, <1>1, <1>3, EndsKeepsOK, FilesUntouched
  <1>4. CASE visible' = [visible EXCEPT !.next = wgen[u]] /\ Passes(u, "symlink")
    <2>1. Shows(visible.root, visible.gens, visible.link, wgen[u])
      BY <1>r, <1>4, NextEdited DEF Shows
    <2>2. FilesOK'
      BY <1>r, <1>1, <2>1 DEF FilesOK, Shows
    <2>3. EndsOrGoes(u, "symlink") /\ Goes(u, "swap")
      BY <1>4, PassesGoes, PlainFollows DEF EndsOrGoes
    <2> QED BY <1>1, <1>2, <2>1, <2>2, <2>3, PassesKeepsOK
  <1>5. CASE /\ visible.next # NoGeneration /\ Ends(u, "collision")
             /\ visible' = [visible EXCEPT !.next = NoGeneration]
    <2>1. Shows(visible.root, visible.gens, visible.link, NoGeneration)
      BY <1>r, <1>5, NextEdited DEF Shows
    <2>2. FilesOK'
      BY <1>r, <1>1, <2>1 DEF FilesOK, Shows
    <2> QED BY <1>r, <1>1, <1>5, <2>1, <2>2, EndsKeepsOK
  <1> QED BY <1>1, <1>3, <1>4, <1>5 DEF symlink, Fails, Proceeds

LEMMA SwapEffect ==
    ASSUME WorkerOK, NEW u \in Units, swap_current(u)
    PROVE  /\ WorkerOK' /\ UNCHANGED <<durable, filled, drawn>> /\ wpc[u] = "swap"
           /\ \/ Ends(u, "failed") /\ UNCHANGED visible
              \/ /\ Ends(u, "failed")
                 /\ Shows(visible.root, visible.gens, visible.link, NoGeneration)
              \/ /\ visible.next # NoGeneration /\ Goes(u, "sync_swap")
                 /\ Shows(visible.root, visible.gens, visible.next, NoGeneration)
  <1> DEFINE gone == [visible EXCEPT !.next = NoGeneration]
  <1>r. /\ "failed" \in Outcomes /\ FilesOK /\ Runs(u, wpc[u])
        /\ visible \in Directory /\ visible.next \in Targets /\ NoGeneration \in Targets
    BY Running
  <1>1. UNCHANGED <<durable, filled, drawn>> /\ wpc[u] = "swap"
    BY DEF swap_current, Fails
  <1>2. "swap" \in Steps \ {"idle"} /\ Runs(u, "swap")
    BY <1>1, <1>r DEF Steps, Identity
  <1>3. /\ gone \in Directory /\ gone.root = visible.root /\ gone.gens = visible.gens
        /\ gone.link = visible.link /\ gone.next = NoGeneration
    BY <1>r, NextEdited
  <1> HIDE DEF gone
  <1>4. CASE visible' = gone /\ Ends(u, "failed")
    <2>1. Shows(visible.root, visible.gens, visible.link, NoGeneration)
      BY <1>3, <1>4 DEF Shows
    <2>2. FilesOK'
      BY <1>1, <1>r, <2>1 DEF Shows, FilesOK
    <2> QED BY <1>r, <1>1, <1>4, <2>1, <2>2, EndsKeepsOK
  <1>5. CASE /\ visible.next # NoGeneration
             /\ visible' = [gone EXCEPT !.link = visible.next] /\ Passes(u, "swap")
    <2>1. Shows(visible.root, visible.gens, visible.next, NoGeneration)
      BY <1>r, <1>3, <1>5, LinkEdited DEF Shows
    <2>2. FilesOK'
      BY <1>1, <1>r, <2>1 DEF Shows, FilesOK
    <2>3. EndsOrGoes(u, "swap") /\ Goes(u, "sync_swap")
      BY <1>5, PassesGoes, PlainFollows DEF EndsOrGoes
    <2> QED BY <1>1, <1>2, <1>5, <2>1, <2>2, <2>3, PassesKeepsOK
  <1>6. CASE UNCHANGED visible /\ Ends(u, "failed")
    BY <1>r, <1>1, <1>6, EndsKeepsOK, FilesUntouched
  <1> QED BY <1>1, <1>4, <1>5, <1>6 DEF swap_current, Fails, Proceeds, gone

LEMMA RemoveCurrentEffect ==
    ASSUME WorkerOK, NEW u \in Units, remove_current(u)
    PROVE  /\ WorkerOK' /\ UNCHANGED <<durable, filled, drawn>>
           /\ wpc[u] = "unlink_current" /\ u = "boot_reset"
           /\ \/ Ends(u, "failed") /\ UNCHANGED visible
              \/ /\ visible.link = NoGeneration /\ Goes(u, "reset_enrollment")
                 /\ UNCHANGED visible
              \/ /\ Goes(u, "sync_current")
                 /\ Shows(visible.root, visible.gens, NoGeneration, visible.next)
  <1>r. /\ "failed" \in Outcomes /\ FilesOK /\ Runs(u, wpc[u])
        /\ visible \in Directory /\ NoGeneration \in Targets
    BY Running
  <1>1. UNCHANGED <<durable, filled, drawn>> /\ wpc[u] = "unlink_current"
    BY DEF remove_current, Fails
  <1>2. /\ u = "boot_reset" /\ {"unlink_current", "sync_current"} \subseteq Steps \ {"idle"}
        /\ Runs(u, "unlink_current") /\ Runs(u, "sync_current")
    BY <1>1, <1>r DEF Steps, Identity, Runs
  <1>3. CASE Ends(u, "failed") /\ UNCHANGED visible
    BY <1>r, <1>1, <1>2, <1>3, EndsKeepsOK, FilesUntouched
  <1>4. CASE visible.link = NoGeneration /\ UNCHANGED visible /\ Passes(u, "sync_current")
    <2>1. EndsOrGoes(u, "sync_current") /\ Goes(u, "reset_enrollment")
      BY <1>4, PassesGoes, PlainFollows DEF EndsOrGoes
    <2> QED BY <1>r, <1>1, <1>2, <1>4, <2>1, PassesKeepsOK, FilesUntouched
  <1>5. CASE visible' = [visible EXCEPT !.link = NoGeneration] /\ Passes(u, "unlink_current")
    <2>1. Shows(visible.root, visible.gens, NoGeneration, visible.next)
      BY <1>r, <1>5, LinkEdited DEF Shows
    <2>2. FilesOK'
      BY <1>1, <1>r, <2>1 DEF Shows, FilesOK
    <2>3. EndsOrGoes(u, "unlink_current") /\ Goes(u, "sync_current")
      BY <1>5, PassesGoes, PlainFollows DEF EndsOrGoes
    <2> QED BY <1>1, <1>2, <2>1, <2>2, <2>3, PassesKeepsOK
  <1> QED BY <1>1, <1>3, <1>4, <1>5 DEF remove_current, Fails, Proceeds

(* Every step of a worker keeps the types. *)
LEMMA StepKeepsOK ==
    ASSUME WorkerOK, NEW u \in Units, WorkerStep(u)
    PROVE  WorkerOK'
  BY StaleEffect, EnableEffect, CreateEffect, RenameEffect, UnlinkEffect, FsyncRootEffect,
     ListEffect, CleanEffect, MakeEffect, FillEffect, SymlinkEffect, SwapEffect,
     RemoveCurrentEffect, FsyncTlsEffect DEF WorkerStep

LEMMA StartKeepsOK ==
    ASSUME WorkerOK, NEW u \in Units, StartWorker(u)
    PROVE  WorkerOK'
  <1>1. FilesOK /\ ProcessOK
    BY WorkerParts
  <1>2. FilesOK'
    BY <1>1, FilesUntouched DEF StartWorker
  <1>3. ProcessOK'
    BY <1>1 DEF ProcessOK, StartWorker, FlowOK, Runs, Steps, Outcomes
  <1> QED BY <1>2, <1>3, WorkerParts, PTL

LEMMA CollectKeepsOK ==
    ASSUME WorkerOK, NEW u \in Units, CollectWorker(u)
    PROVE  WorkerOK'
  <1>1. FilesOK /\ ProcessOK
    BY WorkerParts
  <1>2. FilesOK'
    BY <1>1, FilesUntouched DEF CollectWorker
  <1>3. ProcessOK'
    BY <1>1 DEF ProcessOK, CollectWorker, FlowOK, Outcomes
  <1> QED BY <1>2, <1>3, WorkerParts, PTL

LEMMA WritebackKeepsOK ==
    ASSUME WorkerOK, Writeback
    PROVE  WorkerOK'
  <1>1. FilesOK /\ ProcessOK
    BY WorkerParts
  <1>2. FilesOK'
    BY <1>1, Synced DEF Writeback, FilesOK, WorkerOK
  <1>3. ProcessOK'
    BY <1>1 DEF ProcessOK, Writeback, FlowOK
  <1> QED BY <1>2, <1>3, WorkerParts, PTL

LEMMA CrashKeepsOK ==
    ASSUME WorkerOK, WorkersCrash
    PROVE  WorkerOK'
  <1>1. FilesOK /\ ProcessOK
    BY WorkerParts
  <1>2. FilesOK'
    BY <1>1 DEF WorkersCrash, FilesOK
  <1>3. ProcessOK'
    BY <1>1 DEF ProcessOK, WorkersCrash, FlowOK, Runs, Steps, Outcomes, Targets
  <1> QED BY <1>2, <1>3, WorkerParts, PTL

LEMMA ResetsEffect ==
    ASSUME WorkerOK, WorkerResets
    PROVE  /\ WorkerOK' /\ wpc["boot_reset"] = "reset_enrollment"
           /\ UNCHANGED <<visible, durable, filled, drawn>>
           /\ \/ ResetEnrollment /\ Goes("boot_reset", "list_new")
              \/ ResetEnrollment /\ Ends("boot_reset", "failed")
              \/ Ends("boot_reset", "failed") /\ UNCHANGED authVars
  <1>1. /\ "boot_reset" \in Units /\ "failed" \in Outcomes /\ "list_new" \in Steps
        /\ Runs("boot_reset", "list_new") /\ wpc["boot_reset"] = "reset_enrollment"
        /\ UNCHANGED <<visible, durable, filled, drawn>>
    BY DEF Units, Outcomes, Steps, Identity, Runs, WorkerResets
  <1>2. FilesOK /\ ProcessOK /\ FilesOK'
    BY <1>1, WorkerParts, FilesUntouched
  <1>3. \/ ResetEnrollment /\ Goes("boot_reset", "list_new")
        \/ ResetEnrollment /\ Ends("boot_reset", "failed")
        \/ Ends("boot_reset", "failed") /\ UNCHANGED authVars
    BY <1>1, PassesGoes, PlainFollows DEF WorkerResets, Proceeds
  <1>4. ProcessOK'
    BY <1>1, <1>2, <1>3, EndsIsTyped, GoesIsTyped
  <1>5. WorkerOK'
    BY <1>2, <1>4, WorkerParts, PTL
  <1> QED BY <1>1, <1>3, <1>5

-----------------------------------------------------------------------------
(* The place of a method in its sequence. *)

PlaceOK ==
    /\ call \in Methods \cup {"none"} /\ at \in 1 .. 8
    /\ call = "none" => at = 1
    /\ call = "enable" => at \in 1 .. 4
    /\ call = "disable" => at \in 1 .. 3
    /\ call = "enrollment" => at \in 1 .. 4

LEMMA Lengths ==
    /\ Len(Sequence["enable"]) = 4 /\ Len(Sequence["disable"]) = 3
    /\ Len(Sequence["reenroll"]) = 8 /\ Len(Sequence["enrollment"]) = 4
  BY DEF Sequence

LEMMA SequenceSteps ==
    /\ Sequence["enable"][1] = "check_reset" /\ Sequence["enable"][2] = "enable"
    /\ Sequence["enable"][3] = "ensure" /\ Sequence["enable"][4] = "start"
    /\ Sequence["disable"][1] = "disable" /\ Sequence["disable"][2] = "stop"
    /\ Sequence["disable"][3] = "cancel"
    /\ Sequence["reenroll"][1] = "stop" /\ Sequence["reenroll"][2] = "reset"
    /\ Sequence["reenroll"][3] = "rotate" /\ Sequence["reenroll"][4] = "read_enabled"
    /\ Sequence["reenroll"][5] = "ensure" /\ Sequence["reenroll"][6] = "read_reset"
    /\ Sequence["reenroll"][7] = "clear" /\ Sequence["reenroll"][8] = "start"
    /\ Sequence["enrollment"][1] = "network" /\ Sequence["enrollment"][2] = "fingerprint"
    /\ Sequence["enrollment"][3] = "pairing" /\ Sequence["enrollment"][4] = "show"
  BY DEF Sequence

(* Where each step stands. *)
LEMMA Places ==
    ASSUME PlaceOK
    PROVE  /\ On("check_reset") <=> call = "enable" /\ at = 1
           /\ On("enable") <=> call = "enable" /\ at = 2
           /\ On("ensure") <=> (call = "enable" /\ at = 3) \/ (call = "reenroll" /\ at = 5)
           /\ On("start") <=> (call = "enable" /\ at = 4) \/ (call = "reenroll" /\ at = 8)
           /\ On("disable") <=> call = "disable" /\ at = 1
           /\ On("stop") <=> (call = "disable" /\ at = 2) \/ (call = "reenroll" /\ at = 1)
           /\ On("cancel") <=> call = "disable" /\ at = 3
           /\ On("reset") <=> call = "reenroll" /\ at = 2
           /\ On("rotate") <=> call = "reenroll" /\ at = 3
           /\ On("read_enabled") <=> call = "reenroll" /\ at = 4
           /\ On("read_reset") <=> call = "reenroll" /\ at = 6
           /\ On("clear") <=> call = "reenroll" /\ at = 7
           /\ On("network") <=> call = "enrollment" /\ at = 1
           /\ On("fingerprint") <=> call = "enrollment" /\ at = 2
           /\ On("pairing") <=> call = "enrollment" /\ at = 3
           /\ On("show") <=> call = "enrollment" /\ at = 4
  <1>1. CASE call = "none"
    BY <1>1 DEF On
  <1>2. CASE call = "enable"
    <2>1. at \in {1, 2, 3, 4}
      BY <1>2 DEF PlaceOK
    <2> QED BY <1>2, <2>1, SequenceSteps DEF On
  <1>3. CASE call = "disable"
    <2>1. at \in {1, 2, 3}
      BY <1>3 DEF PlaceOK
    <2> QED BY <1>3, <2>1, SequenceSteps DEF On
  <1>4. CASE call = "reenroll"
    <2>1. at \in {1, 2, 3, 4, 5, 6, 7, 8}
      BY <1>4 DEF PlaceOK
    <2> QED BY <1>4, <2>1, SequenceSteps DEF On
  <1>5. CASE call = "enrollment"
    <2>1. at \in {1, 2, 3, 4}
      BY <1>5 DEF PlaceOK
    <2> QED BY <1>5, <2>1, SequenceSteps DEF On
  <1> QED BY <1>1, <1>2, <1>3, <1>4, <1>5 DEF PlaceOK, Methods

(* Which worker unit a method is on. *)
LEMMA WorkerPlaces ==
    ASSUME PlaceOK
    PROVE  /\ OnWorker <=> \/ call = "enable" /\ at = 2
                           \/ call = "disable" /\ at = 1
                           \/ call = "reenroll" /\ at \in {3, 7}
           /\ call = "enable" /\ at = 2 => ItsUnit = "enable"
           /\ call = "disable" /\ at = 1 => ItsUnit = "disable"
           /\ call = "reenroll" /\ at = 3 => ItsUnit = "rotate"
           /\ call = "reenroll" /\ at = 7 => ItsUnit = "clear_reset"
  <1>1. CASE call = "none"
    BY <1>1 DEF OnWorker
  <1>2. CASE call = "enable"
    <2>1. at \in {1, 2, 3, 4}
      BY <1>2 DEF PlaceOK
    <2> QED BY <1>2, <2>1, SequenceSteps DEF OnWorker, ItsUnit, Unit
  <1>3. CASE call = "disable"
    <2>1. at \in {1, 2, 3}
      BY <1>3 DEF PlaceOK
    <2> QED BY <1>3, <2>1, SequenceSteps DEF OnWorker, ItsUnit, Unit
  <1>4. CASE call = "reenroll"
    <2>1. at \in {1, 2, 3, 4, 5, 6, 7, 8}
      BY <1>4 DEF PlaceOK
    <2> QED BY <1>4, <2>1, SequenceSteps DEF OnWorker, ItsUnit, Unit
  <1>5. CASE call = "enrollment"
    <2>1. at \in {1, 2, 3, 4}
      BY <1>5 DEF PlaceOK
    <2> QED BY <1>5, <2>1, SequenceSteps DEF OnWorker, ItsUnit, Unit
  <1> QED BY <1>1, <1>2, <1>3, <1>4, <1>5 DEF PlaceOK, Methods

LEMMA AdvancesEffect ==
    ASSUME PlaceOK, call # "none", Advances
    PROVE  \/ /\ Returns("ok")
              /\ \/ call \in {"enable", "enrollment"} /\ at = 4
                 \/ call = "disable" /\ at = 3
                 \/ call = "reenroll" /\ at = 8
           \/ /\ at' = at + 1 /\ at < 8 /\ waiting' = "no" /\ UNCHANGED <<call, saw, shown, reply>>
              /\ call \in {"enable", "enrollment"} => at < 4
              /\ call = "disable" => at < 3
  <1>1. CASE call = "enable"
    BY <1>1, Lengths DEF Advances, PlaceOK
  <1>2. CASE call = "disable"
    BY <1>2, Lengths DEF Advances, PlaceOK
  <1>3. CASE call = "reenroll"
    BY <1>3, Lengths DEF Advances, PlaceOK
  <1>4. CASE call = "enrollment"
    BY <1>4, Lengths DEF Advances, PlaceOK
  <1> QED BY <1>1, <1>2, <1>3, <1>4 DEF PlaceOK, Methods

-----------------------------------------------------------------------------
(* What a worker's step leaves alone. *)

(* The processes of the other units. *)
OthersKept(u) ==
    \A v \in Units \ {u} :
        wpc'[v] = wpc[v] /\ wgen'[v] = wgen[v] /\ wref'[v] = wref[v] /\ outcome'[v] = outcome[v]

LEMMA EndsKeepsOthers ==
    ASSUME WorkerOK, NEW u \in Units, NEW r, Ends(u, r)
    PROVE  /\ OthersKept(u) /\ wpc'[u] = "idle" /\ outcome'[u] = r
           /\ wgen'[u] = NoGeneration /\ wref'[u] = NoGeneration
  BY DEF WorkerOK, WorkerTypeOK, Ends, OthersKept

LEMMA GoesKeepsOthers ==
    ASSUME WorkerOK, NEW u \in Units, NEW s, Goes(u, s)
    PROVE  /\ OthersKept(u) /\ wpc'[u] = s /\ outcome'[u] = outcome[u]
           /\ wgen'[u] = wgen[u] /\ wref'[u] = wref[u]
  BY DEF WorkerOK, WorkerTypeOK, Goes, OthersKept

LEMMA EndsOrGoesKeepsOthers ==
    ASSUME WorkerOK, NEW u \in Units, NEW s, EndsOrGoes(u, s)
    PROVE  OthersKept(u)
  BY EndsKeepsOthers, GoesKeepsOthers DEF EndsOrGoes

LEMMA TakesKeepsOthers ==
    ASSUME WorkerOK, NEW u \in Units, NEW s, Takes(u, s)
    PROVE  /\ OthersKept(u) /\ wpc'[u] = s /\ outcome'[u] = outcome[u]
           /\ wgen'[u] = wgen[u] /\ wref'[u] = visible.link
  BY DEF WorkerOK, WorkerTypeOK, Takes, OthersKept

LEMMA DrawsKeepsOthers ==
    ASSUME WorkerOK, NEW u \in Units, NEW g, Draws(u, g)
    PROVE  /\ OthersKept(u) /\ wpc'[u] = "fill" /\ outcome'[u] = outcome[u]
           /\ wgen'[u] = g /\ wref'[u] = wref[u]
  BY DEF WorkerOK, WorkerTypeOK, Draws, OthersKept

(* A step is taken by a process that runs, and moves no other. *)
LEMMA StepOfOne ==
    ASSUME WorkerOK, NEW u \in Units, WorkerStep(u)
    PROVE  wpc[u] # "idle" /\ OthersKept(u)
  <1> USE EndsKeepsOthers, GoesKeepsOthers, EndsOrGoesKeepsOthers
  <1>1. CASE remove_stale_temporaries(u)
    BY <1>1, StaleEffect
  <1>2. CASE enable(u)
    BY <1>2, EnableEffect
  <1>3. CASE create_marker(u)
    BY <1>3, CreateEffect
  <1>4. CASE rename_marker(u)
    BY <1>4, RenameEffect
  <1>5. CASE remove_marker(u)
    BY <1>5, UnlinkEffect
  <1>6. CASE fsync_root(u)
    BY <1>6, FsyncRootEffect
  <1>7. CASE list_generations(u)
    BY <1>7, ListEffect, TakesKeepsOthers
  <1>8. CASE remove_unreferenced_generations(u)
    BY <1>8, CleanEffect DEF OthersKept
  <1>9. CASE make_generation(u)
    BY <1>9, MakeEffect, DrawsKeepsOthers
  <1>10. CASE fill_generation(u)
    BY <1>10, FillEffect
  <1>11. CASE symlink(u)
    BY <1>11, SymlinkEffect
  <1>12. CASE swap_current(u)
    BY <1>12, SwapEffect
  <1>13. CASE remove_current(u)
    BY <1>13, RemoveCurrentEffect
  <1>14. CASE fsync_tls(u)
    BY <1>14, FsyncTlsEffect
  <1> QED BY <1>1, <1>2, <1>3, <1>4, <1>5, <1>6, <1>7, <1>8, <1>9, <1>10, <1>11, <1>12,
             <1>13, <1>14 DEF WorkerStep

(* Each marker is created by one unit's rename and removed by an unlink. *)
MarkersMove(u) ==
    /\ Enabled \in visible.root /\ Enabled \notin visible'.root => u = "disable"
    /\ Enabled \notin visible.root /\ Enabled \in visible'.root => u = "enable"
    /\ ResetPending \in visible.root /\ ResetPending \notin visible'.root =>
         u \in {"boot_reset", "clear_reset"} /\ wpc[u] = "unlink"
    /\ ResetPending \notin visible.root /\ ResetPending \in visible'.root => u = "boot_reset"

LEMMA StepMovesMarkers ==
    ASSUME WorkerOK, NEW u \in Units, WorkerStep(u)
    PROVE  MarkersMove(u)
  <1> USE NamesDiffer DEF MarkersMove, Shows
  <1>1. CASE remove_stale_temporaries(u)
    BY <1>1, StaleEffect
  <1>2. CASE enable(u)
    BY <1>2, EnableEffect
  <1>3. CASE create_marker(u)
    <2>1. Temporary[Marker(u)] \notin {Enabled, ResetPending}
      BY DEF Temporary, Marker, Enabled, ResetPending
    <2> QED BY <1>3, <2>1, CreateEffect
  <1>4. CASE rename_marker(u)
    <2>1. Temporary[Marker(u)] \notin {Enabled, ResetPending}
      BY DEF Temporary, Marker, Enabled, ResetPending
    <2>2. u \in {"enable", "boot_reset"}
      BY <1>4, RenameEffect
    <2>3. u = "enable" => Marker(u) = Enabled
      BY DEF Marker
    <2>4. u = "boot_reset" => Marker(u) = ResetPending
      BY DEF Marker
    <2> QED BY <1>4, <2>1, <2>2, <2>3, <2>4, RenameEffect
  <1>5. CASE remove_marker(u)
    <2>1. u \in {"disable", "boot_reset", "clear_reset"}
      BY <1>5, UnlinkEffect
    <2>2. Marker(u) = IF u = "disable" THEN Enabled ELSE ResetPending
      BY <2>1 DEF Marker
    <2> QED BY <1>5, <2>1, <2>2, UnlinkEffect
  <1>6. CASE fsync_root(u)
    BY <1>6, FsyncRootEffect
  <1>7. CASE list_generations(u)
    BY <1>7, ListEffect
  <1>8. CASE remove_unreferenced_generations(u)
    BY <1>8, CleanEffect
  <1>9. CASE make_generation(u)
    BY <1>9, MakeEffect DEF Draws
  <1>10. CASE fill_generation(u)
    BY <1>10, FillEffect
  <1>11. CASE symlink(u)
    BY <1>11, SymlinkEffect
  <1>12. CASE swap_current(u)
    BY <1>12, SwapEffect
  <1>13. CASE remove_current(u)
    BY <1>13, RemoveCurrentEffect
  <1>14. CASE fsync_tls(u)
    BY <1>14, FsyncTlsEffect
  <1> QED BY <1>1, <1>2, <1>3, <1>4, <1>5, <1>6, <1>7, <1>8, <1>9, <1>10, <1>11, <1>12,
             <1>13, <1>14 DEF WorkerStep

-----------------------------------------------------------------------------
(* What holds whatever overruns: types, and systemd's bookkeeping. *)

Readings == [fingerprint : Targets, code : {"none", "pending"}]

(* A method's place and what it has read. *)
PlatformOK ==
    /\ PlaceOK
    /\ waiting \in {"no", "yes"}
    /\ saw \in SUBSET {Enabled, ResetPending}
    /\ shown \in Readings
    /\ reply \in {"none", "ok", "error"}
    /\ call # "none" => phase = "up"
    /\ call = "none" => waiting = "no" /\ saw = {} /\ shown = NothingShown
    /\ waiting = "yes" => ~Skipped

(* sl-remoted only runs once the boot reset is over, and serves only then. *)
SystemdOK ==
    /\ phase \in {"off", "booting", "up"}
    /\ cmdline \in {"none", "reset"}
    /\ boot_unit \in {"idle", "running", "done", "failed"}
    /\ remoted \in {"inactive", "queued", "active", "stopping", "restarting"}
    /\ serving \in Targets
    /\ phase = "off" => boot_unit = "idle" /\ remoted = "inactive"
    /\ boot_unit # "idle" => cmdline = "reset"
    /\ boot_unit = "failed" => remoted = "inactive"
    /\ remoted \in {"active", "stopping", "restarting"} => boot_unit \in {"idle", "done"}
    /\ serving # NoGeneration => remoted \in {"active", "stopping"}
    /\ wpc["boot_reset"] # "idle" => boot_unit = "running"

AuthOK == account \in {"none", "enrolled"} /\ pairing \in {"none", "pending"}

(* A call is late only after an overrun. *)
LateOK ==
    /\ late \in [Members -> Nat]
    /\ overruns = 0 => late = NoneLate

HistoryOK ==
    /\ overruns \in 0 .. OVERRUNS
    /\ torn \in BOOLEAN
    /\ admin \in {"unknown", "on", "off", "on, torn", "off, torn"}
    /\ before \in SUBSET (Generations \cup Credentials)
    /\ condemned \in SUBSET (Generations \cup Credentials)
    /\ moments \in SUBSET Targets
    /\ issued \in BOOLEAN
    /\ issued => overruns > 0

Base == WorkerOK /\ PlatformOK /\ SystemdOK /\ AuthOK /\ LateOK /\ HistoryOK

(* The steps without their histories, a late call apart. *)
Acts ==
    \/ \E method \in Methods : Call(method)
    \/ PlatformStep \/ worker_timeout \/ start_timeout
    \/ \E u \in Units : WorkerRuns(u)
    \/ WorkerResets
    \/ SystemdStep \/ BootResetRetried
    \/ Environment

Late == \E member \in Members : LateCall(member)

LEMMA TimeoutActs ==
    ASSUME NEW member \in Members, auth_timeout(member)
    PROVE  Acts
  <1>1. CASE StepFails
    BY <1>1 DEF Acts, PlatformStep
  <1>2. CASE /\ wpc["boot_reset"] = "reset_enrollment" /\ Ends("boot_reset", "failed")
             /\ UNCHANGED <<visible, durable, filled, drawn, platformVars, systemdVars, authVars>>
    BY <1>2 DEF Acts, WorkerResets
  <1> QED BY <1>1, <1>2 DEF auth_timeout

LEMMA NextActs ==
    ASSUME Next
    PROVE  /\ Acts \/ Late
           /\ HistoryStep
           /\ \/ UNCHANGED overruns
              \/ overruns < OVERRUNS /\ overruns' = overruns + 1
  BY TimeoutActs DEF Next, Acts, Late, Overrun

(* A call that takes effect late moves sl-authd alone. *)
LEMMA LateEffect ==
    ASSUME Late
    PROVE  /\ UNCHANGED <<workerVars, platformVars, systemdVars>>
           /\ EnsurePendingPairing \/ ResetEnrollment \/ CancelPendingPairing
  BY DEF Late, LateCall

LEMMA SkippedPlaces ==
    ASSUME PlaceOK
    PROVE  Skipped <=> /\ call = "reenroll"
                       /\ \/ at \in {5, 8} /\ Enabled \notin saw
                          \/ at = 7 /\ ResetPending \notin saw
  BY Places DEF Skipped

(* On to the next step. *)
Onward ==
    /\ call # "none" /\ call' = call /\ at' = at + 1 /\ waiting' = "no" /\ reply' = reply
    /\ at < 8
    /\ call \in {"enable", "enrollment"} => at < 4
    /\ call = "disable" => at < 3
    /\ saw' \in SUBSET {Enabled, ResetPending} /\ shown' \in Readings

Begins(method) ==
    /\ call = "none" /\ phase = "up" /\ call' = method /\ reply' = "none"
    /\ UNCHANGED <<at, waiting, saw, shown>>

PlatformMoves ==
    \/ UNCHANGED platformVars
    \/ \E method \in Methods : Begins(method)
    \/ \E result \in {"none", "ok", "error"} : Returns(result)
    \/ Onward
    \/ Waits /\ call # "none" /\ ~Skipped

LEMMA AdvancesMoves ==
    ASSUME PlatformOK, call # "none", Advances
    PROVE  Onward \/ Returns("ok")
  BY AdvancesEffect DEF PlatformOK, Onward

LEMMA ActsMovePlatform ==
    ASSUME Base, Acts
    PROVE  /\ PlatformMoves
           /\ phase' = phase \/ (UNCHANGED platformVars /\ phase # "up") \/ call' = "none"
  <1>1. PlatformOK /\ PlaceOK /\ visible.link \in Targets
    <2>1. "enable" \in Units /\ WorkerOK
      BY DEF Base, Units
    <2> QED BY <2>1, Running DEF Base, PlatformOK
  <1> USE DEF PlatformMoves, platformVars, systemdVars
  <1>2. CASE \E method \in Methods : Call(method)
    BY <1>2 DEF Call, Begins
  <1>3. CASE StepFails
    BY <1>3 DEF StepFails
  <1>4. CASE skip
    BY <1>1, <1>4, AdvancesMoves DEF skip, Skipped
  <1>5. CASE check_reset
    BY <1>1, <1>5, AdvancesMoves DEF check_reset, Due, On
  <1>6. CASE read_marker
    <2>1. call = "reenroll" /\ at \in {4, 6} /\ waiting = "no"
      BY <1>1, <1>6, Places DEF read_marker, Due
    <2>2. /\ UNCHANGED <<phase, call, waiting, shown, reply>> /\ at' = at + 1
          /\ saw' \in SUBSET {Enabled, ResetPending}
      BY <1>1, <1>6 DEF read_marker, PlatformOK
    <2>3. Onward
      BY <1>1, <2>1, <2>2 DEF Onward, PlatformOK
    <2> QED BY <2>2, <2>3
  <1>7. CASE run_worker
    BY <1>1, <1>7 DEF run_worker, Due, On
  <1>8. CASE worker_ended
    BY <1>1, <1>8, AdvancesMoves DEF worker_ended, OnWorker
  <1>9. CASE auth
    BY <1>1, <1>9, AdvancesMoves DEF auth, Due, On
  <1>10. CASE start_remoted
    BY <1>1, <1>10, AdvancesMoves DEF start_remoted, Due, On, QueueRemoted
  <1>11. CASE start_done
    BY <1>1, <1>11, AdvancesMoves DEF start_done, On
  <1>12. CASE start_timeout
    BY <1>12 DEF start_timeout
  <1>13. CASE stop_remoted
    BY <1>1, <1>13, AdvancesMoves DEF stop_remoted, Due, On
  <1>14. CASE stop_done
    BY <1>1, <1>14, AdvancesMoves DEF stop_done, On
  <1>15. CASE stop_timeout
    BY <1>15 DEF stop_timeout
  <1>16. CASE enrollment_network
    BY <1>1, <1>16, AdvancesMoves DEF enrollment_network, Due, On
  <1>17. CASE fingerprint
    <2>1. call = "enrollment" /\ at = 2 /\ waiting = "no"
      BY <1>1, <1>17, Places DEF fingerprint, Due
    <2>2. [shown EXCEPT !.fingerprint = visible.link] \in Readings
      BY <1>1 DEF PlatformOK, Readings
    <2>3. Onward /\ phase' = phase
      BY <1>1, <1>17, <2>1, <2>2 DEF Onward, PlatformOK, fingerprint, Reads
    <2> QED BY <2>3
  <1>18. CASE pending_pairing
    <2>1. call = "enrollment" /\ at = 3 /\ waiting = "no"
      BY <1>1, <1>18, Places DEF pending_pairing, Due
    <2>2. [shown EXCEPT !.code = pairing] \in Readings
      BY <1>1 DEF PlatformOK, Readings, AuthOK, Base
    <2>3. Onward /\ phase' = phase
      BY <1>1, <1>18, <2>1, <2>2 DEF Onward, PlatformOK, pending_pairing, Reads
    <2> QED BY <2>3
  <1>19. CASE show
    BY <1>19 DEF show
  <1>20. CASE worker_timeout
    BY <1>20 DEF worker_timeout
  <1>21. CASE \E u \in Units : WorkerRuns(u)
    BY <1>21 DEF WorkerRuns
  <1>22. CASE WorkerResets
    BY <1>22 DEF WorkerResets
  <1>23. CASE SystemdStep
    BY <1>23 DEF SystemdStep, PlatformUp, BootUnitSettles, RemotedStarts, RemotedStops
  <1>24. CASE BootResetRetried
    BY <1>24 DEF BootResetRetried
  <1>25. CASE Crash
    BY <1>25 DEF Crash, Returns
  <1>26. CASE Environment /\ ~Crash
    BY <1>26 DEF Environment, Enroll, Expire, Boot, RemotedExits
  <1> QED BY <1>2, <1>3, <1>4, <1>5, <1>6, <1>7, <1>8, <1>9, <1>10, <1>11, <1>12, <1>13,
             <1>14, <1>15, <1>16, <1>17, <1>18, <1>19, <1>20, <1>21, <1>22, <1>23, <1>24,
             <1>25, <1>26 DEF Acts, PlatformStep, Environment

LEMMA NothingIsReading == NothingShown \in Readings
  BY DEF NothingShown, Readings, Targets

LEMMA PlatformKept ==
    ASSUME Base, Acts
    PROVE  PlatformOK'
  <1>1. PlatformOK /\ PlaceOK
    BY DEF Base, PlatformOK
  <1>2. /\ PlatformMoves
        /\ phase' = phase \/ (UNCHANGED platformVars /\ phase # "up") \/ call' = "none"
    BY ActsMovePlatform
  <1>3. CASE UNCHANGED platformVars
    BY <1>1, <1>2, <1>3
    DEF platformVars, PlatformOK, PlaceOK, Skipped, On
  <1>4. CASE \E method \in Methods : Begins(method)
    <2>1. PICK method \in Methods : Begins(method)
      BY <1>4
    <2>2. PlaceOK' /\ at' = 1 /\ call' # "none" /\ waiting' = "no" /\ phase' = "up"
      BY <1>1, <1>2, <2>1 DEF PlatformOK, PlaceOK, Begins, Methods, platformVars
    <2> QED BY <1>1, <2>1, <2>2 DEF PlatformOK, Begins
  <1>5. CASE \E result \in {"none", "ok", "error"} : Returns(result)
    BY <1>5, NothingIsReading DEF PlatformOK, PlaceOK, Returns
  <1>6. CASE Onward
    <2>1. PlaceOK' /\ call' # "none" /\ waiting' = "no"
      BY <1>1, <1>6 DEF PlaceOK, Onward
    <2>2. phase' = "up"
      BY <1>1, <1>2, <1>6 DEF PlatformOK, Onward
    <2> QED BY <1>1, <1>6, <2>1, <2>2 DEF PlatformOK, Onward
  <1>7. CASE Waits /\ call # "none" /\ ~Skipped
    <2>1. PlaceOK' /\ call' # "none" /\ waiting' = "yes"
      BY <1>1, <1>7 DEF PlaceOK, Waits
    <2>2. phase' = "up"
      BY <1>1, <1>2, <1>7, <2>1 DEF PlatformOK
    <2>3. ~Skipped'
      BY <1>7 DEF Waits, Skipped, On
    <2> QED BY <1>1, <1>7, <2>1, <2>2, <2>3 DEF PlatformOK, Waits
  <1> QED BY <1>2, <1>3, <1>4, <1>5, <1>6, <1>7 DEF PlatformMoves

(* What a step does to the boot reset's process when systemd is not involved. *)
LEMMA BootResetMoves ==
    ASSUME Base, NEW u \in Units, WorkerRuns(u)
    PROVE  wpc'["boot_reset"] # "idle" => wpc["boot_reset"] # "idle"
  BY StepOfOne DEF WorkerRuns, OthersKept, Base, Units

LEMMA ItsUnitIsOther ==
    ASSUME PlaceOK, OnWorker
    PROVE  ItsUnit \in Units \ {"boot_reset"}
  BY WorkerPlaces DEF Units

LEMMA WorkerKept ==
    ASSUME Base, Acts
    PROVE  WorkerOK'
  <1>1. /\ WorkerOK /\ "boot_reset" \in Units
        /\ OnWorker => ItsUnit \in Units
    BY ItsUnitIsOther DEF Base, PlatformOK, Units
  <1>2. ASSUME UNCHANGED workerVars PROVE WorkerOK'
    BY <1>1, <1>2 DEF workerVars, WorkerOK, WorkerTypeOK, FlowOK
  <1> HIDE DEF Base
  <1> USE <1>1, <1>2, StartKeepsOK, CollectKeepsOK
  <1>3. CASE \E method \in Methods : Call(method)
    BY <1>3 DEF Call
  <1>4. CASE PlatformStep /\ ~run_worker /\ ~worker_ended /\ ~start_remoted
    BY <1>4
    DEF PlatformStep, StepFails, skip, check_reset, read_marker, auth, start_done, start_timeout,
        stop_remoted, stop_done, stop_timeout, enrollment_network, fingerprint,
        pending_pairing, show, Reads
  <1>5. CASE run_worker
    BY <1>5 DEF run_worker
  <1>6. CASE worker_ended
    BY <1>6 DEF worker_ended
  <1>7. CASE start_remoted
    BY <1>7 DEF start_remoted, QueueRemoted
  <1>8. CASE worker_timeout \/ start_timeout
    BY <1>8 DEF worker_timeout, start_timeout
  <1>9. CASE \E u \in Units : WorkerRuns(u)
    BY <1>9, StepKeepsOK DEF WorkerRuns
  <1>10. CASE WorkerResets
    BY <1>10, ResetsEffect
  <1>11. CASE SystemdStep
    BY <1>11 DEF SystemdStep, PlatformUp, BootUnitSettles, RemotedStarts, RemotedStops
  <1>12. CASE BootResetRetried
    BY <1>12 DEF BootResetRetried
  <1>13. CASE Environment
    BY <1>13, CrashKeepsOK, WritebackKeepsOK
    DEF Environment, Enroll, Expire, Boot, RemotedExits, Crash
  <1> QED BY <1>3, <1>4, <1>5, <1>6, <1>7, <1>8, <1>9, <1>10, <1>11, <1>12, <1>13
          DEF Acts, PlatformStep

LEMMA SystemdKept ==
    ASSUME Base, Acts
    PROVE  SystemdOK'
  <1>1. SystemdOK /\ PlaceOK /\ wpc \in [Units -> Steps] /\ "boot_reset" \in Units
        /\ NoGeneration \in Targets /\ visible.link \in Targets
    <2>1. "boot_reset" \in Units /\ WorkerOK
      BY DEF Base, Units
    <2> QED BY <2>1, Running DEF Base, PlatformOK, WorkerOK, WorkerTypeOK
  <1>2. ASSUME UNCHANGED systemdVars, wpc'["boot_reset"] # "idle" => wpc["boot_reset"] # "idle"
        PROVE  SystemdOK'
    BY <1>1, <1>2 DEF SystemdOK, systemdVars
  <1>w. UNCHANGED workerVars => wpc'["boot_reset"] = wpc["boot_reset"]
    BY DEF workerVars
  <1>3. CASE \E method \in Methods : Call(method)
    BY <1>2, <1>3, <1>w DEF Call
  <1>4. CASE PlatformStep /\ ~run_worker /\ ~worker_ended /\ ~start_remoted /\ ~stop_remoted
    BY <1>2, <1>4, <1>w
    DEF PlatformStep, StepFails, skip, check_reset, read_marker, auth, start_done, start_timeout,
        stop_done, stop_timeout, enrollment_network, fingerprint,
        pending_pairing, show, Reads
  <1>5. CASE run_worker
    <2>1. UNCHANGED systemdVars /\ OnWorker
      BY <1>5 DEF run_worker
    <2>2. ItsUnit \in Units \ {"boot_reset"}
      BY <1>1, <2>1, ItsUnitIsOther
    <2>3. wpc'["boot_reset"] = wpc["boot_reset"]
      BY <1>1, <1>w, <1>5, <2>2 DEF run_worker, StartWorker
    <2> QED BY <1>2, <2>1, <2>3
  <1>6. CASE worker_ended
    BY <1>2, <1>6 DEF worker_ended, CollectWorker
  <1>7. CASE start_remoted
    <2>1. CASE UNCHANGED <<workerVars, systemdVars>>
      BY <1>2, <1>w, <2>1
    <2>2. CASE remoted = "inactive" /\ QueueRemoted
      <3>1. phase # "off"
        BY <1>7 DEF start_remoted, Due, On, Base, PlatformOK
      <3>2. CASE cmdline = "reset" /\ boot_unit = "failed"
        BY <1>1, <2>2, <3>1, <3>2 DEF SystemdOK, QueueRemoted, StartWorker
      <3>3. CASE ~(cmdline = "reset" /\ boot_unit = "failed")
        BY <1>1, <1>w, <2>2, <3>1, <3>3 DEF SystemdOK, QueueRemoted
      <3> QED BY <3>2, <3>3
    <2> QED BY <1>7, <2>1, <2>2 DEF start_remoted
  <1>8. CASE stop_remoted
    <2>1. /\ wpc'["boot_reset"] = wpc["boot_reset"] /\ UNCHANGED <<phase, cmdline, boot_unit, serving>>
          /\ \/ UNCHANGED remoted
             \/ remoted \in {"active", "restarting", "stopping"} /\ remoted' = "stopping"
      BY <1>w, <1>8 DEF stop_remoted
    <2> QED BY <1>1, <2>1 DEF SystemdOK
  <1>9. CASE worker_timeout \/ start_timeout
    BY <1>2, <1>9, <1>w DEF worker_timeout, start_timeout
  <1>10. CASE \E u \in Units : WorkerRuns(u)
    BY <1>2, <1>10, BootResetMoves DEF WorkerRuns
  <1>11. CASE WorkerResets
    <2>1. wpc["boot_reset"] # "idle" /\ UNCHANGED systemdVars
      BY <1>11 DEF WorkerResets
    <2> QED BY <1>2, <2>1
  <1>12. CASE PlatformUp
    BY <1>1, <1>12, <1>w DEF SystemdOK, PlatformUp
  <1>13. CASE BootUnitSettles
    BY <1>1, <1>13 DEF SystemdOK, BootUnitSettles, CollectWorker
  <1>14. CASE RemotedStarts
    <2>1. /\ wpc'["boot_reset"] = wpc["boot_reset"] /\ UNCHANGED <<phase, cmdline, boot_unit>>
          /\ remoted' \in {"inactive", "active", "restarting"}
          /\ serving' = IF remoted' = "active" THEN visible.link ELSE NoGeneration
          /\ remoted = "restarting" \/ (remoted = "queued" /\ boot_unit # "running")
      BY <1>w, <1>14 DEF RemotedStarts
    <2>2. phase # "off" /\ boot_unit \in {"idle", "done"}
      BY <1>1, <2>1 DEF SystemdOK
    <2> QED BY <1>1, <2>1, <2>2 DEF SystemdOK
  <1>15. CASE RemotedStops
    BY <1>1, <1>15, <1>w DEF SystemdOK, RemotedStops
  <1>16. CASE BootResetRetried
    BY <1>1, <1>16 DEF SystemdOK, BootResetRetried, StartWorker
  <1>17. CASE Boot
    <2>1. PICK argument \in {"reset", "none"} :
              /\ cmdline' = argument
              /\ IF argument = "reset"
                 THEN boot_unit' = "running" /\ StartWorker("boot_reset")
                 ELSE UNCHANGED <<boot_unit, workerVars>>
      BY <1>17 DEF Boot
    <2>2. phase = "off" /\ phase' = "booting" /\ remoted' = "queued" /\ UNCHANGED serving
      BY <1>17 DEF Boot
    <2>3. CASE argument = "reset"
      BY <1>1, <2>1, <2>2, <2>3 DEF SystemdOK, StartWorker
    <2>4. CASE argument = "none"
      BY <1>1, <1>w, <2>1, <2>2, <2>4 DEF SystemdOK
    <2> QED BY <2>3, <2>4
  <1>18. CASE RemotedExits
    BY <1>1, <1>18, <1>w DEF SystemdOK, RemotedExits
  <1>19. CASE Crash
    BY <1>1, <1>19 DEF SystemdOK, Crash, WorkersCrash
  <1>20. CASE Enroll \/ Expire
    BY <1>2, <1>20, <1>w DEF Enroll, Expire
  <1>21. CASE Writeback /\ UNCHANGED <<platformVars, systemdVars, authVars>>
    BY <1>2, <1>21 DEF Writeback
  <1> QED BY <1>3, <1>4, <1>5, <1>6, <1>7, <1>8, <1>9, <1>10, <1>11, <1>12, <1>13, <1>14,
             <1>15, <1>16, <1>17, <1>18, <1>19, <1>20, <1>21
          DEF Acts, PlatformStep, SystemdStep, Environment

(* What a step does to sl-authd's state. *)
AuthMoves ==
    \/ UNCHANGED authVars
    \/ ResetEnrollment
    \/ CancelPendingPairing
    \/ EnsurePendingPairing /\ Due("ensure")
    \/ account' = "enrolled" /\ pairing' = "none" /\ remoted = "active"

LEMMA ActsMoveAuth ==
    ASSUME Acts
    PROVE  AuthMoves
  <1> USE DEF AuthMoves
  <1>1. CASE \E method \in Methods : Call(method)
    BY <1>1 DEF Call
  <1>2. CASE PlatformStep /\ ~auth
    BY <1>2
    DEF PlatformStep, StepFails, skip, check_reset, read_marker, run_worker, worker_ended,
        start_remoted, start_done, start_timeout, stop_remoted, stop_done, stop_timeout,
        enrollment_network, fingerprint, pending_pairing, show, Reads
  <1>3. CASE auth
    BY <1>3 DEF auth
  <1>4. CASE worker_timeout \/ start_timeout
    BY <1>4 DEF worker_timeout, start_timeout
  <1>5. CASE \E u \in Units : WorkerRuns(u)
    BY <1>5 DEF WorkerRuns
  <1>6. CASE WorkerResets
    BY <1>6 DEF WorkerResets
  <1>7. CASE SystemdStep \/ BootResetRetried
    BY <1>7
    DEF SystemdStep, PlatformUp, BootUnitSettles, RemotedStarts, RemotedStops, BootResetRetried
  <1>8. CASE Environment
    BY <1>8
    DEF Environment, Enroll, Expire, Boot, RemotedExits, Crash, CancelPendingPairing
  <1> QED BY <1>1, <1>2, <1>3, <1>4, <1>5, <1>6, <1>7, <1>8 DEF Acts, PlatformStep

LEMMA AuthKept ==
    ASSUME Base, Acts \/ Late
    PROVE  AuthOK'
  BY ActsMoveAuth, LateEffect
  DEF AuthMoves, Base, AuthOK, authVars, ResetEnrollment, CancelPendingPairing,
      EnsurePendingPairing

LEMMA LateKept ==
    ASSUME Base, Next
    PROVE  LateOK'
  <1>0. LateOK /\ overruns \in 0 .. OVERRUNS
    BY Zenon DEF Base, HistoryOK
  <1>1. LateOK /\ overruns \in Nat
    BY <1>0, OverrunsAssumption
  <1>2. NoneLate \in [Members -> Nat] /\ \A member \in Members : NoneLate[member] = 0
    BY DEF NoneLate
  <1>3. CASE UNCHANGED overruns /\ late' \in {late, NoneLate}
    BY <1>1, <1>2, <1>3 DEF LateOK
  <1>4. CASE UNCHANGED overruns /\ Late
    <2>1. PICK member \in Members : late[member] > 0 /\ late' = [late EXCEPT ![member] = @ - 1]
      BY <1>4 DEF Late, LateCall
    <2>2. overruns # 0 /\ late[member] \in Nat \ {0}
      BY <1>1, <1>2, <2>1 DEF LateOK
    <2> QED BY <1>1, <1>4, <2>1, <2>2 DEF LateOK
  <1>5. CASE overruns' = overruns + 1 /\ UNCHANGED late
    BY <1>1, <1>5 DEF LateOK
  <1>6. CASE overruns' = overruns + 1 /\ \E member \in Members : auth_timeout(member)
    <2>1. PICK member \in Members : late' = [late EXCEPT ![member] = @ + 1]
      BY <1>6 DEF auth_timeout
    <2>2. late[member] + 1 \in Nat
      BY <1>1 DEF LateOK
    <2> QED BY <1>1, <1>6, <2>1, <2>2 DEF LateOK
  <1> QED BY <1>3, <1>4, <1>5, <1>6 DEF Next, Late

LEMMA HistoryKept ==
    ASSUME Base, Next, WorkerOK'
    PROVE  HistoryOK'
  <1>1. HistoryStep /\ HistoryOK
    BY NextActs DEF Base
  <1>2. overruns' \in 0 .. OVERRUNS
    <2>1. overruns \in 0 .. OVERRUNS
      BY <1>1 DEF HistoryOK
    <2>2. UNCHANGED overruns \/ (overruns < OVERRUNS /\ overruns' = overruns + 1)
      BY NextActs
    <2> QED BY <2>1, <2>2, OverrunsAssumption
  <1>3. visible.gens \in SUBSET Generations /\ visible'.link \in Targets
    <2>1. visible \in Directory /\ visible' \in Directory
      BY DEF Base, WorkerOK, WorkerTypeOK
    <2> QED BY <2>1, DirectoryFields
  <1>4. torn' \in BOOLEAN
    BY <1>1 DEF HistoryStep
  <1>5. admin' \in {"unknown", "on", "off", "on, torn", "off, torn"}
    BY <1>1 DEF HistoryStep, HistoryOK
  <1>6. Existing \in SUBSET (Generations \cup Credentials)
    BY <1>3 DEF Existing, Credentials
  <1>7. before' \in SUBSET (Generations \cup Credentials)
    BY <1>1, <1>6 DEF HistoryStep, HistoryOK
  <1>8. condemned' \in SUBSET (Generations \cup Credentials)
    BY <1>1, <1>6 DEF HistoryStep, HistoryOK
  <1>9. moments' \in SUBSET Targets
    BY <1>1, <1>3 DEF HistoryStep, HistoryOK
  <1>10. issued' \in BOOLEAN
    BY <1>1 DEF HistoryStep
  <1>11. ASSUME issued' PROVE overruns' > 0
    <2>1. call = "enrollment" /\ (issued \/ (pairing = "none" /\ pairing' = "pending"))
      BY <1>1, <1>11 DEF HistoryStep
    <2>0. overruns \in 0 .. OVERRUNS /\ (issued => overruns > 0)
      BY <1>1, Zenon DEF HistoryOK
    <2>2. overruns \in Nat /\ overruns' \in {overruns, overruns + 1}
      BY <2>0, NextActs, OverrunsAssumption
    <2>3. ASSUME pairing = "none", pairing' = "pending" PROVE Late
      <3>1. ~Due("ensure")
        BY <2>1, Places DEF Base, PlatformOK, Due
      <3>2. ~AuthMoves
        BY <2>3, <3>1 DEF AuthMoves, authVars, ResetEnrollment, CancelPendingPairing
      <3> QED BY <3>2, NextActs, ActsMoveAuth
    <2>4. Late => overruns # 0
      BY DEF Base, LateOK, NoneLate, Late, LateCall
    <2>5. overruns > 0 \/ overruns # 0
      BY <2>0, <2>1, <2>3, <2>4, Zenon
    <2> QED BY <2>2, <2>5
  <1> QED BY <1>2, <1>4, <1>5, <1>7, <1>8, <1>9, <1>10, <1>11 DEF HistoryOK

LEMMA BaseStarts == Init => Base
  <1> SUFFICES ASSUME Init PROVE Base
    OBVIOUS
  <1>1. WorkerInit /\ overruns \in 0 .. OVERRUNS
    BY OverrunsAssumption DEF Init
  <1>2. Empty \in Directory
    BY DEF Empty, Directory
  <1>3. WorkerOK
    BY <1>1, <1>2 DEF WorkerInit, WorkerOK, WorkerTypeOK, FlowOK, Runs, Steps, Outcomes
  <1>4. PlatformOK
    BY NothingIsReading DEF Init, PlatformOK, PlaceOK
  <1>5. SystemdOK
    BY <1>1 DEF Init, SystemdOK, Targets, WorkerInit, Units
  <1>6. LateOK
    BY DEF Init, LateOK, NoneLate
  <1> QED BY <1>1, <1>3, <1>4, <1>5, <1>6 DEF Init, Base, AuthOK, HistoryOK

LEMMA BaseKept == Base /\ [Next]_vars => Base'
  <1> SUFFICES ASSUME Base, [Next]_vars PROVE Base'
    OBVIOUS
  <1>0. ASSUME UNCHANGED <<workerVars, platformVars, systemdVars>>
        PROVE  WorkerOK' /\ PlatformOK' /\ SystemdOK'
    <2>1. WorkerOK'
      BY <1>0 DEF workerVars, Base, WorkerOK, WorkerTypeOK, FlowOK
    <2>2. PlatformOK'
      BY <1>0 DEF platformVars, systemdVars, Base, PlatformOK, PlaceOK, Skipped, On
    <2>3. SystemdOK'
      BY <1>0 DEF workerVars, systemdVars, Base, SystemdOK
    <2> QED BY <2>1, <2>2, <2>3
  <1>1. CASE Next
    <2>1. Acts \/ Late
      BY <1>1, NextActs
    <2>2. WorkerOK' /\ PlatformOK' /\ SystemdOK' /\ AuthOK'
      BY <1>0, <2>1, WorkerKept, PlatformKept, SystemdKept, AuthKept, LateEffect
    <2> QED BY <1>1, <2>2, LateKept, HistoryKept DEF Base
  <1>2. CASE UNCHANGED vars
    <2>1. WorkerOK' /\ PlatformOK' /\ SystemdOK'
      BY <1>0, <1>2 DEF vars
    <2>2. AuthOK' /\ LateOK' /\ HistoryOK'
      BY <1>2 DEF vars, authVars, historyVars, Base, AuthOK, LateOK, HistoryOK
    <2> QED BY <2>1, <2>2 DEF Base
  <1> QED BY <1>1, <1>2

LEMMA BaseHolds == Spec => []Base
  BY BaseStarts, BaseKept, PTL DEF Spec

(* Every variable of the composition keeps its type, whatever the machine and *)
(* systemd do between the steps of the methods and of the workers.            *)
THEOREM LifecycleTyped == Spec => []TypeOK
  <1>1. Base => TypeOK
    BY DEF Base, WorkerOK, PlatformOK, PlaceOK, SystemdOK, AuthOK, LateOK, HistoryOK, TypeOK,
           Readings, Targets
  <1> QED BY <1>1, BaseHolds, PTL

-----------------------------------------------------------------------------
(* sl-remoted and a pending reset. *)

(* Who changes the state directory, and who sl-remoted's identity. *)
LEMMA ActsMoveFiles ==
    ASSUME Acts
    PROVE  /\ \/ \E u \in Units : WorkerRuns(u)
              \/ Crash
              \/ Writeback /\ UNCHANGED <<platformVars, systemdVars, authVars>>
              \/ UNCHANGED <<visible, durable, filled, drawn>>
           /\ UNCHANGED serving \/ serving' = NoGeneration \/ RemotedStarts
  <1> USE DEF workerVars, systemdVars, StartWorker, CollectWorker
  <1>1. CASE \E method \in Methods : Call(method)
    BY <1>1 DEF Call
  <1>2. CASE PlatformStep
    BY <1>2
    DEF PlatformStep, StepFails, skip, check_reset, read_marker, run_worker, worker_ended, auth,
        start_remoted, start_done, start_timeout, stop_remoted, stop_done, stop_timeout,
        enrollment_network, fingerprint, pending_pairing, show, Reads, QueueRemoted
  <1>3. CASE worker_timeout \/ start_timeout
    BY <1>3 DEF worker_timeout, start_timeout
  <1>4. CASE \E u \in Units : WorkerRuns(u)
    BY <1>4 DEF WorkerRuns
  <1>5. CASE WorkerResets
    BY <1>5 DEF WorkerResets
  <1>6. CASE SystemdStep \/ BootResetRetried
    BY <1>6
    DEF SystemdStep, PlatformUp, BootUnitSettles, RemotedStarts, RemotedStops, BootResetRetried
  <1>7. CASE Environment
    BY <1>7 DEF Environment, Enroll, Expire, Boot, RemotedExits, Crash
  <1> QED BY <1>1, <1>2, <1>3, <1>4, <1>5, <1>6, <1>7 DEF Acts

LEMMA SilenceKept ==
    ASSUME Base, SilentWhileResetPending, [Next]_vars
    PROVE  SilentWhileResetPending'
  <1> USE DEF SilentWhileResetPending, marker_exists
  <1>1. CASE UNCHANGED vars
    BY <1>1 DEF vars, workerVars, systemdVars
  <1>2. CASE \E u \in Units : WorkerRuns(u)
    <2>1. PICK u \in Units : WorkerRuns(u)
      BY <1>2
    <2>2. WorkerStep(u) /\ UNCHANGED serving
      BY <2>1 DEF WorkerRuns, systemdVars
    <2>3. MarkersMove(u) /\ wpc[u] # "idle"
      BY <2>2, StepMovesMarkers, StepOfOne DEF Base
    <2>4. u = "boot_reset" => serving = NoGeneration
      BY <2>3 DEF Base, SystemdOK
    <2> QED BY <2>2, <2>3, <2>4 DEF MarkersMove
  <1>3. CASE Crash
    BY <1>3 DEF Crash
  <1>4. CASE RemotedStarts
    BY <1>4 DEF RemotedStarts, StartConditions, workerVars
  <1>5. CASE UNCHANGED visible /\ (UNCHANGED serving \/ serving' = NoGeneration)
    BY <1>5
  <1>6. CASE Next
    <2>1. CASE Late
      BY <1>5, <2>1, LateEffect DEF workerVars, systemdVars
    <2>2. CASE Acts
      BY <1>2, <1>3, <1>4, <1>5, <2>2, ActsMoveFiles DEF Writeback
    <2> QED BY <1>6, <2>1, <2>2, NextActs
  <1> QED BY <1>1, <1>6

(* sl-remoted never runs while reset-pending exists, however many waits the   *)
(* methods have given up: the conditions of sl-remoted.service are evaluated  *)
(* only at its start, so this rests on Requires= and After= keeping it down   *)
(* while the boot reset, which alone creates the marker, is running.          *)
THEOREM SilentUnderReset == Spec => []SilentWhileResetPending
  <1>1. Init => SilentWhileResetPending
    BY DEF Init, SilentWhileResetPending
  <1>2. Base /\ SilentWhileResetPending /\ [Next]_vars => SilentWhileResetPending'
    BY SilenceKept
  <1> QED BY <1>1, <1>2, BaseHolds, PTL DEF Spec

-----------------------------------------------------------------------------
(* Until something overruns, one process at a time works on the directory. *)

(* A unit's process, or its result, belongs to the method that waits for it; *)
(* the boot reset runs before sl-platformd is up or for a method's start.    *)
Alone ==
    /\ \A u \in Units \ {"boot_reset"} :
          wpc[u] # "idle" \/ outcome[u] # "none" => OnWorker /\ waiting = "yes" /\ ItsUnit = u
    /\ boot_unit = "running" => phase = "booting" \/ (On("start") /\ waiting = "yes")

(* The steps that are no overrun. *)
QuietActs ==
    \/ \E method \in Methods : (remoted # "queued" \/ method = "enrollment") /\ Call(method)
    \/ PlatformStep
    \/ \E u \in Units : WorkerRuns(u)
    \/ WorkerResets
    \/ SystemdStep
    \/ Environment

LEMMA NextQuiet ==
    ASSUME Base, Next, overruns' = 0
    PROVE  overruns = 0 /\ QuietActs /\ Acts /\ HistoryStep
  <1>1. overruns \in 0 .. OVERRUNS /\ OVERRUNS \in Nat
    BY OverrunsAssumption DEF Base, HistoryOK
  <1>2. overruns' # overruns + 1
    BY <1>1
  <1>3. overruns = 0 /\ HistoryStep
    BY <1>1, <1>2, NextActs
  <1>4. ~Late
    BY <1>3 DEF Base, LateOK, NoneLate, Late, LateCall
  <1>5. QuietActs
    BY <1>2, <1>4 DEF Next, QuietActs, Late
  <1>6. Acts
    BY <1>4, NextActs
  <1> QED BY <1>3, <1>5, <1>6

(* No process but the boot reset's, and no result to be read. *)
NoneWorks == \A u \in Units \ {"boot_reset"} : wpc[u] = "idle" /\ outcome[u] = "none"

LEMMA NoneWorksWhenFree ==
    ASSUME Base, Alone, waiting = "no" \/ ~OnWorker
    PROVE  NoneWorks
  BY DEF Alone, NoneWorks

LEMMA SkipsBeforeWaiting ==
    ASSUME Base, Skipped
    PROVE  waiting = "no"
  BY DEF Base, PlatformOK

(* Both parts of Alone for a step that starts and moves no process. *)
LEMMA AloneWhenStill ==
    ASSUME Base, Alone, UNCHANGED <<wpc, outcome, boot_unit, phase>>,
           \/ UNCHANGED <<call, at, waiting>>
           \/ NoneWorks /\ boot_unit # "running"
    PROVE  Alone'
  BY DEF Alone, NoneWorks, OnWorker, ItsUnit, On

(* A method that is not waiting for a start is not overlapped by the boot reset. *)
LEMMA BootResetOver ==
    ASSUME Base, Alone, call # "none", waiting = "no" \/ ~On("start")
    PROVE  boot_unit # "running"
  BY DEF Alone, Base, PlatformOK

LEMMA AloneKept ==
    ASSUME Base, Alone, QuietActs
    PROVE  Alone'
  <1>1. /\ PlaceOK /\ wpc \in [Units -> Steps] /\ outcome \in [Units -> Outcomes]
        /\ "boot_reset" \in Units
    BY DEF Base, PlatformOK, WorkerOK, WorkerTypeOK, Units
  <1>2. ASSUME call # "none", waiting = "no", UNCHANGED <<workerVars, systemdVars>>
        PROVE  Alone'
    BY <1>2, AloneWhenStill, BootResetOver, NoneWorksWhenFree DEF workerVars, systemdVars
  <1>3. CASE \E method \in Methods : Call(method)
    <2>1. phase = "up" /\ call = "none" /\ UNCHANGED <<wpc, outcome, boot_unit, phase>>
      BY <1>3 DEF Call, workerVars, systemdVars
    <2>2. boot_unit # "running" /\ NoneWorks
      BY <2>1, NoneWorksWhenFree DEF Alone, On, OnWorker
    <2> QED BY <2>1, <2>2, AloneWhenStill
  <1>4. CASE \/ StepFails \/ skip \/ check_reset \/ auth \/ read_marker
             \/ enrollment_network \/ fingerprint \/ pending_pairing \/ show
    <2>1. call # "none" /\ waiting = "no"
      BY <1>4, SkipsBeforeWaiting
      DEF StepFails, skip, Skipped, check_reset, auth, read_marker, enrollment_network, fingerprint,
          pending_pairing, show, Due, On
    <2>2. UNCHANGED <<workerVars, systemdVars>>
      BY <1>4
      DEF StepFails, skip, check_reset, auth, read_marker, enrollment_network, fingerprint,
          pending_pairing, show, Reads
    <2> QED BY <1>2, <2>1, <2>2
  <1>5. CASE run_worker
    <2>1. OnWorker /\ call # "none" /\ waiting = "no" /\ UNCHANGED systemdVars
      BY <1>5 DEF run_worker, Due, OnWorker
    <2>2. CASE UNCHANGED workerVars
      BY <1>2, <2>1, <2>2
    <2>3. CASE StartWorker(ItsUnit) /\ Waits
      <3>1. NoneWorks /\ boot_unit # "running"
        BY <2>1, NoneWorksWhenFree, BootResetOver
      <3>2. ItsUnit \in Units /\ OnWorker' /\ waiting' = "yes" /\ ItsUnit' = ItsUnit
        BY <1>1, <2>1, <2>3, ItsUnitIsOther DEF Waits, OnWorker, ItsUnit
      <3>3. \A u \in Units \ {ItsUnit} : wpc'[u] = wpc[u] /\ outcome'[u] = outcome[u]
        BY <1>1, <2>3, <3>2 DEF StartWorker
      <3> QED BY <2>1, <3>1, <3>2, <3>3 DEF Alone, NoneWorks, systemdVars
    <2> QED BY <1>5, <2>2, <2>3 DEF run_worker
  <1>6. CASE worker_ended
    <2>1. /\ OnWorker /\ call # "none" /\ wpc[ItsUnit] = "idle" /\ CollectWorker(ItsUnit)
          /\ UNCHANGED systemdVars
      BY <1>6 DEF worker_ended, OnWorker
    <2>2. ItsUnit \in Units /\ ~On("start")
      BY <1>1, <2>1, ItsUnitIsOther, Places, WorkerPlaces
    <2>3. boot_unit # "running"
      BY <2>1, <2>2, BootResetOver
    <2>4. \A u \in Units \ {"boot_reset"} : wpc'[u] = "idle" /\ outcome'[u] = "none"
      BY <1>1, <2>1, <2>2 DEF Alone, CollectWorker
    <2> QED BY <2>1, <2>3, <2>4 DEF Alone, systemdVars
  <1>7. CASE start_remoted
    <2>1. call # "none" /\ waiting = "no" /\ On("start")
      BY <1>7 DEF start_remoted, Due, On
    <2>2. CASE UNCHANGED <<workerVars, systemdVars>>
      BY <1>2, <2>1, <2>2
    <2>3. CASE QueueRemoted /\ Waits
      <3>1. NoneWorks
        BY <2>1, NoneWorksWhenFree
      <3>2. \A u \in Units \ {"boot_reset"} : wpc'[u] = wpc[u] /\ outcome'[u] = outcome[u]
        BY <1>1, <2>3 DEF QueueRemoted, StartWorker, workerVars
      <3>3. On("start")' /\ waiting' = "yes"
        BY <2>1, <2>3 DEF Waits, On
      <3> QED BY <3>1, <3>2, <3>3 DEF Alone, NoneWorks
    <2> QED BY <1>7, <2>2, <2>3 DEF start_remoted
  <1>8. CASE start_done \/ (start_timeout /\ boot_unit # "running") \/ stop_done \/ stop_timeout
    <2>1. /\ call # "none" /\ (On("start") \/ On("stop"))
          /\ UNCHANGED <<wpc, outcome, boot_unit, phase>>
      BY <1>8 DEF start_done, start_timeout, stop_done, stop_timeout, On, workerVars, systemdVars
    <2>2. NoneWorks
      BY <1>1, <2>1, Places, WorkerPlaces, NoneWorksWhenFree
    <2>3. boot_unit # "running"
      <3>1. CASE start_done
        BY <3>1 DEF start_done, Base, SystemdOK
      <3>2. CASE stop_done \/ stop_timeout
        <4>1. On("stop") /\ call # "none"
          BY <3>2 DEF stop_done, stop_timeout, On
        <4>2. ~On("start")
          BY <1>1, <4>1, Places
        <4> QED BY <4>1, <4>2, BootResetOver
      <3> QED BY <1>8, <3>1, <3>2
    <2> QED BY <2>1, <2>2, <2>3, AloneWhenStill
  <1>9. CASE stop_remoted
    <2>1. call # "none" /\ waiting = "no" /\ UNCHANGED <<wpc, outcome, boot_unit, phase>>
      BY <1>9 DEF stop_remoted, Due, On, workerVars
    <2> QED BY <2>1, AloneWhenStill, BootResetOver, NoneWorksWhenFree
  <1>10. CASE \E u \in Units : WorkerRuns(u)
    <2>1. PICK u \in Units : WorkerRuns(u)
      BY <1>10
    <2>2. wpc[u] # "idle" /\ OthersKept(u)
      BY <2>1, StepOfOne DEF WorkerRuns, Base
    <2>3. UNCHANGED <<call, at, waiting, phase, boot_unit>>
      BY <2>1 DEF WorkerRuns, platformVars, systemdVars
    <2> QED BY <2>2, <2>3 DEF Alone, OthersKept, OnWorker, ItsUnit, On
  <1>11. CASE WorkerResets
    <2>1. OthersKept("boot_reset")
      BY <1>1, <1>11, ResetsEffect, GoesKeepsOthers, EndsKeepsOthers DEF Base
    <2>2. UNCHANGED <<call, at, waiting, phase, boot_unit>>
      BY <1>11 DEF WorkerResets, platformVars, systemdVars
    <2> QED BY <2>1, <2>2 DEF Alone, OthersKept, OnWorker, ItsUnit, On
  <1>12. CASE PlatformUp
    BY <1>12 DEF PlatformUp, Alone, workerVars, platformVars, OnWorker, ItsUnit
  <1>13. CASE BootUnitSettles
    <2>1. \A u \in Units \ {"boot_reset"} : wpc'[u] = wpc[u] /\ outcome'[u] = outcome[u]
      BY <1>1, <1>13 DEF BootUnitSettles, CollectWorker
    <2>2. boot_unit' # "running" /\ UNCHANGED <<call, at, waiting>>
      BY <1>13 DEF BootUnitSettles, platformVars
    <2> QED BY <2>1, <2>2 DEF Alone, OnWorker, ItsUnit
  <1>14. CASE RemotedStarts \/ RemotedStops \/ RemotedExits
    BY <1>14, AloneWhenStill DEF RemotedStarts, RemotedStops, RemotedExits, workerVars, platformVars
  <1>15. CASE Enroll \/ Expire
    BY <1>15, AloneWhenStill DEF Enroll, Expire, workerVars, platformVars, systemdVars
  <1>16. CASE Boot
    <2>1. \A u \in Units \ {"boot_reset"} : wpc'[u] = wpc[u] /\ outcome'[u] = outcome[u]
      BY <1>1, <1>16 DEF Boot, StartWorker, workerVars
    <2>2. phase' = "booting" /\ UNCHANGED <<call, at, waiting>>
      BY <1>16 DEF Boot, platformVars
    <2> QED BY <2>1, <2>2 DEF Alone, OnWorker, ItsUnit
  <1>17. CASE Crash
    BY <1>17 DEF Crash, WorkersCrash, Alone
  <1>18. CASE Writeback /\ UNCHANGED <<platformVars, systemdVars, authVars>>
    BY <1>18, AloneWhenStill DEF Writeback, platformVars, systemdVars
  <1> QED BY <1>3, <1>4, <1>5, <1>6, <1>7, <1>8, <1>9, <1>10, <1>11, <1>12, <1>13, <1>14, <1>15,
             <1>16, <1>17, <1>18
          DEF QuietActs, PlatformStep, SystemdStep, Environment

(* While a process runs, no other does. *)
LEMMA OneRuns ==
    ASSUME Base, Alone, NEW u \in Units, wpc[u] # "idle", NEW v \in Units \ {u}
    PROVE  wpc[v] = "idle"
  <1>1. PlaceOK
    BY DEF Base, PlatformOK
  <1>2. CASE u # "boot_reset" /\ v # "boot_reset"
    BY <1>2 DEF Alone
  <1>3. ASSUME NEW w \in Units \ {"boot_reset"}, wpc[w] # "idle"
        PROVE  boot_unit # "running"
    BY <1>1, <1>3, Places, WorkerPlaces DEF Alone, Base, PlatformOK
  <1>4. wpc["boot_reset"] # "idle" => boot_unit = "running"
    BY DEF Base, SystemdOK
  <1> QED BY <1>2, <1>3, <1>4

-----------------------------------------------------------------------------
(* The identity and the temporaries, until something overruns. *)

(* The link is whole on both sides, and names are filled once. *)
Whole == NoPartialIdentity /\ filled \subseteq drawn

(* What a process relies on at its step: nothing left over from earlier runs *)
(* but its own temporary, nothing referenced but what it took for it, and a  *)
(* generation that is complete before tls/current can name it.               *)
Tidy(u) ==
    /\ wpc[u] \notin {"idle", "stale"} =>
         visible.root \cap Temporaries \subseteq
             (IF wpc[u] = "rename" THEN {Temporary[Marker(u)]} ELSE {})
    /\ wpc[u] \notin {"idle", "stale", "swap"} => visible.next = NoGeneration
    /\ wpc[u] \in {"clean_old", "clean_new"} => wref[u] = visible.link
    /\ wpc[u] = "fill" => wgen[u] \in drawn \ filled
    /\ wpc[u] = "symlink" => wgen[u] \in visible.gens \cap filled
    /\ wpc[u] = "swap" => visible.next \in visible.gens \cap filled
    /\ outcome[u] \notin {"invalid", "collision"}

Ordered == Whole /\ \A u \in Units : Tidy(u)

LEMMA WholeFields ==
    Whole <=> /\ visible.link = NoGeneration \/ visible.link \in visible.gens \cap filled
              /\ durable.link = NoGeneration \/ durable.link \in durable.gens \cap filled
              /\ filled \subseteq drawn
  BY DEF Whole, NoPartialIdentity, Complete

(* A process that ends leaves what holds of the files. *)
LEMMA EndIsTidy ==
    ASSUME WorkerOK, NEW u \in Units, NEW r \in {"none", "success", "failed", "refused"}, Ends(u, r)
    PROVE  Tidy(u)'
  BY EndsKeepsOthers DEF Tidy

LEMMA OrderedStep ==
    ASSUME WorkerOK, Whole, NEW u \in Units, Tidy(u), WorkerStep(u)
    PROVE  Whole' /\ Tidy(u)'
  <1>w. /\ visible.link = NoGeneration \/ visible.link \in visible.gens \cap filled
        /\ durable.link = NoGeneration \/ durable.link \in durable.gens \cap filled
        /\ filled \subseteq drawn
    BY WholeFields
  <1>v. Whole' <=> /\ visible'.link = NoGeneration \/ visible'.link \in visible'.gens \cap filled'
                   /\ durable'.link = NoGeneration \/ durable'.link \in durable'.gens \cap filled'
                   /\ filled' \subseteq drawn'
    BY DEF Whole, NoPartialIdentity, Complete
  <1>k. UNCHANGED <<visible, durable, filled, drawn>> => Whole'
    BY DEF Whole, NoPartialIdentity, Complete
  <1>s. /\ WorkerTypeOK
        /\ visible \in Directory /\ durable \in Directory
        /\ visible.link \in Targets /\ visible.next \in Targets
        /\ visible.gens \in SUBSET Generations
    BY Running DEF WorkerOK
  <1>1. CASE remove_stale_temporaries(u)
    <2>1. CASE Ends(u, "failed") /\ UNCHANGED visible
      BY <1>1, <2>1, <1>k, StaleEffect, EndIsTidy
    <2>2. CASE /\ EndsOrGoes(u, "stale")
               /\ Shows(visible.root \ Temporaries, visible.gens, visible.link, NoGeneration)
      <3>1. Whole'
        BY <1>1, <2>2, <1>w, <1>v, StaleEffect DEF Shows
      <3>2. /\ Goes(u, Follows(u, "stale"))
            /\ Follows(u, "stale") \in {"may_enable", "list_old", "create", "unlink"}
        BY <2>2, StaleFollows DEF EndsOrGoes, Units
      <3>3. /\ visible'.root \cap Temporaries = {} /\ visible'.next = NoGeneration
            /\ wpc'[u] \in {"may_enable", "list_old", "create", "unlink"}
            /\ outcome'[u] = outcome[u]
        BY <2>2, <3>2, GoesKeepsOthers DEF Shows
      <3>4. Tidy(u)'
        BY <3>3 DEF Tidy
      <3> QED BY <3>1, <3>4
    <2> QED BY <1>1, <2>1, <2>2, StaleEffect
  <1>2. CASE enable(u)
    <2>1. UNCHANGED <<visible, durable, filled, drawn>> /\ wpc[u] = "may_enable"
      BY <1>2, EnableEffect
    <2>2. ~(visible.link # NoGeneration /\ ~Complete(visible))
      BY <1>w DEF Complete
    <2>3. \/ Ends(u, "failed") \/ Ends(u, "refused")
          \/ Goes(u, "list_old") \/ Goes(u, "create")
      BY <1>2, <2>2, EnableEffect
    <2>4. CASE Goes(u, "list_old") \/ Goes(u, "create")
      <3>1. wpc'[u] \in {"list_old", "create"} /\ outcome'[u] = outcome[u]
        BY <2>4, GoesKeepsOthers
      <3> QED BY <1>k, <2>1, <3>1 DEF Tidy
    <2> QED BY <1>k, <2>1, <2>3, <2>4, EndIsTidy
  <1>3. CASE create_marker(u)
    <2>1. UNCHANGED <<durable, filled, drawn>> /\ wpc[u] = "create"
      BY <1>3, CreateEffect
    <2>2. visible.root \cap Temporaries = {} /\ visible.next = NoGeneration
      BY <2>1 DEF Tidy
    <2>3. Temporary[Marker(u)] \in Temporaries
      BY DEF Temporaries, Temporary, Marker, Enabled, ResetPending
    <2>4. CASE Ends(u, "failed") /\ UNCHANGED visible
      BY <1>k, <2>1, <2>4, EndIsTidy
    <2>5. CASE EndsOrGoes(u, "sync_create") /\ UNCHANGED visible
      <3>1. CASE Ends(u, "success")
        BY <1>k, <2>1, <2>5, <3>1, EndIsTidy
      <3>2. CASE Goes(u, "unlink_current")
        <4>1. wpc'[u] = "unlink_current" /\ outcome'[u] = outcome[u]
          BY <3>2, GoesKeepsOthers
        <4> QED BY <1>k, <2>1, <2>2, <2>5, <4>1 DEF Tidy
      <3>3. u \in {"enable", "boot_reset"}
        BY <1>3, CreateEffect
      <3> QED BY <2>5, <3>1, <3>2, <3>3, CreatedFollows DEF EndsOrGoes
    <2>6. CASE /\ Goes(u, "rename")
               /\ Shows(visible.root \cup {Temporary[Marker(u)]}, visible.gens, visible.link,
                        visible.next)
      <3>1. Whole'
        BY <1>w, <1>v, <2>1, <2>6 DEF Shows
      <3>2. wpc'[u] = "rename" /\ outcome'[u] = outcome[u]
        BY <2>6, GoesKeepsOthers
      <3>3. visible'.root \cap Temporaries \subseteq {Temporary[Marker(u)]}
            /\ visible'.next = NoGeneration
        BY <2>2, <2>6 DEF Shows
      <3> QED BY <3>1, <3>2, <3>3 DEF Tidy
    <2>7. Temporary[Marker(u)] \notin visible.root
      BY <2>2, <2>3
    <2> QED BY <1>3, <2>4, <2>5, <2>6, <2>7, CreateEffect
  <1>4. CASE rename_marker(u)
    <2>1. UNCHANGED <<durable, filled, drawn>> /\ wpc[u] = "rename"
      BY <1>4, RenameEffect
    <2>2. visible.root \cap Temporaries \subseteq {Temporary[Marker(u)]}
          /\ visible.next = NoGeneration
      BY <2>1 DEF Tidy
    <2>3. Marker(u) \notin Temporaries
      BY NamesDiffer
    <2>4. Whole'
      BY <1>4, <1>w, <1>v, <2>1, RenameEffect DEF Shows
    <2>5. CASE Ends(u, "failed")
      BY <2>4, <2>5, EndIsTidy
    <2>6. CASE /\ Goes(u, "sync_create")
               /\ Shows((visible.root \ {Temporary[Marker(u)]}) \cup {Marker(u)}, visible.gens,
                        visible.link, visible.next)
      <3>1. wpc'[u] = "sync_create" /\ outcome'[u] = outcome[u]
        BY <2>6, GoesKeepsOthers
      <3>2. visible'.root \cap Temporaries = {} /\ visible'.next = NoGeneration
        BY <2>2, <2>3, <2>6 DEF Shows
      <3> QED BY <2>4, <3>1, <3>2 DEF Tidy
    <2> QED BY <1>4, <2>5, <2>6, RenameEffect
  <1>5. CASE remove_marker(u)
    <2>1. UNCHANGED <<durable, filled, drawn>> /\ wpc[u] = "unlink"
      BY <1>5, UnlinkEffect
    <2>2. visible.root \cap Temporaries = {} /\ visible.next = NoGeneration
      BY <2>1 DEF Tidy
    <2>3. CASE (Ends(u, "failed") \/ Ends(u, "success")) /\ UNCHANGED visible
      BY <1>k, <2>1, <2>3, EndIsTidy
    <2>4. CASE /\ Goes(u, "sync_unlink")
               /\ Shows(visible.root \ {Marker(u)}, visible.gens, visible.link, visible.next)
      <3>1. wpc'[u] = "sync_unlink" /\ outcome'[u] = outcome[u]
        BY <2>4, GoesKeepsOthers
      <3>2. visible'.root \cap Temporaries = {} /\ visible'.next = NoGeneration
        BY <2>2, <2>4 DEF Shows
      <3>3. Whole'
        BY <1>w, <1>v, <2>1, <2>4 DEF Shows
      <3> QED BY <3>1, <3>2, <3>3 DEF Tidy
    <2> QED BY <1>5, <2>3, <2>4, UnlinkEffect
  <1>6. CASE fsync_root(u)
    <2>1. UNCHANGED <<visible, filled, drawn>> /\ wpc[u] \in {"sync_create", "sync_unlink"}
      BY <1>6, FsyncRootEffect
    <2>2. visible.root \cap Temporaries = {} /\ visible.next = NoGeneration
      BY <2>1 DEF Tidy
    <2>3. durable'.link = durable.link /\ durable'.gens = durable.gens
      BY <1>6, <1>s, FsyncRootEffect, Synced
    <2>4. Whole'
      BY <1>w, <1>v, <2>1, <2>3
    <2>5. CASE Ends(u, "failed") \/ Ends(u, "success")
      BY <2>4, <2>5, EndIsTidy
    <2>6. CASE Goes(u, "unlink_current")
      <3>1. wpc'[u] = "unlink_current" /\ outcome'[u] = outcome[u]
        BY <2>6, GoesKeepsOthers
      <3> QED BY <2>1, <2>2, <2>4, <3>1 DEF Tidy
    <2>7. u \in {"enable", "boot_reset"} \/ wpc[u] = "sync_unlink"
      BY <2>1, Running DEF Runs
    <2> QED BY <1>6, <2>1, <2>5, <2>6, <2>7, FsyncRootEffect, CreatedFollows, PlainFollows
            DEF EndsOrGoes
  <1>7. CASE list_generations(u)
    <2>1. UNCHANGED <<visible, durable, filled, drawn>> /\ wpc[u] \in {"list_old", "list_new"}
      BY <1>7, ListEffect
    <2>2. visible.root \cap Temporaries = {} /\ visible.next = NoGeneration
      BY <2>1 DEF Tidy
    <2>3. CASE Ends(u, "failed") \/ Ends(u, "success")
      BY <1>k, <2>1, <2>3, EndIsTidy
    <2>4. ASSUME NEW t \in {"mkdir", "create", "unlink"}, Goes(u, t)
          PROVE  Whole' /\ Tidy(u)'
      <3>1. wpc'[u] = t /\ outcome'[u] = outcome[u]
        BY <2>4, GoesKeepsOthers
      <3> QED BY <1>k, <2>1, <2>2, <3>1 DEF Tidy
    <2>5. ASSUME NEW t \in {"clean_old", "clean_new"}, Takes(u, t)
          PROVE  Whole' /\ Tidy(u)'
      <3>1. wpc'[u] = t /\ outcome'[u] = outcome[u] /\ wref'[u] = visible.link
        BY <2>5, TakesKeepsOthers
      <3> QED BY <1>k, <2>1, <2>2, <3>1 DEF Tidy
    <2>6. EndsOrGoes(u, "clean_new") /\ wpc[u] = "list_new" =>
              Ends(u, "success") \/ Goes(u, "create") \/ Goes(u, "unlink")
      BY Running, CleanedFollows DEF EndsOrGoes, Runs
    <2> QED BY <1>7, <2>3, <2>4, <2>5, <2>6, ListEffect
  <1>8. CASE remove_unreferenced_generations(u)
    <2>1. UNCHANGED <<filled, drawn>> /\ wpc[u] \in {"clean_old", "clean_new"}
      BY <1>8, CleanEffect
    <2>2. visible.root \cap Temporaries = {} /\ visible.next = NoGeneration /\ wref[u] = visible.link
      BY <2>1 DEF Tidy
    <2>3. CASE Ends(u, "failed") /\ UNCHANGED <<visible, durable>>
      BY <1>k, <2>1, <2>3, EndIsTidy
    <2>4. CASE /\ \E g \in visible.gens \ {wref[u]} :
                      Shows(visible.root, visible.gens \ {g}, visible.link, visible.next)
               /\ UNCHANGED <<durable, wpc, wgen, wref, outcome>>
      <3>1. PICK g \in visible.gens \ {wref[u]} :
                Shows(visible.root, visible.gens \ {g}, visible.link, visible.next)
        BY <2>4
      <3>2. Whole'
        BY <1>w, <1>v, <2>1, <2>2, <2>4, <3>1 DEF Shows
      <3>3. /\ visible'.root = visible.root /\ visible'.next = visible.next
            /\ visible'.link = visible.link
        BY <3>1 DEF Shows
      <3> QED BY <2>1, <2>2, <2>4, <3>2, <3>3 DEF Tidy
    <2>5. CASE /\ durable' = TlsSynced(visible) /\ UNCHANGED visible
               /\ \/ wpc[u] = "clean_old" /\ Goes(u, "mkdir")
                  \/ wpc[u] = "clean_new" /\ EndsOrGoes(u, "clean_new")
      <3>1. durable'.link = visible.link /\ durable'.gens = visible.gens
        BY <1>s, <2>5, Synced
      <3>2. Whole'
        BY <1>w, <1>v, <2>1, <2>5, <3>1
      <3>3. \/ Ends(u, "success") \/ Goes(u, "create") \/ Goes(u, "unlink") \/ Goes(u, "mkdir")
        BY <2>5, Running, CleanedFollows DEF EndsOrGoes, Runs
      <3>4. ASSUME NEW t \in {"mkdir", "create", "unlink"}, Goes(u, t)
            PROVE  Tidy(u)'
        <4>1. wpc'[u] = t /\ outcome'[u] = outcome[u]
          BY <3>4, GoesKeepsOthers
        <4> QED BY <2>2, <2>5, <4>1 DEF Tidy
      <3> QED BY <3>2, <3>3, <3>4, EndIsTidy
    <2> QED BY <1>8, <2>3, <2>4, <2>5, CleanEffect
  <1>9. CASE make_generation(u)
    <2>1. visible.root \cap Temporaries = {} /\ visible.next = NoGeneration
      BY <1>9, MakeEffect DEF Tidy
    <2>2. CASE Ends(u, "failed") /\ UNCHANGED <<visible, durable, filled, drawn>>
      BY <1>k, <2>2, EndIsTidy
    <2>3. CASE \E g \in Generations : Draws(u, g)
      <3>1. PICK g \in Generations : Draws(u, g)
        BY <2>3
      <3>2. wpc'[u] = "fill" /\ outcome'[u] = outcome[u] /\ wgen'[u] = g
        BY <3>1, DrawsKeepsOthers
      <3>3. /\ visible'.root = visible.root /\ visible'.next = visible.next
            /\ g \in drawn' \ filled'
        BY <1>w, <3>1 DEF Draws, Shows
      <3>4. Whole'
        BY <1>w, <1>v, <3>1 DEF Draws, Shows
      <3> QED BY <2>1, <3>2, <3>3, <3>4 DEF Tidy
    <2> QED BY <1>9, <2>2, <2>3, MakeEffect
  <1>10. CASE fill_generation(u)
    <2>1. UNCHANGED <<durable, drawn>> /\ wpc[u] = "fill"
      BY <1>10, FillEffect
    <2>2. /\ visible.root \cap Temporaries = {} /\ visible.next = NoGeneration
          /\ wgen[u] \in drawn \ filled
      BY <2>1 DEF Tidy
    <2>3. CASE /\ wgen[u] \in visible.gens /\ filled' = filled \cup {wgen[u]}
               /\ Goes(u, "symlink") /\ UNCHANGED visible
      <3>1. wpc'[u] = "symlink" /\ outcome'[u] = outcome[u] /\ wgen'[u] = wgen[u]
        BY <2>3, GoesKeepsOthers
      <3>2. Whole'
        BY <1>w, <1>v, <2>1, <2>2, <2>3
      <3> QED BY <2>2, <2>3, <3>1, <3>2 DEF Tidy
    <2>4. CASE /\ Ends(u, "failed") /\ UNCHANGED filled
               /\ \E gens \in SUBSET visible.gens :
                      /\ visible.gens \ {wgen[u]} \subseteq gens
                      /\ Shows(visible.root, gens, visible.link, visible.next)
      <3>1. Whole'
        BY <1>w, <1>v, <2>1, <2>2, <2>4 DEF Shows
      <3> QED BY <2>4, <3>1, EndIsTidy
    <2> QED BY <1>10, <2>3, <2>4, FillEffect
  <1>11. CASE symlink(u)
    <2>1. UNCHANGED <<durable, filled, drawn>> /\ wpc[u] = "symlink"
      BY <1>11, SymlinkEffect
    <2>2. /\ visible.root \cap Temporaries = {} /\ visible.next = NoGeneration
          /\ wgen[u] \in visible.gens \cap filled
      BY <2>1 DEF Tidy
    <2>3. CASE Ends(u, "failed") /\ UNCHANGED visible
      BY <1>k, <2>1, <2>3, EndIsTidy
    <2>4. CASE Goes(u, "swap") /\ Shows(visible.root, visible.gens, visible.link, wgen[u])
      <3>1. wpc'[u] = "swap" /\ outcome'[u] = outcome[u]
        BY <2>4, GoesKeepsOthers
      <3>2. Whole'
        BY <1>w, <1>v, <2>1, <2>4 DEF Shows
      <3> QED BY <2>1, <2>2, <2>4, <3>1, <3>2 DEF Tidy, Shows
    <2> QED BY <1>11, <2>2, <2>3, <2>4, SymlinkEffect
  <1>12. CASE swap_current(u)
    <2>1. UNCHANGED <<durable, filled, drawn>> /\ wpc[u] = "swap"
      BY <1>12, SwapEffect
    <2>2. /\ visible.root \cap Temporaries = {} /\ visible.next \in visible.gens \cap filled
      BY <2>1 DEF Tidy
    <2>3. Whole'
      BY <1>12, <1>w, <1>v, <2>1, <2>2, SwapEffect DEF Shows
    <2>4. CASE Ends(u, "failed")
      BY <2>3, <2>4, EndIsTidy
    <2>5. CASE /\ Goes(u, "sync_swap")
               /\ Shows(visible.root, visible.gens, visible.next, NoGeneration)
      <3>1. wpc'[u] = "sync_swap" /\ outcome'[u] = outcome[u]
        BY <2>5, GoesKeepsOthers
      <3> QED BY <2>2, <2>3, <2>5, <3>1 DEF Tidy, Shows
    <2> QED BY <1>12, <2>4, <2>5, SwapEffect
  <1>13. CASE remove_current(u)
    <2>1. UNCHANGED <<durable, filled, drawn>> /\ wpc[u] = "unlink_current"
      BY <1>13, RemoveCurrentEffect
    <2>2. visible.root \cap Temporaries = {} /\ visible.next = NoGeneration
      BY <2>1 DEF Tidy
    <2>3. CASE Ends(u, "failed") /\ UNCHANGED visible
      BY <1>k, <2>1, <2>3, EndIsTidy
    <2>4. CASE Goes(u, "reset_enrollment") /\ UNCHANGED visible
      <3>1. wpc'[u] = "reset_enrollment" /\ outcome'[u] = outcome[u]
        BY <2>4, GoesKeepsOthers
      <3> QED BY <1>k, <2>1, <2>2, <2>4, <3>1 DEF Tidy
    <2>5. CASE /\ Goes(u, "sync_current")
               /\ Shows(visible.root, visible.gens, NoGeneration, visible.next)
      <3>1. wpc'[u] = "sync_current" /\ outcome'[u] = outcome[u]
        BY <2>5, GoesKeepsOthers
      <3>2. Whole'
        BY <1>w, <1>v, <2>1, <2>5 DEF Shows
      <3> QED BY <2>2, <2>5, <3>1, <3>2 DEF Tidy, Shows
    <2> QED BY <1>13, <2>3, <2>4, <2>5, RemoveCurrentEffect
  <1>14. CASE fsync_tls(u)
    <2>1. UNCHANGED <<visible, filled, drawn>> /\ wpc[u] \in {"sync_swap", "sync_current"}
      BY <1>14, FsyncTlsEffect
    <2>2. visible.root \cap Temporaries = {} /\ visible.next = NoGeneration
      BY <2>1 DEF Tidy
    <2>3. \/ UNCHANGED durable
          \/ durable'.link = visible.link /\ durable'.gens = visible.gens
      BY <1>14, <1>s, FsyncTlsEffect, Synced
    <2>4. Whole'
      BY <1>w, <1>v, <2>1, <2>3
    <2>5. CASE Ends(u, "failed")
      BY <2>4, <2>5, EndIsTidy
    <2>6. ASSUME NEW t \in {"list_new", "reset_enrollment"}, Goes(u, t)
          PROVE  Tidy(u)'
      <3>1. wpc'[u] = t /\ outcome'[u] = outcome[u]
        BY <2>6, GoesKeepsOthers
      <3> QED BY <2>1, <2>2, <3>1 DEF Tidy
    <2> QED BY <1>14, <2>4, <2>5, <2>6, FsyncTlsEffect
  <1> QED BY <1>1, <1>2, <1>3, <1>4, <1>5, <1>6, <1>7, <1>8, <1>9, <1>10, <1>11, <1>12,
             <1>13, <1>14 DEF WorkerStep

(* Who moves the processes. *)
LEMMA ActsMoveProcesses ==
    ASSUME Acts
    PROVE  \/ \E u \in Units : WorkerRuns(u)
           \/ WorkerResets
           \/ Crash
           \/ Writeback /\ UNCHANGED <<platformVars, systemdVars, authVars>>
           \/ UNCHANGED workerVars
           \/ StartWorker("boot_reset") /\ (Boot \/ BootResetRetried \/ start_remoted)
           \/ run_worker /\ StartWorker(ItsUnit) /\ Waits
           \/ BootUnitSettles
           \/ worker_ended
  <1>1. CASE \E method \in Methods : Call(method)
    BY <1>1 DEF Call
  <1>2. CASE PlatformStep
    BY <1>2
    DEF PlatformStep, StepFails, skip, check_reset, read_marker, run_worker, auth,
        start_remoted, start_done, start_timeout, stop_remoted, stop_done, stop_timeout,
        enrollment_network, fingerprint, pending_pairing, show, Reads, QueueRemoted
  <1>3. CASE worker_timeout \/ start_timeout
    BY <1>3 DEF worker_timeout, start_timeout
  <1>4. CASE (\E u \in Units : WorkerRuns(u)) \/ WorkerResets
    BY <1>4
  <1>5. CASE SystemdStep \/ BootResetRetried
    BY <1>5
    DEF SystemdStep, PlatformUp, RemotedStarts, RemotedStops, BootResetRetried
  <1>6. CASE Environment
    BY <1>6 DEF Environment, Enroll, Expire, Boot, RemotedExits
  <1> QED BY <1>1, <1>2, <1>3, <1>4, <1>5, <1>6 DEF Acts

(* Starting a process and reading a result touch nothing else. *)
LEMMA StartMoves ==
    ASSUME WorkerOK, NEW u \in Units, StartWorker(u)
    PROVE  /\ UNCHANGED <<visible, durable, filled, drawn, wgen, wref>>
           /\ OthersKept(u) /\ wpc'[u] = "stale" /\ outcome'[u] = "none"
  BY DEF StartWorker, WorkerOK, WorkerTypeOK, OthersKept

LEMMA CollectMoves ==
    ASSUME WorkerOK, NEW u \in Units, CollectWorker(u)
    PROVE  /\ UNCHANGED <<visible, durable, filled, drawn, wpc, wgen, wref>>
           /\ OthersKept(u) /\ outcome'[u] = "none"
  BY DEF CollectWorker, WorkerOK, WorkerTypeOK, OthersKept

LEMMA WorkerUnits ==
    ASSUME Base
    PROVE  /\ WorkerOK /\ "boot_reset" \in Units
           /\ run_worker => ItsUnit \in Units \ {"boot_reset"} /\ OnWorker /\ waiting = "no"
           /\ worker_ended => ItsUnit \in Units \ {"boot_reset"} /\ OnWorker /\ CollectWorker(ItsUnit)
           /\ BootUnitSettles => CollectWorker("boot_reset")
  BY ItsUnitIsOther
  DEF Base, Units, PlatformOK, run_worker, worker_ended, BootUnitSettles, Due

LEMMA TidyWhenFilesKept ==
    ASSUME NEW u \in Units, Tidy(u), UNCHANGED <<visible, filled, drawn>>,
           wpc'[u] = wpc[u], wgen'[u] = wgen[u], wref'[u] = wref[u],
           outcome'[u] \in {outcome[u], "none"}
    PROVE  Tidy(u)'
  BY DEF Tidy

LEMMA OrderedKept ==
    ASSUME Base, Alone, Ordered, Acts
    PROVE  Ordered'
  <1>1. WorkerOK /\ Whole /\ "boot_reset" \in Units
    BY WorkerUnits DEF Ordered
  <1>2. UNCHANGED <<visible, durable, filled, drawn>> => Whole'
    BY <1>1 DEF Whole, NoPartialIdentity, Complete
  <1>3. ASSUME NEW u \in Units, OthersKept(u), wpc[u] # "idle", Tidy(u)', Whole'
        PROVE  Ordered'
    <2>1. ASSUME NEW v \in Units \ {u} PROVE Tidy(v)'
      <3>1. wpc'[v] = "idle" /\ outcome'[v] = outcome[v] /\ Tidy(v)
        BY <1>3, OneRuns DEF OthersKept, Ordered
      <3> QED BY <3>1 DEF Tidy
    <2> QED BY <1>3, <2>1 DEF Ordered
  <1>4. CASE \E u \in Units : WorkerRuns(u)
    <2>1. PICK u \in Units : WorkerRuns(u)
      BY <1>4
    <2>2. WorkerStep(u) /\ Tidy(u)
      BY <2>1 DEF WorkerRuns, Ordered
    <2>3. Whole' /\ Tidy(u)' /\ wpc[u] # "idle" /\ OthersKept(u)
      BY <1>1, <2>2, OrderedStep, StepOfOne
    <2> QED BY <1>3, <2>3
  <1>5. CASE WorkerResets
    <2>1. /\ UNCHANGED <<visible, durable, filled, drawn>> /\ Tidy("boot_reset")
          /\ wpc["boot_reset"] = "reset_enrollment"
          /\ Goes("boot_reset", "list_new") \/ Ends("boot_reset", "failed")
      BY <1>1, <1>5, ResetsEffect DEF Ordered
    <2>2. CASE Ends("boot_reset", "failed")
      BY <1>1, <1>2, <1>3, <2>1, <2>2, EndIsTidy, EndsKeepsOthers
    <2>3. CASE Goes("boot_reset", "list_new")
      <3>1. /\ wpc'["boot_reset"] = "list_new" /\ outcome'["boot_reset"] = outcome["boot_reset"]
            /\ OthersKept("boot_reset")
        BY <1>1, <2>3, GoesKeepsOthers
      <3>2. Tidy("boot_reset")'
        BY <2>1, <3>1 DEF Tidy
      <3> QED BY <1>1, <1>2, <1>3, <2>1, <3>1, <3>2
    <2> QED BY <2>1, <2>2, <2>3
  <1>6. CASE Crash
    <2>1. /\ visible' = durable /\ UNCHANGED <<durable, filled, drawn>>
          /\ \A u \in Units : wpc'[u] = "idle" /\ outcome'[u] = "none"
      BY <1>6 DEF Crash, WorkersCrash
    <2>2. Whole'
      BY <1>1, <2>1 DEF Whole, NoPartialIdentity, Complete
    <2> QED BY <2>1, <2>2 DEF Ordered, Tidy
  <1>7. CASE Writeback
    <2>1. UNCHANGED <<visible, filled, drawn, wpc, wgen, wref, outcome>>
      BY <1>7 DEF Writeback
    <2>2. \/ durable'.link = durable.link /\ durable'.gens = durable.gens
          \/ durable'.link = visible.link /\ durable'.gens = visible.gens
      BY <1>1, <1>7, Synced DEF Writeback, WorkerOK
    <2>3. Whole'
      BY <1>1, <2>1, <2>2 DEF Whole, NoPartialIdentity, Complete
    <2> QED BY <2>1, <2>3, TidyWhenFilesKept DEF Ordered
  <1>8. CASE UNCHANGED workerVars
    BY <1>2, <1>8, TidyWhenFilesKept DEF Ordered, workerVars
  <1>9. ASSUME NEW u \in Units, StartWorker(u) PROVE Ordered'
    <2>1. /\ UNCHANGED <<visible, durable, filled, drawn, wgen, wref>>
          /\ OthersKept(u) /\ wpc'[u] = "stale" /\ outcome'[u] = "none"
      BY <1>1, <1>9, StartMoves
    <2>2. Tidy(u)'
      BY <2>1 DEF Tidy
    <2>3. ASSUME NEW v \in Units \ {u} PROVE Tidy(v)'
      BY <2>1, <2>3, TidyWhenFilesKept DEF OthersKept, Ordered
    <2> QED BY <1>2, <2>1, <2>2, <2>3 DEF Ordered
  <1>10. ASSUME NEW u \in Units, CollectWorker(u) PROVE Ordered'
    <2>1. /\ UNCHANGED <<visible, durable, filled, drawn, wpc, wgen, wref>>
          /\ OthersKept(u) /\ outcome'[u] = "none"
      BY <1>1, <1>10, CollectMoves
    <2>2. ASSUME NEW v \in Units PROVE Tidy(v)'
      BY <2>1, TidyWhenFilesKept DEF OthersKept, Ordered
    <2> QED BY <1>2, <2>1, <2>2 DEF Ordered
  <1> QED BY <1>4, <1>5, <1>6, <1>7, <1>8, <1>9, <1>10, ActsMoveProcesses, WorkerUnits

LEMMA OrderedStarts ==
    ASSUME Init
    PROVE  Alone /\ Ordered
  <1>1. Alone
    BY DEF Init, Alone, WorkerInit
  <1>2. Ordered
    BY DEF Init, WorkerInit, Ordered, Whole, Tidy, NoPartialIdentity, Complete, Empty
  <1> QED BY <1>1, <1>2

LEMMA OrderedStutters ==
    ASSUME Alone, Ordered, UNCHANGED vars
    PROVE  Alone' /\ Ordered'
  <1>1. Alone'
    BY DEF Alone, OnWorker, ItsUnit, On, vars, workerVars, platformVars, systemdVars
  <1>2. Whole'
    BY DEF Ordered, Whole, NoPartialIdentity, Complete, vars, workerVars
  <1>3. \A u \in Units : Tidy(u)'
    BY TidyWhenFilesKept DEF Ordered, vars, workerVars
  <1> QED BY <1>1, <1>2, <1>3 DEF Ordered

(* What holds until something overruns. *)
Undisturbed == overruns = 0 => Alone /\ Ordered

LEMMA UndisturbedHolds == Spec => []Undisturbed
  <1>1. Init => Undisturbed
    BY OrderedStarts DEF Undisturbed
  <1>2. Base /\ Undisturbed /\ [Next]_vars => Undisturbed'
    <2> SUFFICES ASSUME Base, Undisturbed, [Next]_vars, overruns' = 0 PROVE Alone' /\ Ordered'
      BY DEF Undisturbed
    <2>1. CASE Next
      <3>1. overruns = 0 /\ QuietActs /\ Acts
        BY <2>1, NextQuiet
      <3> QED BY <3>1, AloneKept, OrderedKept DEF Undisturbed
    <2>2. CASE UNCHANGED vars
      <3>1. overruns = 0
        BY <2>2 DEF vars
      <3> QED BY <2>2, <3>1, OrderedStutters DEF Undisturbed
    <2> QED BY <2>1, <2>2
  <1> QED BY <1>1, <1>2, BaseHolds, PTL DEF Spec

(* Until a wait is given up on something that still runs, tls/current names,  *)
(* on disk and as processes see it, a complete generation or none, whatever   *)
(* step failed and wherever the machine crashed: a generation is filled       *)
(* before the swap, and what the link names is never cleaned.                 *)
THEOREM IdentityAlwaysWhole == Spec => [](overruns = 0 => NoPartialIdentity)
  <1>1. Undisturbed => (overruns = 0 => NoPartialIdentity)
    BY DEF Undisturbed, Ordered, Whole
  <1> QED BY <1>1, UndisturbedHolds, PTL

(* Until then no run of the worker fails because of what earlier runs and     *)
(* crashes left: remove_stale_temporaries clears the names that the O_EXCL    *)
(* creations and the symlink need, and no identity is left half-made.         *)
THEOREM LeftoversNeverFail == Spec => [](overruns = 0 => RetryConverges)
  <1>1. Undisturbed => (overruns = 0 => RetryConverges)
    BY DEF Undisturbed, Ordered, Tidy, RetryConverges
  <1> QED BY <1>1, UndisturbedHolds, PTL

-----------------------------------------------------------------------------
(* What the operator was told, until something overruns. *)

(* The markers a crash would leave are those processes see, but for a fsync  *)
(* that failed or is still to come.                                          *)
Settled ==
    ~torn /\ (\A u \in Units : wpc[u] \notin {"sync_create", "sync_unlink"}) =>
        /\ Enabled \in visible.root <=> Enabled \in durable.root
        /\ ResetPending \in visible.root <=> ResetPending \in durable.root

(* A machine that is off runs nothing, and has lost what was not on disk. *)
OffIsQuiet == phase = "off" => ~torn /\ \A u \in Units : wpc[u] = "idle"

Syncing == {"sync_create", "sync_unlink"}

(* A marker changes on the way to a fsync, which makes it durable or fails. *)
LEMMA StepSyncs ==
    ASSUME WorkerOK, NEW u \in Units, WorkerStep(u)
    PROVE  \/ /\ wpc[u] \notin Syncing /\ durable'.root = durable.root
              /\ Enabled \in visible'.root <=> Enabled \in visible.root
              /\ ResetPending \in visible'.root <=> ResetPending \in visible.root
           \/ wpc[u] \notin Syncing /\ wpc'[u] \in Syncing /\ durable'.root = durable.root
           \/ /\ wpc[u] \in Syncing /\ UNCHANGED visible
              /\ \/ durable'.root = visible.root
                 \/ UNCHANGED durable /\ outcome'[u] = "failed"
  <1>t. WorkerTypeOK
    BY DEF WorkerOK
  <1>n. Temporary[Marker(u)] \notin {Enabled, ResetPending}
    BY DEF Temporary, Marker, Enabled, ResetPending
  <1> USE NamesDiffer DEF Syncing, Shows
  <1>1. CASE remove_stale_temporaries(u)
    BY <1>1, StaleEffect
  <1>2. CASE enable(u)
    BY <1>2, EnableEffect
  <1>3. CASE create_marker(u)
    BY <1>3, <1>n, CreateEffect
  <1>4. CASE rename_marker(u)
    <2>1. CASE Goes(u, "sync_create")
      BY <1>4, <2>1, RenameEffect, GoesKeepsOthers
    <2>2. CASE Ends(u, "failed")
      <3>1. wpc'[u] # "sync_create"
        BY <2>2, EndsKeepsOthers
      <3>2. ~Goes(u, "sync_create")
        BY <3>1, GoesKeepsOthers
      <3> QED BY <1>4, <1>n, <3>2, RenameEffect
    <2> QED BY <1>4, <2>1, <2>2, RenameEffect
  <1>5. CASE remove_marker(u)
    <2>1. CASE Goes(u, "sync_unlink")
      BY <1>5, <2>1, UnlinkEffect, GoesKeepsOthers
    <2>2. CASE UNCHANGED visible
      BY <1>5, <2>2, UnlinkEffect
    <2> QED BY <1>5, <2>1, <2>2, UnlinkEffect
  <1>6. CASE fsync_root(u)
    BY <1>6, <1>t, FsyncRootEffect, EndsKeepsOthers, Synced
  <1>7. CASE list_generations(u)
    BY <1>7, ListEffect
  <1>8. CASE remove_unreferenced_generations(u)
    BY <1>8, <1>t, CleanEffect, Synced
  <1>9. CASE make_generation(u)
    BY <1>9, MakeEffect DEF Draws
  <1>10. CASE fill_generation(u)
    BY <1>10, FillEffect
  <1>11. CASE symlink(u)
    BY <1>11, SymlinkEffect
  <1>12. CASE swap_current(u)
    BY <1>12, SwapEffect
  <1>13. CASE remove_current(u)
    BY <1>13, RemoveCurrentEffect
  <1>14. CASE fsync_tls(u)
    BY <1>14, <1>t, FsyncTlsEffect, Synced
  <1> QED BY <1>1, <1>2, <1>3, <1>4, <1>5, <1>6, <1>7, <1>8, <1>9, <1>10, <1>11, <1>12,
             <1>13, <1>14 DEF WorkerStep

(* A process is started only where none runs, and never on a machine that is off. *)
LEMMA StartsFromIdle ==
    ASSUME Base, Acts
    PROVE  /\ StartWorker("boot_reset") /\ (Boot \/ BootResetRetried \/ start_remoted) =>
                wpc["boot_reset"] = "idle" \/ UNCHANGED workerVars
           /\ run_worker /\ StartWorker(ItsUnit) /\ Waits => wpc[ItsUnit] = "idle"
  <1>1. ASSUME start_remoted
        PROVE  wpc["boot_reset"] = "idle" \/ UNCHANGED workerVars
    BY <1>1 DEF start_remoted, QueueRemoted, Base, SystemdOK
  <1>2. ASSUME Boot \/ BootResetRetried
        PROVE  wpc["boot_reset"] = "idle"
    BY <1>2 DEF Boot, BootResetRetried, Base, SystemdOK
  <1>3. ASSUME run_worker, Waits
        PROVE  wpc[ItsUnit] = "idle"
    BY <1>3 DEF run_worker, Waits, Returns
  <1> QED BY <1>1, <1>2, <1>3

LEMMA PhaseMoves ==
    ASSUME Acts
    PROVE  Crash \/ phase' = phase \/ phase' # "off"
  BY DEF Acts, Call, PlatformStep, StepFails, skip, check_reset, read_marker, run_worker,
         worker_ended, auth, start_remoted, start_done, start_timeout, stop_remoted, stop_done,
         stop_timeout, enrollment_network, fingerprint, pending_pairing, show, Reads, QueueRemoted,
         worker_timeout, WorkerRuns, WorkerResets, SystemdStep, PlatformUp, BootUnitSettles,
         RemotedStarts, RemotedStops, BootResetRetried, Environment, Enroll, Expire, Boot,
         RemotedExits, systemdVars

LEMMA SettledKept ==
    ASSUME Base, OffIsQuiet, Settled, Acts, HistoryStep
    PROVE  OffIsQuiet' /\ Settled'
  <1>w. WorkerOK /\ "boot_reset" \in Units /\ WorkerTypeOK
    BY WorkerUnits DEF WorkerOK
  <1>h. torn' <=> /\ phase' # "off" /\ durable'.root = durable.root
                  /\ torn \/ \E u \in Units : SyncFails(u)
    BY DEF HistoryStep
  <1>1. CASE Crash
    <2>1. /\ visible' = durable /\ durable' = durable /\ phase' = "off"
          /\ \A u \in Units : wpc'[u] = "idle"
      BY <1>1 DEF Crash, WorkersCrash
    <2> QED BY <1>h, <2>1 DEF OffIsQuiet, Settled
  (* Off only by a crash, so nothing that was torn is taken for settled. *)
  <1>2. ASSUME ~Crash, ~torn', durable'.root = durable.root
        PROVE  ~torn
    BY <1>2, <1>h, PhaseMoves DEF OffIsQuiet
  <1>3. ASSUME UNCHANGED <<visible, durable>>, ~Crash,
               \A u \in Units : wpc'[u] \notin Syncing => wpc[u] \notin Syncing,
               phase = "off" => \A u \in Units : wpc'[u] = "idle"
        PROVE  OffIsQuiet' /\ Settled'
    BY <1>h, <1>2, <1>3, PhaseMoves DEF OffIsQuiet, Settled, Syncing
  <1>4. CASE \E u \in Units : WorkerRuns(u)
    <2>1. PICK u \in Units : WorkerRuns(u)
      BY <1>4
    <2>2. WorkerStep(u) /\ phase' = phase
      BY <2>1 DEF WorkerRuns, systemdVars
    <2>3. wpc[u] # "idle" /\ OthersKept(u) /\ phase # "off"
      BY <1>w, <2>2, StepOfOne DEF OffIsQuiet
    <2>4. OffIsQuiet'
      BY <2>2, <2>3 DEF OffIsQuiet
    <2>5. SUFFICES ASSUME ~torn', \A v \in Units : wpc'[v] \notin Syncing
                   PROVE  /\ Enabled \in visible'.root <=> Enabled \in durable'.root
                          /\ ResetPending \in visible'.root <=> ResetPending \in durable'.root
      BY <2>4 DEF Settled, Syncing
    <2>6. CASE /\ wpc[u] \notin Syncing /\ durable'.root = durable.root
               /\ Enabled \in visible'.root <=> Enabled \in visible.root
               /\ ResetPending \in visible'.root <=> ResetPending \in visible.root
      <3>1. ~torn
        BY <1>h, <2>2, <2>3, <2>5, <2>6
      <3>2. \A v \in Units : wpc[v] \notin Syncing
        BY <2>3, <2>5, <2>6 DEF OthersKept
      <3> QED BY <2>6, <3>1, <3>2 DEF Settled, Syncing
    <2>7. CASE wpc'[u] \in Syncing
      BY <2>5, <2>7
    <2>8. CASE UNCHANGED visible /\ durable'.root = visible.root
      BY <2>8
    <2>9. ~(wpc[u] \in Syncing /\ UNCHANGED durable /\ outcome'[u] = "failed")
      BY <1>h, <2>2, <2>3, <2>5 DEF SyncFails, Syncing
    <2> QED BY <1>w, <2>2, <2>6, <2>7, <2>8, <2>9, StepSyncs
  <1>5. CASE WorkerResets /\ ~Crash
    <2>1. /\ UNCHANGED <<visible, durable>> /\ OthersKept("boot_reset")
          /\ wpc["boot_reset"] = "reset_enrollment"
      BY <1>w, <1>5, ResetsEffect, GoesKeepsOthers, EndsKeepsOthers
    <2>2. phase # "off"
      BY <1>w, <2>1 DEF OffIsQuiet
    <2>3. \A u \in Units : wpc'[u] \notin Syncing => wpc[u] \notin Syncing
      BY <2>1 DEF OthersKept, Syncing
    <2> QED BY <1>3, <1>5, <2>1, <2>2, <2>3
  <1>6. CASE Writeback /\ ~Crash
    <2>1. /\ UNCHANGED <<visible, wpc>> /\ (durable'.root = visible.root \/ durable'.root = durable.root)
      BY <1>w, <1>6, Synced DEF Writeback
    <2>2. OffIsQuiet'
      BY <1>h, <1>6, <2>1, PhaseMoves DEF OffIsQuiet
    <2>3. CASE durable'.root = visible.root
      BY <2>1, <2>2, <2>3 DEF Settled
    <2>4. CASE durable'.root = durable.root
      BY <1>2, <1>6, <2>1, <2>2, <2>4 DEF Settled
    <2> QED BY <2>1, <2>3, <2>4
  <1>7. CASE UNCHANGED workerVars /\ ~Crash
    BY <1>3, <1>7 DEF workerVars, OffIsQuiet
  <1>8. ASSUME NEW u \in Units, StartWorker(u), wpc[u] = "idle", ~Crash, phase # "off"
        PROVE  OffIsQuiet' /\ Settled'
    <2>1. UNCHANGED <<visible, durable>> /\ OthersKept(u)
      BY <1>w, <1>8, StartMoves
    <2>2. \A v \in Units : wpc'[v] \notin Syncing => wpc[v] \notin Syncing
      BY <1>8, <2>1 DEF OthersKept, Syncing
    <2> QED BY <1>3, <1>8, <2>1, <2>2
  <1>9. ASSUME NEW u \in Units, CollectWorker(u), ~Crash
        PROVE  OffIsQuiet' /\ Settled'
    BY <1>3, <1>9 DEF CollectWorker, OffIsQuiet
  <1>10. CASE StartWorker("boot_reset") /\ Boot /\ ~Crash
    <2>1. UNCHANGED <<visible, durable>> /\ OthersKept("boot_reset") /\ phase' # "off"
      BY <1>w, <1>10, StartMoves DEF Boot
    <2>2. wpc["boot_reset"] = "idle"
      BY <1>10 DEF Boot, Base, SystemdOK
    <2>3. \A v \in Units : wpc'[v] \notin Syncing => wpc[v] \notin Syncing
      BY <2>1, <2>2 DEF OthersKept, Syncing
    <2>4. Settled'
      BY <1>2, <1>10, <2>1, <2>3 DEF Settled, Syncing
    <2> QED BY <2>1, <2>4 DEF OffIsQuiet
  <1>11. CASE StartWorker("boot_reset") /\ (BootResetRetried \/ start_remoted) /\ ~Crash
    <2>1. phase # "off"
      BY <1>11 DEF BootResetRetried, start_remoted, Due, On, Base, SystemdOK, PlatformOK
    <2> QED BY <1>7, <1>8, <1>11, <1>w, <2>1, StartsFromIdle
  <1>12. CASE run_worker /\ StartWorker(ItsUnit) /\ Waits /\ ~Crash
    <2>1. phase # "off" /\ ItsUnit \in Units
      BY <1>12, WorkerUnits DEF run_worker, OnWorker, Base, PlatformOK
    <2> QED BY <1>8, <1>12, <2>1, StartsFromIdle
  <1> QED BY <1>1, <1>4, <1>5, <1>6, <1>7, <1>9, <1>10, <1>11, <1>12, <1>w, ActsMoveProcesses,
             WorkerUnits

(* How a method gets from a step to the next. *)
OnwardBy ==
    \/ check_reset /\ ResetPending \notin visible.root
    \/ read_marker
    \/ worker_ended /\ outcome[ItsUnit] = "success"
    \/ auth
    \/ skip
    \/ stop_remoted /\ remoted \in {"inactive", "queued"} /\ UNCHANGED remoted
    \/ stop_done
    \/ enrollment_network \/ fingerprint \/ pending_pairing

LEMMA OnwardActs ==
    ASSUME Base, Acts, Onward
    PROVE  OnwardBy
  <1>1. PlaceOK
    BY DEF Base, PlatformOK
  <1>2. ~UNCHANGED platformVars /\ (\A result : ~Returns(result)) /\ ~Waits /\ call # "none"
    BY <1>1 DEF Onward, platformVars, Returns, Waits, PlaceOK
  <1> USE DEF OnwardBy
  <1>3. CASE \E method \in Methods : Call(method)
    BY <1>2, <1>3 DEF Call
  <1>4. CASE start_remoted \/ start_done
    <2>1. On("start") /\ (Advances \/ Waits)
      BY <1>4 DEF start_remoted, start_done, Due
    <2>2. \/ call = "enable" /\ at = 4
          \/ call = "reenroll" /\ at = 8
      BY <1>1, <2>1, Places
    <2> QED BY <1>2, <2>1, <2>2, <1>1, AdvancesEffect
  <1>5. CASE PlatformStep /\ ~start_remoted /\ ~start_done
    BY <1>2, <1>5
    DEF PlatformStep, StepFails, check_reset, run_worker, worker_ended, start_timeout,
        stop_remoted, stop_timeout, show, marker_exists
  <1>6. CASE worker_timeout \/ start_timeout
    BY <1>2, <1>6 DEF worker_timeout, start_timeout
  <1>7. CASE \E u \in Units : WorkerRuns(u)
    BY <1>2, <1>7 DEF WorkerRuns
  <1>8. CASE WorkerResets
    BY <1>2, <1>8 DEF WorkerResets
  <1>9. CASE SystemdStep \/ BootResetRetried
    BY <1>2, <1>9
    DEF SystemdStep, PlatformUp, BootUnitSettles, RemotedStarts, RemotedStops, BootResetRetried
  <1>10. CASE Environment
    <2>1. ~Crash
      BY <1>2 DEF Crash, Onward
    <2> QED BY <1>2, <1>10, <2>1 DEF Environment, Enroll, Expire, Boot, RemotedExits
  <1> QED BY <1>3, <1>4, <1>5, <1>6, <1>7, <1>8, <1>9, <1>10 DEF Acts

(* What each step of the methods has established when the next one begins. *)
LEMMA OnwardTable ==
    ASSUME Base, Acts, Onward
    PROVE  /\ UNCHANGED <<visible, durable, filled, drawn, wpc, wgen, wref, systemdVars>>
           /\ call = "enable" /\ at = 1 => ResetPending \notin visible.root
           /\ call = "enable" /\ at = 2 => outcome["enable"] = "success"
           /\ call = "disable" /\ at = 1 => outcome["disable"] = "success"
           /\ call = "disable" /\ at = 2 => remoted \in {"inactive", "queued"}
           /\ call = "reenroll" /\ at = 1 => remoted \in {"inactive", "queued"}
           /\ call = "reenroll" /\ at = 2 => account' = "none" /\ pairing' = "none"
           /\ call = "reenroll" /\ at = 3 => outcome["rotate"] = "success"
           /\ call = "reenroll" /\ at = 6 => (ResetPending \in saw' <=> ResetPending \in saw \cup visible.root)
           /\ call = "reenroll" /\ at = 7 => \/ outcome["clear_reset"] = "success"
                                             \/ ResetPending \notin saw
  <1>1. PlaceOK /\ OnwardBy
    BY OnwardActs DEF Base, PlatformOK
  <1>2. UNCHANGED <<visible, durable, filled, drawn, wpc, wgen, wref, systemdVars>>
    BY <1>1
    DEF OnwardBy, check_reset, read_marker, worker_ended, auth, skip, stop_remoted, stop_done,
        enrollment_network, fingerprint, pending_pairing, Reads, CollectWorker, workerVars,
        systemdVars
  <1> USE DEF Due
  <1>3. CASE check_reset /\ ResetPending \notin visible.root
    BY <1>1, <1>2, <1>3, Places DEF check_reset
  <1>4. CASE read_marker
    <2>1. call = "reenroll" /\ at \in {4, 6}
      BY <1>1, <1>4, Places DEF read_marker
    <2>2. at = 6 => (ResetPending \in saw' <=> ResetPending \in saw \cup visible.root)
      BY <1>1, <1>4, <2>1, Places DEF read_marker
    <2> QED BY <1>2, <2>1, <2>2
  <1>5. CASE worker_ended /\ outcome[ItsUnit] = "success"
    BY <1>1, <1>2, <1>5, WorkerPlaces DEF worker_ended
  <1>6. CASE auth
    <2>1. /\ \/ call = "enable" /\ at = 3
             \/ call = "reenroll" /\ at \in {2, 5}
             \/ call = "disable" /\ at = 3
          /\ call = "reenroll" /\ at = 2 => account' = "none" /\ pairing' = "none"
      BY <1>1, <1>6, Places DEF auth, ResetEnrollment
    <2> QED BY <1>2, <2>1 DEF Onward
  <1>7. CASE skip
    BY <1>1, <1>2, <1>7, SkippedPlaces DEF skip
  <1>8. CASE (stop_remoted /\ remoted \in {"inactive", "queued"}) \/ stop_done
    BY <1>1, <1>2, <1>8, Places DEF stop_remoted, stop_done
  <1>9. CASE enrollment_network \/ fingerprint \/ pending_pairing
    BY <1>1, <1>2, <1>9, Places DEF enrollment_network, fingerprint, pending_pairing
  <1> QED BY <1>1, <1>3, <1>4, <1>5, <1>6, <1>7, <1>8, <1>9 DEF OnwardBy

(* When a method succeeds. *)
LEMMA SucceedsTable ==
    ASSUME Base, Acts, call # "none", call' = "none", reply' = "ok"
    PROVE  /\ UNCHANGED <<workerVars, systemdVars>>
           /\ call = "enable" => at = 4 /\ remoted = "active"
           /\ call = "disable" => at = 3
           /\ call = "reenroll" => at = 8 /\ (waiting = "no" \/ remoted = "active")
  <1>1. PlaceOK
    BY DEF Base, PlatformOK
  <1>2. ~UNCHANGED platformVars /\ ~Returns("error") /\ ~Waits /\ at' = 1 /\ ~Crash
    <2>1. ~UNCHANGED platformVars /\ ~Returns("error") /\ ~Waits /\ ~Onward /\ ~Crash
      BY DEF Onward, platformVars, Returns, Waits, Crash
    <2>2. \E result \in {"none", "ok", "error"} : Returns(result)
      BY <2>1, ActsMovePlatform DEF PlatformMoves, Begins
    <2> QED BY <2>1, <2>2 DEF Returns
  <1>3. Advances => \/ call \in {"enable", "enrollment"} /\ at = 4
                    \/ call = "disable" /\ at = 3
                    \/ call = "reenroll" /\ at = 8
    BY <1>1, AdvancesEffect
  <1> USE DEF Due
  <1>4. CASE \E method \in Methods : Call(method)
    BY <1>4 DEF Call
  <1>5. CASE read_marker \/ fingerprint \/ pending_pairing
    BY <1>5 DEF read_marker, fingerprint, pending_pairing, Reads
  <1>6. CASE check_reset \/ run_worker \/ worker_ended \/ stop_remoted \/ stop_done
             \/ enrollment_network
    <2>1. \/ call = "enable" /\ at \in {1, 2}
          \/ call = "disable" /\ at \in {1, 2}
          \/ call = "reenroll" /\ at \in {1, 3, 7}
          \/ call = "enrollment" /\ at = 1
      BY <1>1, <1>6, Places, WorkerPlaces
      DEF check_reset, run_worker, worker_ended, stop_remoted, stop_done, enrollment_network
    <2>2. Advances \/ Returns("error") \/ Waits
      BY <1>6
      DEF check_reset, run_worker, worker_ended, stop_remoted, stop_done, enrollment_network
    <2> QED BY <1>2, <1>3, <2>1, <2>2
  <1>7. CASE auth
    <2>1. Advances /\ UNCHANGED <<workerVars, systemdVars>>
      BY <1>2, <1>7 DEF auth
    <2>2. \/ call = "enable" /\ at = 3
          \/ call = "reenroll" /\ at \in {2, 5}
          \/ call = "disable" /\ at = 3
      BY <1>1, <1>7, Places DEF auth
    <2> QED BY <1>3, <2>1, <2>2
  <1>8. CASE skip
    <2>1. Advances /\ UNCHANGED <<workerVars, systemdVars>> /\ call = "reenroll" /\ waiting = "no"
      BY <1>8, SkipsBeforeWaiting DEF skip, Skipped
    <2> QED BY <1>3, <2>1
  <1>9. CASE start_remoted \/ start_done
    <2>1. Advances /\ UNCHANGED <<workerVars, systemdVars>> /\ remoted = "active" /\ On("start")
      BY <1>2, <1>9 DEF start_remoted, start_done
    <2>2. \/ call = "enable" /\ at = 4
          \/ call = "reenroll" /\ at = 8
      BY <1>1, <2>1, Places
    <2> QED BY <2>1, <2>2
  <1>10. CASE show
    <2>1. call = "enrollment" /\ UNCHANGED <<workerVars, systemdVars>>
      BY <1>1, <1>10, Places DEF show
    <2> QED BY <2>1
  <1>11. CASE StepFails \/ start_timeout \/ stop_timeout \/ worker_timeout
    BY <1>2, <1>11 DEF StepFails, start_timeout, stop_timeout, worker_timeout
  <1>12. CASE (\E u \in Units : WorkerRuns(u)) \/ WorkerResets
    BY <1>2, <1>12 DEF WorkerRuns, WorkerResets
  <1>13. CASE SystemdStep \/ BootResetRetried
    BY <1>2, <1>13
    DEF SystemdStep, PlatformUp, BootUnitSettles, RemotedStarts, RemotedStops, BootResetRetried
  <1>14. CASE Environment
    BY <1>2, <1>14 DEF Environment, Enroll, Expire, Boot, RemotedExits
  <1> QED BY <1>4, <1>5, <1>6, <1>7, <1>8, <1>9, <1>10, <1>11, <1>12, <1>13, <1>14
          DEF Acts, PlatformStep

(* For whom a process runs, or has left its result. *)
LEMMA RunsFor ==
    ASSUME Base, Alone, NEW u \in Units,
           wpc[u] # "idle" \/ (u # "boot_reset" /\ outcome[u] # "none")
    PROVE  \/ u = "enable" /\ call = "enable" /\ at = 2 /\ waiting = "yes"
           \/ u = "disable" /\ call = "disable" /\ at = 1 /\ waiting = "yes"
           \/ u = "rotate" /\ call = "reenroll" /\ at = 3 /\ waiting = "yes"
           \/ u = "clear_reset" /\ call = "reenroll" /\ at = 7 /\ waiting = "yes"
           \/ /\ u = "boot_reset" /\ boot_unit = "running"
              /\ \/ call = "none" /\ phase = "booting"
                 \/ call = "enable" /\ at = 4 /\ waiting = "yes"
                 \/ call = "reenroll" /\ at = 8 /\ waiting = "yes"
  <1>1. PlaceOK
    BY DEF Base, PlatformOK
  <1>2. CASE u = "boot_reset"
    <2>1. boot_unit = "running"
      BY <1>2 DEF Base, SystemdOK
    <2>2. phase = "booting" => call = "none"
      BY DEF Base, PlatformOK
    <2> QED BY <1>1, <1>2, <2>1, <2>2, Places DEF Alone
  <1>3. CASE u # "boot_reset"
    <2>1. OnWorker /\ waiting = "yes" /\ ItsUnit = u
      BY <1>3 DEF Alone
    <2> QED BY <1>1, <2>1, WorkerPlaces
  <1> QED BY <1>2, <1>3

(* A worker that removes its marker, and that of an Enable, on their markers. *)
LEMMA RemovingStep ==
    ASSUME WorkerOK, NEW u \in Units, u \in {"disable", "clear_reset"}, WorkerStep(u),
           wpc[u] = "sync_unlink" => Marker(u) \notin visible.root, outcome[u] # "success"
    PROVE  wpc'[u] = "sync_unlink" \/ outcome'[u] = "success" => Marker(u) \notin visible'.root
  <1>1. wpc[u] \in {"idle", "stale", "unlink", "sync_unlink"}
    BY Running DEF Runs, Steps, Identity
  <1>2. \/ remove_stale_temporaries(u) \/ remove_marker(u) \/ fsync_root(u)
    BY <1>1
    DEF WorkerStep, enable, create_marker, rename_marker, list_generations,
        remove_unreferenced_generations, make_generation, fill_generation, symlink, swap_current,
        remove_current, fsync_tls
  <1>3. CASE remove_stale_temporaries(u)
    <2>1. Ends(u, "failed") \/ Goes(u, "unlink")
      BY <1>3, StaleEffect, StaleFollows DEF EndsOrGoes
    <2> QED BY <2>1, EndsKeepsOthers, GoesKeepsOthers
  <1>4. CASE remove_marker(u)
    BY <1>1, <1>4, UnlinkEffect, EndsKeepsOthers DEF Shows
  <1>5. CASE fsync_root(u)
    BY <1>1, <1>5, FsyncRootEffect
  <1> QED BY <1>2, <1>3, <1>4, <1>5

LEMMA EnableStep ==
    ASSUME WorkerOK, NEW u \in Units, u = "enable", WorkerStep(u),
           wpc[u] = "sync_create" => Enabled \in visible.root, outcome[u] # "success"
    PROVE  wpc'[u] = "sync_create" \/ outcome'[u] = "success" => Enabled \in visible'.root
  <1>1. Marker(u) = Enabled
    BY DEF Marker
  <1>e. ASSUME NEW r \in {"failed", "refused", "invalid", "collision"}, Ends(u, r)
        PROVE  wpc'[u] # "sync_create" /\ outcome'[u] # "success"
    BY <1>e, EndsKeepsOthers
  <1>g. ASSUME NEW t \in Steps \ {"sync_create"}, Goes(u, t)
        PROVE  wpc'[u] # "sync_create" /\ outcome'[u] # "success"
    BY <1>g, GoesKeepsOthers
  <1>s. {"may_enable", "list_old", "create", "rename", "mkdir", "symlink", "swap", "sync_swap",
         "list_new", "reset_enrollment", "sync_current"} \subseteq Steps \ {"sync_create"}
    BY DEF Steps, Identity
  <1>c. EndsOrGoes(u, "clean_new") => Goes(u, "create")
    BY CleanedFollows DEF EndsOrGoes
  <1>2. CASE remove_stale_temporaries(u)
    <2>1. Ends(u, "failed") \/ Goes(u, "may_enable")
      BY <1>2, StaleEffect, StaleFollows DEF EndsOrGoes
    <2> QED BY <2>1, <1>e, <1>g, <1>s
  <1>3. CASE enable(u)
    BY <1>3, <1>e, <1>g, <1>s, EnableEffect
  <1>4. CASE create_marker(u)
    <2>1. CASE Marker(u) \in visible.root /\ UNCHANGED visible
      BY <1>1, <2>1
    <2>2. CASE Ends(u, "failed") \/ Ends(u, "collision") \/ Goes(u, "rename")
      BY <1>e, <1>g, <1>s, <2>2
    <2> QED BY <1>4, <2>1, <2>2, CreateEffect
  <1>5. CASE rename_marker(u)
    <2>1. CASE Ends(u, "failed")
      BY <1>e, <2>1
    <2>2. CASE Marker(u) \in visible'.root
      BY <1>1, <2>2
    <2> QED BY <1>5, <2>1, <2>2, RenameEffect DEF Shows
  <1>6. CASE remove_marker(u)
    BY <1>6, UnlinkEffect
  <1>7. CASE fsync_root(u)
    <2>1. wpc[u] # "sync_unlink"
      BY Running DEF Runs
    <2> QED BY <1>7, <2>1, FsyncRootEffect
  <1>8. CASE list_generations(u)
    <2>1. CASE Takes(u, "clean_old") \/ Takes(u, "clean_new")
      BY <2>1, TakesKeepsOthers
    <2>2. CASE Ends(u, "failed") \/ Goes(u, "mkdir") \/ Goes(u, "create")
      BY <1>e, <1>g, <1>s, <2>2
    <2> QED BY <1>8, <1>c, <2>1, <2>2, ListEffect
  <1>9. CASE remove_unreferenced_generations(u)
    <2>1. CASE UNCHANGED <<wpc, outcome>>
      BY <1>9, <2>1, CleanEffect
    <2>2. CASE Ends(u, "failed") \/ Goes(u, "mkdir") \/ Goes(u, "create")
      BY <1>e, <1>g, <1>s, <2>2
    <2> QED BY <1>9, <1>c, <2>1, <2>2, CleanEffect
  <1>10. CASE make_generation(u)
    BY <1>10, <1>e, MakeEffect, DrawsKeepsOthers
  <1>11. CASE fill_generation(u)
    BY <1>11, <1>e, <1>g, <1>s, FillEffect
  <1>12. CASE symlink(u)
    BY <1>12, <1>e, <1>g, <1>s, SymlinkEffect
  <1>13. CASE swap_current(u)
    BY <1>13, <1>e, <1>g, <1>s, SwapEffect
  <1>14. CASE remove_current(u)
    BY <1>14, <1>e, <1>g, <1>s, RemoveCurrentEffect
  <1>15. CASE fsync_tls(u)
    BY <1>15, <1>e, <1>g, <1>s, FsyncTlsEffect
  <1> QED BY <1>2, <1>3, <1>4, <1>5, <1>6, <1>7, <1>8, <1>9, <1>10, <1>11, <1>12, <1>13, <1>14,
             <1>15 DEF WorkerStep

(* What the two workers have reached at their steps. *)
WorkersReached ==
    /\ wpc["disable"] = "sync_unlink" \/ outcome["disable"] = "success" =>
         Enabled \notin visible.root
    /\ wpc["enable"] = "sync_create" \/ outcome["enable"] = "success" => Enabled \in visible.root

LEMMA WorkersReachedKept ==
    ASSUME Base, Alone, WorkersReached, Acts
    PROVE  WorkersReached'
  <1>w. WorkerOK /\ {"enable", "disable", "boot_reset"} \subseteq Units
    BY DEF Base, Units
  <1>1. CASE \E u \in Units : WorkerRuns(u)
    <2>1. PICK u \in Units : WorkerRuns(u)
      BY <1>1
    <2>2. WorkerStep(u) /\ wpc[u] # "idle" /\ OthersKept(u) /\ MarkersMove(u)
      BY <1>w, <2>1, StepOfOne, StepMovesMarkers DEF WorkerRuns
    <2>3. outcome["enable"] # "success" \/ u = "enable"
      BY <1>w, <2>2, RunsFor
    <2>4. outcome["disable"] # "success" \/ u = "disable"
      BY <1>w, <2>2, RunsFor
    <2>5. ASSUME NEW v \in Units \ {u} PROVE wpc'[v] = "idle" /\ outcome'[v] = outcome[v]
      BY <2>2, <2>5, OneRuns DEF OthersKept
    <2>6. CASE u = "disable"
      <3>1. CASE outcome["disable"] = "success"
        BY <2>2, <2>3, <2>5, <2>6, <3>1, <1>w DEF WorkersReached, MarkersMove
      <3>2. CASE outcome["disable"] # "success"
        <4>1. Marker(u) = Enabled
          BY <2>6 DEF Marker
        <4> QED BY <1>w, <2>2, <2>3, <2>5, <2>6, <3>2, <4>1, RemovingStep DEF WorkersReached
      <3> QED BY <3>1, <3>2
    <2>7. CASE u = "enable"
      <3>1. CASE outcome["enable"] = "success"
        BY <2>2, <2>4, <2>5, <2>7, <3>1, <1>w DEF WorkersReached, MarkersMove
      <3>2. CASE outcome["enable"] # "success"
        BY <1>w, <2>2, <2>4, <2>5, <2>7, <3>2, EnableStep DEF WorkersReached
      <3> QED BY <3>1, <3>2
    <2>8. CASE u \notin {"enable", "disable"}
      BY <1>w, <2>2, <2>5, <2>8 DEF WorkersReached, MarkersMove
    <2> QED BY <2>6, <2>7, <2>8
  <1>2. CASE WorkerResets
    <2>1. UNCHANGED visible /\ OthersKept("boot_reset")
      BY <1>w, <1>2, ResetsEffect, EndsKeepsOthers, GoesKeepsOthers
    <2> QED BY <1>w, <2>1 DEF WorkersReached, OthersKept
  <1>3. CASE Crash
    BY <1>w, <1>3 DEF Crash, WorkersCrash, WorkersReached
  <1>4. CASE Writeback \/ UNCHANGED workerVars
    BY <1>4 DEF Writeback, workerVars, WorkersReached
  <1>5. ASSUME NEW u \in Units, StartWorker(u) PROVE WorkersReached'
    <2>1. UNCHANGED visible /\ OthersKept(u) /\ wpc'[u] = "stale" /\ outcome'[u] = "none"
      BY <1>w, <1>5, StartMoves
    <2> QED BY <1>w, <2>1 DEF WorkersReached, OthersKept
  <1>6. ASSUME NEW u \in Units, CollectWorker(u) PROVE WorkersReached'
    <2>1. UNCHANGED <<visible, wpc>> /\ OthersKept(u) /\ outcome'[u] = "none"
      BY <1>w, <1>6, CollectMoves
    <2> QED BY <1>w, <2>1 DEF WorkersReached, OthersKept
  <1> QED BY <1>1, <1>2, <1>3, <1>4, <1>5, <1>6, ActsMoveProcesses, WorkerUnits

(* What a Disable and an Enable have reached at their steps. *)
MethodsReached ==
    /\ call \in {"enable", "disable"} => admin = "unknown"
    /\ call = "disable" /\ at \in {2, 3} => Enabled \notin visible.root
    /\ call = "disable" /\ at = 3 => serving = NoGeneration
    /\ call = "enable" /\ at \in {3, 4} => Enabled \in visible.root

(* Between its worker and its end, a method's marker stays as it is. *)
LEMMA MarkerStays ==
    ASSUME Base, Alone, Acts, ~Crash
    PROVE  /\ Enabled \notin visible.root /\ Enabled \in visible'.root =>
                call = "enable" /\ at = 2 /\ UNCHANGED platformVars
           /\ Enabled \in visible.root /\ Enabled \notin visible'.root =>
                call = "disable" /\ at = 1 /\ UNCHANGED platformVars
  <1>1. CASE \E u \in Units : WorkerRuns(u)
    <2>1. PICK u \in Units : WorkerRuns(u)
      BY <1>1
    <2>2. wpc[u] # "idle" /\ MarkersMove(u) /\ UNCHANGED platformVars
      BY <2>1, StepOfOne, StepMovesMarkers DEF WorkerRuns, Base
    <2> QED BY <2>2, RunsFor DEF MarkersMove
  <1>2. CASE UNCHANGED visible
    BY <1>2
  <1> QED BY <1>1, <1>2, ActsMoveFiles DEF Writeback

LEMMA MethodsReachedKept ==
    ASSUME Base, Alone, WorkersReached, MethodsReached, Acts, HistoryStep
    PROVE  MethodsReached'
  <1>1. PlatformMoves /\ PlatformOK /\ PlaceOK
    BY ActsMovePlatform DEF Base, PlatformOK
  <1>2. CASE call' = "none"
    BY <1>2 DEF MethodsReached
  <1>3. CASE call = "none" /\ call' # "none"
    <2>1. at' = 1
      BY <1>1, <1>3 DEF PlatformMoves, platformVars, Begins, Returns, Onward, PlaceOK, Waits
    <2>2. call' \in {"enable", "disable"} => admin' = "unknown"
      BY <1>3 DEF HistoryStep, Called, Succeeds
    <2> QED BY <2>1, <2>2 DEF MethodsReached
  <1>4. CASE call # "none" /\ call' # "none"
    <2>1. call' = call /\ (at' = at \/ Onward) /\ ~Crash
      BY <1>1, <1>4 DEF PlatformMoves, platformVars, Begins, Returns, Onward, Waits, Crash
    <2>2. call' \in {"enable", "disable"} => admin' = "unknown"
      BY <1>4, <2>1 DEF HistoryStep, Called, Succeeds, MethodsReached
    <2>3. CASE Onward
      <3>1. UNCHANGED <<visible, serving>>
        BY <2>3, OnwardTable DEF systemdVars
      <3>2. at' = at + 1
        BY <2>3 DEF Onward
      <3>3. call = "disable" /\ at' = 2 => Enabled \notin visible.root
        BY <1>1, <2>3, <3>2, OnwardTable DEF WorkersReached, PlaceOK
      <3>4. call = "disable" /\ at' = 3 => Enabled \notin visible.root /\ serving = NoGeneration
        <4>1. SUFFICES ASSUME call = "disable", at' = 3
                       PROVE  Enabled \notin visible.root /\ serving = NoGeneration
          OBVIOUS
        <4>2. at = 2
          BY <1>1, <3>2, <4>1 DEF PlaceOK
        <4>3. remoted \in {"inactive", "queued"}
          BY <2>3, <4>1, <4>2, OnwardTable
        <4> QED BY <4>1, <4>2, <4>3 DEF MethodsReached, Base, SystemdOK
      <3>5. call = "enable" /\ at' \in {3, 4} => Enabled \in visible.root
        <4>1. SUFFICES ASSUME call = "enable", at' \in {3, 4}
                       PROVE  Enabled \in visible.root
          OBVIOUS
        <4>2. at \in {2, 3}
          BY <1>1, <3>2, <4>1 DEF PlaceOK
        <4> QED BY <2>3, <4>1, <4>2, OnwardTable DEF MethodsReached, WorkersReached
      <3> QED BY <2>1, <2>2, <3>1, <3>3, <3>4, <3>5 DEF MethodsReached
    <2>4. CASE at' = at
      <3>1. call = "disable" /\ at \in {2, 3} => Enabled \notin visible'.root
        BY <2>1, MarkerStays DEF MethodsReached
      <3>2. call = "enable" /\ at \in {3, 4} => Enabled \in visible'.root
        BY <2>1, MarkerStays DEF MethodsReached
      <3>3. call = "disable" /\ at = 3 => serving' = NoGeneration
        BY ActsMoveFiles DEF MethodsReached, RemotedStarts, StartConditions, marker_exists
      <3> QED BY <2>1, <2>2, <2>4, <3>1, <3>2, <3>3 DEF MethodsReached
    <2> QED BY <2>1, <2>3, <2>4
  <1> QED BY <1>2, <1>3, <1>4

(* How the root directory on disk changes. *)
LEMMA DurableRootMoves ==
    ASSUME Base, Acts
    PROVE  durable'.root \in {durable.root, visible.root}
  <1>1. WorkerOK /\ WorkerTypeOK
    BY DEF Base, WorkerOK
  <1>2. CASE \E u \in Units : WorkerRuns(u)
    BY <1>1, <1>2, StepSyncs DEF WorkerRuns
  <1>3. CASE Writeback
    BY <1>1, <1>3, Synced DEF Writeback
  <1>4. CASE UNCHANGED durable
    BY <1>4
  <1> QED BY <1>2, <1>3, <1>4, ActsMoveFiles DEF Crash, WorkersCrash

LEMMA AnswerKept ==
    ASSUME Base, Alone, Settled, MethodsReached, AnswerHolds, Acts, HistoryStep
    PROVE  AnswerHolds'
  <1>1. \/ admin' = admin /\ call \notin {"enable", "disable"}
        \/ Succeeds("enable") /\ ~torn /\ admin' = "on"
        \/ Succeeds("disable") /\ ~torn /\ admin' = "off"
        \/ admin' \notin {"on", "off"}
    BY DEF HistoryStep, MethodsReached
  <1>2. ASSUME call \in {"enable", "disable"}, ~torn, call = "enable" => at = 4 /\ boot_unit # "running",
               call = "disable" => at = 3
        PROVE  Enabled \in visible.root <=> Enabled \in durable.root
    <2>1. \A u \in Units : wpc[u] = "idle"
      BY <1>2, RunsFor
    <2> QED BY <1>2, <2>1 DEF Settled
  <1>3. CASE Succeeds("enable") /\ ~torn /\ admin' = "on"
    <2>1. at = 4 /\ remoted = "active" /\ UNCHANGED <<workerVars, systemdVars>> /\ call = "enable"
      BY <1>3, SucceedsTable DEF Succeeds
    <2>2. boot_unit # "running"
      BY <2>1 DEF Base, SystemdOK
    <2>3. Enabled \in visible.root \cap durable.root
      BY <1>2, <1>3, <2>1, <2>2 DEF MethodsReached
    <2> QED BY <1>3, <2>1, <2>3 DEF AnswerHolds, EnabledForGood, workerVars
  <1>4. CASE Succeeds("disable") /\ ~torn /\ admin' = "off"
    <2>1. at = 3 /\ UNCHANGED <<workerVars, systemdVars>> /\ call = "disable"
      BY <1>4, SucceedsTable DEF Succeeds
    <2>2. Enabled \notin visible.root \cup durable.root /\ serving = NoGeneration
      BY <1>2, <1>4, <2>1 DEF MethodsReached
    <2> QED BY <1>4, <2>1, <2>2 DEF AnswerHolds, DisabledForGood, workerVars, systemdVars
  <1>5. CASE admin' = admin /\ call \notin {"enable", "disable"}
    <2>1. durable'.root \in {durable.root, visible.root}
      BY DurableRootMoves
    <2>2. \/ Enabled \in visible'.root <=> Enabled \in visible.root
          \/ visible' = durable
      BY <1>5, MarkerStays DEF Crash, WorkersCrash
    <2>3. Enabled \notin visible.root /\ serving = NoGeneration => serving' = NoGeneration
      BY ActsMoveFiles DEF RemotedStarts, StartConditions, marker_exists
    <2> QED BY <1>5, <2>1, <2>2, <2>3 DEF AnswerHolds, DisabledForGood, EnabledForGood
  <1> QED BY <1>1, <1>3, <1>4, <1>5 DEF AnswerHolds

Answered == Settled /\ OffIsQuiet /\ WorkersReached /\ MethodsReached /\ AnswerHolds

LEMMA AnsweredHolds == Spec => [](overruns = 0 => Answered)
  <1> DEFINE P == overruns = 0 => Answered
  <1>1. Init => P
    <2> SUFFICES ASSUME Init PROVE Answered
      OBVIOUS
    <2>1. Settled /\ OffIsQuiet
      BY DEF Init, WorkerInit, Settled, OffIsQuiet, Empty
    <2>2. WorkersReached
      BY DEF Init, WorkerInit, WorkersReached, Units
    <2> QED BY <2>1, <2>2 DEF Answered, Init, MethodsReached, AnswerHolds
  <1>2. Base /\ Undisturbed /\ P /\ [Next]_vars => P'
    <2> SUFFICES ASSUME Base, Undisturbed, P, [Next]_vars, overruns' = 0 PROVE Answered'
      OBVIOUS
    <2>1. CASE Next
      <3>1. overruns = 0 /\ Acts /\ HistoryStep
        BY <2>1, NextQuiet
      <3>2. Alone /\ Answered
        BY <3>1 DEF Undisturbed
      <3> QED BY <3>1, <3>2, SettledKept, WorkersReachedKept, MethodsReachedKept, AnswerKept
              DEF Answered
    <2>2. CASE UNCHANGED vars
      <3>1. Answered
        BY <2>2 DEF vars
      <3>2. Settled' /\ OffIsQuiet'
        BY <2>2, <3>1 DEF Answered, Settled, OffIsQuiet, vars, workerVars, systemdVars, historyVars
      <3>3. WorkersReached' /\ MethodsReached'
        BY <2>2, <3>1 DEF Answered, WorkersReached, MethodsReached, vars, workerVars, systemdVars,
                          historyVars, platformVars
      <3>4. AnswerHolds'
        BY <2>2, <3>1 DEF Answered, AnswerHolds, DisabledForGood, EnabledForGood, vars, workerVars,
                          systemdVars, historyVars
      <3> QED BY <3>2, <3>3, <3>4 DEF Answered
    <2> QED BY <2>1, <2>2
  <1> QED BY <1>1, <1>2, BaseHolds, UndisturbedHolds, PTL DEF Spec

(* Until something overruns, what the operator was last told holds: the       *)
(* answer to a Disable or an Enable is given after the fsync of its marker,   *)
(* and only the worker of the opposite method changes that marker.            *)
THEOREM AnswersHold == Spec => [](overruns = 0 => AnswerHolds)
  <1>1. (overruns = 0 => Answered) => (overruns = 0 => AnswerHolds)
    BY DEF Answered
  <1> QED BY <1>1, AnsweredHolds, PTL

-----------------------------------------------------------------------------
(* What the console shows for an enrollment. *)

(* The moments recorded so far cover what was read. *)
ReadInTime ==
    /\ call = "enrollment" /\ pairing = "pending" => visible.link \in moments
    /\ call = "enrollment" /\ at = 3 /\ pairing = "pending" =>
         shown.fingerprint \in moments \/ issued
    /\ call = "enrollment" /\ at = 4 /\ shown.code = "pending" =>
         shown.fingerprint \in moments \/ (issued /\ overruns > 1)

(* A late call, or the pairing it issued, that is all that overran: no worker *)
(* is left over, and what was read is still the current identity.             *)
OnlyLate ==
    overruns = 1 /\ (late # NoneLate \/ issued) =>
        /\ Alone
        /\ call = "enrollment" /\ at = 3 => shown.fingerprint = visible.link

LEMMA MomentsGrow ==
    ASSUME Base, Next
    PROVE  /\ call = "enrollment" /\ call' = "enrollment" =>
                /\ moments \subseteq moments'
                /\ issued => issued'
                /\ pairing' = "pending" => pairing = "pending" \/ issued'
           /\ call' = "enrollment" /\ pairing' = "pending" => visible'.link \in moments'
  <1>1. HistoryStep /\ pairing \in {"none", "pending"}
    BY NextActs DEF Base, AuthOK
  <1> QED BY <1>1 DEF HistoryStep

(* What a method has read changes only in the two reading steps. *)
LEMMA ReadingMoves ==
    ASSUME Base, Acts \/ Late, call' = "enrollment"
    PROVE  \/ call = "none" /\ at' = 1
           \/ call = "enrollment" /\ at' = at /\ shown' = shown
           \/ call = "enrollment" /\ at = 1 /\ at' = 2
           \/ call = "enrollment" /\ at = 2 /\ at' = 3 /\ shown'.fingerprint = visible.link /\ UNCHANGED visible
           \/ /\ call = "enrollment" /\ at = 3 /\ at' = 4 /\ UNCHANGED <<visible, pairing>>
              /\ shown'.fingerprint = shown.fingerprint /\ shown'.code = pairing
  <1>1. PlatformMoves /\ PlatformOK /\ PlaceOK
    BY ActsMovePlatform, LateEffect DEF Base, PlatformOK, PlatformMoves
  <1>2. CASE call # "enrollment"
    BY <1>1, <1>2 DEF PlatformMoves, platformVars, Begins, Returns, Onward, Waits, PlaceOK
  <1>3. CASE call = "enrollment" /\ fingerprint
    <2>1. at = 2 /\ at' = 3 /\ UNCHANGED visible
      BY <1>1, <1>3, Places DEF fingerprint, Due, Reads, workerVars
    <2>2. shown'.fingerprint = visible.link
      BY <1>1, <1>3 DEF fingerprint, Reads, PlatformOK, Readings
    <2> QED BY <1>3, <2>1, <2>2
  <1>4. CASE call = "enrollment" /\ pending_pairing
    <2>1. at = 3 /\ at' = 4 /\ UNCHANGED <<visible, pairing>>
      BY <1>1, <1>4, Places DEF pending_pairing, Due, Reads, workerVars, authVars
    <2>2. shown'.fingerprint = shown.fingerprint /\ shown'.code = pairing
      BY <1>1, <1>4 DEF pending_pairing, Reads, PlatformOK, Readings
    <2> QED BY <1>4, <2>1, <2>2
  <1>5. CASE call = "enrollment" /\ enrollment_network
    <2>1. at = 1 /\ Advances
      BY <1>1, <1>5, Places DEF enrollment_network, Due
    <2>2. at' = at + 1
      BY <1>1, <1>5, <2>1, AdvancesEffect DEF Returns
    <2> QED BY <1>5, <2>1, <2>2
  <1>6. CASE UNCHANGED platformVars
    BY <1>2, <1>6 DEF platformVars
  <1>7. ASSUME call = "enrollment", ~fingerprint, ~pending_pairing, ~enrollment_network
        PROVE  UNCHANGED platformVars
    <2>1. /\ ~On("check_reset") /\ ~On("read_enabled") /\ ~On("read_reset") /\ ~OnWorker
          /\ ~On("ensure") /\ ~On("reset") /\ ~On("cancel") /\ ~On("start") /\ ~On("stop")
      BY <1>1, <1>7, Places, WorkerPlaces
    <2>2. ~\E result : Returns(result)
      BY DEF Returns
    <2> USE DEF Due
    <2>3. CASE \E method \in Methods : Call(method)
      BY <1>7, <2>3 DEF Call
    <2>4. CASE PlatformStep
      BY <1>7, <2>1, <2>2, <2>4
      DEF PlatformStep, StepFails, skip, Skipped, check_reset, read_marker, run_worker,
          worker_ended, auth, start_remoted, start_done, start_timeout, stop_remoted, stop_done,
          stop_timeout, show
    <2>5. CASE worker_timeout \/ start_timeout
      BY <2>2, <2>5 DEF worker_timeout, start_timeout
    <2>6. CASE \E u \in Units : WorkerRuns(u)
      BY <2>6 DEF WorkerRuns
    <2>7. CASE WorkerResets
      BY <2>7 DEF WorkerResets
    <2>8. CASE SystemdStep \/ BootResetRetried
      BY <2>8
      DEF SystemdStep, PlatformUp, BootUnitSettles, RemotedStarts, RemotedStops, BootResetRetried
    <2>9. CASE Environment
      BY <2>9 DEF Environment, Enroll, Expire, Boot, RemotedExits, Crash
    <2>10. CASE Late
      BY <2>10, LateEffect
    <2> QED BY <2>3, <2>4, <2>5, <2>6, <2>7, <2>8, <2>9, <2>10 DEF Acts
  <1> QED BY <1>2, <1>3, <1>4, <1>5, <1>6, <1>7

(* A pairing is issued during the read by a late call alone. *)
LEMMA IssuedLate ==
    ASSUME Base, Next, issued'
    PROVE  issued \/ late # NoneLate
  <1>1. call = "enrollment" /\ (issued \/ (pairing = "none" /\ pairing' = "pending"))
    BY NextActs DEF HistoryStep
  <1>2. CASE pairing = "none" /\ pairing' = "pending"
    <2>1. ~Due("ensure")
      BY <1>1, Places DEF Base, PlatformOK, Due
    <2>2. ~AuthMoves
      BY <1>2, <2>1 DEF AuthMoves, authVars, ResetEnrollment, CancelPendingPairing
    <2>3. Late
      BY <2>2, NextActs, ActsMoveAuth
    <2> QED BY <2>3 DEF Late, LateCall, NoneLate
  <1> QED BY <1>1, <1>2

LEMMA TimeoutQuiet ==
    ASSUME NEW member \in Members, auth_timeout(member)
    PROVE  /\ QuietActs
           /\ call' = "none" \/ (wpc["boot_reset"] # "idle" /\ UNCHANGED platformVars)
  <1>1. CASE StepFails
    BY <1>1 DEF StepFails, Returns, QuietActs, PlatformStep
  <1>2. CASE /\ wpc["boot_reset"] = "reset_enrollment" /\ Ends("boot_reset", "failed")
             /\ UNCHANGED <<visible, durable, filled, drawn, platformVars, systemdVars, authVars>>
    BY <1>2 DEF QuietActs, WorkerResets
  <1> QED BY <1>1, <1>2 DEF auth_timeout

(* While no worker is left over, the identity stays through a read. *)
LEMMA NoneReplaces ==
    ASSUME Base, Alone, Acts \/ Late, call = "enrollment", call' = "enrollment"
    PROVE  visible' = visible
  <1>1. ASSUME NEW u \in Units, WorkerRuns(u) PROVE FALSE
    <2>1. wpc[u] # "idle"
      BY <1>1, StepOfOne DEF WorkerRuns, Base
    <2> QED BY <2>1, RunsFor
  <1>2. CASE Late
    BY <1>2, LateEffect DEF workerVars
  <1>3. CASE Acts
    BY <1>1, <1>3, ActsMoveFiles DEF Crash, Writeback
  <1> QED BY <1>2, <1>3

LEMMA OnlyLateKept ==
    ASSUME Base, Undisturbed, OnlyLate, Next
    PROVE  OnlyLate'
  <1>1. SUFFICES ASSUME overruns' = 1, (late # NoneLate \/ issued)'
                 PROVE  Alone' /\ (call = "enrollment" /\ at = 3 => shown.fingerprint = visible.link)'
    BY DEF OnlyLate
  <1>a. LateOK /\ HistoryOK
    BY DEF Base
  <1>b. overruns \in 0 .. OVERRUNS /\ (issued => overruns > 0) /\ (overruns = 0 => late = NoneLate)
    BY <1>a, Zenon DEF HistoryOK, LateOK
  <1>o. overruns \in Nat
    BY <1>b, OverrunsAssumption
  <1>2. CASE UNCHANGED overruns
    <2>1. late # NoneLate \/ issued
      <3>1. CASE issued'
        BY <3>1, IssuedLate
      <3>2. CASE late' # NoneLate
        <4>1. overruns' # overruns + 1
          BY <1>o, <1>2
        <4>2. CASE Late
          BY <4>2 DEF Late, LateCall, NoneLate
        <4> QED BY <3>2, <4>1, <4>2 DEF Next, Late
      <3> QED BY <1>1, <3>1, <3>2
    <2>2. Alone /\ (call = "enrollment" /\ at = 3 => shown.fingerprint = visible.link)
      BY <1>1, <1>2, <2>1 DEF OnlyLate
    <2>3. QuietActs \/ Late
      BY <1>o, <1>2 DEF Next, QuietActs, Late
    <2>4. Alone'
      <3>1. CASE Late
        BY <2>2, <3>1, LateEffect
        DEF Alone, workerVars, platformVars, systemdVars, OnWorker, ItsUnit, On
      <3> QED BY <2>2, <2>3, <3>1, AloneKept
    <2>5. ASSUME call' = "enrollment", at' = 3 PROVE shown'.fingerprint = visible'.link
      <3>1. Acts \/ Late
        BY NextActs
      <3>2. CASE call = "enrollment" /\ at' = at /\ shown' = shown
        BY <2>2, <2>5, <3>1, <3>2, NoneReplaces
      <3> QED BY <2>5, <3>1, <3>2, ReadingMoves
    <2> QED BY <2>4, <2>5
  <1>3. CASE overruns' = overruns + 1
    <2>1. overruns = 0 /\ late = NoneLate /\ ~issued /\ Alone
      BY <1>o, <1>b, <1>1, <1>3 DEF Undisturbed
    <2>2. late' # NoneLate
      BY <1>1, <2>1, IssuedLate
    <2>3. PICK member \in Members : auth_timeout(member)
      BY <1>o, <1>3, <2>1, <2>2 DEF Next
    <2>4. Alone'
      BY <2>1, <2>3, TimeoutQuiet, AloneKept
    <2>5. call' # "enrollment"
      <3>1. CASE wpc["boot_reset"] # "idle" /\ UNCHANGED platformVars
        <4>1. call # "enrollment"
          BY <2>1, <3>1, RunsFor DEF Units
        <4> QED BY <3>1, <4>1 DEF platformVars
      <3> QED BY <2>3, <3>1, TimeoutQuiet
    <2> QED BY <2>4, <2>5
  <1> QED BY <1>2, <1>3, NextActs

LEMMA ReadInTimeKept ==
    ASSUME Base, OnlyLate, ReadInTime, [Next]_vars
    PROVE  ReadInTime'
  <1>1. CASE UNCHANGED vars
    BY <1>1 DEF vars, ReadInTime, workerVars, platformVars, authVars, historyVars
  <1>2. CASE Next /\ call' # "enrollment"
    BY <1>2 DEF ReadInTime
  <1>3. CASE Next /\ call' = "enrollment"
    <2>1. /\ call = "enrollment" =>
               /\ moments \subseteq moments'
               /\ issued => issued'
               /\ pairing' = "pending" => pairing = "pending" \/ issued'
          /\ pairing' = "pending" => visible'.link \in moments'
      BY <1>3, MomentsGrow
    <2>2. \/ call = "none" /\ at' = 1
          \/ call = "enrollment" /\ at' = at /\ shown' = shown
          \/ call = "enrollment" /\ at = 1 /\ at' = 2
          \/ call = "enrollment" /\ at = 2 /\ at' = 3 /\ shown'.fingerprint = visible.link /\ UNCHANGED visible
          \/ /\ call = "enrollment" /\ at = 3 /\ at' = 4 /\ UNCHANGED <<visible, pairing>>
             /\ shown'.fingerprint = shown.fingerprint /\ shown'.code = pairing
      BY <1>3, ReadingMoves, NextActs
    <2>a. overruns \in 0 .. OVERRUNS /\ (issued => overruns > 0)
      BY Zenon DEF Base, HistoryOK
    <2>3. overruns \in Nat /\ overruns' \in {overruns, overruns + 1}
      BY <1>3, <2>a, NextActs, OverrunsAssumption
    <2>4. overruns > 1 => overruns' > 1
      BY <2>3
    <2>5. /\ at' = 3 /\ pairing' = "pending" => shown'.fingerprint \in moments' \/ issued'
          /\ at' = 4 => call = "enrollment"
      BY <1>3, <2>1, <2>2 DEF ReadInTime
    <2>6. CASE at = 3 /\ at' = 4 /\ call = "enrollment" /\ UNCHANGED <<visible, pairing>>
               /\ shown'.fingerprint = shown.fingerprint /\ shown'.code = pairing
      <3>1. issued /\ ~(overruns > 1) => shown.fingerprint = visible.link
        <4>1. issued /\ ~(overruns > 1) => overruns = 1
          BY <2>a, <2>3
        <4> QED BY <2>6, <4>1 DEF OnlyLate
      <3> QED BY <1>3, <2>1, <2>4, <2>5, <2>6, <3>1 DEF ReadInTime
    <2>7. CASE at' = 4 => at = 4 /\ shown' = shown
      BY <1>3, <2>1, <2>4, <2>5, <2>7 DEF ReadInTime
    <2> QED BY <1>3, <2>2, <2>6, <2>7
  <1> QED BY <1>1, <1>2, <1>3

(* A fingerprint shown with a pairing code was the current one at a moment of *)
(* the call when that pairing was pending, also while a worker that outlived  *)
(* its method or the boot reset replaces the identity: the fingerprint is     *)
(* read before the pairing.  Only a pairing issued during the call escapes,   *)
(* and only when more than the call that issued it was given up.              *)
THEOREM ConsoleShowsOnePair == Spec => []ShownTogether
  <1>1. Init => ReadInTime /\ OnlyLate
    BY DEF Init, ReadInTime, OnlyLate
  <1>2. Base /\ OnlyLate /\ ReadInTime /\ [Next]_vars => ReadInTime'
    BY ReadInTimeKept
  <1>3. Base /\ Undisturbed /\ OnlyLate /\ [Next]_vars => OnlyLate'
    <2>1. Base /\ OnlyLate /\ UNCHANGED vars => OnlyLate'
      BY DEF OnlyLate, Alone, OnWorker, ItsUnit, On, vars, workerVars, platformVars, systemdVars,
             historyVars
    <2> QED BY <2>1, OnlyLateKept
  <1>4. Base /\ ReadInTime => ShownTogether
    BY Places DEF Base, PlatformOK, ReadInTime, ShownTogether
  <1> QED BY <1>1, <1>2, <1>3, <1>4, BaseHolds, UndisturbedHolds, PTL DEF Spec

-----------------------------------------------------------------------------
(* What was revoked, until something overruns. *)

Revoking ==
    /\ condemned \cup before \subseteq drawn \cup Credentials
    /\ visible.gens \cup durable.gens \subseteq drawn
    /\ Account \in condemned => account = "enrolled"
    /\ Code \in condemned => pairing = "pending"

(* A revoked identity, account or pairing is only left under a pending reset. *)
HeldBack ==
    condemned \cap ({visible.link, durable.link} \cup Credentials) # {} =>
        ResetPending \in visible.root \cap durable.root

(* The generation a process is making was never revoked. *)
Unspoilt ==
    \A u \in Units :
        /\ wpc[u] \in {"fill", "symlink"} => wgen[u] \in Generations \ (condemned \cup before)
        /\ wpc[u] = "swap" => visible.next \in Generations \ (condemned \cup before)

(* sl-remoted serves what tls/current names. *)
ServesCurrent ==
    /\ serving # NoGeneration => serving = visible.link
    /\ remoted = "active" => serving # NoGeneration

Making == {"list_old", "clean_old", "mkdir", "fill", "symlink", "swap"}
Made == {"sync_swap", "list_new", "clean_new", "create", "rename", "sync_create"}

(* An Enable's place, and its worker's. *)
EnablePlaces ==
    /\ wpc["enable"] \in Making => visible.link = NoGeneration
    /\ wpc["enable"] \in Made \/ outcome["enable"] = "success" => visible.link # NoGeneration
    /\ call = "enable" /\ at \in 2 .. 4 /\ ~(at = 4 /\ waiting = "yes") =>
         ResetPending \notin visible.root
    /\ call = "enable" /\ at \in 3 .. 4 /\ ~(at = 4 /\ waiting = "yes") =>
         visible.link # NoGeneration

(* The boot reset's place: what it found is committed before it destroys, and *)
(* destroyed for good before the marker goes.                                 *)
ResetPlaces ==
    /\ wpc["boot_reset"] \in {"stale", "create"} /\ ResetPending \in visible.root =>
         ResetPending \in durable.root
    /\ wpc["boot_reset"] = "sync_create" => ResetPending \in visible.root
    /\ wpc["boot_reset"] = "unlink_current" => ResetPending \in visible.root \cap durable.root
    /\ wpc["boot_reset"] \in {"stale", "create", "rename", "sync_create", "unlink_current"} =>
         (visible.link = NoGeneration => durable.link = NoGeneration)
    /\ wpc["boot_reset"] \in {"sync_current", "reset_enrollment", "list_new", "clean_new", "unlink"} =>
         visible.link = NoGeneration
    /\ wpc["boot_reset"] \in {"reset_enrollment", "list_new", "clean_new", "unlink"} =>
         durable.link = NoGeneration
    /\ wpc["boot_reset"] \in {"list_new", "clean_new", "unlink"} =>
         account = "none" /\ pairing = "none"

(* tls/current names a new identity, on disk too. *)
Renewed == /\ visible.link # NoGeneration /\ visible.link = durable.link
           /\ visible.link \notin before

(* No generation that a Reenroll found is left, on disk either. *)
Cleared == before \cap (visible.gens \cup durable.gens) = {}

(* What a Reenroll's workers have made at their steps. *)
ReenrollWorkers ==
    /\ wpc["rotate"] = "sync_swap" =>
         visible.link # NoGeneration /\ visible.link \notin condemned \cup before
    /\ wpc["rotate"] \in {"list_new", "clean_new"} \/ outcome["rotate"] = "success" =>
         Renewed /\ visible.link \notin condemned
    /\ wpc["rotate"] = "list_new" => durable.gens = visible.gens
    /\ outcome["rotate"] = "success" => Cleared
    /\ wpc["clear_reset"] = "sync_unlink" \/ outcome["clear_reset"] = "success" =>
         ResetPending \notin visible.root

(* A Reenroll's place. *)
ReenrollPlaces ==
    /\ call = "reenroll" /\ at = 1 => remoted # "queued"
    /\ call = "reenroll" /\ at \in 2 .. 8 /\ ~(at = 8 /\ waiting = "yes") => remoted = "inactive"
    /\ call = "reenroll" /\ at \in 3 .. 8 => before \cap Credentials = {}
    /\ call = "reenroll" /\ at \in 3 .. 7 => condemned \cap Credentials = {}
    /\ call = "reenroll" /\ at \in 4 .. 8 => Cleared
    /\ call = "reenroll" /\ at \in 4 .. 7 => Renewed /\ visible.link \notin condemned
    /\ call = "reenroll" /\ at = 8 /\ (waiting = "no" \/ visible.link # NoGeneration) => Renewed
    /\ call = "reenroll" /\ at = 7 /\ ResetPending \notin saw => ResetPending \notin visible.root
    /\ call = "reenroll" /\ at = 8 /\ waiting = "no" => ResetPending \notin visible.root

(* A machine that is off: what processes would see is what is on disk. *)
OffIsSame == phase = "off" => visible.root = durable.root /\ visible.link = durable.link

(* A result is that of a run that has ended. *)
ResultsOfEnded == \A u \in Units : wpc[u] # "idle" => outcome[u] = "none"

Revoked == /\ Revoking /\ HeldBack /\ Unspoilt /\ ServesCurrent
           /\ EnablePlaces /\ ResetPlaces /\ ReenrollWorkers /\ ReenrollPlaces
           /\ OffIsSame /\ ResultsOfEnded

LEMMA StepResults ==
    ASSUME WorkerOK, NEW u \in Units, WorkerStep(u), outcome[u] = "none"
    PROVE  wpc'[u] # "idle" => outcome'[u] = "none"
  <1> USE EndsKeepsOthers, GoesKeepsOthers
  <1>e. ASSUME NEW s, EndsOrGoes(u, s)
        PROVE  wpc'[u] # "idle" => outcome'[u] = "none"
    BY <1>e DEF EndsOrGoes
  <1>1. CASE remove_stale_temporaries(u)
    BY <1>1, <1>e, StaleEffect
  <1>2. CASE enable(u)
    BY <1>2, EnableEffect
  <1>3. CASE create_marker(u)
    BY <1>3, <1>e, CreateEffect
  <1>4. CASE rename_marker(u)
    BY <1>4, RenameEffect
  <1>5. CASE remove_marker(u)
    BY <1>5, UnlinkEffect
  <1>6. CASE fsync_root(u)
    BY <1>6, <1>e, FsyncRootEffect
  <1>7. CASE list_generations(u)
    BY <1>7, <1>e, ListEffect, TakesKeepsOthers
  <1>8. CASE remove_unreferenced_generations(u)
    BY <1>8, <1>e, CleanEffect
  <1>9. CASE make_generation(u)
    BY <1>9, MakeEffect, DrawsKeepsOthers
  <1>10. CASE fill_generation(u)
    BY <1>10, FillEffect
  <1>11. CASE symlink(u)
    BY <1>11, SymlinkEffect
  <1>12. CASE swap_current(u)
    BY <1>12, SwapEffect
  <1>13. CASE remove_current(u)
    BY <1>13, RemoveCurrentEffect
  <1>14. CASE fsync_tls(u)
    BY <1>14, FsyncTlsEffect
  <1> QED BY <1>1, <1>2, <1>3, <1>4, <1>5, <1>6, <1>7, <1>8, <1>9, <1>10, <1>11, <1>12,
             <1>13, <1>14 DEF WorkerStep

(* Where the link can come from, and go to disk. *)
LinkMoves(u) ==
    /\ \/ visible'.link = visible.link
       \/ /\ wpc[u] = "swap" /\ wpc'[u] = "sync_swap"
          /\ visible'.link = visible.next /\ visible.next # NoGeneration
          /\ durable'.link = durable.link
       \/ /\ u = "boot_reset" /\ wpc[u] = "unlink_current"
          /\ visible'.link = NoGeneration /\ durable'.link = durable.link
    /\ durable'.link \in {durable.link, visible.link}
    /\ drawn \subseteq drawn'
    /\ visible'.gens \cup durable'.gens \subseteq visible.gens \cup durable.gens \cup (drawn' \ drawn)

LEMMA StepMovesLink ==
    ASSUME WorkerOK, NEW u \in Units, WorkerStep(u)
    PROVE  LinkMoves(u)
  <1>t. WorkerTypeOK
    BY DEF WorkerOK
  <1> USE DEF LinkMoves, Shows
  <1>1. CASE remove_stale_temporaries(u)
    BY <1>1, StaleEffect
  <1>2. CASE enable(u)
    BY <1>2, EnableEffect
  <1>3. CASE create_marker(u)
    BY <1>3, CreateEffect
  <1>4. CASE rename_marker(u)
    BY <1>4, RenameEffect
  <1>5. CASE remove_marker(u)
    BY <1>5, UnlinkEffect
  <1>6. CASE fsync_root(u)
    BY <1>6, <1>t, FsyncRootEffect, Synced
  <1>7. CASE list_generations(u)
    BY <1>7, ListEffect
  <1>8. CASE remove_unreferenced_generations(u)
    BY <1>8, <1>t, CleanEffect, Synced
  <1>9. CASE make_generation(u)
    <2>1. CASE UNCHANGED <<visible, durable, filled, drawn>>
      BY <2>1
    <2>2. CASE \E g \in Generations : Draws(u, g)
      BY <2>2 DEF Draws
    <2> QED BY <1>9, <2>1, <2>2, MakeEffect
  <1>10. CASE fill_generation(u)
    BY <1>10, FillEffect
  <1>11. CASE symlink(u)
    BY <1>11, SymlinkEffect
  <1>12. CASE swap_current(u)
    BY <1>12, SwapEffect, GoesKeepsOthers
  <1>13. CASE remove_current(u)
    BY <1>13, RemoveCurrentEffect
  <1>14. CASE fsync_tls(u)
    BY <1>14, <1>t, FsyncTlsEffect, Synced
  <1> QED BY <1>1, <1>2, <1>3, <1>4, <1>5, <1>6, <1>7, <1>8, <1>9, <1>10, <1>11, <1>12,
             <1>13, <1>14 DEF WorkerStep

(* A step of no process: nothing moves but a start, a result that is read and *)
(* what the kernel writes back.                                               *)
Outside ==
    /\ UNCHANGED <<visible, drawn, wgen>>
    /\ durable'.root \in {durable.root, visible.root}
    /\ durable'.link \in {durable.link, visible.link}
    /\ durable'.gens \in {durable.gens, visible.gens}
    /\ \A u \in Units :
          \/ wpc'[u] = wpc[u] /\ outcome'[u] \in {outcome[u], "none"}
          \/ wpc[u] = "idle" /\ wpc'[u] = "stale" /\ outcome'[u] = "none"

LEMMA ActKinds ==
    ASSUME Base, Acts
    PROVE  (\E u \in Units : WorkerRuns(u)) \/ WorkerResets \/ Crash \/ Outside
  <1>w. WorkerOK /\ WorkerTypeOK /\ "boot_reset" \in Units
    BY DEF Base, WorkerOK, Units
  <1>1. CASE Writeback
    BY <1>w, <1>1, Synced DEF Writeback, Outside
  <1>2. CASE UNCHANGED workerVars
    BY <1>2 DEF workerVars, Outside
  <1>3. ASSUME NEW u \in Units, StartWorker(u), wpc[u] = "idle"
        PROVE  Outside
    BY <1>3, <1>w, StartMoves DEF Outside, OthersKept
  <1>4. ASSUME NEW u \in Units, CollectWorker(u)
        PROVE  Outside
    BY <1>4, <1>w, CollectMoves DEF Outside, OthersKept
  <1>5. CASE StartWorker("boot_reset") /\ (Boot \/ BootResetRetried \/ start_remoted)
    BY <1>5, <1>2, <1>3, <1>w, StartsFromIdle
  <1>6. CASE run_worker /\ StartWorker(ItsUnit) /\ Waits
    BY <1>6, <1>3, StartsFromIdle, WorkerUnits
  <1>7. CASE BootUnitSettles \/ worker_ended
    BY <1>7, <1>4, <1>w, WorkerUnits
  <1> QED BY <1>1, <1>2, <1>5, <1>6, <1>7, ActsMoveProcesses

(* How the histories of what exists and what was revoked move. *)
LEMMA HistoryMoves ==
    ASSUME HistoryStep
    PROVE  /\ before' \subseteq before \/ (Called("reenroll") /\ before' = Existing)
           /\ call' # "reenroll" => before' = {}
           /\ account' = "none" /\ ~Called("reenroll") => Account \notin before'
           /\ account' = "none" => Account \notin condemned'
           /\ pairing' = "none" /\ ~Called("reenroll") => Code \notin before'
           /\ pairing' = "none" => Code \notin condemned'
           /\ condemned' \subseteq condemned \cup (IF Succeeds("reenroll") THEN before ELSE {})
                                             \cup (IF ResetBegins THEN Existing ELSE {})
  <1> DEFINE gone == (IF account' = "none" THEN {Account} ELSE {})
                        \cup (IF pairing' = "none" THEN {Code} ELSE {})
  <1>b. before' = CASE call' # "reenroll" -> {}
                    [] Called("reenroll") -> Existing
                    [] OTHER -> before \ gone
    BY DEF HistoryStep
  <1>1. /\ call' # "reenroll" => before' = {}
        /\ call' = "reenroll" /\ Called("reenroll") => before' = Existing
        /\ call' = "reenroll" /\ ~Called("reenroll") => before' = before \ gone
    BY <1>b DEF Called
  <1>2. condemned' = (condemned \cup (IF Succeeds("reenroll") THEN before ELSE {})
                                \cup (IF ResetBegins THEN Existing ELSE {})) \ gone
    BY DEF HistoryStep
  <1>3. (account' = "none" => Account \in gone) /\ (pairing' = "none" => Code \in gone)
    OBVIOUS
  <1> HIDE DEF gone
  <1>4. /\ account' = "none" => Account \notin condemned'
        /\ pairing' = "none" => Code \notin condemned'
    BY <1>2, <1>3
  <1>5. condemned' \subseteq condemned \cup (IF Succeeds("reenroll") THEN before ELSE {})
                                          \cup (IF ResetBegins THEN Existing ELSE {})
    BY <1>2
  <1> QED BY <1>1, <1>3, <1>4, <1>5

(* Only the boot reset's process revokes before a Reenroll ends. *)
LEMMA ResetBeginsBy ==
    ASSUME Base, Acts, ResetBegins
    PROVE  WorkerRuns("boot_reset")
  <1>w. WorkerOK /\ "boot_reset" \in Units
    BY DEF Base, Units
  <1>1. ASSUME NEW u \in Units, WorkerRuns(u) PROVE u = "boot_reset"
    BY <1>1, <1>w, StepOfOne DEF WorkerRuns, OthersKept, ResetBegins
  <1>2. ~WorkerResets
    BY <1>w, ResetsEffect, EndsKeepsOthers, GoesKeepsOthers DEF ResetBegins
  <1>3. ~Crash
    BY <1>w DEF Crash, WorkersCrash, ResetBegins
  <1>4. ~Outside
    BY <1>w DEF Outside, ResetBegins
  <1> QED BY <1>1, <1>2, <1>3, <1>4, ActKinds

(* While processes run, a method is neither called nor over. *)
LEMMA HistoryOfWorkers ==
    ASSUME Base, Acts, HistoryStep, UNCHANGED platformVars
    PROVE  /\ before' \subseteq before
           /\ condemned' \subseteq condemned \cup (IF ResetBegins THEN Existing ELSE {})
  <1>1. ~Called("reenroll") /\ ~Succeeds("reenroll")
    BY DEF Called, Succeeds, platformVars
  <1> QED BY <1>1, HistoryMoves

(* What the rotation has made by the time it goes on: the swap names a        *)
(* generation outside taken, and the fsync makes that durable.                *)
LEMMA RotateStep ==
    ASSUME WorkerOK, NEW u \in Units, u = "rotate", WorkerStep(u), outcome[u] = "none", NEW taken,
           wpc[u] = "swap" => visible.next \notin taken,
           wpc[u] = "sync_swap" => visible.link # NoGeneration /\ visible.link \notin taken,
           wpc[u] \in {"list_new", "clean_new"} =>
              visible.link # NoGeneration /\ visible.link = durable.link /\ visible.link \notin taken
    PROVE  /\ wpc'[u] = "sync_swap" => visible'.link # NoGeneration /\ visible'.link \notin taken
           /\ wpc'[u] \in {"list_new", "clean_new"} \/ outcome'[u] = "success" =>
                 /\ visible'.link # NoGeneration /\ visible'.link = durable'.link
                 /\ visible'.link \notin taken
  <1>t. WorkerTypeOK
    BY DEF WorkerOK
  <1> DEFINE over == wpc'[u] \notin {"sync_swap", "list_new", "clean_new"} /\ outcome'[u] # "success"
  <1>e. ASSUME NEW r \in {"failed", "collision"}, Ends(u, r) PROVE over
    BY <1>e, EndsKeepsOthers
  <1>g. ASSUME NEW t \in {"list_old", "mkdir", "symlink", "swap"}, Goes(u, t) PROVE over
    BY <1>g, GoesKeepsOthers
  <1>k. ASSUME wpc[u] \in {"list_new", "clean_new"}, visible'.link = visible.link,
               durable'.link \in {durable.link, visible.link}
        PROVE  /\ visible'.link # NoGeneration /\ visible'.link = durable'.link
               /\ visible'.link \notin taken
    BY <1>k
  <1>r. wpc[u] \in {"idle", "stale", "list_old", "clean_old", "mkdir", "fill", "symlink", "swap",
                    "sync_swap", "list_new", "clean_new"}
    BY Running DEF Runs, Steps, Identity
  <1>1. CASE remove_stale_temporaries(u)
    <2>1. Ends(u, "failed") \/ Goes(u, "list_old")
      BY <1>1, StaleEffect, StaleFollows DEF EndsOrGoes
    <2> QED BY <2>1, <1>e, <1>g
  <1>2. CASE list_generations(u)
    <2>1. CASE wpc[u] = "list_new"
      BY <1>2, <1>k, <1>e, <2>1, ListEffect, GoesKeepsOthers, EndsKeepsOthers, TakesKeepsOthers
         DEF EndsOrGoes
    <2>2. CASE wpc[u] = "list_old"
      BY <1>2, <1>e, <1>g, <2>2, ListEffect, TakesKeepsOthers
    <2> QED BY <1>2, <2>1, <2>2, ListEffect
  <1>3. CASE remove_unreferenced_generations(u)
    <2>1. visible'.link = visible.link /\ durable'.link \in {durable.link, visible.link}
      BY <1>3, <1>t, CleanEffect, Synced DEF Shows
    <2>2. CASE wpc[u] = "clean_new"
      <3>1. wpc'[u] # "sync_swap"
        BY <1>3, <2>2, CleanEffect, CleanedFollows, EndsKeepsOthers DEF EndsOrGoes
      <3> QED BY <1>k, <2>1, <2>2, <3>1
    <2>3. CASE wpc[u] = "clean_old"
      BY <1>3, <1>e, <1>g, <2>3, CleanEffect
    <2> QED BY <1>3, <2>2, <2>3, CleanEffect
  <1>4. CASE make_generation(u)
    BY <1>4, <1>e, MakeEffect, DrawsKeepsOthers
  <1>5. CASE fill_generation(u)
    BY <1>5, <1>e, <1>g, FillEffect
  <1>6. CASE symlink(u)
    BY <1>6, <1>e, <1>g, SymlinkEffect
  <1>7. CASE swap_current(u)
    BY <1>7, <1>e, SwapEffect, GoesKeepsOthers DEF Shows
  <1>8. CASE fsync_tls(u)
    <2>1. CASE Ends(u, "failed")
      BY <1>e, <2>1
    <2>2. CASE durable' = TlsSynced(visible) /\ wpc[u] = "sync_swap" /\ Goes(u, "list_new")
      <3>1. durable'.link = visible.link /\ UNCHANGED visible
        BY <1>8, <1>t, <2>2, Synced, FsyncTlsEffect
      <3>2. wpc'[u] = "list_new"
        BY <2>2, GoesKeepsOthers
      <3> QED BY <2>2, <3>1, <3>2
    <2> QED BY <1>8, <1>r, <2>1, <2>2, FsyncTlsEffect
  <1> QED BY <1>r, <1>1, <1>2, <1>3, <1>4, <1>5, <1>6, <1>7, <1>8
          DEF WorkerStep, enable, create_marker, rename_marker, remove_marker, fsync_root,
              remove_current

(* The rotation ends with nothing left of taken, on disk either. *)
LEMMA RotateClears ==
    ASSUME WorkerOK, NEW u \in Units, u = "rotate", WorkerStep(u), Tidy(u), outcome[u] = "none", NEW taken,
           wpc[u] = "list_new" => durable.gens = visible.gens,
           wpc[u] \in {"list_new", "clean_new"} => visible.link \notin taken
    PROVE  /\ wpc'[u] = "list_new" => durable'.gens = visible'.gens
           /\ outcome'[u] = "success" => taken \cap (visible'.gens \cup durable'.gens) = {}
  <1>t. WorkerTypeOK
    BY DEF WorkerOK
  <1> DEFINE over == wpc'[u] # "list_new" /\ outcome'[u] # "success"
  <1>e. ASSUME NEW r \in {"failed", "collision"}, Ends(u, r) PROVE over
    BY <1>e, EndsKeepsOthers
  <1>g. ASSUME NEW t \in {"list_old", "mkdir", "symlink", "swap", "sync_swap"}, Goes(u, t) PROVE over
    BY <1>g, GoesKeepsOthers
  <1>r. wpc[u] \in {"idle", "stale", "list_old", "clean_old", "mkdir", "fill", "symlink", "swap",
                    "sync_swap", "list_new", "clean_new"}
    BY Running DEF Runs, Steps, Identity
  <1>c. EndsOrGoes(u, "clean_new") => wpc'[u] = "idle"
    BY CleanedFollows, EndsKeepsOthers DEF EndsOrGoes
  <1>1. CASE remove_stale_temporaries(u)
    <2>1. Ends(u, "failed") \/ Goes(u, "list_old")
      BY <1>1, StaleEffect, StaleFollows DEF EndsOrGoes
    <2> QED BY <2>1, <1>e, <1>g
  <1>2. CASE list_generations(u)
    <2>1. UNCHANGED <<visible, durable>>
      BY <1>2, ListEffect
    <2>2. CASE wpc[u] = "list_new" /\ visible.gens \subseteq {visible.link} /\ EndsOrGoes(u, "clean_new")
      BY <1>c, <2>1, <2>2
    <2>3. CASE Takes(u, "clean_old") \/ Takes(u, "clean_new")
      BY <2>3, TakesKeepsOthers
    <2> QED BY <1>2, <1>e, <1>g, <2>2, <2>3, ListEffect
  <1>3. CASE remove_unreferenced_generations(u)
    <2>1. CASE /\ visible.gens \subseteq {wref[u]} /\ durable' = TlsSynced(visible) /\ UNCHANGED visible
               /\ wpc[u] = "clean_new" /\ EndsOrGoes(u, "clean_new")
      <3>1. durable'.gens = visible.gens /\ visible.gens \subseteq {visible.link}
        BY <1>t, <2>1, Synced DEF Tidy
      <3> QED BY <1>c, <2>1, <3>1
    <2>2. CASE UNCHANGED <<wpc, outcome>>
      BY <1>3, <2>2, CleanEffect
    <2> QED BY <1>3, <1>e, <1>g, <2>1, <2>2, CleanEffect
  <1>4. CASE make_generation(u)
    BY <1>4, <1>e, MakeEffect, DrawsKeepsOthers
  <1>5. CASE fill_generation(u)
    BY <1>5, <1>e, <1>g, FillEffect
  <1>6. CASE symlink(u)
    BY <1>6, <1>e, <1>g, SymlinkEffect
  <1>7. CASE swap_current(u)
    BY <1>7, <1>e, <1>g, SwapEffect
  <1>8. CASE fsync_tls(u)
    <2>1. CASE durable' = TlsSynced(visible) /\ wpc[u] = "sync_swap" /\ Goes(u, "list_new")
      <3>1. durable'.gens = visible.gens /\ UNCHANGED visible
        BY <1>8, <1>t, <2>1, Synced, FsyncTlsEffect
      <3> QED BY <2>1, <3>1, GoesKeepsOthers
    <2> QED BY <1>8, <1>e, <1>r, <2>1, FsyncTlsEffect
  <1> QED BY <1>r, <1>1, <1>2, <1>3, <1>4, <1>5, <1>6, <1>7, <1>8
          DEF WorkerStep, enable, create_marker, rename_marker, remove_marker, fsync_root,
              remove_current

(* The worker of an Enable makes an identity where there was none. *)
LEMMA EnableMakes ==
    ASSUME WorkerOK, NEW u \in Units, u = "enable", WorkerStep(u), outcome[u] = "none",
           wpc[u] \in Making => visible.link = NoGeneration,
           wpc[u] \in Made => visible.link # NoGeneration
    PROVE  /\ wpc'[u] \in Making => visible'.link = NoGeneration
           /\ wpc'[u] \in Made \/ outcome'[u] = "success" => visible'.link # NoGeneration
  <1> USE DEF Making, Made
  <1>e. ASSUME NEW r \in {"failed", "refused", "invalid", "collision"}, Ends(u, r)
        PROVE  wpc'[u] \notin Making \cup Made /\ outcome'[u] # "success"
    BY <1>e, EndsKeepsOthers
  <1>m. ASSUME wpc[u] \in Making, visible'.link = visible.link, NEW t \in Making,
               Goes(u, t) \/ Takes(u, t) \/ (\E g \in Generations : Draws(u, g))
        PROVE  visible'.link = NoGeneration /\ wpc'[u] \in Making /\ outcome'[u] # "success"
    BY <1>m, GoesKeepsOthers, TakesKeepsOthers, DrawsKeepsOthers
  <1>d. ASSUME wpc[u] \in Made, visible'.link = visible.link, NEW t \in Made,
               Goes(u, t) \/ Takes(u, t) \/ Ends(u, "success")
        PROVE  visible'.link # NoGeneration /\ wpc'[u] \notin Making
    BY <1>d, GoesKeepsOthers, TakesKeepsOthers, EndsKeepsOthers
  <1>c. /\ EndsOrGoes(u, "clean_new") => Goes(u, "create")
        /\ EndsOrGoes(u, "sync_create") => Ends(u, "success")
    BY CleanedFollows, CreatedFollows DEF EndsOrGoes
  <1>r. wpc[u] \notin {"unlink", "sync_unlink", "unlink_current", "sync_current"}
    BY Running DEF Runs
  <1>1. CASE remove_stale_temporaries(u)
    <2>1. Ends(u, "failed") \/ Goes(u, "may_enable")
      BY <1>1, StaleEffect, StaleFollows DEF EndsOrGoes
    <2> QED BY <2>1, <1>e, GoesKeepsOthers
  <1>2. CASE enable(u)
    <2>1. Complete(visible) => visible.link # NoGeneration
      <3>1. visible.gens \in SUBSET Generations
        BY Running
      <3> QED BY <3>1, GenerationsAssumption DEF Complete
    <2>2. CASE visible.link = NoGeneration /\ Goes(u, "list_old")
      BY <1>2, <2>2, EnableEffect, GoesKeepsOthers
    <2>3. CASE Complete(visible) /\ Goes(u, "create")
      BY <1>2, <2>1, <2>3, EnableEffect, GoesKeepsOthers
    <2> QED BY <1>2, <1>e, <2>2, <2>3, EnableEffect
  <1>3. CASE create_marker(u)
    <2>1. wpc[u] \in Made /\ visible'.link = visible.link
      BY <1>3, CreateEffect DEF Shows
    <2>2. Ends(u, "failed") \/ Ends(u, "collision") \/ Goes(u, "rename") \/ Ends(u, "success")
      BY <1>3, <1>c, CreateEffect
    <2> QED BY <1>e, <1>d, <2>1, <2>2
  <1>4. CASE rename_marker(u)
    <2>1. wpc[u] \in Made /\ visible'.link = visible.link
      BY <1>4, RenameEffect DEF Shows
    <2> QED BY <1>4, <1>e, <1>d, <2>1, RenameEffect
  <1>5. CASE fsync_root(u)
    <2>1. wpc[u] = "sync_create" /\ visible' = visible
      BY <1>5, <1>r, FsyncRootEffect
    <2>2. Ends(u, "failed") \/ Ends(u, "success")
      BY <1>5, <1>c, <2>1, FsyncRootEffect
    <2> QED BY <1>e, <1>d, <2>1, <2>2
  <1>6. CASE list_generations(u)
    <2>1. visible' = visible
      BY <1>6, ListEffect
    <2>2. CASE wpc[u] = "list_old"
      BY <1>6, <1>e, <1>m, <2>1, <2>2, ListEffect
    <2>3. CASE wpc[u] = "list_new"
      BY <1>6, <1>c, <1>e, <1>d, <2>1, <2>3, ListEffect
    <2> QED BY <1>6, <2>2, <2>3, ListEffect
  <1>7. CASE remove_unreferenced_generations(u)
    <2>1. visible'.link = visible.link
      BY <1>7, CleanEffect DEF Shows
    <2>2. CASE UNCHANGED <<wpc, outcome>>
      BY <1>7, <2>1, <2>2, CleanEffect
    <2>3. CASE wpc[u] = "clean_old"
      BY <1>7, <1>e, <1>m, <2>1, <2>2, <2>3, CleanEffect
    <2>4. CASE wpc[u] = "clean_new"
      BY <1>7, <1>c, <1>e, <1>d, <2>1, <2>2, <2>4, CleanEffect
    <2> QED BY <1>7, <2>3, <2>4, CleanEffect
  <1>8. CASE make_generation(u)
    <2>1. visible'.link = visible.link
      BY <1>8, MakeEffect DEF Draws, Shows
    <2> QED BY <1>8, <1>e, <1>m, <2>1, MakeEffect
  <1>9. CASE fill_generation(u)
    <2>1. visible'.link = visible.link
      BY <1>9, FillEffect DEF Shows
    <2> QED BY <1>9, <1>e, <1>m, <2>1, FillEffect
  <1>10. CASE symlink(u)
    <2>1. visible'.link = visible.link
      BY <1>10, SymlinkEffect DEF Shows
    <2> QED BY <1>10, <1>e, <1>m, <2>1, SymlinkEffect
  <1>11. CASE swap_current(u)
    <2>1. CASE Ends(u, "failed")
      BY <1>e, <2>1
    <2>2. CASE visible.next # NoGeneration /\ Goes(u, "sync_swap") /\ visible'.link = visible.next
      BY <2>2, GoesKeepsOthers
    <2> QED BY <1>11, <2>1, <2>2, SwapEffect DEF Shows
  <1>12. CASE fsync_tls(u)
    <2>1. visible' = visible /\ wpc[u] = "sync_swap"
      BY <1>12, <1>r, FsyncTlsEffect
    <2> QED BY <1>12, <1>e, <1>d, <2>1, FsyncTlsEffect
  <1> QED BY <1>r, <1>1, <1>2, <1>3, <1>4, <1>5, <1>6, <1>7, <1>8, <1>9, <1>10, <1>11, <1>12
          DEF WorkerStep, remove_marker, remove_current

(* A generation is drawn outside taken, and stays so until the swap. *)
LEMMA DrawnIsNew ==
    ASSUME WorkerOK, NEW u \in Units, WorkerStep(u), NEW taken, taken \subseteq drawn \cup Credentials,
           wpc[u] \in {"fill", "symlink"} => wgen[u] \in Generations \ taken,
           wpc[u] = "swap" => visible.next \in Generations \ taken
    PROVE  /\ wpc'[u] \in {"fill", "symlink"} => wgen'[u] \in Generations \ taken
           /\ wpc'[u] = "swap" => visible'.next \in Generations \ taken
  <1> DEFINE away == wpc'[u] \notin {"fill", "symlink", "swap"}
  <1>e. ASSUME NEW r, Ends(u, r) PROVE away
    BY <1>e, EndsKeepsOthers
  <1>g. ASSUME NEW t, t \notin {"fill", "symlink", "swap"}, Goes(u, t) \/ Takes(u, t) PROVE away
    BY <1>g, GoesKeepsOthers, TakesKeepsOthers
  <1>f. ASSUME NEW s \in {"stale", "sync_create", "sync_unlink", "clean_new"}, EndsOrGoes(u, s),
               Runs(u, s)
        PROVE  away
    <2>1. Follows(u, s) \notin {"fill", "symlink", "swap"}
      BY <1>f, StaleFollows, CreatedFollows, CleanedFollows, PlainFollows DEF Runs, Units
    <2> QED BY <1>e, <1>f, <1>g, <2>1 DEF EndsOrGoes
  <1>r. Runs(u, wpc[u])
    BY Running
  <1>1. CASE remove_stale_temporaries(u)
    BY <1>1, <1>e, <1>f, <1>r, StaleEffect
  <1>2. CASE enable(u)
    BY <1>2, <1>e, <1>g, EnableEffect
  <1>3. CASE create_marker(u)
    <2>1. Runs(u, "sync_create")
      BY <1>3, CreateEffect DEF Runs
    <2> QED BY <1>3, <1>e, <1>f, <1>g, <2>1, CreateEffect
  <1>4. CASE rename_marker(u)
    BY <1>4, <1>e, <1>g, RenameEffect
  <1>5. CASE remove_marker(u)
    BY <1>5, <1>e, <1>g, UnlinkEffect
  <1>6. CASE fsync_root(u)
    BY <1>6, <1>e, <1>f, <1>r, FsyncRootEffect
  <1>7. CASE list_generations(u)
    <2>1. wpc[u] = "list_new" => Runs(u, "clean_new")
      BY <1>r DEF Runs
    <2> QED BY <1>7, <1>e, <1>f, <1>g, <2>1, ListEffect
  <1>8. CASE remove_unreferenced_generations(u)
    <2>1. CASE UNCHANGED wpc
      BY <1>8, <2>1, CleanEffect
    <2> QED BY <1>8, <1>e, <1>f, <1>g, <1>r, <2>1, CleanEffect
  <1>9. CASE make_generation(u)
    <2>1. ASSUME NEW g \in Generations, Draws(u, g)
          PROVE  wpc'[u] = "fill" /\ wgen'[u] \in Generations \ taken
      <3>1. g \notin drawn /\ g \notin Credentials
        BY <2>1, AccountAssumption DEF Draws
      <3> QED BY <2>1, <3>1, DrawsKeepsOthers
    <2> QED BY <1>9, <1>e, <2>1, MakeEffect
  <1>10. CASE fill_generation(u)
    BY <1>10, <1>e, FillEffect, GoesKeepsOthers
  <1>11. CASE symlink(u)
    BY <1>11, <1>e, SymlinkEffect, GoesKeepsOthers DEF Shows
  <1>12. CASE swap_current(u)
    BY <1>12, <1>e, <1>g, SwapEffect
  <1>13. CASE remove_current(u)
    BY <1>13, <1>e, <1>g, RemoveCurrentEffect
  <1>14. CASE fsync_tls(u)
    BY <1>14, <1>e, <1>g, FsyncTlsEffect
  <1> QED BY <1>1, <1>2, <1>3, <1>4, <1>5, <1>6, <1>7, <1>8, <1>9, <1>10, <1>11, <1>12,
             <1>13, <1>14 DEF WorkerStep

(* The boot reset commits its marker, removes the link, and only then the marker. *)
LEMMA ResetStep ==
    ASSUME WorkerOK, NEW u \in Units, u = "boot_reset", WorkerStep(u), ResetPlaces,
           UNCHANGED <<account, pairing>>
    PROVE  ResetPlaces'
  <1>t. WorkerTypeOK /\ Marker(u) = ResetPending /\ ResetPending \notin Temporaries
    BY NamesDiffer DEF WorkerOK, Marker
  <1>e. ASSUME NEW r, Ends(u, r) PROVE ResetPlaces'
    BY <1>e, EndsKeepsOthers DEF ResetPlaces
  <1>c. /\ EndsOrGoes(u, "clean_new") => Goes(u, "unlink")
        /\ EndsOrGoes(u, "sync_create") => Goes(u, "unlink_current")
        /\ EndsOrGoes(u, "sync_unlink") => Ends(u, "success")
        /\ EndsOrGoes(u, "stale") => Goes(u, "create")
    BY CleanedFollows, CreatedFollows, StaleFollows, PlainFollows DEF EndsOrGoes
  <1>r. wpc[u] \in {"idle", "stale", "create", "rename", "sync_create", "unlink_current", "sync_current",
                    "reset_enrollment", "list_new", "clean_new", "unlink", "sync_unlink"}
    BY Running DEF Runs, Steps, Identity
  <1>k. ASSUME wpc[u] \in {"list_new", "clean_new"}, visible'.link = visible.link,
               durable'.link \in {durable.link, visible.link},
               wpc'[u] \in {"list_new", "clean_new", "unlink"}
        PROVE  ResetPlaces'
    BY <1>k DEF ResetPlaces
  <1>1. CASE remove_stale_temporaries(u)
    <2>1. CASE Goes(u, "create") /\ Shows(visible.root \ Temporaries, visible.gens, visible.link, NoGeneration)
      <3>1. /\ wpc'[u] = "create" /\ durable' = durable /\ visible'.link = visible.link
            /\ ResetPending \in visible'.root => ResetPending \in visible.root
        BY <1>1, <2>1, StaleEffect, GoesKeepsOthers DEF Shows
      <3> QED BY <1>1, <3>1, StaleEffect DEF ResetPlaces
    <2> QED BY <1>1, <1>c, <1>e, <2>1, StaleEffect
  <1>2. CASE create_marker(u)
    <2>1. CASE Marker(u) \in visible.root /\ Goes(u, "unlink_current") /\ UNCHANGED visible
      <3>1. wpc[u] = "create" /\ wpc'[u] = "unlink_current" /\ durable' = durable /\ visible' = visible
        BY <1>2, <2>1, CreateEffect, GoesKeepsOthers
      <3> QED BY <1>t, <2>1, <3>1 DEF ResetPlaces
    <2>2. CASE Goes(u, "rename") /\ visible'.link = visible.link
      <3>1. wpc[u] = "create" /\ wpc'[u] = "rename" /\ durable' = durable
        BY <1>2, <2>2, CreateEffect, GoesKeepsOthers
      <3> QED BY <2>2, <3>1 DEF ResetPlaces
    <2> QED BY <1>2, <1>c, <1>e, <2>1, <2>2, CreateEffect DEF Shows
  <1>3. CASE rename_marker(u)
    <2>1. CASE Goes(u, "sync_create") /\ Marker(u) \in visible'.root /\ visible'.link = visible.link
      <3>1. wpc[u] = "rename" /\ wpc'[u] = "sync_create" /\ durable' = durable
        BY <1>3, <2>1, RenameEffect, GoesKeepsOthers
      <3> QED BY <1>t, <2>1, <3>1 DEF ResetPlaces
    <2> QED BY <1>3, <1>e, <2>1, RenameEffect DEF Shows
  <1>4. CASE remove_marker(u)
    <2>1. CASE Goes(u, "sync_unlink")
      BY <2>1, GoesKeepsOthers DEF ResetPlaces
    <2> QED BY <1>4, <1>e, <2>1, UnlinkEffect
  <1>5. CASE fsync_root(u)
    <2>1. CASE wpc[u] = "sync_create" /\ Goes(u, "unlink_current") /\ durable' = RootSynced(visible)
      <3>1. /\ wpc'[u] = "unlink_current" /\ visible' = visible
            /\ durable'.root = visible.root /\ durable'.link = durable.link
        BY <1>5, <1>t, <2>1, FsyncRootEffect, GoesKeepsOthers, Synced
      <3> QED BY <2>1, <3>1 DEF ResetPlaces
    <2> QED BY <1>5, <1>c, <1>e, <2>1, FsyncRootEffect
  <1>6. CASE list_generations(u)
    <2>1. visible' = visible /\ durable' = durable /\ wpc[u] = "list_new"
      BY <1>6, <1>r, ListEffect
    <2>2. CASE Goes(u, "unlink") \/ Takes(u, "clean_new")
      BY <1>k, <2>1, <2>2, GoesKeepsOthers, TakesKeepsOthers
    <2> QED BY <1>6, <1>c, <1>e, <2>1, <2>2, ListEffect
  <1>7. CASE remove_unreferenced_generations(u)
    <2>1. /\ visible'.link = visible.link /\ durable'.link \in {durable.link, visible.link}
          /\ wpc[u] = "clean_new"
      BY <1>7, <1>r, <1>t, CleanEffect, Synced DEF Shows
    <2>2. CASE Goes(u, "unlink") \/ UNCHANGED wpc
      BY <1>k, <2>1, <2>2, GoesKeepsOthers
    <2> QED BY <1>7, <1>c, <1>e, <2>1, <2>2, CleanEffect
  <1>8. CASE remove_current(u)
    <2>1. CASE visible.link = NoGeneration /\ Goes(u, "reset_enrollment") /\ UNCHANGED visible
      <3>1. wpc[u] = "unlink_current" /\ wpc'[u] = "reset_enrollment" /\ durable' = durable
        BY <1>8, <2>1, RemoveCurrentEffect, GoesKeepsOthers
      <3> QED BY <2>1, <3>1 DEF ResetPlaces
    <2>2. CASE Goes(u, "sync_current") /\ visible'.link = NoGeneration
      <3>1. wpc'[u] = "sync_current"
        BY <2>2, GoesKeepsOthers
      <3> QED BY <2>2, <3>1 DEF ResetPlaces
    <2> QED BY <1>8, <1>e, <2>1, <2>2, RemoveCurrentEffect DEF Shows
  <1>9. CASE fsync_tls(u)
    <2>1. CASE wpc[u] = "sync_current" /\ Goes(u, "reset_enrollment") /\ durable' = TlsSynced(visible)
      <3>1. wpc'[u] = "reset_enrollment" /\ visible' = visible /\ durable'.link = visible.link
        BY <1>9, <1>t, <2>1, FsyncTlsEffect, GoesKeepsOthers, Synced
      <3> QED BY <2>1, <3>1 DEF ResetPlaces
    <2> QED BY <1>9, <1>r, <1>e, <2>1, FsyncTlsEffect
  <1> QED BY <1>r, <1>1, <1>2, <1>3, <1>4, <1>5, <1>6, <1>7, <1>8, <1>9
          DEF WorkerStep, enable, make_generation, fill_generation, symlink, swap_current

(* How sl-remoted moves. *)
RemotedMoves ==
    \/ UNCHANGED <<remoted, serving>>
    \/ RemotedStarts
    \/ remoted # "inactive" /\ serving' = NoGeneration /\ remoted' \in {"restarting", "inactive"}
    \/ Crash
    \/ remoted # "inactive" /\ serving' = serving /\ remoted' \in {"stopping", "inactive"}
    \/ remoted = "inactive" /\ serving' = serving /\ remoted' = "queued" /\ (Boot \/ (Due("start") /\ Waits))

LEMMA ActsMoveRemoted ==
    ASSUME Base, Acts
    PROVE  RemotedMoves
  <1> USE DEF RemotedMoves
  <1>1. CASE \E method \in Methods : Call(method)
    BY <1>1 DEF Call, systemdVars
  <1>2. CASE start_remoted
    BY <1>2 DEF start_remoted, QueueRemoted, systemdVars
  <1>3. CASE stop_remoted
    BY <1>3 DEF stop_remoted
  <1>4. CASE (PlatformStep /\ ~start_remoted /\ ~stop_remoted) \/ worker_timeout \/ start_timeout
    BY <1>4
    DEF PlatformStep, StepFails, skip, check_reset, read_marker, run_worker, worker_ended, auth,
        start_done, start_timeout, stop_done, stop_timeout, enrollment_network, fingerprint,
        pending_pairing, show, Reads, worker_timeout, systemdVars
  <1>5. CASE (\E u \in Units : WorkerRuns(u)) \/ WorkerResets
    BY <1>5 DEF WorkerRuns, WorkerResets, systemdVars
  <1>6. CASE SystemdStep \/ BootResetRetried
    <2>1. CASE BootUnitSettles
      BY <2>1 DEF BootUnitSettles
    <2> QED BY <1>6, <2>1 DEF SystemdStep, PlatformUp, RemotedStops, BootResetRetried
  <1>7. CASE Environment /\ ~Boot
    BY <1>7 DEF Environment, Enroll, Expire, RemotedExits, systemdVars
  <1>8. CASE Boot
    BY <1>8 DEF Boot, Base, SystemdOK
  <1> QED BY <1>1, <1>2, <1>3, <1>4, <1>5, <1>6, <1>7, <1>8 DEF Acts

(* A step of the one process that runs. *)
LEMMA OneMoves ==
    ASSUME Base, Alone, NEW u \in Units, WorkerRuns(u)
    PROVE  /\ WorkerOK /\ WorkerStep(u) /\ wpc[u] # "idle" /\ MarkersMove(u) /\ LinkMoves(u)
           /\ UNCHANGED platformVars
           /\ UNCHANGED <<call, at, waiting, saw, phase, boot_unit, remoted, serving, account, pairing>>
           /\ \A v \in Units \ {u} : wpc[v] = "idle" /\ wpc'[v] = "idle" /\ outcome'[v] = outcome[v]
           /\ \/ u = "enable" /\ call = "enable" /\ at = 2 /\ waiting = "yes"
              \/ u = "disable" /\ call = "disable" /\ at = 1 /\ waiting = "yes"
              \/ u = "rotate" /\ call = "reenroll" /\ at = 3 /\ waiting = "yes"
              \/ u = "clear_reset" /\ call = "reenroll" /\ at = 7 /\ waiting = "yes"
              \/ /\ u = "boot_reset" /\ boot_unit = "running"
                 /\ \/ call = "none" /\ phase = "booting"
                    \/ call = "enable" /\ at = 4 /\ waiting = "yes"
                    \/ call = "reenroll" /\ at = 8 /\ waiting = "yes"
  <1>1. /\ WorkerOK /\ WorkerStep(u) /\ UNCHANGED platformVars
        /\ UNCHANGED <<call, at, waiting, saw, phase, boot_unit, remoted, serving, account, pairing>>
    BY DEF WorkerRuns, platformVars, systemdVars, authVars, Base
  <1>2. wpc[u] # "idle" /\ OthersKept(u) /\ MarkersMove(u) /\ LinkMoves(u)
    BY <1>1, StepOfOne, StepMovesMarkers, StepMovesLink
  <1>3. ASSUME NEW v \in Units \ {u} PROVE wpc[v] = "idle" /\ wpc'[v] = "idle" /\ outcome'[v] = outcome[v]
    BY <1>2, <1>3, OneRuns DEF OthersKept
  <1> QED BY <1>1, <1>2, <1>3, RunsFor

(* The boot reset's call to sl-authd. *)
LEMMA ResetsMoves ==
    ASSUME Base, Alone, WorkerResets
    PROVE  /\ UNCHANGED <<visible, durable, drawn>> /\ UNCHANGED platformVars
           /\ UNCHANGED <<call, at, waiting, saw, phase, boot_unit, remoted, serving>>
           /\ wpc["boot_reset"] = "reset_enrollment" /\ ~ResetBegins
           /\ \/ wpc'["boot_reset"] = "idle"
              \/ /\ wpc'["boot_reset"] = "list_new" /\ account' = "none" /\ pairing' = "none"
                 /\ outcome'["boot_reset"] = outcome["boot_reset"]
           /\ account' \in {account, "none"}
           /\ \A v \in Units \ {"boot_reset"} :
                 wpc[v] = "idle" /\ wpc'[v] = "idle" /\ outcome'[v] = outcome[v]
  <1>w. WorkerOK /\ "boot_reset" \in Units
    BY DEF Base, Units
  <1>1. /\ UNCHANGED <<visible, durable, drawn>> /\ UNCHANGED platformVars
        /\ UNCHANGED <<call, at, waiting, saw, phase, boot_unit, remoted, serving>>
        /\ wpc["boot_reset"] = "reset_enrollment"
    BY DEF WorkerResets, platformVars, systemdVars
  <1>2. /\ OthersKept("boot_reset")
        /\ \/ wpc'["boot_reset"] = "idle"
           \/ /\ wpc'["boot_reset"] = "list_new" /\ account' = "none" /\ pairing' = "none"
              /\ outcome'["boot_reset"] = outcome["boot_reset"]
        /\ account' \in {account, "none"}
    BY <1>w, ResetsEffect, EndsKeepsOthers, GoesKeepsOthers DEF ResetEnrollment, authVars
  <1>3. ASSUME NEW v \in Units \ {"boot_reset"}
        PROVE  wpc[v] = "idle" /\ wpc'[v] = "idle" /\ outcome'[v] = outcome[v]
    BY <1>w, <1>1, <1>2, <1>3, OneRuns DEF OthersKept
  <1> QED BY <1>1, <1>2, <1>3 DEF ResetBegins

LEMMA CrashMoves ==
    ASSUME Base, Crash
    PROVE  /\ visible' = durable /\ durable' = durable /\ drawn' = drawn
           /\ \A u \in Units : wpc'[u] = "idle" /\ outcome'[u] = "none"
           /\ call' = "none" /\ phase' = "off" /\ remoted' = "inactive" /\ serving' = NoGeneration
           /\ reply' = "none" /\ account' = account
  BY DEF Crash, WorkersCrash

LEMMA ResultsKept ==
    ASSUME Base, Alone, ResultsOfEnded, Acts
    PROVE  ResultsOfEnded'
  <1>w. WorkerOK
    BY DEF Base
  <1>1. ASSUME NEW u \in Units, WorkerRuns(u) PROVE ResultsOfEnded'
    <2>1. wpc'[u] # "idle" => outcome'[u] = "none"
      BY <1>1, <1>w, OneMoves, StepResults DEF ResultsOfEnded
    <2> QED BY <1>1, <2>1, OneMoves DEF ResultsOfEnded
  <1>2. CASE WorkerResets
    BY <1>2, ResetsMoves DEF ResultsOfEnded, Units
  <1>3. CASE Crash
    BY <1>3, CrashMoves DEF ResultsOfEnded
  <1>4. CASE Outside
    BY <1>4 DEF ResultsOfEnded, Outside
  <1> QED BY <1>1, <1>2, <1>3, <1>4, ActKinds

LEMMA OffKept ==
    ASSUME Base, Alone, OffIsQuiet, OffIsSame, Acts
    PROVE  OffIsSame'
  <1>1. ASSUME NEW u \in Units, WorkerRuns(u) PROVE phase' # "off"
    BY <1>1, OneMoves DEF OffIsQuiet
  <1>2. WorkerResets => phase' # "off"
    BY ResetsMoves DEF OffIsQuiet, Units
  <1>3. CASE Crash
    BY <1>3, CrashMoves DEF OffIsSame
  <1>4. CASE Outside /\ ~Crash
    <2>1. phase' = "off" => phase = "off"
      BY <1>4, PhaseMoves
    <2> QED BY <1>4, <2>1 DEF Outside, OffIsSame
  <1> QED BY <1>1, <1>2, <1>3, <1>4, ActKinds DEF OffIsSame

LEMMA RevokingKept ==
    ASSUME Base, Alone, Base', Revoking, Acts, HistoryStep
    PROVE  Revoking'
  <1>1. Existing \subseteq drawn \cup Credentials
    BY DEF Existing, Revoking, Credentials
  <1>2. condemned' \cup before' \subseteq drawn \cup Credentials
    <2>1. before' \subseteq drawn \cup Credentials
      BY <1>1, HistoryMoves DEF Revoking
    <2>2. condemned' \subseteq condemned \cup before \cup Existing
      BY HistoryMoves
    <2> QED BY <1>1, <2>1, <2>2 DEF Revoking
  <1>3. drawn \subseteq drawn' /\ visible'.gens \cup durable'.gens \subseteq drawn'
    <2>1. ASSUME NEW u \in Units, WorkerRuns(u)
          PROVE  drawn \subseteq drawn' /\ visible'.gens \cup durable'.gens \subseteq drawn'
      <3>1. /\ drawn \subseteq drawn'
            /\ visible'.gens \cup durable'.gens \subseteq visible.gens \cup durable.gens \cup drawn'
        BY <2>1, OneMoves DEF LinkMoves
      <3> QED BY <3>1 DEF Revoking
    <2>2. CASE WorkerResets
      BY <2>2, ResetsMoves DEF Revoking
    <2>3. CASE Crash
      BY <2>3, CrashMoves DEF Revoking
    <2>4. CASE Outside
      BY <2>4 DEF Outside, Revoking
    <2> QED BY <2>1, <2>2, <2>3, <2>4, ActKinds
  <1>4. /\ Account \in condemned' => account' = "enrolled"
        /\ Code \in condemned' => pairing' = "pending"
    BY HistoryMoves DEF Base, AuthOK
  <1> QED BY <1>2, <1>3, <1>4 DEF Revoking

(* What a Reenroll found and cleared does not come back. *)
LEMMA ClearedKept ==
    ASSUME Base, Alone, Base', Revoking, Acts, Cleared, before' \subseteq before
    PROVE  Cleared'
  <1>1. visible'.gens \cup durable'.gens \subseteq Generations
    <2>1. WorkerTypeOK'
      BY DEF Base, WorkerOK
    <2> QED BY <2>1, DirectoryFields DEF WorkerTypeOK
  <1>2. before \cap (Generations \ drawn) = {}
    BY AccountAssumption DEF Revoking
  <1>3. visible'.gens \cup durable'.gens \subseteq visible.gens \cup durable.gens \cup (drawn' \ drawn)
    <2>1. ASSUME NEW u \in Units, WorkerRuns(u)
          PROVE  visible'.gens \cup durable'.gens \subseteq visible.gens \cup durable.gens \cup (drawn' \ drawn)
      BY <2>1, OneMoves DEF LinkMoves
    <2> QED BY <2>1, ActKinds, ResetsMoves, CrashMoves DEF Outside
  <1> QED BY <1>1, <1>2, <1>3 DEF Cleared

(* How a method's place moves. *)
LEMMA MethodMoves ==
    ASSUME Base, Acts, call' # "none"
    PROVE  \/ call = "none" /\ at' = 1 /\ waiting' = "no" /\ saw' = {} /\ (\E method \in Methods : Begins(method))
           \/ Onward
           \/ /\ call # "none" /\ call' = call /\ at' = at /\ saw' = saw
              /\ waiting' = waiting \/ Waits
  BY ActsMovePlatform
     DEF PlatformMoves, Begins, Returns, Waits, platformVars, Base, PlatformOK, PlaceOK

LEMMA DurableLinkMoves ==
    ASSUME Base, Alone, Acts
    PROVE  durable'.link \in {durable.link, visible.link}
  <1>1. ASSUME NEW u \in Units, WorkerRuns(u) PROVE durable'.link \in {durable.link, visible.link}
    BY <1>1, OneMoves DEF LinkMoves
  <1> QED BY <1>1, ActKinds, ResetsMoves, CrashMoves DEF Outside

(* A method that does not wait for a start of sl-remoted: the boot reset is over. *)
WithoutReset ==
    /\ call # "none"
    /\ ~(call = "enable" /\ at = 4 /\ waiting = "yes")
    /\ ~(call = "reenroll" /\ at = 8 /\ waiting = "yes")

LEMMA Meanwhile ==
    ASSUME Base, Alone, Acts, ~Crash, WithoutReset
    PROVE  /\ ResetPending \notin visible.root => ResetPending \notin visible'.root
           /\ visible.link # NoGeneration => visible'.link # NoGeneration
           /\ ~ResetBegins /\ ~WorkerRuns("boot_reset") /\ ~WorkerResets
           /\ ~(call = "enable" /\ at = 2) /\ ~(call = "reenroll" /\ at = 3) =>
                 visible'.link = visible.link
  <1>1. ~WorkerRuns("boot_reset")
    BY OneMoves DEF WithoutReset, Units
  <1>2. ~ResetBegins
    BY <1>1, ResetBeginsBy
  <1>3. ~WorkerResets
    <2>1. SUFFICES ASSUME WorkerResets PROVE FALSE
      OBVIOUS
    <2>2. wpc["boot_reset"] # "idle" /\ "boot_reset" \in Units
      BY <2>1, ResetsMoves DEF Units
    <2> QED BY <2>2, RunsFor DEF WithoutReset
  <1>4. CASE \E u \in Units : WorkerRuns(u)
    <2>1. PICK u \in Units : WorkerRuns(u)
      BY <1>4
    <2>2. u # "boot_reset" /\ MarkersMove(u) /\ LinkMoves(u)
      BY <1>1, <2>1, OneMoves
    <2>3. ResetPending \notin visible.root => ResetPending \notin visible'.root
      BY <2>2 DEF MarkersMove
    <2>4. visible.link # NoGeneration => visible'.link # NoGeneration
      BY <2>2 DEF LinkMoves
    <2>5. visible'.link # visible.link => u \in {"enable", "rotate"}
      <3>1. Runs(u, wpc[u])
        BY Running DEF Base
      <3> QED BY <2>2, <3>1 DEF LinkMoves, Runs
    <2> QED BY <1>1, <1>2, <1>3, <2>1, <2>3, <2>4, <2>5, OneMoves
  <1>5. CASE Outside
    BY <1>1, <1>2, <1>3, <1>5 DEF Outside
  <1> QED BY <1>3, <1>4, <1>5, ActKinds

LEMMA UnspoiltKept ==
    ASSUME Base, Alone, Base', Revoking, Unspoilt, Acts, HistoryStep
    PROVE  Unspoilt'
  <1> DEFINE Mine == {"fill", "symlink", "swap"}
             taken == condemned \cup before
  <1>m. ASSUME NEW v \in Units, wpc'[v] \in Mine PROVE v \in {"enable", "rotate"}
    <2>1. FlowOK'
      BY DEF Base, WorkerOK
    <2> QED BY <1>m, <2>1 DEF FlowOK, Runs
  <1>1. ASSUME NEW u \in Units, WorkerRuns(u) PROVE Unspoilt'
    <2>1. CASE u = "boot_reset"
      <3>1. \A v \in Units : wpc'[v] \notin Mine
        BY <1>1, <1>m, <2>1, OneMoves
      <3> QED BY <3>1 DEF Unspoilt
    <2>2. CASE u # "boot_reset"
      <3>1. ~ResetBegins
        BY <1>1, <2>2, OneMoves DEF ResetBegins, Units
      <3>2. condemned' \cup before' \subseteq taken
        BY <1>1, <3>1, OneMoves, HistoryOfWorkers
      <3>3. taken \subseteq drawn \cup Credentials
        BY DEF Revoking
      <3>4. /\ wpc'[u] \in {"fill", "symlink"} => wgen'[u] \in Generations \ taken
            /\ wpc'[u] = "swap" => visible'.next \in Generations \ taken
        BY <1>1, <3>3, OneMoves, DrawnIsNew DEF Unspoilt
      <3> HIDE DEF taken
      <3> QED BY <1>1, <3>2, <3>4, OneMoves DEF Unspoilt
    <2> QED BY <2>1, <2>2
  <1>2. CASE WorkerResets
    <2>1. \A v \in Units : wpc'[v] \notin Mine
      BY <1>2, <1>m, ResetsMoves
    <2> QED BY <2>1 DEF Unspoilt
  <1>3. CASE Crash
    BY <1>3, CrashMoves DEF Unspoilt
  <1>4. CASE Outside
    <2>1. SUFFICES ASSUME NEW v \in Units, wpc'[v] \in Mine
                   PROVE  /\ wpc'[v] \in {"fill", "symlink"} => wgen'[v] \in (Generations \ (condemned \cup before))'
                          /\ wpc'[v] = "swap" => visible'.next \in (Generations \ (condemned \cup before))'
      BY DEF Unspoilt
    <2>2. wpc'[v] = wpc[v] /\ wgen' = wgen /\ visible' = visible
      BY <1>4, <2>1 DEF Outside
    <2>3. \/ call = "enable" /\ at = 2
          \/ call = "reenroll" /\ at = 3
      BY <1>m, <2>1, <2>2, RunsFor
    <2>4. ~Called("reenroll") /\ ~Succeeds("reenroll")
      BY <2>3, SucceedsTable DEF Called, Succeeds
    <2>5. ~ResetBegins
      BY <1>4, <2>2 DEF Outside, ResetBegins, Units
    <2>6. condemned' \cup before' \subseteq condemned \cup before
      BY <2>4, <2>5, HistoryMoves
    <2> QED BY <2>1, <2>2, <2>6 DEF Unspoilt
  <1> QED BY <1>1, <1>2, <1>3, <1>4, ActKinds

LEMMA ServesKept ==
    ASSUME Base, Alone, ServesCurrent, EnablePlaces, ReenrollPlaces, Acts
    PROVE  ServesCurrent'
  <1>1. ASSUME NEW u \in Units, WorkerRuns(u) PROVE ServesCurrent'
    <2>1. CASE visible'.link = visible.link
      BY <1>1, <2>1, OneMoves DEF ServesCurrent
    <2>2. CASE wpc[u] = "swap"
      <3>1. u \in {"enable", "rotate"}
        BY <2>2, Running DEF Runs, Base
      <3>2. CASE u = "enable"
        <4>1. visible.link = NoGeneration
          BY <2>2, <3>2 DEF EnablePlaces, Making
        <4>2. serving = NoGeneration /\ remoted # "active"
          BY <4>1 DEF ServesCurrent
        <4> QED BY <1>1, <4>2, OneMoves DEF ServesCurrent
      <3>3. CASE u = "rotate"
        <4>1. remoted = "inactive"
          BY <1>1, <3>3, OneMoves DEF ReenrollPlaces
        <4>2. serving = NoGeneration
          BY <4>1 DEF Base, SystemdOK
        <4> QED BY <1>1, <4>1, <4>2, OneMoves DEF ServesCurrent
      <3> QED BY <3>1, <3>2, <3>3
    <2>3. CASE u = "boot_reset"
      <3>1. remoted # "active" /\ serving = NoGeneration
        BY <1>1, <2>3, OneMoves DEF Base, SystemdOK
      <3> QED BY <1>1, <3>1, OneMoves DEF ServesCurrent
    <2> QED BY <1>1, <2>1, <2>2, <2>3, OneMoves DEF LinkMoves
  <1>2. CASE Crash
    BY <1>2, CrashMoves DEF ServesCurrent
  <1>3. CASE UNCHANGED visible /\ RemotedStarts
    <2>1. remoted' = "active" => visible.link # NoGeneration /\ serving' = visible.link
      <3>1. SUFFICES ASSUME remoted' = "active"
                     PROVE  visible.link # NoGeneration /\ serving' = visible.link
        OBVIOUS
      <3>2. visible.link \in visible.gens
        BY <1>3, <3>1 DEF RemotedStarts, StartConditions
      <3>3. visible.gens \in SUBSET Generations
        BY Running DEF Base, Units
      <3> QED BY <1>3, <3>1, <3>2, <3>3, GenerationsAssumption DEF RemotedStarts
    <2>2. remoted' # "active" => serving' = NoGeneration
      BY <1>3 DEF RemotedStarts
    <2> QED BY <1>3, <2>1, <2>2 DEF ServesCurrent
  <1>4. CASE UNCHANGED visible /\ ~RemotedStarts /\ ~Crash
    BY <1>4, ActsMoveRemoted DEF RemotedMoves, ServesCurrent
  <1>5. CASE UNCHANGED visible
    BY <1>2, <1>3, <1>4, <1>5
  <1> QED BY <1>1, <1>2, <1>5, ActKinds, ResetsMoves DEF Outside

LEMMA EnablePlacesKept ==
    ASSUME Base, Alone, ResultsOfEnded, EnablePlaces, Acts
    PROVE  EnablePlaces'
  <1>u. "enable" \in Units
    BY DEF Units
  <1>1. /\ wpc'["enable"] \in Making => visible'.link = NoGeneration
        /\ wpc'["enable"] \in Made \/ outcome'["enable"] = "success" => visible'.link # NoGeneration
    <2>1. ASSUME NEW u \in Units, WorkerRuns(u)
          PROVE  /\ wpc'["enable"] \in Making => visible'.link = NoGeneration
                 /\ wpc'["enable"] \in Made \/ outcome'["enable"] = "success" => visible'.link # NoGeneration
      <3>1. CASE u = "enable"
        <4>1. outcome[u] = "none"
          BY <2>1, OneMoves DEF ResultsOfEnded
        <4> QED BY <2>1, <3>1, <4>1, OneMoves, EnableMakes DEF EnablePlaces
      <3>2. CASE u # "enable"
        <4>1. wpc'["enable"] = "idle" /\ outcome'["enable"] = outcome["enable"] /\ ~(call = "enable" /\ at = 2)
          BY <1>u, <2>1, <3>2, OneMoves
        <4>2. outcome["enable"] = "none"
          BY <1>u, <4>1, RunsFor
        <4> QED BY <4>1, <4>2 DEF Making, Made
      <3> QED BY <3>1, <3>2
    <2>2. CASE WorkerResets
      <3>1. /\ visible' = visible /\ wpc'["enable"] = wpc["enable"]
            /\ outcome'["enable"] = outcome["enable"]
        BY <1>u, <2>2, ResetsMoves
      <3> QED BY <3>1 DEF EnablePlaces
    <2>3. CASE Crash
      BY <1>u, <2>3, CrashMoves DEF Making, Made
    <2>4. CASE Outside
      <3>1. /\ visible' = visible
            /\ \/ wpc'["enable"] = wpc["enable"] /\ outcome'["enable"] \in {outcome["enable"], "none"}
               \/ wpc'["enable"] = "stale" /\ outcome'["enable"] = "none"
        BY <1>u, <2>4 DEF Outside
      <3> QED BY <3>1 DEF EnablePlaces, Making, Made
    <2> QED BY <2>1, <2>2, <2>3, <2>4, ActKinds
  <1>2. ASSUME call' = "enable", at' \in 2 .. 4, ~(at' = 4 /\ waiting' = "yes")
        PROVE  ResetPending \notin visible'.root /\ (at' \in 3 .. 4 => visible'.link # NoGeneration)
    <2>1. ~Crash
      BY <1>2, CrashMoves
    <2>2. CASE Onward
      <3>1. UNCHANGED visible /\ call = "enable" /\ at' = at + 1 /\ at \in 1 .. 3
        BY <1>2, <2>2, OnwardTable DEF Onward, Base, PlatformOK, PlaceOK
      <3>2. ResetPending \notin visible.root
        BY <2>2, <3>1, OnwardTable DEF EnablePlaces
      <3>3. at' \in 3 .. 4 => visible.link # NoGeneration
        BY <2>2, <3>1, OnwardTable DEF EnablePlaces
      <3> QED BY <3>1, <3>2, <3>3
    <2>3. CASE call = "enable" /\ at' = at /\ (waiting' = waiting \/ Waits)
      <3>1. ~(at = 4 /\ waiting = "yes")
        BY <1>2, <2>3 DEF Waits
      <3>2. WithoutReset
        BY <2>3, <3>1 DEF WithoutReset
      <3>3. ResetPending \notin visible.root /\ (at' \in 3 .. 4 => visible.link # NoGeneration)
        BY <1>2, <2>3, <3>1 DEF EnablePlaces
      <3> QED BY <2>1, <3>2, <3>3, Meanwhile
    <2> QED BY <1>2, <2>2, <2>3, MethodMoves
  <1> QED BY <1>1, <1>2 DEF EnablePlaces

(* Without an overrun the boot reset is started by a boot or by a method's start. *)
LEMMA ResetStarts ==
    ASSUME Base, QuietActs, wpc["boot_reset"] = "idle", wpc'["boot_reset"] = "stale"
    PROVE  UNCHANGED <<visible, durable>> /\ (phase = "off" \/ Due("start"))
  <1>w. WorkerOK /\ "boot_reset" \in Units
    BY DEF Base, Units
  <1>1. ~UNCHANGED wpc
    OBVIOUS
  <1>2. CASE \E method \in Methods : Call(method)
    BY <1>1, <1>2 DEF Call, workerVars
  <1>3. CASE PlatformStep
    <2>1. CASE start_remoted
      BY <2>1 DEF start_remoted, QueueRemoted, StartWorker, workerVars
    <2>2. ~run_worker
      <3>1. SUFFICES ASSUME run_worker PROVE FALSE
        OBVIOUS
      <3>2. StartWorker(ItsUnit)
        BY <1>1, <3>1 DEF run_worker, workerVars
      <3> QED BY <1>w, <3>1, <3>2, WorkerUnits, StartMoves DEF OthersKept
    <2>3. ~worker_ended
      BY <1>1 DEF worker_ended, CollectWorker
    <2> QED BY <1>1, <1>3, <2>1, <2>2, <2>3
        DEF PlatformStep, StepFails, skip, check_reset, read_marker, auth, start_done, start_timeout,
            stop_remoted, stop_done, stop_timeout, enrollment_network, fingerprint, pending_pairing,
            show, Reads, workerVars
  <1>4. ASSUME NEW u \in Units, WorkerRuns(u) PROVE FALSE
    BY <1>w, <1>4, StepOfOne DEF WorkerRuns, OthersKept
  <1>5. ~WorkerResets
    BY <1>w, ResetsEffect
  <1>6. CASE SystemdStep
    BY <1>1, <1>6
    DEF SystemdStep, PlatformUp, BootUnitSettles, CollectWorker, RemotedStarts, RemotedStops, workerVars
  <1>7. CASE Environment
    <2>1. ~Crash
      BY <1>w, CrashMoves
    <2>2. CASE Boot
      BY <2>2 DEF Boot, StartWorker, workerVars
    <2> QED BY <1>1, <1>7, <2>1, <2>2
        DEF Environment, Enroll, Expire, RemotedExits, Writeback, workerVars
  <1> QED BY <1>2, <1>3, <1>4, <1>5, <1>6, <1>7 DEF QuietActs

LEMMA ResetPlacesKept ==
    ASSUME Base, Alone, EnablePlaces, ReenrollPlaces, OffIsSame, ResetPlaces, QuietActs, Acts
    PROVE  ResetPlaces'
  <1>u. "boot_reset" \in Units
    BY DEF Units
  <1>1. ASSUME NEW u \in Units, WorkerRuns(u) PROVE ResetPlaces'
    <2>1. CASE u = "boot_reset"
      BY <1>1, <2>1, OneMoves, ResetStep
    <2>2. CASE u # "boot_reset"
      <3>1. wpc'["boot_reset"] = "idle"
        BY <1>1, <1>u, <2>2, OneMoves
      <3> QED BY <3>1 DEF ResetPlaces
    <2> QED BY <2>1, <2>2
  <1>2. CASE WorkerResets
    BY <1>2, ResetsMoves DEF ResetPlaces
  <1>3. CASE Crash
    BY <1>3, <1>u, CrashMoves DEF ResetPlaces
  <1>4. CASE Outside /\ wpc'["boot_reset"] = wpc["boot_reset"]
    <2>0. wpc["boot_reset"] # "idle" => ~Due("ensure") /\ remoted # "active"
      <3>1. wpc["boot_reset"] # "idle" => boot_unit = "running"
        BY DEF Base, SystemdOK
      <3>2. Due("ensure") => boot_unit # "running"
        BY BootResetOver DEF Due, On
      <3> QED BY <3>1, <3>2 DEF Base, SystemdOK
    <2>1. /\ wpc["boot_reset"] # "idle" /\ account = "none" => account' = "none"
          /\ wpc["boot_reset"] # "idle" /\ pairing = "none" => pairing' = "none"
      BY <2>0, ActsMoveAuth
         DEF AuthMoves, authVars, ResetEnrollment, CancelPendingPairing, EnsurePendingPairing
    <2>2. /\ visible' = visible
          /\ durable'.root \in {durable.root, visible.root}
          /\ durable'.link \in {durable.link, visible.link}
      BY <1>4 DEF Outside
    <2> QED BY <1>4, <2>1, <2>2 DEF ResetPlaces
  <1>5. CASE wpc["boot_reset"] = "idle" /\ wpc'["boot_reset"] = "stale"
    <2>1. UNCHANGED <<visible, durable>> /\ (phase = "off" \/ Due("start"))
      BY <1>5, ResetStarts
    <2>2. \/ visible.root = durable.root /\ visible.link = durable.link
          \/ ResetPending \notin visible.root /\ visible.link # NoGeneration
      <3>1. CASE phase = "off"
        BY <3>1 DEF OffIsSame
      <3>2. CASE Due("start")
        <4>1. /\ waiting = "no"
              /\ \/ call = "enable" /\ at = 4
                 \/ call = "reenroll" /\ at = 8
          BY <3>2, Places DEF Due, Base, PlatformOK
        <4> QED BY <4>1 DEF EnablePlaces, ReenrollPlaces, Renewed
      <3> QED BY <2>1, <3>1, <3>2
    <2> QED BY <1>5, <2>1, <2>2 DEF ResetPlaces
  <1> QED BY <1>u, <1>1, <1>2, <1>3, <1>4, <1>5, ActKinds DEF Outside

(* A Reenroll begins when no start of sl-remoted is queued. *)
LEMMA ReenrollBegins ==
    ASSUME Base, QuietActs, call = "none", call' = "reenroll"
    PROVE  remoted' # "queued"
  <1>1. ~UNCHANGED call
    OBVIOUS
  <1>2. CASE \E method \in Methods : (remoted # "queued" \/ method = "enrollment") /\ Call(method)
    BY <1>2 DEF Call, systemdVars
  <1>3. ~PlatformStep
    BY DEF PlatformStep, StepFails, skip, Skipped, check_reset, read_marker, run_worker, worker_ended,
           auth, start_remoted, start_done, start_timeout, stop_remoted, stop_done, stop_timeout,
           enrollment_network, fingerprint, pending_pairing, show, Due, On, OnWorker
  <1>4. ~(\E u \in Units : WorkerRuns(u)) /\ ~WorkerResets
    BY <1>1 DEF WorkerRuns, WorkerResets, platformVars
  <1>5. ~SystemdStep
    BY <1>1
    DEF SystemdStep, PlatformUp, BootUnitSettles, RemotedStarts, RemotedStops, platformVars
  <1>6. ~Environment
    BY <1>1 DEF Environment, Enroll, Expire, Boot, RemotedExits, Crash, platformVars
  <1> QED BY <1>2, <1>3, <1>4, <1>5, <1>6 DEF QuietActs

LEMMA ReenrollWorkersKept ==
    ASSUME Base, Alone, Ordered, ResultsOfEnded, Unspoilt, ReenrollWorkers, Acts, HistoryStep
    PROVE  ReenrollWorkers'
  <1>u. {"rotate", "clear_reset"} \subseteq Units
    BY DEF Units
  <1> DEFINE taken == condemned \cup before
  <1>1. ASSUME NEW u \in Units, WorkerRuns(u) PROVE ReenrollWorkers'
    <2>m. /\ WorkerOK /\ WorkerStep(u) /\ wpc[u] # "idle" /\ MarkersMove(u)
          /\ \A v \in Units \ {u} : wpc[v] = "idle" /\ wpc'[v] = "idle" /\ outcome'[v] = outcome[v]
      BY <1>1, OneMoves
    <2>n. outcome[u] = "none"
      BY <2>m DEF ResultsOfEnded
    <2>i. ASSUME NEW v \in {"rotate", "clear_reset"}, v # u
          PROVE  wpc'[v] = "idle" /\ outcome'[v] = "none"
      <3>1. v \in Units \ {u} /\ v # "boot_reset"
        BY <1>u, <2>i
      <3>2. wpc[v] = "idle" /\ wpc'[v] = "idle" /\ outcome'[v] = outcome[v]
        BY <2>m, <3>1
      <3>3. outcome[v] = "none"
        BY <1>1, <2>i, <3>1, OneMoves, RunsFor
      <3> QED BY <3>2, <3>3
    <2>1. CASE u = "rotate"
      <3>1. ~ResetBegins
        BY <2>1, <2>m DEF ResetBegins, Units
      <3>2. condemned' \cup before' \subseteq taken
        BY <1>1, <3>1, OneMoves, HistoryOfWorkers
      <3>3. /\ wpc'[u] = "sync_swap" => visible'.link # NoGeneration /\ visible'.link \notin taken
            /\ wpc'[u] \in {"list_new", "clean_new"} \/ outcome'[u] = "success" =>
                 /\ visible'.link # NoGeneration /\ visible'.link = durable'.link
                 /\ visible'.link \notin taken
        <4>1. /\ wpc[u] = "swap" => visible.next \notin taken
              /\ wpc[u] = "sync_swap" => visible.link # NoGeneration /\ visible.link \notin taken
              /\ wpc[u] \in {"list_new", "clean_new"} =>
                   /\ visible.link # NoGeneration /\ visible.link = durable.link
                   /\ visible.link \notin taken
          BY <2>1 DEF Unspoilt, ReenrollWorkers, Renewed
        <4> HIDE DEF taken
        <4> QED BY <2>1, <2>m, <2>n, <4>1, RotateStep
      <3>4. wpc'["clear_reset"] = "idle" /\ outcome'["clear_reset"] = "none"
        BY <2>1, <2>i
      <3>5. /\ wpc'[u] = "list_new" => durable'.gens = visible'.gens
            /\ outcome'[u] = "success" => before \cap (visible'.gens \cup durable'.gens) = {}
        <4>1. /\ wpc[u] = "list_new" => durable.gens = visible.gens
              /\ wpc[u] \in {"list_new", "clean_new"} => visible.link \notin before
          BY <2>1 DEF ReenrollWorkers, Renewed
        <4>2. Tidy(u)
          BY DEF Ordered
        <4> QED BY <2>1, <2>m, <2>n, <4>1, <4>2, RotateClears
      <3>6. before' \subseteq before
        BY <1>1, OneMoves, HistoryOfWorkers
      <3>7. outcome'[u] = "success" => Cleared'
        BY <3>5, <3>6 DEF Cleared
      <3> HIDE DEF taken
      <3> QED BY <2>1, <3>2, <3>3, <3>4, <3>5, <3>7 DEF ReenrollWorkers, Renewed
    <2>2. CASE u = "clear_reset"
      <3>1. wpc'[u] = "sync_unlink" \/ outcome'[u] = "success" => ResetPending \notin visible'.root
        <4>1. Marker(u) = ResetPending
          BY <2>2 DEF Marker
        <4>2. wpc[u] = "sync_unlink" => Marker(u) \notin visible.root
          BY <2>2, <4>1 DEF ReenrollWorkers
        <4> QED BY <2>2, <2>m, <2>n, <4>1, <4>2, RemovingStep
      <3>2. wpc'["rotate"] = "idle" /\ outcome'["rotate"] = "none"
        BY <2>2, <2>i
      <3> QED BY <2>2, <3>1, <3>2 DEF ReenrollWorkers
    <2>3. CASE u \notin {"rotate", "clear_reset"}
      <3>1. \A v \in {"rotate", "clear_reset"} : wpc'[v] = "idle" /\ outcome'[v] = "none"
        BY <2>3, <2>i
      <3> QED BY <3>1 DEF ReenrollWorkers
    <2> QED BY <2>1, <2>2, <2>3
  <1>2. CASE WorkerResets
    <2>1. ASSUME NEW v \in {"rotate", "clear_reset"} PROVE wpc'[v] = "idle" /\ outcome'[v] = "none"
      <3>1. wpc["boot_reset"] # "idle" /\ wpc'[v] = "idle" /\ outcome'[v] = outcome[v]
        BY <1>2, <1>u, <2>1, ResetsMoves
      <3>2. outcome[v] = "none"
        <4>1. ~(call = "reenroll" /\ at \in {3, 7})
          BY <3>1, RunsFor DEF Units
        <4> QED BY <1>u, <2>1, <4>1, RunsFor
      <3> QED BY <3>1, <3>2
    <2> QED BY <2>1 DEF ReenrollWorkers
  <1>3. CASE Crash
    BY <1>3, <1>u, CrashMoves DEF ReenrollWorkers
  <1>4. CASE Outside
    <2>v. /\ UNCHANGED visible /\ durable'.link \in {durable.link, visible.link}
          /\ durable'.gens \in {durable.gens, visible.gens}
      BY <1>4 DEF Outside
    <2>p. ASSUME NEW v \in {"rotate", "clear_reset"}
          PROVE  \/ wpc'[v] = wpc[v] /\ outcome'[v] \in {outcome[v], "none"}
                 \/ wpc'[v] = "stale" /\ outcome'[v] = "none"
      BY <1>4, <1>u, <2>p DEF Outside
    <2>1. CASE wpc["rotate"] # "idle" \/ outcome["rotate"] # "none"
      <3>1. call = "reenroll" /\ at = 3
        BY <1>u, <2>1, RunsFor
      <3>2. ~Called("reenroll") /\ ~Succeeds("reenroll")
        BY <3>1, SucceedsTable DEF Called, Succeeds
      <3>3. ~ResetBegins
        BY <1>4 DEF Outside, ResetBegins, Units
      <3>4. condemned' \subseteq condemned /\ before' \subseteq before
        BY <3>2, <3>3, HistoryMoves
      <3> QED BY <2>p, <2>v, <3>4 DEF ReenrollWorkers, Renewed, Cleared
    <2>2. CASE wpc["rotate"] = "idle" /\ outcome["rotate"] = "none"
      BY <2>p, <2>v, <2>2 DEF ReenrollWorkers
    <2> QED BY <2>1, <2>2
  <1> QED BY <1>1, <1>2, <1>3, <1>4, ActKinds

LEMMA ReenrollPlacesKept ==
    ASSUME Base, Alone, Base', Revoking, ReenrollWorkers, ReenrollPlaces, QuietActs, Acts, HistoryStep
    PROVE  ReenrollPlaces'
  <1>1. SUFFICES ASSUME call' = "reenroll" PROVE ReenrollPlaces'
    BY DEF ReenrollPlaces
  <1>2. ~Crash /\ ~Succeeds("reenroll")
    BY <1>1, CrashMoves DEF Succeeds
  <1>3. CASE call = "none" /\ at' = 1
    BY <1>1, <1>3, ReenrollBegins DEF ReenrollPlaces
  <1>4. CASE Onward
    <2>1. call = "reenroll" /\ at' = at + 1 /\ at \in 1 .. 7 /\ waiting' = "no"
      BY <1>1, <1>4 DEF Onward, Base, PlatformOK, PlaceOK
    <2>2. UNCHANGED <<visible, durable, wpc, remoted>>
      BY <1>4, OnwardTable DEF systemdVars
    <2>3. ~Called("reenroll") /\ ~ResetBegins
      BY <2>1, <2>2 DEF Called, ResetBegins
    <2>4. /\ before' \subseteq before /\ condemned' \subseteq condemned
          /\ account' = "none" /\ pairing' = "none" => (before' \cup condemned') \cap Credentials = {}
      BY <1>2, <2>3, HistoryMoves DEF Credentials
    <2>5. remoted' = "inactive"
      BY <1>4, <2>1, <2>2, OnwardTable DEF ReenrollPlaces
    <2>6. at' \in 3 .. 8 => before' \cap Credentials = {} /\ condemned' \cap Credentials = {}
      BY <1>4, <2>1, <2>4, OnwardTable DEF ReenrollPlaces
    <2>c. at' \in 4 .. 8 => Cleared'
      <3>1. at' \in 4 .. 8 => Cleared
        BY <1>4, <2>1, OnwardTable DEF ReenrollPlaces, ReenrollWorkers
      <3> QED BY <2>4, <3>1, ClearedKept
    <2>7. at' \in 4 .. 8 => Renewed /\ visible.link \notin condemned
      BY <1>4, <2>1, OnwardTable DEF ReenrollPlaces, ReenrollWorkers
    <2>8. at' \in 4 .. 8 => Renewed' /\ visible'.link \notin condemned'
      BY <2>2, <2>4, <2>7 DEF Renewed
    <2>9. at' = 7 /\ ResetPending \notin saw' => ResetPending \notin visible'.root
      BY <1>4, <2>1, <2>2, OnwardTable
    <2>10. at' = 8 => ResetPending \notin visible'.root
      BY <1>4, <2>1, <2>2, OnwardTable DEF ReenrollPlaces, ReenrollWorkers
    <2> QED BY <2>1, <2>5, <2>6, <2>c, <2>8, <2>9, <2>10 DEF ReenrollPlaces
  <1>5. CASE call = "reenroll" /\ at' = at /\ saw' = saw /\ (waiting' = waiting \/ Waits)
    <2>1. ~Called("reenroll") /\ waiting \in {"no", "yes"} /\ at \in 1 .. 8 /\ ~Boot
      BY <1>5 DEF Called, Base, PlatformOK, PlaceOK, Boot
    <2>2. ~(at' = 8 /\ waiting' = "yes") => WithoutReset
      BY <1>5 DEF WithoutReset, Waits
    <2>3. before' \subseteq before
      BY <2>1, HistoryMoves
    <2>4. WithoutReset => condemned' \subseteq condemned
      <3>1. WithoutReset => ~ResetBegins
        BY <1>2, Meanwhile
      <3> QED BY <1>2, <3>1, HistoryMoves
    <2>5. durable'.link \in {durable.link, visible.link}
      BY DurableLinkMoves
    <2>6. ~Due("start") \/ ~Waits => (remoted = "inactive" => remoted' = "inactive")
                                     /\ (remoted # "queued" => remoted' # "queued")
      BY <1>2, <2>1, ActsMoveRemoted DEF RemotedMoves, RemotedStarts
    <2>7. Due("start") => at = 8
      BY <1>5, Places DEF Due, Base, PlatformOK
    <2>8. Waits => waiting' = "yes"
      BY DEF Waits
    <2>9. /\ at' = 1 => remoted' # "queued"
          /\ at' \in 2 .. 8 /\ ~(at' = 8 /\ waiting' = "yes") => remoted' = "inactive"
      BY <1>5, <2>1, <2>6, <2>7, <2>8 DEF ReenrollPlaces
    <2>10. /\ at' \in 3 .. 8 => before' \cap Credentials = {}
           /\ at' \in 3 .. 7 => condemned' \cap Credentials = {}
      BY <1>5, <2>2, <2>3, <2>4 DEF ReenrollPlaces
    <2>c. at' \in 4 .. 8 => Cleared'
      BY <1>5, <2>3, ClearedKept DEF ReenrollPlaces
    <2>11. at' \in 4 .. 7 => Renewed' /\ visible'.link \notin condemned'
      <3>1. SUFFICES ASSUME at' \in 4 .. 7 PROVE Renewed' /\ visible'.link \notin condemned'
        OBVIOUS
      <3>2. Renewed /\ visible.link \notin condemned
        BY <1>5, <3>1 DEF ReenrollPlaces
      <3>3. visible'.link = visible.link
        BY <1>2, <1>5, <2>2, <3>1, Meanwhile
      <3> QED BY <2>2, <2>3, <2>4, <2>5, <3>1, <3>2, <3>3 DEF Renewed
    <2>12. at' = 8 /\ (waiting' = "no" \/ visible'.link # NoGeneration) => Renewed'
      <3>1. SUFFICES ASSUME at' = 8, waiting' = "no" \/ visible'.link # NoGeneration PROVE Renewed'
        OBVIOUS
      <3>2. CASE WithoutReset
        <4>1. visible'.link = visible.link /\ waiting = "no"
          BY <1>2, <1>5, <2>1, <3>1, <3>2, Meanwhile DEF WithoutReset
        <4>2. Renewed
          BY <1>5, <3>1, <4>1 DEF ReenrollPlaces
        <4> QED BY <2>3, <2>5, <4>1, <4>2 DEF Renewed
      <3>3. CASE ~WithoutReset
        <4>1. visible'.link # NoGeneration
          BY <2>2, <3>1, <3>3
        <4>2. visible'.link = visible.link
          <5>1. ASSUME NEW u \in Units, WorkerRuns(u) PROVE visible'.link = visible.link
            <6>1. u = "boot_reset" /\ LinkMoves(u)
              BY <1>5, <3>1, <5>1, OneMoves
            <6>2. wpc[u] # "swap"
              BY <6>1, Running DEF Runs, Base, Units
            <6> QED BY <4>1, <6>1, <6>2 DEF LinkMoves
          <5> QED BY <1>2, <5>1, ActKinds, ResetsMoves DEF Outside
        <4>3. Renewed
          BY <1>5, <3>1, <4>1, <4>2 DEF ReenrollPlaces
        <4> QED BY <2>3, <2>5, <4>2, <4>3 DEF Renewed
      <3> QED BY <3>2, <3>3
    <2>13. /\ at' = 7 /\ ResetPending \notin saw' => ResetPending \notin visible'.root
           /\ at' = 8 /\ waiting' = "no" => ResetPending \notin visible'.root
      <3>1. SUFFICES ASSUME (at' = 7 /\ ResetPending \notin saw') \/ (at' = 8 /\ waiting' = "no")
                     PROVE  ResetPending \notin visible'.root
        OBVIOUS
      <3>2. at' = 8 => waiting = "no"
        BY <1>5, <2>8, <3>1
      <3>3. ResetPending \notin visible.root
        BY <1>5, <3>1, <3>2 DEF ReenrollPlaces
      <3> QED BY <1>2, <2>2, <3>1, <3>3, Meanwhile
    <2> QED BY <2>9, <2>10, <2>c, <2>11, <2>12, <2>13 DEF ReenrollPlaces
  <1> QED BY <1>1, <1>3, <1>4, <1>5, MethodMoves

(* A Reenroll that succeeds has renewed the identity and found no reset pending. *)
LEMMA ReenrollSucceeds ==
    ASSUME Base, Alone, ServesCurrent, ReenrollPlaces, SilentWhileResetPending, Acts,
           Succeeds("reenroll")
    PROVE  /\ UNCHANGED <<visible, durable>>
           /\ Renewed /\ Cleared /\ before \cap Credentials = {} /\ ResetPending \notin visible.root
           /\ \A u \in Units : wpc[u] = "idle"
  <1>1. /\ UNCHANGED <<visible, durable>>
        /\ call = "reenroll" /\ at = 8 /\ (waiting = "no" \/ remoted = "active")
    BY SucceedsTable DEF Succeeds, workerVars
  <1>2. remoted = "active" => serving # NoGeneration /\ visible.link # NoGeneration
    BY DEF ServesCurrent
  <1>3. Renewed /\ Cleared /\ before \cap Credentials = {}
    BY <1>1, <1>2 DEF ReenrollPlaces
  <1>4. ResetPending \notin visible.root
    BY <1>1, <1>2 DEF ReenrollPlaces, SilentWhileResetPending, marker_exists
  <1>5. ASSUME NEW u \in Units PROVE wpc[u] = "idle"
    <2>1. remoted = "active" => boot_unit # "running"
      BY DEF Base, SystemdOK
    <2> QED BY <1>1, <1>5, <2>1, RunsFor
  <1> QED BY <1>1, <1>3, <1>4, <1>5

LEMMA HeldBackKept ==
    ASSUME Base, Alone, SilentWhileResetPending, Revoking, Unspoilt, ServesCurrent, ReenrollPlaces,
           ResetPlaces, HeldBack, ResetPlaces', Acts, HistoryStep
    PROVE  HeldBack'
  <1> DEFINE Bad == condemned \cap ({visible.link, durable.link} \cup Credentials) # {}
  <1>1. SUFFICES ASSUME Bad' PROVE ResetPending \in visible'.root /\ ResetPending \in durable'.root
    BY DEF HeldBack
  <1>n. NoGeneration \notin condemned
    BY GenerationsAssumption, AccountAssumption DEF Base, HistoryOK
  <1>2. CASE ResetBegins
    BY <1>2 DEF ResetBegins, ResetPlaces
  <1>3. CASE ~ResetBegins
    <2>1. Bad
      <3>1. CASE Succeeds("reenroll")
        <4>1. /\ UNCHANGED <<visible, durable>> /\ before \cap Credentials = {}
              /\ visible.link \notin before /\ durable.link \notin before
          BY <3>1, ReenrollSucceeds DEF Renewed
        <4>2. condemned' \subseteq condemned \cup before
          BY <1>3, HistoryMoves
        <4> QED BY <1>1, <4>1, <4>2
      <3>2. CASE ~Succeeds("reenroll")
        <4>1. condemned' \subseteq condemned
          BY <1>3, <3>2, HistoryMoves
        <4>2. durable'.link \in {durable.link, visible.link}
          BY DurableLinkMoves
        <4>3. visible'.link \in condemned => Bad
          <5>1. ASSUME NEW u \in Units, WorkerRuns(u), visible'.link \in condemned PROVE Bad
            <6>1. wpc[u] = "swap" => visible.next \notin condemned
              BY DEF Unspoilt
            <6> QED BY <1>n, <5>1, <6>1, OneMoves DEF LinkMoves
          <5> QED BY <5>1, ActKinds, ResetsMoves, CrashMoves DEF Outside
        <4> QED BY <1>1, <4>1, <4>2, <4>3
      <3> QED BY <3>1, <3>2
    <2>2. ResetPending \in visible.root /\ ResetPending \in durable.root
      BY <2>1 DEF HeldBack
    <2>3. ResetPending \in durable'.root
      BY <2>2, DurableRootMoves
    <2>4. ResetPending \in visible'.root
      <3>1. ASSUME NEW u \in Units, WorkerRuns(u), ResetPending \notin visible'.root PROVE FALSE
        <4>1. u \in {"boot_reset", "clear_reset"} /\ wpc[u] = "unlink"
          BY <2>2, <3>1, OneMoves DEF MarkersMove
        <4>2. CASE u = "boot_reset"
          <5>1. /\ visible.link = NoGeneration /\ durable.link = NoGeneration
                /\ account = "none" /\ pairing = "none"
            BY <4>1, <4>2 DEF ResetPlaces
          <5> QED BY <1>n, <2>1, <5>1 DEF Revoking, Credentials
        <4>3. CASE u = "clear_reset"
          <5>1. call = "reenroll" /\ at = 7
            BY <3>1, <4>3, OneMoves
          <5>2. Renewed /\ visible.link \notin condemned /\ condemned \cap Credentials = {}
            BY <5>1 DEF ReenrollPlaces
          <5> QED BY <2>1, <5>2 DEF Renewed
        <4> QED BY <4>1, <4>2, <4>3
      <3> QED BY <2>2, <3>1, ActKinds, ResetsMoves, CrashMoves DEF Outside
    <2> QED BY <2>3, <2>4
  <1> QED BY <1>2, <1>3

LEMMA RevokedStarts ==
    ASSUME Init
    PROVE  Revoked
  <1>1. /\ visible.root = {} /\ visible.link = NoGeneration /\ visible.gens = {}
        /\ durable = visible /\ drawn = {} /\ condemned = {} /\ before = {}
        /\ call = "none" /\ serving = NoGeneration /\ remoted = "inactive"
    BY DEF Init, WorkerInit, Empty
  <1>2. \A u \in Units : wpc[u] = "idle" /\ outcome[u] = "none"
    BY DEF Init, WorkerInit
  <1>3. {"enable", "rotate", "clear_reset", "boot_reset"} \subseteq Units
    BY DEF Units
  <1>4. Revoking /\ HeldBack /\ ServesCurrent /\ OffIsSame
    BY <1>1 DEF Revoking, HeldBack, ServesCurrent, OffIsSame
  <1>5. Unspoilt /\ ResultsOfEnded
    BY <1>2 DEF Unspoilt, ResultsOfEnded
  <1>6. EnablePlaces /\ ResetPlaces /\ ReenrollWorkers /\ ReenrollPlaces
    BY <1>1, <1>2, <1>3 DEF EnablePlaces, ResetPlaces, ReenrollWorkers, ReenrollPlaces, Making, Made
  <1> QED BY <1>4, <1>5, <1>6 DEF Revoked

LEMMA RevokedStutters ==
    ASSUME Revoked, UNCHANGED vars
    PROVE  Revoked'
  <1> USE DEF Revoked, vars, workerVars, platformVars, systemdVars, authVars, historyVars
  <1>1. Revoking' /\ HeldBack' /\ ServesCurrent' /\ OffIsSame'
    BY DEF Revoking, HeldBack, ServesCurrent, OffIsSame
  <1>2. Unspoilt' /\ ResultsOfEnded'
    BY DEF Unspoilt, ResultsOfEnded
  <1>3. EnablePlaces' /\ ResetPlaces'
    BY DEF EnablePlaces, ResetPlaces
  <1>4. ReenrollWorkers' /\ ReenrollPlaces'
    BY DEF ReenrollWorkers, ReenrollPlaces, Renewed, Cleared
  <1> QED BY <1>1, <1>2, <1>3, <1>4

LEMMA RevokedHolds == Spec => [](overruns = 0 => Revoked)
  <1>1. Init => (overruns = 0 => Revoked)
    BY RevokedStarts
  <1>2. /\ Base /\ Base' /\ Undisturbed /\ SilentWhileResetPending /\ (overruns = 0 => Answered)
        /\ (overruns = 0 => Revoked) /\ [Next]_vars
        => (overruns = 0 => Revoked)'
    <2>0. SUFFICES ASSUME Base, Base', Undisturbed, SilentWhileResetPending, overruns = 0 => Answered,
                          overruns = 0 => Revoked, [Next]_vars, overruns' = 0
                   PROVE  Revoked'
      OBVIOUS
    <2>1. CASE Next
      <3>1. overruns = 0 /\ QuietActs /\ Acts /\ HistoryStep
        BY <2>0, <2>1, NextQuiet
      <3>2. Alone /\ Ordered /\ Revoked /\ OffIsQuiet
        BY <2>0, <3>1 DEF Undisturbed, Answered
      <3> USE DEF Revoked
      <3>3. ResultsOfEnded' /\ OffIsSame' /\ Revoking'
        BY <2>0, <3>1, <3>2, ResultsKept, OffKept, RevokingKept
      <3>4. Unspoilt' /\ ServesCurrent' /\ EnablePlaces'
        BY <2>0, <3>1, <3>2, UnspoiltKept, ServesKept, EnablePlacesKept
      <3>5. ResetPlaces'
        BY <2>0, <3>1, <3>2, ResetPlacesKept
      <3>6. ReenrollWorkers' /\ ReenrollPlaces'
        BY <2>0, <3>1, <3>2, ReenrollWorkersKept, ReenrollPlacesKept
      <3>7. HeldBack'
        BY <2>0, <3>1, <3>2, <3>5, HeldBackKept
      <3> QED BY <3>3, <3>4, <3>5, <3>6, <3>7
    <2>2. CASE UNCHANGED vars
      BY <2>0, <2>2, RevokedStutters DEF vars
    <2> QED BY <2>0, <2>1, <2>2
  <1> QED BY <1>1, <1>2, BaseHolds, UndisturbedHolds, AnsweredHolds, SilentUnderReset, PTL DEF Spec

(* Until something overruns, sl-remoted never serves again a generation, or   *)
(* with an account or a pairing, that a committed boot reset or a Reenroll    *)
(* that succeeded revoked, in this boot or a later one: the marker is on disk *)
(* before anything is destroyed, holds sl-remoted down while anything revoked *)
(* is left, and goes only once the link on disk is gone or names a new        *)
(* generation.                                                                *)
THEOREM RevokedStaysDown == Spec => [](overruns = 0 => RevokedNeverServed)
  <1>1. (overruns = 0 => Revoked) /\ SilentWhileResetPending => (overruns = 0 => RevokedNeverServed)
    BY DEF Revoked, RevokedNeverServed, ServesCurrent, HeldBack, SilentWhileResetPending, marker_exists
  <1> QED BY <1>1, RevokedHolds, SilentUnderReset, PTL

(* A Reenroll that succeeds before anything overran has repaired the machine:   *)
(* the account, the pairing and every generation it found are gone, on disk     *)
(* too, a new complete identity is durable, and no reset is pending, on disk    *)
(* either unless a marker's fsync failed before.                                *)
THEOREM ReenrollAlwaysRepairs == Spec /\ [](overruns = 0) => ReenrollRepairs
  <1> DEFINE Repaired ==
                /\ before \cap (Credentials \cup visible.gens \cup durable.gens) = {}
                /\ Complete(durable) /\ durable.link = visible.link
                /\ ResetPending \notin visible.root
                /\ ~torn => ResetPending \notin durable.root
  <1>1. /\ Base /\ Undisturbed /\ SilentWhileResetPending /\ (overruns = 0 => Answered)
        /\ (overruns = 0 => Revoked) /\ overruns = 0 /\ [Next]_vars
        => [Succeeds("reenroll") => Repaired]_vars
    <2>0. SUFFICES ASSUME Base, Undisturbed, SilentWhileResetPending, overruns = 0 => Answered,
                          overruns = 0 => Revoked, overruns = 0, Next, Succeeds("reenroll")
                   PROVE  Repaired
      OBVIOUS
    <2>a. Acts
      <3>1. ~Late
        BY <2>0 DEF Base, LateOK, NoneLate, Late, LateCall
      <3> QED BY <2>0, <3>1, NextActs
    <2>1. Alone /\ Ordered /\ Settled /\ Revoked /\ Acts
      BY <2>0, <2>a DEF Undisturbed, Answered
    <2>2. /\ Renewed /\ Cleared /\ before \cap Credentials = {} /\ ResetPending \notin visible.root
          /\ \A u \in Units : wpc[u] = "idle"
      BY <2>0, <2>1, ReenrollSucceeds DEF Revoked
    <2>3. Complete(durable)
      BY <2>1, <2>2 DEF Ordered, Whole, NoPartialIdentity, Renewed
    <2>4. ~torn => ResetPending \notin durable.root
      BY <2>1, <2>2 DEF Settled
    <2> QED BY <2>2, <2>3, <2>4 DEF Renewed, Cleared
  <1> HIDE DEF Repaired
  <1>2. Spec => [][Next]_vars
    BY DEF Spec
  <1>3. Spec /\ [](overruns = 0) => [][Succeeds("reenroll") => Repaired]_vars
    BY <1>1, <1>2, BaseHolds, UndisturbedHolds, AnsweredHolds, RevokedHolds, SilentUnderReset, PTL
  <1> QED BY <1>3 DEF Repaired, ReenrollRepairs
=============================================================================
