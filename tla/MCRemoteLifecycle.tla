------------------------- MODULE MCRemoteLifecycle -------------------------
(* RemoteLifecycle for TLC: the generation names are interchangeable. *)
EXTENDS RemoteLifecycle, TLC

Symmetry == Permutations(Generations)

(* Somebody waits for the end of unit u. *)
Awaited(u) ==
    \/ OnWorker /\ waiting = "yes" /\ u = ItsUnit
    \/ boot_unit = "running" /\ u = "boot_reset"

(* What neither SilentWhileResetPending nor ShownTogether can tell apart, now *)
(* or later, is not a new state: which identity is served, why a worker       *)
(* failed and how one ended that nobody waits for, what was written into      *)
(* generations that are gone, locals that a worker does not read any more, a  *)
(* boot reset that is done from one that was not asked for, moments of other  *)
(* identities than the one that was read, what is shown beyond the property,  *)
(* and the histories of other properties.                                     *)
Relevant ==
    <<visible, durable, filled \cap (visible.gens \cup durable.gens), drawn, wpc,
      [u \in Units |-> IF wpc[u] \in {"fill", "symlink"} THEN wgen[u]
                       ELSE IF wpc[u] \in {"clean_old", "clean_new"} THEN wref[u]
                       ELSE NoGeneration],
      {u \in Units : Awaited(u) /\ wpc[u] = "idle" /\ outcome[u] = "success"},
      call, at, waiting, saw,
      phase, IF boot_unit = "done" THEN "idle" ELSE boot_unit, remoted,
      serving = NoGeneration, authVars,
      IF On("show") THEN <<ShownTogether>>
      ELSE <<shown, IF shown.fingerprint = NoGeneration THEN moments
                    ELSE moments \cap {shown.fingerprint}>>,
      issued /\ OVERRUNS > 1, overruns, late>>
=============================================================================
