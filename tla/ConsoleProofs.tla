---------------------------- MODULE ConsoleProofs ----------------------------
(***************************************************************************)
(* Proofs about Console, for any number of terminals and of enrollments.   *)
(* A console is locked by the status read that shows no operator, so its   *)
(* lock can only be right if it never is unlocked without having seen one; *)
(* and a password check survives until the second status read only because *)
(* nobody but the console itself forgets it.                               *)
(***************************************************************************)
EXTENDS Console, TLAPS

(* An unlocked console has seen an operator. *)
UnlockedSawOperator == \A c \in Consoles : ctl[c].authenticated => Knows(c)

(* The check that verify_password made is not forgotten before it counts. *)
CheckRemembered == \A c \in Consoles : pc[c] = "reauthenticate" => proof[c] # 0

(* Platform1 is called for no operator, or after somebody's check. *)
ActsAfterCheck == \A c \in Consoles : pc[c] = "platform" => seen[c] = 0 \/ proof[c] # 0

(* What the consoles remember was once true. *)
OnlyPastOperators ==
    \A c \in Consoles : seen[c] <= enrollments /\ proof[c] <= enrollments

Inv == /\ TypeOK /\ UnlockedByCheck /\ UnlockedSawOperator
       /\ CheckRemembered /\ ActsAfterCheck /\ OnlyPastOperators

Controllers == [authenticated : BOOLEAN, reset_incomplete : BOOLEAN,
                last_enrolled : {None, "enrolled", "not enrolled"}]

-----------------------------------------------------------------------------
(* The fields of a controller. *)

LEMMA Counts ==
    ASSUME TypeOK
    PROVE  /\ MAX_OPERATOR \in Nat /\ operator \in Nat /\ enrollments \in Nat
           /\ operator <= enrollments /\ enrollments <= MAX_OPERATOR
  <1>1. operator \in 0 .. MAX_OPERATOR /\ enrollments \in operator .. MAX_OPERATOR
    BY DEF TypeOK
  <1> QED BY <1>1, OperatorAssumption

LEMMA StatusFields ==
    ASSUME TypeOK, NEW c \in Consoles
    PROVE  /\ status(c) \in Controllers
           /\ status(c).last_enrolled = Enrolled
           /\ status(c).authenticated =
                 (ctl[c].authenticated /\ ctl[c].last_enrolled \in {None, Enrolled})
  <1> DEFINE flag == ctl[c].authenticated /\ ctl[c].last_enrolled \in {None, Enrolled}
  <1>1. flag \in BOOLEAN /\ Enrolled \in {None, "enrolled", "not enrolled"}
    BY DEF Enrolled
  <1>2. ctl[c] \in Controllers
    BY DEF TypeOK, Controllers
  <1>3. status(c) = [ctl[c] EXCEPT !.authenticated = flag, !.last_enrolled = Enrolled]
    BY <1>2 DEF status, Controllers
  <1> HIDE DEF flag
  <1>4. /\ status(c) \in Controllers
        /\ status(c).last_enrolled = Enrolled /\ status(c).authenticated = flag
    BY <1>1, <1>2, <1>3 DEF Controllers
  <1> QED BY <1>4 DEF flag

LEMMA LockFields ==
    ASSUME NEW controller \in Controllers, NEW flag \in BOOLEAN
    PROVE  /\ [controller EXCEPT !.authenticated = flag] \in Controllers
           /\ [controller EXCEPT !.authenticated = flag].authenticated = flag
           /\ [controller EXCEPT !.authenticated = flag].last_enrolled = controller.last_enrolled
           /\ [controller EXCEPT !.reset_incomplete = flag] \in Controllers
           /\ [controller EXCEPT !.reset_incomplete = flag].authenticated
                = controller.authenticated
           /\ [controller EXCEPT !.reset_incomplete = flag].last_enrolled
                = controller.last_enrolled
  BY DEF Controllers

LEMMA InvInit == Init => Inv
  BY ConsolesAssumption, OperatorAssumption
  DEF Init, Inv, TypeOK, NewController, NoSequence, None, Action, Places, Offline, UnlockedByCheck,
      UnlockedSawOperator, CheckRemembered, ActsAfterCheck, OnlyPastOperators

-----------------------------------------------------------------------------
(* A step of one console that leaves the world alone.  The others keep what  *)
(* they have, so what has to be shown is about the console alone.            *)
Updates(c, place, action, controller, sees, proves) ==
    /\ UNCHANGED world
    /\ place \in Places \ {"waiting"} /\ pc[c] # "waiting" /\ Goto(c, place)
    /\ action \in Action \cup {None} /\ next' = [next EXCEPT ![c] = action]
    /\ controller \in Controllers /\ ctl' = [ctl EXCEPT ![c] = controller]
    /\ sees \in 0 .. enrollments /\ seen' = [seen EXCEPT ![c] = sees]
    /\ proves \in 0 .. enrollments /\ proof' = [proof EXCEPT ![c] = proves]
    /\ controller.authenticated => proves # 0 /\ controller.last_enrolled = "enrolled"
    /\ place = "reauthenticate" => proves # 0
    /\ place = "platform" => sees = 0 \/ proves # 0

LEMMA InvLocal ==
    ASSUME Inv, NEW c \in Consoles, NEW place, NEW action, NEW controller, NEW sees, NEW proves,
           Updates(c, place, action, controller, sees, proves)
    PROVE  Inv'
  <1> USE DEF Inv, Updates
  <1>1. sees \in 0 .. MAX_OPERATOR /\ proves \in 0 .. MAX_OPERATOR
    BY Counts
  <1>2. TypeOK'
    <2>1. /\ pc' \in [Consoles -> Places] /\ next' \in [Consoles -> Action \cup {None}]
          /\ seen' \in [Consoles -> 0 .. MAX_OPERATOR]
          /\ proof' \in [Consoles -> 0 .. MAX_OPERATOR]
      BY <1>1 DEF TypeOK, Goto
    <2>2. ctl' \in [Consoles -> Controllers]
      BY DEF TypeOK, Controllers
    <2>3. \A d \in Consoles : sequence'.owner = d <=> pc'[d] = "waiting"
      BY DEF TypeOK, world, Goto
    <2> QED BY <2>1, <2>2, <2>3 DEF TypeOK, world, Controllers
  <1>3. UnlockedByCheck' /\ UnlockedSawOperator'
    <2>1. ASSUME NEW d \in Consoles, ctl'[d].authenticated
          PROVE  proof'[d] # 0 /\ ctl'[d].last_enrolled = "enrolled"
      <3>1. CASE d = c
        <4>1. ctl'[d] = controller /\ proof'[d] = proves
          BY <3>1 DEF TypeOK
        <4> QED BY <2>1, <4>1
      <3>2. CASE d # c
        <4>1. ctl'[d] = ctl[d] /\ proof'[d] = proof[d]
          BY <3>2 DEF TypeOK
        <4> QED BY <2>1, <4>1 DEF UnlockedByCheck, UnlockedSawOperator, Knows
      <3> QED BY <3>1, <3>2
    <2> QED BY <2>1 DEF UnlockedByCheck, UnlockedSawOperator, Knows
  <1>4. CheckRemembered' /\ ActsAfterCheck' /\ OnlyPastOperators'
    <2>1. ASSUME NEW d \in Consoles
          PROVE  /\ pc'[d] = IF d = c THEN place ELSE pc[d]
                 /\ seen'[d] = IF d = c THEN sees ELSE seen[d]
                 /\ proof'[d] = IF d = c THEN proves ELSE proof[d]
      BY DEF TypeOK, Goto
    <2>2. CheckRemembered' /\ ActsAfterCheck'
      BY <2>1 DEF CheckRemembered, ActsAfterCheck
    <2>3. sees <= enrollments /\ proves <= enrollments /\ enrollments' = enrollments
      BY Counts DEF world
    <2>4. OnlyPastOperators'
      BY <2>1, <2>3 DEF OnlyPastOperators
    <2> QED BY <2>2, <2>4
  <1> QED BY <1>2, <1>3, <1>4

(* The values that InvLocal is given when a component stays as it is. *)
LEMMA Stays ==
    ASSUME Inv, NEW c \in Consoles
    PROVE  /\ ctl[c] \in Controllers /\ next[c] \in Action \cup {None}
           /\ seen[c] \in 0 .. enrollments /\ proof[c] \in 0 .. enrollments
           /\ operator \in 0 .. enrollments
           /\ ctl[c].authenticated => proof[c] # 0 /\ ctl[c].last_enrolled = "enrolled"
           /\ UNCHANGED ctl => ctl' = [ctl EXCEPT ![c] = ctl[c]]
           /\ UNCHANGED next => next' = [next EXCEPT ![c] = next[c]]
           /\ UNCHANGED seen => seen' = [seen EXCEPT ![c] = seen[c]]
           /\ UNCHANGED proof => proof' = [proof EXCEPT ![c] = proof[c]]
  <1> USE DEF Inv
  <1>1. /\ ctl[c] \in Controllers /\ next[c] \in Action \cup {None}
        /\ ctl[c].authenticated => proof[c] # 0 /\ ctl[c].last_enrolled = "enrolled"
    BY DEF TypeOK, Controllers, UnlockedByCheck, UnlockedSawOperator, Knows
  <1>2. /\ seen[c] \in 0 .. enrollments /\ proof[c] \in 0 .. enrollments
        /\ operator \in 0 .. enrollments
    <2>1. seen[c] \in 0 .. MAX_OPERATOR /\ proof[c] \in 0 .. MAX_OPERATOR
      BY DEF TypeOK
    <2>2. seen[c] <= enrollments /\ proof[c] <= enrollments
      BY DEF OnlyPastOperators
    <2> QED BY <2>1, <2>2, Counts
  <1>3. /\ UNCHANGED ctl => ctl' = [ctl EXCEPT ![c] = ctl[c]]
        /\ UNCHANGED next => next' = [next EXCEPT ![c] = next[c]]
        /\ UNCHANGED seen => seen' = [seen EXCEPT ![c] = seen[c]]
        /\ UNCHANGED proof => proof' = [proof EXCEPT ![c] = proof[c]]
    BY DEF TypeOK
  <1> QED BY <1>1, <1>2, <1>3

(* Steps that only move the console on. *)
LEMMA InvMoves ==
    ASSUME Inv, NEW c \in Consoles,
           \/ \E action \in Action : perform(c, action)
           \/ choose_authenticate(c) \/ choose_recover(c) \/ choose_refresh(c)
           \/ status_unavailable(c) \/ enrollment_unavailable(c)
           \/ read_secret(c) \/ read_secret_fails(c)
           \/ connect(c) \/ connect_fails(c) \/ retry(c)
           \/ verify_fails(c) \/ platform_busy(c) \/ recover_fails(c)
    PROVE  Inv'
  <1>1. PICK place \in Places \ {"waiting", "reauthenticate", "platform"} : Goto(c, place)
    BY DEF perform, choose_authenticate, choose_recover, choose_refresh, status_unavailable,
           enrollment_unavailable, verify_fails, platform_busy, recover_fails, read_secret,
           read_secret_fails, connect, connect_fails, retry, Places, Prompts, Lines, Secrets,
           Offline
  <1>2. PICK action \in Action \cup {None} : next' = [next EXCEPT ![c] = action]
    BY Stays DEF perform, choose_authenticate, choose_recover, choose_refresh,
           status_unavailable, enrollment_unavailable, verify_fails, platform_busy,
           recover_fails, read_secret, read_secret_fails, connect, connect_fails, retry
  <1>3. /\ UNCHANGED world /\ UNCHANGED ctl /\ UNCHANGED seen /\ UNCHANGED proof
        /\ pc[c] # "waiting"
    BY DEF perform, choose_authenticate, choose_recover, choose_refresh, status_unavailable,
           enrollment_unavailable, verify_fails, platform_busy, recover_fails, read_secret,
           read_secret_fails, connect, connect_fails, retry, Lines, Secrets, Reads, history
  <1>4. Updates(c, place, action, ctl[c], seen[c], proof[c])
    BY <1>1, <1>2, <1>3, Stays DEF Updates
  <1> QED BY <1>4, InvLocal

(* Steps that lock the console, and the check that is to unlock it. *)
LEMMA InvLocks ==
    ASSUME Inv, NEW c \in Consoles,
           logout(c) \/ read_line_fails(c) \/ recover_password(c) \/ verify_password(c)
    PROVE  Inv'
  <1>1. ctl[c] \in Controllers
    BY Stays
  <1>2. ASSUME verify_password(c) PROVE Inv'
    <2>1. "reauthenticate" \in Places \ {"waiting"}
      BY DEF Places
    <2>2. /\ UNCHANGED world /\ UNCHANGED ctl /\ UNCHANGED next /\ UNCHANGED seen
          /\ pc[c] # "waiting" /\ Goto(c, "reauthenticate")
          /\ operator # 0 /\ proof' = [proof EXCEPT ![c] = operator]
      BY <1>2 DEF verify_password
    <2>3. Updates(c, "reauthenticate", next[c], ctl[c], seen[c], operator)
      BY <2>1, <2>2, Stays DEF Updates
    <2> QED BY <2>3, InvLocal
  <1>3. ASSUME logout(c) \/ read_line_fails(c) \/ recover_password(c) PROVE Inv'
    <2>1. PICK controller \in Controllers :
              ~controller.authenticated /\ ctl' = [ctl EXCEPT ![c] = controller]
      <3>1. CASE read_line_fails(c)
        <4>1. NewController \in Controllers /\ ~NewController.authenticated
          BY DEF NewController, Controllers
        <4> QED BY <3>1, <4>1 DEF read_line_fails, Set
      <3>2. CASE logout(c) \/ recover_password(c)
        BY <3>2, <1>1, LockFields DEF logout, recover_password, Set
      <3> QED BY <1>3, <3>1, <3>2
    <2>2. PICK place \in {"refresh", "settle", "sleep"} : Goto(c, place)
      BY <1>3 DEF logout, read_line_fails, recover_password
    <2>3. place \in Places \ {"waiting", "reauthenticate", "platform"}
      BY DEF Places, Offline
    <2>4. /\ UNCHANGED world /\ UNCHANGED next /\ UNCHANGED seen /\ pc[c] # "waiting"
          /\ proof' = [proof EXCEPT ![c] = 0]
      BY <1>3 DEF logout, read_line_fails, recover_password, Lines
    <2>5. 0 \in 0 .. enrollments
      BY Counts DEF Inv
    <2>6. Updates(c, place, next[c], controller, seen[c], 0)
      BY <2>1, <2>2, <2>3, <2>4, <2>5, Stays DEF Updates
    <2> QED BY <2>6, InvLocal
  <1> QED BY <1>2, <1>3

(* Steps that read the status: without an operator it locks. *)
LEMMA InvReads ==
    ASSUME Inv, NEW c \in Consoles,
           refresh(c) \/ authenticate(c) \/ reauthenticate(c) \/ act(c)
    PROVE  Inv'
  <1> DEFINE proves == IF operator = 0 THEN 0 ELSE proof[c]
  <1>1. /\ UNCHANGED world /\ UNCHANGED next /\ pc[c] # "waiting"
        /\ seen' = [seen EXCEPT ![c] = operator]
        /\ proof' = [proof EXCEPT ![c] = proves]
    BY DEF refresh, authenticate, reauthenticate, act, Saw
  <1>2. operator \in 0 .. enrollments /\ proves \in 0 .. enrollments
    BY Stays, Counts DEF Inv
  <1>3. /\ status(c) \in Controllers
        /\ status(c).authenticated => operator # 0 /\ proves # 0
        /\ operator # 0 => status(c).last_enrolled = "enrolled"
    BY Stays, StatusFields DEF Inv, Enrolled, None
  <1>4. PICK place \in Places \ {"waiting", "reauthenticate"} : Goto(c, place)
    BY DEF refresh, authenticate, reauthenticate, act, Places
  <1>5. place = "platform" => operator = 0 \/ status(c).authenticated
    BY <1>4 DEF refresh, authenticate, reauthenticate, act, Goto, Inv, TypeOK
  <1>6. PICK controller \in Controllers :
            /\ ctl' = [ctl EXCEPT ![c] = controller]
            /\ controller.authenticated => proves # 0 /\ controller.last_enrolled = "enrolled"
    <2>1. CASE refresh(c) \/ act(c)
      BY <2>1, <1>3 DEF refresh, act, Set
    <2>2. CASE authenticate(c) \/ reauthenticate(c)
      <3>1. CASE operator = 0
        BY <2>2, <3>1, <1>3, LockFields DEF authenticate, reauthenticate, Set
      <3>2. CASE operator # 0 /\ authenticate(c)
        BY <3>2, <1>3 DEF authenticate, Set
      <3>3. CASE operator # 0 /\ reauthenticate(c)
        <4>1. proof[c] # 0
          BY <3>3 DEF Inv, CheckRemembered, reauthenticate
        <4>2. ctl' = [ctl EXCEPT ![c] = [status(c) EXCEPT !.authenticated = TRUE]]
          BY <3>3 DEF reauthenticate, Set
        <4>3. /\ [status(c) EXCEPT !.authenticated = TRUE] \in Controllers
              /\ [status(c) EXCEPT !.authenticated = TRUE].last_enrolled = "enrolled"
          BY <3>3, <1>3, LockFields
        <4> QED BY <3>3, <4>1, <4>2, <4>3
      <3> QED BY <2>2, <3>1, <3>2, <3>3
    <2> QED BY <2>1, <2>2
  <1> HIDE DEF proves
  <1>7. Updates(c, place, next[c], controller, operator, proves)
    BY <1>1, <1>2, <1>3, <1>4, <1>5, <1>6, Stays DEF Updates
  <1> QED BY <1>7, InvLocal

-----------------------------------------------------------------------------
(* Steps that touch the world: none of them unlocks a console, and only      *)
(* enrollment and the end of a sequence write a controller at all.           *)

LEMMA InvEnrollment == ASSUME Inv, NEW c \in Consoles, enrollment(c) PROVE Inv'
  <1> USE DEF Inv
  <1>1. PICK place \in {"menu", "refresh"} : Goto(c, place)
    BY DEF enrollment
  <1>2. /\ UNCHANGED <<operator, enrollments, reset_pending, sequence, next, seen, proof>>
        /\ code' \in {code, "shown"} /\ pc[c] \in {"enrollment", "settle_enrollment"}
        /\ ctl' = [ctl EXCEPT ![c] = [ctl[c] EXCEPT !.reset_incomplete = FALSE]]
    BY DEF enrollment, history, Reads, Set
  <1> DEFINE cleared == [ctl[c] EXCEPT !.reset_incomplete = FALSE]
  <1>3. /\ cleared \in Controllers /\ cleared.authenticated = ctl[c].authenticated
        /\ cleared.last_enrolled = ctl[c].last_enrolled
    BY Stays, LockFields
  <1>4. ctl' = [ctl EXCEPT ![c] = cleared]
    BY <1>2
  <1> HIDE DEF cleared
  <1>5. /\ pc' \in [Consoles -> Places] /\ ctl' \in [Consoles -> Controllers]
        /\ \A d \in Consoles :
              /\ pc'[d] = IF d = c THEN place ELSE pc[d]
              /\ ctl'[d].authenticated = ctl[d].authenticated
              /\ ctl'[d].last_enrolled = ctl[d].last_enrolled
    <2>1. /\ pc' \in [Consoles -> Places]
          /\ \A d \in Consoles : pc'[d] = IF d = c THEN place ELSE pc[d]
      BY <1>1 DEF TypeOK, Goto, Places, Prompts, Lines
    <2>2. ctl \in [Consoles -> Controllers]
      BY DEF TypeOK, Controllers
    <2>3. /\ ctl' \in [Consoles -> Controllers]
          /\ \A d \in Consoles : ctl'[d] = IF d = c THEN cleared ELSE ctl[d]
      BY <1>3, <1>4, <2>2
    <2> QED BY <1>3, <2>1, <2>3
  <1>6. TypeOK'
    <2>1. code' \in {None, "pending", "shown"}
      BY <1>2 DEF TypeOK
    <2>2. \A d \in Consoles : sequence'.owner = d <=> pc'[d] = "waiting"
      <3>1. \A d \in Consoles : sequence.owner = d <=> pc[d] = "waiting"
        BY DEF TypeOK
      <3>2. sequence' = sequence /\ pc[c] # "waiting" /\ place # "waiting"
        BY <1>1, <1>2
      <3> QED BY <1>5, <3>1, <3>2
    <2> QED BY <1>2, <1>5, <2>1, <2>2 DEF TypeOK, Controllers
  <1>7. UnlockedByCheck' /\ UnlockedSawOperator'
    BY <1>2, <1>5 DEF UnlockedByCheck, UnlockedSawOperator, Knows
  <1>8. CheckRemembered' /\ ActsAfterCheck' /\ OnlyPastOperators'
    BY <1>1, <1>2, <1>5 DEF CheckRemembered, ActsAfterCheck, OnlyPastOperators
  <1> QED BY <1>6, <1>7, <1>8

LEMMA InvIncomplete ==
    ASSUME Inv, NEW c \in Consoles, platform_reset_incomplete(c)
    PROVE  Inv'
  <1> DEFINE flagged == [ctl[c] EXCEPT !.reset_incomplete = TRUE]
  <1>1. /\ flagged \in Controllers /\ flagged.authenticated = ctl[c].authenticated
        /\ flagged.last_enrolled = ctl[c].last_enrolled
    BY Stays, LockFields
  <1>2. /\ UNCHANGED world /\ UNCHANGED next /\ UNCHANGED seen /\ UNCHANGED proof
        /\ pc[c] # "waiting" /\ Goto(c, "refresh") /\ ctl' = [ctl EXCEPT ![c] = flagged]
    BY DEF platform_reset_incomplete, Set, history
  <1>3. "refresh" \in Places \ {"waiting"}
    BY DEF Places
  <1> HIDE DEF flagged
  <1>4. Updates(c, "refresh", next[c], flagged, seen[c], proof[c])
    BY <1>1, <1>2, <1>3, Stays DEF Updates
  <1> QED BY <1>4, InvLocal

(* A console waits exactly for the sequence it started. *)
LEMMA InvStarts ==
    ASSUME Inv, NEW c \in Consoles, platform(c) \/ platform_timeout(c)
    PROVE  Inv'
  <1> USE DEF Inv
  <1>1. PICK place \in {"waiting", "refresh"} : Goto(c, place)
    BY DEF platform, platform_timeout
  <1>2. UNCHANGED <<operator, enrollments, code, reset_pending, ctl, next, seen, proof>>
    BY DEF platform, platform_timeout, history
  <1>3. /\ sequence' \in [action : Action \cup {None},
                          owner : Consoles \cup {NoConsole}, reset : BOOLEAN]
        /\ \A d \in Consoles : sequence'.owner = d <=> pc'[d] = "waiting"
    <2>1. CASE platform(c)
      <3>1. \A d \in Consoles : pc[d] # "waiting"
        BY <2>1, ConsolesAssumption DEF platform, TypeOK, NoSequence
      <3>2. \A d \in Consoles : pc'[d] = "waiting" <=> d = c
        BY <2>1, <3>1 DEF platform, Goto, TypeOK
      <3> QED BY <2>1, <3>2 DEF platform, TypeOK
    <2>2. CASE platform_timeout(c)
      <3>1. \A d \in Consoles : pc'[d] # "waiting"
        BY <2>2 DEF platform_timeout, Goto, TypeOK
      <3> QED BY <2>2, <3>1, ConsolesAssumption DEF platform_timeout, TypeOK
    <2> QED BY <2>1, <2>2
  <1>4. /\ pc' \in [Consoles -> Places]
        /\ \A d \in Consoles : pc'[d] \in {pc[d], "waiting", "refresh"}
    BY <1>1 DEF TypeOK, Goto, Places
  <1>5. TypeOK'
    BY <1>2, <1>3, <1>4 DEF TypeOK
  <1> QED BY <1>2, <1>4, <1>5 DEF UnlockedByCheck, UnlockedSawOperator, Knows, CheckRemembered,
                              ActsAfterCheck, OnlyPastOperators

LEMMA InvResets == ASSUME Inv, SequenceResets PROVE Inv'
  <1> USE DEF Inv
  <1>1. sequence' \in [action : Action \cup {None},
                       owner : Consoles \cup {NoConsole}, reset : BOOLEAN]
        /\ sequence'.owner = sequence.owner
    BY DEF SequenceResets, TypeOK
  <1>2. operator' \in 0 .. MAX_OPERATOR /\ enrollments' \in operator' .. MAX_OPERATOR
    BY Counts DEF SequenceResets
  <1>3. TypeOK'
    BY <1>1, <1>2 DEF SequenceResets, TypeOK, history
  <1> QED BY <1>3 DEF SequenceResets, history, UnlockedByCheck, UnlockedSawOperator, Knows,
                     CheckRemembered, ActsAfterCheck, OnlyPastOperators

LEMMA InvEnroll == ASSUME Inv, Enroll PROVE Inv'
  <1> USE DEF Inv
  <1>1. operator' \in 0 .. MAX_OPERATOR /\ enrollments' \in operator' .. MAX_OPERATOR
    BY Counts DEF Enroll
  <1>2. TypeOK'
    BY <1>1 DEF Enroll, TypeOK, history
  <1>3. OnlyPastOperators'
    <2>1. ASSUME NEW c \in Consoles
          PROVE  seen'[c] <= enrollments' /\ proof'[c] <= enrollments'
      <3>1. seen[c] \in 0 .. enrollments /\ proof[c] \in 0 .. enrollments
        BY Stays
      <3>2. enrollments' = enrollments + 1 /\ UNCHANGED <<seen, proof>>
        BY DEF Enroll, history
      <3> QED BY <3>1, <3>2, Counts
    <2> QED BY <2>1 DEF OnlyPastOperators
  <1> QED BY <1>2, <1>3 DEF Enroll, history, UnlockedByCheck, UnlockedSawOperator, Knows,
                     CheckRemembered, ActsAfterCheck

LEMMA InvFails == ASSUME Inv, SequenceFails PROVE Inv'
  <1> USE DEF Inv
  <1>1. /\ UNCHANGED <<operator, enrollments, ctl, next, seen, proof>>
        /\ reset_pending' \in BOOLEAN /\ sequence' = NoSequence
    BY DEF SequenceFails, history, TypeOK
  <1>2. code' \in {None, "pending", "shown"}
    BY DEF SequenceFails, Ensured, TypeOK
  <1>3. sequence' \in [action : Action \cup {None},
                       owner : Consoles \cup {NoConsole}, reset : BOOLEAN]
        /\ sequence'.owner = NoConsole
    BY <1>1 DEF NoSequence
  <1>4. /\ pc' \in [Consoles -> Places]
        /\ \A d \in Consoles :
              pc'[d] \in {pc[d], "refresh"} /\ pc'[d] # "waiting"
    BY DEF SequenceFails, TypeOK, Places
  <1>5. TypeOK'
    BY <1>1, <1>2, <1>3, <1>4, ConsolesAssumption DEF TypeOK
  <1> QED BY <1>1, <1>4, <1>5 DEF UnlockedByCheck, UnlockedSawOperator, Knows, CheckRemembered,
                              ActsAfterCheck, OnlyPastOperators

(* The console whose Reenroll succeeded is locked as its check is forgotten. *)
LEMMA InvSucceeds == ASSUME Inv, SequenceSucceeds PROVE Inv'
  <1> USE DEF Inv
  <1>1. /\ UNCHANGED <<operator, enrollments, next, seen>>
        /\ reset_pending' \in BOOLEAN /\ sequence' = NoSequence
    BY DEF SequenceSucceeds
  <1>2. code' \in {None, "pending", "shown"}
    BY DEF SequenceSucceeds, Ensured, TypeOK
  <1>3. sequence' \in [action : Action \cup {None},
                       owner : Consoles \cup {NoConsole}, reset : BOOLEAN]
        /\ sequence'.owner = NoConsole
    BY <1>1 DEF NoSequence
  <1>4. /\ pc' \in [Consoles -> Places]
        /\ \A d \in Consoles :
              /\ pc'[d] = IF d = sequence.owner THEN "settle" ELSE pc[d]
              /\ pc'[d] # "waiting"
    BY DEF SequenceSucceeds, TypeOK, Places
  <1>5. /\ proof' \in [Consoles -> 0 .. MAX_OPERATOR]
        /\ \A d \in Consoles :
              proof'[d] = IF d = sequence.owner /\ sequence.action = "Reenroll"
                          THEN 0 ELSE proof[d]
    <2>1. proof \in [Consoles -> 0 .. MAX_OPERATOR]
      BY DEF TypeOK
    <2>2. 0 \in 0 .. MAX_OPERATOR
      BY OperatorAssumption
    <2>3. proof' = [c \in Consoles |-> IF c = sequence.owner /\ sequence.action = "Reenroll"
                                       THEN 0 ELSE proof[c]]
      BY DEF SequenceSucceeds
    <2> QED BY <2>1, <2>2, <2>3
  <1>6. ASSUME NEW d \in Consoles
        PROVE  /\ ctl'[d] \in Controllers
               /\ ctl'[d].authenticated =>
                     /\ ctl[d].authenticated /\ ctl'[d].last_enrolled = ctl[d].last_enrolled
                     /\ proof'[d] = proof[d]
    <2>1. ctl'[d] = IF d = sequence.owner THEN acted(ctl[d], sequence.action) ELSE ctl[d]
      BY DEF SequenceSucceeds
    <2>2. ctl[d] \in Controllers
      BY Stays
    <2>3. CASE d = sequence.owner /\ sequence.action = "Reenroll"
      <3>1. ctl'[d] = [ctl[d] EXCEPT !.authenticated = FALSE, !.reset_incomplete = FALSE]
        BY <2>1, <2>3 DEF acted
      <3>2. ctl'[d] \in Controllers /\ ctl'[d].authenticated = FALSE
        BY <2>2, <3>1 DEF Controllers
      <3> QED BY <3>2
    <2>4. CASE ~(d = sequence.owner /\ sequence.action = "Reenroll")
      <3>1. ctl'[d] = ctl[d] /\ proof'[d] = proof[d]
        BY <2>1, <2>4, <1>5 DEF acted
      <3> QED BY <2>2, <3>1
    <2> QED BY <2>3, <2>4
  <1>7. TypeOK'
    <2>1. ctl' \in [Consoles -> Controllers]
      BY <1>6 DEF SequenceSucceeds
    <2> QED BY <1>1, <1>2, <1>3, <1>4, <1>5, <2>1, ConsolesAssumption DEF TypeOK, Controllers
  <1>8. UnlockedByCheck' /\ UnlockedSawOperator'
    BY <1>6 DEF UnlockedByCheck, UnlockedSawOperator, Knows
  <1>9. CheckRemembered' /\ ActsAfterCheck'
    BY <1>1, <1>4, <1>5 DEF CheckRemembered, ActsAfterCheck
  <1>10. OnlyPastOperators'
    BY <1>1, <1>5, Counts DEF OnlyPastOperators
  <1> QED BY <1>7, <1>8, <1>9, <1>10

-----------------------------------------------------------------------------

LEMMA InvNext == ASSUME Inv, [Next]_vars PROVE Inv'
  <1>1. ASSUME Next PROVE Inv'
    <2>1. ASSUME NEW c \in Consoles,
                 \/ Person(c) \/ Program(c) \/ platform_timeout(c)
                 \/ connect(c) \/ connect_fails(c)
          PROVE  Inv'
      BY <2>1, InvMoves, InvLocks, InvReads, InvEnrollment, InvIncomplete, InvStarts
      DEF Person, Program
    <2> QED BY <1>1, <2>1, InvResets, InvFails, InvSucceeds, InvEnroll DEF Next, Platformd
  <1>2. CASE UNCHANGED vars
    BY <1>2 DEF vars, world, history, Inv, TypeOK, UnlockedByCheck, UnlockedSawOperator, Knows,
                CheckRemembered, ActsAfterCheck, OnlyPastOperators
  <1> QED BY <1>1, <1>2

LEMMA Invariance == Spec => []Inv
  BY InvInit, InvNext, PTL DEF Spec

(* Every variable of every console has its type, and a console waits exactly *)
(* while the sequence under way is its own (console/src/lib.rs: Controller). *)
THEOREM ConsoleTyped == Spec => []TypeOK
  <1>1. Inv => TypeOK
    BY DEF Inv
  <1> QED BY <1>1, Invariance, PTL

(* However the consoles, the browser and a sequence that outlived its caller *)
(* interleave, a console is unlocked only by a password check that it has    *)
(* not forgotten (Controller::status, authenticate, act, recover_password).  *)
THEOREM UnlockedOnlyByCheck == Spec => []UnlockedByCheck
  <1>1. Inv => UnlockedByCheck
    BY DEF Inv
  <1> QED BY <1>1, Invariance, PTL

(* As long as there has been one operator only, whoever is enrolled when act *)
(* decides gave the password at this console.  With a second enrollment this *)
(* fails, which is what the run other_operator shows: the Boolean `enrolled' *)
(* does not tell the two apart (Controller::act).                            *)
THEOREM OneOperatorAuthorises ==
    Spec => [](enrollments <= 1 => AuthorisedByOperator)
  <1>1. ASSUME Inv, enrollments <= 1 PROVE AuthorisedByOperator
    <2>1. ASSUME NEW c \in Consoles, pc[c] = "platform" PROVE seen[c] \in {0, proof[c]}
      <3>1. seen[c] = 0 \/ proof[c] # 0
        BY <1>1, <2>1 DEF Inv, ActsAfterCheck
      <3>2. seen[c] \in 0 .. enrollments /\ proof[c] \in 0 .. enrollments
        BY <1>1, Stays
      <3> QED BY <1>1, <3>1, <3>2, Counts DEF Inv
    <2> QED BY <2>1 DEF AuthorisedByOperator
  <1> QED BY <1>1, Invariance, PTL
=============================================================================
