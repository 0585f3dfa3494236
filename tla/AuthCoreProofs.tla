--------------------------- MODULE AuthCoreProofs ---------------------------
(***************************************************************************)
(* Proofs about AuthCore for every value of its constants.  The invariants *)
(* come in four layers: the types with what each place of a method knows,  *)
(* the agreement of memory and disk, the life of a pairing code, and the   *)
(* pace of the back-off.  From the first two follows that the machine      *)
(* implements OperatorAccount.                                             *)
(***************************************************************************)
EXTENDS AuthCore, TLAPS

-----------------------------------------------------------------------------
(* Layer 1: types, and what the running method knows at each place *)

PlaceKnows ==
    /\ pc \in {"down"} => persisted = Invalid
    /\ pc \in {"prepared", "verify", "enroll", "confirm", "finish", "recover", "rehash"}
         => persisted # Invalid
    /\ pc = "verify" =>
         /\ persisted.state = "enrolled"
         /\ args.uid \in Uids
    /\ pc = "enroll" =>
         /\ persisted = Unenrolled
         /\ args.password \in Secrets \ Weak /\ args.key \in Keys
         /\ args.password # args.key
    /\ pc = "confirm" => persisted.state = "unconfirmed" /\ args.key \in Keys
    /\ pc = "finish" =>
         /\ args.key \in Keys
         /\ \/ /\ persisted.state = "unconfirmed"
               /\ ~deadline_expired(persisted.deadline, wall)
            \/ persisted = Unenrolled /\ expired_provisional
    /\ pc = "recover" =>
         /\ persisted.state = "enrolled"
         /\ args.key \in Keys /\ args.password \in Secrets
    /\ pc = "rehash" =>
         /\ persisted.state = "enrolled" /\ args.key = persisted.key
         /\ args.password \in Secrets \ Weak /\ args.password # args.key

TypeInv == TypeOK /\ PlaceKnows

\* A state with a name has the fields that go with the name.
LEMMA FileFields ==
    \A f \in Persisted \cup {Invalid} :
        /\ f.state \in {"unenrolled", "unconfirmed", "enrolled", "invalid"}
        /\ f.state = "unenrolled" <=> f = Unenrolled
        /\ f.state = "invalid" <=> f = Invalid
        /\ f.state = "unconfirmed" =>
              /\ f.password \in Secrets /\ f.key \in Keys /\ f.deadline \in Nat
              /\ f = EnrolledUnconfirmed(f.password, f.key, f.deadline)
        /\ f.state = "enrolled" =>
              /\ f.password \in Secrets /\ f.key \in Keys
              /\ f = Enrolled(f.password, f.key)
  BY DEF Persisted, Unenrolled, Invalid, EnrolledUnconfirmed, Enrolled

\* The values the methods write are states of the file.
LEMMA WrittenStates ==
    /\ Unenrolled \in Persisted
    /\ Unenrolled # Invalid /\ Unenrolled.state = "unenrolled"
    /\ Invalid.state = "invalid"
    /\ \A p \in Secrets, k \in Keys :
          /\ Enrolled(p, k) \in Persisted /\ Enrolled(p, k) # Invalid
          /\ Enrolled(p, k).state = "enrolled"
          /\ Enrolled(p, k).password = p /\ Enrolled(p, k).key = k
          /\ \A d \in Nat :
                /\ EnrolledUnconfirmed(p, k, d) \in Persisted
                /\ EnrolledUnconfirmed(p, k, d) # Invalid
                /\ EnrolledUnconfirmed(p, k, d).state = "unconfirmed"
                /\ EnrolledUnconfirmed(p, k, d).password = p
                /\ EnrolledUnconfirmed(p, k, d).key = k
                /\ EnrolledUnconfirmed(p, k, d).deadline = d
  BY DEF Persisted, Unenrolled, Invalid, EnrolledUnconfirmed, Enrolled

\* commit keeps the types of what it assigns and says how the outcomes differ.
LEMMA CommitTypes ==
    ASSUME TypeOK, NEW state \in Persisted, NEW o \in Outcomes, commit(state, o)
    PROVE  /\ disk' \in Persisted \cup {Invalid}
           /\ durable' \in Persisted \cup {Invalid}
           /\ temp' \in BOOLEAN
           /\ persisted' \in Persisted \cup {Invalid}
           /\ promised' \in Persisted \cup {Invalid}
           /\ o = "durable" => /\ persisted' = state /\ promised' = state
                               /\ disk' = state /\ durable' = state
           /\ o = "not_renamed" => UNCHANGED <<disk, durable, persisted, promised>>
           /\ o = "not_synced" => /\ persisted' = Invalid /\ promised' = Invalid
                                  /\ disk' = state /\ durable' = durable
  BY DEF TypeOK, Outcomes, commit, write

\* The values a method gives the pending pairing are pairings.
LEMMA PairingTypes ==
    ASSUME TypeOK
    PROVE  /\ NoPairing \in Pairings /\ NoPairing.state = "none"
           /\ UnexpiredPairing \in Pairings
           /\ UnexpiredPairing \in {pairing, NoPairing}
           /\ \A o \in Outcomes, p, q \in Pairings : PairingAfter(o, p, q) \in Pairings
           /\ pairing.state \in {"none", "pending"}
           /\ pairing.state = "none" <=> pairing = NoPairing
           /\ pairing # NoPairing => /\ pairing.code \in Codes
                              /\ pairing.expires_boot \in Nat
                              /\ pairing.wrong_attempts \in Nat
  BY DEF TypeOK, Pairings, NoPairing, UnexpiredPairing, PairingAfter, Outcomes

\* record_failure and record_success keep the counters typed.
LEMMA BackoffTypes ==
    ASSUME TypeOK, NEW s \in Scopes
    PROVE  /\ \A r : record_failure(s, r) =>
                 backoff' \in [Scopes -> [failures : Nat, last_failure : Nat]]
           /\ record_success(s) =>
                 backoff' \in [Scopes -> [failures : Nat, last_failure : Nat]]
           /\ [t \in Scopes |-> NoFailures] \in
                 [Scopes -> [failures : Nat, last_failure : Nat]]
  <1>1. /\ backoff \in [Scopes -> [failures : Nat, last_failure : Nat]] /\ boot \in Nat
        /\ backoff[s].failures \in Nat /\ backoff[s].last_failure \in Nat
    BY DEF TypeOK
  <1>2. ASSUME NEW r, record_failure(s, r)
        PROVE  backoff' \in [Scopes -> [failures : Nat, last_failure : Nat]]
    BY <1>1, <1>2, ConstantsAssumption DEF record_failure
  <1>3. record_success(s) => backoff' \in [Scopes -> [failures : Nat, last_failure : Nat]]
    BY <1>1 DEF record_success, NoFailures
  <1>4. [t \in Scopes |-> NoFailures] \in [Scopes -> [failures : Nat, last_failure : Nat]]
    BY DEF NoFailures
  <1> QED BY <1>2, <1>3, <1>4

\* So do the histories of failures.
LEMMA FailedTypes ==
    ASSUME TypeOK, NEW s \in Scopes
    PROVE  /\ \A r : Fails(s, r) =>
                 failed' \in [Scopes -> [count : Nat, at : Nat, wait : Nat]]
           /\ Forgives(s) => failed' \in [Scopes -> [count : Nat, at : Nat, wait : Nat]]
           /\ [t \in Scopes |-> NeverFailed] \in
                 [Scopes -> [count : Nat, at : Nat, wait : Nat]]
  <1>1. ASSUME NEW r, Fails(s, r)
        PROVE  failed' \in [Scopes -> [count : Nat, at : Nat, wait : Nat]]
    <2>1. failed \in [Scopes -> [count : Nat, at : Nat, wait : Nat]] /\ boot \in Nat
      BY DEF TypeOK
    <2>2. failed[s].count \in Nat /\ failed[s].at \in Nat /\ failed[s].wait \in Nat
      BY <2>1
    <2> DEFINE before == failed[s]
               reached == before.count + 1 >= BACKOFF_THRESHOLD
               doubled == IF before.wait = 0 THEN 1 ELSE 2 * before.wait
               c == IF reached THEN BACKOFF_THRESHOLD ELSE before.count + 1
               a == IF r = "InvalidCredential" THEN boot ELSE before.at
               w == IF ~reached THEN 0
                    ELSE IF doubled > BACKOFF_CAP THEN BACKOFF_CAP ELSE doubled
    <2>3. failed' = [failed EXCEPT ![s] = [count |-> c, at |-> a, wait |-> w]]
      BY <1>1 DEF Fails
    <2>4. c \in Nat /\ a \in Nat /\ w \in Nat
      BY <2>1, <2>2, ConstantsAssumption
    <2> HIDE DEF c, a, w
    <2> QED BY <2>1, <2>3, <2>4
  <1> QED BY <1>1 DEF TypeOK, Forgives, NeverFailed

\* Each sender uid, the recovery and the confirmation are scopes of the backoff.
LEMMA ScopeNames == Uids \subseteq Scopes /\ {"recovery", "confirmation"} \subseteq Scopes
  BY DEF Scopes

\* Arguments of each place, as records.
LEMMA ArgsTypes ==
    /\ NoArgs \in [uid : Uids \cup {Garbage}, password : PasswordInputs, key : KeyInputs]
    /\ \A u \in Uids \cup {Garbage}, p \in PasswordInputs, k \in KeyInputs :
          /\ Args(u, p, k) \in
               [uid : Uids \cup {Garbage}, password : PasswordInputs, key : KeyInputs]
          /\ Args(u, p, k).uid = u
          /\ Args(u, p, k).password = p
          /\ Args(u, p, k).key = k
  BY DEF Args, NoArgs, PasswordInputs, KeyInputs

\* A method that answers leaves the mutex and keeps layer 1.
LEMMA ReplyTypes ==
    ASSUME NEW r \in Failures \cup {"ok"}, Reply(r)
    PROVE  /\ pc' = "idle" /\ args' = NoArgs
           /\ reply' \in Failures \cup {"none", "ok"}
  BY DEF Reply

\* Nothing is claimed of a machine that runs no method.
LEMMA IdleKnows ==
    ASSUME pc' = "idle" PROVE PlaceKnows'
  BY DEF PlaceKnows

\* A method that only answers keeps layer 1.
LEMMA AnswerStep ==
    ASSUME TypeInv, NEW r \in Failures \cup {"ok"}, Answer(r)
    PROVE  TypeInv'
  <1>1. pc' = "idle" /\ args' = NoArgs /\ reply' \in Failures \cup {"none", "ok"}
    BY ReplyTypes DEF Answer
  <1>2. TypeOK'
    BY <1>1, ArgsTypes DEF TypeInv, TypeOK, Answer, store, core, clocks, history, Places
  <1> QED
    BY <1>1, <1>2, IdleKnows DEF TypeInv

\* prepare(), with the expiry of a provisional enrollment, keeps layer 1.
LEMMA PrepareStep ==
    ASSUME TypeInv, prepare
    PROVE  TypeInv'
  <1> USE DEF TypeInv
  <1>f. PrepareFails => /\ pc' = "idle" /\ args' \in {args, NoArgs}
                        /\ reply' \in Failures \cup {"none", "ok"}
    BY DEF PrepareFails, Reply, TypeOK, Failures
  <1>p. /\ pc \in DOMAIN AfterPrepare <=> pc \in {"idle", "opening", "confirm"}
        /\ AfterPrepare["idle"] = "prepared"
        /\ AfterPrepare["opening"] = "idle"
        /\ AfterPrepare["confirm"] = "finish"
    BY DEF AfterPrepare
  <1>1. CASE PrepareRefuses
    <2>1. TypeOK'
      BY <1>1, <1>f, ArgsTypes DEF PrepareRefuses, TypeOK, store, core, clocks, history, Places
    <2> QED BY <1>1, <1>f, <2>1, IdleKnows DEF PrepareRefuses
  <1>2. CASE PrepareKeeps
    <2>1. TypeOK'
      BY <1>2, <1>p, PairingTypes
      DEF PrepareKeeps, PreparePasses, TypeOK, store, clocks, history, Places
    <2>2. PlaceKnows'
      <3>1. CASE pc = "idle"
        BY <1>2, <1>p, <3>1
        DEF PrepareKeeps, PreparePasses, PlaceKnows, Places
      <3>2. CASE pc = "opening"
        BY <1>2, <1>p, <3>2, IdleKnows DEF PrepareKeeps, PreparePasses
      <3>3. CASE pc = "confirm"
        BY <1>2, <1>p, <3>3
        DEF PrepareKeeps, PreparePasses, PlaceKnows, ProvisionalExpired, clocks
      <3> QED BY <1>2, <1>p, <3>1, <3>2, <3>3 DEF PrepareKeeps
    <2> QED BY <2>1, <2>2
  <1>3. CASE PrepareDiscards
    <2> PICK o \in Outcomes :
          /\ commit(Unenrolled, o)
          /\ pairing' = PairingAfter(o, UnexpiredPairing, UnexpiredPairing)
          /\ expired_provisional' = (o = "durable" \/ expired_provisional)
          /\ IF o = "durable" THEN PreparePasses ELSE PrepareFails
      BY <1>3 DEF PrepareDiscards
    <2>c. /\ disk' \in Persisted \cup {Invalid}
          /\ durable' \in Persisted \cup {Invalid}
          /\ temp' \in BOOLEAN
          /\ persisted' \in Persisted \cup {Invalid}
          /\ promised' \in Persisted \cup {Invalid}
          /\ o = "durable" => persisted' = Unenrolled
      BY CommitTypes, WrittenStates
    <2>d. pairing' \in Pairings
      BY PairingTypes
    <2>e. UNCHANGED <<backoff, boot, wall, drawn, confirmed, wrong, failed>>
      BY <1>3 DEF PrepareDiscards, clocks
    <2>g. pc \in {"idle", "opening", "confirm"}
      BY <1>3, <1>p DEF PrepareDiscards
    <2>1. CASE o = "durable"
      <3>1. /\ pc' = AfterPrepare[pc] /\ args' = args
            /\ reply' \in {"none", reply}
            /\ expired_provisional' = TRUE
        BY <2>1 DEF PreparePasses
      <3>2. TypeOK'
        BY <3>1, <2>c, <2>d, <2>e, <2>g, <1>p DEF TypeOK, Places
      <3>3. PlaceKnows'
        BY <3>1, <2>c, <2>g, <2>1, <1>p, WrittenStates DEF PlaceKnows
      <3> QED BY <3>2, <3>3
    <2>2. CASE o # "durable"
      <3>1. /\ pc' = "idle" /\ args' \in {args, NoArgs}
            /\ reply' \in Failures \cup {"none", "ok"}
            /\ expired_provisional' = expired_provisional
        BY <2>2, <1>f DEF TypeOK
      <3>2. TypeOK'
        BY <3>1, <2>c, <2>d, <2>e, ArgsTypes DEF TypeOK, Places
      <3> QED BY <3>1, <3>2, IdleKnows
    <2> QED BY <2>1, <2>2
  <1> QED BY <1>1, <1>2, <1>3 DEF prepare

\* verify_password keeps layer 1.
LEMMA VerifyStep ==
    ASSUME TypeInv, Verify
    PROVE  TypeInv'
  <1> USE DEF TypeInv
  <1>1. ASSUME NEW uid \in Uids, NEW p \in PasswordInputs, verify_password_refuses(uid, p)
        PROVE  TypeInv'
    BY <1>1, AnswerStep DEF verify_password_refuses
  <1>2. ASSUME NEW uid \in Uids, NEW p \in PasswordInputs, verify_password_begins(uid, p)
        PROVE  TypeInv'
    <2>1. /\ pc' = "verify" /\ args' = Args(uid, p, Garbage)
          /\ Garbage \in KeyInputs /\ persisted.state = "enrolled"
          /\ UNCHANGED <<store, core, clocks, history, reply>>
      BY <1>2 DEF verify_password_begins, Compute, KeyInputs
    <2>2. TypeOK'
      BY <2>1, ArgsTypes DEF TypeOK, store, core, clocks, history, Places
    <2>3. PlaceKnows'
      BY <2>1, ArgsTypes, FileFields, WrittenStates DEF PlaceKnows, TypeOK, core
    <2> QED BY <2>2, <2>3
  <1>3. CASE verify_password_ends
    <2>1. args.uid \in Scopes
      BY <1>3, ScopeNames DEF verify_password_ends, PlaceKnows
    <2>2. /\ pc' = "idle" /\ args' = NoArgs
          /\ reply' \in Failures \cup {"none", "ok"}
          /\ backoff' \in [Scopes -> [failures : Nat, last_failure : Nat]]
          /\ failed' \in [Scopes -> [count : Nat, at : Nat, wait : Nat]]
      BY <1>3, <2>1, BackoffTypes, FailedTypes, ReplyTypes DEF verify_password_ends
    <2>3. TypeOK'
      BY <1>3, <2>2, ArgsTypes
      DEF verify_password_ends, TypeOK, store, clocks, history, Places
    <2> QED BY <2>2, <2>3, IdleKnows
  <1> QED BY <1>1, <1>2, <1>3 DEF Verify

\* consume_pairing keeps layer 1.
LEMMA ConsumeStep ==
    ASSUME TypeInv, Consume
    PROVE  TypeInv'
  <1> USE DEF TypeInv
  <1>1. ASSUME NEW c \in CodeInputs, NEW p \in PasswordInputs, consume_pairing_refuses(c, p)
        PROVE  TypeInv'
    BY <1>1, AnswerStep DEF consume_pairing_refuses
  <1>2. ASSUME NEW c \in CodeInputs, NEW p \in PasswordInputs, consume_pairing_wrong_code(c, p)
        PROVE  TypeInv'
    <2>1. /\ pc' = "idle" /\ args' = NoArgs
          /\ reply' \in Failures \cup {"none", "ok"}
      BY <1>2 DEF consume_pairing_wrong_code, Reply, Failures
    <2>2. pairing' \in Pairings /\ wrong' \in [Codes -> Nat]
      <3>1. pairing.code \in Codes /\ pairing.wrong_attempts \in Nat /\ pairing # NoPairing
        BY <1>2, PairingTypes DEF consume_pairing_wrong_code
      <3>2. wrong' \in [Codes -> Nat]
        BY <1>2, <3>1 DEF consume_pairing_wrong_code, TypeOK
      <3>3. [pairing EXCEPT !.wrong_attempts = @ + 1] \in Pairings
        BY <3>1 DEF TypeOK, Pairings
      <3> QED BY <1>2, <3>2, <3>3, PairingTypes DEF consume_pairing_wrong_code
    <2>3. TypeOK'
      BY <1>2, <2>1, <2>2, ArgsTypes
      DEF consume_pairing_wrong_code, TypeOK, store, clocks, Places
    <2> QED BY <2>1, <2>3, IdleKnows
  <1>3. ASSUME NEW c \in CodeInputs, NEW p \in PasswordInputs, NEW k \in Keys,
               consume_pairing_draws(c, p, k)
        PROVE  TypeInv'
    <2>1. /\ drawn' \subseteq Codes \cup Keys
          /\ UNCHANGED <<store, core, clocks, promised, confirmed, wrong, failed>>
          /\ p \in Secrets \ Weak /\ persisted = Unenrolled /\ k \in KeyInputs
      BY <1>3, FileFields DEF consume_pairing_draws, TypeOK, PasswordInputs, KeyInputs
    <2>2. CASE p = k
      <3>1. pc' = "idle" /\ args' = NoArgs /\ reply' \in Failures \cup {"none", "ok"}
        BY <1>3, <2>2 DEF consume_pairing_draws, Reply, Failures
      <3>2. TypeOK'
        BY <2>1, <3>1, ArgsTypes DEF TypeOK, store, core, clocks, Places
      <3> QED BY <3>1, <3>2, IdleKnows
    <2>3. CASE p # k
      <3>1. pc' = "enroll" /\ args' = Args(Garbage, p, k) /\ reply' = reply
        BY <1>3, <2>3 DEF consume_pairing_draws, Compute
      <3>2. TypeOK'
        BY <2>1, <3>1, ArgsTypes DEF TypeOK, store, core, clocks, Places
      <3>3. PlaceKnows'
        BY <2>1, <2>3, <3>1, ArgsTypes, WrittenStates DEF PlaceKnows, core
      <3> QED BY <3>2, <3>3
    <2> QED BY <2>2, <2>3
  <1>4. CASE consume_pairing_ends
    <2> DEFINE new == EnrolledUnconfirmed(args.password, args.key, wall + CONFIRMATION_WINDOW)
    <2> PICK o \in Outcomes :
          /\ commit(new, o)
          /\ pairing' = PairingAfter(o, NoPairing, pairing)
          /\ expired_provisional' = (o # "durable" /\ expired_provisional)
          /\ Reply(IF o = "durable" THEN "ok" ELSE "Unavailable")
      BY <1>4 DEF consume_pairing_ends
    <2>1. new \in Persisted
      BY <1>4, WrittenStates, ConstantsAssumption
      DEF consume_pairing_ends, PlaceKnows, TypeOK
    <2> HIDE DEF new
    <2>2. /\ disk' \in Persisted \cup {Invalid}
          /\ durable' \in Persisted \cup {Invalid}
          /\ temp' \in BOOLEAN
          /\ persisted' \in Persisted \cup {Invalid}
          /\ promised' \in Persisted \cup {Invalid}
      BY <2>1, CommitTypes
    <2>3. pairing' \in Pairings /\ expired_provisional' \in BOOLEAN
      BY PairingTypes DEF TypeOK
    <2>4. pc' = "idle" /\ args' = NoArgs /\ reply' \in Failures \cup {"none", "ok"}
      BY DEF Reply, Failures
    <2>5. TypeOK'
      BY <1>4, <2>2, <2>3, <2>4, ArgsTypes
      DEF consume_pairing_ends, TypeOK, clocks, Places
    <2> QED BY <2>4, <2>5, IdleKnows
  <1> QED BY <1>1, <1>2, <1>3, <1>4 DEF Consume

\* confirm_recovery_key keeps layer 1, also when the window closes during the hash.
LEMMA ConfirmStep ==
    ASSUME TypeInv, Confirm
    PROVE  TypeInv'
  <1> USE DEF TypeInv
  <1>1. ASSUME NEW k \in KeyInputs, confirm_recovery_key_refuses(k)
        PROVE  TypeInv'
    BY <1>1, AnswerStep DEF confirm_recovery_key_refuses
  <1>2. ASSUME NEW k \in KeyInputs, confirm_recovery_key_begins(k)
        PROVE  TypeInv'
    <2>1. /\ pc' = "confirm" /\ args' = Args(Garbage, Garbage, k)
          /\ Garbage \in PasswordInputs /\ k \in Keys
          /\ persisted.state = "unconfirmed"
          /\ UNCHANGED <<store, core, clocks, history, reply>>
      BY <1>2 DEF confirm_recovery_key_begins, Compute, KeyInputs, PasswordInputs
    <2>2. TypeOK'
      BY <2>1, ArgsTypes DEF TypeOK, store, core, clocks, history, Places
    <2>3. PlaceKnows'
      <3>1. persisted # Invalid /\ persisted' = persisted
        BY <2>1, WrittenStates DEF core
      <3>2. args'.key = k
        BY <2>1, ArgsTypes DEF KeyInputs, PasswordInputs
      <3> QED BY <2>1, <3>1, <3>2 DEF PlaceKnows
    <2> QED BY <2>2, <2>3
  <1>3. CASE confirm_recovery_key_expired
    BY <1>3, AnswerStep DEF confirm_recovery_key_expired, Failures
  <1>4. CASE confirm_recovery_key_mismatch
    <2>1. /\ pc' = "idle" /\ args' = NoArgs
          /\ reply' \in Failures \cup {"none", "ok"}
          /\ backoff' \in [Scopes -> [failures : Nat, last_failure : Nat]]
          /\ failed' \in [Scopes -> [count : Nat, at : Nat, wait : Nat]]
      BY <1>4, ScopeNames, BackoffTypes, FailedTypes, ReplyTypes
      DEF confirm_recovery_key_mismatch
    <2>2. TypeOK'
      BY <1>4, <2>1, ArgsTypes
      DEF confirm_recovery_key_mismatch, TypeOK, store, clocks, history, Places
    <2> QED BY <2>1, <2>2, IdleKnows
  <1>5. CASE confirm_recovery_key_ends
    <2> DEFINE new == Enrolled(persisted.password, persisted.key)
    <2> PICK o \in Outcomes :
          /\ commit(new, o)
          /\ pairing' = PairingAfter(o, pairing, pairing)
          /\ IF o = "durable"
             THEN /\ record_success("confirmation") /\ Forgives("confirmation")
                  /\ Reply("ok")
             ELSE UNCHANGED <<backoff, failed>> /\ Reply("Unavailable")
      BY <1>5 DEF confirm_recovery_key_ends
    <2>1. new \in Persisted
      BY <1>5, WrittenStates, FileFields DEF confirm_recovery_key_ends, TypeOK
    <2> HIDE DEF new
    <2>2. /\ disk' \in Persisted \cup {Invalid}
          /\ durable' \in Persisted \cup {Invalid}
          /\ temp' \in BOOLEAN
          /\ persisted' \in Persisted \cup {Invalid}
          /\ promised' \in Persisted \cup {Invalid}
      BY <2>1, CommitTypes
    <2>3. pairing' \in Pairings
      BY PairingTypes DEF TypeOK
    <2>4. pc' = "idle" /\ args' = NoArgs /\ reply' \in Failures \cup {"none", "ok"}
      BY DEF Reply, Failures
    <2>5. /\ backoff' \in [Scopes -> [failures : Nat, last_failure : Nat]]
          /\ failed' \in [Scopes -> [count : Nat, at : Nat, wait : Nat]]
      BY ScopeNames, BackoffTypes, FailedTypes DEF TypeOK
    <2>6. confirmed' \subseteq Keys
      BY <1>5 DEF confirm_recovery_key_ends, PlaceKnows, TypeOK
    <2>7. TypeOK'
      BY <1>5, <2>2, <2>3, <2>4, <2>5, <2>6, ArgsTypes
      DEF confirm_recovery_key_ends, TypeOK, clocks, Places
    <2> QED BY <2>4, <2>7, IdleKnows
  <1> QED BY <1>1, <1>2, <1>3, <1>4, <1>5 DEF Confirm

\* recover_password keeps layer 1.
LEMMA RecoverStep ==
    ASSUME TypeInv, Recover
    PROVE  TypeInv'
  <1> USE DEF TypeInv
  <1>1. ASSUME NEW k \in KeyInputs, NEW p \in PasswordInputs, recover_password_refuses(k, p)
        PROVE  TypeInv'
    BY <1>1, AnswerStep DEF recover_password_refuses
  <1>2. ASSUME NEW k \in KeyInputs, NEW p \in PasswordInputs, recover_password_begins(k, p)
        PROVE  TypeInv'
    <2>1. /\ pc' = "recover" /\ args' = Args(Garbage, p, k)
          /\ k \in Keys /\ p \in Secrets
          /\ persisted.state = "enrolled"
          /\ UNCHANGED <<store, core, clocks, history, reply>>
      BY <1>2 DEF recover_password_begins, Compute, KeyInputs, PasswordInputs
    <2>2. TypeOK'
      BY <2>1, ArgsTypes DEF TypeOK, store, core, clocks, history, Places
    <2>3. PlaceKnows'
      <3>1. persisted # Invalid /\ persisted' = persisted
        BY <2>1, WrittenStates DEF core
      <3>2. args'.key = k /\ args'.password = p
        BY <2>1, ArgsTypes DEF KeyInputs, PasswordInputs
      <3> QED BY <2>1, <3>1, <3>2 DEF PlaceKnows
    <2> QED BY <2>2, <2>3
  <1>3. CASE recover_password_checks
    <2>1. /\ backoff' \in [Scopes -> [failures : Nat, last_failure : Nat]]
          /\ failed' \in [Scopes -> [count : Nat, at : Nat, wait : Nat]]
      BY <1>3, ScopeNames, BackoffTypes, FailedTypes DEF recover_password_checks
    <2>2. UNCHANGED <<store, persisted, pairing, expired_provisional, clocks,
                      drawn, promised, confirmed, wrong>>
      BY <1>3 DEF recover_password_checks
    <2>3. CASE pc' = "rehash"
      <3>1. /\ args' = args /\ reply' = reply
            /\ args.key = persisted.key
            /\ args.password \in Secrets \ Weak /\ args.password # args.key
            /\ persisted.state = "enrolled"
        BY <1>3, <2>3 DEF recover_password_checks, Compute, Reply, PlaceKnows
      <3>2. TypeOK'
        BY <2>1, <2>2, <2>3, <3>1 DEF TypeOK, store, clocks, history, Places
      <3>3. PlaceKnows'
        BY <2>2, <2>3, <3>1, FileFields, WrittenStates DEF PlaceKnows, TypeOK
      <3> QED BY <3>2, <3>3
    <2>4. CASE pc' # "rehash"
      <3>1. pc' = "idle" /\ args' = NoArgs /\ reply' \in Failures \cup {"none", "ok"}
        BY <1>3, <2>4 DEF recover_password_checks, Compute, Reply, Failures
      <3>2. TypeOK'
        BY <2>1, <2>2, <3>1, ArgsTypes DEF TypeOK, store, clocks, history, Places
      <3> QED BY <3>1, <3>2, IdleKnows
    <2> QED BY <2>3, <2>4
  <1>4. CASE recover_password_ends
    <2> DEFINE new == Enrolled(args.password, persisted.key)
    <2> PICK o \in Outcomes :
          /\ commit(new, o)
          /\ pairing' = PairingAfter(o, pairing, pairing)
          /\ Reply(IF o = "durable" THEN "ok" ELSE "Unavailable")
      BY <1>4 DEF recover_password_ends
    <2>1. new \in Persisted
      BY <1>4, WrittenStates, FileFields DEF recover_password_ends, PlaceKnows, TypeOK
    <2> HIDE DEF new
    <2>2. /\ disk' \in Persisted \cup {Invalid}
          /\ durable' \in Persisted \cup {Invalid}
          /\ temp' \in BOOLEAN
          /\ persisted' \in Persisted \cup {Invalid}
          /\ promised' \in Persisted \cup {Invalid}
      BY <2>1, CommitTypes
    <2>3. pairing' \in Pairings
      BY PairingTypes DEF TypeOK
    <2>4. pc' = "idle" /\ args' = NoArgs /\ reply' \in Failures \cup {"none", "ok"}
      BY DEF Reply, Failures
    <2>5. TypeOK'
      BY <1>4, <2>2, <2>3, <2>4, ArgsTypes
      DEF recover_password_ends, TypeOK, clocks, Places
    <2> QED BY <2>4, <2>5, IdleKnows
  <1> QED BY <1>1, <1>2, <1>3, <1>4 DEF Recover

\* The methods of sl-platformd (get_state, ensure, cancel, reset) keep layer 1.
LEMMA PlatformStep ==
    ASSUME TypeInv, PlatformMethods
    PROVE  TypeInv'
  <1> USE DEF TypeInv
  <1>1. CASE ensure_pending_pairing_keeps \/ ensure_pending_pairing_fails \/ get_state
    BY <1>1, AnswerStep
    DEF ensure_pending_pairing_keeps, ensure_pending_pairing_fails, get_state, Failures
  <1>2. ASSUME NEW c \in Codes, ensure_pending_pairing_creates(c)
        PROVE  TypeInv'
    <2>1. pc' = "idle" /\ args' = NoArgs /\ reply' \in Failures \cup {"none", "ok"}
      BY <1>2 DEF ensure_pending_pairing_creates, Reply
    <2>2. Pairing(c, boot + PAIRING_LIFETIME) \in Pairings
      BY ConstantsAssumption DEF Pairing, Pairings, TypeOK
    <2>3. TypeOK'
      BY <1>2, <2>1, <2>2, ArgsTypes
      DEF ensure_pending_pairing_creates, TypeOK, store, clocks, Places
    <2> QED BY <2>1, <2>3, IdleKnows
  <1>3. CASE cancel_pending_pairing
    <2>1. pc' = "idle" /\ args' = NoArgs /\ reply' \in Failures \cup {"none", "ok"}
      BY <1>3 DEF cancel_pending_pairing, Reply
    <2>2. TypeOK'
      BY <1>3, <2>1, ArgsTypes, PairingTypes
      DEF cancel_pending_pairing, TypeOK, store, clocks, history, Places
    <2> QED BY <2>1, <2>2, IdleKnows
  <1>4. CASE reset_enrollment
    <2> PICK o \in Outcomes :
          /\ commit(Unenrolled, o)
          /\ pairing' = PairingAfter(o, NoPairing, pairing)
          /\ expired_provisional' = (o # "durable" /\ expired_provisional)
          /\ backoff' = IF o = "durable" THEN [s \in Scopes |-> NoFailures] ELSE backoff
          /\ failed' = IF o = "durable" THEN [s \in Scopes |-> NeverFailed] ELSE failed
          /\ Reply(IF o = "durable" THEN "ok" ELSE "Unavailable")
      BY <1>4 DEF reset_enrollment
    <2>1. /\ disk' \in Persisted \cup {Invalid}
          /\ durable' \in Persisted \cup {Invalid}
          /\ temp' \in BOOLEAN
          /\ persisted' \in Persisted \cup {Invalid}
          /\ promised' \in Persisted \cup {Invalid}
      BY WrittenStates, CommitTypes
    <2>2. pairing' \in Pairings /\ expired_provisional' \in BOOLEAN
      BY PairingTypes DEF TypeOK
    <2>3. pc' = "idle" /\ args' = NoArgs /\ reply' \in Failures \cup {"none", "ok"}
      BY DEF Reply, Failures
    <2>4. /\ backoff' \in [Scopes -> [failures : Nat, last_failure : Nat]]
          /\ failed' \in [Scopes -> [count : Nat, at : Nat, wait : Nat]]
      BY DEF TypeOK, NoFailures, NeverFailed
    <2>5. TypeOK'
      BY <1>4, <2>1, <2>2, <2>3, <2>4, ArgsTypes
      DEF reset_enrollment, TypeOK, clocks, Places
    <2> QED BY <2>3, <2>5, IdleKnows
  <1> QED BY <1>1, <1>2, <1>3, <1>4 DEF PlatformMethods

\* The clocks, the start, a crash and a power loss keep layer 1.
LEMMA EnvironmentStep ==
    ASSUME TypeInv, Environment
    PROVE  TypeInv'
  <1> USE DEF TypeInv
  <1>b. /\ [s \in Scopes |-> NoFailures] \in [Scopes -> [failures : Nat, last_failure : Nat]]
        /\ [s \in Scopes |-> NeverFailed] \in [Scopes -> [count : Nat, at : Nat, wait : Nat]]
    BY DEF NoFailures, NeverFailed
  <1>1. CASE open
    <2>1. TypeOK'
      BY <1>1, <1>b, PairingTypes DEF open, TypeOK, clocks, history, Places
    <2>2. PlaceKnows'
      BY <1>1 DEF open, PlaceKnows
    <2> QED BY <2>1, <2>2
  <1>2. CASE Crash \/ PowerLoss
    <2>1. Stopped /\ disk' \in {disk, durable} /\ durable' \in {disk, durable}
          /\ temp' \in BOOLEAN /\ boot' \in Nat /\ wall' = wall
      <3>1. CASE Crash
        BY <3>1 DEF Crash, TypeOK, clocks
      <3>2. CASE PowerLoss
        <4>1. temp' \in BOOLEAN
          BY <3>2, Zenon DEF PowerLoss, TypeOK
        <4>2. disk' \in {disk, durable} /\ durable' \in {disk, durable} /\ boot' = 0
          BY <3>2 DEF PowerLoss
        <4> QED BY <3>2, <4>1, <4>2 DEF PowerLoss
      <3> QED BY <1>2, <3>1, <3>2
    <2>s. /\ NoPairing \in Pairings
          /\ NoArgs \in [uid : Uids \cup {Garbage}, password : PasswordInputs, key : KeyInputs]
      BY PairingTypes, ArgsTypes
    <2>2. TypeOK'
      BY <2>1, <2>s, <1>b DEF Stopped, TypeOK, history, Places
    <2>3. PlaceKnows'
      BY <2>1 DEF Stopped, PlaceKnows
    <2> QED BY <2>2, <2>3
  <1>3. CASE Tick \/ StepWall
    <2>1. /\ UNCHANGED <<store, core, control, history>>
          /\ boot' \in Nat /\ wall' \in Nat /\ pc # "finish"
      BY <1>3, ConstantsAssumption DEF Tick, StepWall, TimePasses, TypeOK
    <2>2. TypeOK'
      BY <2>1 DEF TypeOK, store, core, control, history
    <2>3. PlaceKnows'
      BY <2>1 DEF PlaceKnows, core, control
    <2> QED BY <2>2, <2>3
  <1>4. CASE Writeback
    BY <1>4 DEF Writeback, core, clocks, control, history, TypeOK, PlaceKnows,
                deadline_expired
  <1> QED BY <1>1, <1>2, <1>3, <1>4 DEF Environment

\* Layer 1 holds initially.
LEMMA TypeInvInit == Init => TypeInv
  <1> SUFFICES ASSUME Init PROVE TypeInv
    OBVIOUS
  <1>1. NoPairing \in Pairings
    BY DEF Pairings
  <1>2. /\ [s \in Scopes |-> NoFailures] \in [Scopes -> [failures : Nat, last_failure : Nat]]
        /\ [s \in Scopes |-> NeverFailed] \in [Scopes -> [count : Nat, at : Nat, wait : Nat]]
    BY DEF NoFailures, NeverFailed
  <1>3. TypeOK
    <2>1. Unenrolled \in Persisted
      BY WrittenStates
    <2>2. NoArgs \in [uid : Uids \cup {Garbage}, password : PasswordInputs, key : KeyInputs]
      BY ArgsTypes
    <2> QED BY <1>1, <1>2, <2>1, <2>2 DEF Init, TypeOK, Places
  <1>4. PlaceKnows
    BY DEF Init, PlaceKnows
  <1> QED BY <1>3, <1>4 DEF TypeInv

\* Every step keeps layer 1.
LEMMA TypeInvStep == TypeInv /\ [Next]_vars => TypeInv'
  <1> SUFFICES ASSUME TypeInv, [Next]_vars PROVE TypeInv'
    OBVIOUS
  <1>1. CASE hash_fails
    BY <1>1, AnswerStep DEF hash_fails, Failures
  <1>2. CASE UNCHANGED vars
    BY <1>2 DEF vars, store, core, clocks, control, history, TypeInv, TypeOK, PlaceKnows,
                deadline_expired
  <1> QED
    BY <1>1, <1>2, PrepareStep, VerifyStep, ConsumeStep, ConfirmStep, RecoverStep,
       PlatformStep, EnvironmentStep DEF Next

\* Layer 1 is an invariant of the machine.
LEMMA TypeInvariant == Spec => []TypeInv
  BY TypeInvInit, TypeInvStep, PTL DEF Spec

\* Type correctness of sl-authd's state machine, for every value of the constants.
THEOREM TypeCorrect == Spec => []TypeOK
  BY TypeInvariant, PTL DEF TypeInv

-----------------------------------------------------------------------------
(* Layer 2: memory, the visible file and the durable file *)

StoreInv ==
    /\ MemoryMatchesDisk
    /\ PromiseKept
    /\ OnlyConfirmedKeysEnroll
    /\ StoredPasswordsObeyRules

\* While the note that an enrollment expired is readable, nothing is enrolled.
ExpiryIsDurable ==
    expired_provisional /\ persisted = Unenrolled =>
        disk = Unenrolled /\ durable = Unenrolled

NoteInv == OneOfFourStates /\ ExpiryIsDurable /\ ExpiredMeansDiscarded

Agreement == StoreInv /\ NoteInv

\* A write keeps the file honest if the state written is.
LEMMA CommitAgrees ==
    ASSUME TypeInv, StoreInv,
           NEW state \in Persisted, NEW o \in Outcomes, commit(state, o),
           confirmed \subseteq confirmed',
           state # Invalid,
           state.state = "enrolled" => state.key \in confirmed',
           state.state \in {"unconfirmed", "enrolled"} =>
               state.password \notin Weak /\ state.password # state.key
    PROVE  StoreInv'
  <1>1. CASE o = "durable"
    BY <1>1, CommitTypes
    DEF TypeInv, StoreInv, MemoryMatchesDisk, PromiseKept, OnlyConfirmedKeysEnroll,
        StoredPasswordsObeyRules
  <1>2. CASE o = "not_renamed"
    BY <1>2, CommitTypes
    DEF TypeInv, StoreInv, MemoryMatchesDisk, PromiseKept, OnlyConfirmedKeysEnroll,
        StoredPasswordsObeyRules
  <1>3. CASE o = "not_synced"
    BY <1>3, CommitTypes
    DEF TypeInv, StoreInv, MemoryMatchesDisk, PromiseKept, OnlyConfirmedKeysEnroll,
        StoredPasswordsObeyRules
  <1> QED BY <1>1, <1>2, <1>3 DEF Outcomes

\* A step that leaves the store, memory and the history of it alone.
LEMMA StoreUntouched ==
    ASSUME StoreInv, UNCHANGED <<disk, durable, persisted, promised, confirmed>>
    PROVE  StoreInv'
  BY DEF StoreInv, MemoryMatchesDisk, PromiseKept, OnlyConfirmedKeysEnroll,
         StoredPasswordsObeyRules

\* A step that answers nothing about expiry and at most drops the pairing.
LEMMA NoteUntouched ==
    ASSUME NoteInv, UNCHANGED <<disk, durable, persisted, expired_provisional>>,
           pairing' \in {pairing, NoPairing},
           reply' = "ConfirmationExpired" => reply = "ConfirmationExpired"
    PROVE  NoteInv'
  BY DEF NoteInv, OneOfFourStates, ExpiryIsDurable, ExpiredMeansDiscarded

\* Answers other than ConfirmationExpired.
LEMMA AnswerAgrees ==
    ASSUME TypeInv, Agreement, NEW r, Answer(r),
           r = "ConfirmationExpired" => persisted = Unenrolled /\ expired_provisional
    PROVE  Agreement'
  <1>1. StoreInv'
    BY StoreUntouched DEF Agreement, Answer, store, core, history
  <1>2. NoteInv'
    BY DEF Agreement, NoteInv, Answer, Reply, store, core, OneOfFourStates,
           ExpiryIsDurable, ExpiredMeansDiscarded
  <1> QED BY <1>1, <1>2 DEF Agreement

\* prepare() keeps memory, file and history in agreement.
LEMMA PrepareAgrees ==
    ASSUME TypeInv, Agreement, prepare
    PROVE  Agreement'
  <1> USE DEF Agreement
  <1>f. PrepareFails => reply' \in {reply, "Unavailable"}
    BY DEF PrepareFails, Reply
  <1>p. PreparePasses => reply' \in {reply, "none"}
    BY DEF PreparePasses
  <1>1. CASE PrepareRefuses
    <2>1. UNCHANGED <<disk, durable, persisted, promised, confirmed,
                      expired_provisional, pairing>>
      BY <1>1 DEF PrepareRefuses, store, core, history
    <2> QED BY <1>1, <1>f, <2>1, StoreUntouched, NoteUntouched DEF PrepareRefuses
  <1>2. CASE PrepareKeeps
    <2>1. UNCHANGED <<disk, durable, persisted, promised, confirmed, expired_provisional>>
      BY <1>2 DEF PrepareKeeps, store, history
    <2>2. pairing' \in {pairing, NoPairing}
      BY <1>2, PairingTypes DEF PrepareKeeps, TypeInv
    <2> QED BY <1>2, <1>p, <2>1, <2>2, StoreUntouched, NoteUntouched DEF PrepareKeeps
  <1>3. CASE PrepareDiscards
    <2> PICK o \in Outcomes :
          /\ commit(Unenrolled, o)
          /\ pairing' = PairingAfter(o, UnexpiredPairing, UnexpiredPairing)
          /\ expired_provisional' = (o = "durable" \/ expired_provisional)
          /\ IF o = "durable" THEN PreparePasses ELSE PrepareFails
      BY <1>3 DEF PrepareDiscards
    <2>1. confirmed' = confirmed /\ persisted.state = "unconfirmed"
      BY <1>3 DEF PrepareDiscards, ProvisionalExpired
    <2>2. StoreInv'
      BY <2>1, CommitAgrees, WrittenStates
    <2>3. pairing = NoPairing /\ ~expired_provisional
      BY <2>1, WrittenStates DEF NoteInv, OneOfFourStates
    <2>4. pairing' = NoPairing
      BY <2>3, PairingTypes DEF PairingAfter, Outcomes, TypeInv
    <2>5. reply' \in {reply, "none", "Unavailable"}
      BY <1>f, <1>p
    <2>6. CASE o = "durable"
      <3>1. persisted' = Unenrolled /\ disk' = Unenrolled /\ durable' = Unenrolled
        BY <2>6, CommitTypes, WrittenStates DEF TypeInv
      <3> QED BY <2>2, <2>4, <3>1
          DEF NoteInv, OneOfFourStates, ExpiryIsDurable, ExpiredMeansDiscarded
    <2>7. CASE o # "durable"
      <3>1. reply # "ConfirmationExpired" \/ persisted.state # "unconfirmed"
              \/ persisted = Invalid
        BY <2>1, WrittenStates DEF NoteInv, ExpiredMeansDiscarded, StoreInv, MemoryMatchesDisk
      <3>2. reply' # "ConfirmationExpired" /\ ~expired_provisional'
        BY <2>1, <2>3, <2>5, <2>7, <3>1, WrittenStates
      <3> QED BY <2>2, <2>4, <3>2
          DEF NoteInv, OneOfFourStates, ExpiryIsDurable, ExpiredMeansDiscarded
    <2> QED BY <2>2, <2>6, <2>7
  <1> QED BY <1>1, <1>2, <1>3 DEF prepare

\* A method that ends by answering anything but ConfirmationExpired.
LEMMA ReplyAgrees ==
    ASSUME NEW r, Reply(r), r # "ConfirmationExpired", StoreInv', OneOfFourStates',
           ExpiryIsDurable'
    PROVE  Agreement'
  BY DEF Reply, Agreement, NoteInv, ExpiredMeansDiscarded

\* The methods that hash keep memory, file and history in agreement.
LEMMA MethodsAgree ==
    ASSUME TypeInv, Agreement, Verify \/ Consume \/ Confirm \/ Recover \/ hash_fails
    PROVE  Agreement'
  <1> USE DEF Agreement
  <1>u. persisted.state = "unenrolled" => persisted = Unenrolled
    BY FileFields DEF TypeInv, TypeOK
  <1>h. CASE hash_fails
    BY <1>h, AnswerAgrees DEF hash_fails
  <1>1. ASSUME NEW uid \in Uids, NEW p \in PasswordInputs,
               verify_password_refuses(uid, p) \/ verify_password_begins(uid, p)
        PROVE  Agreement'
    <2>1. CASE verify_password_refuses(uid, p)
      BY <2>1, AnswerAgrees DEF verify_password_refuses, NotEnrolledError, check_backoff
    <2>2. CASE verify_password_begins(uid, p)
      BY <2>2, StoreUntouched, NoteUntouched
      DEF verify_password_begins, Compute, store, core, history
    <2> QED BY <1>1, <2>1, <2>2
  <1>2. CASE verify_password_ends
    BY <1>2, StoreUntouched, NoteUntouched
    DEF verify_password_ends, record_failure, Reply, store, history
  <1>3. ASSUME NEW c \in CodeInputs, NEW p \in PasswordInputs,
               \/ consume_pairing_refuses(c, p)
               \/ consume_pairing_wrong_code(c, p)
               \/ \E k \in Keys : consume_pairing_draws(c, p, k)
        PROVE  Agreement'
    <2>1. CASE consume_pairing_refuses(c, p)
      BY <2>1, AnswerAgrees DEF consume_pairing_refuses
    <2>2. CASE consume_pairing_wrong_code(c, p)
      <3>1. /\ UNCHANGED <<disk, durable, persisted, promised, confirmed, expired_provisional>>
            /\ reply' # "ConfirmationExpired"
            /\ persisted = Unenrolled /\ pairing # NoPairing
        BY <2>2, <1>u DEF consume_pairing_wrong_code, Reply, store
      <3> QED BY <3>1, StoreUntouched
          DEF NoteInv, OneOfFourStates, ExpiryIsDurable, ExpiredMeansDiscarded
    <2>3. CASE \E k \in Keys : consume_pairing_draws(c, p, k)
      BY <2>3, StoreUntouched, NoteUntouched
      DEF consume_pairing_draws, Compute, Reply, store, core
    <2> QED BY <1>3, <2>1, <2>2, <2>3
  <1>4. CASE consume_pairing_ends
    <2> DEFINE new == EnrolledUnconfirmed(args.password, args.key, wall + CONFIRMATION_WINDOW)
    <2> PICK o \in Outcomes :
          /\ commit(new, o)
          /\ pairing' = PairingAfter(o, NoPairing, pairing)
          /\ expired_provisional' = (o # "durable" /\ expired_provisional)
          /\ Reply(IF o = "durable" THEN "ok" ELSE "Unavailable")
      BY <1>4 DEF consume_pairing_ends
    <2>1. /\ new \in Persisted /\ new # Invalid /\ new.state = "unconfirmed"
          /\ new.password \notin Weak /\ new.password # new.key
      BY <1>4, WrittenStates, ConstantsAssumption
      DEF consume_pairing_ends, PlaceKnows, TypeInv, TypeOK
    <2>2. confirmed' = confirmed /\ persisted = Unenrolled
      BY <1>4 DEF consume_pairing_ends, TypeInv, PlaceKnows
    <2> HIDE DEF new
    <2>3. StoreInv'
      BY <2>1, <2>2, CommitAgrees
    <2>4. OneOfFourStates' /\ ExpiryIsDurable'
      <3>1. CASE o = "durable"
        BY <2>1, <3>1, CommitTypes DEF TypeInv, OneOfFourStates, ExpiryIsDurable, PairingAfter
      <3>2. CASE o = "not_renamed"
        BY <2>1, <2>2, <3>2, CommitTypes
        DEF TypeInv, NoteInv, OneOfFourStates, ExpiryIsDurable, PairingAfter
      <3>3. CASE o = "not_synced"
        BY <2>1, <3>3, CommitTypes, WrittenStates
        DEF TypeInv, OneOfFourStates, ExpiryIsDurable, PairingAfter
      <3> QED BY <3>1, <3>2, <3>3 DEF Outcomes
    <2> QED BY <2>3, <2>4, ReplyAgrees
  <1>5. ASSUME NEW k \in KeyInputs,
               confirm_recovery_key_refuses(k) \/ confirm_recovery_key_begins(k)
        PROVE  Agreement'
    <2>1. CASE confirm_recovery_key_refuses(k)
      <3>1. expired_provisional /\ pc = "prepared" => persisted = Unenrolled
        BY DEF TypeInv, PlaceKnows, NoteInv, OneOfFourStates
      <3> QED BY <2>1, <3>1, AnswerAgrees DEF confirm_recovery_key_refuses, check_backoff
    <2>2. CASE confirm_recovery_key_begins(k)
      BY <2>2, StoreUntouched, NoteUntouched
      DEF confirm_recovery_key_begins, Compute, store, core, history
    <2> QED BY <1>5, <2>1, <2>2
  <1>6. CASE confirm_recovery_key_expired
    <2>1. persisted = Unenrolled
      BY <1>6 DEF confirm_recovery_key_expired, TypeInv, PlaceKnows
    <2> QED BY <1>6, <2>1, AnswerAgrees DEF confirm_recovery_key_expired
  <1>7. CASE confirm_recovery_key_mismatch
    BY <1>7, StoreUntouched, NoteUntouched
    DEF confirm_recovery_key_mismatch, record_failure, Reply, store, history
  <1>8. CASE confirm_recovery_key_ends
    <2> DEFINE new == Enrolled(persisted.password, persisted.key)
    <2> PICK o \in Outcomes :
          /\ commit(new, o)
          /\ pairing' = PairingAfter(o, pairing, pairing)
          /\ IF o = "durable"
             THEN /\ record_success("confirmation") /\ Forgives("confirmation")
                  /\ Reply("ok")
             ELSE UNCHANGED <<backoff, failed>> /\ Reply("Unavailable")
      BY <1>8 DEF confirm_recovery_key_ends
    <2>1. /\ persisted.state = "unconfirmed" /\ persisted # Invalid /\ persisted # Unenrolled
          /\ args.key = persisted.key
          /\ confirmed' = confirmed \cup {args.key}
          /\ expired_provisional' = expired_provisional
      BY <1>8, WrittenStates DEF confirm_recovery_key_ends, TypeInv, PlaceKnows
    <2>2. /\ new \in Persisted /\ new # Invalid /\ new.state = "enrolled"
          /\ new.password = persisted.password /\ new.key = persisted.key
      BY <2>1, WrittenStates, FileFields DEF TypeInv, TypeOK
    <2> HIDE DEF new
    <2>3. new.password \notin Weak /\ new.password # new.key
      BY <2>1, <2>2 DEF StoreInv, MemoryMatchesDisk, StoredPasswordsObeyRules
    <2>4. StoreInv'
      BY <2>1, <2>2, <2>3, CommitAgrees
    <2>5. pairing' = NoPairing /\ ~expired_provisional'
      BY <2>1 DEF NoteInv, OneOfFourStates, PairingAfter, Outcomes
    <2> QED BY <2>4, <2>5, ReplyAgrees DEF OneOfFourStates, ExpiryIsDurable
  <1>9. ASSUME NEW k \in KeyInputs, NEW p \in PasswordInputs,
               recover_password_refuses(k, p) \/ recover_password_begins(k, p)
        PROVE  Agreement'
    <2>1. CASE recover_password_refuses(k, p)
      BY <2>1, AnswerAgrees DEF recover_password_refuses, NotEnrolledError, check_backoff
    <2>2. CASE recover_password_begins(k, p)
      BY <2>2, StoreUntouched, NoteUntouched
      DEF recover_password_begins, Compute, store, core, history
    <2> QED BY <1>9, <2>1, <2>2
  <1>10. CASE recover_password_checks
    BY <1>10, StoreUntouched, NoteUntouched
    DEF recover_password_checks, record_failure, Reply, Compute, store, history
  <1>11. CASE recover_password_ends
    <2> DEFINE new == Enrolled(args.password, persisted.key)
    <2> PICK o \in Outcomes :
          /\ commit(new, o)
          /\ pairing' = PairingAfter(o, pairing, pairing)
          /\ Reply(IF o = "durable" THEN "ok" ELSE "Unavailable")
      BY <1>11 DEF recover_password_ends
    <2>1. /\ persisted.state = "enrolled" /\ persisted # Invalid /\ persisted # Unenrolled
          /\ args.key = persisted.key
          /\ args.password \in Secrets \ Weak /\ args.password # args.key
          /\ confirmed' = confirmed
          /\ expired_provisional' = expired_provisional
      BY <1>11, WrittenStates DEF recover_password_ends, TypeInv, PlaceKnows
    <2>2. /\ new \in Persisted /\ new # Invalid /\ new.state = "enrolled"
          /\ new.password = args.password /\ new.key = persisted.key
      BY <2>1, WrittenStates, FileFields DEF TypeInv, TypeOK
    <2> HIDE DEF new
    <2>3. new.key \in confirmed
      BY <2>1, <2>2 DEF StoreInv, MemoryMatchesDisk, OnlyConfirmedKeysEnroll
    <2>4. StoreInv'
      BY <2>1, <2>2, <2>3, CommitAgrees
    <2>5. pairing' = NoPairing /\ ~expired_provisional'
      BY <2>1 DEF NoteInv, OneOfFourStates, PairingAfter, Outcomes
    <2> QED BY <2>4, <2>5, ReplyAgrees DEF OneOfFourStates, ExpiryIsDurable
  <1> QED
    BY <1>h, <1>1, <1>2, <1>3, <1>4, <1>5, <1>6, <1>7, <1>8, <1>9, <1>10, <1>11
    DEF Verify, Consume, Confirm, Recover

\* The methods of sl-platformd keep memory, file and history in agreement.
LEMMA PlatformAgrees ==
    ASSUME TypeInv, Agreement, PlatformMethods
    PROVE  Agreement'
  <1> USE DEF Agreement
  <1>1. CASE ensure_pending_pairing_keeps \/ ensure_pending_pairing_fails \/ get_state
    BY <1>1, AnswerAgrees
    DEF ensure_pending_pairing_keeps, ensure_pending_pairing_fails, get_state
  <1>2. ASSUME NEW c \in Codes, ensure_pending_pairing_creates(c)
        PROVE  Agreement'
    <2>1. StoreInv'
      BY <1>2, StoreUntouched DEF ensure_pending_pairing_creates, store
    <2>2. OneOfFourStates' /\ ExpiryIsDurable' /\ Reply("ok")
      BY <1>2 DEF ensure_pending_pairing_creates, OneOfFourStates, ExpiryIsDurable, store
    <2> QED BY <2>1, <2>2, ReplyAgrees
  <1>3. CASE cancel_pending_pairing
    BY <1>3, StoreUntouched, NoteUntouched
    DEF cancel_pending_pairing, Reply, store, history
  <1>4. CASE reset_enrollment
    <2> PICK o \in Outcomes :
          /\ commit(Unenrolled, o)
          /\ pairing' = PairingAfter(o, NoPairing, pairing)
          /\ expired_provisional' = (o # "durable" /\ expired_provisional)
          /\ Reply(IF o = "durable" THEN "ok" ELSE "Unavailable")
      BY <1>4 DEF reset_enrollment
    <2>1. confirmed' = confirmed
      BY <1>4 DEF reset_enrollment
    <2>2. StoreInv'
      BY <2>1, CommitAgrees, WrittenStates
    <2>3. OneOfFourStates' /\ ExpiryIsDurable'
      <3>1. CASE o = "durable"
        BY <3>1, CommitTypes, WrittenStates
        DEF TypeInv, OneOfFourStates, ExpiryIsDurable, PairingAfter
      <3>2. CASE o = "not_renamed"
        BY <3>2, CommitTypes, WrittenStates
        DEF TypeInv, NoteInv, OneOfFourStates, ExpiryIsDurable, PairingAfter
      <3>3. CASE o = "not_synced"
        BY <3>3, CommitTypes, WrittenStates
        DEF TypeInv, OneOfFourStates, ExpiryIsDurable, PairingAfter
      <3> QED BY <3>1, <3>2, <3>3 DEF Outcomes
    <2> QED BY <2>2, <2>3, ReplyAgrees
  <1> QED BY <1>1, <1>2, <1>3, <1>4 DEF PlatformMethods

\* Starting, crashing and losing power keep file and history in agreement.
LEMMA EnvironmentAgrees ==
    ASSUME TypeInv, Agreement, Environment
    PROVE  Agreement'
  <1> USE DEF Agreement
  <1>1. CASE open
    <2>1. /\ UNCHANGED <<disk, durable, promised, confirmed, reply>>
          /\ persisted' \in {disk, Invalid}
          /\ pairing' = NoPairing /\ expired_provisional' = FALSE
      BY <1>1 DEF open, history
    <2>2. StoreInv'
      BY <2>1 DEF StoreInv, MemoryMatchesDisk, PromiseKept, OnlyConfirmedKeysEnroll,
                  StoredPasswordsObeyRules
    <2>3. NoteInv'
      BY <2>1 DEF NoteInv, OneOfFourStates, ExpiryIsDurable, ExpiredMeansDiscarded
    <2> QED BY <2>2, <2>3
  <1>2. CASE Crash \/ PowerLoss
    <2>1. /\ disk' \in {disk, durable} /\ durable' \in {disk', durable}
          /\ UNCHANGED <<promised, confirmed>>
          /\ persisted' = Invalid /\ pairing' = NoPairing
          /\ expired_provisional' = FALSE /\ reply' = "none"
      BY <1>2 DEF Crash, PowerLoss, Stopped, history
    <2>2. StoreInv'
      BY <2>1 DEF StoreInv, MemoryMatchesDisk, PromiseKept, OnlyConfirmedKeysEnroll,
                  StoredPasswordsObeyRules
    <2>3. NoteInv'
      BY <2>1 DEF NoteInv, OneOfFourStates, ExpiryIsDurable, ExpiredMeansDiscarded
    <2> QED BY <2>2, <2>3
  <1>3. CASE Tick \/ StepWall
    BY <1>3, StoreUntouched, NoteUntouched
    DEF Tick, StepWall, store, core, control, history
  <1>4. CASE Writeback
    <2>1. /\ durable' = disk
          /\ UNCHANGED <<disk, persisted, pairing, expired_provisional, reply,
                         promised, confirmed>>
      BY <1>4 DEF Writeback, core, control, history
    <2>2. StoreInv'
      BY <2>1 DEF StoreInv, MemoryMatchesDisk, PromiseKept, OnlyConfirmedKeysEnroll,
                  StoredPasswordsObeyRules
    <2>3. NoteInv'
      BY <2>1 DEF NoteInv, OneOfFourStates, ExpiryIsDurable, ExpiredMeansDiscarded
    <2> QED BY <2>2, <2>3
  <1> QED BY <1>1, <1>2, <1>3, <1>4 DEF Environment

\* Layer 2 holds initially.
LEMMA AgreementInit == Init => Agreement
  BY WrittenStates
  DEF Init, Agreement, StoreInv, MemoryMatchesDisk, PromiseKept, OnlyConfirmedKeysEnroll,
      StoredPasswordsObeyRules, NoteInv, OneOfFourStates, ExpiryIsDurable,
      ExpiredMeansDiscarded

\* Every step keeps layer 2, given layer 1.
LEMMA AgreementStep == TypeInv /\ Agreement /\ [Next]_vars => Agreement'
  <1> SUFFICES ASSUME TypeInv, Agreement, [Next]_vars PROVE Agreement'
    OBVIOUS
  <1>1. CASE UNCHANGED vars
    BY <1>1, StoreUntouched, NoteUntouched
    DEF vars, store, core, clocks, control, history, Agreement
  <1> QED
    BY <1>1, PrepareAgrees, MethodsAgree, PlatformAgrees, EnvironmentAgrees DEF Next

\* Layer 2 is an invariant of the machine.
LEMMA AgreementInvariant == Spec => []Agreement
  BY AgreementInit, AgreementStep, TypeInvariant, PTL DEF Spec

\* sl-authd is always in exactly one of its four states.
THEOREM FourStates == Spec => []OneOfFourStates
  BY AgreementInvariant, PTL DEF Agreement, NoteInv

\* What Core answers from is what state.json holds.
THEOREM MemoryIsDisk == Spec => []MemoryMatchesDisk
  BY AgreementInvariant, PTL DEF Agreement, StoreInv

\* A committed state survives crashes, power losses and failed writes.
THEOREM CommitsAreDurable == Spec => []PromiseKept
  BY AgreementInvariant, PTL DEF Agreement, StoreInv

\* Only a recovery key presented inside its window finally enrolls an account.
THEOREM NoLateEnrollment == Spec => []OnlyConfirmedKeysEnroll
  BY AgreementInvariant, PTL DEF Agreement, StoreInv

\* Every stored password obeys the password rules.
THEOREM PasswordRules == Spec => []StoredPasswordsObeyRules
  BY AgreementInvariant, PTL DEF Agreement, StoreInv

\* ConfirmationExpired is answered only after a durable discard.
THEOREM ExpiryIsReal == Spec => []ExpiredMeansDiscarded
  BY AgreementInvariant, PTL DEF Agreement, NoteInv

-----------------------------------------------------------------------------
(* Layer 3: the budget of a pairing code *)

\* The count of the pending pairing is what its code has seen, and a code that
\* has not been drawn yet has seen nothing.
CodeInv ==
    /\ pairing # NoPairing =>
         /\ pairing.code \in drawn
         /\ pairing.wrong_attempts = wrong[pairing.code]
         /\ wrong[pairing.code] < PAIRING_ATTEMPTS
    /\ \A c \in Codes : wrong[c] <= PAIRING_ATTEMPTS
    /\ \A c \in Codes : c \notin drawn => wrong[c] = 0

\* But for a wrong guess and a new code a step at most drops the pairing.
LEMMA PairingSteps ==
    ASSUME TypeInv, [Next]_vars
    PROVE  \/ pairing' \in {pairing, NoPairing} /\ wrong' = wrong /\ drawn \subseteq drawn'
           \/ \E c \in CodeInputs, p \in PasswordInputs : consume_pairing_wrong_code(c, p)
           \/ \E c \in Codes : ensure_pending_pairing_creates(c)
  <1> DEFINE Drops == pairing' \in {pairing, NoPairing} /\ wrong' = wrong /\ drawn \subseteq drawn'
  <1>1. CASE prepare
    <2>1. UnexpiredPairing \in {pairing, NoPairing}
      BY PairingTypes DEF TypeInv
    <2>2. CASE PrepareDiscards
      BY <2>1, <2>2 DEF PrepareDiscards, PairingAfter, Outcomes
    <2>3. CASE PrepareRefuses \/ PrepareKeeps
      BY <2>1, <2>3 DEF PrepareRefuses, PrepareKeeps, core, history
    <2> QED BY <1>1, <2>2, <2>3 DEF prepare
  <1>2. CASE hash_fails \/ Verify
    BY <1>2 DEF hash_fails, Verify, verify_password_refuses, verify_password_begins,
                verify_password_ends, Answer, core, history
  <1>3. CASE Consume
    <2>1. CASE consume_pairing_ends
      BY <2>1 DEF consume_pairing_ends, PairingAfter, Outcomes
    <2>2. ASSUME NEW c \in CodeInputs, NEW p \in PasswordInputs, consume_pairing_refuses(c, p)
          PROVE  Drops
      BY <2>2 DEF consume_pairing_refuses, Answer, core, history
    <2>3. ASSUME NEW c \in CodeInputs, NEW p \in PasswordInputs, NEW k \in Keys,
                 consume_pairing_draws(c, p, k)
          PROVE  Drops
      BY <2>3 DEF consume_pairing_draws, core
    <2> QED BY <1>3, <2>1, <2>2, <2>3 DEF Consume
  <1>4. CASE Confirm
    BY <1>4 DEF Confirm, confirm_recovery_key_refuses, confirm_recovery_key_begins,
                confirm_recovery_key_expired, confirm_recovery_key_mismatch,
                confirm_recovery_key_ends, PairingAfter, Outcomes, Answer, core, history
  <1>5. CASE Recover
    BY <1>5 DEF Recover, recover_password_refuses, recover_password_begins,
                recover_password_checks, recover_password_ends, PairingAfter, Outcomes,
                Answer, core, history
  <1>6. CASE PlatformMethods
    BY <1>6 DEF PlatformMethods, ensure_pending_pairing_keeps, ensure_pending_pairing_fails,
                cancel_pending_pairing, reset_enrollment, get_state, PairingAfter, Outcomes,
                Answer, core, history
  <1>7. CASE Environment
    BY <1>7 DEF Environment, open, Crash, PowerLoss, Writeback, Tick, StepWall, Stopped,
                core, history
  <1>8. CASE UNCHANGED vars
    BY <1>8 DEF vars, core, history
  <1> QED BY <1>1, <1>2, <1>3, <1>4, <1>5, <1>6, <1>7, <1>8 DEF Next

\* Every step keeps the budget.
LEMMA CodeInvStep == TypeInv /\ CodeInv /\ [Next]_vars => CodeInv'
  <1> SUFFICES ASSUME TypeInv, CodeInv, [Next]_vars PROVE CodeInv'
    OBVIOUS
  <1>1. CASE pairing' \in {pairing, NoPairing} /\ wrong' = wrong /\ drawn \subseteq drawn'
    BY <1>1 DEF CodeInv
  <1>2. ASSUME NEW c \in CodeInputs, NEW p \in PasswordInputs, consume_pairing_wrong_code(c, p)
        PROVE  CodeInv'
    <2>1. /\ pairing # NoPairing /\ drawn' = drawn
          /\ wrong' = [wrong EXCEPT ![pairing.code] = @ + 1]
          /\ IF pairing.wrong_attempts + 1 >= PAIRING_ATTEMPTS THEN pairing' = NoPairing
             ELSE pairing' = [pairing EXCEPT !.wrong_attempts = @ + 1]
      BY <1>2 DEF consume_pairing_wrong_code
    <2>2. /\ pairing.code \in Codes /\ pairing.wrong_attempts \in Nat
          /\ wrong \in [Codes -> Nat] /\ PAIRING_ATTEMPTS \in Nat
      BY <2>1, PairingTypes, ConstantsAssumption DEF TypeInv, TypeOK
    <2>3. /\ wrong'[pairing.code] = pairing.wrong_attempts + 1
          /\ wrong'[pairing.code] <= PAIRING_ATTEMPTS
          /\ \A d \in Codes \ {pairing.code} : wrong'[d] = wrong[d]
      BY <2>1, <2>2 DEF CodeInv
    <2>4. pairing' # NoPairing =>
              /\ pairing'.code = pairing.code
              /\ pairing'.wrong_attempts = pairing.wrong_attempts + 1
              /\ pairing.wrong_attempts + 1 < PAIRING_ATTEMPTS
      <3>1. /\ [pairing EXCEPT !.wrong_attempts = @ + 1].code = pairing.code
            /\ [pairing EXCEPT !.wrong_attempts = @ + 1].wrong_attempts
                 = pairing.wrong_attempts + 1
        BY <2>1 DEF TypeInv, TypeOK, Pairings
      <3>2. CASE pairing.wrong_attempts + 1 >= PAIRING_ATTEMPTS
        BY <2>1, <3>2
      <3>3. CASE ~(pairing.wrong_attempts + 1 >= PAIRING_ATTEMPTS)
        <4>1. pairing' = [pairing EXCEPT !.wrong_attempts = @ + 1]
          BY <2>1, <3>3
        <4>2. pairing.wrong_attempts + 1 < PAIRING_ATTEMPTS
          BY <2>2, <3>3
        <4> QED BY <3>1, <4>1, <4>2
      <3> QED BY <3>2, <3>3
    <2> QED BY <2>1, <2>2, <2>3, <2>4 DEF CodeInv
  <1>3. ASSUME NEW c \in Codes, ensure_pending_pairing_creates(c) PROVE CodeInv'
    <2>1. /\ c \notin drawn /\ drawn' = drawn \cup {c} /\ wrong' = wrong
          /\ pairing'.code = c /\ pairing'.wrong_attempts = 0
      BY <1>3 DEF ensure_pending_pairing_creates, Pairing
    <2> QED BY <2>1, ConstantsAssumption DEF CodeInv
  <1> QED BY <1>1, <1>2, <1>3, PairingSteps

\* A pairing code takes at most PAIRING_ATTEMPTS wrong guesses, for any number
\* of codes and attempts (machine.rs: consume_pairing).
THEOREM GuessesAreBounded == Spec => []GuessBudget
  <1>1. Init => CodeInv
    BY ConstantsAssumption DEF Init, CodeInv
  <1>2. CodeInv => GuessBudget
    BY DEF CodeInv, GuessBudget
  <1> QED BY <1>1, <1>2, CodeInvStep, TypeInvariant, PTL DEF Spec

-----------------------------------------------------------------------------
(* Layer 4: the counters of failed attempts *)

\* The counter of scope s is what its failures come to.
Mirrors(s) ==
    /\ backoff[s].failures <= U32_MAX
    /\ backoff[s].failures = 0 => backoff[s].last_failure = 0
    /\ failed[s].at = backoff[s].last_failure
    /\ failed[s].wait = backoff_delay(backoff[s].failures)
    /\ failed[s].count = IF backoff[s].failures < BACKOFF_THRESHOLD
                         THEN backoff[s].failures ELSE BACKOFF_THRESHOLD

\* Whoever looks at the secret of scope s has waited as long as it demands.
Waited(s) == boot >= failed[s].at + failed[s].wait

\* A method checks the backoff before its hash and counts after it: what the
\* check found still holds then, for nobody else counts and the clock only
\* goes on.
BackoffInv ==
    /\ \A s \in Scopes : Mirrors(s)
    /\ pc = "down" => \A s \in Scopes : backoff[s].failures = 0
    /\ pc = "verify" => Waited(args.uid)
    /\ pc \in {"confirm", "finish"} => Waited("confirmation")
    /\ pc = "recover" => Waited("recovery")

\* The delay is a number of seconds.
LEMMA DelayTypes == ASSUME NEW n \in Nat PROVE backoff_delay(n) \in Nat
  <1>1. \A e \in Nat : e < 10 => Shifted[e + 1] \in Nat
    BY DEF Shifted
  <1> QED BY <1>1, ConstantsAssumption DEF backoff_delay

\* One more failure doubles the delay, up to its cap, from the threshold on.
LEMMA DelayDoubles ==
    ASSUME NEW n \in Nat, n <= U32_MAX, NEW m, m = IF n < U32_MAX THEN n + 1 ELSE U32_MAX,
           NEW d, d = IF backoff_delay(n) = 0 THEN 1 ELSE 2 * backoff_delay(n)
    PROVE  /\ m \in Nat /\ m <= U32_MAX /\ m > 0
           /\ m >= BACKOFF_THRESHOLD <=> n + 1 >= BACKOFF_THRESHOLD
           /\ backoff_delay(m) = IF m < BACKOFF_THRESHOLD THEN 0
                                 ELSE IF d > BACKOFF_CAP THEN BACKOFF_CAP ELSE d
  <1> DEFINE T == BACKOFF_THRESHOLD
             Cap == BACKOFF_CAP
  <1>c. /\ T \in Nat \ {0} /\ Cap \in Nat \ {0} /\ U32_MAX \in Nat \ {0} /\ Cap <= 1024
        /\ backoff_delay(U32_MAX) = Cap
    BY ConstantsAssumption, BackoffAssumption
  <1>1. U32_MAX >= T
    BY <1>c DEF backoff_delay
  <1>2. /\ m \in Nat /\ m <= U32_MAX /\ m > 0
        /\ m >= T <=> n + 1 >= T
    BY <1>c, <1>1
  <1>3. backoff_delay(m) = IF m < T THEN 0 ELSE IF d > Cap THEN Cap ELSE d
    <2>1. CASE n = U32_MAX
      BY <1>c, <1>1, <2>1
    <2>2. CASE n < U32_MAX /\ n < T
      <3>1. m = n + 1 /\ backoff_delay(n) = 0 /\ d = 1
        BY <1>c, <2>2 DEF backoff_delay
      <3> QED BY <1>c, <2>2, <3>1 DEF backoff_delay, Shifted
    <2>3. CASE n < U32_MAX /\ n >= T
      <3>1. m = n + 1 /\ m - T = (n - T) + 1 /\ ~(m < T) /\ ~(n < T) /\ n - T \in Nat
        BY <1>c, <2>3
      <3>2. CASE n - T >= 10
        BY <1>c, <3>1, <3>2 DEF backoff_delay
      <3>3. CASE n - T = 9
        BY <1>c, <3>1, <3>3 DEF backoff_delay, Shifted
      <3>4. CASE n - T < 9
        <4>1. n - T \in 0 .. 8
          BY <3>1, <3>4
        <4>2. /\ Shifted[n - T + 1] \in Nat \ {0}
              /\ Shifted[n - T + 2] = 2 * Shifted[n - T + 1]
          BY <4>1 DEF Shifted
        <4>3. /\ backoff_delay(n) = IF Shifted[n - T + 1] > Cap THEN Cap ELSE Shifted[n - T + 1]
              /\ backoff_delay(m) = IF Shifted[n - T + 2] > Cap THEN Cap ELSE Shifted[n - T + 2]
          BY <1>c, <3>1, <4>1 DEF backoff_delay
        <4> QED BY <1>c, <3>1, <4>2, <4>3
      <3> QED BY <3>1, <3>2, <3>3, <3>4
    <2> QED BY <1>c, <2>1, <2>2, <2>3
  <1> QED BY <1>2, <1>3

LEMMA CounterTypes ==
    ASSUME TypeInv, NEW s \in Scopes
    PROVE  /\ backoff[s].failures \in Nat /\ backoff[s].last_failure \in Nat
           /\ failed[s].at \in Nat /\ failed[s].wait \in Nat /\ failed[s].count \in Nat
           /\ boot \in Nat /\ backoff_delay(backoff[s].failures) \in Nat
  <1>1. /\ backoff[s].failures \in Nat /\ backoff[s].last_failure \in Nat /\ boot \in Nat
        /\ failed[s].at \in Nat /\ failed[s].wait \in Nat /\ failed[s].count \in Nat
    BY DEF TypeInv, TypeOK
  <1> QED BY <1>1, DelayTypes

\* Past check_backoff the scope has waited.
LEMMA CheckedHasWaited ==
    ASSUME TypeInv, NEW s \in Scopes, Mirrors(s), check_backoff(s, "ok")
    PROVE  Waited(s)
  <1>1. backoff_delay(0) = 0
    BY ConstantsAssumption DEF backoff_delay
  <1>2. CASE backoff[s].failures = 0
    BY <1>1, <1>2, CounterTypes DEF Mirrors, Waited
  <1>3. CASE backoff[s].failures > 0
    BY <1>3, CounterTypes DEF check_backoff, Mirrors, Waited
  <1> QED BY <1>2, <1>3, CounterTypes

\* A scope's secret was right, or wrong once more.
Succeeds(s) == record_success(s) /\ Forgives(s)

FailsAgain(s) == \E r \in Failures : record_failure(s, r) /\ Fails(s, r)

\* All that happens to the counters.
CounterStep ==
    \/ UNCHANGED <<backoff, failed>> /\ boot' >= boot
    \/ /\ backoff' = [s \in Scopes |-> NoFailures]
       /\ failed' = [s \in Scopes |-> NeverFailed]
       /\ \/ pc' = "down"
          \/ pc = "down"
          \/ pc = "idle" /\ pc' = "idle" /\ promised' = Unenrolled
    \/ /\ pc = "verify" /\ pc' = "idle" /\ boot' = boot
       /\ \/ Succeeds(args.uid) /\ args.password = persisted.password
          \/ FailsAgain(args.uid)
    \/ /\ pc = "finish" /\ pc' = "idle" /\ boot' = boot
       /\ \/ Succeeds("confirmation") /\ disk'.state = "enrolled"
          \/ FailsAgain("confirmation")
    \/ /\ pc = "recover" /\ pc' \in {"idle", "rehash"} /\ boot' = boot
       /\ \/ Succeeds("recovery") /\ args.key = persisted.key
          \/ FailsAgain("recovery")

LEMMA CounterSteps == ASSUME TypeInv, [Next]_vars PROVE CounterStep
  <1> DEFINE Same == UNCHANGED <<backoff, failed>> /\ boot' = boot
  <1>b. boot \in Nat
    BY DEF TypeInv, TypeOK
  <1>s. Same => CounterStep
    BY <1>b DEF CounterStep
  <1>1. CASE prepare
    BY <1>1, <1>s DEF prepare, PrepareRefuses, PrepareKeeps, PrepareDiscards, core, clocks, history
  <1>2. CASE hash_fails
    BY <1>2, <1>s DEF hash_fails, Answer, core, clocks, history
  <1>3. CASE Verify
    <2>1. CASE verify_password_ends
      BY <2>1 DEF verify_password_ends, Reply, CounterStep, Succeeds, FailsAgain, clocks
    <2> QED BY <1>3, <1>s, <2>1
        DEF Verify, verify_password_refuses, verify_password_begins, Answer, core, clocks, history
  <1>4. CASE Consume
    BY <1>4, <1>s DEF Consume, consume_pairing_refuses, consume_pairing_wrong_code,
                consume_pairing_draws, consume_pairing_ends, Answer, core, clocks, history
  <1>5. CASE Confirm
    <2>1. CASE confirm_recovery_key_mismatch
      BY <2>1 DEF confirm_recovery_key_mismatch, Reply, CounterStep, Succeeds, FailsAgain, clocks
    <2>2. CASE confirm_recovery_key_ends
      <3> PICK o \in Outcomes :
            /\ commit(Enrolled(persisted.password, persisted.key), o)
            /\ IF o = "durable"
               THEN /\ record_success("confirmation") /\ Forgives("confirmation")
                    /\ Reply("ok")
               ELSE UNCHANGED <<backoff, failed>> /\ Reply("Unavailable")
        BY <2>2 DEF confirm_recovery_key_ends
      <3>1. boot' = boot /\ pc = "finish"
        BY <2>2 DEF confirm_recovery_key_ends, clocks
      <3>2. CASE o # "durable"
        BY <3>1, <3>2, <1>s
      <3>3. CASE o = "durable"
        <4>1. disk' = Enrolled(persisted.password, persisted.key)
          BY <3>3 DEF commit, write
        <4>2. disk'.state = "enrolled"
          BY <4>1 DEF Enrolled
        <4> QED BY <3>1, <3>3, <4>2 DEF CounterStep, Succeeds, Reply
      <3> QED BY <3>2, <3>3
    <2> QED BY <1>5, <1>s, <2>1, <2>2
        DEF Confirm, confirm_recovery_key_refuses, confirm_recovery_key_begins,
            confirm_recovery_key_expired, Answer, core, clocks, history
  <1>6. CASE Recover
    <2>1. CASE recover_password_checks
      BY <2>1 DEF recover_password_checks, Reply, Compute, CounterStep, Succeeds, FailsAgain, clocks
    <2> QED BY <1>6, <1>s, <2>1
        DEF Recover, recover_password_refuses, recover_password_begins, recover_password_ends,
            Answer, core, clocks, history
  <1>7. CASE PlatformMethods
    <2>1. CASE reset_enrollment
      <3> PICK o \in Outcomes :
            /\ commit(Unenrolled, o)
            /\ backoff' = IF o = "durable" THEN [s \in Scopes |-> NoFailures] ELSE backoff
            /\ failed' = IF o = "durable" THEN [s \in Scopes |-> NeverFailed] ELSE failed
            /\ Reply(IF o = "durable" THEN "ok" ELSE "Unavailable")
        BY <2>1 DEF reset_enrollment
      <3>1. boot' = boot /\ pc = "idle" /\ pc' = "idle"
        BY <2>1 DEF reset_enrollment, clocks, Reply
      <3>2. o = "durable" => promised' = Unenrolled
        BY DEF commit
      <3> QED BY <1>s, <3>1, <3>2 DEF CounterStep
    <2> QED BY <1>7, <1>s, <2>1
        DEF PlatformMethods, ensure_pending_pairing_keeps, ensure_pending_pairing_fails,
            ensure_pending_pairing_creates, cancel_pending_pairing, get_state, Answer, core, clocks, history
  <1>8. CASE Environment
    <2>1. CASE open
      BY <2>1 DEF open, CounterStep
    <2>2. CASE Crash \/ PowerLoss
      BY <2>2 DEF Crash, PowerLoss, Stopped, CounterStep
    <2>3. CASE Tick \/ StepWall
      BY <2>3, <1>b DEF Tick, StepWall, CounterStep, core, history
    <2>4. CASE Writeback
      BY <2>4, <1>s DEF Writeback, core, clocks, history
    <2> QED BY <1>8, <2>1, <2>2, <2>3, <2>4 DEF Environment
  <1>9. CASE UNCHANGED vars
    BY <1>9, <1>s DEF vars, core, clocks, history
  <1> QED BY <1>1, <1>2, <1>3, <1>4, <1>5, <1>6, <1>7, <1>8, <1>9 DEF Next

\* How a method comes to a place that counts: past the check, or by waiting.
LEMMA PlaceSteps ==
    ASSUME TypeInv, [Next]_vars
    PROVE  /\ pc' = "verify" =>
                /\ UNCHANGED <<backoff, failed>> /\ boot' >= boot
                /\ \/ pc = "verify" /\ args' = args
                   \/ args'.uid \in Uids /\ check_backoff(args'.uid, "ok")
           /\ pc' \in {"confirm", "finish"} =>
                /\ UNCHANGED <<backoff, failed>> /\ boot' >= boot
                /\ pc \in {"confirm", "finish"} \/ check_backoff("confirmation", "ok")
           /\ pc' = "recover" =>
                /\ UNCHANGED <<backoff, failed>> /\ boot' >= boot
                /\ pc = "recover" \/ check_backoff("recovery", "ok")
           /\ pc' = "down" =>
                \/ backoff' = [s \in Scopes |-> NoFailures]
                \/ pc = "down" /\ UNCHANGED backoff
  <1> DEFINE Elsewhere == pc' \in {"idle", "opening", "prepared", "enroll", "rehash"}
             Waits == UNCHANGED <<pc, args, backoff, failed>> /\ boot' >= boot
  <1>b. boot \in Nat
    BY DEF TypeInv, TypeOK
  <1>1. CASE prepare
    <2>1. Elsewhere \/ (pc = "confirm" /\ pc' = "finish")
      BY <1>1 DEF prepare, PrepareRefuses, PrepareKeeps, PrepareDiscards, PrepareFails,
                  PreparePasses, AfterPrepare, Reply
    <2>2. UNCHANGED <<backoff, failed, boot>>
      BY <1>1 DEF prepare, PrepareRefuses, PrepareKeeps, PrepareDiscards, core, clocks, history
    <2> QED BY <1>b, <2>1, <2>2
  <1>2. CASE hash_fails
    BY <1>2 DEF hash_fails, Answer, Reply
  <1>3. CASE Verify
    <2>1. ASSUME NEW uid \in Uids, NEW p \in PasswordInputs, verify_password_begins(uid, p)
          PROVE  /\ pc' = "verify" /\ UNCHANGED <<backoff, failed, boot>>
                 /\ args'.uid \in Uids /\ check_backoff(args'.uid, "ok")
      BY <2>1 DEF verify_password_begins, Compute, Args, core, clocks, history
    <2>2. ASSUME NEW uid \in Uids, NEW p \in PasswordInputs, verify_password_refuses(uid, p)
          PROVE  Elsewhere
      BY <2>2 DEF verify_password_refuses, Answer, Reply
    <2>3. CASE verify_password_ends
      BY <2>3 DEF verify_password_ends, Reply
    <2> QED BY <1>3, <1>b, <2>1, <2>2, <2>3 DEF Verify
  <1>4. CASE Consume
    BY <1>4 DEF Consume, consume_pairing_refuses, consume_pairing_wrong_code,
                consume_pairing_draws, consume_pairing_ends, Answer, Reply, Compute
  <1>5. CASE Confirm
    <2>1. ASSUME NEW k \in KeyInputs, confirm_recovery_key_begins(k)
          PROVE  /\ pc' = "confirm" /\ UNCHANGED <<backoff, failed, boot>>
                 /\ check_backoff("confirmation", "ok")
      BY <2>1 DEF confirm_recovery_key_begins, Compute, core, clocks, history
    <2>2. ASSUME NEW k \in KeyInputs, confirm_recovery_key_refuses(k) PROVE Elsewhere
      BY <2>2 DEF confirm_recovery_key_refuses, Answer, Reply
    <2>3. CASE \/ confirm_recovery_key_expired \/ confirm_recovery_key_mismatch
               \/ confirm_recovery_key_ends
      BY <2>3 DEF confirm_recovery_key_expired, confirm_recovery_key_mismatch,
                  confirm_recovery_key_ends, Answer, Reply
    <2> QED BY <1>5, <1>b, <2>1, <2>2, <2>3 DEF Confirm
  <1>6. CASE Recover
    <2>1. ASSUME NEW k \in KeyInputs, NEW p \in PasswordInputs, recover_password_begins(k, p)
          PROVE  /\ pc' = "recover" /\ UNCHANGED <<backoff, failed, boot>>
                 /\ check_backoff("recovery", "ok")
      BY <2>1 DEF recover_password_begins, Compute, core, clocks, history
    <2>2. ASSUME NEW k \in KeyInputs, NEW p \in PasswordInputs, recover_password_refuses(k, p)
          PROVE  Elsewhere
      BY <2>2 DEF recover_password_refuses, Answer, Reply
    <2>3. CASE recover_password_checks \/ recover_password_ends
      BY <2>3 DEF recover_password_checks, recover_password_ends, Reply, Compute
    <2> QED BY <1>6, <1>b, <2>1, <2>2, <2>3 DEF Recover
  <1>7. CASE PlatformMethods
    BY <1>7 DEF PlatformMethods, ensure_pending_pairing_keeps, ensure_pending_pairing_fails,
            ensure_pending_pairing_creates, cancel_pending_pairing, reset_enrollment, get_state,
            Answer, Reply
  <1>8. CASE Environment
    <2>1. CASE open
      BY <2>1 DEF open
    <2>2. CASE Crash \/ PowerLoss
      BY <2>2 DEF Crash, PowerLoss, Stopped
    <2>3. CASE Tick \/ StepWall
      <3>1. Waits
        BY <2>3, <1>b DEF Tick, StepWall, core, control, history
      <3> QED BY <3>1
    <2>4. CASE Writeback
      <3>1. Waits
        BY <2>4, <1>b DEF Writeback, core, control, clocks, history
      <3> QED BY <3>1
    <2> QED BY <1>8, <2>1, <2>2, <2>3, <2>4 DEF Environment
  <1>9. CASE UNCHANGED vars
    <2>1. Waits
      BY <1>9, <1>b DEF vars, core, control, clocks, history
    <2> QED BY <2>1
  <1> QED BY <1>1, <1>2, <1>3, <1>4, <1>5, <1>6, <1>7, <1>8, <1>9 DEF Next

\* A failure keeps the counters in step with the history, and none goes down.
LEMMA FailureIsCounted ==
    ASSUME TypeInv, \A t \in Scopes : Mirrors(t), NEW s \in Scopes, FailsAgain(s)
    PROVE  \A t \in Scopes : Mirrors(t)' /\ backoff'[t].failures >= backoff[t].failures
  <1> PICK r \in Failures : record_failure(s, r) /\ Fails(s, r)
    BY DEF FailsAgain
  <1> DEFINE n == backoff[s].failures
             m == IF n < U32_MAX THEN n + 1 ELSE U32_MAX
             w == failed[s].wait
             d == IF w = 0 THEN 1 ELSE 2 * w
             T == BACKOFF_THRESHOLD
  <1>1. /\ backoff \in [Scopes -> [failures : Nat, last_failure : Nat]]
        /\ failed \in [Scopes -> [count : Nat, at : Nat, wait : Nat]]
    BY DEF TypeInv, TypeOK
  <1>2. /\ n \in Nat /\ n <= U32_MAX /\ boot \in Nat /\ w = backoff_delay(n)
        /\ failed[s].at = backoff[s].last_failure /\ failed[s].count \in Nat
        /\ failed[s].count = IF n < T THEN n ELSE T
        /\ T \in Nat \ {0}
    BY CounterTypes, ConstantsAssumption DEF Mirrors
  <1>3. ASSUME NEW t \in Scopes, t # s
        PROVE  Mirrors(t)' /\ backoff'[t].failures >= backoff[t].failures
    <2>1. backoff'[t] = backoff[t] /\ failed'[t] = failed[t]
      BY <1>1, <1>3 DEF record_failure, Fails
    <2>2. Mirrors(t) /\ backoff[t].failures \in Nat
      BY CounterTypes
    <2> QED BY <2>1, <2>2 DEF Mirrors
  <1>4. Mirrors(s)' /\ backoff'[s].failures >= n
    <2>1. /\ backoff'[s].failures = m
          /\ backoff'[s].last_failure =
                IF r = "InvalidCredential" THEN boot ELSE backoff[s].last_failure
      BY <1>1 DEF record_failure
    <2>2. /\ failed'[s].at = IF r = "InvalidCredential" THEN boot ELSE failed[s].at
          /\ failed'[s].count = IF failed[s].count + 1 >= T THEN T ELSE failed[s].count + 1
          /\ failed'[s].wait = IF ~(failed[s].count + 1 >= T) THEN 0
                               ELSE IF d > BACKOFF_CAP THEN BACKOFF_CAP ELSE d
      BY <1>1 DEF Fails
    <2>3. /\ m \in Nat /\ m <= U32_MAX /\ m > 0 /\ (m >= T <=> n + 1 >= T)
          /\ backoff_delay(m) = IF m < T THEN 0
                                ELSE IF d > BACKOFF_CAP THEN BACKOFF_CAP ELSE d
      <3> HIDE DEF m, d, n, w
      <3>1. /\ m = IF n < U32_MAX THEN n + 1 ELSE U32_MAX
            /\ d = IF backoff_delay(n) = 0 THEN 1 ELSE 2 * backoff_delay(n)
        BY <1>2 DEF m, d
      <3> QED BY <1>2, <3>1, DelayDoubles
    <2>4. m >= n /\ (m = n + 1 \/ (m = n /\ n >= T))
      <3>1. U32_MAX >= T
        BY ConstantsAssumption, BackoffAssumption DEF backoff_delay
      <3> QED BY <1>2, <3>1, ConstantsAssumption
    <2>5. failed[s].count + 1 >= T <=> m >= T
      BY <1>2, <2>3
    <2> HIDE DEF m, d, n, w
    <2>6. failed'[s].wait = backoff_delay(m)
      BY <1>2, <2>2, <2>3, <2>5
    <2>7. failed'[s].count = IF m < T THEN m ELSE T
      BY <1>2, <2>2, <2>3, <2>4, <2>5
    <2> QED BY <1>2, <2>1, <2>2, <2>3, <2>4, <2>6, <2>7 DEF Mirrors
  <1> QED BY <1>3, <1>4

\* A scope that has nothing against it keeps them in step too.
LEMMA ForgivenMirrors ==
    /\ NoFailures.failures = 0 /\ NoFailures.last_failure = 0
    /\ NeverFailed.at = 0 /\ NeverFailed.wait = 0 /\ NeverFailed.count = 0
    /\ backoff_delay(0) = 0 /\ 0 <= U32_MAX /\ 0 < BACKOFF_THRESHOLD
  BY ConstantsAssumption DEF NoFailures, NeverFailed, backoff_delay

\* Every step keeps layer 4.
LEMMA BackoffInvStep == TypeInv /\ TypeInv' /\ BackoffInv /\ [Next]_vars => BackoffInv'
  <1> SUFFICES ASSUME TypeInv, TypeInv', BackoffInv, [Next]_vars PROVE BackoffInv'
    OBVIOUS
  <1>1. \A t \in Scopes : Mirrors(t)'
    <2>1. CASE UNCHANGED <<backoff, failed>>
      BY <2>1 DEF BackoffInv, Mirrors
    <2>2. CASE backoff' = [s \in Scopes |-> NoFailures] /\ failed' = [s \in Scopes |-> NeverFailed]
      BY <2>2, ForgivenMirrors DEF Mirrors
    <2>3. ASSUME NEW s \in Scopes, Succeeds(s)
          PROVE  \A t \in Scopes : Mirrors(t)'
      <3>1. \A t \in Scopes : \/ backoff'[t] = backoff[t] /\ failed'[t] = failed[t]
                              \/ backoff'[t] = NoFailures /\ failed'[t] = NeverFailed
        BY <2>3 DEF Succeeds, record_success, Forgives, TypeInv, TypeOK
      <3> QED BY <3>1, ForgivenMirrors DEF BackoffInv, Mirrors
    <2>4. ASSUME NEW s \in Scopes, FailsAgain(s) PROVE \A t \in Scopes : Mirrors(t)'
      BY <2>4, FailureIsCounted DEF BackoffInv
    <2>5. pc = "verify" => args.uid \in Scopes
      BY ScopeNames DEF TypeInv, PlaceKnows
    <2> QED BY <2>1, <2>2, <2>3, <2>4, <2>5, CounterSteps, ScopeNames DEF CounterStep
  <1>2. ASSUME NEW s \in Scopes, Waited(s), UNCHANGED failed, boot' >= boot
        PROVE  Waited(s)'
    <2>1. boot \in Nat /\ boot' \in Nat /\ failed[s].at \in Nat /\ failed[s].wait \in Nat
      BY CounterTypes DEF TypeInv, TypeOK
    <2> QED BY <1>2, <2>1 DEF Waited
  <1>w. ASSUME NEW s \in Scopes, check_backoff(s, "ok") PROVE Waited(s)
    BY <1>w, CheckedHasWaited DEF BackoffInv
  <1>3. /\ pc' = "verify" => Waited(args.uid)'
        /\ pc' \in {"confirm", "finish"} => Waited("confirmation")'
        /\ pc' = "recover" => Waited("recovery")'
    <2>1. ASSUME pc' = "verify" PROVE Waited(args.uid)'
      <3>1. PICK u \in Scopes : u = args'.uid /\ Waited(u)
        BY <2>1, <1>w, PlaceSteps, ScopeNames DEF BackoffInv, TypeInv, PlaceKnows
      <3>2. Waited(u)'
        BY <2>1, <3>1, <1>2, PlaceSteps
      <3> QED BY <3>1, <3>2 DEF Waited
    <2>2. ASSUME pc' \in {"confirm", "finish"} PROVE Waited("confirmation")'
      <3>1. Waited("confirmation")
        BY <2>2, <1>w, PlaceSteps, ScopeNames DEF BackoffInv
      <3> QED BY <2>2, <3>1, <1>2, PlaceSteps, ScopeNames
    <2>3. ASSUME pc' = "recover" PROVE Waited("recovery")'
      <3>1. Waited("recovery")
        BY <2>3, <1>w, PlaceSteps, ScopeNames DEF BackoffInv
      <3> QED BY <2>3, <3>1, <1>2, PlaceSteps, ScopeNames
    <2> QED BY <2>1, <2>2, <2>3
  <1>4. pc' = "down" => \A s \in Scopes : backoff'[s].failures = 0
    BY PlaceSteps DEF BackoffInv, NoFailures
  <1> QED BY <1>1, <1>3, <1>4 DEF BackoffInv

LEMMA BackoffInvariant == Spec => []BackoffInv
  <1>1. Init => BackoffInv
    BY ForgivenMirrors DEF Init, BackoffInv, Mirrors
  <1> QED BY <1>1, BackoffInvStep, TypeInvariant, PTL DEF Spec

\* A secret is looked at only when the wait since the scope's last timed failure,
\* doubled by every failure up to the cap, is over, for any threshold, cap and
\* saturation of the counter (machine.rs: check_backoff, record_failure).
THEOREM FailuresAreSlow == Spec => []FailuresCostTime
  <1>1. BackoffInv => FailuresCostTime
    BY DEF BackoffInv, FailuresCostTime, Examined, Waited
  <1> QED BY <1>1, BackoffInvariant, PTL

\* No success but the scope's own, a durable reset and the end of the process
\* take a failure count down (machine.rs: record_success, reset_enrollment).
THEOREM OnlyOwnSecretForgives == Spec => ForgivenOnlyByOwnSecret
  <1> DEFINE Reason(s) ==
        \/ pc' = "down"
        \/ pc = "idle" /\ pc' = "idle" /\ promised' = Unenrolled
        \/ pc = "verify" /\ s = args.uid /\ args.password = disk.password
        \/ pc = "finish" /\ s = "confirmation" /\ disk'.state = "enrolled"
        \/ pc = "recover" /\ s = "recovery" /\ args.key = disk.key
  <1>1. ASSUME TypeInv, TypeInv', Agreement, BackoffInv, [Next]_vars, NEW s \in Scopes,
               backoff'[s].failures < backoff[s].failures
        PROVE  Reason(s)
    <2>1. backoff[s].failures \in Nat /\ backoff'[s].failures \in Nat
      BY <1>1 DEF TypeInv, TypeOK
    <2>2. backoff' # backoff
      BY <1>1, <2>1
    <2>3. pc # "down"  \/ pc' = "down"
      BY <1>1, <2>1 DEF BackoffInv
    <2>4. ASSUME NEW t \in Scopes, Succeeds(t), backoff'[s].failures < backoff[s].failures
          PROVE  s = t
      BY <2>4, <2>1, <1>1 DEF Succeeds, record_success, TypeInv, TypeOK
    <2>5. ASSUME NEW t \in Scopes, FailsAgain(t)
          PROVE  FALSE
      BY <2>5, <1>1, <2>1, FailureIsCounted DEF BackoffInv
    <2>6. pc \in {"verify", "recover"} => persisted = disk
      BY <1>1 DEF TypeInv, PlaceKnows, Agreement, StoreInv, MemoryMatchesDisk
    <2>7. pc = "verify" => args.uid \in Scopes
      BY <1>1, ScopeNames DEF TypeInv, PlaceKnows
    <2> QED BY <1>1, <2>2, <2>3, <2>4, <2>5, <2>6, <2>7, CounterSteps, ScopeNames
        DEF CounterStep
  <1>2. TypeInv /\ TypeInv' /\ Agreement /\ BackoffInv /\ [Next]_vars =>
          [\A s \in Scopes : backoff'[s].failures < backoff[s].failures => Reason(s)]_vars
    BY <1>1
  <1> QED BY <1>2, TypeInvariant, AgreementInvariant, BackoffInvariant, PTL
      DEF Spec, ForgivenOnlyByOwnSecret

-----------------------------------------------------------------------------
(* The state file implements the operator account *)

\* The file is replaced, durably or not.
Writes(f) == disk' = f /\ durable' \in {durable, f}

\* All that happens to the state file.
FileStep ==
    \/ UNCHANGED <<disk, durable>>
    \/ Writes(Unenrolled)
    \/ disk' \in {disk, durable} /\ durable' = disk'
    \/ /\ disk = Unenrolled
       /\ \E p \in Secrets \ Weak, k \in Keys, d \in Nat :
             p # k /\ Writes(EnrolledUnconfirmed(p, k, d))
    \/ disk.state = "unconfirmed" /\ Writes(Enrolled(disk.password, disk.key))
    \/ /\ disk.state = "enrolled"
       /\ \E p \in Secrets \ Weak : p # disk.key /\ Writes(Enrolled(p, disk.key))

LEMMA CommitWrites ==
    ASSUME NEW state, NEW o \in Outcomes, commit(state, o)
    PROVE  UNCHANGED <<disk, durable>> \/ Writes(state)
  BY DEF commit, write, Outcomes, Writes

\* A method writes from what memory says, and memory is the file.
LEMMA FileSteps == ASSUME TypeInv, Agreement, [Next]_vars PROVE FileStep
  <1> DEFINE Same == UNCHANGED <<disk, durable>>
  <1>s. Same => FileStep
    BY DEF FileStep
  <1>m. persisted # Invalid => persisted = disk
    BY DEF Agreement, StoreInv, MemoryMatchesDisk
  <1>1. CASE prepare
    BY <1>1, <1>s, CommitWrites
    DEF prepare, PrepareRefuses, PrepareKeeps, PrepareDiscards, store, FileStep
  <1>2. CASE hash_fails \/ Verify
    BY <1>2, <1>s DEF hash_fails, Verify, verify_password_refuses, verify_password_begins,
                      verify_password_ends, Answer, store
  <1>3. CASE Consume
    <2>1. CASE consume_pairing_ends
      <3>1. /\ disk = Unenrolled /\ args.password \in Secrets \ Weak /\ args.key \in Keys
            /\ args.password # args.key /\ wall + CONFIRMATION_WINDOW \in Nat
        BY <2>1, <1>m, ConstantsAssumption DEF consume_pairing_ends, TypeInv, TypeOK, PlaceKnows
      <3>2. \/ Same
            \/ Writes(EnrolledUnconfirmed(args.password, args.key, wall + CONFIRMATION_WINDOW))
        BY <2>1, CommitWrites DEF consume_pairing_ends
      <3> QED BY <1>s, <3>1, <3>2 DEF FileStep
    <2> QED BY <1>3, <1>s, <2>1
        DEF Consume, consume_pairing_refuses, consume_pairing_wrong_code, consume_pairing_draws,
            Answer, store
  <1>4. CASE Confirm
    <2>1. CASE confirm_recovery_key_ends
      <3>1. disk.state = "unconfirmed" /\ persisted = disk
        BY <2>1, <1>m DEF confirm_recovery_key_ends, TypeInv, PlaceKnows
      <3>2. Same \/ Writes(Enrolled(disk.password, disk.key))
        BY <2>1, <3>1, CommitWrites DEF confirm_recovery_key_ends
      <3> QED BY <1>s, <3>1, <3>2 DEF FileStep
    <2> QED BY <1>4, <1>s, <2>1
        DEF Confirm, confirm_recovery_key_refuses, confirm_recovery_key_begins,
            confirm_recovery_key_expired, confirm_recovery_key_mismatch, Answer, store
  <1>5. CASE Recover
    <2>1. CASE recover_password_ends
      <3>1. /\ disk.state = "enrolled" /\ persisted = disk
            /\ args.password \in Secrets \ Weak /\ args.password # disk.key
        BY <2>1, <1>m DEF recover_password_ends, TypeInv, PlaceKnows
      <3>2. Same \/ Writes(Enrolled(args.password, disk.key))
        BY <2>1, <3>1, CommitWrites DEF recover_password_ends
      <3> QED BY <1>s, <3>1, <3>2 DEF FileStep
    <2> QED BY <1>5, <1>s, <2>1
        DEF Recover, recover_password_refuses, recover_password_begins,
            recover_password_checks, Answer, store
  <1>6. CASE PlatformMethods
    BY <1>6, <1>s, CommitWrites
    DEF PlatformMethods, ensure_pending_pairing_keeps, ensure_pending_pairing_fails,
        ensure_pending_pairing_creates, cancel_pending_pairing, reset_enrollment, get_state,
        Answer, store, FileStep
  <1>7. CASE Environment
    BY <1>7, <1>s DEF Environment, open, Crash, PowerLoss, Writeback, Tick, StepWall, store,
                      FileStep
  <1>8. CASE UNCHANGED vars
    BY <1>8, <1>s DEF vars, store
  <1> QED BY <1>1, <1>2, <1>3, <1>4, <1>5, <1>6, <1>7, <1>8 DEF Next

\* The public part of each state is the abstract account.
LEMMA PublicStates ==
    /\ Public(Unenrolled) = Account!Nobody /\ Public(Invalid) = Account!Unreadable
    /\ \A p, k : Public(Enrolled(p, k)) = Account!Final(p, k)
    /\ \A p, k, d : Public(EnrolledUnconfirmed(p, k, d)) = Account!Provisional(p, k)
    /\ \A f \in Persisted \cup {Invalid} :
          /\ Public(f).state = f.state
          /\ f.state \in {"unconfirmed", "enrolled"} =>
                Public(f).password = f.password /\ Public(f).key = f.key
  <1>1. /\ Public(Unenrolled) = Account!Nobody /\ Public(Invalid) = Account!Unreadable
        /\ \A p, k : Public(Enrolled(p, k)) = Account!Final(p, k)
    BY DEF Public, Unenrolled, Invalid, Enrolled, Account!Nobody, Account!Unreadable, Account!Final
  <1>2. \A p, k, d : Public(EnrolledUnconfirmed(p, k, d)) = Account!Provisional(p, k)
    BY DEF Public, EnrolledUnconfirmed, Account!Provisional
  <1>3. \A f : /\ Public(f).state = f.state
               /\ f.state \in {"unconfirmed", "enrolled"} =>
                     Public(f).password = f.password /\ Public(f).key = f.key
    BY DEF Public
  <1> QED BY <1>1, <1>2, <1>3

\* sl-authd's state file, through every failure, crash and power loss, behaves as
\* the operator account of the documentation's state table, whatever the
\* constants are (machine.rs, store.rs).
THEOREM AccountRefined == Spec => ImplementsAccount
  <1>1. Init => Account!Init
    BY PublicStates DEF Init, Account!Init
  <1>2. ASSUME TypeInv, Agreement, [Next]_vars
        PROVE  [Account!Next]_<<Public(disk), Public(durable)>>
    <2>1. CASE UNCHANGED <<disk, durable>>
      BY <2>1 DEF Public
    <2>2. CASE Writes(Unenrolled)
      BY <2>2, PublicStates DEF Writes, Account!Next, Account!Discard, Account!Becomes
    <2>3. CASE disk' \in {disk, durable} /\ durable' = disk'
      BY <2>3 DEF Account!Next, Account!PowerLoss
    <2>4. ASSUME disk = Unenrolled, NEW p \in Secrets \ Weak, NEW k \in Keys, NEW d \in Nat,
                 p # k, Writes(EnrolledUnconfirmed(p, k, d))
          PROVE  Account!Next
      BY <2>4, PublicStates
      DEF Writes, Account!Next, Account!Enroll, Account!Acceptable, Account!Becomes
    <2>5. CASE disk.state = "unconfirmed" /\ Writes(Enrolled(disk.password, disk.key))
      BY <1>2, <2>5, PublicStates
      DEF Writes, Account!Next, Account!Confirm, Account!Becomes, TypeInv, TypeOK
    <2>6. ASSUME disk.state = "enrolled", NEW p \in Secrets \ Weak, p # disk.key,
                 Writes(Enrolled(p, disk.key))
          PROVE  Account!Next
      BY <1>2, <2>6, PublicStates
      DEF Writes, Account!Next, Account!ChangePassword, Account!Acceptable, Account!Becomes,
          TypeInv, TypeOK
    <2> QED BY <1>2, <2>1, <2>2, <2>3, <2>4, <2>5, <2>6, FileSteps DEF FileStep
  <1> QED BY <1>1, <1>2, TypeInvariant, AgreementInvariant, PTL
      DEF Spec, ImplementsAccount, Account!Spec
=============================================================================
