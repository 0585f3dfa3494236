-------------------------- MODULE AuthServiceProofs --------------------------
(***************************************************************************)
(* Proofs about AuthService, for any number of requests, any limit and any *)
(* number of keys.  Two arguments: an admission is counted exactly while a *)
(* request owns its permit, so every way a request can end gives back what *)
(* it took; and a confirmation that is under way carries a key its caller  *)
(* was told before, or a wrong one, so that however long it waits for the  *)
(* lock it can only confirm the enrollment it was meant for.  And the      *)
(* account behind the service is that of OperatorAccount.                  *)
(***************************************************************************)
EXTENDS AuthService, FiniteSetTheorems, TLAPS

Call == [method : Methods \cup {"none"}, stage : Stages,
         waits : BOOLEAN, permit : BOOLEAN, key : Nat]

AccountType == [state : {"unenrolled", "pending", "unconfirmed", "enrolled"}, key : Nat]

(* Who has no call under way owns no permit. *)
FreeOwnsNothing == \A r \in Requests : call[r].stage = "none" => ~call[r].permit

(* A key in a call has been drawn; one that is presented was told. *)
KeysAreDrawn == \A r \in Requests : call[r].key <= drawn

ConfirmsWhatWasTold ==
    \A r \in Requests : call[r].method = "confirm_recovery_key" =>
        call[r].key \in told \cup {NoKey}

(* A provisional enrollment has a key of its own. *)
ProvisionalHasKey == account.state = "unconfirmed" => account.key # NoKey

Inv == /\ TypeOK /\ FreeOwnsNothing /\ KeysAreDrawn /\ AdmissionBalances
       /\ ConfirmsWhatWasTold /\ ProvisionalHasKey /\ EnrolledKeyWasTold

(* What a step of one request needs to show of the calls. *)
Others(r) == \A other \in Requests : other # r => call'[other] = call[other]

-----------------------------------------------------------------------------

LEMMA CallTyped == TypeOK => call \in [Requests -> Call] /\ account \in AccountType
  BY DEF TypeOK, Call, AccountType

LEMMA NoCallTyped ==
    /\ NoCall \in Call /\ NoCall.stage = "none" /\ ~NoCall.permit
    /\ NoCall.key = 0 /\ NoCall.method = "none"
  BY DEF NoCall, Call, Stages, NoKey

(* Nothing is counted at first. *)
LEMMA InvInit == Init => Inv
  <1> SUFFICES ASSUME Init PROVE Inv
    OBVIOUS
  <1>1. \A r \in Requests : call[r] = NoCall
    BY DEF Init
  <1>2. call \in [Requests -> Call]
    BY NoCallTyped DEF Init
  <1>3. Holding = {}
    BY <1>1, NoCallTyped DEF Holding
  <1>4. AdmissionBalances
    BY <1>3, FS_EmptySet, AdmittedAssumption DEF Init, AdmissionBalances
  <1>5. TypeOK /\ ProvisionalHasKey /\ EnrolledKeyWasTold
    <2>1. Unenrolled \in AccountType /\ Unenrolled.state = "unenrolled"
      BY DEF Unenrolled, NoKey, AccountType
    <2> HIDE DEF Unenrolled
    <2>2. account = Unenrolled /\ account \in AccountType
      BY <2>1 DEF Init
    <2>3. poisoned \in BOOLEAN /\ quiet \in BOOLEAN
      BY Zenon DEF Init
    <2>0. admitted \in Int /\ drawn \in Nat
      BY DEF Init
    <2>4. told \subseteq 1 .. drawn
      BY DEF Init
    <2>5. TypeOK
      BY <1>2, <2>0, <2>2, <2>3, <2>4 DEF TypeOK, Call, AccountType
    <2> QED BY <2>1, <2>2, <2>5 DEF ProvisionalHasKey, EnrolledKeyWasTold
  <1>6. FreeOwnsNothing /\ KeysAreDrawn /\ ConfirmsWhatWasTold
    BY <1>1, NoCallTyped DEF Init, FreeOwnsNothing, KeysAreDrawn, ConfirmsWhatWasTold
  <1> QED BY <1>4, <1>5, <1>6 DEF Inv

(* The requests that own a permit are finitely many, and change by at most   *)
(* the one that moves.                                                       *)
LEMMA HoldingChanges ==
    ASSUME NEW r \in Requests, Others(r)
    PROVE  /\ IsFiniteSet(Holding) /\ Cardinality(Holding) \in Nat
           /\ Cardinality(Holding') =
                IF call'[r].permit
                THEN IF call[r].permit THEN Cardinality(Holding) ELSE Cardinality(Holding) + 1
                ELSE IF call[r].permit THEN Cardinality(Holding) - 1 ELSE Cardinality(Holding)
  <1>1. IsFiniteSet(Holding) /\ Cardinality(Holding) \in Nat
    BY RequestsAssumption, FS_Subset, FS_CardinalityType DEF Holding
  <1>2. Holding' = IF call'[r].permit THEN Holding \cup {r} ELSE Holding \ {r}
    BY DEF Holding, Others
  <1>3. r \in Holding <=> call[r].permit
    BY DEF Holding
  <1> QED BY <1>1, <1>2, <1>3, FS_AddElement, FS_RemoveElement

(* The balance, for a step of one request. *)
LEMMA BalanceStep ==
    ASSUME Inv, NEW r \in Requests, Others(r),
           \/ call'[r].permit = call[r].permit /\ admitted' = admitted
           \/ call'[r].permit /\ ~call[r].permit /\ admitted' = admitted + 1
                /\ admitted < MAX_ADMITTED
           \/ ~call'[r].permit /\ call[r].permit /\ admitted' = admitted - 1
    PROVE  AdmissionBalances'
  BY HoldingChanges, AdmittedAssumption DEF Inv, AdmissionBalances

(* What is left to show of a step of one request: its own call, the account. *)
LEMMA RequestStep ==
    ASSUME Inv, NEW r \in Requests, Others(r), AdmissionBalances',
           call' \in [Requests -> Call],
           call'[r].stage = "none" => ~call'[r].permit,
           call'[r].key <= drawn',
           call'[r].method = "confirm_recovery_key" => call'[r].key \in told' \cup {NoKey},
           admitted' \in Int, poisoned' \in BOOLEAN, quiet' \in BOOLEAN,
           account' \in AccountType, drawn' \in Nat, drawn <= drawn',
           told \subseteq told', told' \subseteq 1 .. drawn',
           ProvisionalHasKey', EnrolledKeyWasTold'
    PROVE  Inv'
  <1>1. TypeOK'
    BY DEF TypeOK, Call, AccountType
  <1>2. FreeOwnsNothing'
    BY DEF Inv, FreeOwnsNothing, Others
  <1>3. \A other \in Requests : call[other].key \in Nat /\ drawn \in Nat
    BY DEF Inv, TypeOK
  <1>4. KeysAreDrawn'
    <2> SUFFICES ASSUME NEW other \in Requests PROVE call'[other].key <= drawn'
      BY DEF KeysAreDrawn
    <2>1. CASE other = r
      BY <2>1
    <2>2. CASE other # r
      BY <2>2, <1>3 DEF Inv, KeysAreDrawn, Others
    <2> QED BY <2>1, <2>2
  <1>5. ConfirmsWhatWasTold'
    BY DEF Inv, ConfirmsWhatWasTold, Others
  <1> QED BY <1>1, <1>2, <1>4, <1>5 DEF Inv

-----------------------------------------------------------------------------
(* Callers *)

LEMMA InvBegins ==
    ASSUME Inv, NEW r \in Requests, NEW method \in Methods, NEW key \in told \cup {NoKey},
           Begins(r, method, key)
    PROVE  Inv'
  <1>t. call \in [Requests -> Call] /\ account \in AccountType
    BY CallTyped DEF Inv
  <1>1. PICK waits \in BOOLEAN, permit \in BOOLEAN, stage \in {"uid", "queued"} :
            /\ call' = [call EXCEPT ![r] = [method |-> method, waits |-> waits,
                           permit |-> permit, key |-> key, stage |-> stage]]
            /\ permit <=> method \in Hashing
    <2>1. (method \in Platform) \in BOOLEAN /\ (method \in Hashing) \in BOOLEAN
      OBVIOUS
    <2> QED BY <2>1, Zenon DEF Begins
  <1>2. key \in Nat /\ key <= drawn /\ drawn \in Nat
    BY DEF Inv, TypeOK, NoKey
  <1> DEFINE new == [method |-> method, waits |-> waits, permit |-> permit, key |-> key,
                     stage |-> stage]
  <1>3. new \in Call /\ new.stage # "none" /\ new.key = key /\ new.permit = permit
    BY <1>2 DEF Call, Stages
  <1>4. call'[r] = new /\ Others(r)
    BY <1>t, <1>1 DEF Others
  <1>5. call' \in [Requests -> Call]
    BY <1>t, <1>1, <1>3
  <1> HIDE DEF new
  <1>6. /\ call[r].stage = "none" /\ admit(method)
        /\ UNCHANGED <<poisoned, account, drawn, told, quiet>>
    BY DEF Begins
  <1>7. ~call[r].permit
    BY <1>6 DEF Inv, FreeOwnsNothing
  <1>8. AdmissionBalances'
    BY <1>1, <1>3, <1>4, <1>6, <1>7, <1>t, BalanceStep DEF admit, Call
  <1>9. admitted' \in Int
    BY <1>6 DEF admit, Inv, TypeOK
  <1>10. /\ poisoned' \in BOOLEAN /\ quiet' \in BOOLEAN /\ account' \in AccountType
         /\ drawn' \in Nat /\ drawn <= drawn' /\ told \subseteq told' /\ told' \subseteq 1 .. drawn'
         /\ ProvisionalHasKey' /\ EnrolledKeyWasTold'
    BY <1>6, <1>t DEF Inv, TypeOK, ProvisionalHasKey, EnrolledKeyWasTold
  <1>11. /\ call'[r].stage = "none" => ~call'[r].permit
         /\ call'[r].key <= drawn'
         /\ call'[r].method = "confirm_recovery_key" => call'[r].key \in told' \cup {NoKey}
    BY <1>2, <1>3, <1>4, <1>6
  <1> QED BY <1>4, <1>5, <1>8, <1>9, <1>10, <1>11, RequestStep

LEMMA InvCalls == ASSUME Inv, NEW r \in Requests, Calls(r) PROVE Inv'
  <1>1. /\ Platform \subseteq Methods /\ NoKey \in told \cup {NoKey}
        /\ {"verify_password", "consume_pairing", "confirm_recovery_key", "recover_password",
            "get"} \subseteq Methods
    BY DEF Methods, Hashing
  <1>2. CASE login(r)
    BY <1>1, <1>2, InvBegins DEF login
  <1>3. CASE pair(r)
    BY <1>1, <1>3, InvBegins DEF pair
  <1>4. CASE recover(r)
    BY <1>1, <1>4, InvBegins DEF recover
  <1>5. CASE look(r)
    BY <1>1, <1>5, InvBegins DEF look
  <1>6. ASSUME NEW key \in Keys \cup {NoKey}, confirm(r, key) PROVE Inv'
    BY <1>1, <1>6, InvBegins DEF confirm
  <1>7. ASSUME NEW method \in Platform, platform(r, method) PROVE Inv'
    BY <1>1, <1>7, InvBegins DEF platform
  <1> QED BY <1>2, <1>3, <1>4, <1>5, <1>6, <1>7 DEF Calls

LEMMA InvGivesUp == ASSUME Inv, NEW r \in Requests, GivesUp(r) PROVE Inv'
  <1>t. call \in [Requests -> Call] /\ account \in AccountType
    BY CallTyped DEF Inv
  <1>1. /\ call' = [call EXCEPT ![r].waits = FALSE]
        /\ UNCHANGED <<admitted, poisoned, account, drawn, told, quiet>>
    BY DEF GivesUp
  <1>2. call' \in [Requests -> Call] /\ Others(r)
    BY <1>t, <1>1 DEF Call, Others
  <1>3. /\ call'[r].permit = call[r].permit /\ call'[r].stage = call[r].stage
        /\ call'[r].key = call[r].key /\ call'[r].method = call[r].method
    BY <1>t, <1>1 DEF Call
  <1>4. AdmissionBalances'
    BY <1>1, <1>2, <1>3, BalanceStep
  <1>5. /\ admitted' \in Int /\ poisoned' \in BOOLEAN /\ quiet' \in BOOLEAN
        /\ account' \in AccountType
        /\ drawn' \in Nat /\ drawn <= drawn' /\ told \subseteq told' /\ told' \subseteq 1 .. drawn'
        /\ ProvisionalHasKey' /\ EnrolledKeyWasTold'
    BY <1>1, <1>t DEF Inv, TypeOK, ProvisionalHasKey, EnrolledKeyWasTold
  <1>6. /\ call'[r].stage = "none" => ~call'[r].permit
        /\ call'[r].key <= drawn'
        /\ call'[r].method = "confirm_recovery_key" => call'[r].key \in told' \cup {NoKey}
    BY <1>1, <1>3 DEF Inv, FreeOwnsNothing, KeysAreDrawn, ConfirmsWhatWasTold
  <1> QED BY <1>2, <1>4, <1>5, <1>6, RequestStep

-----------------------------------------------------------------------------
(* The service *)

(* A request that ends gives back what it took. *)
LEMMA InvEnds ==
    ASSUME Inv, NEW r \in Requests, drop(r), Ends(r),
           UNCHANGED <<poisoned, account, drawn, quiet>>,
           told \subseteq told', told' \subseteq told \cup ({call[r].key} \ {NoKey})
    PROVE  Inv'
  <1>t. call \in [Requests -> Call] /\ account \in AccountType
    BY CallTyped DEF Inv
  <1>1. call'[r] = NoCall /\ Others(r) /\ call' \in [Requests -> Call]
    BY <1>t, NoCallTyped DEF Ends, Others
  <1>2. AdmissionBalances'
    BY <1>1, <1>t, NoCallTyped, BalanceStep DEF drop, Call
  <1>3. admitted' \in Int
    BY DEF drop, Inv, TypeOK
  <1>4. call[r].key \in Nat /\ call[r].key <= drawn /\ drawn \in Nat /\ told \subseteq 1 .. drawn
    BY DEF Inv, TypeOK, KeysAreDrawn
  <1>5. told' \subseteq 1 .. drawn'
    BY <1>4 DEF NoKey
  <1>6. /\ poisoned' \in BOOLEAN /\ quiet' \in BOOLEAN /\ account' \in AccountType
        /\ drawn' \in Nat /\ drawn <= drawn'
        /\ ProvisionalHasKey' /\ EnrolledKeyWasTold'
    BY <1>4, <1>t DEF Inv, TypeOK, ProvisionalHasKey, EnrolledKeyWasTold
  <1>7. /\ call'[r].stage = "none" => ~call'[r].permit
        /\ call'[r].key <= drawn'
        /\ call'[r].method = "confirm_recovery_key" => call'[r].key \in told' \cup {NoKey}
    BY <1>1, <1>4, NoCallTyped
  <1> QED BY <1>1, <1>2, <1>3, <1>5, <1>6, <1>7, RequestStep

LEMMA InvSenderUid == ASSUME Inv, NEW r \in Requests, sender_uid(r) PROVE Inv'
  <1>t. call \in [Requests -> Call] /\ account \in AccountType
    BY CallTyped DEF Inv
  <1>1. /\ call' = [call EXCEPT ![r].stage = "queued"]
        /\ UNCHANGED <<admitted, poisoned, account, drawn, told, quiet>>
    BY DEF sender_uid
  <1>2. call' \in [Requests -> Call] /\ Others(r)
    BY <1>t, <1>1 DEF Call, Others, Stages
  <1>3. /\ call'[r].permit = call[r].permit /\ call'[r].stage = "queued"
        /\ call'[r].key = call[r].key /\ call'[r].method = call[r].method
    BY <1>t, <1>1 DEF Call
  <1>4. AdmissionBalances'
    BY <1>1, <1>2, <1>3, BalanceStep
  <1>5. /\ admitted' \in Int /\ poisoned' \in BOOLEAN /\ quiet' \in BOOLEAN
        /\ account' \in AccountType
        /\ drawn' \in Nat /\ drawn <= drawn' /\ told \subseteq told' /\ told' \subseteq 1 .. drawn'
        /\ ProvisionalHasKey' /\ EnrolledKeyWasTold'
    BY <1>1, <1>t DEF Inv, TypeOK, ProvisionalHasKey, EnrolledKeyWasTold
  <1>6. /\ call'[r].stage = "none" => ~call'[r].permit
        /\ call'[r].key <= drawn'
        /\ call'[r].method = "confirm_recovery_key" => call'[r].key \in told' \cup {NoKey}
    BY <1>1, <1>3 DEF Inv, KeysAreDrawn, ConfirmsWhatWasTold
  <1> QED BY <1>2, <1>4, <1>5, <1>6, RequestStep

(* Unlocking keeps the permit, and forgets the method. *)
LEMMA UnlocksEffect ==
    ASSUME TypeOK, NEW r \in Requests, NEW key \in Nat, Unlocks(r, key)
    PROVE  /\ call' \in [Requests -> Call] /\ Others(r)
           /\ call'[r].permit = call[r].permit /\ call'[r].method = "none"
           /\ call'[r].stage = "none" => ~call'[r].permit
           /\ call'[r].key \in {key, NoKey}
  <1>t. call \in [Requests -> Call] /\ call[r].permit \in BOOLEAN
    BY CallTyped DEF Call
  <1> DEFINE done == [NoCall EXCEPT !.stage = "done", !.permit = TRUE, !.key = key]
  <1>1. /\ done \in Call /\ done.permit = TRUE /\ done.method = "none" /\ done.stage = "done"
        /\ done.key = key
    BY DEF NoCall, Call, Stages
  <1>2. /\ NoCall \in Call /\ NoCall.permit = FALSE /\ NoCall.method = "none"
        /\ NoCall.key = NoKey
    BY DEF NoCall, Call, Stages, NoKey
  <1>3. call' = [call EXCEPT ![r] = IF call[r].permit THEN done ELSE NoCall]
    BY <1>t DEF Unlocks
  <1> HIDE DEF done
  <1>4. CASE call[r].permit
    BY <1>t, <1>1, <1>3, <1>4 DEF Others
  <1>5. CASE ~call[r].permit
    BY <1>t, <1>2, <1>3, <1>5 DEF Others
  <1> QED BY <1>4, <1>5

(* An account that the promise allows. *)
Sound(a) == /\ a \in AccountType
            /\ a.state = "unconfirmed" => a.key # NoKey
            /\ a.state = "enrolled" => a.key \in told

(* An operation leaves such an account, whatever waited before it ran. *)
LEMMA OperationEffect ==
    ASSUME Inv, NEW r \in Requests
    PROVE  /\ Sound(account) /\ Sound(operation(r).account) /\ Sound(Unenrolled)
           /\ operation(r).key \in Nat
           /\ operation(r).key <= IF Draws(r) THEN drawn + 1 ELSE drawn
  <1>t. /\ account \in AccountType /\ drawn \in Nat /\ call \in [Requests -> Call]
        /\ Sound(account)
    BY CallTyped DEF Inv, TypeOK, Sound, ProvisionalHasKey, EnrolledKeyWasTold
  <1>u. Sound(Unenrolled)
    BY DEF Sound, Unenrolled, AccountType, NoKey
  <1>k. Keeps.account = account /\ Keeps.key = 0
    BY DEF Keeps, Result, NoKey
  <1>r. \A a, k : Result(a, k).account = a /\ Result(a, k).key = k
    BY DEF Result
  <1> DEFINE Good(result) == /\ Sound(result.account) /\ result.key \in Nat
                             /\ result.key <= IF Draws(r) THEN drawn + 1 ELSE drawn
  <1>0. Good(Keeps)
    BY <1>t, <1>k
  <1>1. Good(Result(Unenrolled, NoKey))
    BY <1>t, <1>u, <1>r DEF NoKey
  <1> SUFFICES Good(operation(r))
    BY <1>t, <1>u
  <1>2. CASE call[r].method = "consume_pairing"
    <2>1. CASE account.state = "pending" /\ drawn < KEYS
      <3> DEFINE a == [state |-> "unconfirmed", key |-> drawn + 1]
      <3>1. Sound(a)
        BY <1>t DEF Sound, AccountType, NoKey
      <3>2. operation(r) = Result(a, drawn + 1) /\ Draws(r)
        BY <1>2, <2>1 DEF operation, consume_pairing, Draws
      <3> HIDE DEF a
      <3>3. operation(r).account = a /\ operation(r).key = drawn + 1
        BY <3>2, <1>r
      <3> QED BY <1>t, <3>1, <3>2, <3>3
    <2>2. CASE ~(account.state = "pending" /\ drawn < KEYS)
      BY <1>0, <1>2, <2>2 DEF operation, consume_pairing
    <2> QED BY <2>1, <2>2
  <1>3. CASE call[r].method = "confirm_recovery_key"
    <2>1. CASE account.state = "unconfirmed" /\ call[r].key = account.key
      <3> DEFINE a == [account EXCEPT !.state = "enrolled"]
      <3>1. account.key \in told
        BY <1>3, <2>1 DEF Inv, ConfirmsWhatWasTold, ProvisionalHasKey
      <3>2. Sound(a)
        BY <1>t, <3>1 DEF Sound, AccountType
      <3>3. operation(r) = Result(a, NoKey)
        BY <1>3, <2>1 DEF operation, confirm_recovery_key
      <3> HIDE DEF a
      <3>4. operation(r).account = a /\ operation(r).key = 0
        BY <3>3, <1>r DEF NoKey
      <3> QED BY <1>t, <3>2, <3>4
    <2>2. CASE ~(account.state = "unconfirmed" /\ call[r].key = account.key)
      BY <1>0, <1>3, <2>2 DEF operation, confirm_recovery_key
    <2> QED BY <2>1, <2>2
  <1>4. CASE call[r].method = "ensure_pending_pairing"
    <2> DEFINE a == [Unenrolled EXCEPT !.state = "pending"]
    <2>1. Sound(a)
      BY DEF Sound, Unenrolled, AccountType, NoKey
    <2> HIDE DEF a
    <2>2. Good(Result(a, NoKey))
      BY <1>t, <1>r, <2>1 DEF NoKey
    <2>3. operation(r) = Result(a, NoKey) \/ operation(r) = Keeps
      BY <1>4 DEF operation, ensure_pending_pairing, a
    <2> QED BY <1>0, <2>2, <2>3
  <1>5. CASE call[r].method = "cancel_pending_pairing"
    <2>1. operation(r) = Result(Unenrolled, NoKey) \/ operation(r) = Keeps
      BY <1>5 DEF operation, cancel_pending_pairing
    <2> QED BY <1>0, <1>1, <2>1
  <1>6. CASE call[r].method = "reset_enrollment"
    <2>1. operation(r) = Result(Unenrolled, NoKey)
      BY <1>6 DEF operation
    <2> QED BY <1>1, <2>1
  <1>7. CASE call[r].method \notin {"consume_pairing", "confirm_recovery_key",
                "ensure_pending_pairing", "cancel_pending_pairing", "reset_enrollment"}
    <2>1. operation(r) = Keeps
      BY <1>7 DEF operation
    <2> QED BY <1>0, <2>1
  <1> QED BY <1>2, <1>3, <1>4, <1>5, <1>6, <1>7

(* The lock is given back: the call keeps its permit, the account is sound. *)
LEMMA InvUnlocks ==
    ASSUME Inv, NEW r \in Requests, NEW key \in Nat, Unlocks(r, key),
           Sound(account'), poisoned' \in BOOLEAN,
           drawn' = IF Draws(r) THEN drawn + 1 ELSE drawn, key <= drawn',
           UNCHANGED <<admitted, told, quiet>>
    PROVE  Inv'
  <1>1. /\ call' \in [Requests -> Call] /\ Others(r)
        /\ call'[r].permit = call[r].permit /\ call'[r].method = "none"
        /\ call'[r].stage = "none" => ~call'[r].permit
        /\ call'[r].key \in {key, NoKey}
    BY UnlocksEffect DEF Inv
  <1>2. AdmissionBalances'
    BY <1>1, BalanceStep
  <1>3. /\ drawn \in Nat /\ drawn' \in Nat /\ drawn <= drawn' /\ told \subseteq 1 .. drawn
        /\ admitted \in Int /\ quiet \in BOOLEAN
    BY DEF Inv, TypeOK
  <1>4. told \subseteq told' /\ told' \subseteq 1 .. drawn'
    BY <1>3
  <1>5. account' \in AccountType /\ ProvisionalHasKey' /\ EnrolledKeyWasTold'
    BY DEF Sound, ProvisionalHasKey, EnrolledKeyWasTold
  <1>6. /\ call'[r].key <= drawn'
        /\ call'[r].method = "confirm_recovery_key" => call'[r].key \in told' \cup {NoKey}
    BY <1>1, <1>3 DEF NoKey
  <1>7. admitted' \in Int /\ quiet' \in BOOLEAN
    BY <1>3
  <1> QED BY <1>1, <1>2, <1>3, <1>4, <1>5, <1>6, <1>7, RequestStep

LEMMA InvServes == ASSUME Inv, NEW r \in Requests, Serves(r) PROVE Inv'
  <1>o. /\ Sound(account) /\ Sound(operation(r).account) /\ Sound(Unenrolled)
        /\ operation(r).key \in Nat
        /\ operation(r).key <= IF Draws(r) THEN drawn + 1 ELSE drawn
    BY OperationEffect
  <1>t. drawn \in Nat /\ poisoned \in BOOLEAN
    BY DEF Inv, TypeOK
  <1>k. NoKey \in Nat /\ NoKey <= IF Draws(r) THEN drawn + 1 ELSE drawn
    BY <1>t DEF NoKey
  <1>1. CASE sender_uid(r)
    BY <1>1, InvSenderUid
  <1>2. CASE sender_uid_fails(r)
    BY <1>2, InvEnds DEF sender_uid_fails
  <1>3. CASE with_core(r)
    <2>1. PICK result \in Outcomes(r) : account' = result.account /\ Unlocks(r, result.key)
      BY <1>3 DEF with_core
    <2>2. /\ drawn' = IF Draws(r) THEN drawn + 1 ELSE drawn
          /\ UNCHANGED <<admitted, poisoned, told, quiet>>
      BY <1>3 DEF with_core
    <2>3. \A a, k : Result(a, k).account = a /\ Result(a, k).key = k
      BY DEF Result
    <2>4. result \in {operation(r), Result(account, NoKey), Result(operation(r).account, NoKey),
                      Result(Unenrolled, NoKey)}
      BY DEF Outcomes, Keeps
    <2>5. /\ Sound(result.account) /\ result.key \in Nat
          /\ result.key <= IF Draws(r) THEN drawn + 1 ELSE drawn
      BY <1>o, <1>k, <2>3, <2>4
    <2>6. Sound(account')
      BY <2>1, <2>5, <2>2 DEF Sound
    <2> QED BY <1>t, <2>1, <2>2, <2>5, <2>6, InvUnlocks
  <1>4. CASE panics(r)
    <2>1. /\ drawn' = IF Draws(r) THEN drawn + 1 ELSE drawn
          /\ account' \in {account, operation(r).account} /\ poisoned' = TRUE
          /\ Unlocks(r, NoKey) /\ UNCHANGED <<admitted, told, quiet>>
      BY <1>4 DEF panics
    <2>2. Sound(account')
      BY <1>o, <2>1 DEF Sound
    <2>3. poisoned' \in BOOLEAN
      BY <2>1
    <2> QED BY <1>k, <2>1, <2>2, <2>3, InvUnlocks
  <1>5. CASE refuses(r)
    <2>1. /\ call[r].stage = "queued" /\ poisoned /\ Unlocks(r, NoKey)
          /\ UNCHANGED <<admitted, poisoned, account, drawn, told, quiet>>
      BY <1>5 DEF refuses
    <2>2. /\ call' \in [Requests -> Call] /\ Others(r)
          /\ call'[r].permit = call[r].permit /\ call'[r].method = "none"
          /\ call'[r].stage = "none" => ~call'[r].permit
          /\ call'[r].key \in {NoKey}
      BY <1>k, <2>1, UnlocksEffect DEF Inv
    <2>3. AdmissionBalances'
      BY <2>1, <2>2, BalanceStep
    <2>4. /\ admitted' \in Int /\ poisoned' \in BOOLEAN /\ quiet' \in BOOLEAN
          /\ account' \in AccountType
          /\ drawn' \in Nat /\ drawn <= drawn' /\ told \subseteq told' /\ told' \subseteq 1 .. drawn'
          /\ ProvisionalHasKey' /\ EnrolledKeyWasTold'
      BY <2>1, <1>t, CallTyped DEF Inv, TypeOK, ProvisionalHasKey, EnrolledKeyWasTold
    <2>5. /\ call'[r].key <= drawn'
          /\ call'[r].method = "confirm_recovery_key" => call'[r].key \in told' \cup {NoKey}
      BY <1>t, <2>1, <2>2 DEF NoKey
    <2> QED BY <2>2, <2>3, <2>4, <2>5, RequestStep
  <1>6. CASE run(r)
    BY <1>6, InvEnds DEF run
  <1> QED BY <1>1, <1>2, <1>3, <1>4, <1>5, <1>6 DEF Serves

(* What happens to the account by itself, and a restart. *)
LEMMA InvExpires == ASSUME Inv, Expires PROVE Inv'
  <1>1. Unenrolled \in AccountType /\ Unenrolled.state = "unenrolled"
    BY DEF Unenrolled, NoKey, AccountType
  <1>2. account' = Unenrolled /\ UNCHANGED <<admitted, poisoned, call, drawn, told, quiet>>
    BY DEF Expires
  <1> HIDE DEF Unenrolled
  <1>3. TypeOK' /\ ProvisionalHasKey' /\ EnrolledKeyWasTold'
    BY <1>1, <1>2 DEF Inv, TypeOK, AccountType, ProvisionalHasKey, EnrolledKeyWasTold
  <1>4. AdmissionBalances' /\ FreeOwnsNothing' /\ KeysAreDrawn' /\ ConfirmsWhatWasTold'
    BY <1>2 DEF Inv, AdmissionBalances, Holding, FreeOwnsNothing, KeysAreDrawn,
                ConfirmsWhatWasTold
  <1> QED BY <1>3, <1>4 DEF Inv

LEMMA InvRestart == ASSUME Inv, Restart PROVE Inv'
  <1>1. Unenrolled \in AccountType /\ Unenrolled.state = "unenrolled"
    BY DEF Unenrolled, NoKey, AccountType
  <1> HIDE DEF Unenrolled
  <1>2. \A r \in Requests : call'[r] = NoCall
    BY DEF Restart
  <1>3. call' \in [Requests -> Call]
    BY NoCallTyped DEF Restart
  <1>4. Holding' = {}
    BY <1>2, NoCallTyped DEF Holding
  <1>5. AdmissionBalances'
    BY <1>4, FS_EmptySet, AdmittedAssumption DEF Restart, AdmissionBalances
  <1>6. account' \in AccountType /\ ProvisionalHasKey' /\ EnrolledKeyWasTold'
    BY <1>1, CallTyped DEF Restart, Inv, ProvisionalHasKey, EnrolledKeyWasTold
  <1>7. poisoned' \in BOOLEAN /\ quiet' \in BOOLEAN
    BY Zenon DEF Restart, Inv, TypeOK
  <1>8. admitted' \in Int /\ drawn' \in Nat /\ told' \subseteq 1 .. drawn'
    BY DEF Restart, Inv, TypeOK
  <1>9. TypeOK'
    BY <1>3, <1>6, <1>7, <1>8 DEF TypeOK, Call, AccountType
  <1>10. FreeOwnsNothing' /\ KeysAreDrawn' /\ ConfirmsWhatWasTold'
    BY <1>2, <1>8, NoCallTyped DEF FreeOwnsNothing, KeysAreDrawn, ConfirmsWhatWasTold
  <1> QED BY <1>5, <1>6, <1>9, <1>10 DEF Inv

LEMMA InvNext == Inv /\ [Next]_vars => Inv'
  <1> SUFFICES ASSUME Inv, [Next]_vars PROVE Inv'
    OBVIOUS
  <1>1. CASE UNCHANGED vars
    BY <1>1 DEF vars, Inv, TypeOK, AdmissionBalances, Holding, FreeOwnsNothing, KeysAreDrawn,
                ConfirmsWhatWasTold, ProvisionalHasKey, EnrolledKeyWasTold
  <1>2. CASE CallsEnd
    BY <1>2 DEF CallsEnd, Inv, TypeOK, AdmissionBalances, Holding, FreeOwnsNothing,
                KeysAreDrawn, ConfirmsWhatWasTold, ProvisionalHasKey, EnrolledKeyWasTold
  <1> QED BY <1>1, <1>2, InvCalls, InvServes, InvGivesUp, InvExpires, InvRestart DEF Next

LEMMA Invariance == Spec => []Inv
  BY InvInit, InvNext, PTL DEF Spec

-----------------------------------------------------------------------------

(* Every variable has its type in every reachable state. *)
THEOREM ServiceTyped == Spec => []TypeOK
  <1>1. Inv => TypeOK
    BY DEF Inv
  <1> QED BY <1>1, Invariance, PTL

(* The admission counter is the number of operations that hash or wait, and  *)
(* never more than MAX_ADMITTED, however requests end (service.rs: Permit).  *)
THEOREM AdmissionAlwaysBalances == Spec => []AdmissionBalances
  <1>1. Inv => AdmissionBalances
    BY DEF Inv
  <1> QED BY <1>1, Invariance, PTL

(* No account is finally enrolled with a recovery key that nobody was told,  *)
(* whatever replies were lost and however long a confirmation had to wait.   *)
THEOREM NobodyLosesTheKey == Spec => []EnrolledKeyWasTold
  <1>1. Inv => EnrolledKeyWasTold
    BY DEF Inv
  <1> QED BY <1>1, Invariance, PTL

-----------------------------------------------------------------------------
(* The account behind the service, as an OperatorAccount.  The pairing is in *)
(* memory only and no part of it; this module tells no passwords apart, so   *)
(* that one of them, which is no key, stands for all.                        *)

Password == NoKey

Public ==
    CASE account.state \in {"unenrolled", "pending"} -> [state |-> "unenrolled"]
      [] account.state \in {"unconfirmed", "enrolled"} ->
            [state |-> account.state, password |-> Password, key |-> account.key]

Operator == INSTANCE OperatorAccount
    WITH Secrets <- {Password}, Weak <- {}, account <- Public, safe <- Public

(* The service changes the account only as the state table allows. *)
ImplementsOperator == Operator!Spec

(* How an operation may change the account, whatever it returns. *)
Transition ==
    \/ UNCHANGED account
    \/ account' = Unenrolled
    \/ account.state = "unenrolled" /\ account'.state = "pending"
    \/ account.state = "pending" /\ account'.state = "unconfirmed" /\ account'.key \in Keys
    \/ account.state = "unconfirmed" /\ account'.state = "enrolled" /\ account'.key = account.key

(* Of one operation, from its result. *)
LEMMA OperationTransition ==
    ASSUME Inv, NEW r \in Requests, account' = operation(r).account
    PROVE  Transition
  <1>1. account \in AccountType /\ drawn \in Nat
    BY CallTyped DEF Inv, TypeOK
  <1>2. Keeps.account = account /\ \A a, k : Result(a, k).account = a
    BY DEF Keeps, Result
  <1>3. CASE operation(r) = consume_pairing
    <2>1. CASE account.state = "pending" /\ drawn < KEYS
      <3>1. account' = [state |-> "unconfirmed", key |-> drawn + 1]
        BY <1>2, <1>3, <2>1 DEF consume_pairing
      <3> QED BY <1>1, <2>1, <3>1, KeysAssumption DEF Transition, Keys
    <2>2. CASE ~(account.state = "pending" /\ drawn < KEYS)
      BY <1>2, <1>3, <2>2 DEF consume_pairing, Transition
    <2> QED BY <2>1, <2>2
  <1>4. CASE operation(r) = confirm_recovery_key(r)
    BY <1>1, <1>2, <1>4 DEF confirm_recovery_key, Transition, AccountType
  <1>5. CASE operation(r) = ensure_pending_pairing
    BY <1>1, <1>2, <1>5 DEF ensure_pending_pairing, Transition, Unenrolled
  <1>6. CASE operation(r) = cancel_pending_pairing
    BY <1>1, <1>2, <1>6 DEF cancel_pending_pairing, Transition
  <1>7. CASE operation(r) \in {Result(Unenrolled, NoKey), Keeps}
    BY <1>2, <1>7 DEF Transition
  <1> QED BY <1>3, <1>4, <1>5, <1>6, <1>7 DEF operation

(* Every step of every request changes the account in one of these ways. *)
LEMMA EveryTransition == ASSUME Inv, [Next]_vars PROVE Transition
  <1>1. CASE UNCHANGED account
    BY <1>1 DEF Transition
  <1>2. ASSUME NEW r \in Requests, with_core(r) \/ panics(r)
        PROVE  Transition
    <2>1. account' \in {account, operation(r).account, Unenrolled}
      BY <1>2 DEF with_core, panics, Outcomes, Keeps, Result
    <2> QED BY <2>1, OperationTransition DEF Transition
  <1>3. ASSUME NEW r \in Requests, Calls(r) \/ Serves(r) \/ GivesUp(r),
               ~(with_core(r) \/ panics(r))
        PROVE  UNCHANGED account
    BY <1>3 DEF Calls, Serves, GivesUp, login, pair, recover, look, confirm, platform, Begins,
       sender_uid, sender_uid_fails, refuses, run
  <1>4. CASE Expires \/ Restart
    BY <1>4 DEF Expires, Restart, Transition
  <1> QED BY <1>1, <1>2, <1>3, <1>4 DEF Next, CallsEnd, vars

(* Whatever is queued, given up on, lost or panics, the account takes only   *)
(* the steps of the documentation's state table: a request that waited for   *)
(* the lock finds the state it needs or changes nothing (service.rs: the     *)
(* operation reads the account under the lock).                              *)
THEOREM ServiceRefinesOperator == Spec => ImplementsOperator
  <1>1. Init => Operator!Init
    BY DEF Init, Public, Unenrolled, Operator!Init, Operator!Nobody
  <1>2. Inv /\ Inv' /\ Transition => [Operator!Next]_<<Public, Public>>
    <2> SUFFICES ASSUME Inv, Inv', Transition PROVE [Operator!Next]_<<Public, Public>>
      OBVIOUS
    <2>1. account.state \in {"unenrolled", "pending", "unconfirmed", "enrolled"}
      BY CallTyped DEF Inv, AccountType
    <2>2. CASE UNCHANGED account
      BY <2>2 DEF Public
    <2>3. CASE account' = Unenrolled
      <3>1. Public' = [state |-> "unenrolled"]
        BY <2>3 DEF Public, Unenrolled
      <3> QED BY <3>1 DEF Operator!Next, Operator!Discard, Operator!Becomes, Operator!Nobody
    <2>4. CASE account.state = "unenrolled" /\ account'.state = "pending"
      BY <2>4 DEF Public
    <2>5. CASE account.state = "pending" /\ account'.state = "unconfirmed" /\ account'.key \in Keys
      <3>1. /\ Public = [state |-> "unenrolled"]
            /\ Public' = [state |-> "unconfirmed", password |-> Password, key |-> account'.key]
        BY <2>5 DEF Public
      <3>2. Password # account'.key
        BY <2>5, KeysAssumption DEF Password, NoKey, Keys
      <3>3. Operator!Enroll(Password, account'.key)
        BY <3>1, <3>2 DEF Operator!Enroll, Operator!Acceptable, Operator!Becomes,
           Operator!Nobody, Operator!Provisional
      <3> QED BY <2>5, <3>3 DEF Operator!Next
    <2>6. CASE /\ account.state = "unconfirmed" /\ account'.state = "enrolled"
               /\ account'.key = account.key
      <3>1. /\ Public = [state |-> "unconfirmed", password |-> Password, key |-> account.key]
            /\ Public' = [state |-> "enrolled", password |-> Password, key |-> account.key]
        BY <2>6 DEF Public
      <3>2. Operator!Confirm
        BY <3>1 DEF Operator!Confirm, Operator!Becomes, Operator!Final
      <3> QED BY <3>2 DEF Operator!Next
    <2> QED BY <2>2, <2>3, <2>4, <2>5, <2>6 DEF Transition
  <1>3. Inv /\ [Next]_vars => Transition
    BY EveryTransition
  <1> QED BY <1>1, <1>2, <1>3, Invariance, PTL DEF Spec, ImplementsOperator, Operator!Spec
=============================================================================
