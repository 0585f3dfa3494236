------------------------- MODULE RemotedServerProofs -------------------------
(***************************************************************************)
(* Proofs about RemotedServer, for any number of connections, permits,     *)
(* views and withdrawals.  The invariant says, besides the types, what the *)
(* controller has announced at each step of withdraw and establish, which  *)
(* listeners accept meanwhile, and what the checks a connection has passed *)
(* still mean.                                                             *)
(***************************************************************************)
EXTENDS RemotedServer, FiniteSetTheorems, TLAPS

(* What current, marker and publications say at each step. *)
Announced ==
    /\ pc \in {"marker", "current"} => generation < MAX_GENERATION
    /\ pc \in {"current", "close", "withdrawn"} => current.view = NoView
    /\ pc \in {"published", "served"} => current.view # NoView
    /\ current.view # NoView =>
          current.generation = generation /\ publications[generation] = current.view
    /\ pc # "idle" => marker # "present"

(* The loops are those of the generation in force, or just out of force. *)
Listening ==
    /\ pc \in {"idle", "marker", "current", "served"} => loops \subseteq {generation}
    /\ pc = "close" => \A g \in loops : g < generation
    /\ pc \in {"withdrawn", "published"} => loops = {}
    /\ pc = "served" => loops = {generation}

(* What is known of a connection past accept, and past admits. *)
Known ==
    \A c \in Conns : conn[c].stage # "none" =>
        /\ conn[c].generation <= generation
        /\ pc \in {"close", "withdrawn", "published"} => conn[c].generation < generation
        /\ conn[c].stage # "accepted" =>
              /\ publications[conn[c].generation] # NoView
              /\ conn[c].source \in on_link[publications[conn[c].generation]]

Inv == TypeOK /\ Announced /\ MarkerMeansListening /\ Listening /\ Known

-----------------------------------------------------------------------------

(* A stage changes for one connection, and nothing else of it. *)
LEMMA BecomeEffect ==
    ASSUME TypeOK, NEW c \in Conns, NEW s \in Stages, Become(c, s)
    PROVE  /\ conn' \in [Conns -> [stage : Stages, generation : 0 .. MAX_GENERATION,
                                   source : Sources]]
           /\ \A d \in Conns :
                 /\ conn'[d].stage = IF d = c THEN s ELSE conn[d].stage
                 /\ conn'[d].generation = conn[d].generation
                 /\ conn'[d].source = conn[d].source
  BY DEF TypeOK, Become

(* Initially nothing is published, nothing listens and nobody is connected. *)
LEMMA InvInit == Init => Inv
  BY ViewsAssumption, LimitAssumption
     DEF Init, Inv, TypeOK, Announced, MarkerMeansListening, Listening, Known,
         Unpublished, Steps, Stages

(* The controller's steps keep the invariant, each in its place. *)
LEMMA InvController == ASSUME Inv, Controller PROVE Inv'
  <1> USE LimitAssumption, ViewsAssumption DEF Inv
  <1>1. CASE remove_marker
    BY <1>1 DEF remove_marker, remove, TypeOK, Announced, MarkerMeansListening, Listening, Known, Steps
  <1>2. CASE withdraw_current
    BY <1>2 DEF withdraw_current, TypeOK, Announced, MarkerMeansListening, Listening, Known,
                Steps, Unpublished
  <1>3. CASE withdraw_generation
    BY <1>3 DEF withdraw_generation, TypeOK, Announced, MarkerMeansListening, Listening, Known,
                Steps
  <1>4. CASE close
    BY <1>4 DEF close, TypeOK, Announced, MarkerMeansListening, Listening, Known, Steps
  <1>5. ASSUME NEW view \in Views, publish(view) PROVE Inv'
    BY <1>5 DEF publish, TypeOK, Announced, MarkerMeansListening, Listening, Known, Steps
  <1>6. CASE serve
    BY <1>6 DEF serve, TypeOK, Announced, MarkerMeansListening, Listening, Known, Steps
  <1>7. CASE create_marker
    BY <1>7 DEF create_marker, remove, TypeOK, Announced, MarkerMeansListening, Listening, Known, Steps
  <1> QED
    BY <1>1, <1>2, <1>3, <1>4, <1>5, <1>6, <1>7 DEF Controller

(* Accepting is from a loop that is not aborted, and knows nothing yet. *)
LEMMA InvAccept ==
    ASSUME Inv, NEW c \in Conns, NEW g \in 0 .. MAX_GENERATION, NEW source \in Sources,
           accept(c, g, source)
    PROVE  Inv'
  <1>1. g <= generation /\ (pc \in {"close", "withdrawn", "published"} => g < generation)
    BY LimitAssumption DEF Inv, TypeOK, Listening, Steps, accept
  <1>2. conn' \in [Conns -> [stage : Stages, generation : 0 .. MAX_GENERATION, source : Sources]]
    BY DEF Inv, TypeOK, accept, Stages
  <1>3. TypeOK' /\ Announced' /\ MarkerMeansListening' /\ Listening'
    BY <1>2 DEF Inv, TypeOK, Announced, MarkerMeansListening, Listening, accept, controllerVars
  <1>4. Known'
    BY <1>1, <1>2 DEF Inv, TypeOK, Known, accept, controllerVars
  <1> QED BY <1>3, <1>4 DEF Inv

(* A connection that goes to a later stage without a check, or ends, is still *)
(* known for what it was: the controller has not moved.                       *)
LEMMA InvBecome ==
    ASSUME Inv, NEW c \in Conns, NEW s \in Stages, Become(c, s), UNCHANGED controllerVars,
           permits' \in 0 .. MAX_CONNECTIONS,
           conn[c].stage # "none" \/ s = "none",
           s \in {"none", "accepted"} \/ conn[c].stage \notin {"none", "accepted"}
             \/ admits(conn[c].generation, conn[c].source)
    PROVE  Inv'
  <1>1. /\ conn' \in [Conns -> [stage : Stages, generation : 0 .. MAX_GENERATION,
                                source : Sources]]
        /\ \A d \in Conns :
              /\ conn'[d].stage = IF d = c THEN s ELSE conn[d].stage
              /\ conn'[d].generation = conn[d].generation
              /\ conn'[d].source = conn[d].source
    BY BecomeEffect DEF Inv
  <1>2. TypeOK' /\ Announced' /\ MarkerMeansListening' /\ Listening'
    BY <1>1 DEF Inv, TypeOK, Announced, MarkerMeansListening, Listening, controllerVars
  <1>3. admits(conn[c].generation, conn[c].source) =>
            /\ publications[conn[c].generation] # NoView
            /\ conn[c].source \in on_link[publications[conn[c].generation]]
    BY DEF Inv, Announced, admits
  <1>4. Known'
    BY <1>1, <1>3 DEF Inv, Known, controllerVars
  <1> QED BY <1>2, <1>4 DEF Inv

-----------------------------------------------------------------------------
(* Permits *)

(* The tasks that hold a permit are finitely many, and change by at most one. *)
LEMMA HoldingChanges ==
    ASSUME TypeOK, NEW c \in Conns, NEW s \in Stages, Become(c, s)
    PROVE  /\ IsFiniteSet(Holding) /\ Cardinality(Holding) \in Nat
           /\ Cardinality(Holding') =
                IF s \in {"spawned", "serving"}
                THEN IF c \in Holding THEN Cardinality(Holding) ELSE Cardinality(Holding) + 1
                ELSE IF c \in Holding THEN Cardinality(Holding) - 1 ELSE Cardinality(Holding)
  <1>1. IsFiniteSet(Holding) /\ Cardinality(Holding) \in Nat
    BY ConnsAssumption, FS_Subset, FS_CardinalityType DEF Holding
  <1>2. Holding' = IF s \in {"spawned", "serving"} THEN Holding \cup {c} ELSE Holding \ {c}
    BY BecomeEffect DEF Holding
  <1> QED BY <1>1, <1>2, FS_AddElement, FS_RemoveElement

IInv == Inv /\ PermitsBalance

(* A step of a connection keeps the invariant and the balance. *)
LEMMA ConnectionStep ==
    ASSUME IInv, NEW c \in Conns,
           \/ check_admits(c) \/ try_acquire(c) \/ subscribe(c) \/ work_ends(c) \/ changes(c)
    PROVE  IInv'
  <1> USE LimitAssumption
  <1>t. TypeOK /\ Inv /\ permits + Cardinality(Holding) = MAX_CONNECTIONS
    BY DEF IInv, Inv, PermitsBalance
  <1>s. {"none", "accepted", "admitted", "spawned", "serving"} \subseteq Stages
    BY DEF Stages
  <1>1. CASE check_admits(c)
    <2> DEFINE s == IF admits(conn[c].generation, conn[c].source) THEN "admitted" ELSE "none"
    <2>1. /\ s \in Stages /\ Become(c, s) /\ UNCHANGED <<controllerVars, permits>>
          /\ conn[c].stage = "accepted"
      BY <1>1, <1>s DEF check_admits
    <2>2. Inv'
      BY <1>t, <2>1, InvBecome DEF TypeOK
    <2>3. Cardinality(Holding') = Cardinality(Holding)
      BY <1>t, <2>1, HoldingChanges DEF Holding
    <2> QED BY <1>t, <2>1, <2>2, <2>3 DEF IInv, PermitsBalance
  <1>2. CASE try_acquire(c)
    <2>1. CASE permits = 0 /\ Become(c, "none") /\ UNCHANGED permits
      <3>1. conn[c].stage = "admitted" /\ UNCHANGED controllerVars
        BY <1>2 DEF try_acquire
      <3>2. Inv'
        BY <1>t, <1>s, <2>1, <3>1, InvBecome DEF TypeOK
      <3>3. Cardinality(Holding') = Cardinality(Holding)
        BY <1>t, <1>s, <2>1, <3>1, HoldingChanges DEF Holding
      <3> QED BY <1>t, <2>1, <3>2, <3>3 DEF IInv, PermitsBalance
    <2>2. CASE permits > 0 /\ Become(c, "spawned") /\ permits' = permits - 1
      <3>1. conn[c].stage = "admitted" /\ UNCHANGED controllerVars
        BY <1>2 DEF try_acquire
      <3>2. permits' \in 0 .. MAX_CONNECTIONS
        BY <1>t, <2>2 DEF TypeOK
      <3>3. Inv'
        BY <1>t, <1>s, <2>2, <3>1, <3>2, InvBecome
      <3>4. Cardinality(Holding) \in Nat /\ Cardinality(Holding') = Cardinality(Holding) + 1
        BY <1>t, <1>s, <2>2, <3>1, HoldingChanges DEF Holding
      <3> QED BY <1>t, <2>2, <3>3, <3>4 DEF IInv, PermitsBalance, TypeOK
    <2> QED BY <1>2, <2>1, <2>2 DEF try_acquire
  <1>3. ASSUME conn[c].stage \in {"spawned", "serving"}, Become(c, "none"),
               permits' = permits + 1, UNCHANGED controllerVars
        PROVE  IInv'
    <2>1. /\ Cardinality(Holding) \in Nat \ {0}
          /\ Cardinality(Holding') = Cardinality(Holding) - 1
      <3>1. c \in Holding /\ IsFiniteSet(Holding) /\ Cardinality(Holding) \in Nat
        BY <1>t, <1>s, <1>3, HoldingChanges DEF Holding
      <3>2. Cardinality(Holding) # 0
        BY <3>1, FS_EmptySet
      <3> QED BY <1>t, <1>s, <1>3, <3>1, <3>2, HoldingChanges
    <2>2. permits' \in 0 .. MAX_CONNECTIONS
      BY <1>t, <1>3, <2>1 DEF TypeOK
    <2>3. Inv'
      BY <1>t, <1>s, <1>3, <2>2, InvBecome
    <2> QED BY <1>t, <1>3, <2>1, <2>3 DEF IInv, PermitsBalance, TypeOK
  <1>4. CASE subscribe(c)
    <2>1. CASE conn[c].generation = generation /\ Become(c, "serving") /\ UNCHANGED permits
      <3>1. conn[c].stage = "spawned" /\ UNCHANGED controllerVars
        BY <1>4 DEF subscribe
      <3>2. Inv'
        BY <1>t, <1>s, <2>1, <3>1, InvBecome DEF TypeOK
      <3>3. Cardinality(Holding') = Cardinality(Holding)
        BY <1>t, <1>s, <2>1, <3>1, HoldingChanges DEF Holding
      <3> QED BY <1>t, <2>1, <3>2, <3>3 DEF IInv, PermitsBalance
    <2> QED BY <1>3, <1>4, <2>1 DEF subscribe
  <1>5. CASE work_ends(c)
    BY <1>3, <1>5 DEF work_ends
  <1>6. CASE changes(c)
    BY <1>3, <1>6 DEF changes
  <1> QED BY <1>1, <1>2, <1>4, <1>5, <1>6

(* The invariant is inductive. *)
LEMMA InvNext == IInv /\ [Next]_vars => IInv'
  <1> SUFFICES ASSUME IInv, [Next]_vars PROVE IInv'
    OBVIOUS
  <1>1. CASE Controller
    <2>1. UNCHANGED <<permits, conn>>
      BY <1>1 DEF Controller, remove_marker, withdraw_current, withdraw_generation, close,
                  publish, serve, create_marker
    <2>2. PermitsBalance'
      BY <2>1 DEF IInv, PermitsBalance, Holding
    <2> QED BY <1>1, <2>2, InvController DEF IInv
  <1>2. ASSUME NEW c \in Conns, NEW g \in 0 .. MAX_GENERATION, NEW source \in Sources,
               accept(c, g, source)
        PROVE  IInv'
    <2>1. Holding' = Holding
      BY <1>2 DEF accept, Holding, IInv, Inv, TypeOK
    <2>2. PermitsBalance'
      BY <1>2, <2>1 DEF accept, IInv, PermitsBalance
    <2> QED BY <1>2, <2>2, InvAccept DEF IInv
  <1>3. ASSUME NEW c \in Conns,
               \/ check_admits(c) \/ try_acquire(c) \/ subscribe(c) \/ work_ends(c) \/ changes(c)
        PROVE  IInv'
    BY <1>3, ConnectionStep
  <1>4. CASE UNCHANGED vars
    BY <1>4 DEF vars, controllerVars, IInv, Inv, TypeOK, Announced, MarkerMeansListening,
                Listening, Known, PermitsBalance, Holding
  <1> QED BY <1>1, <1>2, <1>3, <1>4 DEF Next

(* The invariant holds in every reachable state. *)
LEMMA InvAlways == Spec => []IInv
  <1>1. Init => IInv
    <2> SUFFICES ASSUME Init PROVE IInv
      OBVIOUS
    <2>1. Holding = {} /\ permits = MAX_CONNECTIONS
      BY DEF Init, Holding
    <2>2. Cardinality(Holding) = 0
      BY <2>1, FS_EmptySet
    <2>3. PermitsBalance
      BY <2>1, <2>2, LimitAssumption DEF PermitsBalance
    <2> QED BY <2>3, InvInit DEF IInv
  <1> QED BY <1>1, InvNext, PTL DEF Spec

-----------------------------------------------------------------------------

(* Types: in every reachable state (server.rs, controller.rs). *)
THEOREM ServerTypes == Spec => []TypeOK
  BY InvAlways, PTL DEF IInv, Inv

(* The 64 permits are the free ones and those of the tasks, one each: no way  *)
(* out of serve_connection loses one or gives one back twice.                 *)
THEOREM PermitsAlwaysBalance == Spec => []PermitsBalance
  BY InvAlways, PTL DEF IInv

(* Whoever is served was on link in the view under which it was accepted.     *)
THEOREM OnlyOnLinkServed == Spec => []ServedOnLink
  <1>1. IInv => ServedOnLink
    BY DEF IInv, Inv, TypeOK, Known, ServedOnLink
  <1> QED BY <1>1, InvAlways, PTL

(* The marker of listening never promises more than is listening, unless it   *)
(* could not be removed.                                                      *)
THEOREM MarkerIsHonest == Spec => []MarkerMeansListening
  BY InvAlways, PTL DEF IInv, Inv

(* After withdraw, no connection is left of the generation in force.          *)
THEOREM WithdrawalIsComplete == Spec => []NothingSurvivesWithdrawal
  <1>1. IInv => NothingSurvivesWithdrawal
    BY DEF IInv, Inv, Listening, Known, NothingSurvivesWithdrawal
  <1> QED BY <1>1, InvAlways, PTL

(* A connection enters service only under the generation in force then.       *)
THEOREM ServiceIsCurrent == Spec => ServiceStartsCurrent
  <1> DEFINE A == \A c \in Conns :
                     conn[c].stage # "serving" /\ conn'[c].stage = "serving"
                         => conn[c].generation = generation
  <1>1. IInv /\ [Next]_vars => A \/ UNCHANGED vars
    <2> SUFFICES ASSUME IInv, Next, NEW d \in Conns,
                        conn[d].stage # "serving", conn'[d].stage = "serving"
                 PROVE  conn[d].generation = generation
      OBVIOUS
    <2>t. TypeOK
      BY DEF IInv, Inv
    <2>1. ASSUME NEW c \in Conns, NEW s \in Stages \ {"serving"}, Become(c, s) PROVE FALSE
      BY <2>1, <2>t, BecomeEffect
    <2>2. ASSUME NEW c \in Conns, conn[c].generation = generation, Become(c, "serving")
          PROVE  conn[d].generation = generation
      BY <2>2, <2>t, BecomeEffect DEF Stages
    <2>3. ~Controller
      BY DEF Controller, remove_marker, withdraw_current, withdraw_generation, close,
             publish, serve, create_marker
    <2>4. ASSUME NEW c \in Conns, NEW g \in 0 .. MAX_GENERATION, NEW source \in Sources,
                 accept(c, g, source)
          PROVE  FALSE
      BY <2>4, <2>t DEF accept, TypeOK
    <2>5. ASSUME NEW c \in Conns,
                 \/ check_admits(c) \/ try_acquire(c) \/ subscribe(c) \/ work_ends(c)
                 \/ changes(c)
          PROVE  conn[d].generation = generation
      BY <2>1, <2>2, <2>5
         DEF check_admits, try_acquire, subscribe, work_ends, changes, Stages
    <2> QED BY <2>3, <2>4, <2>5 DEF Next
  <1> QED BY <1>1, InvAlways, PTL DEF Spec, ServiceStartsCurrent
=============================================================================
