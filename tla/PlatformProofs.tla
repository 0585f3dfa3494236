--------------------------- MODULE PlatformProofs ---------------------------
(***************************************************************************)
(* Proofs about the two sides of sl-platformd beside remote management:    *)
(* what it observes of the network (NetworkObservation) and what it does   *)
(* to the deployments (DeploymentMutations).                               *)
(*                                                                         *)
(* Of the network, for any number of callers, tasks and connections: an    *)
(* observation that has not published its value is the one in the slot,    *)
(* and the observer reads for a live observation only while that one waits *)
(* for it; so of two observations one has published before the other       *)
(* begins, and cannot have the observer busy.  All that is read in one     *)
(* reading is of one connection.  And a prefix contains exactly the hosts  *)
(* that agree with it bit by bit, for addresses of any width: by induction *)
(* over the leading bits, as a least number of them that disagreed.        *)
(***************************************************************************)
EXTENDS NetworkObservation, DeploymentMutations, WellFoundedInduction, TLAPS

(* What has no value to give yet is what the next caller joins. *)
SlotIsTheirs == \A f \in Flights : flight[f] \in {"begins", "asks", "value"} => slot = f

(* The observer's reply goes to an observation that waits for it. *)
AskerAsks ==
    reading.at # "idle" /\ reading.live /\ reading.asker # "console" =>
        flight[reading.asker] = "asks"

Inv == TypeOK /\ SlotIsTheirs /\ AskerAsks

-----------------------------------------------------------------------------

(* Nothing is under way at first. *)
LEMMA InvInit == Init => Inv
  BY FlightsAssumption DEF Init, Inv, TypeOK, SlotIsTheirs, AskerAsks, Idle

(* The observer, between two reads or at the end of them. *)
LEMMA InvContinues ==
    ASSUME Inv, NEW place \in {"device", "ip4", "ip6"}, NEW path \in Connections \cup {NoConnection},
           NEW addresses \in SUBSET Address, reading.at # "idle", Continues(place, path, addresses)
    PROVE  Inv'
  BY DEF Inv, TypeOK, SlotIsTheirs, AskerAsks, Continues

LEMMA InvReplies ==
    ASSUME Inv, NEW ok \in BOOLEAN, NEW path \in Connections \cup {NoConnection},
           NEW addresses \in SUBSET Address, reading.at # "idle", Replies(ok, path, addresses)
    PROVE  Inv'
  <1>1. reading' = Idle
    BY DEF Replies
  <1>2. TypeOK'
    <2>1. flight' \in [Flights -> {"none", "begins", "asks", "value", "unwinds"}]
      BY DEF Inv, TypeOK, Replies
    <2>2. console' \in [at : {"none", "asks", "shown"},
                        path : Connections \cup {NoConnection}, addresses : SUBSET Address]
      BY DEF Inv, TypeOK, Replies
    <2> QED BY <1>1, <2>1, <2>2 DEF Inv, TypeOK, Replies, Idle
  <1>3. SlotIsTheirs'
    BY DEF Inv, TypeOK, SlotIsTheirs, AskerAsks, Replies
  <1>4. AskerAsks'
    BY <1>1 DEF AskerAsks, Idle
  <1> QED BY <1>2, <1>3, <1>4 DEF Inv

LEMMA InvObserver == ASSUME Inv, Observer PROVE Inv'
  <1> USE DEF Inv
  <1>t. /\ nm.path \in Connections \cup {NoConnection} /\ reading.path \in Connections \cup {NoConnection}
        /\ nm.addresses \in SUBSET Address /\ reading.addresses \in SUBSET Address
        /\ {} \in SUBSET Address /\ TRUE \in BOOLEAN /\ FALSE \in BOOLEAN
        /\ NoConnection \in Connections \cup {NoConnection}
    BY DEF TypeOK
  <1>c. \A c \in Connections \cup {NoConnection} : Configs[c] \subseteq SUBSET Address
    BY ConfigsAssumption
  <1>f. ASSUME NEW now \in Readable
        PROVE  /\ Of(now, 4) \in SUBSET Address
               /\ reading.addresses \cup Of(now, 6) \in SUBSET Address
    BY <1>t, <1>c, <1>f DEF Of, Readable
  <1>1. CASE read_primary
    <2>1. CASE nm.path = NoConnection
      BY <1>1, <1>t, <2>1, InvReplies DEF read_primary
    <2>2. CASE nm.path # NoConnection
      BY <1>1, <1>t, <2>2, InvContinues DEF read_primary
    <2> QED BY <2>1, <2>2
  <1>2. CASE read_device
    BY <1>2, <1>t, InvContinues DEF read_device
  <1>3. CASE read_ip4
    BY <1>3, <1>t, <1>f, InvContinues DEF read_ip4
  <1>4. CASE read_ip6
    BY <1>4, <1>t, <1>f, InvReplies DEF read_ip6
  <1>5. CASE read_fails
    BY <1>5, <1>t, InvReplies DEF read_fails
  <1> QED BY <1>1, <1>2, <1>3, <1>4, <1>5 DEF Observer

(* NetworkManager changes nothing but what will be read. *)
LEMMA InvNetworkManager == ASSUME Inv, NetworkManager PROVE Inv'
  <1>1. ASSUME NEW c \in Connections \cup {NoConnection}, NEW addresses \in SUBSET Address,
               Activates(c, addresses)
        PROVE  Inv'
    <2>1. PICK replaced \in BOOLEAN : reading' = [reading EXCEPT !.replaced = replaced]
      <3>1. (reading.at \in {"device", "ip4", "ip6"}) \in BOOLEAN
        OBVIOUS
      <3> QED BY <1>1, <3>1, Zenon DEF Activates
    <2>2. nm' \in [path : Connections \cup {NoConnection}, addresses : SUBSET Address]
      BY <1>1 DEF Activates
    <2>3. UNCHANGED <<slot, flight, caller, console>>
      BY <1>1 DEF Activates
    <2> QED BY <2>1, <2>2, <2>3 DEF Inv, TypeOK, SlotIsTheirs, AskerAsks
  <1>2. ASSUME NEW addresses \in SUBSET Address, Readdresses(addresses) PROVE Inv'
    BY <1>2 DEF Inv, TypeOK, SlotIsTheirs, AskerAsks, Readdresses
  <1>3. \A c \in Connections \cup {NoConnection} : Configs[c] \subseteq SUBSET Address
    BY ConfigsAssumption
  <1>4. nm.path \in Connections \cup {NoConnection}
    BY DEF Inv, TypeOK
  <1> QED BY <1>1, <1>2, <1>3, <1>4 DEF NetworkManager

-----------------------------------------------------------------------------
(* sl-platformd *)

(* What is given up waiting for keeps the observer's asker honest. *)
LEMMA AbandonsEffect ==
    ASSUME TypeOK, NEW asker \in Flights \cup {"console"}, Abandons(asker)
    PROVE  /\ reading' \in [at : {"idle", "primary", "device", "ip4", "ip6"},
                            asker : Flights \cup {"console"}, live : BOOLEAN, replaced : BOOLEAN,
                            path : Connections \cup {NoConnection}, addresses : SUBSET Address]
           /\ reading'.at = reading.at /\ reading'.asker = reading.asker
           /\ reading'.live => reading.live /\ reading.asker # asker
  BY DEF TypeOK, Abandons

(* A new reading is for whoever asked. *)
LEMMA AsksEffect ==
    ASSUME NEW asker \in Flights \cup {"console"}
    PROVE  /\ Asks(asker) \in [at : {"idle", "primary", "device", "ip4", "ip6"},
                               asker : Flights \cup {"console"}, live : BOOLEAN, replaced : BOOLEAN,
                               path : Connections \cup {NoConnection}, addresses : SUBSET Address]
           /\ Asks(asker).asker = asker
  BY DEF Asks, Idle

LEMMA InvGetStatus ==
    ASSUME Inv, NEW c \in Callers, get_status(c)
    PROVE  Inv'
  <1>1. CASE slot # NoFlight
    BY <1>1 DEF Inv, TypeOK, SlotIsTheirs, AskerAsks, get_status
  <1>2. CASE slot = NoFlight
    <2>1. PICK f \in Flights : /\ flight[f] = "none" /\ slot' = f
                               /\ flight' = [flight EXCEPT ![f] = "begins"]
                               /\ caller' = [caller EXCEPT ![c] = f]
                               /\ UNCHANGED <<nm, reading, console>>
      BY <1>2 DEF get_status
    <2>2. TypeOK'
      BY <2>1 DEF Inv, TypeOK
    <2>3. \A g \in Flights : flight[g] \notin {"begins", "asks", "value"}
      BY <1>2, FlightsAssumption DEF Inv, SlotIsTheirs
    <2>4. SlotIsTheirs'
      BY <2>1, <2>3 DEF Inv, TypeOK, SlotIsTheirs
    <2>5. AskerAsks'
      BY <2>1, <2>3 DEF Inv, TypeOK, AskerAsks
    <2> QED BY <2>2, <2>4, <2>5 DEF Inv
  <1> QED BY <1>1, <1>2

LEMMA InvFlight ==
    ASSUME Inv, NEW f \in Flights,
           \/ observe_network(f) \/ observe_fails(f) \/ publish(f) \/ drop(f) \/ panics(f)
    PROVE  Inv'
  <1>1. CASE observe_network(f)
    <2>1. CASE reading.at = "idle"
      <3>1. reading' = Asks(f) /\ flight' = [flight EXCEPT ![f] = "asks"]
            /\ UNCHANGED <<nm, slot, caller, console>> /\ flight[f] = "begins"
        BY <1>1, <2>1 DEF observe_network
      <3> HIDE DEF Asks
      <3> QED BY <3>1, AsksEffect DEF Inv, TypeOK, SlotIsTheirs, AskerAsks
    <2>2. CASE reading.at # "idle"
      BY <1>1, <2>2 DEF observe_network, Inv, TypeOK, SlotIsTheirs, AskerAsks
    <2> QED BY <2>1, <2>2
  <1>2. CASE observe_fails(f)
    <2>1. TypeOK' /\ SlotIsTheirs'
      BY <1>2, AbandonsEffect DEF observe_fails, Inv, TypeOK, SlotIsTheirs
    <2>2. AskerAsks'
      BY <1>2, AbandonsEffect DEF observe_fails, Inv, TypeOK, AskerAsks
    <2> QED BY <2>1, <2>2 DEF Inv
  <1>3. CASE publish(f)
    BY <1>3, FlightsAssumption DEF publish, clear, Answers, Inv, TypeOK, SlotIsTheirs, AskerAsks
  <1>4. CASE drop(f)
    BY <1>4 DEF drop, clear, Inv, TypeOK, SlotIsTheirs, AskerAsks
  <1>5. CASE panics(f)
    <2>1. TypeOK' /\ SlotIsTheirs'
      BY <1>5, AbandonsEffect DEF panics, clear, Answers, Inv, TypeOK, SlotIsTheirs
    <2>2. AskerAsks'
      BY <1>5, AbandonsEffect DEF panics, Inv, TypeOK, AskerAsks
    <2> QED BY <2>1, <2>2 DEF Inv
  <1> QED BY <1>1, <1>2, <1>3, <1>4, <1>5

LEMMA InvPlatform == ASSUME Inv, Platform PROVE Inv'
  <1>1. ASSUME NEW c \in Callers, leaves(c) PROVE Inv'
    BY <1>1 DEF leaves, Inv, TypeOK, SlotIsTheirs, AskerAsks
  <1>2. CASE enrollment
    <2>1. /\ reading' = Asks("console") \/ reading' = reading
          /\ console' = [console EXCEPT !.at = "asks"] \/ console' = console
          /\ UNCHANGED <<nm, slot, flight, caller>>
      BY <1>2 DEF enrollment
    <2> QED BY <2>1, AsksEffect DEF Inv, TypeOK, SlotIsTheirs, AskerAsks
  <1>3. CASE enrollment_fails
    BY <1>3, AbandonsEffect DEF enrollment_fails, Inv, TypeOK, SlotIsTheirs, AskerAsks
  <1>4. CASE enrollment_ends
    BY <1>4 DEF enrollment_ends, Inv, TypeOK, SlotIsTheirs, AskerAsks
  <1> QED BY <1>1, <1>2, <1>3, <1>4, InvGetStatus, InvFlight DEF Platform

LEMMA InvNext == Inv /\ [Next]_vars => Inv'
  <1> SUFFICES ASSUME Inv, [Next]_vars PROVE Inv'
    OBVIOUS
  <1>1. CASE UNCHANGED vars
    BY <1>1 DEF vars, Inv, TypeOK, SlotIsTheirs, AskerAsks
  <1> QED BY <1>1, InvObserver, InvNetworkManager, InvPlatform DEF Next

LEMMA Invariance == Spec => []Inv
  BY InvInit, InvNext, PTL DEF Spec

-----------------------------------------------------------------------------

(* Every variable has its type in every reachable state. *)
THEOREM ObservationTyped == Spec => []TypeOK
  <1>1. Inv => TypeOK
    BY DEF Inv
  <1> QED BY <1>1, Invariance, PTL

(* A status observation that finds the observer busy is never refused for    *)
(* the sake of another one (shared_read.rs: same_channel).                   *)
THEOREM StatusNeverRefused == Spec => []NeverRefuseEachOther
  <1>1. Inv => NeverRefuseEachOther
    BY DEF Inv, TypeOK, SlotIsTheirs, AskerAsks, NeverRefuseEachOther
  <1> QED BY <1>1, Invariance, PTL
-----------------------------------------------------------------------------
(* The URL.  NetworkManager may go on to another connection between any two  *)
(* reads; what was read is of the connection the reading began with, whether *)
(* its objects are still there or not: those of the other are never read.    *)

ConnectionOwn == nm.addresses \subseteq Addresses(nm.path)

ReadingOwn ==
    reading.at \in {"device", "ip4", "ip6"} =>
        /\ reading.replaced \/ reading.path = nm.path
        /\ reading.addresses \subseteq Addresses(reading.path)

ConsoleOwn == console.addresses \subseteq Addresses(console.path)

ReadInv == ConnectionOwn /\ ReadingOwn /\ ConsoleOwn

LEMMA ReadInit == Init => ReadInv
  BY DEF Init, ReadInv, ConnectionOwn, ReadingOwn, ConsoleOwn, Idle

LEMMA ReadContinues ==
    ASSUME Inv, ReadInv, NEW place, NEW path, NEW addresses, Continues(place, path, addresses),
           reading.replaced \/ path = nm.path, addresses \subseteq Addresses(path)
    PROVE  ReadInv'
  <1>1. reading'.path = path /\ reading'.addresses = addresses /\ reading'.replaced = reading.replaced
    BY DEF Inv, TypeOK, Continues
  <1>2. UNCHANGED <<nm, console>>
    BY DEF Continues
  <1> QED BY <1>1, <1>2 DEF ReadInv, ConnectionOwn, ReadingOwn, ConsoleOwn

LEMMA ReadReplies ==
    ASSUME Inv, ReadInv, NEW ok \in BOOLEAN, NEW path, NEW addresses,
           Replies(ok, path, addresses), addresses \in SUBSET Addresses(path)
    PROVE  ReadInv'
  <1>1. reading'.at = "idle" /\ UNCHANGED nm
    BY DEF Replies, Idle
  <1>2. \/ console'.path = path /\ console'.addresses = addresses
        \/ console'.path = console.path /\ console'.addresses = console.addresses
    BY DEF Inv, TypeOK, Replies
  <1> QED BY <1>1, <1>2 DEF ReadInv, ConnectionOwn, ReadingOwn, ConsoleOwn

LEMMA ReadObserver == ASSUME Inv, ReadInv, Observer PROVE ReadInv'
  <1>e. {} \in SUBSET Addresses(NoConnection) /\ {} \subseteq Addresses(nm.path)
    OBVIOUS
  <1>b. TRUE \in BOOLEAN /\ FALSE \in BOOLEAN
    OBVIOUS
  <1>r. reading.at \in {"ip4", "ip6"} => \A now \in Readable : now \subseteq Addresses(reading.path)
    BY DEF Readable, ReadInv, ReadingOwn, ConnectionOwn, Addresses
  <1>1. CASE read_primary
    <2>1. CASE nm.path = NoConnection
      BY <1>1, <1>e, <1>b, <2>1, ReadReplies DEF read_primary
    <2>2. CASE nm.path # NoConnection
      BY <1>1, <1>e, <2>2, ReadContinues DEF read_primary
    <2> QED BY <2>1, <2>2
  <1>2. CASE read_device
    BY <1>2, ReadContinues DEF read_device, ReadInv, ReadingOwn
  <1>3. CASE read_ip4
    <2>1. /\ reading.replaced \/ reading.path = nm.path
          /\ \A now \in Readable : Of(now, 4) \subseteq Addresses(reading.path)
      BY <1>3, <1>r DEF read_ip4, ReadInv, ReadingOwn, Of
    <2> QED BY <1>3, <2>1, ReadContinues DEF read_ip4
  <1>4. CASE read_ip6
    <2>1. \A now \in Readable :
            reading.addresses \cup Of(now, 6) \in SUBSET Addresses(reading.path)
      BY <1>4, <1>r DEF read_ip6, ReadInv, ReadingOwn, Of
    <2> QED BY <1>4, <1>b, <2>1, ReadReplies DEF read_ip6
  <1>5. CASE read_fails
    BY <1>5, <1>e, <1>b, ReadReplies DEF read_fails
  <1> QED BY <1>1, <1>2, <1>3, <1>4, <1>5 DEF Observer

LEMMA ReadNetworkManager == ASSUME Inv, ReadInv, NetworkManager PROVE ReadInv'
  <1>1. ASSUME NEW c, NEW addresses, addresses \subseteq Addresses(c), Activates(c, addresses)
        PROVE  ReadInv'
    <2>1. /\ reading'.at = reading.at /\ reading'.path = reading.path
          /\ reading'.addresses = reading.addresses
      BY <1>1 DEF Activates, Inv, TypeOK
    <2>2. reading.at \in {"device", "ip4", "ip6"} => reading'.replaced
      BY <1>1 DEF Activates, Inv, TypeOK
    <2>3. nm'.path = c /\ nm'.addresses = addresses /\ UNCHANGED console
      BY <1>1 DEF Activates
    <2> QED BY <1>1, <2>1, <2>2, <2>3 DEF ReadInv, ConnectionOwn, ReadingOwn, ConsoleOwn
  <1>2. ASSUME NEW addresses, addresses \subseteq Addresses(nm.path), Readdresses(addresses)
        PROVE  ReadInv'
    <2>1. nm'.path = nm.path /\ nm'.addresses = addresses /\ UNCHANGED <<reading, console>>
      BY <1>2 DEF Readdresses, Inv, TypeOK
    <2> QED BY <1>2, <2>1 DEF ReadInv, ConnectionOwn, ReadingOwn, ConsoleOwn
  <1>3. \A c : \A addresses \in Configs[c] : addresses \subseteq Addresses(c)
    BY DEF Addresses
  <1> QED BY <1>1, <1>2, <1>3 DEF NetworkManager

(* sl-platformd starts a reading or stops waiting for one; the next menu     *)
(* forgets the URL.                                                          *)
LEMMA ReadPlatform == ASSUME Inv, ReadInv, Platform PROVE ReadInv'
  <1>1. ASSUME NEW asker, Abandons(asker)
        PROVE  /\ reading'.at = reading.at /\ reading'.path = reading.path
               /\ reading'.addresses = reading.addresses /\ reading'.replaced = reading.replaced
    BY <1>1 DEF Abandons, Inv, TypeOK
  <1>2. \A asker : Asks(asker).at = "primary"
    BY DEF Asks, Idle
  <1>3. \/ reading' = reading
        \/ \E asker : Abandons(asker)
        \/ \E asker : reading' = Asks(asker)
    BY DEF Platform, get_status, leaves, observe_network, observe_fails, publish, drop, panics,
           enrollment, enrollment_fails, enrollment_ends
  <1>4. ReadingOwn' \/ nm' # nm
    BY <1>1, <1>2, <1>3 DEF ReadInv, ReadingOwn
  <1>5. UNCHANGED nm
    BY DEF Platform, get_status, leaves, observe_network, observe_fails, publish, drop, panics,
           enrollment, enrollment_fails, enrollment_ends
  <1>6. \/ console' = console
        \/ \E at : console' = [console EXCEPT !.at = at]
        \/ console' = [at |-> "none", path |-> NoConnection, addresses |-> {}]
    BY DEF Platform, get_status, leaves, observe_network, observe_fails, publish, drop, panics,
           enrollment, enrollment_fails, enrollment_ends
  <1>7. ConsoleOwn'
    BY <1>6 DEF ReadInv, ConsoleOwn, Inv, TypeOK
  <1> QED BY <1>4, <1>5, <1>7 DEF ReadInv, ConnectionOwn

LEMMA ReadNext == Inv /\ ReadInv /\ [Next]_vars => ReadInv'
  <1> SUFFICES ASSUME Inv, ReadInv, [Next]_vars PROVE ReadInv'
    OBVIOUS
  <1>1. CASE UNCHANGED vars
    BY <1>1 DEF vars, ReadInv, ConnectionOwn, ReadingOwn, ConsoleOwn
  <1> QED BY <1>1, ReadObserver, ReadNetworkManager, ReadPlatform DEF Next

(* An address chosen for the URL is one sl-remoted works out for itself.     *)
LEMMA UrlInView ==
    ASSUME NEW addresses, NEW host \in enrollment_url(addresses)
    PROVE  /\ \E a \in addresses : Host(a) = host
           /\ host \in view_from_status(addresses).listen
           /\ canonical(host) = host => on_link(view_from_status(addresses), host)
  <1>1. PICK a \in addresses : eligible(Host(a)) /\ Host(a) = host
    BY DEF enrollment_url, Eligible
  <1>2. listenable(Host(a))
    BY <1>1 DEF eligible, listenable
  <1>3. host \in view_from_status(addresses).listen
    BY <1>1, <1>2 DEF view_from_status
  <1>4. Prefix(a) \in view_from_status(addresses).prefixes
    BY DEF view_from_status
  <1>5. contains(Prefix(a), Host(a))
    BY DEF contains, Prefix, mask, Host
  <1>6. canonical(host) = host => on_link(view_from_status(addresses), host)
    BY <1>1, <1>4, <1>5 DEF on_link
  <1> QED BY <1>1, <1>3, <1>6

LEMMA ReadInvariance == Spec => []ReadInv
  BY Invariance, ReadInit, ReadNext, PTL DEF Spec

LEMMA ReadMeansUrl == ReadInv => UrlOfOneConnection
  BY UrlInView DEF ReadInv, ConsoleOwn, UrlOfOneConnection

(* Every URL on the console is an address of the one connection it was read  *)
(* for, whatever NetworkManager does between the reads, and sl-remoted       *)
(* listens there and lets that host in (network-observer/src/main.rs,        *)
(* remote.rs: enrollment_url, network.rs: view_from_status).                 *)
THEOREM UrlIsOfItsConnection == Spec => []UrlOfOneConnection
  BY ReadInvariance, ReadMeansUrl, PTL

-----------------------------------------------------------------------------
(* Numbers and their bits. *)

(* Induction over the naturals: of a set that lacks a number it lacks the    *)
(* least one.                                                                *)
Below == {p \in Nat \X Nat : p[1] < p[2]}

LEMMA BelowWellFounded == IsWellFoundedOn(Below, Nat)
  <1>1. Below = OpToRel(<, Nat)
    BY DEF Below, OpToRel
  <1> QED BY <1>1, NatLessThanWellFounded

(* A set with 0 and every successor has all. *)
LEMMA SetInduction ==
   ASSUME NEW S \in SUBSET Nat, 0 \in S, \A n \in S : n + 1 \in S
   PROVE  S = Nat
  <1> SUFFICES ASSUME Nat \ S # {} PROVE FALSE
    OBVIOUS
  <1>1. PICK x \in Nat \ S : \A y \in Nat \ S : <<y, x>> \notin Below
    BY BelowWellFounded, WFMin
  <1>2. x # 0 /\ x - 1 \in Nat
    OBVIOUS
  <1>3. <<x - 1, x>> \in Below
    BY <1>2 DEF Below
  <1>4. x - 1 \in S
    BY <1>1, <1>2, <1>3
  <1> QED BY <1>2, <1>4

(* A first part of the powers of two. *)
Doubles(f, n) == f[0] = 1 /\ \A i \in 1 .. n : f[i] = 2 * f[i - 1]

(* There are such parts of any length, and they agree. *)
LEMMA PartExists == \A n \in Nat : \E f \in [0 .. n -> Nat] : Doubles(f, n)
  <1> DEFINE S == {n \in Nat : \E f \in [0 .. n -> Nat] : Doubles(f, n)}
  <1>1. 0 \in S
    <2>1. [i \in 0 .. 0 |-> 1] \in [0 .. 0 -> Nat] /\ Doubles([i \in 0 .. 0 |-> 1], 0)
      BY DEF Doubles
    <2> QED BY <2>1
  <1>2. ASSUME NEW n \in S PROVE n + 1 \in S
    <2>1. PICK f \in [0 .. n -> Nat] : Doubles(f, n)
      BY <1>2
    <2> DEFINE g == [i \in 0 .. n + 1 |-> IF i <= n THEN f[i] ELSE 2 * f[n]]
    <2>2. g \in [0 .. n + 1 -> Nat]
      OBVIOUS
    <2>3. Doubles(g, n + 1)
      BY <2>1 DEF Doubles
    <2> QED BY <2>2, <2>3
  <1>3. S = Nat
    <2> HIDE DEF S
    <2>1. S \in SUBSET Nat
      BY DEF S
    <2> QED BY <1>1, <1>2, <2>1, SetInduction
  <1> QED BY <1>3

LEMMA PartUnique ==
    ASSUME NEW m \in Nat, NEW n \in Nat, NEW f \in [0 .. m -> Nat], NEW g \in [0 .. n -> Nat],
           Doubles(f, m), Doubles(g, n)
    PROVE  \A i \in Nat : i <= m /\ i <= n => f[i] = g[i]
  <1> DEFINE S == {i \in Nat : i <= m /\ i <= n => f[i] = g[i]}
  <1>1. 0 \in S
    BY DEF Doubles
  <1>2. ASSUME NEW i \in S PROVE i + 1 \in S
    BY <1>2 DEF Doubles
  <1>3. S = Nat
    <2> HIDE DEF S
    <2>1. S \in SUBSET Nat
      BY DEF S
    <2> QED BY <1>1, <1>2, <2>1, SetInduction
  <1> QED BY <1>3

(* So there is the function that the recursion of pow2 describes. *)
LEMMA PowersExist == \E f : f = [n \in Nat |-> IF n = 0 THEN 1 ELSE 2 * f[n - 1]]
  <1> DEFINE part(n) == CHOOSE f \in [0 .. n -> Nat] : Doubles(f, n)
  <1> DEFINE F == [n \in Nat |-> part(n)[n]]
  <1>1. \A n \in Nat : part(n) \in [0 .. n -> Nat] /\ Doubles(part(n), n)
    BY PartExists
  <1> HIDE DEF part
  <1>2. ASSUME NEW n \in Nat PROVE F[n] = IF n = 0 THEN 1 ELSE 2 * F[n - 1]
    <2>1. CASE n = 0
      BY <1>1, <2>1 DEF Doubles
    <2>2. CASE n # 0
      <3>1. n - 1 \in Nat
        BY <2>2
      <3>2. part(n)[n] = 2 * part(n)[n - 1]
        BY <1>1, <2>2 DEF Doubles
      <3>3. part(n)[n - 1] = part(n - 1)[n - 1]
        <4>1. /\ part(n) \in [0 .. n -> Nat] /\ Doubles(part(n), n)
              /\ part(n - 1) \in [0 .. n - 1 -> Nat] /\ Doubles(part(n - 1), n - 1)
          BY <1>1, <3>1
        <4>2. \A i \in Nat : i <= n /\ i <= n - 1 => part(n)[i] = part(n - 1)[i]
          BY <3>1, <4>1, PartUnique
        <4> QED BY <3>1, <4>2
      <3> QED BY <2>2, <3>1, <3>2, <3>3
    <2> QED BY <2>1, <2>2
  <1>3. F = [n \in Nat |-> IF n = 0 THEN 1 ELSE 2 * F[n - 1]]
    BY <1>2
  <1> QED BY <1>3

LEMMA PowersDef == pow2 = [n \in Nat |-> IF n = 0 THEN 1 ELSE 2 * pow2[n - 1]]
  BY PowersExist, Zenon DEF pow2

LEMMA PowersStep == pow2[0] = 1 /\ \A n \in Nat : pow2[n + 1] = 2 * pow2[n]
  <1>1. \A n \in Nat : pow2[n] = IF n = 0 THEN 1 ELSE 2 * pow2[n - 1]
    BY PowersDef
  <1> HIDE DEF pow2
  <1> QED BY <1>1

LEMMA PowersPositive == \A n \in Nat : pow2[n] \in Nat \ {0}
  <1> DEFINE S == {n \in Nat : pow2[n] \in Nat \ {0}}
  <1> HIDE DEF pow2
  <1>1. 0 \in S
    BY PowersStep
  <1>2. ASSUME NEW n \in S PROVE n + 1 \in S
    BY <1>2, PowersStep
  <1>3. S = Nat
    <2> HIDE DEF S
    <2>1. S \in SUBSET Nat
      BY DEF S
    <2> QED BY <1>1, <1>2, <2>1, SetInduction
  <1> QED BY <1>3

(* Quotient and remainder. *)
LEMMA DivUnique ==
    ASSUME NEW d \in Nat \ {0}, NEW q \in Nat, NEW r \in Nat, r < d
    PROVE  (d * q + r) \div d = q /\ (d * q + r) % d = r
  OBVIOUS

LEMMA DivMod ==
    ASSUME NEW a \in Nat, NEW d \in Nat \ {0}
    PROVE  /\ a \div d \in Nat /\ a % d \in Nat /\ a % d < d
           /\ a = d * (a \div d) + (a % d)
  OBVIOUS

(* A quotient is twice the quotient by twice the divisor, and one more bit. *)
LEMMA Halving ==
    ASSUME NEW a \in Nat, NEW d \in Nat \ {0}
    PROVE  a \div d = 2 * (a \div (2 * d)) + ((a \div d) % 2)
  <1> DEFINE q == a \div d
             r == a % d
             h == q \div 2
             b == q % 2
  <1>1. q \in Nat /\ r \in Nat /\ r < d /\ a = d * q + r
    BY DivMod
  <1> HIDE DEF q, r
  <1>2. h \in Nat /\ b \in {0, 1} /\ q = 2 * h + b
    BY <1>1
  <1> HIDE DEF h, b
  <1>3. d * b + r \in Nat /\ d * b + r < 2 * d
    BY <1>1, <1>2
  <1>4. a = (2 * d) * h + (d * b + r)
    BY <1>1, <1>2
  <1>5. a \div (2 * d) = h
    BY <1>2, <1>3, <1>4, DivUnique
  <1> QED BY <1>2, <1>5 DEF q, b

(* Cleared of their low bits two numbers are equal when their quotients are. *)
LEMMA Masked ==
    ASSUME NEW a \in Nat, NEW b \in Nat, NEW d \in Nat \ {0}
    PROVE  a - (a % d) = b - (b % d) <=> a \div d = b \div d
  <1>1. a - (a % d) = d * (a \div d) /\ b - (b % d) = d * (b \div d)
    BY DivMod
  <1>2. a \div d \in Nat /\ b \div d \in Nat
    BY DivMod
  <1>3. \A x, y \in Nat : d * x = d * y <=> x = y
    OBVIOUS
  <1> QED BY <1>1, <1>2, <1>3

(* Two numbers of w bits have the same k leading bits. *)
Leads(a, b, w, k) == \A i \in 1 .. k : (a \div pow2[w - i]) % 2 = (b \div pow2[w - i]) % 2

(* They have when their quotients by the rest are the same, by induction over *)
(* the number of bits.                                                       *)
LEMMA LeadingBits ==
    ASSUME NEW w \in Nat, NEW a \in Nat, NEW b \in Nat, a < pow2[w], b < pow2[w]
    PROVE  \A k \in 0 .. w : a \div pow2[w - k] = b \div pow2[w - k] <=> Leads(a, b, w, k)
  <1> HIDE DEF pow2
  <1> DEFINE Same(k) == a \div pow2[w - k] = b \div pow2[w - k]
             S == {k \in Nat : k <= w => (Same(k) <=> Leads(a, b, w, k))}
  <1>1. 0 \in S
    <2>1. w - 0 = w /\ pow2[w] \in Nat \ {0}
      BY PowersPositive
    <2>2. a \div pow2[w] = 0 /\ b \div pow2[w] = 0
      BY <2>1, DivUnique
    <2>3. Leads(a, b, w, 0)
      BY DEF Leads
    <2> QED BY <2>1, <2>2, <2>3
  <1>2. ASSUME NEW k \in S PROVE k + 1 \in S
    <2> SUFFICES ASSUME k + 1 <= w PROVE Same(k + 1) <=> Leads(a, b, w, k + 1)
      BY <1>2
    <2> DEFINE d == pow2[w - (k + 1)]
    <2>1. k \in Nat /\ k <= w /\ w - (k + 1) \in Nat /\ w - k = (w - (k + 1)) + 1
      BY <1>2
    <2>2. d \in Nat \ {0} /\ pow2[w - k] = 2 * d
      BY <2>1, PowersStep, PowersPositive
    <2>3. Leads(a, b, w, k + 1) <=> Leads(a, b, w, k) /\ (a \div d) % 2 = (b \div d) % 2
      <3>1. 1 .. k + 1 = (1 .. k) \cup {k + 1}
        BY <2>1
      <3> QED BY <3>1 DEF Leads
    <2>4. Leads(a, b, w, k) <=> a \div (2 * d) = b \div (2 * d)
      BY <1>2, <2>1, <2>2
    <2> HIDE DEF d
    <2>5. /\ a \div d = 2 * (a \div (2 * d)) + ((a \div d) % 2)
          /\ b \div d = 2 * (b \div (2 * d)) + ((b \div d) % 2)
      BY <2>2, Halving
    <2>6. /\ a \div d \in Nat /\ b \div d \in Nat
          /\ a \div (2 * d) \in Nat /\ b \div (2 * d) \in Nat
      BY <2>2, DivMod
    <2>7. a \div d = b \div d <=>
             a \div (2 * d) = b \div (2 * d) /\ (a \div d) % 2 = (b \div d) % 2
      <3>1. \A x, y, p, q \in Nat : x = 2 * p + (x % 2) /\ y = 2 * q + (y % 2) =>
               (x = y <=> p = q /\ x % 2 = y % 2)
        OBVIOUS
      <3> QED BY <2>5, <2>6, <3>1
    <2> QED BY <2>3, <2>4, <2>7 DEF d
  <1>3. S = Nat
    <2> HIDE DEF S
    <2>1. S \in SUBSET Nat
      BY DEF S
    <2> QED BY <1>1, <1>2, <2>1, SetInduction
  <1> QED BY <1>3

-----------------------------------------------------------------------------
(* Who is on link. *)

(* An address of a status is a number of its family's width. *)
LEMMA ShownAddresses ==
    ASSUME Inv, ReadInv, NEW a \in console.addresses
    PROVE  /\ a.family \in {4, 6} /\ a.bits \in Nat /\ a.length \in Nat
           /\ a.bits < pow2[Width(a.family)] /\ a.length <= Width(a.family)
  <1>1. console.path \in Connections \cup {NoConnection}
    BY DEF Inv, TypeOK
  <1>2. PICK addresses \in Configs[console.path] : a \in addresses
    BY DEF ReadInv, ConsoleOwn, Addresses
  <1>3. a \in Address
    BY DEF Inv, TypeOK
  <1>4. a.bits < pow2[Width(a.family)] /\ a.length <= Width(a.family)
    BY <1>1, <1>2, ConfigsAssumption
  <1> QED BY <1>3, <1>4 DEF Address

(* What canonical makes of a source is a host of its family. *)
LEMMA CanonicalHost ==
    ASSUME NEW source \in Hosts
    PROVE  LET host == canonical(source)
           IN  /\ host = [family |-> host.family, bits |-> host.bits]
               /\ host.family \in {4, 6} /\ host.bits \in Nat
               /\ host.bits < pow2[Width(host.family)]
  <1>1. /\ source = [family |-> source.family, bits |-> source.bits]
        /\ source.family \in {4, 6} /\ source.bits \in Nat
        /\ source.bits < pow2[Width(source.family)]
    BY DEF Hosts
  <1>2. CASE source.family = 6 /\ source.bits >= pow2[V4_WIDTH]
    <2>1. pow2[V4_WIDTH] \in Nat /\ pow2[V4_WIDTH + 1] = 2 * pow2[V4_WIDTH]
      BY PowersStep, PowersPositive, WidthAssumption
    <2>2. source.bits < pow2[V4_WIDTH + 1]
      BY <1>1, <1>2 DEF Width
    <2>3. canonical(source) = [family |-> 4, bits |-> source.bits - pow2[V4_WIDTH]]
      BY <1>2 DEF canonical
    <2>4. source.bits - pow2[V4_WIDTH] \in Nat /\ source.bits - pow2[V4_WIDTH] < pow2[V4_WIDTH]
      BY <1>1, <1>2, <2>1, <2>2
    <2> QED BY <2>3, <2>4 DEF Width
  <1>3. CASE ~(source.family = 6 /\ source.bits >= pow2[V4_WIDTH])
    <2>1. canonical(source) = source
      BY <1>3 DEF canonical
    <2> QED BY <1>1, <2>1
  <1> QED BY <1>2, <1>3

(* Prefix::contains, on masked numbers, is equality of the leading bits. *)
LEMMA ContainsIsSameNetwork ==
    ASSUME NEW a, a.family \in {4, 6}, a.bits \in Nat, a.length \in Nat,
           a.bits < pow2[Width(a.family)], a.length <= Width(a.family),
           NEW host, host = [family |-> host.family, bits |-> host.bits],
           host.family \in {4, 6}, host.bits \in Nat, host.bits < pow2[Width(host.family)]
    PROVE  contains(Prefix(a), host) <=> SameNetwork(a, host)
  <1> HIDE DEF pow2
  <1>1. CASE host.family # a.family
    BY <1>1 DEF contains, Prefix, mask, Host, SameNetwork
  <1>2. CASE host.family = a.family
    <2> DEFINE w == Width(a.family)
               d == pow2[w - a.length]
    <2>1. w \in Nat /\ a.length \in 0 .. w /\ w - a.length \in Nat
      BY WidthAssumption DEF Width
    <2>2. d \in Nat \ {0}
      BY <2>1, PowersPositive
    <2>3. mask(host, a.length) = [family |-> a.family, bits |-> host.bits - (host.bits % d)]
      BY <1>2 DEF mask
    <2>4. mask(Host(a), a.length) = [family |-> a.family, bits |-> a.bits - (a.bits % d)]
      BY DEF mask, Host
    <2>5. contains(Prefix(a), host) <=> host.bits - (host.bits % d) = a.bits - (a.bits % d)
      BY <1>2, <2>3, <2>4 DEF contains, Prefix
    <2>6. contains(Prefix(a), host) <=> host.bits \div d = a.bits \div d
      BY <2>2, <2>5, Masked
    <2>7. host.bits \div d = a.bits \div d <=> Leads(host.bits, a.bits, w, a.length)
      BY <1>2, <2>1, LeadingBits
    <2>8. Leads(host.bits, a.bits, w, a.length) <=> SameNetwork(a, host)
      BY <1>2 DEF Leads, SameNetwork, Bit
    <2> QED BY <2>6, <2>7, <2>8
  <1> QED BY <1>1, <1>2

(* Every URL on the console is one that sl-remoted serves, and the hosts it  *)
(* lets in are exactly those whose leading bits match an interface address,  *)
(* for addresses of any width (network.rs: mask, Prefix::contains, on_link). *)
THEOREM UrlAlwaysServed == Spec => []UrlIsServed
  <1>1. Inv /\ ReadInv => OnLinkIsExact
    <2> SUFFICES ASSUME Inv, ReadInv, NEW source \in Hosts
                 PROVE  on_link(view_from_status(console.addresses), source) <=>
                          \E a \in console.addresses : SameNetwork(a, canonical(source))
      BY DEF OnLinkIsExact
    <2>1. \A a \in console.addresses :
             contains(Prefix(a), canonical(source)) <=> SameNetwork(a, canonical(source))
      BY ShownAddresses, CanonicalHost, ContainsIsSameNetwork
    <2>2. view_from_status(console.addresses).prefixes = {Prefix(a) : a \in console.addresses}
      BY DEF view_from_status
    <2> QED BY <2>1, <2>2 DEF on_link
  <1>2. Inv /\ ReadInv => UrlIsServed
    BY <1>1, ReadMeansUrl DEF UrlIsServed
  <1> QED BY <1>2, Invariance, ReadInvariance, PTL

-----------------------------------------------------------------------------
(* Deployments.  The permit is kept until the worker is seen, so a job that  *)
(* is queued is that of the method under way, and what a method has observed *)
(* stays true while it holds the permit; only a job that outlived its        *)
(* request (late) breaks either.                                             *)

(* Which steps a method takes. *)
MethodSteps ==
    /\ method \in Deployers => step \in {"observe", "bootc", "active", "start", "poll"}
    /\ method = "reboot" =>
          step \in {"observe", "observe_other", "observe_own", "active", "start", "poll"}

(* A job in the queue is awaited. *)
QueuedIsAwaited == \A u \in Units : unit[u] = "queued" => method = u /\ step = "poll"

(* A worker and what the other one leaves for the next boot. *)
WorkersExclude ==
    /\ unit["update"] = "idle" \/ unit["rollback"] = "idle"
    /\ unit["update"] # "idle" => ~rollbackQueued
    /\ unit["rollback"] # "idle" => ~staged
    /\ ~(staged /\ rollbackQueued)

(* What was observed still holds. *)
ObservedHolds ==
    /\ method = "update" /\ step \in {"bootc", "active", "start", "poll"} => unit["rollback"] = "idle"
    /\ method = "rollback" /\ step \in {"bootc", "active", "start", "poll"} => unit["update"] = "idle"
    /\ method = "update" /\ step \in {"active", "start"} => ~rollbackQueued
    /\ method = "rollback" /\ step \in {"active", "start"} => ~staged /\ retained
    /\ method = "reboot" /\ step = "observe_other" /\ saw = {} => unit["update"] # "running"
    /\ method = "reboot" /\ step \in {"observe_own", "active", "start", "poll"} =>
          unit["update"] # "running" /\ unit["rollback"] # "running"

MutationInv ==
    /\ DeploymentTypeOK /\ MethodSteps
    /\ ~late => QueuedIsAwaited /\ WorkersExclude /\ ObservedHolds

(* The request of corectl, and the reboot that came of it: the unit was not  *)
(* active when its InvocationID was read, so that if it is, it has begun.    *)
ReportInv ==
    /\ ours <=> corectl = "asking"
    /\ ours => method = "reboot"
    /\ ours /\ step # "poll" => job = "none"
    /\ ours /\ step = "poll" => job = IF ran THEN "begun" ELSE "handed"
    /\ ours /\ step \in {"start", "poll"} /\ unit["reboot"] = "running" => ran
    /\ ~ours => job # "handed"
    /\ RebootReportTrue

(* A worker that is idle with nothing pending has been seen so; one that the *)
(* observation found not running was seen so, or has something pending.      *)
StatusInv ==
    /\ status.step # "none" =>
          \A u \in Deployers : unit[u] # "running" /\ ~Pending(u) => u \in idle
    /\ status.step \in {"rollback", "bootc"} /\ "update" \notin status.running =>
          "update" \in idle \/ staged
    /\ status.step = "bootc" /\ "rollback" \notin status.running =>
          "rollback" \in idle \/ rollbackQueued
    /\ IdleWasTrue

-----------------------------------------------------------------------------

LEMMA MutationInit == DeploymentInit => MutationInv /\ ReportInv /\ StatusInv
  <1> SUFFICES ASSUME DeploymentInit PROVE MutationInv /\ ReportInv /\ StatusInv
    OBVIOUS
  <1>1. DeploymentTypeOK
    BY DEF DeploymentInit, DeploymentTypeOK, Units, Deployers, Steps, NoStatus, NoReport
  <1>2. MutationInv
    BY <1>1 DEF DeploymentInit, MutationInv, MethodSteps, QueuedIsAwaited, WorkersExclude, ObservedHolds,
                Units, Deployers
  <1>3. ReportInv
    BY DEF DeploymentInit, ReportInv, RebootReportTrue
  <1>4. StatusInv
    BY DEF DeploymentInit, StatusInv, IdleWasTrue, NoStatus
  <1> QED BY <1>2, <1>3, <1>4

(* The parts of the types that one action or another changes. *)
UnitsTyped == unit \in [Units -> {"idle", "queued", "running"}]
BootcTyped == staged \in BOOLEAN /\ retained \in BOOLEAN /\ rollbackQueued \in BOOLEAN
CallTyped ==
    /\ method \in Units \cup {"none"} /\ step \in Steps
    /\ method = "none" <=> step = "none"
    /\ saw \in SUBSET {"update"} /\ ran \in BOOLEAN /\ late \in BOOLEAN
    /\ corectl \in {"none", "asking", "accepted", "failed"} /\ ours \in BOOLEAN
    /\ job \in {"none", "handed", "begun", "given up"}
Reports == [state : {"idle", "failed", "running", "pending"}, reboot_required : BOOLEAN]
StatusTyped ==
    /\ status \in [step : {"none", "rollback", "bootc", "done"}, running : SUBSET Deployers,
                   report : [Deployers -> Reports]]
    /\ idle \in SUBSET Deployers

LEMMA TypeParts ==
    /\ DeploymentTypeOK <=> UnitsTyped /\ BootcTyped /\ CallTyped /\ StatusTyped
    /\ DeploymentTypeOK' <=> UnitsTyped' /\ BootcTyped' /\ CallTyped' /\ StatusTyped'
  BY DEF DeploymentTypeOK, UnitsTyped, BootcTyped, CallTyped, StatusTyped, Reports

LEMMA NoStatusTyped ==
    NoStatus \in [step : {"none", "rollback", "bootc", "done"}, running : SUBSET Deployers,
                    report : [Deployers -> Reports]]
  BY DEF NoStatus, NoReport, Reports

LEMMA UntouchedTyped ==
    /\ UnitsTyped /\ UNCHANGED unit => UnitsTyped'
    /\ BootcTyped /\ UNCHANGED bootcVars => BootcTyped'
    /\ CallTyped /\ UNCHANGED callVars => CallTyped'
    /\ StatusTyped /\ UNCHANGED statusVars => StatusTyped'
  <1>1. UnitsTyped /\ UNCHANGED unit => UnitsTyped'
    BY DEF UnitsTyped
  <1>2. BootcTyped /\ UNCHANGED bootcVars => BootcTyped'
    BY DEF BootcTyped, bootcVars
  <1>3. CallTyped /\ UNCHANGED callVars => CallTyped'
    BY DEF CallTyped, callVars, clientVars
  <1>4. StatusTyped /\ UNCHANGED statusVars => StatusTyped'
    BY DEF StatusTyped, statusVars
  <1> QED BY <1>1, <1>2, <1>3, <1>4

LEMMA ReturnTyped ==
    ASSUME CallTyped, NEW result \in {"accepted", "failed"}, Return(result)
    PROVE  CallTyped'
  <1>1. method' = "none" /\ step' = "none" /\ saw' = {} /\ ran' = FALSE /\ ours' = FALSE
    BY DEF Return
  <1>2. late' \in BOOLEAN
    BY Zenon DEF Return, CallTyped
  <1>3. corectl' \in {result, corectl} /\ job' \in {"given up", job}
    BY DEF Return
  <1> QED BY <1>1, <1>2, <1>3 DEF CallTyped, Steps

LEMMA GotoTyped ==
    ASSUME CallTyped, method # "none", NEW next \in Steps \ {"none"}, Goto(next),
           saw' \in SUBSET {"update"}
    PROVE  CallTyped'
  BY DEF Goto, CallTyped, clientVars

LEMMA StartMethodTyped == ASSUME DeploymentTypeOK, StartMethod PROVE DeploymentTypeOK'
  <1> USE TypeParts, UntouchedTyped
  <1>s. /\ \A s \in {"observe_other", "bootc", "observe_own", "active", "start"} : s \in Steps \ {"none"}
        /\ "accepted" \in {"accepted", "failed"} /\ "failed" \in {"accepted", "failed"}
    BY DEF Steps
  <1>m. CallTyped /\ step # "none" => method # "none"
    BY DEF CallTyped
  <1>w. CallTyped /\ UNCHANGED saw => saw' \in SUBSET {"update"}
    BY DEF CallTyped
  <1>0. ASSUME NEW m \in Units, Call(m) PROVE DeploymentTypeOK'
    <2>1. CallTyped'
      BY <1>0 DEF Call, Begin, clientVars, CallTyped, Units, Steps
    <2> QED BY <1>0, <2>1 DEF Call, Begin
  <1>1. CASE Unavailable
    BY <1>1, <1>s, ReturnTyped DEF Unavailable
  <1>2. CASE observe
    <2>1. saw' = Running \cap {"update"} => saw' \in SUBSET {"update"}
      OBVIOUS
    <2>2. CallTyped'
      BY <1>2, <1>s, <1>m, <1>w, <2>1, ReturnTyped, GotoTyped DEF observe
    <2> QED BY <1>2, <2>2 DEF observe
  <1>3. CASE observe_other
    <2>1. CallTyped'
      BY <1>3, <1>s, <1>m, <1>w, ReturnTyped, GotoTyped DEF observe_other
    <2> QED BY <1>3, <2>1 DEF observe_other
  <1>4. CASE observe_mutation_state
    <2>1. CallTyped'
      BY <1>4, <1>s, <1>m, <1>w, ReturnTyped, GotoTyped DEF observe_mutation_state
    <2> QED BY <1>4, <2>1 DEF observe_mutation_state
  <1>5. CASE observe_own
    <2>1. CallTyped'
      BY <1>5, <1>s, <1>m, <1>w, ReturnTyped, GotoTyped DEF observe_own
    <2> QED BY <1>5, <2>1 DEF observe_own
  <1>6. CASE start_worker
    <2>1. CallTyped'
      BY <1>6, <1>s, <1>m, <1>w, ReturnTyped, GotoTyped DEF start_worker
    <2> QED BY <1>6, <2>1 DEF start_worker
  <1>10. CASE start_unit
    <2>1. /\ step' = "poll" /\ step = "start" /\ job' \in {"begun", "handed", job}
          /\ unit' = unit \/ unit' = [unit EXCEPT ![method] = "queued"]
          /\ UNCHANGED <<method, saw, ran, late, corectl, ours>>
          /\ UNCHANGED <<bootcVars, statusVars>>
      BY <1>10 DEF start_unit
    <2>2. CallTyped'
      BY <2>1 DEF CallTyped, Steps
    <2>3. UnitsTyped'
      BY <2>1 DEF UnitsTyped
    <2> QED BY <2>1, <2>2, <2>3
  <1>7. CASE start_polled
    BY <1>7, <1>s, ReturnTyped DEF start_polled
  <1>8. CASE start_timeout
    BY <1>8, <1>s, ReturnTyped DEF start_timeout
  <1>9. CASE PlatformdRestarts
    <2>1. StatusTyped'
      BY <1>9, NoStatusTyped DEF PlatformdRestarts, StatusTyped
    <2> QED BY <1>9, <1>s, <2>1, ReturnTyped DEF PlatformdRestarts
  <1> QED BY <1>0, <1>1, <1>2, <1>3, <1>4, <1>5, <1>6, <1>7, <1>8, <1>9, <1>10 DEF StartMethod

LEMMA CorectlTyped == ASSUME DeploymentTypeOK, Corectl PROVE DeploymentTypeOK'
  <1> USE TypeParts, UntouchedTyped
  <1>1. CASE start_reboot
    <2>1. CallTyped'
      BY <1>1 DEF start_reboot, Begin, CallTyped, Units, Steps
    <2> QED BY <1>1, <2>1 DEF start_reboot, Begin
  <1>2. CASE Exits
    <2>1. CallTyped'
      BY <1>2 DEF Exits, CallTyped
    <2> QED BY <1>2, <2>1 DEF Exits
  <1> QED BY <1>1, <1>2 DEF Corectl, map_reboot_error, reboot_report

LEMMA WorkersTyped == ASSUME DeploymentTypeOK, Workers PROVE DeploymentTypeOK'
  <1> USE TypeParts, UntouchedTyped
  <1>w. ASSUME UNCHANGED status, Watched PROVE StatusTyped'
    <2>1. idle' \in SUBSET Deployers
      BY <1>w DEF Watched, IdleNow, StatusTyped
    <2> QED BY <1>w, <2>1 DEF StatusTyped
  <1>1. ASSUME NEW u \in Units, JobRuns(u) PROVE DeploymentTypeOK'
    <2>1. UnitsTyped'
      BY <1>1 DEF JobRuns, UnitsTyped
    <2>2. CallTyped'
      BY <1>1 DEF JobRuns, CallTyped
    <2> QED BY <1>1, <1>w, <2>1, <2>2 DEF JobRuns
  <1>2. ASSUME NEW u \in Units, WorkerFails(u) PROVE DeploymentTypeOK'
    <2>1. UnitsTyped'
      BY <1>2 DEF WorkerFails, UnitsTyped
    <2> QED BY <1>2, <1>w, <2>1 DEF WorkerFails
  <1>3. CASE UpdateEnds
    <2>1. UnitsTyped'
      BY <1>3 DEF UpdateEnds, UnitsTyped
    <2>2. BootcTyped'
      BY <1>3 DEF UpdateEnds, BootcTyped
    <2> QED BY <1>3, <1>w, <2>1, <2>2 DEF UpdateEnds
  <1>4. CASE RollbackEnds
    <2>1. UnitsTyped'
      BY <1>4 DEF RollbackEnds, UnitsTyped
    <2>2. BootcTyped'
      BY <1>4 DEF RollbackEnds, BootcTyped
    <2> QED BY <1>4, <1>w, <2>1, <2>2 DEF RollbackEnds
  <1>5. CASE Boot
    <2>1. UnitsTyped' /\ CallTyped'
      BY <1>5 DEF Boot, UnitsTyped, CallTyped, Steps
    <2>2. BootcTyped'
      BY <1>5 DEF Boot, BootcTyped
    <2>3. StatusTyped'
      BY <1>5, NoStatusTyped DEF Boot, StatusTyped
    <2> QED BY <2>1, <2>2, <2>3
  <1> QED BY <1>1, <1>2, <1>3, <1>4, <1>5 DEF Workers

LEMMA GetStatusTyped == ASSUME DeploymentTypeOK, GetStatus PROVE DeploymentTypeOK'
  <1> USE TypeParts, UntouchedTyped
  <1>1. CASE observe_update_worker
    <2>1. Running \cap {"update"} \in SUBSET Deployers
      BY DEF Deployers
    <2>2. StatusTyped'
      BY <1>1, <2>1, NoStatusTyped DEF observe_update_worker, StatusTyped
    <2> QED BY <1>1, <2>2 DEF observe_update_worker
  <1>2. CASE observe_rollback_worker
    <2>1. status.running \cup (Running \cap {"rollback"}) \in SUBSET Deployers
      BY DEF StatusTyped, Deployers
    <2>2. StatusTyped'
      BY <1>2, <2>1 DEF observe_rollback_worker, StatusTyped
    <2> QED BY <1>2, <2>2 DEF observe_rollback_worker
  <1>3. CASE observe_bootc
    <2>1. PICK failed \in SUBSET Deployers :
            status' = [NoStatus EXCEPT !.step = "done",
                        !.report = [u \in Deployers |->
                            from_observations(u \in status.running, u \in failed, Pending(u))]]
      BY <1>3 DEF observe_bootc
    <2>2. ASSUME NEW u \in Deployers
          PROVE  from_observations(u \in status.running, u \in failed, Pending(u)) \in Reports
      <3>1. Pending(u) \in BOOLEAN
        BY DEF Pending, BootcTyped, Deployers
      <3> QED BY <3>1 DEF from_observations, Reports
    <2>3. [u \in Deployers |->
             from_observations(u \in status.running, u \in failed, Pending(u))]
            \in [Deployers -> Reports]
      BY <2>2
    <2>4. StatusTyped'
      BY <1>3, <2>1, <2>3, NoStatusTyped DEF observe_bootc, StatusTyped
    <2> QED BY <1>3, <2>4 DEF observe_bootc
  <1>4. CASE reply_status
    <2>1. StatusTyped'
      BY <1>4, NoStatusTyped DEF reply_status, StatusTyped
    <2> QED BY <1>4, <2>1 DEF reply_status
  <1> QED BY <1>1, <1>2, <1>3, <1>4 DEF GetStatus

-----------------------------------------------------------------------------
(* The permit and the workers. *)

(* Whoever gives the permit back leaves no job behind, or is late. *)
LEMMA MutationReturn ==
    ASSUME MutationInv, NEW result, Return(result), UNCHANGED <<unit, bootcVars>>, DeploymentTypeOK'
    PROVE  MutationInv'
  <1>1. method' = "none" /\ step' = "none"
    BY DEF Return
  <1>2. MethodSteps' /\ ObservedHolds'
    BY <1>1 DEF MethodSteps, ObservedHolds, Deployers
  <1>3. ASSUME ~late' PROVE ~late /\ ~(step = "poll" /\ unit[method] = "queued")
    BY <1>3, Zenon DEF Return
  <1>4. ASSUME ~late' PROVE QueuedIsAwaited' /\ WorkersExclude'
    <2>1. \A u \in Units : unit[u] # "queued"
      BY <1>3, <1>4 DEF MutationInv, QueuedIsAwaited
    <2> QED BY <1>3, <1>4, <2>1 DEF MutationInv, QueuedIsAwaited, WorkersExclude, bootcVars
  <1> QED BY <1>2, <1>4 DEF MutationInv

(* A method that observes changes nothing but its step. *)
LEMMA MutationGoto ==
    ASSUME MutationInv, NEW next, Goto(next), step \notin {"poll", "none"}, next # "poll",
           UNCHANGED <<unit, bootcVars>>, DeploymentTypeOK', MethodSteps', ~late => ObservedHolds'
    PROVE  MutationInv'
  <1>1. step' = next /\ UNCHANGED <<method, late>>
    BY DEF Goto
  <1>2. ASSUME ~late PROVE QueuedIsAwaited' /\ WorkersExclude'
    <2>1. \A u \in Units : unit[u] # "queued"
      BY <1>2 DEF MutationInv, QueuedIsAwaited
    <2> QED BY <1>1, <1>2, <2>1 DEF MutationInv, QueuedIsAwaited, WorkersExclude, bootcVars
  <1> QED BY <1>1, <1>2 DEF MutationInv

LEMMA MutationStartMethod == ASSUME MutationInv, StartMethod PROVE MutationInv'
  <1>t. DeploymentTypeOK'
    BY StartMethodTyped DEF MutationInv
  <1>p. /\ unit \in [Units -> {"idle", "queued", "running"}]
        /\ method \in Units \cup {"none"} /\ (method = "none" <=> step = "none")
    BY DEF MutationInv, DeploymentTypeOK
  <1>q. ASSUME ~late, step # "poll" PROVE \A u \in Units : unit[u] \in {"idle", "running"}
    BY <1>q, <1>p DEF MutationInv, QueuedIsAwaited
  <1>0. ASSUME NEW m \in Units, Call(m) PROVE MutationInv'
    <2>1. /\ method' = m /\ step' = "observe" /\ method = "none"
          /\ UNCHANGED <<unit, bootcVars, saw, late>>
      BY <1>0 DEF Call, Begin
    <2>2. MethodSteps' /\ ObservedHolds'
      BY <2>1 DEF MethodSteps, ObservedHolds
    <2>3. ASSUME ~late PROVE QueuedIsAwaited' /\ WorkersExclude'
      BY <1>p, <1>q, <2>1, <2>3 DEF MutationInv, QueuedIsAwaited, WorkersExclude, bootcVars
    <2> QED BY <1>t, <2>1, <2>2, <2>3 DEF MutationInv
  <1>1. CASE Unavailable
    BY <1>1, <1>t, MutationReturn DEF Unavailable
  <1>2. CASE observe
    <2>1. CASE \E result : Return(result)
      BY <1>2, <1>t, <2>1, MutationReturn DEF observe
    <2>2. CASE method = "reboot" /\ Goto("observe_other") /\ saw' = Running \cap {"update"}
      <3>1. MethodSteps'
        BY <2>2 DEF MethodSteps, Goto, Deployers
      <3>2. ObservedHolds'
        BY <1>2, <2>2, <1>p
        DEF ObservedHolds, Goto, observe, Running, worker_running, Units
      <3> QED BY <1>2, <1>t, <2>2, <3>1, <3>2, MutationGoto DEF observe
    <2>3. CASE method # "reboot" /\ ~worker_running(Other) /\ Goto("bootc")
      <3>1. method \in Deployers /\ step' = "bootc" /\ UNCHANGED <<method, unit>>
        BY <1>2, <1>p, <2>3 DEF Goto, observe, Units, Deployers
      <3>2. MethodSteps'
        BY <3>1 DEF MethodSteps, Deployers
      <3>3. ASSUME ~late PROVE ObservedHolds'
        <4>1. \A u \in Units : unit[u] \in {"idle", "running"}
          BY <1>2, <1>q, <3>3 DEF observe
        <4> QED BY <2>3, <3>1, <4>1
            DEF ObservedHolds, Deployers, Units, Other, worker_running
      <3> QED BY <1>2, <1>t, <2>3, <3>2, <3>3, MutationGoto DEF observe
    <2> QED BY <1>2, <2>1, <2>2, <2>3 DEF observe
  <1>3. CASE observe_other
    <2>1. CASE Return("failed")
      BY <1>3, <1>t, <2>1, MutationReturn DEF observe_other
    <2>2. CASE saw \cup (Running \cap {"rollback"}) = {} /\ Goto("observe_own")
      <3>1. method = "reboot" /\ step' = "observe_own" /\ UNCHANGED <<method, unit>>
        BY <1>3, <1>p, <2>2 DEF MutationInv, MethodSteps, Goto, observe_other, Units, Deployers
      <3>2. MethodSteps'
        BY <3>1 DEF MethodSteps, Deployers
      <3>3. saw = {} /\ unit["rollback"] # "running"
        BY <2>2, <1>p DEF Running, worker_running, Units
      <3>4. ASSUME ~late PROVE ObservedHolds'
        BY <1>3, <3>1, <3>3, <3>4 DEF MutationInv, ObservedHolds, observe_other
      <3> QED BY <1>3, <1>t, <2>2, <3>2, <3>4, MutationGoto DEF observe_other
    <2> QED BY <1>3, <2>1, <2>2 DEF observe_other
  <1>4. CASE observe_mutation_state
    <2>1. CASE Return("failed")
      BY <1>4, <1>t, <2>1, MutationReturn DEF observe_mutation_state
    <2>2. CASE ~Refused /\ Goto("active")
      <3>1. method \in Deployers /\ step' = "active" /\ UNCHANGED <<method, unit, bootcVars>>
        BY <1>4, <1>p, <2>2
        DEF MutationInv, MethodSteps, Goto, observe_mutation_state, Units, Deployers
      <3>2. MethodSteps'
        BY <3>1 DEF MethodSteps, Deployers
      <3>3. ASSUME ~late PROVE ObservedHolds'
        BY <1>4, <2>2, <3>1, <3>3
        DEF MutationInv, ObservedHolds, observe_mutation_state, Refused, Deployers, bootcVars
      <3> QED BY <1>4, <1>t, <2>2, <3>2, <3>3, MutationGoto DEF observe_mutation_state
    <2> QED BY <1>4, <2>1, <2>2 DEF observe_mutation_state
  <1>5. CASE observe_own
    <2>1. CASE Return("failed")
      BY <1>5, <1>t, <2>1, MutationReturn DEF observe_own
    <2>2. CASE Goto("active")
      <3>1. method = "reboot" /\ step' = "active" /\ UNCHANGED <<method, unit>>
        BY <1>5, <1>p, <2>2 DEF MutationInv, MethodSteps, Goto, observe_own, Units, Deployers
      <3>2. MethodSteps'
        BY <3>1 DEF MethodSteps, Deployers
      <3>3. ASSUME ~late PROVE ObservedHolds'
        BY <1>5, <3>1, <3>3 DEF MutationInv, ObservedHolds, observe_own
      <3> QED BY <1>5, <1>t, <2>2, <3>2, <3>3, MutationGoto DEF observe_own
    <2> QED BY <1>5, <2>1, <2>2 DEF observe_own
  <1>6. CASE start_worker
    <2>1. CASE Return("failed")
      BY <1>6, <1>t, <2>1, MutationReturn DEF start_worker
    <2>2. CASE Goto("start")
      <3>1. step = "active" /\ step' = "start" /\ UNCHANGED <<method, unit, bootcVars>>
        BY <1>6, <2>2 DEF Goto, start_worker
      <3>2. MethodSteps'
        BY <3>1 DEF MutationInv, MethodSteps
      <3>3. ASSUME ~late PROVE ObservedHolds'
        BY <3>1, <3>3 DEF MutationInv, ObservedHolds, bootcVars
      <3> QED BY <1>6, <1>t, <2>2, <3>2, <3>3, MutationGoto DEF start_worker
    <2> QED BY <1>6, <2>1, <2>2 DEF start_worker
  <1>10. CASE start_unit
    <2>1. /\ step = "start" /\ step' = "poll" /\ UNCHANGED <<method, saw, late, bootcVars>>
          /\ unit' = IF unit[method] = "running" THEN unit ELSE [unit EXCEPT ![method] = "queued"]
      BY <1>10 DEF start_unit, worker_running
    <2>2. method \in Units
      BY <1>p, <2>1
    <2>3. MethodSteps'
      BY <2>1 DEF MutationInv, MethodSteps
    <2>4. ASSUME ~late PROVE QueuedIsAwaited' /\ WorkersExclude' /\ ObservedHolds'
      <3>1. \A u \in Units : unit[u] \in {"idle", "running"}
        BY <1>q, <2>1, <2>4
      <3>2. QueuedIsAwaited'
        BY <1>p, <2>1, <2>2, <3>1 DEF QueuedIsAwaited
      <3>3. ObservedHolds /\ WorkersExclude
        BY <2>4 DEF MutationInv
      <3>4. WorkersExclude'
        BY <1>p, <2>1, <2>2, <3>1, <3>3 DEF WorkersExclude, ObservedHolds, Units, bootcVars
      <3>5. ObservedHolds'
        BY <1>p, <2>1, <2>2, <3>1, <3>3 DEF ObservedHolds, Units, bootcVars
      <3> QED BY <3>2, <3>4, <3>5
    <2> QED BY <1>t, <2>1, <2>3, <2>4 DEF MutationInv
  <1>7. CASE start_polled
    BY <1>7, <1>t, MutationReturn DEF start_polled
  <1>8. CASE start_timeout
    BY <1>8, <1>t, MutationReturn DEF start_timeout
  <1>9. CASE PlatformdRestarts
    BY <1>9, <1>t, MutationReturn DEF PlatformdRestarts
  <1> QED BY <1>0, <1>1, <1>2, <1>3, <1>4, <1>5, <1>6, <1>7, <1>8, <1>9, <1>10 DEF StartMethod

LEMMA MutationCorectl == ASSUME MutationInv, Corectl PROVE MutationInv'
  <1>t. DeploymentTypeOK'
    BY CorectlTyped DEF MutationInv
  <1>1. CASE start_reboot
    <2>1. /\ method' = "reboot" /\ step' = "observe" /\ method = "none"
          /\ UNCHANGED <<unit, bootcVars, saw, late>>
      BY <1>1 DEF start_reboot, Begin
    <2>2. MethodSteps' /\ ObservedHolds'
      BY <2>1 DEF MethodSteps, ObservedHolds, Deployers
    <2>3. ASSUME ~late PROVE QueuedIsAwaited' /\ WorkersExclude'
      BY <2>1, <2>3 DEF MutationInv, QueuedIsAwaited, WorkersExclude, bootcVars, Units
    <2> QED BY <1>t, <2>1, <2>2, <2>3 DEF MutationInv
  <1>2. CASE Exits
    BY <1>2, <1>t
    DEF Exits, MutationInv, MethodSteps, QueuedIsAwaited, WorkersExclude, ObservedHolds, bootcVars
  <1> QED BY <1>1, <1>2 DEF Corectl, map_reboot_error, reboot_report

LEMMA MutationGetStatus == ASSUME MutationInv, GetStatus PROVE MutationInv'
  <1>1. UNCHANGED <<unit, bootcVars, callVars>>
    BY DEF GetStatus, observe_update_worker, observe_rollback_worker, observe_bootc, reply_status
  <1> QED BY <1>1, GetStatusTyped DEF MutationInv, MethodSteps, QueuedIsAwaited, WorkersExclude,
          ObservedHolds, bootcVars, callVars

LEMMA MutationWorkers == ASSUME MutationInv, Workers PROVE MutationInv'
  <1>t. DeploymentTypeOK'
    BY WorkersTyped DEF MutationInv
  <1>p. unit \in [Units -> {"idle", "queued", "running"}]
    BY DEF MutationInv, DeploymentTypeOK
  <1>1. ASSUME NEW u \in Units, JobRuns(u) PROVE MutationInv'
    <2>1. /\ unit[u] = "queued" /\ unit' = [unit EXCEPT ![u] = "running"]
          /\ UNCHANGED <<bootcVars, method, step, saw, late>>
      BY <1>1 DEF JobRuns
    <2>2. MethodSteps'
      BY <2>1 DEF MutationInv, MethodSteps
    <2>3. ASSUME ~late PROVE QueuedIsAwaited' /\ WorkersExclude' /\ ObservedHolds'
      <3>1. QueuedIsAwaited /\ WorkersExclude /\ ObservedHolds /\ method = u /\ step = "poll"
        BY <2>1, <2>3 DEF MutationInv, QueuedIsAwaited
      <3>2. QueuedIsAwaited'
        BY <1>p, <2>1, <3>1 DEF QueuedIsAwaited
      <3>3. WorkersExclude'
        BY <1>p, <2>1, <3>1 DEF WorkersExclude, bootcVars, Units
      <3>4. ObservedHolds'
        BY <1>p, <2>1, <3>1 DEF ObservedHolds, bootcVars, Units
      <3> QED BY <3>2, <3>3, <3>4
    <2> QED BY <1>t, <2>1, <2>2, <2>3 DEF MutationInv
  <1>2. ASSUME NEW u \in Units, unit[u] = "running", unit' = [unit EXCEPT ![u] = "idle"],
               UNCHANGED callVars, UNCHANGED retained,
               staged' # staged => u = "update" /\ staged',
               rollbackQueued' # rollbackQueued => u = "rollback"
        PROVE  MutationInv'
    <2>1. UNCHANGED <<method, step, saw, late>>
      BY <1>2 DEF callVars
    <2>2. MethodSteps'
      BY <2>1 DEF MutationInv, MethodSteps
    <2>b. /\ staged \in BOOLEAN /\ rollbackQueued \in BOOLEAN
          /\ staged' \in BOOLEAN /\ rollbackQueued' \in BOOLEAN
      BY <1>t DEF MutationInv, DeploymentTypeOK
    <2>3. ASSUME ~late PROVE QueuedIsAwaited' /\ WorkersExclude' /\ ObservedHolds'
      <3>1. QueuedIsAwaited /\ WorkersExclude /\ ObservedHolds
        BY <2>3 DEF MutationInv
      <3>2. QueuedIsAwaited'
        BY <1>2, <1>p, <2>1, <3>1 DEF QueuedIsAwaited
      <3>3. WorkersExclude'
        BY <1>2, <1>p, <2>b, <3>1 DEF WorkersExclude, Units
      <3>4. ObservedHolds'
        BY <1>2, <1>p, <2>1, <2>b, <3>1 DEF ObservedHolds, Units
      <3> QED BY <3>2, <3>3, <3>4
    <2> QED BY <1>t, <2>1, <2>2, <2>3 DEF MutationInv
  <1>3. ASSUME NEW u \in Units, WorkerFails(u) PROVE MutationInv'
    BY <1>2, <1>3 DEF WorkerFails, bootcVars
  <1>4. CASE UpdateEnds
    <2>1. "update" \in Units
      BY DEF Units
    <2>2. staged' # staged => staged'
      BY <1>4 DEF UpdateEnds
    <2> QED BY <1>2, <1>4, <2>1, <2>2 DEF UpdateEnds
  <1>5. CASE RollbackEnds
    <2>1. "rollback" \in Units
      BY DEF Units
    <2> QED BY <1>2, <1>5, <2>1 DEF RollbackEnds
  <1>6. CASE Boot
    BY <1>6, <1>t
    DEF Boot, MutationInv, MethodSteps, QueuedIsAwaited, WorkersExclude, ObservedHolds,
        Deployers, Units
  <1> QED BY <1>1, <1>3, <1>4, <1>5, <1>6 DEF Workers

LEMMA MutationInvariance == DeploymentSpec => []MutationInv
  <1>1. MutationInv /\ [DeploymentNext]_deploymentVars => MutationInv'
    <2>1. ASSUME MutationInv, UNCHANGED deploymentVars PROVE MutationInv'
      <3>1. UNCHANGED <<unit, bootcVars, callVars, statusVars>>
        BY <2>1 DEF deploymentVars
      <3>2. DeploymentTypeOK'
        BY <2>1, <3>1, TypeParts, UntouchedTyped DEF MutationInv
      <3> QED BY <2>1, <3>1, <3>2 DEF MutationInv, MethodSteps, QueuedIsAwaited, WorkersExclude,
              ObservedHolds, bootcVars, callVars
    <2> QED BY <2>1, MutationStartMethod, MutationCorectl, MutationWorkers, MutationGetStatus
        DEF DeploymentNext
  <1>2. DeploymentInit => MutationInv
    BY MutationInit
  <1> QED BY <1>1, <1>2, PTL DEF DeploymentSpec

(* What a step does to the units. *)
LEMMA UnitSteps ==
    ASSUME [DeploymentNext]_deploymentVars
    PROVE  \/ start_unit \/ UNCHANGED unit \/ Boot
           \/ \E u \in Units : unit' = [unit EXCEPT ![u] = "idle"]
           \/ \E u \in Units : unit[u] = "queued" /\ unit' = [unit EXCEPT ![u] = "running"]
  <1>1. CASE UNCHANGED deploymentVars
    BY <1>1 DEF deploymentVars
  <1>2. CASE StartMethod
    BY <1>2 DEF StartMethod, Call, Begin, Unavailable, observe, observe_other,
       observe_mutation_state, observe_own, start_worker, start_polled, start_timeout,
       PlatformdRestarts
  <1>3. CASE Corectl
    BY <1>3 DEF Corectl, start_reboot, Begin, map_reboot_error, reboot_report, Exits
  <1>4. CASE Workers
    BY <1>4 DEF Workers, JobRuns, WorkerFails, UpdateEnds, RollbackEnds, Units
  <1>5. CASE GetStatus
    BY <1>5 DEF GetStatus, observe_update_worker, observe_rollback_worker, observe_bootc,
       reply_status
  <1> QED BY <1>1, <1>2, <1>3, <1>4, <1>5 DEF DeploymentNext

(* Every variable of the start methods, of bootc and of GetStatus has its    *)
(* type (platformd/src/main.rs).                                             *)
THEOREM DeploymentTyped == DeploymentSpec => []DeploymentTypeOK
  <1>1. MutationInv => DeploymentTypeOK
    BY DEF MutationInv
  <1> QED BY <1>1, MutationInvariance, PTL

(* Until a job outlives its request, however methods, jobs, workers and      *)
(* restarts interleave, bootc is never run twice at a time and the next boot *)
(* has one choice (main.rs: the permit is kept until the worker is seen).    *)
THEOREM NextBootHasOneChoice == DeploymentSpec => []OneChoiceForNextBoot
  <1>1. MutationInv => OneChoiceForNextBoot
    BY DEF MutationInv, WorkersExclude, OneChoiceForNextBoot, worker_running
  <1> QED BY <1>1, MutationInvariance, PTL

(* Until a job outlives its request, no rollback is handed to systemd that   *)
(* would discard a staged update, find nothing to roll back to, or run       *)
(* beside a worker, although each was observed before (main.rs:              *)
(* start_rollback).                                                          *)
THEOREM RollbackAlwaysSparesUpdate == DeploymentSpec => RollbackSparesUpdate
  <1>1. ASSUME MutationInv, [DeploymentNext]_deploymentVars, RollbackHandedOver
        PROVE  retained /\ ~staged /\ ~worker_running("update") /\ ~worker_running("rollback")
    <2>1. "rollback" \in Units /\ unit \in [Units -> {"idle", "queued", "running"}]
      BY <1>1 DEF MutationInv, DeploymentTypeOK, Units
    <2>2. ~late /\ unit["rollback"] # "queued" /\ unit'["rollback"] = "queued"
      BY <1>1 DEF RollbackHandedOver
    <2>3. step = "start" /\ method = "rollback" /\ ~worker_running(method)
      <3>1. CASE start_unit
        BY <2>1, <2>2, <3>1 DEF start_unit
      <3>2. CASE UNCHANGED unit
        BY <2>2, <3>2
      <3>3. CASE \E u \in Units, s \in {"idle", "running"} : unit' = [unit EXCEPT ![u] = s]
        BY <2>1, <2>2, <3>3
      <3>4. CASE Boot
        BY <2>1, <2>2, <3>4 DEF Boot
      <3> QED BY <1>1, <3>1, <3>2, <3>3, <3>4, UnitSteps
    <2> QED BY <1>1, <2>2, <2>3 DEF MutationInv, ObservedHolds, worker_running
  <1>2. MutationInv /\ [DeploymentNext]_deploymentVars =>
          [RollbackHandedOver => retained /\ ~staged /\ ~worker_running("update")
                                            /\ ~worker_running("rollback")]_deploymentVars
    BY <1>1
  <1> QED BY <1>2, MutationInvariance, PTL DEF DeploymentSpec, RollbackSparesUpdate

(* Until a job outlives its request, no reboot begins under a running        *)
(* deployment worker (main.rs: start_reboot observes both workers, then its  *)
(* own).                                                                     *)
THEOREM RebootsOnlyWhenQuiet == DeploymentSpec => RebootOnlyWhenQuiet
  <1>1. ASSUME MutationInv, [DeploymentNext]_deploymentVars,
               ~late, unit["reboot"] # "running", unit'["reboot"] = "running"
        PROVE  ~worker_running("update") /\ ~worker_running("rollback")
    <2>1. "reboot" \in Units /\ unit \in [Units -> {"idle", "queued", "running"}]
          /\ (method \in Units \cup {"none"})
      BY <1>1 DEF MutationInv, DeploymentTypeOK, Units
    <2>2. unit["reboot"] = "queued"
      <3>1. CASE start_unit
        BY <1>1, <2>1, <3>1 DEF start_unit
      <3>2. CASE UNCHANGED unit
        BY <1>1, <3>2
      <3>3. CASE \E u \in Units : unit' = [unit EXCEPT ![u] = "idle"]
        BY <1>1, <2>1, <3>3
      <3>4. CASE Boot
        BY <1>1, <2>1, <3>4 DEF Boot
      <3>5. CASE \E u \in Units : unit[u] = "queued" /\ unit' = [unit EXCEPT ![u] = "running"]
        BY <1>1, <2>1, <3>5
      <3> QED BY <1>1, <3>1, <3>2, <3>3, <3>4, <3>5, UnitSteps
    <2> QED BY <1>1, <2>1, <2>2 DEF MutationInv, QueuedIsAwaited, ObservedHolds, worker_running
  <1>2. MutationInv /\ [DeploymentNext]_deploymentVars =>
          [~late /\ unit["reboot"] # "running" /\ unit'["reboot"] = "running" =>
              ~worker_running("update") /\ ~worker_running("rollback")]_deploymentVars
    BY <1>1
  <1> QED BY <1>2, MutationInvariance, PTL DEF DeploymentSpec, RebootOnlyWhenQuiet

-----------------------------------------------------------------------------
(* What corectl reboot reports. *)

LEMMA ReportReturn ==
    ASSUME MutationInv, ReportInv, NEW result \in {"accepted", "failed"}, Return(result),
           result = "accepted" => step = "poll" /\ (worker_running(method) \/ ran)
    PROVE  ReportInv'
  <1>1. ours' = FALSE /\ method' = "none" /\ step' = "none"
    BY DEF Return
  <1>2. CASE ours
    <2>1. corectl' = result /\ corectl = "asking" /\ method = "reboot"
      BY <1>2 DEF Return, ReportInv
    <2>2. CASE result = "accepted"
      <3>1. job' = job /\ job = "begun"
        BY <1>2, <2>1, <2>2 DEF Return, ReportInv, worker_running
      <3> QED BY <1>1, <2>1, <2>2, <3>1 DEF ReportInv, RebootReportTrue
    <2>3. CASE result = "failed"
      <3>1. job' \in {"none", "given up"}
        BY <1>2, <2>3 DEF Return, ReportInv
      <3> QED BY <1>1, <2>1, <2>3, <3>1 DEF ReportInv, RebootReportTrue
    <2> QED BY <2>2, <2>3
  <1>3. CASE ~ours
    <2>1. corectl' = corectl /\ job' = job /\ corectl # "asking"
      BY <1>3 DEF Return, ReportInv
    <2> QED BY <1>1, <1>3, <2>1 DEF ReportInv, RebootReportTrue
  <1> QED BY <1>2, <1>3, TRUE \in BOOLEAN DEF MutationInv, DeploymentTypeOK

LEMMA ReportGoto ==
    ASSUME ReportInv, NEW next, Goto(next), step # "poll", next # "poll",
           next = "start" => ~worker_running(method) /\ UNCHANGED unit
    PROVE  ReportInv'
  BY DEF Goto, clientVars, ReportInv, RebootReportTrue, worker_running

LEMMA ReportStartMethod == ASSUME MutationInv, ReportInv, StartMethod PROVE ReportInv'
  <1>f. "accepted" \in {"accepted", "failed"} /\ "failed" \in {"accepted", "failed"}
    OBVIOUS
  <1>g. "failed" # "accepted"
    OBVIOUS
  <1>0. ASSUME NEW m \in Units, Call(m) PROVE ReportInv'
    <2>1. UNCHANGED <<corectl, ours, job>> /\ method = "none"
      BY <1>0 DEF Call, Begin, clientVars
    <2> QED BY <2>1 DEF ReportInv, RebootReportTrue
  <1>1. CASE \E result : Return(result) /\ result = "failed"
    BY <1>1, <1>f, <1>g, ReportReturn
  <1>2. CASE \E next : Goto(next) /\ step # "poll" /\ next \notin {"start", "poll"}
    BY <1>2, ReportGoto
  <1>6. CASE Goto("start") /\ step # "poll" /\ ~worker_running(method) /\ UNCHANGED unit
    BY <1>6, ReportGoto
  <1>3. CASE start_polled
    BY <1>3, <1>f, ReportReturn DEF start_polled
  <1>4. CASE start_unit
    <2>1. /\ step' = "poll" /\ step = "start" /\ UNCHANGED <<method, ran, corectl, ours>>
          /\ job' = CASE ours /\ ran -> "begun" [] ours /\ ~ran -> "handed" [] OTHER -> job
          /\ unit' = IF unit[method] = "running" THEN unit ELSE [unit EXCEPT ![method] = "queued"]
      BY <1>4 DEF start_unit, worker_running
    <2>2. unit \in [Units -> {"idle", "queued", "running"}] /\ "reboot" \in Units
      BY DEF MutationInv, DeploymentTypeOK, Units
    <2>3. ours \in BOOLEAN /\ ran \in BOOLEAN
      BY DEF MutationInv, DeploymentTypeOK
    <2>4. CASE ours
      <3>1. /\ method = "reboot" /\ corectl = "asking"
            /\ unit'["reboot"] = "running" => unit["reboot"] = "running"
        BY <2>1, <2>2, <2>4 DEF ReportInv
      <3>2. job' = IF ran THEN "begun" ELSE "handed"
        BY <2>1, <2>3, <2>4
      <3> QED BY <2>1, <2>4, <3>1, <3>2 DEF ReportInv, RebootReportTrue
    <2>5. CASE ~ours
      BY <2>1, <2>5 DEF ReportInv, RebootReportTrue
    <2> QED BY <2>3, <2>4, <2>5
  <1>5. \/ \E m \in Units : Call(m)
        \/ \E result : Return(result) /\ result = "failed"
        \/ \E next : Goto(next) /\ step # "poll" /\ next \notin {"start", "poll"}
        \/ Goto("start") /\ step # "poll" /\ ~worker_running(method) /\ UNCHANGED unit
        \/ start_polled
        \/ start_unit
    <2>1. CASE Unavailable \/ start_timeout \/ PlatformdRestarts
      BY <2>1 DEF Unavailable, start_timeout, PlatformdRestarts
    <2>2. CASE observe
      <3>1. /\ step # "poll" /\ "observe_other" \notin {"start", "poll"}
            /\ "bootc" \notin {"start", "poll"}
        BY <2>2 DEF observe
      <3> QED BY <2>2, <3>1, Zenon DEF observe
    <2>3. CASE observe_other
      <3>1. step # "poll" /\ "observe_own" \notin {"start", "poll"}
        BY <2>3 DEF observe_other
      <3> QED BY <2>3, <3>1, Zenon DEF observe_other
    <2>4. CASE observe_mutation_state
      <3>1. step # "poll" /\ "active" \notin {"start", "poll"}
        BY <2>4 DEF observe_mutation_state
      <3> QED BY <2>4, <3>1, Zenon DEF observe_mutation_state
    <2>5. CASE observe_own
      <3>1. step # "poll" /\ "active" \notin {"start", "poll"}
        BY <2>5 DEF observe_own
      <3> QED BY <2>5, <3>1, Zenon DEF observe_own
    <2>6. CASE start_worker
      <3>1. step # "poll"
        BY <2>6 DEF start_worker
      <3> QED BY <2>6, <3>1 DEF start_worker
    <2> QED BY <2>1, <2>2, <2>3, <2>4, <2>5, <2>6 DEF StartMethod
  <1> QED BY <1>0, <1>1, <1>2, <1>3, <1>4, <1>5, <1>6

LEMMA ReportNext == MutationInv /\ ReportInv /\ [DeploymentNext]_deploymentVars => ReportInv'
  <1> SUFFICES ASSUME MutationInv, ReportInv, [DeploymentNext]_deploymentVars PROVE ReportInv'
    OBVIOUS
  <1>p. unit \in [Units -> {"idle", "queued", "running"}] /\ "reboot" \in Units
    BY DEF MutationInv, DeploymentTypeOK, Units
  <1>1. CASE UNCHANGED deploymentVars
    BY <1>1 DEF deploymentVars, callVars, clientVars, ReportInv, RebootReportTrue
  <1>2. CASE start_reboot
    BY <1>2 DEF start_reboot, Begin, ReportInv, RebootReportTrue
  <1>3. CASE Exits
    BY <1>3 DEF Exits, ReportInv, RebootReportTrue
  <1>4. ASSUME NEW u \in Units, JobRuns(u) PROVE ReportInv'
    <2>1. /\ unit[u] = "queued" /\ unit' = [unit EXCEPT ![u] = "running"]
          /\ job' = IF u = "reboot" /\ job = "handed" THEN "begun" ELSE job
          /\ UNCHANGED <<method, step, corectl, ours>>
      BY <1>4 DEF JobRuns
    <2>r. ran' <=> ran \/ (u = method /\ step \in {"start", "poll"})
      BY <1>4, Zenon DEF JobRuns
    <2>2. CASE u = "reboot"
      <3>1. unit["reboot"] = "queued" /\ unit'["reboot"] = "running"
        BY <1>p, <2>1, <2>2
      <3> QED BY <2>1, <2>2, <2>r, <3>1 DEF ReportInv, RebootReportTrue
    <2>3. CASE u # "reboot"
      <3>1. unit'["reboot"] = unit["reboot"] /\ job' = job
        BY <1>p, <2>1, <2>3
      <3> QED BY <2>1, <2>3, <2>r, <3>1 DEF ReportInv, RebootReportTrue
    <2> QED BY <2>2, <2>3
  <1>5. ASSUME NEW u \in Units, unit[u] = "running", unit' = [unit EXCEPT ![u] = "idle"],
               UNCHANGED callVars
        PROVE  ReportInv'
    <2>1. unit'["reboot"] = "running" => unit["reboot"] = "running"
      BY <1>5, <1>p
    <2> QED BY <1>5, <2>1 DEF callVars, clientVars, ReportInv, RebootReportTrue
  <1>6. CASE UpdateEnds \/ RollbackEnds \/ \E u \in Units : WorkerFails(u)
    <2>1. "update" \in Units /\ "rollback" \in Units
      BY DEF Units
    <2> QED BY <1>5, <1>6, <2>1 DEF UpdateEnds, RollbackEnds, WorkerFails
  <1>7. CASE Boot
    BY <1>7 DEF Boot, ReportInv, RebootReportTrue
  <1>8. CASE GetStatus
    <2>1. UNCHANGED <<unit, callVars>>
      BY <1>8 DEF GetStatus, observe_update_worker, observe_rollback_worker, observe_bootc,
         reply_status
    <2> QED BY <2>1 DEF callVars, clientVars, ReportInv, RebootReportTrue
  <1> QED BY <1>1, <1>2, <1>3, <1>4, <1>6, <1>7, <1>8, ReportStartMethod
      DEF DeploymentNext, Corectl, map_reboot_error, reboot_report, Workers

(* What corectl reboot exits with is true, late jobs and a daemon that went  *)
(* away included: after 0 the reboot was begun, after 1 the request is over  *)
(* and has left no job that sl-platformd did not give up                     *)
(* (crates/platform-client/src/lib.rs: start_reboot, corectl/src/main.rs).   *)
THEOREM RebootReportsTrue == DeploymentSpec => []RebootReportTrue
  <1>1. DeploymentInit => ReportInv
    BY MutationInit
  <1>2. ReportInv => RebootReportTrue
    BY DEF ReportInv
  <1> QED BY <1>1, <1>2, ReportNext, MutationInvariance, PTL DEF DeploymentSpec

-----------------------------------------------------------------------------
(* What GetStatus reports. *)

LEMMA StatusWorkers == ASSUME MutationInv, StatusInv, Workers PROVE StatusInv'
  <1>p. /\ unit \in [Units -> {"idle", "queued", "running"}]
        /\ Deployers \subseteq Units
        /\ staged \in BOOLEAN /\ rollbackQueued \in BOOLEAN
    BY DEF MutationInv, DeploymentTypeOK, Units, Deployers
  <1>1. CASE Boot
    BY <1>1 DEF Boot, StatusInv, IdleWasTrue, NoStatus
  <1>2. ASSUME UNCHANGED status, Watched, staged => staged',
               rollbackQueued /\ ~rollbackQueued' => unit'["rollback"] # "running"
        PROVE  StatusInv'
    <2>1. CASE status.step = "none"
      BY <1>2, <2>1 DEF StatusInv, IdleWasTrue
    <2>2. CASE status.step # "none"
      <3>1. idle' = idle \cup IdleNow
        BY <1>2, <2>2 DEF Watched
      <3>2. \A u \in Deployers : unit'[u] # "running" /\ ~Pending(u)' => u \in idle'
        BY <3>1 DEF IdleNow
      <3>3. IdleWasTrue'
        BY <1>2, <3>1 DEF StatusInv, IdleWasTrue
      <3>4. rollbackQueued /\ ~rollbackQueued' => "rollback" \in idle'
        BY <1>2, <3>2 DEF Pending, Deployers
      <3> QED BY <1>2, <3>1, <3>2, <3>3, <3>4 DEF StatusInv
    <2> QED BY <2>1, <2>2
  <1>3. CASE \E u \in Units : JobRuns(u) \/ WorkerFails(u)
    <2>1. UNCHANGED <<status, staged, rollbackQueued>> /\ Watched
      BY <1>3 DEF JobRuns, WorkerFails, bootcVars
    <2> QED BY <1>2, <2>1
  <1>4. CASE UpdateEnds
    <2>1. UNCHANGED <<status, rollbackQueued>> /\ Watched /\ staged' \in {staged, TRUE}
      BY <1>4 DEF UpdateEnds
    <2>2. staged => staged'
      BY <2>1, Zenon
    <2> QED BY <1>2, <2>1, <2>2
  <1>5. CASE RollbackEnds
    <2>1. UNCHANGED <<status, staged>> /\ Watched /\ unit' = [unit EXCEPT !["rollback"] = "idle"]
      BY <1>5 DEF RollbackEnds
    <2>2. unit'["rollback"] # "running"
      BY <1>p, <2>1 DEF Deployers
    <2> QED BY <1>2, <2>1, <2>2
  <1> QED BY <1>1, <1>3, <1>4, <1>5 DEF Workers

LEMMA StatusGetStatus == ASSUME MutationInv, StatusInv, GetStatus PROVE StatusInv'
  <1>p. /\ status.running \in SUBSET Deployers /\ status.step \in {"none", "rollback", "bootc", "done"}
        /\ status \in [step : {"none", "rollback", "bootc", "done"}, running : SUBSET Deployers,
                       report : [Deployers -> Reports]]
    BY TypeParts DEF MutationInv, StatusTyped
  <1>u. UNCHANGED <<unit, staged, rollbackQueued>>
    BY DEF GetStatus, observe_update_worker, observe_rollback_worker, observe_bootc, reply_status,
       bootcVars
  <1>d. \A u \in Deployers : Pending(u)' <=> Pending(u)
    BY <1>u DEF Pending, Deployers
  <1>1. CASE observe_update_worker
    <2>1. /\ status'.step = "rollback" /\ status'.running = Running \cap {"update"}
          /\ idle' = {u \in Deployers : ~worker_running(u) /\ ~Pending(u)}
      BY <1>1, NoStatusTyped DEF observe_update_worker
    <2>2. "update" \notin status'.running => "update" \in idle' \/ staged'
      BY <1>u, <2>1 DEF Running, worker_running, Pending, Units, Deployers
    <2>3. \A u \in Deployers : unit'[u] # "running" /\ ~Pending(u)' => u \in idle'
      BY <1>u, <1>d, <2>1 DEF worker_running
    <2> QED BY <2>1, <2>2, <2>3 DEF StatusInv, IdleWasTrue
  <1>2. CASE observe_rollback_worker
    <2>1. /\ status.step = "rollback" /\ status'.step = "bootc" /\ UNCHANGED idle
          /\ status'.running = status.running \cup (Running \cap {"rollback"})
      BY <1>2, <1>p DEF observe_rollback_worker
    <2>2. "rollback" \notin status'.running => "rollback" \in idle' \/ rollbackQueued'
      BY <1>u, <2>1 DEF StatusInv, Running, worker_running, Pending, Units, Deployers
    <2>3. \A u \in Deployers : unit'[u] # "running" /\ ~Pending(u)' => u \in idle'
      BY <1>u, <1>d, <2>1 DEF StatusInv
    <2> QED BY <1>u, <2>1, <2>2, <2>3 DEF StatusInv, IdleWasTrue
  <1>3. CASE observe_bootc
    <2>1. PICK failed \in SUBSET Deployers :
            status' = [NoStatus EXCEPT !.step = "done",
                        !.report = [u \in Deployers |->
                            from_observations(u \in status.running, u \in failed, Pending(u))]]
      BY <1>3 DEF observe_bootc
    <2>2. /\ status.step = "bootc" /\ UNCHANGED idle /\ status'.step = "done"
          /\ \A u \in Deployers : status'.report[u] =
               from_observations(u \in status.running, u \in failed, Pending(u))
      BY <1>3, <2>1, NoStatusTyped DEF observe_bootc
    <2>3. ASSUME NEW u \in Deployers, status'.report[u].state # "running",
                 ~status'.report[u].reboot_required
          PROVE  u \in idle'
      <3>1. status'.report[u] =
              from_observations(u \in status.running, u \in failed, Pending(u))
        BY <2>2
      <3>2. ~Pending(u)
        <4>1. status'.report[u].reboot_required = Pending(u)
          BY <3>1 DEF from_observations
        <4> QED BY <2>3, <4>1, Zenon
      <3>3. u \notin status.running
        <4>1. SUFFICES ASSUME u \in status.running PROVE FALSE
          OBVIOUS
        <4>2. status'.report[u].state = "running"
          BY <3>1, <4>1 DEF from_observations
        <4> QED BY <2>3, <4>2
      <3> QED BY <2>2, <3>2, <3>3 DEF StatusInv, Pending, Deployers
    <2>4. \A u \in Deployers : unit'[u] # "running" /\ ~Pending(u)' => u \in idle'
      BY <1>u, <1>d, <2>2 DEF StatusInv
    <2> QED BY <2>2, <2>3, <2>4 DEF StatusInv, IdleWasTrue
  <1>4. CASE reply_status
    BY <1>4 DEF reply_status, NoStatus, StatusInv, IdleWasTrue
  <1> QED BY <1>1, <1>2, <1>3, <1>4 DEF GetStatus

LEMMA StatusNext == MutationInv /\ StatusInv /\ [DeploymentNext]_deploymentVars => StatusInv'
  <1> SUFFICES ASSUME MutationInv, StatusInv, [DeploymentNext]_deploymentVars PROVE StatusInv'
    OBVIOUS
  <1>1. ASSUME UNCHANGED <<staged, rollbackQueued, status, idle>>,
               \A u \in Deployers : unit[u] = "running" => unit'[u] = "running"
        PROVE  StatusInv'
    <2>1. \A u \in Deployers : Pending(u)' <=> Pending(u)
      BY <1>1 DEF Pending, Deployers
    <2> QED BY <1>1, <2>1 DEF StatusInv, IdleWasTrue
  <1>2. CASE UNCHANGED <<unit, bootcVars, statusVars>>
    BY <1>1, <1>2 DEF bootcVars, statusVars
  <1>3. CASE PlatformdRestarts
    BY <1>3 DEF PlatformdRestarts, NoStatus, StatusInv, IdleWasTrue
  <1>4. CASE start_unit
    <2>1. /\ unit' = IF unit[method] = "running" THEN unit ELSE [unit EXCEPT ![method] = "queued"]
          /\ UNCHANGED <<bootcVars, statusVars>>
      BY <1>4 DEF start_unit, worker_running
    <2>2. \A u \in Deployers : unit[u] = "running" => unit'[u] = "running"
      BY <2>1 DEF MutationInv, DeploymentTypeOK, Units, Deployers
    <2> QED BY <1>1, <2>1, <2>2 DEF bootcVars, statusVars
  <1>5. CASE UNCHANGED deploymentVars
    BY <1>2, <1>5 DEF deploymentVars
  <1>6. CASE StartMethod
    BY <1>2, <1>3, <1>4, <1>6
    DEF StartMethod, Call, Begin, Unavailable, observe, observe_other,
        observe_mutation_state, observe_own, start_worker, start_polled, start_timeout
  <1>7. CASE Corectl
    BY <1>2, <1>7 DEF Corectl, start_reboot, Begin, map_reboot_error, reboot_report, Exits
  <1> QED BY <1>5, <1>6, <1>7, StatusWorkers, StatusGetStatus DEF DeploymentNext

(* A worker that GetStatus calls idle, with no reboot required, was so at a  *)
(* moment of the observation, although the worker and bootc are read one     *)
(* after the other and anything may run between (main.rs: observe_status).   *)
THEOREM IdleWasAlwaysTrue == DeploymentSpec => []IdleWasTrue
  <1>1. DeploymentInit => StatusInv
    BY MutationInit
  <1>2. StatusInv => IdleWasTrue
    BY DEF StatusInv
  <1> QED BY <1>1, <1>2, StatusNext, MutationInvariance, PTL DEF DeploymentSpec
=============================================================================
