------------------------- MODULE NetworkObservation -------------------------
(***************************************************************************)
(* How the network gets from NetworkManager to a URL on the console and to *)
(* the addresses sl-remoted serves: the network observer reads one property *)
(* after the other under its one permit (network-observer/src/main.rs);    *)
(* sl-platformd asks it for every shared GetStatus observation             *)
(* (shared_read.rs) and, not shared, for every enrollment the console      *)
(* shows (remote.rs); each side has a deadline of its own, so a reading    *)
(* goes on when nobody waits for it any more.                              *)
(*                                                                         *)
(* An address is a family, its bits and a prefix length.  The families are *)
(* V4_WIDTH and V4_WIDTH + 1 bits wide: the upper half of the second holds *)
(* the IPv4-mapped addresses, and the lowest four numbers of both are the  *)
(* unspecified, a loopback, a link-local and a multicast address.          *)
(***************************************************************************)
EXTENDS Naturals, FiniteSets

CONSTANTS
    Callers,        \* GetStatus calls that can be under way at a time
    Flights,        \* the observations there can be at a time
    NoFlight,
    Connections,    \* the active connections NetworkManager can have
    NoConnection,   \* the path "/"
    Configs,        \* Configs[c]: the addresses that connection can have
    V4_WIDTH,       \* bits of an IPv4 address
    MAX_ADDRESSES   \* what sl-platformd accepts in a status

ASSUME FlightsAssumption == NoFlight \notin Flights
ASSUME ConnectionsAssumption == NoConnection \notin Connections
ASSUME WidthAssumption == V4_WIDTH \in Nat /\ V4_WIDTH > 2

VARIABLES
    nm,         \* NetworkManager: the primary connection and its addresses
    reading,    \* what the observer reads, and for whom
    slot,       \* SharedRead::in_flight
    flight,     \* flight[f]: how far that observation is
    caller,     \* caller[c]: the observation it waits for
    console     \* GetRemoteManagementEnrollment: its state and the network it read

vars == <<nm, reading, slot, flight, caller, console>>

-----------------------------------------------------------------------------
(* Addresses. *)

(* Powers of two, by a recursion the proofs can unfold. *)
pow2[n \in Nat] == IF n = 0 THEN 1 ELSE 2 * pow2[n - 1]

Width(family) == IF family = 4 THEN V4_WIDTH ELSE V4_WIDTH + 1
Address == [family : {4, 6}, bits : Nat, length : Nat]

(* parse_address_data: the length fits the family. *)
ASSUME ConfigsAssumption ==
    /\ Configs \in [Connections \cup {NoConnection} -> SUBSET SUBSET Address]
    /\ \A c \in DOMAIN Configs : \A addresses \in Configs[c] : \A a \in addresses :
        a.bits < pow2[Width(a.family)] /\ a.length <= Width(a.family)

Hosts == {h \in [family : {4, 6}, bits : 0 .. pow2[V4_WIDTH + 1] - 1] :
            h.bits < pow2[Width(h.family)]}
Host(address) == [family |-> address.family, bits |-> address.bits]
Unspecified == 0
Loopback == 1
LinkLocal == 2
Multicast == 3

(* sl-platformd: an address for the URL. *)
eligible(host) == host.bits \notin {Loopback, Unspecified, Multicast, LinkLocal}

(* sl-remoted: an address to listen on. *)
listenable(host) == host.bits \notin {Loopback, Unspecified, Multicast, LinkLocal}

mask(host, length) ==
    LET low == pow2[Width(host.family) - length]
    IN  [host EXCEPT !.bits = @ - (@ % low)]

Prefix(address) ==
    [network |-> mask(Host(address), address.length), length |-> address.length]

(* Prefix::contains; lengths of one family are not compared with the other's. *)
contains(prefix, host) ==
    /\ host.family = prefix.network.family
    /\ mask(host, prefix.length) = prefix.network

canonical(host) ==
    IF host.family = 6 /\ host.bits >= pow2[V4_WIDTH]
    THEN [family |-> 4, bits |-> host.bits - pow2[V4_WIDTH]] ELSE host

(* view_from_status: a /0 prefix anywhere makes the whole status unusable. *)
view_from_status(addresses) ==
    [ok |-> \A a \in addresses : a.length \in 1 .. Width(a.family),
     listen |-> {Host(a) : a \in {b \in addresses : listenable(Host(b))}},
     prefixes |-> {Prefix(a) : a \in addresses}]

on_link(view, source) == \E prefix \in view.prefixes : contains(prefix, canonical(source))

(* IPv4 before IPv6; which of them is the first in the order of the text is  *)
(* left open.                                                                *)
Eligible(addresses, family) ==
    {Host(a) : a \in {b \in addresses : b.family = family /\ eligible(Host(b))}}
enrollment_url(addresses) ==
    IF Eligible(addresses, 4) # {} THEN Eligible(addresses, 4) ELSE Eligible(addresses, 6)

-----------------------------------------------------------------------------
(* NetworkManager, and the observer that reads it. *)

Of(addresses, family) == {a \in addresses : a.family = family}

(* replaced: the connection it reads is no longer the primary one. *)
Idle == [at |-> "idle", asker |-> "console", live |-> FALSE, replaced |-> FALSE,
         path |-> NoConnection, addresses |-> {}]

(* Another connection becomes the primary one, with objects of its own; those *)
(* of the replaced one may go, or stay with whatever addresses it has then.   *)
Activates(connection, addresses) ==
    /\ connection # nm.path
    /\ nm' = [path |-> connection, addresses |-> addresses]
    /\ reading' = [reading EXCEPT !.replaced = reading.at \in {"device", "ip4", "ip6"}]
    /\ UNCHANGED <<slot, flight, caller, console>>

(* The connection gets other addresses. *)
Readdresses(addresses) ==
    /\ nm.path # NoConnection
    /\ nm' = [nm EXCEPT !.addresses = addresses]
    /\ UNCHANGED <<reading, slot, flight, caller, console>>

(* The status goes to whoever still waits for it; the permit is given back.  *)
(* validate_network_status of sl-platformd decides what it is worth.         *)
Replies(ok, path, addresses) ==
    /\ reading' = Idle
    /\ flight' = IF reading.live /\ reading.asker # "console"
                 THEN [flight EXCEPT ![reading.asker] = "value"] ELSE flight
    /\ console' =
         IF reading.live /\ reading.asker = "console"
         THEN IF ok /\ Cardinality(addresses) <= MAX_ADDRESSES
              THEN [at |-> "shown", path |-> path, addresses |-> addresses]
              ELSE [console EXCEPT !.at = "none"]
         ELSE console
    /\ UNCHANGED <<nm, slot, caller>>

Continues(step, path, addresses) ==
    /\ reading' = [reading EXCEPT !.at = step, !.path = path, !.addresses = addresses]
    /\ UNCHANGED <<nm, slot, flight, caller, console>>

read_primary ==
    /\ reading.at = "primary"
    /\ IF nm.path = NoConnection THEN Replies(TRUE, NoConnection, {})
       ELSE Continues("device", nm.path, {})

read_device ==
    /\ reading.at = "device"
    /\ Continues("ip4", reading.path, {})

(* What the objects of the connection that is read can say now. *)
Readable == IF reading.replaced THEN Configs[reading.path] ELSE {nm.addresses}

read_ip4 ==
    /\ reading.at = "ip4"
    /\ \E now \in Readable : Continues("ip6", reading.path, Of(now, 4))

\* Mutant: the second family is read from whatever is the primary connection now.
read_ip6_primary ==
    /\ reading.at = "ip6"
    /\ Replies(TRUE, reading.path, reading.addresses \cup Of(nm.addresses, 6))

read_ip6 ==
    /\ reading.at = "ip6"
    /\ \E now \in Readable : Replies(TRUE, reading.path, reading.addresses \cup Of(now, 6))

(* A property cannot be read, its object gone or not, or is not valid, or    *)
(* the observer's deadline.                                                  *)
read_fails ==
    /\ reading.at # "idle"
    /\ Replies(FALSE, NoConnection, {})

-----------------------------------------------------------------------------
(* sl-platformd. *)

Asks(asker) ==
    [Idle EXCEPT !.at = "primary", !.asker = asker, !.live = TRUE]

(* Whoever stops waiting for the observer does not stop the observer. *)
Abandons(asker) ==
    reading' = IF reading.asker = asker THEN [reading EXCEPT !.live = FALSE] ELSE reading

(* SharedRead::run. *)
get_status(c) ==
    /\ caller[c] = NoFlight
    /\ IF slot # NoFlight
       THEN caller' = [caller EXCEPT ![c] = slot] /\ UNCHANGED <<slot, flight>>
       ELSE \E f \in Flights :
              /\ flight[f] = "none"
              /\ slot' = f
              /\ flight' = [flight EXCEPT ![f] = "begins"]
              /\ caller' = [caller EXCEPT ![c] = f]
    /\ UNCHANGED <<nm, reading, console>>

(* The client goes; the observation has its own task. *)
leaves(c) ==
    /\ caller[c] # NoFlight
    /\ caller' = [caller EXCEPT ![c] = NoFlight]
    /\ UNCHANGED <<nm, reading, slot, flight, console>>

(* observe_status comes to the network: the observer is free, or Busy. *)
observe_network(f) ==
    /\ flight[f] = "begins"
    /\ IF reading.at = "idle"
       THEN reading' = Asks(f) /\ flight' = [flight EXCEPT ![f] = "asks"]
       ELSE flight' = [flight EXCEPT ![f] = "value"] /\ UNCHANGED reading
    /\ UNCHANGED <<nm, slot, caller, console>>

(* Something read before the network fails; while it is read, bootc fails or *)
(* the deadline passes.                                                      *)
observe_fails(f) ==
    /\ flight[f] \in {"begins", "asks"}
    /\ Abandons(f)
    /\ flight' = [flight EXCEPT ![f] = "value"]
    /\ UNCHANGED <<nm, slot, caller, console>>

\* Mutant: the slot is emptied, whichever observation is in it.
clear_any(f) == slot' = NoFlight

(* EndFlight::clear, with same_channel. *)
clear(f) == slot' = IF slot = f THEN NoFlight ELSE slot

Answers(f) == caller' = [c \in Callers |-> IF caller[c] = f THEN NoFlight ELSE caller[c]]

(* The value is sent and the slot emptied under one lock. *)
publish(f) ==
    /\ flight[f] = "value"
    /\ clear(f)
    /\ flight' = [flight EXCEPT ![f] = "unwinds"]
    /\ Answers(f)
    /\ UNCHANGED <<nm, reading, console>>

(* EndFlight::drop, under the lock once more. *)
drop(f) ==
    /\ flight[f] = "unwinds"
    /\ clear(f)
    /\ flight' = [flight EXCEPT ![f] = "none"]
    /\ UNCHANGED <<nm, reading, caller, console>>

\* Mutant: a panic leaves the slot as it is.
panics_without_drop(f) ==
    /\ flight[f] \in {"begins", "asks"}
    /\ Abandons(f)
    /\ flight' = [flight EXCEPT ![f] = "dead"]
    /\ Answers(f)
    /\ UNCHANGED <<nm, slot, console>>

(* The observation panics: its callers are told that it failed. *)
panics(f) ==
    /\ flight[f] \in {"begins", "asks"}
    /\ Abandons(f)
    /\ clear(f)
    /\ flight' = [flight EXCEPT ![f] = "none"]
    /\ Answers(f)
    /\ UNCHANGED <<nm, console>>

(* enrollment, under the permit of remote management: one at a time. *)
enrollment ==
    /\ console.at = "none"
    /\ IF reading.at = "idle"
       THEN reading' = Asks("console") /\ console' = [console EXCEPT !.at = "asks"]
       ELSE UNCHANGED <<reading, console>>
    /\ UNCHANGED <<nm, slot, flight, caller>>

enrollment_fails ==
    /\ console.at = "asks"
    /\ Abandons("console")
    /\ console' = [console EXCEPT !.at = "none"]
    /\ UNCHANGED <<nm, slot, flight, caller>>

(* The next menu. *)
enrollment_ends ==
    /\ console.at = "shown"
    /\ console' = [at |-> "none", path |-> NoConnection, addresses |-> {}]
    /\ UNCHANGED <<nm, reading, slot, flight, caller>>

-----------------------------------------------------------------------------

Init ==
    /\ nm = [path |-> NoConnection, addresses |-> {}]
    /\ reading = Idle
    /\ slot = NoFlight
    /\ flight = [f \in Flights |-> "none"]
    /\ caller = [c \in Callers |-> NoFlight]
    /\ console = [at |-> "none", path |-> NoConnection, addresses |-> {}]

NetworkManager ==
    \/ Activates(NoConnection, {})
    \/ \E c \in Connections : \E addresses \in Configs[c] : Activates(c, addresses)
    \/ \E addresses \in Configs[nm.path] : Readdresses(addresses)

Observer == read_primary \/ read_device \/ read_ip4 \/ read_ip6 \/ read_fails

Platform ==
    \/ \E c \in Callers : get_status(c) \/ leaves(c)
    \/ \E f \in Flights :
        observe_network(f) \/ observe_fails(f) \/ publish(f) \/ drop(f) \/ panics(f)
    \/ enrollment \/ enrollment_fails \/ enrollment_ends

Next == NetworkManager \/ Observer \/ Platform

Spec == Init /\ [][Next]_vars

(* Every await of an observation has a deadline, and its task is run. *)
LiveSpec ==
    /\ Spec
    /\ \A f \in Flights :
        /\ WF_vars(observe_network(f) \/ observe_fails(f))
        /\ WF_vars(publish(f))

-----------------------------------------------------------------------------

(* Every variable has its type. *)
TypeOK ==
    /\ nm \in [path : Connections \cup {NoConnection}, addresses : SUBSET Address]
    /\ reading \in [at : {"idle", "primary", "device", "ip4", "ip6"},
                    asker : Flights \cup {"console"}, live : BOOLEAN, replaced : BOOLEAN,
                    path : Connections \cup {NoConnection}, addresses : SUBSET Address]
    /\ slot \in Flights \cup {NoFlight}
    /\ flight \in [Flights -> {"none", "begins", "asks", "value", "unwinds"}]
    /\ caller \in [Callers -> Flights \cup {NoFlight}]
    /\ console \in [at : {"none", "asks", "shown"},
                    path : Connections \cup {NoConnection}, addresses : SUBSET Address]

(* Status calls never refuse each other: an observation that finds the       *)
(* observer Busy finds it reading for the console, or for nobody any more,   *)
(* also while one observation ends and the next begins (shared_read.rs: the  *)
(* end of one must not empty the slot of the next).                          *)
NeverRefuseEachOther ==
    \A f \in Flights : flight[f] = "begins" /\ reading.at # "idle" =>
        reading.asker = "console" \/ ~reading.live

(* No observation keeps the slot, or anyone who joined it, for good: whoever *)
(* leaves, and if it fails, is given up or panics, its callers are answered  *)
(* and a later call starts anew (shared_read.rs: EndFlight).                 *)
FlightsEnd ==
    \A f \in Flights :
        (slot = f \/ \E c \in Callers : caller[c] = f)
            ~> (slot # f /\ \A c \in Callers : caller[c] # f)

(* The reference for on_link: the leading bits are equal. *)
Bit(host, i) == (host.bits \div pow2[Width(host.family) - i]) % 2
SameNetwork(address, host) ==
    /\ host.family = address.family
    /\ \A i \in 1 .. address.length : Bit(host, i) = Bit(address, i)
Addresses(c) == UNION Configs[c]

(* Every URL is an address of the connection it was read for, and sl-remoted *)
(* listens there and would let that host in, unless it is an IPv4-mapped     *)
(* address, which counts as a source of the other family.                    *)
UrlOfOneConnection ==
    LET view == view_from_status(console.addresses)
    IN  console.at = "shown" =>
        \A host \in enrollment_url(console.addresses) :
            /\ \E a \in Addresses(console.path) : Host(a) = host
            /\ view.ok => host \in view.listen
            /\ view.ok /\ canonical(host) = host => on_link(view, host)

(* sl-remoted lets in exactly the hosts of the networks in a status, an      *)
(* IPv4-mapped one as the IPv4 host it stands for (network.rs: on_link).     *)
OnLinkIsExact ==
    LET view == view_from_status(console.addresses)
    IN  console.at = "shown" /\ view.ok =>
        \A source \in Hosts :
            on_link(view, source) <=>
                \E a \in console.addresses : SameNetwork(a, canonical(source))

(* The URL on the console is an address of the connection it was read for,   *)
(* although NetworkManager may replace connection and addresses between two  *)
(* reads; and sl-remoted, which works the same status out for itself,        *)
(* listens there and lets in exactly the hosts of the networks in it.  There *)
(* are two exceptions: with a /0 prefix in the status there is a URL, and    *)
(* sl-remoted serves nobody; and a URL that is an IPv4-mapped address is     *)
(* listened on, but not a source of its own network (network.rs: canonical). *)
UrlIsServed == UrlOfOneConnection /\ OnLinkIsExact
=============================================================================
