------------------------ MODULE MCNetworkObservation ------------------------
EXTENDS NetworkObservation, TLC

CONSTANTS wired, wifi

A(family, bits, length) == [family |-> family, bits |-> bits, length |-> length]

\* A host route, a link-local address, both families, a /0 prefix, an IPv4-mapped address,
\* too many addresses.
MCConfigs == (wired :> {{A(4, 5, 3), A(6, 2, 2), A(6, 6, 3)}, {A(6, 2, 2)}, {A(6, 12, 3)}})
    @@ (wifi :> {{A(4, 2, 1), A(4, 7, 2), A(6, 4, 4)}, {A(4, 4, 0)},
                 {A(4, 1, 3), A(4, 4, 3), A(4, 6, 3), A(6, 7, 2)}})
    @@ (NoConnection :> {})
=============================================================================
