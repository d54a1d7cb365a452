---------------------------- MODULE MCRouteLookup ----------------------------
(* A load with two objects and its return load, a load without an origin   *)
(* and one without a destination, whose origin was found before.           *)
EXTENDS RouteLookup, TLC

CONSTANTS l1, l2, l3, r1, p1, p2, p3, p4, p5, a, b, blank

TheObjects == (p1 :> l1) @@ (p2 :> l1) @@ (p3 :> l2) @@ (p4 :> l3) @@ (p5 :> r1)

TheAddresses ==
  (l1 :> [origin |-> a, destination |-> b]) @@ (r1 :> [origin |-> b, destination |-> a])
    @@ (l2 :> [origin |-> blank, destination |-> b]) @@ (l3 :> [origin |-> a, destination |-> blank])

TheStored ==
  [l \in Loads |-> [origin |-> IF l = l3 THEN a ELSE Nowhere, destination |-> Nowhere, distance |-> "none"]]

TheOriginals == r1 :> l1
=============================================================================
