--------------------------- MODULE DistanceLookup ---------------------------
(***************************************************************************)
(* What the rest of the app relies on of calculateDistance: a lookup that  *)
(* was started comes to a text, which is cached for its load, and when it  *)
(* is a distance the row is written; without an address there is no text.  *)
(* LoadBoard is written against this (RouteFound, RouteMissing,            *)
(* DistanceSaved); RouteLookup implements it.                              *)
(***************************************************************************)
CONSTANTS
  Lookups, Loads,
  Unaddressed   \* the loads with an empty address

VARIABLES
  stage,    \* per lookup
  subject,  \* per lookup, its load
  cached    \* the loads with a text

abstract == <<stage, subject, cached>>

Init ==
  /\ stage = [i \in Lookups |-> "idle"]
  /\ cached = {}

(* Nothing starts for a load with a text, and nothing comes of a load      *)
(* without an address.                                                     *)
Start(i, l) ==
  /\ stage[i] = "idle"
  /\ l \notin cached
  /\ subject' = [subject EXCEPT ![i] = l]
  /\ \/ stage' = [stage EXCEPT ![i] = "route"] /\ UNCHANGED cached
     \/ l \in Unaddressed /\ stage' = [stage EXCEPT ![i] = "done"] /\ UNCHANGED cached

Ends(i, next) ==
  /\ stage[i] = "route"
  /\ stage' = [stage EXCEPT ![i] = next]
  /\ UNCHANGED subject

Found(i) == Ends(i, "save") /\ cached' = cached \cup {subject[i]}

Missing(i) == Ends(i, "done") /\ cached' = cached \cup {subject[i]}

NoAddress(i) == subject[i] \in Unaddressed /\ Ends(i, "done") /\ UNCHANGED cached

Saved(i) ==
  /\ stage[i] = "save"
  /\ stage' = [stage EXCEPT ![i] = "done"]
  /\ UNCHANGED <<subject, cached>>

Next == \E i \in Lookups :
          \/ \E l \in Loads : Start(i, l)
          \/ Found(i) \/ Missing(i) \/ NoAddress(i) \/ Saved(i)

Spec == Init /\ [][Next]_abstract

(* No lookup stays under way: calculateDistance answers, whatever the      *)
(* network does.                                                           *)
LookupsEnd == \A i \in Lookups : stage[i] = "route" ~> stage[i] = "done"
=============================================================================
