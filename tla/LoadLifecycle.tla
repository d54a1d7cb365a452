--------------------------- MODULE LoadLifecycle ---------------------------
(***************************************************************************)
(* What the load board promises about one load after another: a load is    *)
(* posted, one of its bidders is chosen, that carrier confirms or          *)
(* declines, and nobody else's step moves it.  LoadBoard implements this   *)
(* when its handlers do not overlap (MCLoadBoard, serial instances); the   *)
(* stages are read off the rows of the table `loads`.                      *)
(***************************************************************************)
CONSTANTS Loads, Seeds, Carriers, Bidders, NoOne

VARIABLE stage   \* stage of each load and the carrier it concerns

Absent == [phase |-> "absent", carrier |-> NoOne]
Open == [phase |-> "available", carrier |-> NoOne]
Stage == [phase: {"absent", "available", "awaiting", "confirmed", "declined"},
          carrier: Bidders \cup {NoOne}]

Init == stage \in [Loads -> Stage]

Move(l, phase, carrier) ==
    stage' = [stage EXCEPT ![l] = [phase |-> phase, carrier |-> carrier]]

Appear(l) == stage[l] = Absent /\ stage' = [stage EXCEPT ![l] = Open]

Vanish(l) == stage' = [stage EXCEPT ![l] = Absent]

(* The broker may choose whatever the stage: also after a confirmation. *)
Choose(l, b) == stage[l] # Absent /\ Move(l, "awaiting", b)

Confirm(l) ==
    /\ stage[l].phase = "awaiting"
    /\ stage[l].carrier \in Carriers
    /\ Move(l, "confirmed", stage[l].carrier)

(* The load goes on naming the carrier who declined. *)
Decline(l) ==
    /\ stage[l].phase = "awaiting"
    /\ stage[l].carrier \in Carriers
    /\ Move(l, "declined", stage[l].carrier)

(* A start of the app puts a test load back to its first stage. *)
Reset(l) ==
    /\ \E i \in DOMAIN Seeds : Seeds[i] = l
    /\ stage' = [stage EXCEPT ![l] = Open]

Next == \E l \in Loads :
            \/ Appear(l) \/ Vanish(l) \/ Confirm(l) \/ Decline(l) \/ Reset(l)
            \/ \E b \in Bidders : Choose(l, b)

Spec == Init /\ [][Next]_stage
=============================================================================
