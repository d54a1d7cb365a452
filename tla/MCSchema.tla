------------------------------ MODULE MCSchema ------------------------------
(* Values for checking Schema with TLC. *)
EXTENDS Schema

(* The columns the guarded statements bring to a file of version v. *)
Later(v) ==
  {Statements[k].column : k \in {k \in 1 .. Last :
     Applies(v, k) /\ Statements[k].mode = "may"}}

(* Which of them a file lacks: all, none, any one, all but one. *)
Missing(v) ==
  {Later(v), {}} \cup {{c} : c \in Later(v)} \cup {Later(v) \ {c} : c \in Later(v)}

(* The columns an upgrade from version v must be able to add. *)
Lacking(v, table) ==
  {Statements[k].column : k \in {k \in 1 .. Last :
     /\ Applies(v, k)
     /\ Statements[k].mode = "must"
     /\ Statements[k].table = table}}

Left(v, missing) ==
  [version |-> v,
   columns |->
     [loads |-> LoadColumns \ (missing \cup Lacking(v, "loads")),
      users |-> (CreatedUsers \cup {"distanceRadiusLimit"} \cup NamesIn(Safer))
                  \ Lacking(v, "users")]]

(* Files of the releases from version 6 on, and a first installation.  A   *)
(* file of version 6 to 10 is here when it lacks what version 11 adds.     *)
Recent == {NoFile} \cup
  UNION {{Left(v, missing) : missing \in Missing(v)} : v \in 6 .. 14}

(* The file test/database_test.dart:57-85 makes, with a users table. *)
Version5 ==
  {[version |-> 5,
    columns |-> [loads |-> {"original", "loadType", "pickupLatitude", "pickupLongitude",
                            "destinationLatitude", "destinationLongitude"},
                 users |-> {"original"}]]}

ASSUME RecentFilesAreUpgradable == \A f \in Recent \ {NoFile} : Upgradable(f)
=============================================================================
