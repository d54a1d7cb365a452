------------------------------- MODULE Schema -------------------------------
(***************************************************************************)
(* The file load_board.db over the life of an installation: its creation,  *)
(* the onUpgrade of DatabaseHelper.initDB run statement by statement on a  *)
(* file that an earlier release left, and kills of the app at any point.   *)
(* sqflite runs onCreate and onUpgrade in one transaction that also sets   *)
(* the version; an exception out of them rolls it back.  main() awaits the *)
(* database before runApp, so an app whose database does not open shows    *)
(* nothing at all.                                                         *)
(***************************************************************************)
EXTENDS Integers, Sequences, FiniteSets

CONSTANTS
  Files,      \* what the first start of this release may find
  NoFile,     \* no file, in Files when the app was never installed
  MaxKills    \* bound: kills of the app

Newest == 15

-----------------------------------------------------------------------------
(* Columns.  "original" stands for those no upgrade adds.  isCarrierPost   *)
(* is among them: _onCreate has it and toMap names it, and every file the  *)
(* app created is taken to have it, unlike the tables of the tests.        *)

Location ==
  <<"originCity", "originCountry", "originState", "originPostalCode",
    "originDescription", "destinationCity", "destinationCountry",
    "destinationState", "destinationPostalCode", "destinationDescription",
    "pickupTime", "deliveryTime", "appointment">>

Safer ==
  <<"safer_legal_name", "safer_entity_type", "safer_status", "safer_address",
    "safer_usdot_number", "safer_mc_number", "safer_power_units",
    "safer_drivers", "safer_usdot_status">>

NamesIn(s) == {s[k] : k \in DOMAIN s}

(* The CREATE TABLE statements of onCreate. *)
CreatedLoads ==
  {"original", "loadType", "pickupLatitude", "pickupLongitude",
   "destinationLatitude", "destinationLongitude", "originRadius",
   "destinationRadius", "distance", "contactPerson", "contactAddress",
   "postedByName", "destinationDifference", "status", "safetyRating",
   "createdAt", "updatedAt", "isActive", "volume", "isbroken", "isbooked",
   "selectedBidId", "brokerConfirmed", "carrierConfirmed"} \cup NamesIn(Location)

CreatedUsers == {"original", "loadType", "lanePreferences"}

(* What a stored load names. *)
LoadColumns == CreatedLoads

-----------------------------------------------------------------------------
(* The ALTER TABLE statements of onUpgrade, in their order.  One whose     *)
(* failure is not caught ends the upgrade ("must"); one in a try of its    *)
(* own is passed over ("may"); one of the location columns of version 11,  *)
(* which share a try, skips the rest of them ("shared").                   *)

Alter(below, table, mode, names) ==
  [k \in 1 .. Len(names) |->
     [below |-> below, table |-> table, mode |-> mode, column |-> names[k]]]

Statements ==
     Alter(2, "loads", "must", <<"loadType">>)
  \o Alter(3, "loads", "must", <<"pickupLatitude", "pickupLongitude",
                                 "destinationLatitude", "destinationLongitude">>)
  \o Alter(6, "loads", "must", <<"distance", "destinationDifference", "status">>)
  \o Alter(7, "users", "must", <<"lanePreferences", "loadType">>)
  \o Alter(8, "users", "must", <<"distanceRadiusLimit">>)
  \o Alter(9, "loads", "must", <<"originRadius", "destinationRadius">>)
  \o Alter(10, "users", "must", Safer)
  \o Alter(11, "loads", "must", <<"contactPerson", "contactAddress", "postedByName",
                                  "destinationDifference", "status", "safetyRating">>)
  \o Alter(11, "loads", "shared", Location)
  \o Alter(12, "loads", "may", Location)
  \o Alter(13, "loads", "may", <<"createdAt", "updatedAt", "isActive", "volume",
                                 "isbroken", "isbooked">>)
  \o Alter(14, "loads", "may", <<"selectedBidId", "brokerConfirmed", "carrierConfirmed">>)

Last == Len(Statements)

(* Whether the upgrade from version v runs the k-th statement. *)
Applies(v, k) == v < Statements[k].below

Tables == {"loads", "users"}
Columns ==
  CreatedLoads \cup CreatedUsers \cup
  {Statements[k].column : k \in 1 .. Last}

(* A file of the first release that sets a version, up to this one. *)
File == [version : 1 .. Newest, columns : [Tables -> SUBSET Columns]]
Created == [loads |-> CreatedLoads, users |-> CreatedUsers]

ASSUME FilesAssumption == Files \subseteq File \cup {NoFile} /\ NoFile \notin File
ASSUME KillsAssumption == MaxKills \in Nat
ASSUME StatementsAssumption ==
  /\ Last \in Nat
  /\ \A k \in 1 .. Last :
       /\ Statements[k].below \in 1 .. Newest
       /\ Statements[k].table \in Tables
       /\ Statements[k].column \in Columns

-----------------------------------------------------------------------------

VARIABLES
  file,    \* the file as it is on the device
  phase,   \* where the app is
  next,    \* the next statement of the transaction
  txn,     \* the columns inside the transaction
  kills

vars == <<file, phase, next, txn, kills>>

Phases == {"off", "creating", "upgrading", "running", "dead"}
NoColumns == [t \in Tables |-> {}]

(* Outside a transaction there is nothing uncommitted. *)
TypeOK ==
  /\ file \in File \cup {NoFile}
  /\ phase \in Phases
  /\ next \in 1 .. Last + 1
  /\ txn \in [Tables -> SUBSET Columns]
  /\ kills \in 0 .. MaxKills
  /\ phase # "upgrading" => txn = NoColumns
  /\ phase \in {"upgrading", "running"} => file # NoFile

Init ==
  /\ file \in Files
  /\ phase = "off"
  /\ next = 1
  /\ txn = NoColumns
  /\ kills = 0

-----------------------------------------------------------------------------

(* main() up to openDatabase, which compares versions. *)
Start ==
  /\ phase = "off"
  /\ \/ /\ file = NoFile
        /\ phase' = "creating"
        /\ UNCHANGED <<next, txn>>
     \/ /\ file # NoFile
        /\ file.version = Newest
        /\ phase' = "running"
        /\ UNCHANGED <<next, txn>>
     \/ /\ file # NoFile
        /\ file.version < Newest
        /\ phase' = "upgrading"
        /\ next' = 1
        /\ txn' = file.columns
  /\ UNCHANGED <<file, kills>>

(* onCreate and its commit. *)
Create ==
  /\ phase = "creating"
  /\ file' = [version |-> Newest, columns |-> Created]
  /\ phase' = "running"
  /\ UNCHANGED <<next, txn, kills>>

(* An if (oldVersion < ...) that is false passes its statements over. *)
PassOver ==
  /\ phase = "upgrading"
  /\ next <= Last
  /\ ~Applies(file.version, next)
  /\ next' = next + 1
  /\ UNCHANGED <<file, phase, txn, kills>>

AddColumn ==
  /\ phase = "upgrading"
  /\ next <= Last
  /\ Applies(file.version, next)
  /\ LET s == Statements[next]
     IN  /\ s.column \notin txn[s.table]
         /\ txn' = [txn EXCEPT ![s.table] = @ \cup {s.column}]
  /\ next' = next + 1
  /\ UNCHANGED <<file, phase, kills>>

GoesOnAtNextVersion(k, j) ==   \* mutant: one try around each version's statements
  /\ j <= Last => Statements[j].below # Statements[k].below
  /\ \A i \in k + 1 .. j - 1 : Statements[i].below = Statements[k].below

(* Statement j is where an upgrade goes on after a caught failure at k. *)
GoesOnAt(k, j) ==
  IF Statements[k].mode = "may"
  THEN j = k + 1
  ELSE /\ j <= Last => Statements[j].mode # "shared"
       /\ \A i \in k + 1 .. j - 1 : Statements[i].mode = "shared"

DuplicateRetried ==   \* mutant: the same statement is tried again
  /\ phase = "upgrading"
  /\ next <= Last
  /\ Applies(file.version, next)
  /\ Statements[next].column \in txn[Statements[next].table]
  /\ IF Statements[next].mode = "must"
     THEN phase' = "dead" /\ next' = 1 /\ txn' = NoColumns
     ELSE UNCHANGED <<next, phase, txn>>
  /\ UNCHANGED <<file, kills>>

DuplicateUncaught ==   \* mutant: no try around the later statements
  /\ phase = "upgrading"
  /\ next <= Last
  /\ Applies(file.version, next)
  /\ Statements[next].column \in txn[Statements[next].table]
  /\ phase' = "dead"
  /\ next' = 1
  /\ txn' = NoColumns
  /\ UNCHANGED <<file, kills>>

(* SQLite refuses to add a column twice. *)
DuplicateColumn ==
  /\ phase = "upgrading"
  /\ next <= Last
  /\ Applies(file.version, next)
  /\ Statements[next].column \in txn[Statements[next].table]
  /\ IF Statements[next].mode = "must"
     THEN phase' = "dead" /\ next' = 1 /\ txn' = NoColumns
     ELSE /\ \E j \in next + 1 .. Last + 1 : GoesOnAt(next, j) /\ next' = j
          /\ UNCHANGED <<phase, txn>>
  /\ UNCHANGED <<file, kills>>

Commit ==
  /\ phase = "upgrading"
  /\ next = Last + 1
  /\ file' = [version |-> Newest, columns |-> txn]
  /\ phase' = "running"
  /\ next' = 1
  /\ txn' = NoColumns
  /\ UNCHANGED kills

KillKeepsTransaction ==   \* mutant: the open transaction is not rolled back
  /\ phase # "off"
  /\ kills < MaxKills
  /\ kills' = kills + 1
  /\ phase' = "off"
  /\ next' = 1
  /\ UNCHANGED <<file, txn>>

(* The app ends, or is killed; SQLite rolls an open transaction back.  A   *)
(* user whose app shows nothing can do nothing else.                       *)
Kill ==
  /\ phase # "off"
  /\ kills < MaxKills
  /\ kills' = kills + 1
  /\ phase' = "off"
  /\ next' = 1
  /\ txn' = NoColumns
  /\ UNCHANGED file

Open == Create \/ PassOver \/ AddColumn \/ DuplicateColumn \/ Commit
Next == Start \/ Open \/ Kill

Spec == Init /\ [][Next]_vars
LiveSpec == Spec /\ WF_vars(Open)

-----------------------------------------------------------------------------

(* Files the upgrade can finish: a statement that must succeed adds a      *)
(* column that neither the file nor an earlier statement has, and every    *)
(* column a stored load names is there or added by a statement that runs   *)
(* whatever became of the others.                                          *)
Upgradable(f) ==
  /\ \A k \in 1 .. Last :
       Applies(f.version, k) /\ Statements[k].mode = "must" =>
         /\ Statements[k].column \notin f.columns[Statements[k].table]
         /\ \A j \in 1 .. k - 1 :
              Applies(f.version, j) /\ Statements[j].table = Statements[k].table
                => Statements[j].column # Statements[k].column
  /\ \A c \in LoadColumns \ f.columns["loads"] :
       \E k \in 1 .. Last :
         /\ Applies(f.version, k)
         /\ Statements[k].table = "loads"
         /\ Statements[k].mode # "shared"
         /\ Statements[k].column = c

(* A file that carries the newest version has every column LoadPost.toMap  *)
(* names, whichever release made it, whatever the try blocks passed over   *)
(* and whenever the app was killed: insertLoad can store a load            *)
(* (onUpgrade of initDB).                                                  *)
VersionMeansColumns ==
  file # NoFile =>
    (file.version = Newest => LoadColumns \subseteq file.columns["loads"])

(* The upgrade of such a file never fails for good: no uncaught duplicate  *)
(* column keeps main() from reaching runApp.                               *)
NeverDead == phase # "dead"

(* Opening the database ends, also when statements fail (the awaits of     *)
(* onUpgrade), unless the app is killed.                                   *)
OpenEnds == phase \in {"creating", "upgrading"} ~> phase \in {"running", "off"}

=============================================================================
