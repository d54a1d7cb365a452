---------------------------- MODULE SchemaProofs ----------------------------
(***************************************************************************)
(* The upgrade of a file that satisfies Upgradable, whichever release left *)
(* it and however often the app is killed.                                 *)
(*                                                                         *)
(* NeverDead is not inductive: that a statement which must succeed finds   *)
(* its column absent depends on everything the transaction did before.     *)
(* Progressed says what that is: the transaction holds the file's columns  *)
(* and nothing else but what statements already passed added, and none of  *)
(* those outside the shared try was skipped.                               *)
(***************************************************************************)
EXTENDS Schema, TLAPS

AllUpgradable == \A f \in Files \ {NoFile} : Upgradable(f)

Progressed ==
  phase = "upgrading" =>
    /\ \A t \in Tables : file.columns[t] \subseteq txn[t]
    /\ \A t \in Tables, c \in Columns :
         c \in txn[t] \ file.columns[t] =>
           \E k \in 1 .. Last : /\ k < next
                                /\ Applies(file.version, k)
                                /\ Statements[k].table = t
                                /\ Statements[k].column = c
    /\ \A k \in 1 .. Last :
         k < next /\ Applies(file.version, k) /\ Statements[k].mode # "shared" =>
           Statements[k].column \in txn[Statements[k].table]

Inv ==
  /\ TypeOK
  /\ file # NoFile => Upgradable(file)
  /\ Progressed
  /\ NeverDead

-----------------------------------------------------------------------------
(* What the columns and statements are to the provers. *)

LEMMA ColumnFacts ==
  /\ CreatedLoads \subseteq Columns
  /\ CreatedUsers \subseteq Columns
  /\ LoadColumns = CreatedLoads
BY DEF Columns, LoadColumns

(* The file onCreate makes is complete: no upgrade statement is for its    *)
(* version and every column LoadPost.toMap names is in its CREATE TABLE.   *)
LEMMA CreatedUpgradable ==
  LET f == [version |-> Newest, columns |-> Created]
  IN  f \in File /\ Upgradable(f)
<1> DEFINE f == [version |-> Newest, columns |-> Created]
<1>1. f \in File
  BY ColumnFacts DEF File, Created, Newest, Tables
<1>2. \A k \in 1 .. Last : ~Applies(f.version, k)
  BY StatementsAssumption DEF Applies, Newest
<1>3. LoadColumns \ f.columns["loads"] = {}
  BY ColumnFacts DEF Created
<1> QED  BY <1>1, <1>2, <1>3 DEF Upgradable

(* A complete upgrade leaves every column LoadPost.toMap names.            *)
LEMMA CommittedUpgradable ==
  ASSUME Inv, phase = "upgrading", next = Last + 1
  PROVE  LET f == [version |-> Newest, columns |-> txn]
         IN  f \in File /\ Upgradable(f)
<1> DEFINE f == [version |-> Newest, columns |-> txn]
<1>1. f \in File
  BY DEF File, Inv, TypeOK, Newest
<1>2. \A k \in 1 .. Last : ~Applies(f.version, k)
  BY StatementsAssumption DEF Applies, Newest
<1>3. LoadColumns \subseteq txn["loads"]
  <2> SUFFICES ASSUME NEW c \in LoadColumns, c \notin txn["loads"]
               PROVE  FALSE
    OBVIOUS
  <2>1. c \notin file.columns["loads"]
    BY DEF Inv, Progressed, Tables
  <2>2. PICK k \in 1 .. Last : /\ Applies(file.version, k)
                               /\ Statements[k].table = "loads"
                               /\ Statements[k].mode # "shared"
                               /\ Statements[k].column = c
    BY <2>1 DEF Inv, TypeOK, Upgradable
  <2>3. k < next
    BY StatementsAssumption
  <2> QED  BY <2>2, <2>3 DEF Inv, Progressed
<1> QED  BY <1>1, <1>2, <1>3 DEF Upgradable

-----------------------------------------------------------------------------

LEMMA Initially ==
  ASSUME AllUpgradable, Init
  PROVE  Inv
<1>1. TypeOK
  BY FilesAssumption, KillsAssumption, StatementsAssumption
  DEF Init, TypeOK, Phases, NoColumns, Tables
<1>2. file # NoFile => Upgradable(file)
  BY DEF Init, AllUpgradable
<1> QED  BY <1>1, <1>2 DEF Inv, Init, Progressed, NeverDead

(* A statement that must succeed finds its column absent.                  *)
LEMMA MustFindsAbsent ==
  ASSUME Inv, phase = "upgrading", next \in 1 .. Last,
         Applies(file.version, next), Statements[next].mode = "must"
  PROVE  Statements[next].column \notin txn[Statements[next].table]
<1> DEFINE t == Statements[next].table
           c == Statements[next].column
<1>1. t \in Tables /\ c \in Columns
  BY StatementsAssumption
<1>2. Upgradable(file)
  BY DEF Inv, TypeOK
<1>3. c \notin file.columns[t]
  BY <1>2 DEF Upgradable
<1> SUFFICES ASSUME c \in txn[t] PROVE FALSE
  OBVIOUS
<1>4. PICK k \in 1 .. Last : /\ k < next
                             /\ Applies(file.version, k)
                             /\ Statements[k].table = t
                             /\ Statements[k].column = c
  BY <1>1, <1>3 DEF Inv, Progressed
<1>5. k \in 1 .. next - 1
  BY <1>4, StatementsAssumption
<1> QED  BY <1>2, <1>4, <1>5 DEF Upgradable

LEMMA Step ==
  ASSUME Inv, [Next]_vars
  PROVE  Inv'
<1> USE StatementsAssumption
<1>1. CASE Start
  <2>1. TypeOK'
    BY <1>1 DEF Start, Inv, TypeOK, Phases, NoColumns, File, Newest, Tables
  <2>2. (file # NoFile => Upgradable(file))'
    BY <1>1 DEF Start, Inv, Upgradable, Applies
  <2>3. Progressed'
    BY <1>1 DEF Start, Inv, Progressed
  <2> QED  BY <1>1, <2>1, <2>2, <2>3 DEF Start, Inv, NeverDead
<1>2. CASE Create
  <2>1. file' \in File /\ Upgradable(file')
    BY <1>2, CreatedUpgradable DEF Create
  <2>2. TypeOK'
    BY <1>2, <2>1, FilesAssumption DEF Create, Inv, TypeOK, Phases
  <2> QED  BY <1>2, <2>1, <2>2 DEF Create, Inv, Progressed, NeverDead, Upgradable, Applies
<1>3. CASE PassOver
  <2>1. TypeOK'
    BY <1>3 DEF PassOver, Inv, TypeOK
  <2>2. Progressed'
    BY <1>3 DEF PassOver, Inv, TypeOK, Progressed, Applies
  <2> QED  BY <1>3, <2>1, <2>2 DEF PassOver, Inv, NeverDead, Upgradable, Applies
<1>4. CASE AddColumn
  <2>1. TypeOK'
    BY <1>4 DEF AddColumn, Inv, TypeOK
  <2>2. Progressed'
    BY <1>4 DEF AddColumn, Inv, TypeOK, Progressed, Applies
  <2> QED  BY <1>4, <2>1, <2>2 DEF AddColumn, Inv, NeverDead, Upgradable, Applies
<1>5. CASE DuplicateColumn
  <2>1. Statements[next].mode # "must"
    BY <1>5, MustFindsAbsent DEF DuplicateColumn, Inv, TypeOK
  <2>2. PICK j \in next + 1 .. Last + 1 : GoesOnAt(next, j) /\ next' = j
    BY <1>5, <2>1 DEF DuplicateColumn
  <2>3. UNCHANGED <<file, phase, txn, kills>>
    BY <1>5, <2>1 DEF DuplicateColumn
  <2>4. TypeOK'
    BY <2>2, <2>3 DEF Inv, TypeOK
  <2>5. \A k \in 1 .. Last : k < j /\ Statements[k].mode # "shared" => k <= next
    BY <2>2 DEF GoesOnAt, Inv, TypeOK
  <2>6. Progressed'
    BY <1>5, <2>2, <2>3, <2>5 DEF DuplicateColumn, Inv, TypeOK, Progressed, Applies
  <2> QED  BY <2>3, <2>4, <2>6 DEF Inv, NeverDead, Upgradable, Applies
<1>6. CASE Commit
  <2>1. file' \in File /\ Upgradable(file')
    BY <1>6, CommittedUpgradable DEF Commit
  <2>2. TypeOK'
    BY <1>6, <2>1, FilesAssumption DEF Commit, Inv, TypeOK, Phases, NoColumns, Tables
  <2> QED  BY <1>6, <2>1, <2>2 DEF Commit, Inv, Progressed, NeverDead, Upgradable, Applies
<1>7. CASE Kill
  <2>1. TypeOK'
    BY <1>7, KillsAssumption DEF Kill, Inv, TypeOK, Phases, NoColumns, Tables
  <2> QED  BY <1>7, <2>1 DEF Kill, Inv, Progressed, NeverDead, Upgradable, Applies
<1>8. CASE UNCHANGED vars
  BY <1>8 DEF vars, Inv, TypeOK, Progressed, NeverDead, Upgradable, Applies
<1> QED  BY <1>1, <1>2, <1>3, <1>4, <1>5, <1>6, <1>7, <1>8 DEF Next, Open

LEMMA AlwaysInv ==
  ASSUME AllUpgradable
  PROVE  Spec => []Inv
<1>1. Init => Inv
  BY Initially
<1>2. Inv /\ [Next]_vars => Inv'
  BY Step
<1> QED  BY <1>1, <1>2, PTL DEF Spec

-----------------------------------------------------------------------------

(* What the app keeps always has its type, and no transaction outlives the *)
(* opening it belongs to (initDB).                                         *)
THEOREM SchemaTypes ==
  ASSUME AllUpgradable
  PROVE  Spec => []TypeOK
<1>1. Inv => TypeOK
  BY DEF Inv
<1> QED  BY <1>1, AlwaysInv, PTL

(* If every file the app may find is one the upgrade can finish, opening   *)
(* the database never fails for good (onUpgrade of initDB).                *)
THEOREM UpgradesNeverDie ==
  ASSUME AllUpgradable
  PROVE  Spec => []NeverDead
<1>1. Inv => NeverDead
  BY DEF Inv
<1> QED  BY <1>1, AlwaysInv, PTL

(* Then also a file with the newest version has every column insertLoad    *)
(* writes (onUpgrade of initDB, LoadPost.toMap).                           *)
THEOREM VersionsMeanColumns ==
  ASSUME AllUpgradable
  PROVE  Spec => []VersionMeansColumns
<1>1. Inv => VersionMeansColumns
  <2> SUFFICES ASSUME Inv, file # NoFile, file.version = Newest
               PROVE  LoadColumns \subseteq file.columns["loads"]
    BY DEF VersionMeansColumns
  <2>1. \A k \in 1 .. Last : ~Applies(file.version, k)
    BY StatementsAssumption DEF Applies, Newest
  <2> QED  BY <2>1 DEF Inv, Upgradable
<1> QED  BY <1>1, AlwaysInv, PTL
=============================================================================
