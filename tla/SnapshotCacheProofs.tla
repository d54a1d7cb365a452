------------------------ MODULE SnapshotCacheProofs ------------------------
(***************************************************************************)
(* Theorems about SnapshotCache for every set of identifiers, any number   *)
(* of overlapping fetches, batches, searches and clears.                   *)
(*                                                                         *)
(* Together with TypeOK the three invariants are inductive: a spinner may  *)
(* survive the end of a fetch only through another fetch of the same       *)
(* identifier, which the end of the first one switches off as well.        *)
(***************************************************************************)
EXTENDS SnapshotCache, SequenceTheorems, TLAPS

Inv ==
  /\ TypeOK
  /\ SpinnerMeansFetching
  /\ SearchingMeansSearch
  /\ SearchListsClean

-----------------------------------------------------------------------------
(* The two operations on the lists of the search screen. *)

(* Putting an identifier in front keeps a list of identifiers without      *)
(* repetitions (the contains checks of _performSearch).                    *)
LEMMA ListedClean ==
  ASSUME NEW s \in Seq(Ids), NEW i \in Ids, Distinct(s)
  PROVE  Listed(s, i) \in Seq(Ids) /\ Distinct(Listed(s, i))
<1>1. CASE i \in Entries(s)
  BY <1>1 DEF Listed
<1>2. CASE i \notin Entries(s)
  <2> DEFINE t == <<i>> \o s
  <2>1. <<i>> \in Seq(Ids) /\ Len(<<i>>) = 1 /\ <<i>>[1] = i
    OBVIOUS
  <2>2. /\ t \in Seq(Ids)
        /\ Len(t) = 1 + Len(s)
        /\ \A k \in 1 .. Len(t) : t[k] = IF k = 1 THEN i ELSE s[k - 1]
    <3>1. /\ t \in Seq(Ids)
          /\ Len(t) = Len(<<i>>) + Len(s)
          /\ \A k \in 1 .. Len(<<i>>) + Len(s) :
               t[k] = IF k <= Len(<<i>>) THEN <<i>>[k] ELSE s[k - Len(<<i>>)]
      BY <2>1, ConcatProperties
    <3> QED  BY <2>1, <3>1
  <2>3. \A k \in 1 .. Len(s) : s[k] # i
    BY <1>2 DEF Entries
  <2>4. Distinct(t)
    <3> HIDE DEF t
    <3> SUFFICES ASSUME NEW j \in 1 .. Len(t), NEW k \in 1 .. Len(t), j # k
                 PROVE  t[j] # t[k]
      BY DEF Distinct
    <3>1. Len(s) \in Nat
      OBVIOUS
    <3>2. CASE j = 1
      BY <2>2, <2>3, <3>1, <3>2
    <3>3. CASE k = 1
      BY <2>2, <2>3, <3>1, <3>3
    <3>4. CASE j # 1 /\ k # 1
      <4>1. j - 1 \in 1 .. Len(s) /\ k - 1 \in 1 .. Len(s) /\ j - 1 # k - 1
        BY <2>2, <3>1, <3>4
      <4> QED  BY <2>2, <3>4, <4>1 DEF Distinct
    <3> QED  BY <3>2, <3>3, <3>4
  <2> QED  BY <1>2, <2>2, <2>4 DEF Listed
<1> QED  BY <1>1, <1>2

(* Dropping the oldest entries keeps that and bounds the list. *)
LEMMA KeptClean ==
  ASSUME NEW s \in Seq(Ids), Distinct(s)
  PROVE  /\ Kept(s) \in Seq(Ids)
         /\ Distinct(Kept(s))
         /\ Len(Kept(s)) <= HistoryMax
<1> USE BoundsAssumption
<1>1. CASE Len(s) <= HistoryMax
  BY <1>1 DEF Kept
<1>2. CASE ~(Len(s) <= HistoryMax)
  <2> DEFINE t == SubSeq(s, 1, HistoryMax)
  <2>1. Len(s) \in Nat /\ HistoryMax \in Nat /\ HistoryMax < Len(s)
    BY <1>2
  <2>2. \A k \in 1 .. HistoryMax : s[k] \in Ids
    BY <2>1
  <2>3. /\ t \in Seq(Ids)
        /\ Len(t) = HistoryMax
        /\ \A k \in 1 .. HistoryMax : t[k] = s[k]
    BY <2>1, <2>2, SubSeqProperties
  <2>4. Distinct(t)
    BY <2>1, <2>3 DEF Distinct
  <2> QED  BY <1>2, <2>1, <2>3, <2>4 DEF Kept
<1> QED  BY <1>1, <1>2

(* A result on the screen keeps its lists clean. *)
LEMMA ShowResultClean ==
  ASSUME history \in Seq(Ids), results \in Seq(Ids), SearchListsClean,
         NEW i \in Ids, NEW found \in BOOLEAN, ShowResult(i, found)
  PROVE  /\ history' \in Seq(Ids) /\ results' \in Seq(Ids)
         /\ SearchListsClean'
         /\ searching' = FALSE
<1>1. /\ Listed(history, i) \in Seq(Ids) /\ Distinct(Listed(history, i))
      /\ Listed(results, i) \in Seq(Ids) /\ Distinct(Listed(results, i))
  BY ListedClean DEF SearchListsClean
<1>2. /\ Kept(Listed(history, i)) \in Seq(Ids)
      /\ Distinct(Kept(Listed(history, i)))
      /\ Len(Kept(Listed(history, i))) <= HistoryMax
  BY <1>1, KeptClean
<1>3. CASE found
  BY <1>1, <1>2, <1>3 DEF ShowResult, SearchListsClean
<1>4. CASE ~found
  BY <1>4 DEF ShowResult, SearchListsClean
<1> QED  BY <1>3, <1>4

-----------------------------------------------------------------------------
(* The invariant. *)

LEMMA InitInv == Init => Inv
<1> SUFFICES ASSUME Init PROVE Inv
  OBVIOUS
<1>1. << >> \in Seq(Ids) /\ Len(<< >>) = 0
  OBVIOUS
<1>2. TypeOK
  <2>1. started \in 0 .. MaxCalls /\ clears \in 0 .. MaxClears
    BY BoundsAssumption DEF Init
  <2>2. history \in Seq(Ids) /\ results \in Seq(Ids) /\ searching \in BOOLEAN
    BY <1>1 DEF Init
  <2> QED  BY <2>1, <2>2, Zenon DEF Init, TypeOK
<1>3. SearchListsClean
  BY <1>1, BoundsAssumption DEF Init, SearchListsClean, Distinct
<1> QED  BY <1>2, <1>3 DEF Init, Inv, SpinnerMeansFetching, SearchingMeansSearch

(* A fetch that reaches the service is one more call, and its spinners are *)
(* its own (the part of fetchSnapshot and fetchMultipleSnapshots before    *)
(* the await).                                                             *)
LEMMA AskKeeps ==
  ASSUME Inv, NEW by \in {"search", "other", "batch"}, NEW S \in SUBSET Valid,
         Ask(by, S)
  PROVE  /\ snapshotCache' \subseteq Ids
         /\ loadingStates' \subseteq Ids
         /\ errorStates' \subseteq Ids
         /\ calls' \subseteq Call
         /\ started' \in 0 .. MaxCalls
         /\ clears' \in 0 .. MaxClears
         /\ SpinnerMeansFetching'
         /\ calls \subseteq calls'
         /\ by = "search" => \E c \in calls' : c.by = "search"
<1> DEFINE new == [no |-> started + 1, by |-> by, ids |-> S, todo |-> S, got |-> {}]
<1>1. new \in Call /\ new.ids = S /\ new.by = by
  BY BoundsAssumption DEF Inv, TypeOK, Ask, Call
<1>2. calls' = calls \cup {new}
  BY DEF Ask
<1>3. SpinnerMeansFetching'
  BY <1>1, <1>2 DEF Inv, SpinnerMeansFetching, Ask
<1>4. started' \in 0 .. MaxCalls /\ clears' \in 0 .. MaxClears
  BY BoundsAssumption DEF Inv, TypeOK, Ask
<1>5. /\ snapshotCache' \subseteq Ids
      /\ loadingStates' \subseteq Ids
      /\ errorStates' \subseteq Ids
  BY ValidAssumption DEF Inv, TypeOK, Ask
<1>6. calls' \subseteq Call
  BY <1>1, <1>2 DEF Inv, TypeOK
<1>7. by = "search" => \E c \in calls' : c.by = "search"
  BY <1>1, <1>2
<1> QED  BY <1>2, <1>3, <1>4, <1>5, <1>6, <1>7

LEMMA StepInv == Inv /\ [Next]_vars => Inv'
<1> SUFFICES ASSUME Inv, [Next]_vars PROVE Inv'
  OBVIOUS
<1> USE BoundsAssumption, ValidAssumption
<1>0. TypeOK /\ SpinnerMeansFetching /\ SearchingMeansSearch /\ SearchListsClean
  BY DEF Inv
<1>1. ASSUME NEW i \in Ids, FetchSnapshot(i) PROVE Inv'
  <2>1. UNCHANGED screen /\ SearchListsClean'
    BY <1>0, <1>1 DEF FetchSnapshot, screen, SearchListsClean
  <2>2. CASE i \in Valid
    <3>1. Ask("other", {i})
      BY <1>1, <2>2 DEF FetchSnapshot
    <3>2. {i} \in SUBSET Valid
      BY <2>2
    <3> QED
      BY <1>0, <2>1, <3>1, <3>2, AskKeeps
      DEF Inv, TypeOK, SearchingMeansSearch, screen
  <2>3. CASE i \notin Valid
    BY <1>0, <1>1, <2>1, <2>3
    DEF FetchSnapshot, Inv, TypeOK, SpinnerMeansFetching, SearchingMeansSearch, screen
  <2> QED  BY <2>2, <2>3
<1>2. ASSUME NEW i \in Ids, PerformSearch(i) PROVE Inv'
  <2>1. i \in Valid
    BY <1>2 DEF PerformSearch
  <2>2. CASE i \in snapshotCache
    <3>1. /\ ShowResult(i, TRUE)
          /\ UNCHANGED <<provider, calls, started, clears>>
      BY <1>2, <2>2 DEF PerformSearch
    <3>2. /\ history' \in Seq(Ids) /\ results' \in Seq(Ids)
          /\ SearchListsClean' /\ searching' = FALSE
      BY <1>0, <3>1, ShowResultClean DEF TypeOK
    <3> QED
      BY <1>0, <3>1, <3>2
      DEF Inv, TypeOK, SpinnerMeansFetching, SearchingMeansSearch, provider
  <2>3. CASE i \notin snapshotCache
    <3>1. Ask("search", {i}) /\ searching' = TRUE /\ UNCHANGED <<history, results>>
      BY <1>2, <2>3 DEF PerformSearch
    <3>2. {i} \in SUBSET Valid
      BY <2>1
    <3>3. SearchListsClean'
      BY <1>0, <3>1 DEF SearchListsClean
    <3> QED
      BY <1>0, <3>1, <3>2, <3>3, AskKeeps DEF Inv, TypeOK, SearchingMeansSearch
  <2> QED  BY <2>2, <2>3
<1>3. ASSUME NEW S \in SUBSET Ids, FetchMultiple(S) PROVE Inv'
  <2>1. UNCHANGED screen /\ SearchListsClean'
    BY <1>0, <1>3 DEF FetchMultiple, screen, SearchListsClean
  <2>2. CASE S \cap Valid # {}
    <3>1. Ask("batch", S \cap Valid)
      BY <1>3, <2>2 DEF FetchMultiple
    <3>2. S \cap Valid \in SUBSET Valid
      OBVIOUS
    <3> QED
      BY <1>0, <2>1, <3>1, <3>2, AskKeeps
      DEF Inv, TypeOK, SearchingMeansSearch, screen
  <2>3. CASE S \cap Valid = {}
    BY <1>0, <1>3, <2>1, <2>3
    DEF FetchMultiple, Inv, TypeOK, SpinnerMeansFetching, SearchingMeansSearch, screen
  <2> QED  BY <2>2, <2>3
<1>4. ASSUME NEW c \in calls, NEW outcome \in Outcomes, Answered(c, outcome)
      PROVE  Inv'
  <2>1. c \in Call /\ c.ids \subseteq Ids
    BY <1>0 DEF TypeOK, Call
  <2>2. /\ calls' \subseteq Call
        /\ snapshotCache' \subseteq Ids /\ loadingStates' \subseteq Ids
        /\ errorStates' \subseteq Ids
        /\ UNCHANGED <<started, clears>>
    BY <1>0, <1>4, <2>1 DEF TypeOK, Answered
  <2>3. SpinnerMeansFetching'
    BY <1>0, <1>4 DEF SpinnerMeansFetching, Answered
  <2>4. CASE c.by = "search"
    <3>1. PICK i \in c.ids : ShowResult(i, outcome = "found")
      BY <1>4, <2>4 DEF Answered
    <3>2. i \in Ids /\ (outcome = "found") \in BOOLEAN
      BY <2>1
    <3>3. /\ history' \in Seq(Ids) /\ results' \in Seq(Ids)
          /\ SearchListsClean' /\ searching' = FALSE
      BY <1>0, <3>1, <3>2, ShowResultClean DEF TypeOK
    <3> QED
      BY <1>0, <2>2, <2>3, <3>3 DEF Inv, TypeOK, SearchingMeansSearch
  <2>5. CASE c.by # "search"
    <3>1. UNCHANGED screen
      BY <1>4, <2>5 DEF Answered
    <3>2. SearchingMeansSearch'
      BY <1>0, <1>4, <2>5, <3>1 DEF SearchingMeansSearch, Answered, screen
    <3> QED
      BY <1>0, <2>2, <2>3, <3>1, <3>2 DEF Inv, TypeOK, SearchListsClean, screen
  <2> QED  BY <2>4, <2>5
<1>5. ASSUME NEW c \in calls, NEW i \in Valid, NEW outcome \in Outcomes,
             BatchAnswered(c, i, outcome)
      PROVE  Inv'
  <2> DEFINE d == [c EXCEPT !.todo = @ \ {i},
                            !.got = IF outcome = "found" THEN @ \cup {i} ELSE @]
  <2>1. c \in Call
    BY <1>0 DEF TypeOK
  <2>2. d \in Call /\ d.ids = c.ids /\ d.by = c.by
    BY <2>1 DEF Call
  <2>3. calls' = (calls \ {c}) \cup {d} /\ UNCHANGED <<provider, started, clears, screen>>
    BY <1>5 DEF BatchAnswered
  <2>4. SpinnerMeansFetching'
    BY <1>0, <2>2, <2>3 DEF SpinnerMeansFetching, provider
  <2>5. SearchingMeansSearch'
    BY <1>0, <2>2, <2>3 DEF SearchingMeansSearch, screen
  <2> QED
    BY <1>0, <2>2, <2>3, <2>4, <2>5 DEF Inv, TypeOK, SearchListsClean, provider, screen
<1>6. ASSUME NEW c \in calls, BatchDone(c) PROVE Inv'
  <2>1. c \in Call
    BY <1>0 DEF TypeOK
  <2>2. SpinnerMeansFetching'
    BY <1>0, <1>6 DEF SpinnerMeansFetching, BatchDone
  <2>3. SearchingMeansSearch'
    BY <1>0, <1>6 DEF SearchingMeansSearch, BatchDone, screen
  <2>4. SearchListsClean'
    BY <1>0, <1>6 DEF SearchListsClean, BatchDone, screen
  <2> QED
    BY <1>0, <1>6, <2>1, <2>2, <2>3, <2>4 DEF Inv, TypeOK, Call, BatchDone, screen
<1>7. ASSUME NEW S \in SUBSET Ids, Clear(S) PROVE Inv'
  BY <1>0, <1>7 DEF Inv, TypeOK, SpinnerMeansFetching, SearchingMeansSearch,
                    SearchListsClean, Clear, screen
<1>8. ASSUME ClearHistory PROVE Inv'
  <2>1. << >> \in Seq(Ids) /\ Len(<< >>) = 0
    OBVIOUS
  <2> QED
    BY <1>0, <1>8, <2>1 DEF Inv, TypeOK, SpinnerMeansFetching, SearchingMeansSearch,
                            SearchListsClean, Distinct, ClearHistory, provider
<1>9. ASSUME LeaveSearch PROVE Inv'
  <2> DEFINE left(c) == IF c.by = "search" THEN [c EXCEPT !.by = "other"] ELSE c
  <2>1. << >> \in Seq(Ids) /\ Len(<< >>) = 0
    OBVIOUS
  <2>2. \A c \in calls : left(c) \in Call /\ left(c).ids = c.ids
    BY <1>0 DEF TypeOK, Call
  <2>3. calls' = {left(c) : c \in calls}
    BY <1>9 DEF LeaveSearch
  <2>4. SpinnerMeansFetching'
    BY <1>0, <1>9, <2>2, <2>3 DEF SpinnerMeansFetching, LeaveSearch, provider
  <2>5. TypeOK'
    BY <1>0, <1>9, <2>1, <2>2, <2>3 DEF TypeOK, LeaveSearch, provider
  <2> QED
    BY <1>9, <2>1, <2>4, <2>5 DEF Inv, SearchingMeansSearch, SearchListsClean,
                                  Distinct, LeaveSearch
<1>10. ASSUME UNCHANGED vars PROVE Inv'
  BY <1>0, <1>10 DEF Inv, TypeOK, SpinnerMeansFetching, SearchingMeansSearch,
                     SearchListsClean, vars, provider, screen
<1>11. \A i \in Ids : {i} \in SUBSET Ids
  OBVIOUS
<1> QED
  BY <1>1, <1>2, <1>3, <1>4, <1>5, <1>6, <1>7, <1>8, <1>9, <1>10, <1>11 DEF Next

-----------------------------------------------------------------------------

(* Every reachable state of the provider and the search screen is well     *)
(* formed.                                                                 *)
THEOREM SnapshotTypes == Spec => []TypeOK
<1>1. Inv => TypeOK
  BY DEF Inv
<1> QED  BY <1>1, InitInv, StepInv, PTL DEF Spec

(* Whatever overlaps, fails or is cleared, a spinner is on only while an   *)
(* answer is owed.                                                         *)
THEOREM NoIdleSpinner == Spec => []SpinnerMeansFetching
<1>1. Inv => SpinnerMeansFetching
  BY DEF Inv
<1> QED  BY <1>1, InitInv, StepInv, PTL DEF Spec

(* The search button's spinner is on only while a search of the screen     *)
(* runs, also after a search that failed or was a cache hit.               *)
THEOREM SearchSpinnerMeansSearch == Spec => []SearchingMeansSearch
<1>1. Inv => SearchingMeansSearch
  BY DEF Inv
<1> QED  BY <1>1, InitInv, StepInv, PTL DEF Spec

(* Overlapping searches never list an identifier twice, and the recent     *)
(* searches stay within their bound.                                       *)
THEOREM SearchListsStayClean == Spec => []SearchListsClean
<1>1. Inv => SearchListsClean
  BY DEF Inv
<1> QED  BY <1>1, InitInv, StepInv, PTL DEF Spec
=============================================================================
