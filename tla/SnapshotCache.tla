--------------------------- MODULE SnapshotCache ---------------------------
(***************************************************************************)
(* The SAFER web snapshots: the cache, the spinner and the error of each   *)
(* identifier that SaferWebProvider keeps, and the search screen in front  *)
(* of it.  Dart runs one event at a time; the only await that lets others  *)
(* run is the one on the web service, so an action is what runs between    *)
(* the start of a fetch and that await, or between an answer and the end.  *)
(***************************************************************************)
EXTENDS Integers, FiniteSets, Sequences

CONSTANTS
  Ids,          \* identifiers a screen may ask for
  Valid,        \* those isValidIdentifier accepts
  HistoryMax,   \* entries kept under "Recent Searches" (10 in the code)
  MaxCalls,     \* bound: fetches that reach the web service
  MaxClears,    \* bound: calls of clearCache and clearAllCache
  WithBatches   \* bound: whether fetchMultipleSnapshots is called at all

ASSUME ValidAssumption == Valid \subseteq Ids
ASSUME BoundsAssumption ==
  /\ HistoryMax \in Nat \ {0}
  /\ MaxCalls \in Nat
  /\ MaxClears \in Nat
  /\ WithBatches \in BOOLEAN

VARIABLES
  snapshotCache,   \* identifiers with a cached snapshot
  loadingStates,   \* identifiers whose spinner is on
  errorStates,     \* identifiers with an error text
  calls,           \* fetches suspended on the web service
  started,         \* fetches that reached the service so far
  clears,          \* clears so far
  history,         \* the search screen: recent searches, newest first,
  results,         \*   the cards below them,
  searching        \*   and whether its button shows a spinner

provider == <<snapshotCache, loadingStates, errorStates>>
screen == <<history, results, searching>>
vars == <<provider, calls, started, clears, screen>>

-----------------------------------------------------------------------------

(* A suspended fetch.  A batch asks for its identifiers one at a time: todo *)
(* are those not answered, got those that came with a snapshot.             *)
Call ==
  [no : 1 .. MaxCalls, by : {"search", "other", "batch"}, ids : SUBSET Valid,
   todo : SUBSET Valid, got : SUBSET Valid]

Outcomes == {"found", "absent", "error"}

TypeOK ==
  /\ snapshotCache \subseteq Ids
  /\ loadingStates \subseteq Ids
  /\ errorStates \subseteq Ids
  /\ calls \subseteq Call
  /\ started \in 0 .. MaxCalls
  /\ clears \in 0 .. MaxClears
  /\ history \in Seq(Ids)
  /\ results \in Seq(Ids)
  /\ searching \in BOOLEAN

Init ==
  /\ snapshotCache = {}
  /\ loadingStates = {}
  /\ errorStates = {}
  /\ calls = {}
  /\ started = 0
  /\ clears = 0
  /\ history = << >>
  /\ results = << >>
  /\ searching = FALSE

-----------------------------------------------------------------------------

Entries(s) == {s[k] : k \in 1 .. Len(s)}

(* Variant: without the contains checks. *)
ListedAgain(s, i) == <<i>> \o s

(* Puts i in front unless it is there. *)
Listed(s, i) == IF i \in Entries(s) THEN s ELSE <<i>> \o s

Kept(s) == IF Len(s) > HistoryMax THEN SubSeq(s, 1, HistoryMax) ELSE s

(* The start of fetches on the service for the identifiers in S. *)
Ask(by, S) ==
  /\ started < MaxCalls
  /\ started' = started + 1
  /\ loadingStates' = loadingStates \cup S
  /\ errorStates' = errorStates \ S
  /\ calls' = calls \cup
       {[no |-> started + 1, by |-> by, ids |-> S, todo |-> S, got |-> {}]}
  /\ UNCHANGED <<snapshotCache, clears>>

(* Variant: the spinner is reset with the lists only. *)
ShowResultFound(i, found) ==
  /\ searching' = (searching /\ ~found)
  /\ history' = IF found THEN Kept(Listed(history, i)) ELSE history
  /\ results' = IF found THEN Listed(results, i) ELSE results

(* What the search screen does with the result of a fetch. *)
ShowResult(i, found) ==
  /\ searching' = FALSE
  /\ history' = IF found THEN Kept(Listed(history, i)) ELSE history
  /\ results' = IF found THEN Listed(results, i) ELSE results

(* A profile tab, the FMCSA screen, an info card, an analytics search or a *)
(* row of the load board fetches.  A cached snapshot ends the call at once *)
(* and changes nothing, not even an error; that holds for "Refresh Data"   *)
(* and "Retry" too.  The load board passes user ids, seldom valid.         *)
FetchSnapshot(i) ==
  /\ i \notin snapshotCache
  /\ IF i \in Valid
     THEN Ask("other", {i})
     ELSE /\ loadingStates' = loadingStates \ {i}
          /\ errorStates' = errorStates \cup {i}
          /\ UNCHANGED <<snapshotCache, calls, started, clears>>
  /\ UNCHANGED screen

(* The keyboard's submit and the chips of recent searches start a search   *)
(* also while another one is running; only the button does not.            *)
PerformSearch(i) ==
  /\ i \in Valid
  /\ IF i \in snapshotCache
     THEN ShowResult(i, TRUE) /\ UNCHANGED <<provider, calls, started, clears>>
     ELSE Ask("search", {i}) /\ searching' = TRUE /\ UNCHANGED <<history, results>>

(* Variant: invalid identifiers are not filtered out. *)
FetchMultipleUnfiltered(S) ==
  /\ WithBatches
  /\ S # {}
  /\ Ask("batch", S)
  /\ UNCHANGED screen

FetchMultiple(S) ==
  /\ WithBatches
  /\ S # {}
  /\ IF S \cap Valid # {}
     THEN Ask("batch", S \cap Valid)
     ELSE /\ loadingStates' = loadingStates \ S
          /\ errorStates' = errorStates \cup S
          /\ UNCHANGED <<snapshotCache, calls, started, clears>>
  /\ UNCHANGED screen

(* The service answers a single fetch.  An absent snapshot is no error, and *)
(* an error does not reach the caller: fetchSnapshot returns null for both. *)
Answered(c, outcome) ==
  /\ c \in calls
  /\ c.by # "batch"
  /\ calls' = calls \ {c}
  /\ loadingStates' = loadingStates \ c.ids
  /\ snapshotCache' = IF outcome = "found" THEN snapshotCache \cup c.ids ELSE snapshotCache
  /\ errorStates' = IF outcome = "error" THEN errorStates \cup c.ids ELSE errorStates
  /\ IF c.by = "search"
     THEN \E i \in c.ids : ShowResult(i, outcome = "found")
     ELSE UNCHANGED screen
  /\ UNCHANGED <<started, clears>>

(* The service answers for one identifier of a batch; a failure counts as  *)
(* an absent snapshot.                                                      *)
BatchAnswered(c, i, outcome) ==
  /\ c \in calls
  /\ c.by = "batch"
  /\ i \in c.todo
  /\ calls' = (calls \ {c}) \cup
       {[c EXCEPT !.todo = @ \ {i}, !.got = IF outcome = "found" THEN @ \cup {i} ELSE @]}
  /\ UNCHANGED <<provider, started, clears, screen>>

(* Variant: only a snapshot that came switches its spinner off. *)
BatchDoneFound(c) ==
  /\ c \in calls
  /\ c.by = "batch"
  /\ c.todo = {}
  /\ calls' = calls \ {c}
  /\ loadingStates' = loadingStates \ c.got
  /\ snapshotCache' = snapshotCache \cup c.got
  /\ UNCHANGED <<errorStates, started, clears, screen>>

BatchDone(c) ==
  /\ c \in calls
  /\ c.by = "batch"
  /\ c.todo = {}
  /\ calls' = calls \ {c}
  /\ loadingStates' = loadingStates \ c.ids
  /\ snapshotCache' = snapshotCache \cup c.got
  /\ UNCHANGED <<errorStates, started, clears, screen>>

(* clearCache and clearAllCache; fetches under way are not told. *)
Clear(S) ==
  /\ clears < MaxClears
  /\ clears' = clears + 1
  /\ snapshotCache' = snapshotCache \ S
  /\ loadingStates' = loadingStates \ S
  /\ errorStates' = errorStates \ S
  /\ UNCHANGED <<calls, started, screen>>

ClearHistory ==
  /\ history # << >>
  /\ history' = << >>
  /\ UNCHANGED <<provider, calls, started, clears, results, searching>>

(* Leaving the screen loses its lists.  A search still under way completes *)
(* in the provider and then fails on setState, which changes nothing.      *)
LeaveSearch ==
  /\ \/ screen # <<<< >>, << >>, FALSE>>
     \/ \E c \in calls : c.by = "search"
  /\ history' = << >>
  /\ results' = << >>
  /\ searching' = FALSE
  /\ calls' = {IF c.by = "search" THEN [c EXCEPT !.by = "other"] ELSE c : c \in calls}
  /\ UNCHANGED <<provider, started, clears>>

Next ==
  \/ \E i \in Ids : FetchSnapshot(i)
  \/ \E i \in Ids : PerformSearch(i)
  \/ \E S \in SUBSET Ids : FetchMultiple(S)
  \/ \E c \in calls, outcome \in Outcomes : Answered(c, outcome)
  \/ \E c \in calls, i \in Valid, outcome \in Outcomes : BatchAnswered(c, i, outcome)
  \/ \E c \in calls : BatchDone(c)
  \/ \E i \in Ids : Clear({i})
  \/ Clear(Ids)
  \/ ClearHistory
  \/ LeaveSearch

Spec == Init /\ [][Next]_vars

-----------------------------------------------------------------------------

(* A spinner is on only while the service owes an answer for that          *)
(* identifier: no order of overlapping fetches, batches, failures and      *)
(* clears leaves a screen waiting for nothing (the loadingStates of        *)
(* fetchSnapshot and fetchMultipleSnapshots).                              *)
SpinnerMeansFetching ==
  \A i \in loadingStates : \E c \in calls : i \in c.ids

(* The search button's spinner is on only while one of the screen's own    *)
(* searches runs (_isSearching in _performSearch).                         *)
SearchingMeansSearch ==
  searching => \E c \in calls : c.by = "search"

Distinct(s) == \A j, k \in 1 .. Len(s) : j # k => s[j] # s[k]

(* Overlapping searches of one identifier list it once, and the history    *)
(* stays bounded (setState in _performSearch).                             *)
SearchListsClean ==
  /\ Distinct(history)
  /\ Distinct(results)
  /\ Len(history) <= HistoryMax
=============================================================================
