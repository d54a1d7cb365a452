------------------------------ MODULE LoadBoard ------------------------------
(***************************************************************************)
(* The load board of the app: LoadProvider (lib/providers/                 *)
(* load_provider.dart), the SQLite database behind it, the handlers of the *)
(* boards that call it and the login session that decides whose boards are *)
(* on the screen.                                                          *)
(*                                                                         *)
(* Dart runs one event at a time, so the code between two awaits is one    *)
(* step.  Each database call is a request appended to `queue`, executed in *)
(* order by the database (DbExecute, DbFail) and answered through          *)
(* `replies`; the code after the await is the action that takes the reply. *)
(* `await db.init()` on the initialised service yields no event and is not *)
(* a step of its own.                                                      *)
(*                                                                         *)
(* A handler the user starts gets the next operation number 1, 2, ...; the *)
(* bid lists and distance lookups a fetch creates are named by the number  *)
(* of the operation that fetched.                                          *)
(***************************************************************************)
EXTENDS Integers, Sequences, FiniteSets

CONSTANTS
    Loads,        \* load ids
    Seeds,        \* the test loads main() inserts at every start, in order
    Addressed,    \* loads with an origin and a destination address
    Located,      \* addressed loads the geocoder can place on the map
    Broker,       \* the user who posted the loads
    Carriers,     \* the users who bid
    Unknown,      \* LoadPostQuote.fromString('') names its bidder 'Unknown'
    Names,        \* names of carriers that are nobody's id
    NameOf,       \* User.name of each carrier
    EmptyId,      \* '', the id of every return load
    NoOne,        \* null, where a user id may be null
    LeftBehind,   \* what the table `loads` may hold when the app starts
    Buttons,      \* the handlers the users of an instance press
    MaxOps,       \* bound: handlers started
    MaxInFlight,  \* bound: handlers running at a time
    MaxFaults,    \* bound: database calls that fail
    MaxRestarts   \* bound: kills of the app

Bidders == Carriers \cup Names \cup {Unknown}
Status == {"available", "awaiting", "confirmed", "declined"}
BidStatus == {"none", "pending", "countered", "accepted", "rejected"}
Bids == [Bidders -> BidStatus]
OpIds == 1..MaxOps

(* A LoadPost in memory: `list` names the List object that holds its bids, *)
(* shared by every copyWith of it; 0 is the unmodifiable const [].         *)
Post == [id: Loads, status: Status, selected: Bidders \cup {NoOne},
         brokerOk: BOOLEAN, carrierOk: BOOLEAN, list: 0..MaxOps]

(* A row of the table `loads`. *)
Row == [id: Loads, status: Status, selected: Bidders \cup {NoOne},
        brokerOk: BOOLEAN, carrierOk: BOOLEAN, bids: Bids]

Kinds == {"none", "login", "refresh", "details", "post", "return", "delete",
          "bid", "bidByName", "respond", "confirm", "decline"}
(* "done": the handler's effect was reported; "aborted": cancelled, thrown *)
(* out by an error, or killed before that.                                 *)
Steps == {"idle", "dialog", "getUser", "insert", "delete", "writeBids",
          "writeLoad", "read", "distances", "done", "aborted"}
Op == [kind: Kinds, step: Steps, load: Loads, who: Bidders \cup {Broker, NoOne},
       index: Nat, verdict: BidStatus,
       chosen: SUBSET Loads,   \* what a deletion was given
       todo: SUBSET Loads,     \* and what it has not started on
       post: Post]             \* what addLoad was given
Task == [step: {"none", "route", "save"}, post: Post]
Request == [call: {"getUser", "getLoads", "insertLoad", "deleteLoad",
                   "updateLoadBids", "updateLoad", "saveDistance"},
            owner: OpIds, row: Row]
Reply == [call: {"getUser", "getLoads", "insertLoad", "deleteLoad",
                 "updateLoadBids", "updateLoad", "saveDistance"},
          owner: OpIds, load: Loads, ok: BOOLEAN, rows: Seq(Row)]

(* The status of a load and its two confirmation flags tell one story: the *)
(* boards read the status, getLoadsAwaitingCarrierConfirmation and the     *)
(* analytics the flags.                                                    *)
Agree(r) ==
    /\ r.carrierOk <=> r.status = "confirmed"
    /\ r.status = "awaiting" => r.brokerOk
    /\ r.status \in {"available", "declined"} => ~r.brokerOk

ASSUME BoundsAssumption ==
    /\ MaxOps \in Nat
    /\ MaxInFlight \in Nat
    /\ MaxFaults \in Nat
    /\ MaxRestarts \in Nat

ASSUME LoadsAssumption ==
    /\ Loads # {}
    /\ Seeds \in Seq(Loads)
    /\ Addressed \subseteq Loads
    /\ "return" \in Buttons => EmptyId \in Loads
    /\ NameOf \in [Carriers -> Carriers \cup Names]

(* What the app finds in the table is what a session of it left there; the *)
(* id is the primary key.                                                  *)
ASSUME LeftBehindAssumption ==
    \A table \in LeftBehind :
        /\ table \in Seq(Row)
        /\ \A i \in DOMAIN table : Agree(table[i])
        /\ \A i, j \in DOMAIN table : table[i].id = table[j].id => i = j

VARIABLES
    mem,       \* LoadProvider._loads
    lists,     \* the List objects that hold bids, by fetch and load
    cache,     \* the keys of LoadProvider._distanceCache
    tasks,     \* calculateDistance calls under way, by fetch and load
    ops,       \* the handlers, by operation number
    started,   \* how many handlers were started
    user,      \* AuthProvider.user
    boot,      \* how many seeds main() has inserted since the app started
    db,        \* the table `loads`
    queue,     \* database calls not executed yet
    replies,   \* executed calls whose caller has not resumed yet
    faults,    \* failed calls so far
    restarts   \* kills so far

vars == <<mem, lists, cache, tasks, ops, started, user, boot, db, queue,
          replies, faults, restarts>>
memory == <<mem, lists, cache, tasks>>
storage == <<db, faults>>
outside == <<boot, faults, restarts>>

-----------------------------------------------------------------------------
(* Lists of posts or rows, by id. *)

(* indexWhere: the first position of id l, or 0. *)
IndexOf(s, l) ==
    LET found == {i \in DOMAIN s : s[i].id = l}
    IN  IF found = {} THEN 0 ELSE CHOOSE i \in found : \A j \in found : i <= j

Has(s, l) == \E i \in DOMAIN s : s[i].id = l

WithoutNext(s, l) ==   \* mutant: keeps the post and drops its successor
    LET p == IndexOf(s, l)
    IN  IF p = 0 THEN s
        ELSE [i \in 1..(Len(s) - 1) |-> IF i <= p THEN s[i] ELSE s[i + 1]]

(* Deletion by id.  An id occurs once: it is the primary key of the table, *)
(* and in memory NoDuplicateLoads below.                                   *)
Without(s, l) ==
    LET p == IndexOf(s, l)
    IN  IF p = 0 THEN s
        ELSE [i \in 1..(Len(s) - 1) |-> IF i < p THEN s[i] ELSE s[i + 1]]

NoBids == [b \in Bidders |-> "none"]

FreshRow(l) == [id |-> l, status |-> "available", selected |-> NoOne,
                brokerOk |-> FALSE, carrierOk |-> FALSE, bids |-> NoBids]

FreshPost(l) == [id |-> l, status |-> "available", selected |-> NoOne,
                 brokerOk |-> FALSE, carrierOk |-> FALSE, list |-> 0]

(* LoadPost.toMap: bids are joined with their status. *)
ToRow(post) ==
    [id |-> post.id, status |-> post.status, selected |-> post.selected,
     brokerOk |-> post.brokerOk, carrierOk |-> post.carrierOk,
     bids |-> IF post.list = 0 THEN NoBids ELSE lists[post.list][post.id]]

(* LoadPost.fromMap on a row read by fetch o. *)
FromRow(row, o) ==
    [id |-> row.id, status |-> row.status, selected |-> row.selected,
     brokerOk |-> row.brokerOk, carrierOk |-> row.carrierOk, list |-> o]

ParseBidsUntyped(bids) ==   \* mutant: a status the code does not know
    IF bids = NoBids THEN [NoBids EXCEPT ![Unknown] = "open"] ELSE bids

(* The bids of a row read back: ''.split(';') is [''], one bid of Unknown. *)
ParseBids(bids) ==
    IF bids = NoBids THEN [NoBids EXCEPT ![Unknown] = "pending"] ELSE bids

(* updateLoadBids joins 'bidder:amount' only: the status is not written.   *)
Stripped(bids) ==
    [b \in Bidders |-> IF bids[b] = "none" THEN "none" ELSE "pending"]

(* The table after a call has been executed. *)
Written(table, req) ==
    CASE req.call = "insertLoad" -> Append(Without(table, req.row.id), req.row)
      [] req.call = "deleteLoad" -> Without(table, req.row.id)
      [] req.call = "updateLoadBids" ->
            [i \in DOMAIN table |->
                IF table[i].id = req.row.id
                THEN [table[i] EXCEPT !.bids = Stripped(req.row.bids)]
                ELSE table[i]]
      [] req.call \in {"updateLoad", "saveDistance"} ->
            [i \in DOMAIN table |->
                IF table[i].id = req.row.id THEN req.row ELSE table[i]]
      [] OTHER -> table

-----------------------------------------------------------------------------
(* Operations. *)

NoOp == [kind |-> "none", step |-> "idle", load |-> CHOOSE l \in Loads : TRUE,
         who |-> NoOne, index |-> 0, verdict |-> "none",
         chosen |-> {}, todo |-> {}, post |-> FreshPost(CHOOSE l \in Loads : TRUE)]

NoTask(l) == [step |-> "none", post |-> FreshPost(l)]

InFlight == {o \in OpIds : ops[o].step \notin {"idle", "done", "aborted"}}

Booted == boot = Len(Seeds)

(* The boards react: somebody is logged in, the login screen is gone and   *)
(* no modal dialog is open.                                                *)
AtBoard ==
    /\ Booted
    /\ user # NoOne
    /\ \A o \in InFlight : ops[o].kind # "login" /\ ops[o].step # "dialog"

CanStart(kind) ==
    /\ kind \in Buttons
    /\ started < MaxOps
    /\ Cardinality(InFlight) < MaxInFlight

Handler(kind, step, l, who) ==
    [NoOp EXCEPT !.kind = kind, !.step = step, !.load = l, !.who = who]

StartOp(op) ==
    /\ started' = started + 1
    /\ ops' = [ops EXCEPT ![started + 1] = op]

Call(o, call, row) ==
    queue' = Append(queue, [call |-> call, owner |-> o, row |-> row])

AnyRow == FreshRow(CHOOSE l \in Loads : TRUE)

(* db.getLoads(), where fetchLoads starts *)
FetchLoads(o) == Call(o, "getLoads", AnyRow)

-----------------------------------------------------------------------------
Init ==
    /\ mem = <<>>
    /\ lists = [o \in OpIds |-> [l \in Loads |-> NoBids]]
    /\ cache = {}
    /\ tasks = [o \in OpIds |-> [l \in Loads |-> NoTask(l)]]
    /\ ops = [o \in OpIds |-> NoOp]
    /\ started = 0
    /\ user = NoOne
    /\ boot = 0
    /\ db \in LeftBehind
    /\ queue = <<>>
    /\ replies = <<>>
    /\ faults = 0
    /\ restarts = 0

(* main(): InitTestLoads inserts each test load, replacing its row. *)
InsertTestLoad ==
    /\ boot < Len(Seeds)
    /\ boot' = boot + 1
    /\ LET row == FreshRow(Seeds[boot + 1])
       IN  db' = Append(Without(db, row.id), row)
    /\ UNCHANGED <<memory, ops, started, user, queue, replies, faults, restarts>>

-----------------------------------------------------------------------------
(* The database: calls are executed in the order they were made. *)

DbExecute ==
    /\ queue # <<>>
    /\ LET req == Head(queue)
       IN  /\ db' = Written(db, req)
           /\ replies' = Append(replies,
                 [call |-> req.call, owner |-> req.owner, load |-> req.row.id,
                  ok |-> TRUE,
                  rows |-> IF req.call = "getLoads" THEN db ELSE <<>>])
    /\ queue' = Tail(queue)
    /\ UNCHANGED <<memory, ops, started, user, outside>>

DbFail ==
    /\ queue # <<>>
    /\ faults < MaxFaults
    /\ faults' = faults + 1
    /\ LET req == Head(queue)
       IN  replies' = Append(replies,
              [call |-> req.call, owner |-> req.owner, load |-> req.row.id,
               ok |-> FALSE, rows |-> <<>>])
    /\ queue' = Tail(queue)
    /\ UNCHANGED <<memory, ops, started, user, boot, db, restarts>>

(* The continuation of the oldest answered call runs. *)
Resumed(call) ==
    /\ replies # <<>>
    /\ Head(replies).call = call
    /\ replies' = Tail(replies)

-----------------------------------------------------------------------------
(* Session. *)

Login(u) ==
    /\ Booted
    /\ user = NoOne
    /\ \A o \in InFlight : ops[o].kind # "login"
    /\ CanStart("login")
    /\ StartOp(Handler("login", "getUser", NoOp.load, u))
    /\ Call(started + 1, "getUser", AnyRow)
    /\ UNCHANGED <<memory, user, db, replies, outside>>

LoginAnswered ==
    /\ Resumed("getUser")
    /\ LET rep == Head(replies)
           o == rep.owner
       IN  IF rep.ok
           THEN /\ user' = ops[o].who
                /\ ops' = [ops EXCEPT ![o].step = "read"]
                /\ FetchLoads(o)
           ELSE /\ ops' = [ops EXCEPT ![o].step = "aborted"]
                /\ UNCHANGED <<user, queue>>
    /\ UNCHANGED <<memory, started, db, outside>>

Logout ==
    /\ AtBoard
    /\ Cardinality(InFlight) < MaxInFlight
    /\ user' = NoOne
    /\ UNCHANGED <<memory, ops, started, boot, db, queue, replies, faults, restarts>>

-----------------------------------------------------------------------------
(* fetchLoads and the distance lookups it starts. *)

(* A board opens or its refresh button is pressed. *)
Refresh ==
    /\ AtBoard
    /\ CanStart("refresh")
    /\ StartOp(Handler("refresh", "read", NoOp.load, user))
    /\ FetchLoads(started + 1)
    /\ UNCHANGED <<memory, user, db, replies, outside>>

FetchedOnTop(rows, o) ==   \* mutant: _loads.clear() is missing
    mem \o [i \in DOMAIN rows |-> FromRow(rows[i], o)]

(* _loads.clear(); _loads.addAll(loads) *)
Fetched(rows, o) == [i \in DOMAIN rows |-> FromRow(rows[i], o)]

(* The rows replace the list; calculateDistance starts for each of them,   *)
(* and returns at once if the distance is cached or an address is missing. *)
(* On an error the list is cleared.                                        *)
LoadsRead ==
    /\ Resumed("getLoads")
    /\ LET rep == Head(replies)
           o == rep.owner
           rows == rep.rows
           Starts(l) == Has(rows, l) /\ l \in Addressed \ cache
       IN  IF rep.ok
           THEN /\ mem' = Fetched(rows, o)
                /\ lists' = [lists EXCEPT ![o] =
                      [l \in Loads |-> IF Has(rows, l)
                                       THEN ParseBids(rows[IndexOf(rows, l)].bids)
                                       ELSE NoBids]]
                /\ tasks' = [tasks EXCEPT ![o] =
                      [l \in Loads |->
                         IF Starts(l)
                         THEN [step |-> "route",
                               post |-> FromRow(rows[IndexOf(rows, l)], o)]
                         ELSE NoTask(l)]]
                /\ ops' = [ops EXCEPT ![o].step =
                             IF \E l \in Loads : Starts(l) THEN "distances" ELSE "done"]
           ELSE /\ mem' = <<>>
                /\ ops' = [ops EXCEPT ![o].step = "done"]
                /\ UNCHANGED <<lists, tasks>>
    /\ UNCHANGED <<cache, started, user, db, queue, outside>>

EndTaskNever(o, l) ==   \* mutant: the fetch waits for the lookup that ends
    /\ tasks' = [tasks EXCEPT ![o][l] = NoTask(l)]
    /\ ops' = IF \A k \in Loads : tasks[o][k].step = "none"
              THEN [ops EXCEPT ![o].step = "done"]
              ELSE ops

(* Future.wait: fetch o is over with its last lookup. *)
EndTask(o, l) ==
    /\ tasks' = [tasks EXCEPT ![o][l] = NoTask(l)]
    /\ ops' = IF \A k \in Loads \ {l} : tasks[o][k].step = "none"
              THEN [ops EXCEPT ![o].step = "done"]
              ELSE ops

(* Both addresses were found and a route or an estimate computed: it is    *)
(* cached, and a copy of the LoadPost captured at the start is written.    *)
RouteFound(o, l) ==
    /\ tasks[o][l].step = "route"
    /\ l \in Located
    /\ cache' = cache \cup {l}
    /\ tasks' = [tasks EXCEPT ![o][l].step = "save"]
    /\ Call(o, "saveDistance", ToRow(tasks[o][l].post))
    /\ UNCHANGED <<mem, lists, ops, started, user, db, replies, outside>>

(* An address was not found, or the lookup failed: the message is cached. *)
RouteMissing(o, l) ==
    /\ tasks[o][l].step = "route"
    /\ cache' = cache \cup {l}
    /\ EndTask(o, l)
    /\ UNCHANGED <<mem, lists, started, user, db, queue, replies, outside>>

(* A failed write of the distance is swallowed. *)
DistanceSaved ==
    /\ Resumed("saveDistance")
    /\ EndTask(Head(replies).owner, Head(replies).load)
    /\ UNCHANGED <<mem, lists, cache, started, user, db, queue, outside>>

(* The details screen of a load without coordinates asks for its distance. *)
OpenDetails(l) ==
    /\ AtBoard
    /\ Has(mem, l)
    /\ l \in Addressed \ cache
    /\ CanStart("details")
    /\ StartOp(Handler("details", "distances", l, user))
    /\ tasks' = [tasks EXCEPT ![started + 1][l] =
                   [step |-> "route", post |-> mem[IndexOf(mem, l)]]]
    /\ UNCHANGED <<mem, lists, cache, user, db, queue, replies, outside>>

-----------------------------------------------------------------------------
(* Posting and deleting loads. *)

(* Ids are millisecond timestamps: never used before. *)
NeverUsed(l) ==
    /\ l # EmptyId
    /\ ~Has(db, l) /\ ~Has(mem, l)
    /\ \A o \in OpIds : /\ ops[o].kind = "post" => ops[o].load # l
                        /\ l \notin ops[o].chosen

PostLoad(l) ==
    /\ AtBoard
    /\ user = Broker
    /\ NeverUsed(l)
    /\ CanStart("post")
    /\ StartOp([Handler("post", "insert", l, user) EXCEPT !.post = FreshPost(l)])
    /\ Call(started + 1, "insertLoad", FreshRow(l))
    /\ UNCHANGED <<memory, user, db, replies, outside>>

(* The Return Load button: a copy of the load with the addresses swapped,  *)
(* the id '' and a bid list of its own.  The copy keeps the status, the    *)
(* chosen carrier and the flags.                                           *)
PostReturn(l) ==
    /\ AtBoard
    /\ user = Broker
    /\ Has(mem, l)
    /\ CanStart("return")
    /\ LET o == started + 1
           post == [mem[IndexOf(mem, l)] EXCEPT !.id = EmptyId, !.list = o]
       IN  /\ StartOp([Handler("return", "insert", EmptyId, user) EXCEPT !.post = post])
           /\ Call(o, "insertLoad", ToRow(post))
    /\ UNCHANGED <<memory, user, db, replies, outside>>

(* addLoad goes on; after a return load the board fetches. *)
LoadInserted ==
    /\ Resumed("insertLoad")
    /\ LET rep == Head(replies)
           o == rep.owner
       IN  /\ mem' = IF rep.ok THEN Append(mem, ops[o].post) ELSE mem
           /\ \/ /\ ~rep.ok
                 /\ ops' = [ops EXCEPT ![o].step = "aborted"]
                 /\ UNCHANGED queue
              \/ /\ rep.ok /\ ops[o].kind = "post"
                 /\ ops' = [ops EXCEPT ![o].step = "done"]
                 /\ UNCHANGED queue
              \/ /\ rep.ok /\ ops[o].kind = "return"
                 /\ ops' = [ops EXCEPT ![o].step = "read"]
                 /\ FetchLoads(o)
    /\ UNCHANGED <<lists, cache, tasks, started, user, db, outside>>

(* The Delete button of a board (one load), or the posting management      *)
(* dialog that follows a login (several, deleted one after the other while *)
(* the dashboard is already open).                                         *)
DeleteLoads(chosen) ==
    /\ AtBoard
    /\ user = Broker
    /\ \A l \in chosen : Has(mem, l)
    /\ Cardinality(chosen) > 1 => ops[started].kind = "login"
    /\ CanStart("delete")
    /\ \E l \in chosen :
        /\ StartOp([Handler("delete", "delete", l, user) EXCEPT
                       !.chosen = chosen, !.todo = chosen \ {l}])
        /\ Call(started + 1, "deleteLoad", FreshRow(l))
    /\ UNCHANGED <<memory, user, db, replies, outside>>

LoadDeleted ==
    /\ Resumed("deleteLoad")
    /\ LET rep == Head(replies)
           o == rep.owner
           l == rep.load
       IN  /\ mem' = IF rep.ok THEN Without(mem, l) ELSE mem
           /\ cache' = IF rep.ok THEN cache \ {l} ELSE cache
           /\ \/ /\ ~rep.ok
                 /\ ops' = [ops EXCEPT ![o].step = "aborted"]
                 /\ UNCHANGED queue
              \/ /\ rep.ok /\ ops[o].todo = {}
                 /\ ops' = [ops EXCEPT ![o].step = "done"]
                 /\ UNCHANGED queue
              \/ /\ rep.ok
                 /\ \E k \in ops[o].todo :
                      /\ ops' = [ops EXCEPT ![o].load = k, ![o].todo = @ \ {k}]
                      /\ Call(o, "deleteLoad", FreshRow(k))
    /\ UNCHANGED <<lists, tasks, started, user, db, outside>>

-----------------------------------------------------------------------------
(* Bids. *)

BidOf(l, b) ==
    LET i == IndexOf(mem, l)
    IN  IF i = 0 \/ mem[i].list = 0 THEN "none" ELSE lists[mem[i].list][l][b]

WithBidAlone(bids, b) ==   \* mutant: removeWhere keeps the wrong ones
    [c \in Bidders |-> IF c = b THEN "pending" ELSE "none"]

(* bids.removeWhere(bidder == b); bids.add(quote) *)
WithBid(bids, b) == [bids EXCEPT ![b] = "pending"]

(* addBid: the bidder's bid is replaced by a pending one in the list in    *)
(* place.  On the const [] of a load posted since the last fetch the call  *)
(* throws before it changes anything.                                      *)
AddBid(kind, l, b) ==
    /\ AtBoard
    /\ CanStart(kind)
    /\ LET i == IndexOf(mem, l)
       IN  /\ i # 0
           /\ mem[i].list # 0
           /\ LET bids == WithBid(lists[mem[i].list][l], b)
              IN  /\ lists' = [lists EXCEPT ![mem[i].list][l] = bids]
                  /\ Call(started + 1, "updateLoadBids",
                          [ToRow(mem[i]) EXCEPT !.bids = bids])
    /\ StartOp(Handler(kind, "writeBids", l, b))
    /\ UNCHANGED <<mem, cache, tasks, user, db, replies, outside>>

PlaceBid(l) == user \in Carriers /\ AddBid("bid", l, user)

(* The bid screen behind the details bids under the user's name, does not  *)
(* wait for addBid and does not fetch.                                     *)
BidByName(l) == user \in Carriers /\ AddBid("bidByName", l, NameOf[user])

(* The board still draws the buttons of a bid whose new status its handler *)
(* has not announced yet.                                                  *)
Actionable(l, b) ==
    \/ BidOf(l, b) \in {"pending", "countered"}
    \/ \E o \in InFlight : /\ ops[o].kind = "respond" /\ ops[o].load = l
                           /\ ops[o].who = b
                           /\ ops[o].step \in {"writeBids", "writeLoad"}

JudgedUnnamed(post, b, verdict) ==   \* mutant: selectedBidId is not set
    IF verdict = "accepted"
    THEN [post EXCEPT !.status = "awaiting", !.brokerOk = TRUE, !.carrierOk = FALSE]
    ELSE post

JudgedReopening(post, b, verdict) ==   \* mutant: a rejection reopens the load
    IF verdict = "accepted"
    THEN [post EXCEPT !.status = "awaiting", !.selected = b,
                      !.brokerOk = TRUE, !.carrierOk = FALSE]
    ELSE [post EXCEPT !.status = "available", !.brokerOk = FALSE, !.carrierOk = FALSE]

(* The LoadPost after a verdict on b's bid. *)
Judged(post, b, verdict) ==
    IF verdict = "accepted"
    THEN [post EXCEPT !.status = "awaiting", !.selected = b,
                      !.brokerOk = TRUE, !.carrierOk = FALSE]
    ELSE post

(* updateBidStatus: the bid gets the verdict in place; an acceptance also  *)
(* replaces the LoadPost by a copy that awaits the carrier.  The dialog in *)
(* which a counter-offer is typed is awaited before the call: the handler  *)
(* starts here when it is submitted.                                       *)
Respond(l, b, verdict) ==
    /\ AtBoard
    /\ \/ user = Broker
       \/ user = b /\ verdict = "rejected"
    /\ Actionable(l, b)
    /\ BidOf(l, b) # "none"
    /\ CanStart("respond")
    /\ LET i == IndexOf(mem, l)
           bids == [lists[mem[i].list][l] EXCEPT ![b] = verdict]
           post == Judged(mem[i], b, verdict)
       IN  /\ lists' = [lists EXCEPT ![mem[i].list][l] = bids]
           /\ mem' = [mem EXCEPT ![i] = post]
           /\ Call(started + 1, "updateLoadBids", [ToRow(post) EXCEPT !.bids = bids])
           /\ StartOp([Handler("respond", "writeBids", l, b) EXCEPT
                          !.index = i, !.verdict = verdict])
    /\ UNCHANGED <<cache, tasks, user, db, replies, outside>>

(* addBid is over and its handler fetches; updateBidStatus goes on to      *)
(* write whatever now stands at the index it found before the await, and   *)
(* throws a RangeError if nothing does.                                    *)
BidsWritten ==
    /\ Resumed("updateLoadBids")
    /\ LET rep == Head(replies)
           o == rep.owner
       IN  \/ /\ ~rep.ok
              /\ ops' = [ops EXCEPT ![o].step = "aborted"]
              /\ UNCHANGED queue
           \/ /\ rep.ok /\ ops[o].kind = "bid"
              /\ ops' = [ops EXCEPT ![o].step = "read"]
              /\ FetchLoads(o)
           \/ /\ rep.ok /\ ops[o].kind = "bidByName"
              /\ ops' = [ops EXCEPT ![o].step = "done"]
              /\ UNCHANGED queue
           \/ /\ rep.ok /\ ops[o].kind = "respond" /\ ops[o].index > Len(mem)
              /\ ops' = [ops EXCEPT ![o].step = "aborted"]
              /\ UNCHANGED queue
           \/ /\ rep.ok /\ ops[o].kind = "respond" /\ ops[o].index <= Len(mem)
              /\ ops' = [ops EXCEPT ![o].step = "writeLoad"]
              /\ Call(o, "updateLoad", ToRow(mem[ops[o].index]))
    /\ UNCHANGED <<memory, started, user, db, outside>>

-----------------------------------------------------------------------------
(* The carrier's answer. *)

OffersAnswerAny(l) ==   \* mutant: the buttons of any load with a bid of his
    BidOf(l, user) # "none"

(* The condition of the two buttons of the carrier's responses board. *)
OffersAnswer(l) ==
    /\ Has(mem, l)
    /\ mem[IndexOf(mem, l)].status = "awaiting"
    /\ mem[IndexOf(mem, l)].selected = user
    /\ BidOf(l, user) = "accepted"

(* They open a dialog; while an answer is being written they stay drawn. *)
OpenDialog(l, kind) ==
    /\ AtBoard
    /\ user \in Carriers
    /\ \/ OffersAnswer(l)
       \/ \E o \in InFlight : /\ ops[o].kind \in {"confirm", "decline"}
                              /\ ops[o].load = l /\ ops[o].who = user
    /\ CanStart(kind)
    /\ StartOp(Handler(kind, "dialog", l, user))
    /\ UNCHANGED <<memory, user, db, queue, replies, outside>>

CancelDialog(o) ==
    /\ ops[o].step = "dialog"
    /\ ops' = [ops EXCEPT ![o].step = "aborted"]
    /\ UNCHANGED <<memory, started, user, db, queue, replies, outside>>

AnsweredKeeping(post, kind) ==   \* mutant: declining keeps brokerConfirmed
    IF kind = "confirm"
    THEN [post EXCEPT !.status = "confirmed", !.carrierOk = TRUE]
    ELSE [post EXCEPT !.status = "declined", !.carrierOk = FALSE]

(* The copy confirmLoad or declineLoad makes; declineLoad's null for       *)
(* selectedBidId means "keep" to copyWith.                                 *)
Answered(post, kind) ==
    IF kind = "confirm"
    THEN [post EXCEPT !.status = "confirmed", !.carrierOk = TRUE]
    ELSE [post EXCEPT !.status = "declined", !.carrierOk = FALSE, !.brokerOk = FALSE]

SubmitStale(o) ==   \* mutant: the post from before the copy is written
    LET l == ops[o].load
        i == IndexOf(mem, l)
    IN  /\ ops[o].step = "dialog"
        /\ IF i = 0
           THEN /\ ops' = [ops EXCEPT ![o].step = "aborted"]
                /\ UNCHANGED <<mem, queue>>
           ELSE /\ mem' = [mem EXCEPT ![i] = Answered(mem[i], ops[o].kind)]
                /\ ops' = [ops EXCEPT ![o].step = "writeLoad"]
                /\ Call(o, "updateLoad", ToRow(mem[i]))
        /\ UNCHANGED <<lists, cache, tasks, started, user, db, replies, outside>>

(* confirmLoad and declineLoad look the load up and put the copy in its    *)
(* place; neither looks at the status.                                     *)
Submit(o) ==
    LET l == ops[o].load
        i == IndexOf(mem, l)
        post == Answered(mem[i], ops[o].kind)
    IN  /\ ops[o].step = "dialog"
        /\ IF i = 0
           THEN /\ ops' = [ops EXCEPT ![o].step = "aborted"]
                /\ UNCHANGED <<mem, queue>>
           ELSE /\ mem' = [mem EXCEPT ![i] = post]
                /\ ops' = [ops EXCEPT ![o].step = "writeLoad"]
                /\ Call(o, "updateLoad", ToRow(post))
        /\ UNCHANGED <<lists, cache, tasks, started, user, db, replies, outside>>

(* updateBidStatus ends and its handler fetches; confirmLoad and           *)
(* declineLoad notify the broker and end.                                  *)
LoadWritten ==
    /\ Resumed("updateLoad")
    /\ LET rep == Head(replies)
           o == rep.owner
       IN  \/ /\ ~rep.ok
              /\ ops' = [ops EXCEPT ![o].step = "aborted"]
              /\ UNCHANGED queue
           \/ /\ rep.ok /\ ops[o].kind = "respond"
              /\ ops' = [ops EXCEPT ![o].step = "read"]
              /\ FetchLoads(o)
           \/ /\ rep.ok /\ ops[o].kind # "respond"
              /\ ops' = [ops EXCEPT ![o].step = "done"]
              /\ UNCHANGED queue
    /\ UNCHANGED <<memory, started, user, db, outside>>

-----------------------------------------------------------------------------
(* The app is killed: memory and the calls not executed are lost, the      *)
(* table stays, main() runs again.                                         *)
Restart ==
    /\ restarts < MaxRestarts
    /\ restarts' = restarts + 1
    /\ mem' = <<>>
    /\ lists' = [o \in OpIds |-> [l \in Loads |-> NoBids]]
    /\ cache' = {}
    /\ tasks' = [o \in OpIds |-> [l \in Loads |-> NoTask(l)]]
    /\ ops' = [o \in OpIds |->
                 IF o \notin InFlight THEN ops[o]
                 ELSE [ops[o] EXCEPT !.step =
                         IF @ \in {"read", "distances"} THEN "done" ELSE "aborted"]]
    /\ user' = NoOne
    /\ boot' = 0
    /\ queue' = <<>>
    /\ replies' = <<>>
    /\ UNCHANGED <<started, db, faults>>

Next ==
    \/ InsertTestLoad
    \/ DbExecute
    \/ DbFail
    \/ \E u \in Carriers \cup {Broker} : Login(u)
    \/ LoginAnswered
    \/ Logout
    \/ Refresh
    \/ LoadsRead
    \/ \E o \in OpIds, l \in Loads : RouteFound(o, l) \/ RouteMissing(o, l)
    \/ DistanceSaved
    \/ \E l \in Loads : OpenDetails(l) \/ PostLoad(l) \/ PostReturn(l)
    \/ LoadInserted
    \/ \E chosen \in SUBSET Loads \ {{}} : DeleteLoads(chosen)
    \/ LoadDeleted
    \/ \E l \in Loads : PlaceBid(l) \/ BidByName(l)
    \/ \E l \in Loads, b \in Bidders, v \in {"accepted", "rejected", "countered"} :
          Respond(l, b, v)
    \/ BidsWritten
    \/ \E l \in Loads, kind \in {"confirm", "decline"} : OpenDialog(l, kind)
    \/ \E o \in OpIds : CancelDialog(o) \/ Submit(o)
    \/ LoadWritten
    \/ Restart

Spec == Init /\ [][Next]_vars

(* What the scheduler owes: the database executes, the event loop resumes, *)
(* a lookup ends (each network call has a timeout), a dialog is answered.  *)
Fairness ==
    /\ WF_vars(InsertTestLoad)
    /\ WF_vars(DbExecute)
    /\ WF_vars(LoginAnswered \/ LoadsRead \/ DistanceSaved \/ LoadInserted
               \/ LoadDeleted \/ BidsWritten \/ LoadWritten)
    /\ \A o \in OpIds, l \in Loads : WF_vars(RouteFound(o, l) \/ RouteMissing(o, l))
    /\ \A o \in OpIds : WF_vars(CancelDialog(o) \/ Submit(o))

LiveSpec == Spec /\ Fairness

-----------------------------------------------------------------------------
(* Properties. *)

(* Every variable holds a value of the code's type. *)
TypeOK ==
    /\ mem \in Seq(Post)
    /\ lists \in [OpIds -> [Loads -> Bids]]
    /\ cache \subseteq Loads
    /\ tasks \in [OpIds -> [Loads -> Task]]
    /\ ops \in [OpIds -> Op]
    /\ started \in 0..MaxOps
    /\ user \in Carriers \cup {Broker, NoOne}
    /\ boot \in 0..Len(Seeds)
    /\ db \in Seq(Row)
    /\ queue \in Seq(Request)
    /\ replies \in Seq(Reply)
    /\ faults \in 0..MaxFaults
    /\ restarts \in 0..MaxRestarts

(* In memory and in the table, whatever overlaps, fails or is killed, the  *)
(* status agrees with the flags (updateBidStatus, confirmLoad, declineLoad *)
(* and the write of calculateDistance).                                    *)
StatusFlagsAgree ==
    /\ \A i \in DOMAIN mem : Agree(mem[i])
    /\ \A i \in DOMAIN db : Agree(db[i])

(* A confirmed load names the carrier who transports it: confirmLoad looks *)
(* at nothing, so this rests on what can happen while its dialog is open.  *)
ConfirmedNamesCarrier ==
    /\ \A i \in DOMAIN mem : mem[i].carrierOk => mem[i].selected \in Carriers
    /\ \A i \in DOMAIN db : db[i].carrierOk => db[i].selected \in Carriers

(* The list never shows a load twice: fetchLoads replaces it while addLoad *)
(* is between its insert and its _loads.add.  (Return loads all have the   *)
(* id '', and are excepted here and below.)                                *)
NoDuplicateLoads ==
    \A i, j \in DOMAIN mem :
        mem[i].id = mem[j].id /\ mem[i].id # EmptyId => i = j

(* The loads whose deleteLoad has returned to deletion o. *)
Gone(o) ==
    ops[o].chosen \ (ops[o].todo
                     \cup (IF ops[o].step = "done" THEN {} ELSE {ops[o].load}))

(* A load whose deletion has returned stays off the list: a fetch that     *)
(* overlapped deleteLoad does not bring it back, nor does a restart, unless *)
(* it is a test load that main() inserts again.                            *)
NoGhostLoads ==
    \A o \in OpIds : \A l \in Gone(o) \ {EmptyId} :
        restarts = 0 \/ (\A i \in DOMAIN Seeds : Seeds[i] # l) => ~Has(mem, l)

(* addBid has returned to its handler. *)
BidAcknowledged(o) ==
    ops[o].kind = "bid" /\ ops[o].step \in {"read", "distances", "done"}

(* An acknowledged bid is still in the table, whatever was written since;  *)
(* the test loads are excepted, which main() overwrites.                   *)
AcknowledgedBidsSurvive ==
    \A o \in OpIds :
        /\ BidAcknowledged(o)
        /\ ops[o].load # EmptyId
        /\ \A i \in DOMAIN Seeds : Seeds[i] # ops[o].load
        =>
            \A i \in DOMAIN db :
                db[i].id = ops[o].load => db[i].bids[ops[o].who] # "none"

(* Operation p, started after o, may lawfully change the outcome of o.     *)
Supersedes(p, o) ==
    /\ p > o
    /\ ops[p].load = ops[o].load
    /\ \/ ops[p].kind = "decline"
       \/ ops[p].kind = "respond" /\ ops[p].verdict = "accepted"

(* Once confirmLoad has told the broker, the table keeps the load          *)
(* confirmed by that carrier until a decline or another acceptance.        *)
ConfirmationDurable ==
    \A o \in OpIds :
        /\ ops[o].kind = "confirm" /\ ops[o].step = "done"
        /\ ~\E p \in OpIds : Supersedes(p, o)
        /\ \A i \in DOMAIN Seeds : Seeds[i] # ops[o].load
        => \A i \in DOMAIN db :
              db[i].id = ops[o].load =>
                  db[i].status = "confirmed" /\ db[i].selected = ops[o].who

(* When the broker is told that the bid is approved (the end of            *)
(* updateBidStatus), the table says that the load awaits that carrier.     *)
ApprovedMeansAwaiting ==
    [][\A o \in OpIds :
         /\ ops[o].kind = "respond" /\ ops[o].verdict = "accepted"
         /\ ops[o].step = "writeLoad" /\ ops'[o].step = "read"
         => \A i \in DOMAIN db :
               db[i].id = ops[o].load =>
                   db[i].status = "awaiting" /\ db[i].selected = ops[o].who]_vars

Quiet == InFlight = {} /\ user # NoOne

(* What a board shows when nothing is running is what a fetch would read:  *)
(* the same loads with the same status, carrier and bids.                  *)
QuietBoardIsCurrent ==
    Quiet =>
        /\ Len(mem) = Len(db)
        /\ \A i \in DOMAIN db :
              /\ mem[i].id = db[i].id
              /\ mem[i].status = db[i].status
              /\ mem[i].selected = db[i].selected
              /\ mem[i].list # 0 =>
                    \A b \in Bidders : BidOf(db[i].id, b) = ParseBids(db[i].bids)[b]

(* The write of a computed distance leaves the rest of the row as it is.   *)
DistanceWriteIsNarrow ==
    [][(queue # <<>> /\ Head(queue).call = "saveDistance" /\ queue' = Tail(queue))
        => \A i \in DOMAIN db :
              /\ db'[i].status = db[i].status
              /\ db'[i].selected = db[i].selected
              /\ \A c \in Carriers : db'[i].bids[c] = db[i].bids[c]]_vars

(* Every handler that was started ends. *)
HandlersEnd ==
    \A o \in OpIds : (o \in InFlight) ~> (o \notin InFlight)
-----------------------------------------------------------------------------
(* The stage of a load according to the table. *)
Stages ==
    [l \in Loads |->
        LET i == IndexOf(db, l)
        IN  IF i = 0 THEN [phase |-> "absent", carrier |-> NoOne]
            ELSE [phase |-> db[i].status, carrier |-> db[i].selected]]

Lifecycle == INSTANCE LoadLifecycle WITH stage <- Stages

(* Posting, choosing, confirming, declining and deleting move a load       *)
(* through the stages of LoadLifecycle, in one step of the table each; no  *)
(* other database call of the handlers moves it.                           *)
RefinesLifecycle == Lifecycle!Spec
=============================================================================
