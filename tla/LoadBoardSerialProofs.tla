--------------------- MODULE LoadBoardSerialProofs ---------------------
(***************************************************************************)
(* The load board when its handlers run one after the other, no database   *)
(* call fails and no return load is posted: the table goes through the     *)
(* stages of LoadLifecycle, the broker is told of approvals that are in    *)
(* the table, and a board at rest shows the table.                         *)
(*                                                                         *)
(* None of this is inductive: list and table differ from the moment a      *)
(* handler changes one of them until it has written, or read, the other.   *)
(* The invariant says, for each step at which the one handler in flight    *)
(* can be, what the list will be when it is over.                          *)
(***************************************************************************)
EXTENDS LoadBoardOverlapProofs

(* One handler at a time; distance lookups of one fetch still overlap.     *)
Serial == MaxInFlight = 1 /\ MaxFaults = 0 /\ "return" \notin Buttons

(* What the board shows of a post is what a fetch would read: the stage    *)
(* and the bids, except that a bid by name is written without a fetch.     *)
SameStage(p, r) == p.status = r.status /\ p.selected = r.selected
SameBids(p, r) == p.list # 0 => lists[p.list][p.id] = ParseBids(r.bids)
SamePost(p, r) == SameStage(p, r) /\ ("bidByName" \notin Buttons => SameBids(p, r))

Aligned(s, t) == Len(s) = Len(t) /\ \A i \in DOMAIN t : s[i].id = t[i].id
Shows(s, t) ==
    /\ Aligned(s, t)
    /\ \A i \in DOMAIN s, j \in DOMAIN t : s[i].id = t[j].id => SamePost(s[i], t[j])

(* The table, when the one call that may be waiting has been executed.     *)
Settled == IF queue = <<>> THEN db ELSE Written(db, Head(queue))

NothingPending == queue = <<>> /\ replies = <<>>
Waits(o, call) ==
    /\ replies = <<>> /\ Len(queue) = 1
    /\ queue[1].call = call /\ queue[1].owner = o
Answers(o, call) ==
    /\ queue = <<>> /\ Len(replies) = 1
    /\ replies[1].call = call /\ replies[1].owner = o
OneCallOf(o, call) == Waits(o, call) \/ Answers(o, call)

NoTasks == \A p \in OpIds, l \in Loads : tasks[p][l].step = "none"

AwaitedBy(t, l, b) ==
    \A j \in DOMAIN t : t[j].id = l => t[j].status = "awaiting" /\ t[j].selected = b

-----------------------------------------------------------------------------
(* The steps of the one handler. *)

Resting ==
    /\ InFlight = {}
    /\ NothingPending /\ NoTasks
    /\ user # NoOne => Shows(mem, db)

(* The dialog was opened on a load that awaits the carrier's answer. *)
Asking(o) ==
    /\ ops[o].step = "dialog"
    /\ ops[o].kind \in {"confirm", "decline"} /\ ops[o].who \in Carriers
    /\ NothingPending /\ NoTasks
    /\ Shows(mem, db)
    /\ AwaitedBy(db, ops[o].load, ops[o].who)

LoggingIn(o) ==
    /\ ops[o].step = "getUser"
    /\ OneCallOf(o, "getUser") /\ NoTasks

Reading(o) ==
    /\ ops[o].step = "read"
    /\ OneCallOf(o, "getLoads") /\ NoTasks
    /\ Answers(o, "getLoads") => replies[1].rows = db

Inserting(o) ==
    /\ ops[o].step = "insert" /\ ops[o].kind = "post"
    /\ ops[o].post = FreshPost(ops[o].load)
    /\ OneCallOf(o, "insertLoad") /\ NoTasks
    /\ Waits(o, "insertLoad") => /\ queue[1].row = FreshRow(ops[o].load)
                                 /\ ~Has(db, ops[o].load)
    /\ Shows(Append(mem, ops[o].post), Settled)

Erasing(o) ==
    /\ ops[o].step = "delete"
    /\ OneCallOf(o, "deleteLoad") /\ NoTasks
    /\ Shows(Without(mem, ops[o].load), Settled)

(* After `bid` the board fetches. *)
Bidding(o) ==
    /\ ops[o].step = "writeBids" /\ ops[o].kind \in {"bid", "bidByName"}
    /\ OneCallOf(o, "updateLoadBids") /\ NoTasks
    /\ ops[o].kind = "bidByName" => "bidByName" \in Buttons /\ Shows(mem, Settled)

(* What updateBidStatus will write: the choice, or the stage as it is. *)
Verdict(o, r) ==
    /\ r.id = ops[o].load
    /\ ops[o].verdict = "accepted" =>
          r.status = "awaiting" /\ r.selected = ops[o].who /\ ops[o].who \in Bidders
    /\ ops[o].verdict # "accepted" =>
          \A j \in DOMAIN db : db[j].id = r.id => SameStage(r, db[j])

Judging(o) ==
    /\ ops[o].step = "writeBids" /\ ops[o].kind = "respond"
    /\ OneCallOf(o, "updateLoadBids") /\ NoTasks
    /\ ops[o].index \in DOMAIN mem
    /\ Verdict(o, mem[ops[o].index])

Deciding(o) ==
    /\ ops[o].step = "writeLoad" /\ ops[o].kind = "respond"
    /\ OneCallOf(o, "updateLoad") /\ NoTasks
    /\ Waits(o, "updateLoad") => Verdict(o, queue[1].row)
    /\ ops[o].verdict = "accepted" => AwaitedBy(Settled, ops[o].load, ops[o].who)

Outcome(kind) == IF kind = "confirm" THEN "confirmed" ELSE "declined"

Replying(o) ==
    /\ ops[o].step = "writeLoad"
    /\ ops[o].kind \in {"confirm", "decline"} /\ ops[o].who \in Carriers
    /\ OneCallOf(o, "updateLoad") /\ NoTasks
    /\ Waits(o, "updateLoad") =>
          /\ queue[1].row.id = ops[o].load
          /\ queue[1].row.status = Outcome(ops[o].kind)
          /\ queue[1].row.selected = ops[o].who
          /\ AwaitedBy(db, ops[o].load, ops[o].who)
    /\ Shows(mem, Settled)

(* A lookup captured a post of the list, and writes it back. *)
Captured(l, post) ==
    post.id = l /\ \A i \in DOMAIN mem : mem[i].id = l => mem[i] = post
Measuring(o) ==
    /\ ops[o].step = "distances"
    /\ Shows(mem, db)
    /\ \A p \in OpIds, l \in Loads :
          tasks[p][l].step # "none" => p = o /\ Captured(l, tasks[p][l].post)
    /\ \A p \in DOMAIN Pipe : /\ Pipe[p].call = "saveDistance" /\ Pipe[p].owner = o
                              /\ tasks[o][Pipe[p].load].step = "save"
    /\ \A p, q \in DOMAIN Pipe : Pipe[p].load = Pipe[q].load => p = q
    /\ \A i \in DOMAIN queue, k \in DOMAIN mem :
          mem[k].id = queue[i].row.id => queue[i].row = ToRow(mem[k])

Working(o) ==
    \/ Asking(o) \/ LoggingIn(o) \/ Reading(o) \/ Inserting(o) \/ Erasing(o)
    \/ Bidding(o) \/ Judging(o) \/ Deciding(o) \/ Replying(o) \/ Measuring(o)

Unfailing == \A k \in DOMAIN replies : replies[k].ok
BootFirst == ~Booted => InFlight = {} /\ user = NoOne

SerialInv ==
    /\ Unfailing /\ BootFirst
    /\ Resting \/ \E o \in OpIds : InFlight = {o} /\ Working(o)

-----------------------------------------------------------------------------
(* Lists that show a table. *)

LEMMA AlignedIds ==
    ASSUME NEW S, NEW T, NEW s \in Seq(S), NEW t \in Seq(T), Aligned(s, t)
    PROVE  /\ DOMAIN s = DOMAIN t
           /\ \A i \in DOMAIN s : s[i].id = t[i].id
           /\ \A k : Has(s, k) <=> Has(t, k)
           /\ \A k : UniqueAt(s, k) <=> UniqueAt(t, k)
           /\ \A k : IndexOf(s, k) = IndexOf(t, k)
<1>1. DOMAIN s = DOMAIN t /\ \A i \in DOMAIN s : s[i].id = t[i].id
  BY LenProperties DEF Aligned
<1>2. ASSUME NEW k PROVE IndexOf(s, k) = IndexOf(t, k)
  <2> DEFINE First(found) ==
                 IF found = {} THEN 0 ELSE CHOOSE i \in found : \A j \in found : i <= j
             inS == {i \in DOMAIN s : s[i].id = k}
             inT == {i \in DOMAIN t : t[i].id = k}
  <2>1. inS = inT
    BY <1>1
  <2>2. IndexOf(s, k) = First(inS) /\ IndexOf(t, k) = First(inT)
    BY DEF IndexOf
  <2> HIDE DEF First, inS, inT
  <2>3. QED
    BY <2>1, <2>2
<1>3. \A k : Has(s, k) <=> Has(t, k)
  BY <1>1 DEF Has
<1>4. \A k : UniqueAt(s, k) <=> UniqueAt(t, k)
  BY <1>1 DEF UniqueAt
<1>5. QED
  BY <1>1, <1>2, <1>3, <1>4

LEMMA WithoutShape ==
    ASSUME NEW S, NEW s \in Seq(S), NEW l
    PROVE  /\ IndexOf(s, l) = 0 => Without(s, l) = s
           /\ IndexOf(s, l) # 0 =>
                 /\ Len(Without(s, l)) = Len(s) - 1
                 /\ DOMAIN Without(s, l) = 1..(Len(s) - 1)
                 /\ \A i \in 1..(Len(s) - 1) :
                       Without(s, l)[i] = IF i < IndexOf(s, l) THEN s[i] ELSE s[i + 1]
<1> DEFINE p == IndexOf(s, l)
           w == Without(s, l)
<1>1. CASE p = 0
  BY <1>1 DEF Without
<1>2. CASE p # 0
  <2>1. p \in 1..Len(s) /\ Len(s) \in Nat
    BY <1>2, IndexOfSpec, LenProperties
  <2>2. w = [i \in 1..(Len(s) - 1) |-> IF i < p THEN s[i] ELSE s[i + 1]]
    BY <1>2 DEF Without
  <2>3. w \in Seq(S)
    BY WithoutType
  <2> HIDE DEF p, w
  <2>4. DOMAIN w = 1..(Len(s) - 1)
    BY <2>2
  <2>5. Len(w) \in Nat /\ DOMAIN w = 1..Len(w)
    BY <2>3, LenProperties
  <2>6. Len(s) - 1 \in Nat /\ Len(s) - 1 >= 0
    BY <2>1
  <2>7. Len(w) = Len(s) - 1
    <3>1. 1..Len(w) = 1..(Len(s) - 1)
      BY <2>4, <2>5
    <3>2. QED
      BY <2>5, <2>6, <3>1
  <2>8. \A i \in 1..(Len(s) - 1) : w[i] = IF i < p THEN s[i] ELSE s[i + 1]
    BY <2>2
  <2>9. QED
    BY <1>2, <2>4, <2>7, <2>8 DEF p, w
<1>3. QED
  BY <1>1, <1>2

LEMMA ShowsErased ==
    ASSUME NEW S, NEW T, NEW s \in Seq(S), NEW t \in Seq(T), Shows(s, t), NEW l
    PROVE  Shows(Without(s, l), Without(t, l))
<1>1. /\ DOMAIN s = DOMAIN t /\ Len(s) = Len(t)
      /\ \A i \in DOMAIN s : s[i].id = t[i].id
      /\ IndexOf(s, l) = IndexOf(t, l)
  BY AlignedIds DEF Shows, Aligned
<1>2. Len(s) \in Nat /\ DOMAIN s = 1..Len(s)
  BY LenProperties
<1>3. Aligned(Without(s, l), Without(t, l))
  <2>1. CASE IndexOf(s, l) = 0
    BY <1>1, <2>1, WithoutShape DEF Shows
  <2>2. CASE IndexOf(s, l) # 0
    <3> DEFINE p == IndexOf(s, l)
               u == Without(s, l)
               v == Without(t, l)
    <3>1. /\ Len(u) = Len(s) - 1
          /\ \A i \in 1..(Len(s) - 1) : u[i] = IF i < p THEN s[i] ELSE s[i + 1]
      BY <2>2, WithoutShape
    <3>2. /\ Len(v) = Len(s) - 1 /\ DOMAIN v = 1..(Len(s) - 1)
          /\ \A i \in 1..(Len(s) - 1) : v[i] = IF i < p THEN t[i] ELSE t[i + 1]
      BY <1>1, <2>2, WithoutShape
    <3> HIDE DEF p, u, v
    <3>3. \A i \in 1..(Len(s) - 1) : i \in DOMAIN s /\ i + 1 \in DOMAIN s
      BY <1>2
    <3>4. \A i \in 1..(Len(s) - 1) : u[i].id = v[i].id
      BY <1>1, <3>1, <3>2, <3>3
    <3>5. QED
      BY <3>1, <3>2, <3>4 DEF Aligned, u, v
  <2>3. QED
    BY <2>1, <2>2
<1>4. ASSUME NEW i \in DOMAIN Without(s, l), NEW j \in DOMAIN Without(t, l),
             Without(s, l)[i].id = Without(t, l)[j].id
      PROVE  SamePost(Without(s, l)[i], Without(t, l)[j])
  <2>1. PICK a \in DOMAIN s : Without(s, l)[i] = s[a]
    BY WithoutFrom
  <2>2. PICK b \in DOMAIN t : Without(t, l)[j] = t[b]
    BY WithoutFrom
  <2>3. QED
    BY <1>4, <2>1, <2>2 DEF Shows
<1>5. QED
  BY <1>3, <1>4 DEF Shows

LEMMA ShowsInserted ==
    ASSUME NEW s \in Seq(GoodPost), NEW t \in Seq(GoodRow), Shows(s, t),
           NEW l \in Loads, ~Has(t, l)
    PROVE  Shows(Append(s, FreshPost(l)), Append(Without(t, l), FreshRow(l)))
<1> DEFINE p == FreshPost(l)
           r == FreshRow(l)
           u == Append(s, p)
           v == Append(t, r)
<1>1. Without(t, l) = t
  BY IndexOfSpec, WithoutShape
<1>2. p \in GoodPost /\ r \in GoodRow
  BY FreshGood
<1>3. p.id = l /\ r.id = l /\ SamePost(p, r)
  BY DEF FreshPost, FreshRow, SamePost, SameStage, SameBids
<1>4. /\ DOMAIN s = DOMAIN t /\ Len(s) = Len(t)
      /\ \A i \in DOMAIN s : s[i].id = t[i].id
      /\ ~Has(s, l)
  BY AlignedIds DEF Shows, Aligned
<1> HIDE DEF p, r
<1>5. /\ Len(s) \in Nat /\ DOMAIN s = 1..Len(s)
      /\ Len(u) = Len(s) + 1 /\ DOMAIN u = 1..(Len(s) + 1)
      /\ \A i \in DOMAIN s : u[i] = s[i]
      /\ u[Len(s) + 1] = p
  BY <1>2, AppendProperties, LenProperties
<1>6. /\ Len(v) = Len(s) + 1 /\ DOMAIN v = 1..(Len(s) + 1)
      /\ \A i \in DOMAIN s : v[i] = t[i]
      /\ v[Len(s) + 1] = r
  BY <1>2, <1>4, AppendProperties, LenProperties
<1> HIDE DEF u, v
<1>7. \A i \in 1..(Len(s) + 1) : i \in DOMAIN s \/ i = Len(s) + 1
  BY <1>5
<1>8. Aligned(u, v)
  BY <1>3, <1>4, <1>5, <1>6, <1>7 DEF Aligned
<1>9. ASSUME NEW i \in DOMAIN u, NEW j \in DOMAIN v, u[i].id = v[j].id
      PROVE  SamePost(u[i], v[j])
  <2>1. CASE i \in DOMAIN s /\ j \in DOMAIN s
    BY <1>4, <1>5, <1>6, <1>9, <2>1 DEF Shows
  <2>2. CASE i \in DOMAIN s /\ j = Len(s) + 1
    BY <1>3, <1>4, <1>5, <1>6, <1>9, <2>2 DEF Has
  <2>3. CASE i = Len(s) + 1 /\ j \in DOMAIN s
    <3>1. t[j].id = l /\ j \in DOMAIN t
      BY <1>3, <1>4, <1>5, <1>6, <1>9, <2>3
    <3>2. QED
      BY <3>1 DEF Has
  <2>4. CASE i = Len(s) + 1 /\ j = Len(s) + 1
    BY <1>3, <1>5, <1>6, <2>4
  <2>5. QED
    BY <1>5, <1>6, <1>7, <2>1, <2>2, <2>3, <2>4
<1>10. QED
  BY <1>1, <1>8, <1>9 DEF Shows, u, v, p, r

LEMMA WrittenRows ==
    ASSUME NEW table \in Seq(GoodRow), NEW req \in GoodRequest,
           req.call \notin {"insertLoad", "deleteLoad"}
    PROVE  /\ Len(Written(table, req)) = Len(table)
           /\ DOMAIN Written(table, req) = DOMAIN table
           /\ \A i \in DOMAIN table : Written(table, req)[i].id = table[i].id
           /\ req.call \in {"getUser", "getLoads"} => Written(table, req) = table
           /\ req.call = "updateLoadBids" =>
                 \A i \in DOMAIN table : SameStage(Written(table, req)[i], table[i])
           /\ req.call \in {"updateLoad", "saveDistance"} =>
                 \A i \in DOMAIN table :
                    Written(table, req)[i] =
                       IF table[i].id = req.row.id THEN req.row ELSE table[i]
<1> DEFINE w == Written(table, req)
<1>1. \A i \in DOMAIN table : table[i] \in Row
  BY LenProperties, ElementOfSeq DEF GoodRow
<1>2. /\ DOMAIN w = DOMAIN table
      /\ \A i \in DOMAIN table : w[i].id = table[i].id
      /\ req.call \in {"getUser", "getLoads"} => w = table
      /\ req.call = "updateLoadBids" =>
            \A i \in DOMAIN table : SameStage(w[i], table[i])
      /\ req.call \in {"updateLoad", "saveDistance"} =>
            \A i \in DOMAIN table :
               w[i] = IF table[i].id = req.row.id THEN req.row ELSE table[i]
  <2>1. CASE req.call = "updateLoadBids"
    BY <1>1, <2>1 DEF Written, Row, SameStage
  <2>2. CASE req.call \in {"updateLoad", "saveDistance"}
    BY <2>2 DEF Written
  <2>3. CASE req.call \notin {"updateLoadBids", "updateLoad", "saveDistance"}
    BY <2>3 DEF Written
  <2>4. QED
    BY <2>1, <2>2, <2>3
<1>3. w \in Seq(GoodRow)
  BY WrittenGood
<1> HIDE DEF w
<1>4. Len(w) = Len(table)
  BY <1>2, <1>3, LenProperties
<1>5. QED
  BY <1>2, <1>4 DEF w

(* ''.split(';') is parsed to a bid, which then reads back as itself. *)
LEMMA ParsedTwice ==
    ASSUME NEW bids
    PROVE  ParseBids(ParseBids(bids)) = ParseBids(bids)
<1> DEFINE x == [NoBids EXCEPT ![Unknown] = "pending"]
<1>1. x # NoBids
  <2>1. Unknown \in Bidders
    BY DEF Bidders
  <2>2. x[Unknown] = "pending" /\ NoBids[Unknown] = "none"
    BY <2>1 DEF NoBids
  <2>3. QED
    BY <2>2
<1> HIDE DEF x
<1>2. ParseBids(bids) = IF bids = NoBids THEN x ELSE bids
  BY DEF ParseBids, x
<1>3. ParseBids(x) = x
  BY <1>1 DEF ParseBids, x
<1>4. CASE bids = NoBids
  BY <1>2, <1>3, <1>4
<1>5. CASE bids # NoBids
  BY <1>2, <1>5
<1>6. QED
  BY <1>4, <1>5

(* A post whose bids the board shows correctly may be written back. *)
LEMMA SameAsRow ==
    ASSUME NEW p, NEW r, "bidByName" \notin Buttons => SameBids(p, r)
    PROVE  SamePost(p, ToRow(p))
<1>1. SameStage(p, ToRow(p))
  BY DEF SameStage, ToRow
<1>2. ASSUME SameBids(p, r) PROVE SameBids(p, ToRow(p))
  <2>1. SUFFICES ASSUME p.list # 0 PROVE lists[p.list][p.id] = ParseBids(ToRow(p).bids)
    BY DEF SameBids
  <2>2. ToRow(p).bids = lists[p.list][p.id]
    BY <2>1 DEF ToRow
  <2>3. lists[p.list][p.id] = ParseBids(r.bids)
    BY <1>2, <2>1 DEF SameBids
  <2>4. QED
    BY <2>2, <2>3, ParsedTwice
<1>3. QED
  BY <1>1, <1>2 DEF SamePost

-----------------------------------------------------------------------------
(* The one handler in flight. *)

Ended == {"idle", "done", "aborted"}
Held1 == Serial /\ IInv /\ IInv' /\ ListInv /\ ListInv' /\ SerialInv

LEMMA FlightMoves ==
    ASSUME NEW o \in OpIds, InFlight \subseteq {o},
           \A p \in OpIds : p # o => ops'[p] = ops[p]
    PROVE  InFlight' = IF ops'[o].step \in Ended THEN {} ELSE {o}
<1>1. \A p \in OpIds : p # o => p \notin InFlight'
  BY DEF InFlight
<1>2. o \in InFlight' <=> ops'[o].step \notin Ended
  BY DEF InFlight, Ended
<1>3. InFlight' \subseteq OpIds
  BY DEF InFlight
<1>4. QED
  BY <1>1, <1>2, <1>3

LEMMA NobodyStarted ==
    ASSUME Serial, Cardinality(InFlight) < MaxInFlight
    PROVE  InFlight = {}
<1>1. IsFiniteSet(OpIds)
  BY BoundsAssumption, FS_Interval DEF OpIds
<1>2. InFlight \in SUBSET OpIds
  BY DEF InFlight
<1>3. IsFiniteSet(InFlight) /\ Cardinality(InFlight) \in Nat
  BY <1>1, <1>2, FS_Subset, FS_CardinalityType
<1>4. Cardinality(InFlight) = 0
  BY <1>3 DEF Serial
<1>5. QED
  BY <1>3, <1>4, FS_EmptySet

(* A handler starts when the one before it is over. *)
LEMMA HandlerStarts ==
    ASSUME Held1, NEW kind, CanStart(kind), NEW op, StartOp(op), op.step \notin Ended
    PROVE  /\ kind \in Buttons /\ Resting
           /\ \E o \in OpIds : /\ o = started + 1 /\ ops'[o] = op /\ InFlight' = {o}
                               /\ \A p \in OpIds : p # o => ops'[p] = ops[p]
<1>1. kind \in Buttons /\ InFlight = {}
  BY NobodyStarted DEF CanStart, Held1
<1>2. Resting
  BY <1>1 DEF Held1, SerialInv
<1>3. Before
  BY Ready DEF Held1
<1>4. /\ started + 1 \in OpIds /\ ops'[started + 1] = op
      /\ \A o \in OpIds : o # started + 1 => ops'[o] = ops[o]
  BY <1>3, OpIsNew
<1>5. PICK o \in OpIds : o = started + 1
  BY <1>4
<1>6. InFlight' = {o}
  BY <1>1, <1>4, <1>5, FlightMoves
<1>7. QED
  BY <1>1, <1>2, <1>4, <1>5, <1>6

LEMMA HandlerMoves ==
    ASSUME GoodOps, NEW o \in OpIds, InFlight = {o}, NEW s,
           ops' = [ops EXCEPT ![o].step = s]
    PROVE  /\ ops'[o].step = s /\ ops'[o].kind = ops[o].kind /\ ops'[o].load = ops[o].load
           /\ ops'[o].who = ops[o].who /\ ops'[o].verdict = ops[o].verdict
           /\ ops'[o].index = ops[o].index /\ ops'[o].post = ops[o].post
           /\ InFlight' = IF s \in Ended THEN {} ELSE {o}
<1>1. ops[o] \in Op /\ ops \in [OpIds -> Op]
  BY DEF GoodOps
<1>2. ops'[o] = [ops[o] EXCEPT !.step = s]
  BY <1>1
<1>3. /\ ops'[o].step = s /\ ops'[o].kind = ops[o].kind /\ ops'[o].load = ops[o].load
      /\ ops'[o].who = ops[o].who /\ ops'[o].verdict = ops[o].verdict
      /\ ops'[o].index = ops[o].index /\ ops'[o].post = ops[o].post
  BY <1>1, <1>2 DEF Op
<1>4. \A p \in OpIds : p # o => ops'[p] = ops[p]
  BY <1>1
<1>5. InFlight' = IF s \in Ended THEN {} ELSE {o}
  BY <1>3, <1>4, FlightMoves
<1>6. QED
  BY <1>3, <1>5

LEMMA HandlerGoesOn ==
    ASSUME Held1, NEW o \in OpIds, InFlight = {o}, NEW s, s \notin Ended,
           ops' = [ops EXCEPT ![o].step = s]
    PROVE  /\ ops'[o].step = s /\ ops'[o].kind = ops[o].kind /\ ops'[o].load = ops[o].load
           /\ ops'[o].who = ops[o].who /\ ops'[o].verdict = ops[o].verdict
           /\ InFlight' = {o}
<1>1. GoodOps
  BY DEF Held1, IInv
<1>2. QED
  BY <1>1, HandlerMoves

LEMMA HandlerEnds ==
    ASSUME Held1, NEW o \in OpIds, InFlight = {o}, NEW s, s \in Ended,
           ops' = [ops EXCEPT ![o].step = s]
    PROVE  InFlight' = {}
<1>1. GoodOps
  BY DEF Held1, IInv
<1>2. QED
  BY <1>1, HandlerMoves

(* The calls: at most one is under way but for those of a measuring. *)
LEMMA CallWaits ==
    ASSUME queue = <<>>, replies' = <<>>, NEW o, NEW call, NEW row, Call(o, call, row)
    PROVE  /\ Waits(o, call)' /\ queue'[1].row = row
           /\ Settled' = Written(db', [call |-> call, owner |-> o, row |-> row])
<1> DEFINE q == [call |-> call, owner |-> o, row |-> row]
<1>1. queue' = <<q>>
  BY DEF Call
<1>2. q.call = call /\ q.owner = o /\ q.row = row
  OBVIOUS
<1> HIDE DEF q
<1>3. queue' # <<>> /\ Head(queue') = q /\ queue'[1] = q /\ Len(queue') = 1
  BY <1>1
<1>4. Waits(o, call)'
  BY <1>2, <1>3 DEF Waits
<1>5. Settled' = Written(db', q)
  BY <1>3 DEF Settled
<1>6. QED
  BY <1>2, <1>3, <1>4, <1>5 DEF q

AnsweredStep(o, call) ==
    /\ call = "getUser" => LoggingIn(o)
    /\ call = "getLoads" => Reading(o)
    /\ call = "insertLoad" => Inserting(o)
    /\ call = "deleteLoad" => Erasing(o)
    /\ call = "updateLoadBids" => Bidding(o) \/ Judging(o)
    /\ call = "updateLoad" => Deciding(o) \/ Replying(o)
    /\ call = "saveDistance" => Measuring(o)

(* Who waits for the first reply. *)
LEMMA FirstAnswer ==
    ASSUME Held1, NEW call, Resumed(call)
    PROVE  /\ Booted /\ replies[1] = Head(replies) /\ Head(replies).ok
           /\ \E o \in OpIds : /\ InFlight = {o} /\ Head(replies).owner = o
                               /\ AnsweredStep(o, call)
                               /\ call # "saveDistance" => Answers(o, call) /\ NoTasks
<1>1. Before /\ GoodReplies
  BY Ready DEF Held1, IInv
<1>2. /\ replies # <<>> /\ Booted /\ 1 \in DOMAIN replies /\ RepliesMoved(1)
      /\ Head(replies) = replies[1] /\ replies[1].call = call
  BY <1>1, TakesReply DEF Resumed
<1>3. Head(replies).ok
  BY <1>2 DEF Held1, SerialInv, Unfailing
<1>4. PICK o \in OpIds : InFlight = {o} /\ Working(o)
  BY <1>2 DEF Held1, SerialInv, Resting, NothingPending
<1>5. \A c : OneCallOf(o, c) => Answers(o, c) /\ c = call
  BY <1>2 DEF OneCallOf, Answers, Waits
<1>6. ~Asking(o)
  BY <1>2 DEF Asking, NothingPending
<1>7. ASSUME Measuring(o)
      PROVE  call = "saveDistance" /\ replies[1].owner = o
  <2>1. 1 \in DOMAIN Pipe /\ Pipe[1] = [call |-> replies[1].call, owner |-> replies[1].owner,
                                       load |-> replies[1].load]
    BY <1>1, <1>2, FirstReply DEF Before
  <2>2. Pipe[1].call = "saveDistance" /\ Pipe[1].owner = o
    BY <1>7, <2>1 DEF Measuring
  <2>3. QED
    BY <1>2, <2>1, <2>2
<1>8. CASE Measuring(o)
  BY <1>2, <1>3, <1>4, <1>7, <1>8 DEF AnsweredStep
<1>9. CASE ~Measuring(o)
  <2>1. \/ LoggingIn(o) /\ call = "getUser" /\ Answers(o, call) /\ NoTasks
        \/ Reading(o) /\ call = "getLoads" /\ Answers(o, call) /\ NoTasks
        \/ Inserting(o) /\ call = "insertLoad" /\ Answers(o, call) /\ NoTasks
        \/ Erasing(o) /\ call = "deleteLoad" /\ Answers(o, call) /\ NoTasks
        \/ (Bidding(o) \/ Judging(o)) /\ call = "updateLoadBids" /\ Answers(o, call) /\ NoTasks
        \/ (Deciding(o) \/ Replying(o)) /\ call = "updateLoad" /\ Answers(o, call) /\ NoTasks
    BY <1>4, <1>5, <1>6, <1>9 DEF Working, LoggingIn, Reading, Inserting, Erasing, Bidding,
       Judging, Deciding, Replying
  <2>2. Answers(o, call) /\ NoTasks /\ AnsweredStep(o, call)
    BY <2>1 DEF AnsweredStep
  <2>3. Head(replies).owner = o
    BY <1>2, <2>2 DEF Answers
  <2>4. QED
    BY <1>2, <1>3, <1>4, <2>2, <2>3
<1>10. QED
  BY <1>8, <1>9

LEMMA LastReply ==
    ASSUME Held1, NEW o, NEW call, Answers(o, call), Resumed(call)
    PROVE  queue = <<>> /\ replies' = <<>> /\ Settled = db
<1>1. Before /\ GoodReplies
  BY Ready DEF Held1, IInv
<1>2. RepliesMoved(1)
  BY <1>1, TakesReply
<1>3. Len(replies') = 0 /\ replies' \in Seq(GoodReply)
  BY <1>2 DEF RepliesMoved, Answers, Held1, IInv, GoodReplies
<1>4. replies' = <<>>
  BY <1>3, EmptySeq
<1>5. QED
  BY <1>4 DEF Answers, Settled

(* A step of the app after main(). *)
LEMMA StillSerial ==
    ASSUME Held1, Booted, UNCHANGED boot,
           \/ UNCHANGED replies
           \/ replies # <<>> /\ replies' = Tail(replies),
           Resting' \/ \E o \in OpIds : InFlight' = {o} /\ Working(o)'
    PROVE  SerialInv'
<1>1. \E d \in {0, 1} : RepliesMoved(d)
  BY RepliesTaken DEF Held1, IInv
<1>2. Unfailing'
  BY <1>1 DEF RepliesMoved, Unfailing, Held1, SerialInv
<1>3. BootFirst'
  BY DEF BootFirst, Booted
<1>4. QED
  BY <1>2, <1>3 DEF SerialInv

LEMMA Rests ==
    ASSUME Held1, Booted, UNCHANGED boot, InFlight' = {}, queue' = <<>>, replies' = <<>>,
           NoTasks', Shows(mem, db)',
           \/ UNCHANGED replies
           \/ replies # <<>> /\ replies' = Tail(replies)
    PROVE  SerialInv'
<1>1. Resting'
  BY DEF Resting, NothingPending
<1>2. QED
  BY <1>1, StillSerial

LEMMA BoardAtRest ==
    ASSUME Resting, AtBoard
    PROVE  Booted /\ Shows(mem, db) /\ user # NoOne /\ queue = <<>> /\ replies = <<>> /\ NoTasks
BY DEF Resting, AtBoard, NothingPending

-----------------------------------------------------------------------------
(* One lemma per handler. *)

LEMMA HandlerIs ==
    ASSUME NEW kind, NEW step, NEW l, NEW who
    PROVE  /\ Handler(kind, step, l, who).kind = kind
           /\ Handler(kind, step, l, who).step = step
           /\ Handler(kind, step, l, who).load = l
           /\ Handler(kind, step, l, who).who = who
BY DEF Handler, NoOp

LEMMA LoginSerial ==
    ASSUME Held1, NEW u, Login(u)
    PROVE  SerialInv'
<1> DEFINE op == Handler("login", "getUser", NoOp.load, u)
<1>1. op.step = "getUser"
  BY HandlerIs
<1> HIDE DEF op
<1>2. /\ CanStart("login") /\ StartOp(op) /\ Call(started + 1, "getUser", AnyRow)
      /\ UNCHANGED <<tasks, boot, replies>> /\ Booted
  BY DEF Login, op, memory, outside
<1>3. PICK o \in OpIds : o = started + 1 /\ ops'[o] = op /\ InFlight' = {o}
  BY <1>1, <1>2, HandlerStarts DEF Ended
<1>4. NothingPending /\ NoTasks
  BY <1>1, <1>2, HandlerStarts DEF Ended, Resting
<1>5. Waits(o, "getUser")'
  BY <1>2, <1>3, <1>4, CallWaits DEF NothingPending
<1>6. LoggingIn(o)'
  BY <1>1, <1>2, <1>3, <1>4, <1>5 DEF LoggingIn, OneCallOf, NoTasks
<1>7. QED
  BY <1>2, <1>3, <1>6, StillSerial DEF Working

(* The handler fetches next. *)
LEMMA ReadsNext ==
    ASSUME Held1, Booted, NEW o \in OpIds, InFlight' = {o}, ops'[o].step = "read",
           queue = <<>>, replies' = <<>>, FetchLoads(o), NoTasks, UNCHANGED <<tasks, boot>>,
           \/ UNCHANGED replies
           \/ replies # <<>> /\ replies' = Tail(replies)
    PROVE  SerialInv'
<1>1. Waits(o, "getLoads")'
  BY CallWaits DEF FetchLoads
<1>2. ~Answers(o, "getLoads")'
  BY <1>1 DEF Answers, Waits
<1>3. Reading(o)'
  BY <1>1, <1>2 DEF Reading, OneCallOf, NoTasks
<1>4. QED
  BY <1>3, StillSerial DEF Working

LEMMA RefreshSerial ==
    ASSUME Held1, Refresh
    PROVE  SerialInv'
<1> DEFINE op == Handler("refresh", "read", NoOp.load, user)
<1>1. op.step = "read"
  BY HandlerIs
<1> HIDE DEF op
<1>2. /\ CanStart("refresh") /\ StartOp(op) /\ FetchLoads(started + 1)
      /\ UNCHANGED <<tasks, boot, replies>> /\ Booted
  BY DEF Refresh, op, memory, outside, AtBoard
<1>3. PICK o \in OpIds : o = started + 1 /\ ops'[o] = op /\ InFlight' = {o}
  BY <1>1, <1>2, HandlerStarts DEF Ended
<1>4. NothingPending /\ NoTasks
  BY <1>1, <1>2, HandlerStarts DEF Ended, Resting
<1>5. QED
  BY <1>1, <1>2, <1>3, <1>4, ReadsNext DEF NothingPending

LEMMA LoginAnsweredSerial ==
    ASSUME Held1, LoginAnswered
    PROVE  SerialInv'
<1>1. /\ Resumed("getUser") /\ replies # <<>> /\ replies' = Tail(replies)
      /\ UNCHANGED <<tasks, boot>>
  BY DEF LoginAnswered, Resumed, memory, outside
<1>2. PICK o \in OpIds : /\ InFlight = {o} /\ Head(replies).owner = o
                         /\ Answers(o, "getUser") /\ NoTasks
  BY <1>1, FirstAnswer
<1>3. Head(replies).ok /\ Booted
  BY <1>1, FirstAnswer
<1>4. ops' = [ops EXCEPT ![o].step = "read"] /\ FetchLoads(o)
  BY <1>2, <1>3 DEF LoginAnswered
<1>5. ops'[o].step = "read" /\ InFlight' = {o}
  <2>1. ops' = [ops EXCEPT ![o].step = "read"] /\ InFlight = {o} /\ "read" \notin Ended
    BY <1>2, <1>4 DEF Ended
  <2>2. QED
    BY <2>1, HandlerGoesOn
<1>6. queue = <<>> /\ replies' = <<>>
  BY <1>1, <1>2, LastReply
<1>7. QED
  BY <1>1, <1>2, <1>3, <1>4, <1>5, <1>6, ReadsNext

LEMMA LogoutSerial ==
    ASSUME Held1, Logout
    PROVE  SerialInv'
<1>1. /\ AtBoard /\ InFlight = {} /\ user' = NoOne
      /\ UNCHANGED <<memory, ops, boot, queue, replies>>
  BY NobodyStarted DEF Logout, Held1
<1>2. InFlight' = {} /\ Booted
  BY <1>1 DEF InFlight, AtBoard
<1>3. Resting
  BY <1>1 DEF Held1, SerialInv
<1>4. Resting'
  BY <1>1, <1>2, <1>3 DEF Resting, NothingPending, NoTasks, memory
<1>5. QED
  BY <1>1, <1>2, <1>4, StillSerial

LEMMA PostLoadSerial ==
    ASSUME Held1, NEW l \in Loads, PostLoad(l)
    PROVE  SerialInv'
<1> DEFINE op == [Handler("post", "insert", l, user) EXCEPT !.post = FreshPost(l)]
           q(o) == [call |-> "insertLoad", owner |-> o, row |-> FreshRow(l)]
<1>1. op.step = "insert" /\ op.kind = "post" /\ op.load = l /\ op.post = FreshPost(l)
  BY DEF Handler, NoOp
<1> HIDE DEF op
<1>2. /\ CanStart("post") /\ StartOp(op) /\ Call(started + 1, "insertLoad", FreshRow(l))
      /\ UNCHANGED <<mem, lists, tasks, boot, replies, db>> /\ AtBoard /\ ~Has(db, l)
  BY DEF PostLoad, op, memory, outside, NeverUsed
<1>3. PICK o \in OpIds : o = started + 1 /\ ops'[o] = op /\ InFlight' = {o}
  BY <1>1, <1>2, HandlerStarts DEF Ended
<1>4. Resting
  BY <1>1, <1>2, HandlerStarts DEF Ended
<1>5. Booted /\ Shows(mem, db) /\ queue = <<>> /\ replies = <<>> /\ NoTasks
  BY <1>2, <1>4, BoardAtRest
<1>6. Waits(o, "insertLoad")' /\ queue'[1].row = FreshRow(l) /\ Settled' = Written(db', q(o))
  BY <1>2, <1>3, <1>5, CallWaits
<1>7. Settled' = Append(Without(db, l), FreshRow(l))
  <2>1. FreshRow(l).id = l
    BY DEF FreshRow
  <2>2. q(o).call = "insertLoad" /\ q(o).row = FreshRow(l)
    OBVIOUS
  <2> HIDE DEF q
  <2>3. Written(db, q(o)) = Append(Without(db, l), FreshRow(l))
    BY <2>1, <2>2 DEF Written
  <2>4. QED
    BY <1>2, <1>6, <2>3
<1>8. Shows(Append(mem, FreshPost(l)), Append(Without(db, l), FreshRow(l)))
  BY <1>2, <1>5, ShowsInserted DEF Held1, IInv, GoodMem, GoodDb
<1>9. Shows(Append(mem, ops[o].post), Settled)'
  BY <1>1, <1>2, <1>3, <1>7, <1>8 DEF Shows, SamePost, SameBids
<1>10. Inserting(o)'
  BY <1>1, <1>2, <1>3, <1>5, <1>6, <1>9 DEF Inserting, OneCallOf, NoTasks
<1>11. QED
  BY <1>2, <1>3, <1>5, <1>10, StillSerial DEF Working

LEMMA LoadInsertedSerial ==
    ASSUME Held1, LoadInserted
    PROVE  SerialInv'
<1>1. /\ Resumed("insertLoad") /\ replies # <<>> /\ replies' = Tail(replies)
      /\ UNCHANGED <<lists, tasks, boot, db>>
  BY DEF LoadInserted, Resumed, outside
<1>2. PICK o \in OpIds : /\ InFlight = {o} /\ Head(replies).owner = o /\ Inserting(o)
                         /\ Answers(o, "insertLoad") /\ NoTasks
  BY <1>1, FirstAnswer DEF AnsweredStep
<1>3. Head(replies).ok /\ Booted
  BY <1>1, FirstAnswer
<1>4. queue = <<>> /\ replies' = <<>> /\ Settled = db
  BY <1>1, <1>2, LastReply
<1>5. /\ mem' = Append(mem, ops[o].post) /\ UNCHANGED queue
      /\ ops' = [ops EXCEPT ![o].step = "done"]
  BY <1>2, <1>3 DEF LoadInserted, Inserting
<1>6. InFlight' = {}
  BY <1>2, <1>5, HandlerEnds DEF Ended
<1>7. Shows(mem', db)
  BY <1>2, <1>4, <1>5 DEF Inserting
<1>8. Shows(mem, db)' /\ NoTasks'
  BY <1>1, <1>2, <1>7 DEF Shows, SamePost, SameBids, NoTasks
<1>9. QED
  BY <1>1, <1>3, <1>4, <1>5, <1>6, <1>8, Rests

(* A deletion that has taken the loads off the list s, and the table is t. *)
LEMMA DeletesNext ==
    ASSUME Held1, Booted, NEW o \in OpIds, InFlight' = {o}, NEW l \in Loads,
           ops'[o].step = "delete", ops'[o].load = l, Call(o, "deleteLoad", FreshRow(l)),
           queue = <<>>, replies' = <<>>, Shows(mem', db), NoTasks,
           UNCHANGED <<lists, tasks, boot, db>>,
           \/ UNCHANGED replies
           \/ replies # <<>> /\ replies' = Tail(replies)
    PROVE  SerialInv'
<1> DEFINE q == [call |-> "deleteLoad", owner |-> o, row |-> FreshRow(l)]
<1>1. Waits(o, "deleteLoad")' /\ Settled' = Written(db', q)
  BY CallWaits
<1>2. Settled' = Without(db, l)
  <2>1. q.call = "deleteLoad" /\ q.row.id = l
    BY DEF FreshRow
  <2> HIDE DEF q
  <2>2. QED
    BY <1>1, <2>1 DEF Written
<1>3. mem' \in Seq(GoodPost) /\ db \in Seq(GoodRow)
  BY DEF Held1, IInv, GoodMem, GoodDb
<1>4. Shows(Without(mem', l), Without(db, l))
  BY <1>3, ShowsErased
<1>5. Shows(Without(mem, ops[o].load), Settled)'
  BY <1>2, <1>4 DEF Shows, SamePost, SameBids
<1>6. Erasing(o)'
  BY <1>1, <1>5 DEF Erasing, OneCallOf, NoTasks
<1>7. QED
  BY <1>6, StillSerial DEF Working

LEMMA DeleteLoadsSerial ==
    ASSUME Held1, NEW chosen \in SUBSET Loads \ {{}}, DeleteLoads(chosen)
    PROVE  SerialInv'
<1>1. PICK l \in chosen :
         /\ StartOp([Handler("delete", "delete", l, user) EXCEPT
                        !.chosen = chosen, !.todo = chosen \ {l}])
         /\ Call(started + 1, "deleteLoad", FreshRow(l))
  BY DEF DeleteLoads
<1> DEFINE op == [Handler("delete", "delete", l, user) EXCEPT
                     !.chosen = chosen, !.todo = chosen \ {l}]
<1>2. op.step = "delete" /\ op.load = l
  BY DEF Handler, NoOp
<1> HIDE DEF op
<1>3. /\ CanStart("delete") /\ StartOp(op) /\ AtBoard
      /\ UNCHANGED <<mem, lists, tasks, boot, replies, db>>
  BY <1>1 DEF DeleteLoads, op, memory, outside
<1>4. PICK o \in OpIds : o = started + 1 /\ ops'[o] = op /\ InFlight' = {o}
  BY <1>2, <1>3, HandlerStarts DEF Ended
<1>5. Resting
  BY <1>2, <1>3, HandlerStarts DEF Ended
<1>6. Booted /\ Shows(mem, db) /\ queue = <<>> /\ replies = <<>> /\ NoTasks
  BY <1>3, <1>5, BoardAtRest
<1>7. Shows(mem', db) /\ l \in Loads
  BY <1>3, <1>6
<1>8. QED
  BY <1>1, <1>2, <1>3, <1>4, <1>6, <1>7, DeletesNext

LEMMA LoadDeletedSerial ==
    ASSUME Held1, LoadDeleted
    PROVE  SerialInv'
<1>1. /\ Resumed("deleteLoad") /\ replies # <<>> /\ replies' = Tail(replies)
      /\ UNCHANGED <<lists, tasks, boot, db>>
  BY DEF LoadDeleted, Resumed, outside
<1>2. PICK o \in OpIds : /\ InFlight = {o} /\ Head(replies).owner = o /\ Erasing(o)
                         /\ Answers(o, "deleteLoad") /\ NoTasks
  BY <1>1, FirstAnswer DEF AnsweredStep
<1>3. Head(replies).ok /\ Booted /\ Head(replies) = replies[1]
  BY <1>1, FirstAnswer
<1>4. queue = <<>> /\ replies' = <<>> /\ Settled = db
  BY <1>1, <1>2, LastReply
<1>5. Head(replies).load = ops[o].load
  <2>1. Before /\ GoodReplies
    BY Ready DEF Held1, IInv
  <2>2. CallLinked([call |-> "deleteLoad", owner |-> replies[1].owner,
                    load |-> replies[1].load], started, ops)
    BY <1>1, <2>1, TakesReply
  <2>3. QED
    BY <1>2, <1>3, <2>2 DEF CallLinked
<1>6. /\ mem' = Without(mem, ops[o].load)
      /\ \/ UNCHANGED queue /\ ops' = [ops EXCEPT ![o].step = "done"]
         \/ \E k \in ops[o].todo :
               /\ ops' = [ops EXCEPT ![o].load = k, ![o].todo = @ \ {k}]
               /\ Call(o, "deleteLoad", FreshRow(k))
  BY <1>2, <1>3, <1>5 DEF LoadDeleted
<1>7. Shows(mem', db)
  BY <1>2, <1>4, <1>6 DEF Erasing
<1>8. CASE UNCHANGED queue /\ ops' = [ops EXCEPT ![o].step = "done"]
  <2>1. InFlight' = {}
    BY <1>2, <1>8, HandlerEnds DEF Ended
  <2>2. Shows(mem, db)' /\ NoTasks'
    BY <1>1, <1>2, <1>7 DEF Shows, SamePost, SameBids, NoTasks
  <2>3. QED
    BY <1>1, <1>3, <1>4, <1>8, <2>1, <2>2, Rests
<1>9. ASSUME NEW k \in ops[o].todo,
             ops' = [ops EXCEPT ![o].load = k, ![o].todo = @ \ {k}],
             Call(o, "deleteLoad", FreshRow(k))
      PROVE  SerialInv'
  <2>1. ops[o] \in Op /\ ops \in [OpIds -> Op]
    BY DEF Held1, IInv, GoodOps
  <2>2. k \in Loads
    BY <2>1 DEF Op
  <2>3. /\ ops'[o].step = ops[o].step /\ ops'[o].load = k
        /\ \A p \in OpIds : p # o => ops'[p] = ops[p]
    BY <1>9, <2>1 DEF Op
  <2>4. ops'[o].step = "delete"
    BY <1>2, <2>3 DEF Erasing
  <2>5. InFlight' = {o}
    BY <1>2, <2>3, <2>4, FlightMoves DEF Ended
  <2>6. QED
    BY <1>1, <1>2, <1>3, <1>4, <1>7, <1>9, <2>2, <2>3, <2>4, <2>5, DeletesNext
<1>10. QED
  BY <1>6, <1>8, <1>9

-----------------------------------------------------------------------------
(* Bids and verdicts. *)

LEMMA WaitingCall ==
    ASSUME Held1, NEW o, NEW call, Waits(o, call)'
    PROVE  queue'[1] \in GoodRequest /\ queue' # <<>> /\ Settled' = Written(db', queue'[1])
<1>1. queue' \in Seq(GoodRequest) /\ Len(queue') = 1
  BY DEF Held1, IInv, GoodQueue, Waits
<1>2. queue'[1] \in GoodRequest
  <2>1. 1 \in 1..Len(queue')
    BY <1>1
  <2>2. QED
    BY <1>1, <2>1, ElementOfSeq
<1>3. queue' # <<>>
  BY <1>1, EmptySeq
<1>4. Head(queue') = queue'[1]
  BY <1>1, <1>3, HeadTailProperties
<1>5. QED
  BY <1>2, <1>3, <1>4 DEF Settled

(* When bids are made by name, only the stages are promised. *)
LEMMA ShowsStages ==
    ASSUME NEW s, NEW t, NEW w, Shows(s, t), "bidByName" \in Buttons,
           Len(w) = Len(t), DOMAIN w = DOMAIN t,
           \A i \in DOMAIN t : w[i].id = t[i].id /\ SameStage(w[i], t[i])
    PROVE  Shows(s, w)
<1>1. Aligned(s, w)
  BY DEF Shows, Aligned
<1>2. ASSUME NEW i \in DOMAIN s, NEW j \in DOMAIN w, s[i].id = w[j].id
      PROVE  SamePost(s[i], w[j])
  <2>1. j \in DOMAIN t /\ s[i].id = t[j].id /\ SameStage(w[j], t[j])
    BY <1>2
  <2>2. SameStage(s[i], t[j])
    BY <2>1 DEF Shows, SamePost
  <2>3. QED
    BY <2>1, <2>2 DEF SamePost, SameStage
<1>3. QED
  BY <1>1, <1>2 DEF Shows

LEMMA AddBidSerial ==
    ASSUME Held1, NEW kind \in {"bid", "bidByName"}, NEW l, NEW b, AddBid(kind, l, b)
    PROVE  SerialInv'
<1> DEFINE op == Handler(kind, "writeBids", l, b)
           i == IndexOf(mem, l)
           bids == WithBid(lists[mem[i].list][l], b)
           row == [ToRow(mem[i]) EXCEPT !.bids = bids]
<1>1. op.step = "writeBids" /\ op.kind = kind
  BY HandlerIs
<1>2. /\ CanStart(kind) /\ StartOp(op) /\ AtBoard
      /\ Call(started + 1, "updateLoadBids", row)
      /\ UNCHANGED <<mem, tasks, boot, replies, db>>
  BY DEF AddBid, outside
<1> HIDE DEF op, row
<1>3. PICK o \in OpIds : o = started + 1 /\ ops'[o] = op /\ InFlight' = {o}
  BY <1>1, <1>2, HandlerStarts DEF Ended
<1>4. Resting /\ kind \in Buttons
  BY <1>1, <1>2, HandlerStarts DEF Ended
<1>5. Booted /\ Shows(mem, db) /\ queue = <<>> /\ replies = <<>> /\ NoTasks
  BY <1>2, <1>4, BoardAtRest
<1>6. Waits(o, "updateLoadBids")'
  BY <1>2, <1>3, <1>5, CallWaits
<1>7. ASSUME kind = "bidByName" PROVE Shows(mem, Settled)'
  <2> DEFINE w == Written(db, queue'[1])
  <2>1. queue'[1] \in GoodRequest /\ Settled' = w /\ queue'[1].call = "updateLoadBids"
    BY <1>2, <1>6, WaitingCall DEF Waits
  <2>2. db \in Seq(GoodRow)
    BY DEF Held1, IInv, GoodDb
  <2>3. /\ Len(w) = Len(db) /\ DOMAIN w = DOMAIN db
        /\ \A k \in DOMAIN db : w[k].id = db[k].id /\ SameStage(w[k], db[k])
    BY <2>1, <2>2, WrittenRows
  <2> HIDE DEF w
  <2>4. Shows(mem, w)
    BY <1>4, <1>5, <1>7, <2>3, ShowsStages
  <2>5. QED
    BY <1>2, <1>4, <1>7, <2>1, <2>4 DEF Shows, SamePost, SameBids
<1>8. Bidding(o)'
  BY <1>1, <1>2, <1>3, <1>4, <1>5, <1>6, <1>7 DEF Bidding, OneCallOf, NoTasks
<1>9. QED
  BY <1>2, <1>3, <1>5, <1>8, StillSerial DEF Working

LEMMA BidShown ==
    ASSUME IInv, NEW l \in Loads, NEW b, BidOf(l, b) # "none"
    PROVE  /\ IndexOf(mem, l) \in DOMAIN mem
           /\ mem[IndexOf(mem, l)].id = l
           /\ mem[IndexOf(mem, l)] \in Post
<1>1. IndexOf(mem, l) # 0
  BY DEF BidOf
<1>2. mem \in Seq(GoodPost)
  BY DEF IInv, GoodMem
<1>3. /\ IndexOf(mem, l) \in 1..Len(mem) /\ DOMAIN mem = 1..Len(mem)
      /\ mem[IndexOf(mem, l)].id = l
  BY <1>1, <1>2, IndexOfSpec, LenProperties
<1>4. mem[IndexOf(mem, l)] \in GoodPost
  BY <1>2, <1>3, ElementOfSeq
<1>5. QED
  BY <1>3, <1>4 DEF GoodPost

LEMMA RespondSerial ==
    ASSUME Held1, NEW l \in Loads, NEW b \in Bidders, NEW verdict, Respond(l, b, verdict)
    PROVE  SerialInv'
<1> DEFINE i == IndexOf(mem, l)
           post == Judged(mem[i], b, verdict)
           bids == [lists[mem[i].list][l] EXCEPT ![b] = verdict]
           row == [ToRow(post) EXCEPT !.bids = bids]
           op == [Handler("respond", "writeBids", l, b) EXCEPT !.index = i, !.verdict = verdict]
<1>1. /\ op.step = "writeBids" /\ op.kind = "respond" /\ op.load = l /\ op.who = b
      /\ op.index = i /\ op.verdict = verdict
  BY DEF Handler, NoOp
<1>2. /\ CanStart("respond") /\ StartOp(op) /\ AtBoard /\ BidOf(l, b) # "none"
      /\ Call(started + 1, "updateLoadBids", row)
      /\ mem' = [mem EXCEPT ![i] = post]
      /\ UNCHANGED <<tasks, boot, replies, db>>
  BY DEF Respond, outside
<1> HIDE DEF op, row, i
<1>3. i \in DOMAIN mem /\ mem[i].id = l /\ mem[i] \in Post
  BY <1>2, BidShown DEF i, Held1
<1>4. PICK o \in OpIds : o = started + 1 /\ ops'[o] = op /\ InFlight' = {o}
  BY <1>1, <1>2, HandlerStarts DEF Ended
<1>5. Resting
  BY <1>1, <1>2, HandlerStarts DEF Ended
<1>6. Booted /\ Shows(mem, db) /\ queue = <<>> /\ replies = <<>> /\ NoTasks
  BY <1>2, <1>5, BoardAtRest
<1>7. Waits(o, "updateLoadBids")'
  BY <1>2, <1>4, <1>6, CallWaits
<1>8. DOMAIN mem' = DOMAIN mem /\ mem'[i] = post
  BY <1>2, <1>3
<1>9. /\ post.id = l
      /\ verdict = "accepted" => post.status = "awaiting" /\ post.selected = b
      /\ verdict # "accepted" => post = mem[i]
  BY <1>3 DEF Judged, Post
<1> HIDE DEF post
<1>10. ASSUME verdict # "accepted", NEW j \in DOMAIN db, db[j].id = l
       PROVE  SameStage(post, db[j])
  BY <1>3, <1>6, <1>9, <1>10 DEF Shows, SamePost
<1>11. ops'[o].index \in DOMAIN mem'
  BY <1>1, <1>3, <1>4, <1>8
<1>12. Verdict(o, mem[ops[o].index])'
  BY <1>1, <1>2, <1>4, <1>8, <1>9, <1>10 DEF Verdict
<1>13. Judging(o)'
  BY <1>1, <1>2, <1>4, <1>6, <1>7, <1>11, <1>12 DEF Judging, OneCallOf, NoTasks
<1>14. QED
  BY <1>2, <1>4, <1>6, <1>13, StillSerial DEF Working

(* The verdict is written next. *)
LEMMA DecidesNext ==
    ASSUME Held1, Booted, NEW o \in OpIds, InFlight' = {o}, Judging(o),
           ops'[o].step = "writeLoad", ops'[o].kind = "respond", ops'[o].load = ops[o].load,
           ops'[o].who = ops[o].who, ops'[o].verdict = ops[o].verdict,
           Call(o, "updateLoad", ToRow(mem[ops[o].index])),
           queue = <<>>, replies' = <<>>, NoTasks, UNCHANGED <<mem, tasks, boot, db>>,
           replies # <<>> /\ replies' = Tail(replies)
    PROVE  SerialInv'
<1> DEFINE p == mem[ops[o].index]
           row == ToRow(p)
           w == Written(db, queue'[1])
<1>1. Waits(o, "updateLoad")' /\ queue'[1].row = row
  BY CallWaits
<1>2. Verdict(o, p)
  BY DEF Judging
<1>3. row.id = p.id /\ row.status = p.status /\ row.selected = p.selected
  BY DEF ToRow
<1> HIDE DEF p, row
<1>4. Verdict(o, queue[1].row)'
  BY <1>1, <1>2, <1>3 DEF Verdict, SameStage
<1>5. /\ queue'[1] \in GoodRequest /\ Settled' = w /\ queue'[1].call = "updateLoad"
      /\ db \in Seq(GoodRow)
  BY <1>1, WaitingCall DEF Waits, Held1, IInv, GoodDb
<1>6. /\ DOMAIN w = DOMAIN db
      /\ \A j \in DOMAIN db : /\ w[j].id = db[j].id
                              /\ w[j] = IF db[j].id = row.id THEN row ELSE db[j]
  BY <1>1, <1>5, WrittenRows
<1> HIDE DEF w
<1>7. ASSUME ops[o].verdict = "accepted"
      PROVE  AwaitedBy(w, ops[o].load, ops[o].who)
  <2>1. /\ row.id = ops[o].load /\ row.status = "awaiting" /\ row.selected = ops[o].who
    BY <1>2, <1>3, <1>7 DEF Verdict
  <2>2. QED
    BY <1>6, <2>1 DEF AwaitedBy
<1>8. ops'[o].verdict = "accepted" => AwaitedBy(Settled, ops[o].load, ops[o].who)'
  BY <1>5, <1>7 DEF AwaitedBy
<1>9. Deciding(o)'
  BY <1>1, <1>4, <1>8 DEF Deciding, OneCallOf, NoTasks
<1>10. QED
  BY <1>9, StillSerial DEF Working

LEMMA BidsWrittenSerial ==
    ASSUME Held1, BidsWritten
    PROVE  SerialInv'
<1>1. /\ Resumed("updateLoadBids") /\ replies # <<>> /\ replies' = Tail(replies)
      /\ UNCHANGED <<mem, lists, tasks, boot, db>>
  BY DEF BidsWritten, Resumed, memory, outside
<1>2. PICK o \in OpIds : /\ InFlight = {o} /\ Head(replies).owner = o
                         /\ Bidding(o) \/ Judging(o)
                         /\ Answers(o, "updateLoadBids") /\ NoTasks
  BY <1>1, FirstAnswer DEF AnsweredStep
<1>3. Head(replies).ok /\ Booted
  BY <1>1, FirstAnswer
<1>4. queue = <<>> /\ replies' = <<>> /\ Settled = db
  BY <1>1, <1>2, LastReply
<1>5. CASE Bidding(o) /\ ops[o].kind = "bid"
  <2>1. ops' = [ops EXCEPT ![o].step = "read"] /\ FetchLoads(o)
    BY <1>2, <1>3, <1>5 DEF BidsWritten
  <2>2. ops' = [ops EXCEPT ![o].step = "read"] /\ InFlight = {o} /\ "read" \notin Ended
    BY <1>2, <2>1 DEF Ended
  <2>3. ops'[o].step = "read" /\ InFlight' = {o}
    BY <2>2, HandlerGoesOn
  <2>4. QED
    BY <1>1, <1>2, <1>3, <1>4, <2>1, <2>3, ReadsNext
<1>6. CASE Bidding(o) /\ ops[o].kind = "bidByName"
  <2>1. ops' = [ops EXCEPT ![o].step = "done"] /\ UNCHANGED queue
    BY <1>2, <1>3, <1>6 DEF BidsWritten
  <2>2. InFlight' = {}
    BY <1>2, <2>1, HandlerEnds DEF Ended
  <2>3. Shows(mem, db)
    BY <1>4, <1>6 DEF Bidding
  <2>4. Shows(mem, db)' /\ NoTasks'
    BY <1>1, <1>2, <2>3 DEF Shows, SamePost, SameBids, NoTasks
  <2>5. QED
    BY <1>1, <1>3, <1>4, <2>1, <2>2, <2>4, Rests
<1>7. CASE Judging(o)
  <2>1. ops[o].index <= Len(mem) /\ ~(ops[o].index > Len(mem))
    <3>1. mem \in Seq(GoodPost) /\ ops[o].index \in DOMAIN mem
      BY <1>7 DEF Judging, Held1, IInv, GoodMem
    <3>2. Len(mem) \in Nat /\ ops[o].index \in 1..Len(mem)
      BY <3>1, LenProperties
    <3>3. QED
      BY <3>2
  <2>2. /\ ops' = [ops EXCEPT ![o].step = "writeLoad"]
        /\ Call(o, "updateLoad", ToRow(mem[ops[o].index]))
    BY <1>2, <1>3, <1>7, <2>1 DEF BidsWritten, Judging
  <2>3. ops' = [ops EXCEPT ![o].step = "writeLoad"] /\ InFlight = {o} /\ "writeLoad" \notin Ended
    BY <1>2, <2>2 DEF Ended
  <2>4. /\ ops'[o].step = "writeLoad" /\ ops'[o].kind = ops[o].kind /\ InFlight' = {o}
        /\ ops'[o].load = ops[o].load /\ ops'[o].who = ops[o].who
        /\ ops'[o].verdict = ops[o].verdict
    BY <2>3, HandlerGoesOn
  <2>5. ops'[o].kind = "respond"
    BY <1>7, <2>4 DEF Judging
  <2>6. QED
    BY <1>1, <1>2, <1>3, <1>4, <1>7, <2>2, <2>4, <2>5, DecidesNext
<1>8. QED
  BY <1>2, <1>5, <1>6, <1>7 DEF Bidding

LEMMA LoadWrittenSerial ==
    ASSUME Held1, LoadWritten
    PROVE  SerialInv'
<1>1. /\ Resumed("updateLoad") /\ replies # <<>> /\ replies' = Tail(replies)
      /\ UNCHANGED <<mem, lists, tasks, boot, db>>
  BY DEF LoadWritten, Resumed, memory, outside
<1>2. PICK o \in OpIds : /\ InFlight = {o} /\ Head(replies).owner = o
                         /\ Deciding(o) \/ Replying(o)
                         /\ Answers(o, "updateLoad") /\ NoTasks
  BY <1>1, FirstAnswer DEF AnsweredStep
<1>3. Head(replies).ok /\ Booted
  BY <1>1, FirstAnswer
<1>4. queue = <<>> /\ replies' = <<>> /\ Settled = db
  BY <1>1, <1>2, LastReply
<1>5. CASE Deciding(o)
  <2>1. ops' = [ops EXCEPT ![o].step = "read"] /\ FetchLoads(o)
    BY <1>2, <1>3, <1>5 DEF LoadWritten, Deciding
  <2>2. ops' = [ops EXCEPT ![o].step = "read"] /\ InFlight = {o} /\ "read" \notin Ended
    BY <1>2, <2>1 DEF Ended
  <2>3. ops'[o].step = "read" /\ InFlight' = {o}
    BY <2>2, HandlerGoesOn
  <2>4. QED
    BY <1>1, <1>2, <1>3, <1>4, <2>1, <2>3, ReadsNext
<1>6. CASE Replying(o)
  <2>1. ops' = [ops EXCEPT ![o].step = "done"] /\ UNCHANGED queue
    BY <1>2, <1>3, <1>6 DEF LoadWritten, Replying
  <2>2. InFlight' = {}
    BY <1>2, <2>1, HandlerEnds DEF Ended
  <2>3. Shows(mem, db)
    BY <1>4, <1>6 DEF Replying
  <2>4. Shows(mem, db)' /\ NoTasks'
    BY <1>1, <1>2, <2>3 DEF Shows, SamePost, SameBids, NoTasks
  <2>5. QED
    BY <1>1, <1>3, <1>4, <2>1, <2>2, <2>4, Rests
<1>7. QED
  BY <1>2, <1>5, <1>6

-----------------------------------------------------------------------------
(* The carrier's answer. *)

LEMMA OpenDialogSerial ==
    ASSUME Held1, NEW l \in Loads, NEW kind \in {"confirm", "decline"}, OpenDialog(l, kind)
    PROVE  SerialInv'
<1> DEFINE op == Handler(kind, "dialog", l, user)
           i == IndexOf(mem, l)
<1>1. op.step = "dialog" /\ op.kind = kind /\ op.load = l /\ op.who = user
  BY HandlerIs
<1> HIDE DEF op, i
<1>2. /\ CanStart(kind) /\ StartOp(op) /\ AtBoard /\ user \in Carriers
      /\ UNCHANGED <<mem, lists, tasks, boot, replies, queue, db>>
  BY DEF OpenDialog, op, memory, outside
<1>3. PICK o \in OpIds : o = started + 1 /\ ops'[o] = op /\ InFlight' = {o}
  BY <1>1, <1>2, HandlerStarts DEF Ended
<1>4. Resting
  BY <1>1, <1>2, HandlerStarts DEF Ended
<1>5. Booted /\ Shows(mem, db) /\ queue = <<>> /\ replies = <<>> /\ NoTasks
  BY <1>2, <1>4, BoardAtRest
<1>6. OffersAnswer(l)
  BY <1>4 DEF OpenDialog, Resting
<1>7. mem[i].id = l /\ i \in DOMAIN mem /\ mem[i].status = "awaiting" /\ mem[i].selected = user
  <2>1. mem \in Seq(GoodPost) /\ Has(mem, l)
    BY <1>6 DEF OffersAnswer, Held1, IInv, GoodMem
  <2>2. i \in 1..Len(mem) /\ DOMAIN mem = 1..Len(mem) /\ mem[i].id = l
    BY <2>1, IndexOfSpec, LenProperties DEF i
  <2>3. QED
    BY <1>6, <2>2 DEF OffersAnswer, i
<1>8. AwaitedBy(db, l, user)
  BY <1>5, <1>7 DEF AwaitedBy, Shows, SamePost, SameStage
<1>9. Shows(mem, db)' /\ NoTasks' /\ NothingPending'
  BY <1>2, <1>5 DEF Shows, SamePost, SameBids, NoTasks, NothingPending
<1>10. AwaitedBy(db, ops[o].load, ops[o].who)'
  BY <1>1, <1>2, <1>3, <1>8
<1>11. Asking(o)'
  BY <1>1, <1>2, <1>3, <1>9, <1>10 DEF Asking
<1>12. QED
  BY <1>2, <1>3, <1>5, <1>11, StillSerial DEF Working

LEMMA DialogIsOpen ==
    ASSUME Held1, NEW o \in OpIds, ops[o].step = "dialog"
    PROVE  InFlight = {o} /\ Asking(o) /\ Booted
<1>1. o \in InFlight
  BY DEF InFlight
<1>2. InFlight = {o} /\ Working(o)
  BY <1>1 DEF Held1, SerialInv, Resting
<1>3. Asking(o)
  BY <1>2 DEF Working, LoggingIn, Reading, Inserting, Erasing, Bidding, Judging, Deciding,
     Replying, Measuring
<1>4. QED
  BY <1>1, <1>2, <1>3 DEF Held1, SerialInv, BootFirst

LEMMA DialogCloses ==
    ASSUME Held1, NEW o \in OpIds, ops[o].step = "dialog",
           ops' = [ops EXCEPT ![o].step = "aborted"],
           UNCHANGED <<mem, lists, tasks, db, queue, replies, boot>>
    PROVE  SerialInv'
<1>1. InFlight = {o} /\ Asking(o) /\ Booted
  BY DialogIsOpen
<1>2. InFlight' = {}
  BY <1>1, HandlerEnds DEF Ended
<1>3. Shows(mem, db)' /\ NoTasks' /\ queue' = <<>> /\ replies' = <<>>
  BY <1>1 DEF Asking, NothingPending, Shows, SamePost, SameBids, NoTasks
<1>4. QED
  BY <1>1, <1>2, <1>3, Rests

LEMMA CancelDialogSerial ==
    ASSUME Held1, NEW o \in OpIds, CancelDialog(o)
    PROVE  SerialInv'
BY DialogCloses DEF CancelDialog, memory, outside

(* The answer is in the list and on its way to the table. *)
LEMMA ShowsAnswer ==
    ASSUME Held1, NEW l \in Loads, Shows(mem, db), IndexOf(mem, l) # 0, NEW kind,
           NEW req \in GoodRequest, req.call = "updateLoad",
           req.row = ToRow(Answered(mem[IndexOf(mem, l)], kind)),
           mem' = [mem EXCEPT ![IndexOf(mem, l)] = Answered(mem[IndexOf(mem, l)], kind)]
    PROVE  /\ Shows(mem', Written(db, req))
           /\ req.row.id = l
           /\ req.row.status = Outcome(kind)
           /\ \E j \in DOMAIN db : db[j].id = l /\ req.row.selected = db[j].selected
<1> DEFINE i == IndexOf(mem, l)
           post == Answered(mem[i], kind)
           row == req.row
           w == Written(db, req)
<1>1. mem \in Seq(GoodPost) /\ db \in Seq(GoodRow)
  BY DEF Held1, IInv, GoodMem, GoodDb
<1>2. i \in DOMAIN mem /\ mem[i].id = l /\ mem[i] \in Post
  <2>1. i \in 1..Len(mem) /\ DOMAIN mem = 1..Len(mem) /\ mem[i].id = l
    BY <1>1, IndexOfSpec, LenProperties
  <2>2. QED
    BY <1>1, <2>1, ElementOfSeq DEF GoodPost
<1>3. /\ DOMAIN mem = DOMAIN db /\ \A k \in DOMAIN mem : mem[k].id = db[k].id
      /\ UniqueAt(mem, l)
      /\ Len(mem) = Len(db)
  <2>1. UniqueAt(db, l)
    BY DEF Held1, ListInv, Unique
  <2>2. Aligned(mem, db) /\ Len(mem) = Len(db)
    BY DEF Shows, Aligned
  <2>3. /\ DOMAIN mem = DOMAIN db /\ \A k \in DOMAIN mem : mem[k].id = db[k].id
        /\ \A k : UniqueAt(mem, k) <=> UniqueAt(db, k)
    BY <1>1, <2>2, AlignedIds
  <2>4. QED
    BY <2>1, <2>2, <2>3
<1>4. /\ Len(w) = Len(db) /\ DOMAIN w = DOMAIN db
      /\ \A j \in DOMAIN db : /\ w[j].id = db[j].id
                              /\ w[j] = IF db[j].id = row.id THEN row ELSE db[j]
  BY <1>1, WrittenRows
<1>5. /\ post.id = l /\ post.list = mem[i].list /\ post.selected = mem[i].selected
      /\ post.status = Outcome(kind)
  BY <1>2 DEF Answered, Post, Outcome
<1>6. row = ToRow(post) /\ mem' = [mem EXCEPT ![i] = post]
  OBVIOUS
<1> HIDE DEF i, post, row, w
<1>7. row.id = l /\ row.status = Outcome(kind) /\ row.selected = mem[i].selected
  BY <1>5, <1>6 DEF ToRow
<1>8. /\ mem' \in Seq(GoodPost) /\ DOMAIN mem' = DOMAIN mem /\ mem'[i] = post
      /\ \A k \in DOMAIN mem : k # i => mem'[k] = mem[k]
  BY <1>2, <1>6 DEF Held1, IInv, GoodMem
<1>9. Aligned(mem', w)
  <2>1. Len(mem') = Len(mem)
    BY <1>1, <1>8, LenProperties
  <2>2. \A k \in DOMAIN mem : mem'[k].id = mem[k].id
    BY <1>2, <1>5, <1>8
  <2>3. QED
    BY <1>3, <1>4, <2>1, <2>2 DEF Aligned
<1>10. SamePost(post, row)
  <2>1. SamePost(mem[i], db[i])
    BY <1>2, <1>3 DEF Shows
  <2>2. "bidByName" \notin Buttons => SameBids(post, db[i])
    BY <1>2, <1>5, <2>1 DEF SamePost, SameBids
  <2>3. QED
    BY <1>6, <2>2, SameAsRow
<1>11. ASSUME NEW a \in DOMAIN mem', NEW b \in DOMAIN w, mem'[a].id = w[b].id
       PROVE  SamePost(mem'[a], w[b])
  <2>1. a \in DOMAIN mem /\ b \in DOMAIN db /\ w[b].id = db[b].id
    BY <1>4, <1>8, <1>11
  <2>2. CASE a = i
    <3>1. db[b].id = row.id
      BY <1>5, <1>7, <1>8, <1>11, <2>1, <2>2
    <3>2. w[b] = row
      BY <1>4, <2>1, <3>1
    <3>3. QED
      BY <1>8, <1>10, <2>2, <3>2
  <2>3. CASE a # i
    <3>1. mem'[a] = mem[a] /\ mem[a].id # l
      BY <1>2, <1>3, <1>8, <2>1, <2>3 DEF UniqueAt
    <3>2. db[b].id # row.id
      BY <1>7, <1>11, <2>1, <3>1
    <3>3. w[b] = db[b]
      BY <1>4, <2>1, <3>2
    <3>4. QED
      BY <1>11, <2>1, <3>1, <3>3 DEF Shows
  <2>4. QED
    BY <2>2, <2>3
<1>12. Shows(mem', w)
  BY <1>9, <1>11 DEF Shows
<1>13. i \in DOMAIN db /\ db[i].id = l /\ row.selected = db[i].selected
  BY <1>2, <1>3, <1>7 DEF Shows, SamePost, SameStage
<1>14. QED
  BY <1>7, <1>12, <1>13 DEF i, w, row

LEMMA SubmitSerial ==
    ASSUME Held1, NEW o \in OpIds, Submit(o)
    PROVE  SerialInv'
<1> DEFINE l == ops[o].load
           i == IndexOf(mem, l)
           kind == ops[o].kind
           post == Answered(mem[i], kind)
<1>1. /\ ops[o].step = "dialog"
      /\ UNCHANGED <<lists, tasks, db, replies, boot>>
  BY DEF Submit, outside
<1>2. InFlight = {o} /\ Asking(o) /\ Booted
  BY <1>1, DialogIsOpen
<1>3. CASE i = 0
  BY <1>1, <1>3, DialogCloses DEF Submit
<1>4. CASE i # 0
  <2>1. /\ mem' = [mem EXCEPT ![i] = post]
        /\ ops' = [ops EXCEPT ![o].step = "writeLoad"]
        /\ Call(o, "updateLoad", ToRow(post))
    BY <1>4 DEF Submit
  <2>2. ops' = [ops EXCEPT ![o].step = "writeLoad"] /\ "writeLoad" \notin Ended
    BY <2>1 DEF Ended
  <2>3. /\ ops'[o].step = "writeLoad" /\ ops'[o].kind = kind /\ InFlight' = {o}
        /\ ops'[o].load = l /\ ops'[o].who = ops[o].who
    BY <1>2, <2>2, HandlerGoesOn
  <2>4. /\ queue = <<>> /\ replies = <<>> /\ NoTasks /\ Shows(mem, db)
        /\ AwaitedBy(db, l, ops[o].who) /\ ops[o].who \in Carriers
        /\ kind \in {"confirm", "decline"}
    BY <1>2 DEF Asking, NothingPending
  <2>5. Waits(o, "updateLoad")' /\ queue'[1].row = ToRow(post)
    BY <1>1, <2>1, <2>4, CallWaits
  <2>6. queue'[1] \in GoodRequest /\ Settled' = Written(db, queue'[1])
    BY <1>1, <2>5, WaitingCall
  <2>7. queue'[1].call = "updateLoad"
    BY <2>5 DEF Waits
  <2>8. l \in Loads
    BY DEF Held1, IInv, GoodOps, Op
  <2>9. /\ Shows(mem', Written(db, queue'[1]))
        /\ queue'[1].row.id = l
        /\ queue'[1].row.status = Outcome(kind)
        /\ \E j \in DOMAIN db : db[j].id = l /\ queue'[1].row.selected = db[j].selected
    <3>1. /\ IndexOf(mem, l) # 0
          /\ queue'[1].row = ToRow(Answered(mem[IndexOf(mem, l)], kind))
          /\ mem' = [mem EXCEPT ![IndexOf(mem, l)] = Answered(mem[IndexOf(mem, l)], kind)]
      BY <1>4, <2>1, <2>5
    <3> HIDE DEF l, i, kind, post
    <3>2. QED
      BY <2>4, <2>6, <2>7, <2>8, <3>1, ShowsAnswer
  <2>10. queue'[1].row.selected = ops[o].who
    BY <2>4, <2>9 DEF AwaitedBy
  <2> HIDE DEF post, i
  <2>11. Shows(mem, Settled)'
    BY <1>1, <2>6, <2>9 DEF Shows, SamePost, SameBids
  <2>12. AwaitedBy(db, ops[o].load, ops[o].who)'
    BY <1>1, <2>3, <2>4
  <2>13. NoTasks'
    BY <1>1, <2>4 DEF NoTasks
  <2>14. Replying(o)'
    BY <2>3, <2>4, <2>5, <2>9, <2>10, <2>11, <2>12, <2>13 DEF Replying, OneCallOf
  <2>15. QED
    BY <1>1, <1>2, <2>3, <2>14, StillSerial DEF Working
<1>5. QED
  BY <1>3, <1>4

-----------------------------------------------------------------------------
(* The fetch and its distance lookups. *)

LEMMA UniqueIndex ==
    ASSUME NEW S, NEW s \in Seq(S), NEW i \in DOMAIN s, UniqueAt(s, s[i].id)
    PROVE  IndexOf(s, s[i].id) = i
<1> DEFINE l == s[i].id
<1>1. Has(s, l) /\ DOMAIN s = 1..Len(s) /\ Len(s) \in Nat
  BY LenProperties DEF Has
<1> HIDE DEF l
<1>2. IndexOf(s, l) \in DOMAIN s /\ s[IndexOf(s, l)].id = l
  BY <1>1, IndexOfSpec
<1>3. QED
  BY <1>2 DEF UniqueAt, l

LEMMA RowsOnce ==
    ASSUME Held1
    PROVE  /\ db \in Seq(GoodRow)
           /\ \A i \in DOMAIN db : db[i].id \in Loads
           /\ \A l \in Loads : UniqueAt(db, l)
<1>1. db \in Seq(GoodRow)
  BY DEF Held1, IInv, GoodDb
<1>2. \A i \in DOMAIN db : db[i].id \in Loads
  BY <1>1, LenProperties, ElementOfSeq DEF GoodRow, Row
<1>3. QED
  BY <1>1, <1>2 DEF Held1, ListInv, Unique

LEMMA NothingInPipe ==
    ASSUME PipeFacts', queue' = <<>>, replies' = <<>>
    PROVE  DOMAIN Pipe' = {} /\ DOMAIN queue' = {}
<1>1. Len(replies') = 0 /\ Len(queue') = 0
  BY EmptySeq
<1>2. QED
  BY <1>1 DEF PipeFacts, PipeSizes

LEMMA PipeLoads ==
    ASSUME PipeFacts, NEW p \in DOMAIN Pipe
    PROVE  Pipe[p].load \in Loads
<1>1. CASE p \in DOMAIN replies
  <2>1. Pipe[p] = [call |-> replies[p].call, owner |-> replies[p].owner,
                   load |-> replies[p].load]
    BY <1>1 DEF PipeFacts, ExecutedFirst
  <2>2. QED
    BY <1>1, <2>1 DEF PipeFacts, PipeTypes
<1>2. CASE p \notin DOMAIN replies
  <2> DEFINE i == p - Len(replies)
  <2>1. i \in DOMAIN queue /\ p = Len(replies) + i
    BY <1>2 DEF PipeFacts, PipeSizes
  <2> HIDE DEF i
  <2>2. Pipe[p] = [call |-> queue[i].call, owner |-> queue[i].owner,
                   load |-> queue[i].row.id]
    BY <2>1 DEF PipeFacts, WaitingNext
  <2>3. QED
    BY <2>1, <2>2 DEF PipeFacts, PipeTypes
<1>3. QED
  BY <1>1, <1>2

(* A fetch of the table puts the table on the board. *)
LEMMA FetchShows ==
    ASSUME Held1, NEW o \in OpIds, mem' = Fetched(db, o), UNCHANGED db,
           lists' = [lists EXCEPT ![o] =
              [l \in Loads |-> IF Has(db, l) THEN ParseBids(db[IndexOf(db, l)].bids)
                               ELSE NoBids]]
    PROVE  /\ Shows(mem, db)'
           /\ \A l \in Loads :
                 Has(db, l) => Captured(l, FromRow(db[IndexOf(db, l)], o))'
<1>1. /\ db \in Seq(GoodRow)
      /\ \A i \in DOMAIN db : db[i].id \in Loads
      /\ \A l \in Loads : UniqueAt(db, l)
  BY RowsOnce
<1>2. DOMAIN mem' = DOMAIN db /\ \A i \in DOMAIN db : mem'[i] = FromRow(db[i], o)
  BY DEF Fetched
<1>3. \A i \in DOMAIN db : mem'[i].id = db[i].id
  BY <1>2 DEF FromRow
<1>4. \A i \in DOMAIN db : IndexOf(db, db[i].id) = i /\ Has(db, db[i].id)
  BY <1>1, UniqueIndex DEF Has
<1>5. Aligned(mem, db)'
  <2>1. mem' \in Seq(GoodPost)
    BY DEF Held1, IInv, GoodMem
  <2>2. Len(mem') = Len(db)
    BY <1>1, <1>2, <2>1, LenProperties
  <2>3. QED
    BY <1>3, <2>2 DEF Aligned
<1>6. ASSUME NEW i \in DOMAIN mem', NEW j \in DOMAIN db', mem'[i].id = db'[j].id
      PROVE  SamePost(mem[i], db[j])'
  <2>1. i = j /\ i \in DOMAIN db
    BY <1>1, <1>2, <1>3, <1>6 DEF UniqueAt
  <2>2. mem'[i] = FromRow(db[i], o)
    BY <1>2, <2>1
  <2>3. /\ mem'[i].status = db[i].status /\ mem'[i].selected = db[i].selected
        /\ mem'[i].list = o /\ mem'[i].id = db[i].id
    BY <2>2 DEF FromRow
  <2>4. lists'[o][db[i].id] = ParseBids(db[i].bids)
    <3>1. lists'[o] = [l \in Loads |-> IF Has(db, l)
                                       THEN ParseBids(db[IndexOf(db, l)].bids)
                                       ELSE NoBids]
      BY DEF Held1, IInv, GoodLists
    <3>2. QED
      BY <1>1, <1>4, <2>1, <3>1
  <2>5. QED
    BY <2>1, <2>3, <2>4 DEF SamePost, SameStage, SameBids
<1>7. ASSUME NEW l \in Loads, Has(db, l)
      PROVE  Captured(l, FromRow(db[IndexOf(db, l)], o))'
  <2> DEFINE n == IndexOf(db, l)
  <2>1. n \in DOMAIN db /\ db[n].id = l
    BY <1>1, <1>7, IndexOfSpec, LenProperties
  <2>2. \A i \in DOMAIN db : db[i].id = l => i = n
    BY <1>4
  <2> HIDE DEF n
  <2>3. FromRow(db[n], o).id = l
    BY <2>1 DEF FromRow
  <2>4. \A i \in DOMAIN mem' : mem'[i].id = l => mem'[i] = FromRow(db[n], o)
    BY <1>2, <1>3, <2>2
  <2>5. QED
    BY <2>3, <2>4 DEF Captured, n
<1>8. QED
  BY <1>5, <1>6, <1>7 DEF Shows

LEMMA LoadsReadSerial ==
    ASSUME Held1, LoadsRead
    PROVE  SerialInv'
<1>1. /\ Resumed("getLoads") /\ replies # <<>> /\ replies' = Tail(replies)
      /\ UNCHANGED <<queue, boot, db>>
  BY DEF LoadsRead, Resumed, outside
<1>2. PICK o \in OpIds : /\ InFlight = {o} /\ Head(replies).owner = o /\ Reading(o)
                         /\ Answers(o, "getLoads") /\ NoTasks
  BY <1>1, FirstAnswer DEF AnsweredStep
<1>3. Head(replies).ok /\ Booted /\ replies[1] = Head(replies)
  BY <1>1, FirstAnswer
<1>4. queue = <<>> /\ replies' = <<>>
  BY <1>1, <1>2, LastReply
<1>5. Head(replies).rows = db
  BY <1>2, <1>3 DEF Reading
<1> DEFINE LooksUp(l) == Has(db, l) /\ l \in Addressed \ cache
<1>6. /\ mem' = Fetched(db, o)
      /\ lists' = [lists EXCEPT ![o] =
            [l \in Loads |-> IF Has(db, l) THEN ParseBids(db[IndexOf(db, l)].bids)
                             ELSE NoBids]]
      /\ tasks' = [tasks EXCEPT ![o] =
            [l \in Loads |->
               IF LooksUp(l)
               THEN [step |-> "route", post |-> FromRow(db[IndexOf(db, l)], o)]
               ELSE NoTask(l)]]
      /\ ops' = [ops EXCEPT ![o].step =
                   IF \E l \in Loads : LooksUp(l) THEN "distances" ELSE "done"]
  BY <1>2, <1>3, <1>5 DEF LoadsRead
<1>7. /\ Shows(mem, db)'
      /\ \A l \in Loads : Has(db, l) => Captured(l, FromRow(db[IndexOf(db, l)], o))'
  BY <1>1, <1>6, FetchShows
<1>8. /\ \A p \in OpIds : p # o => tasks'[p] = tasks[p]
      /\ \A l \in Loads : tasks'[o][l] = IF LooksUp(l)
               THEN [step |-> "route", post |-> FromRow(db[IndexOf(db, l)], o)]
               ELSE NoTask(l)
  BY <1>6 DEF Held1, IInv, GoodTasks
<1>9. \A l \in Loads : NoTask(l).step = "none"
  BY DEF NoTask
<1>10. CASE \E l \in Loads : LooksUp(l)
  <2>1. ops' = [ops EXCEPT ![o].step = "distances"] /\ InFlight = {o} /\ "distances" \notin Ended
    BY <1>2, <1>6, <1>10 DEF Ended
  <2>2. ops'[o].step = "distances" /\ InFlight' = {o}
    BY <2>1, HandlerGoesOn
  <2>3. DOMAIN Pipe' = {} /\ DOMAIN queue' = {}
    BY <1>1, <1>4, Ready, NothingInPipe DEF Held1, Before
  <2>4. ASSUME NEW p \in OpIds, NEW l \in Loads, tasks'[p][l].step # "none"
        PROVE  p = o /\ Captured(l, tasks[p][l].post)'
    <3>1. p = o
      BY <1>2, <1>8, <2>4 DEF NoTasks
    <3>2. LooksUp(l)
      BY <1>8, <1>9, <2>4, <3>1
    <3> HIDE DEF LooksUp
    <3>3. tasks'[o][l].post = FromRow(db[IndexOf(db, l)], o)
      <4>1. tasks'[o][l] = [step |-> "route", post |-> FromRow(db[IndexOf(db, l)], o)]
        BY <1>8, <3>2
      <4>2. QED
        BY <4>1
    <3>4. Has(db, l)
      BY <3>2 DEF LooksUp
    <3>5. QED
      BY <1>1, <1>7, <3>1, <3>3, <3>4 DEF Captured
  <2>5. Measuring(o)'
    BY <1>7, <2>2, <2>3, <2>4 DEF Measuring
  <2>6. QED
    BY <1>1, <1>3, <2>2, <2>5, StillSerial DEF Working
<1>11. CASE ~\E l \in Loads : LooksUp(l)
  <2>1. ops' = [ops EXCEPT ![o].step = "done"] /\ InFlight = {o} /\ "done" \in Ended
    BY <1>2, <1>6, <1>11 DEF Ended
  <2>2. InFlight' = {}
    BY <2>1, HandlerEnds
  <2> HIDE DEF LooksUp
  <2>3. NoTasks'
    <3>1. \A l \in Loads : tasks'[o][l] = NoTask(l)
      BY <1>8, <1>11
    <3>2. QED
      BY <1>2, <1>8, <1>9, <3>1 DEF NoTasks
  <2>4. QED
    BY <1>1, <1>3, <1>4, <1>7, <2>2, <2>3, Rests
<1>12. QED
  BY <1>10, <1>11

LEMMA OpenDetailsSerial ==
    ASSUME Held1, NEW l \in Loads, OpenDetails(l)
    PROVE  SerialInv'
<1> DEFINE op == Handler("details", "distances", l, user)
           i == IndexOf(mem, l)
<1>1. op.step = "distances"
  BY HandlerIs
<1> HIDE DEF op
<1>2. /\ CanStart("details") /\ StartOp(op) /\ AtBoard /\ Has(mem, l)
      /\ tasks' = [tasks EXCEPT ![started + 1][l] = [step |-> "route", post |-> mem[i]]]
      /\ UNCHANGED <<mem, lists, db, boot, queue, replies>>
  BY DEF OpenDetails, op, outside
<1>3. PICK o \in OpIds : o = started + 1 /\ ops'[o] = op /\ InFlight' = {o}
  BY <1>1, <1>2, HandlerStarts DEF Ended
<1>4. Resting
  BY <1>1, <1>2, HandlerStarts DEF Ended
<1>5. Booted /\ Shows(mem, db) /\ queue = <<>> /\ replies = <<>> /\ NoTasks
  BY <1>2, <1>4, BoardAtRest
<1>6. mem \in Seq(GoodPost) /\ db \in Seq(GoodRow) /\ UniqueAt(db, l)
  BY RowsOnce DEF Held1, IInv, GoodMem
<1>7. UniqueAt(mem, l)
  <2>1. Aligned(mem, db)
    BY <1>5 DEF Shows
  <2>2. QED
    BY <1>6, <2>1, AlignedIds
<1>8. i \in DOMAIN mem /\ mem[i].id = l
  BY <1>2, <1>6, IndexOfSpec, LenProperties
<1>9. DOMAIN Pipe' = {} /\ DOMAIN queue' = {}
  BY <1>2, <1>5, Ready, NothingInPipe DEF Held1, Before
<1> HIDE DEF i
<1>10. Captured(l, mem[i])
  BY <1>7, <1>8 DEF Captured, UniqueAt
<1>11. /\ tasks'[o][l].post = mem[i]
       /\ \A p \in OpIds, k \in Loads : p # o \/ k # l => tasks'[p][k] = tasks[p][k]
  BY <1>2, <1>3 DEF Held1, IInv, GoodTasks
<1>12. ASSUME NEW p \in OpIds, NEW k \in Loads, tasks'[p][k].step # "none"
       PROVE  p = o /\ Captured(k, tasks[p][k].post)'
  <2>1. p = o /\ k = l
    BY <1>5, <1>11, <1>12 DEF NoTasks
  <2>2. QED
    BY <1>2, <1>10, <1>11, <2>1 DEF Captured
<1>13. Shows(mem, db)'
  BY <1>2, <1>5 DEF Shows, SamePost, SameBids
<1>14. Measuring(o)'
  BY <1>1, <1>3, <1>9, <1>12, <1>13 DEF Measuring
<1>15. QED
  BY <1>2, <1>3, <1>5, <1>14, StillSerial DEF Working

(* A lookup that runs is one of the measuring handler. *)
LEMMA LookupRuns ==
    ASSUME Held1, NEW o \in OpIds, NEW l \in Loads, tasks[o][l].step # "none"
    PROVE  InFlight = {o} /\ Measuring(o) /\ Booted
<1>1. ~NoTasks
  BY DEF NoTasks
<1>2. PICK p \in OpIds : InFlight = {p} /\ Working(p)
  BY <1>1 DEF Held1, SerialInv, Resting
<1>3. Measuring(p)
  BY <1>1, <1>2 DEF Working, Asking, LoggingIn, Reading, Inserting, Erasing, Bidding, Judging,
     Deciding, Replying
<1>4. p = o
  BY <1>3 DEF Measuring
<1>5. QED
  BY <1>2, <1>3, <1>4 DEF Held1, ListInv, BootsAlone

LEMMA RouteFoundSerial ==
    ASSUME Held1, NEW o \in OpIds, NEW l \in Loads, RouteFound(o, l)
    PROVE  SerialInv'
<1> DEFINE post == tasks[o][l].post
           row == ToRow(post)
<1>1. /\ tasks[o][l].step = "route"
      /\ tasks' = [tasks EXCEPT ![o][l].step = "save"]
      /\ Call(o, "saveDistance", row)
      /\ UNCHANGED <<mem, lists, ops, db, replies, boot>>
  BY DEF RouteFound, outside
<1>2. InFlight = {o} /\ Measuring(o) /\ Booted
  BY <1>1, LookupRuns
<1>3. Captured(l, post)
  BY <1>1, <1>2 DEF Measuring
<1>4. row.id = l
  BY <1>3 DEF Captured, ToRow
<1>5. /\ tasks'[o][l].step = "save"
      /\ \A p \in OpIds, k \in Loads :
            /\ tasks'[p][k].post = tasks[p][k].post
            /\ p # o \/ k # l => tasks'[p][k] = tasks[p][k]
  BY <1>1 DEF Held1, IInv, GoodTasks, GoodTask
<1> HIDE DEF post, row
<1>6. PipeFacts /\ PipeFacts' /\ GoodQueue /\ RepliesMoved(0)
  BY <1>1, Ready, RepliesTaken DEF Held1, Before, IInv
<1>7. ASSUME NEW p \in DOMAIN Pipe'
      PROVE  \/ p \in DOMAIN Pipe /\ Pipe'[p] = Pipe[p] /\ Pipe[p].load # l
             \/ /\ p = Len(replies) + Len(queue) + 1
                /\ Pipe'[p] = [call |-> "saveDistance", owner |-> o, load |-> l]
  <2>1. p \in Nat
    BY <1>6 DEF PipeFacts, PipeSizes
  <2>2. \/ p \in DOMAIN Pipe /\ Pipe'[p] = Pipe[p]
        \/ /\ p = Len(replies) + Len(queue) + 1
           /\ Pipe'[p] = [call |-> "saveDistance", owner |-> o, load |-> l]
    BY <1>1, <1>4, <1>6, <2>1, PipeCalled DEF Moved
  <2>3. p \in DOMAIN Pipe => Pipe[p].load # l
    BY <1>1, <1>2 DEF Measuring
  <2>4. QED
    BY <2>2, <2>3
<1>8. \A p \in DOMAIN Pipe : Pipe[p].load \in Loads
  BY <1>6, PipeLoads
<1>9. ASSUME NEW p \in DOMAIN Pipe'
      PROVE  /\ Pipe'[p].call = "saveDistance" /\ Pipe'[p].owner = o
             /\ tasks'[o][Pipe'[p].load].step = "save"
  <2>1. CASE p \in DOMAIN Pipe /\ Pipe'[p] = Pipe[p] /\ Pipe[p].load # l
    BY <1>2, <1>5, <1>8, <2>1 DEF Measuring
  <2>2. CASE Pipe'[p] = [call |-> "saveDistance", owner |-> o, load |-> l]
    BY <1>5, <2>2
  <2>3. QED
    BY <1>7, <2>1, <2>2
<1>10. ASSUME NEW p \in DOMAIN Pipe', NEW q \in DOMAIN Pipe', Pipe'[p].load = Pipe'[q].load
       PROVE  p = q
  <2>1. CASE p \in DOMAIN Pipe /\ Pipe'[p] = Pipe[p] /\ Pipe[p].load # l
    BY <1>2, <1>7, <1>10, <2>1 DEF Measuring
  <2>2. CASE /\ p = Len(replies) + Len(queue) + 1
             /\ Pipe'[p] = [call |-> "saveDistance", owner |-> o, load |-> l]
    BY <1>7, <1>10, <2>2
  <2>3. QED
    BY <1>7, <2>1, <2>2
<1>11. ASSUME NEW i \in DOMAIN queue', NEW k \in DOMAIN mem', mem'[k].id = queue'[i].row.id
       PROVE  queue'[i].row = ToRow(mem[k])'
  <2> DEFINE q == [call |-> "saveDistance", owner |-> o, row |-> row]
  <2>1. q.row = row
    OBVIOUS
  <2>2. \/ i \in DOMAIN queue /\ queue'[i] = queue[i]
        \/ queue'[i] = q
    <3> DEFINE S == GoodRequest \cup {q}
    <3>1. queue \in Seq(S) /\ q \in S
      BY <1>6, SeqMonotonic DEF GoodQueue
    <3>2. queue' = Append(queue, q)
      BY <1>1 DEF Call
    <3> HIDE DEF S, q
    <3>3. Len(queue) \in Nat /\ DOMAIN queue = 1..Len(queue)
      BY <3>1, LenProperties
    <3>4. QED
      BY <3>1, <3>2, <3>3, AppendProperties
  <2> HIDE DEF q
  <2>3. CASE i \in DOMAIN queue /\ queue'[i] = queue[i]
    BY <1>1, <1>2, <1>11, <2>3 DEF Measuring, ToRow
  <2>4. CASE queue'[i] = q
    <3>1. mem[k].id = l /\ k \in DOMAIN mem
      BY <1>1, <1>4, <1>11, <2>1, <2>4
    <3>2. mem[k] = post
      BY <1>3, <3>1 DEF Captured
    <3>3. QED
      BY <1>1, <2>1, <2>4, <3>2 DEF row, ToRow
  <2>5. QED
    BY <2>2, <2>3, <2>4
<1>12. Shows(mem, db)'
  BY <1>1, <1>2 DEF Measuring, Shows, SamePost, SameBids
<1>13. ASSUME NEW p \in OpIds, NEW k \in Loads, tasks'[p][k].step # "none"
       PROVE  p = o /\ Captured(k, tasks[p][k].post)'
  <2>1. tasks[p][k].step # "none"
    BY <1>1, <1>5, <1>13
  <2>2. p = o /\ Captured(k, tasks[p][k].post)
    BY <1>2, <2>1 DEF Measuring
  <2>3. QED
    BY <1>1, <1>5, <2>2 DEF Captured
<1>14. ops'[o].step = "distances" /\ InFlight' = {o}
  BY <1>1, <1>2 DEF Measuring, InFlight
<1>15. Measuring(o)'
  BY <1>9, <1>10, <1>11, <1>12, <1>13, <1>14 DEF Measuring
<1>16. QED
  BY <1>1, <1>2, <1>14, <1>15, StillSerial DEF Working

(* The lookup of a load is over and no call of it is left. *)
LEMMA LookupEnds ==
    ASSUME Held1, Booted, NEW o \in OpIds, InFlight = {o}, Measuring(o),
           NEW l \in Loads, EndTask(o, l), NEW d \in {0, 1}, RepliesMoved(d),
           \A p \in DOMAIN Pipe' : Pipe[p + d].load # l,
           UNCHANGED <<mem, lists, db, queue, boot>>,
           \/ UNCHANGED replies
           \/ replies # <<>> /\ replies' = Tail(replies)
    PROVE  SerialInv'
<1>1. PipeFacts /\ PipeFacts'
  BY Ready DEF Held1, Before
<1>2. \A p \in DOMAIN Pipe' :
         p + d \in DOMAIN Pipe /\ Pipe'[p] = Pipe[p + d] /\ Pipe'[p].load # l
  BY <1>1, PipeKept DEF Moved
<1>3. \A p \in DOMAIN Pipe' :
         /\ Pipe'[p].call = "saveDistance" /\ Pipe'[p].owner = o
         /\ tasks[o][Pipe'[p].load].step = "save"
         /\ Pipe'[p].load \in Loads \ {l}
  BY <1>1, <1>2, PipeLoads DEF Measuring
<1>4. /\ tasks'[o][l].step = "none"
      /\ \A p \in OpIds, k \in Loads : p # o \/ k # l => tasks'[p][k] = tasks[p][k]
  BY DEF EndTask, NoTask, Held1, IInv, GoodTasks
<1>5. Shows(mem, db)'
  BY DEF Measuring, Shows, SamePost, SameBids
<1>6. CASE \A k \in Loads \ {l} : tasks[o][k].step = "none"
  <2>1. ops' = [ops EXCEPT ![o].step = "done"] /\ "done" \in Ended
    BY <1>6 DEF EndTask, Ended
  <2>2. InFlight' = {}
    BY <2>1, HandlerEnds
  <2>3. NoTasks'
    BY <1>4, <1>6 DEF NoTasks, Measuring
  <2>4. queue' = <<>> /\ replies' = <<>>
    <3>1. DOMAIN Pipe' = {}
      BY <1>3, <1>6
    <3>2. Len(replies') = 0 /\ Len(queue') = 0
      <4>1. /\ Len(replies') \in Nat /\ Len(queue') \in Nat
            /\ 1..(Len(replies') + Len(queue')) = {}
        BY <1>1, <3>1 DEF PipeFacts, PipeSizes
      <4>2. \A n \in Nat : n # 0 => 1 \in 1..n
        OBVIOUS
      <4>3. Len(replies') + Len(queue') \in Nat
        BY <4>1
      <4>4. Len(replies') + Len(queue') = 0
        BY <4>1, <4>2, <4>3
      <4>5. QED
        BY <4>1, <4>4
    <3>3. QED
      BY <3>2, EmptySeq DEF Held1, IInv, GoodQueue, GoodReplies
  <2>5. QED
    BY <1>5, <2>2, <2>3, <2>4, Rests
<1>7. CASE ~\A k \in Loads \ {l} : tasks[o][k].step = "none"
  <2>1. ops' = ops
    BY <1>7 DEF EndTask
  <2>2. InFlight' = {o} /\ ops'[o].step = "distances"
    BY <2>1 DEF InFlight, Measuring
  <2>3. ASSUME NEW p \in OpIds, NEW k \in Loads, tasks'[p][k].step # "none"
        PROVE  p = o /\ Captured(k, tasks[p][k].post)'
    <3>1. tasks'[p][k] = tasks[p][k]
      BY <1>4, <2>3
    <3>2. p = o /\ Captured(k, tasks[p][k].post)
      BY <2>3, <3>1 DEF Measuring
    <3>3. QED
      BY <3>1, <3>2 DEF Captured
  <2>4. ASSUME NEW p \in DOMAIN Pipe', NEW q \in DOMAIN Pipe', Pipe'[p].load = Pipe'[q].load
        PROVE  p = q
    <3>1. p + d = q + d
      BY <1>2, <2>4 DEF Measuring
    <3>2. DOMAIN Pipe' = 1..(Len(replies') + Len(queue'))
      BY <1>1 DEF PipeFacts, PipeSizes
    <3>3. p \in Nat /\ q \in Nat
      BY <3>2
    <3>4. QED
      BY <3>1, <3>3
  <2>5. \A p \in DOMAIN Pipe' : tasks'[o][Pipe'[p].load].step = "save"
    BY <1>3, <1>4
  <2>6. \A i \in DOMAIN queue', k \in DOMAIN mem' :
           mem'[k].id = queue'[i].row.id => queue'[i].row = ToRow(mem[k])'
    BY DEF Measuring, ToRow
  <2>7. Measuring(o)'
    BY <1>3, <1>5, <2>2, <2>3, <2>4, <2>5, <2>6 DEF Measuring
  <2>8. QED
    BY <2>2, <2>7, StillSerial DEF Working
<1>8. QED
  BY <1>6, <1>7

LEMMA RouteMissingSerial ==
    ASSUME Held1, NEW o \in OpIds, NEW l \in Loads, RouteMissing(o, l)
    PROVE  SerialInv'
<1>1. /\ tasks[o][l].step = "route" /\ EndTask(o, l)
      /\ UNCHANGED <<mem, lists, db, queue, replies, boot>>
  BY DEF RouteMissing, outside
<1>2. InFlight = {o} /\ Measuring(o) /\ Booted
  BY <1>1, LookupRuns
<1>3. RepliesMoved(0) /\ PipeFacts /\ PipeFacts'
  BY <1>1, Ready, RepliesTaken DEF Held1, Before, IInv
<1>4. \A p \in DOMAIN Pipe' : Pipe[p + 0].load # l
  <2>1. \A p \in DOMAIN Pipe' : p + 0 \in DOMAIN Pipe
    BY <1>1, <1>3, PipeKept DEF Moved
  <2>2. QED
    BY <1>1, <1>2, <2>1 DEF Measuring
<1>5. QED
  BY <1>1, <1>2, <1>3, <1>4, LookupEnds

LEMMA DistanceSavedSerial ==
    ASSUME Held1, DistanceSaved
    PROVE  SerialInv'
<1>1. /\ Resumed("saveDistance") /\ EndTask(Head(replies).owner, Head(replies).load)
      /\ replies # <<>> /\ replies' = Tail(replies)
      /\ UNCHANGED <<mem, lists, db, queue, boot>>
  BY DEF DistanceSaved, Resumed, outside
<1>2. PICK o \in OpIds : InFlight = {o} /\ Head(replies).owner = o /\ Measuring(o)
  BY <1>1, FirstAnswer DEF AnsweredStep
<1>3. Booted /\ replies[1] = Head(replies)
  BY <1>1, FirstAnswer
<1>4. RepliesMoved(1) /\ PipeFacts /\ PipeFacts'
  BY <1>1, Ready, RepliesTaken DEF Held1, Before, IInv
<1> DEFINE l == Head(replies).load
<1>5. /\ 1 \in DOMAIN Pipe /\ Pipe[1].load = l /\ l \in Loads
  <2>1. /\ 1 \in DOMAIN Pipe
        /\ Pipe[1] = [call |-> replies[1].call, owner |-> replies[1].owner,
                      load |-> replies[1].load]
    BY <1>4, FirstReply
  <2>2. QED
    BY <1>3, <1>4, <2>1, PipeLoads
<1>6. EndTask(o, l)
  BY <1>1, <1>2
<1> HIDE DEF l
<1>7. ASSUME NEW p \in DOMAIN Pipe' PROVE Pipe[p + 1].load # l
  <2>1. p + 1 \in DOMAIN Pipe /\ p \in Nat /\ p # 0
    BY <1>1, <1>4, PipeKept DEF Moved, PipeFacts, PipeSizes
  <2>2. p + 1 # 1
    BY <2>1
  <2>3. QED
    BY <1>2, <1>5, <2>1, <2>2 DEF Measuring
<1>8. QED
  BY <1>1, <1>2, <1>3, <1>4, <1>5, <1>6, <1>7, LookupEnds

-----------------------------------------------------------------------------
(* The database executes the call. *)

LEMMA CallExecuted ==
    ASSUME Held1, DbExecute
    PROVE  /\ queue # <<>> /\ queue' = Tail(queue) /\ db' = Written(db, Head(queue))
           /\ Head(queue) \in GoodRequest /\ db \in Seq(GoodRow) /\ Booted
           /\ replies' = Append(replies,
                 [call |-> Head(queue).call, owner |-> Head(queue).owner,
                  load |-> Head(queue).row.id, ok |-> TRUE,
                  rows |-> IF Head(queue).call = "getLoads" THEN db ELSE <<>>])
           /\ UNCHANGED <<mem, lists, tasks, ops, user, boot>>
           /\ InFlight' = InFlight
<1>1. Held
  BY HeldReady DEF Held1
<1>2. /\ queue # <<>> /\ queue' = Tail(queue) /\ db' = Written(db, Head(queue))
      /\ replies' = Append(replies,
            [call |-> Head(queue).call, owner |-> Head(queue).owner,
             load |-> Head(queue).row.id, ok |-> TRUE,
             rows |-> IF Head(queue).call = "getLoads" THEN db ELSE <<>>])
      /\ UNCHANGED <<mem, lists, tasks, ops, user, boot>>
  BY DEF DbExecute, memory, outside
<1>3. Head(queue) \in GoodRequest /\ Booted
  BY <1>1, <1>2, FirstCall
<1>4. InFlight' = InFlight
  BY <1>2 DEF InFlight
<1>5. QED
  BY <1>2, <1>3, <1>4 DEF Held1, IInv, GoodDb

LEMMA AnswerArrives ==
    ASSUME Held1, DbExecute, NEW o, NEW call, Waits(o, call)
    PROVE  /\ Answers(o, call)' /\ ~Waits(o, call)'
           /\ Head(queue).call = call /\ Head(queue) = queue[1]
           /\ Settled = db' /\ Settled' = db'
           /\ replies'[1].rows = IF call = "getLoads" THEN db ELSE <<>>
<1> DEFINE r == [call |-> Head(queue).call, owner |-> Head(queue).owner,
                 load |-> Head(queue).row.id, ok |-> TRUE,
                 rows |-> IF Head(queue).call = "getLoads" THEN db ELSE <<>>]
<1>1. /\ queue # <<>> /\ queue' = Tail(queue) /\ db' = Written(db, Head(queue))
      /\ replies' = Append(replies, r)
  BY CallExecuted
<1>2. queue \in Seq(GoodRequest) /\ Len(queue) = 1 /\ replies = <<>>
  BY DEF Waits, Held1, IInv, GoodQueue
<1>3. Head(queue) = queue[1]
  BY <1>1, <1>2, HeadTailProperties
<1>4. queue' = <<>>
  <2>1. queue' \in Seq(GoodRequest) /\ Len(queue') = 0
    BY <1>1, <1>2, HeadTailProperties
  <2>2. QED
    BY <2>1, EmptySeq
<1>5. r.call = call /\ r.owner = o /\ r.rows = IF call = "getLoads" THEN db ELSE <<>>
  BY <1>3 DEF Waits
<1> HIDE DEF r
<1>6. Len(replies') = 1 /\ replies'[1] = r
  BY <1>1, <1>2
<1>7. Answers(o, call)' /\ ~Waits(o, call)'
  BY <1>4, <1>5, <1>6 DEF Answers, Waits
<1>8. Settled = db' /\ Settled' = db'
  BY <1>1, <1>4 DEF Settled
<1>9. QED
  BY <1>3, <1>5, <1>6, <1>7, <1>8 DEF Waits

(* One step of the handler after the other. *)
LEMMA ExecutedWorking ==
    ASSUME Held1, DbExecute, NEW o \in OpIds, NEW call, Waits(o, call),
           LoggingIn(o) \/ Reading(o) \/ Inserting(o) \/ Erasing(o)
           \/ Bidding(o) \/ Judging(o) \/ Deciding(o) \/ Replying(o)
    PROVE  Working(o)'
<1>1. /\ UNCHANGED <<mem, lists, tasks, ops>>
      /\ db' = Written(db, Head(queue))
      /\ Head(queue) \in GoodRequest /\ db \in Seq(GoodRow)
  BY CallExecuted
<1>2. /\ Answers(o, call)' /\ ~Waits(o, call)'
      /\ Head(queue).call = call /\ Head(queue) = queue[1]
      /\ Settled = db' /\ Settled' = db'
      /\ replies'[1].rows = IF call = "getLoads" THEN db ELSE <<>>
  BY AnswerArrives
<1>3. NoTasks'
  BY <1>1 DEF NoTasks, LoggingIn, Reading, Inserting, Erasing, Bidding, Judging, Deciding,
     Replying
<1>4. \A c : OneCallOf(o, c) => c = call
  BY DEF OneCallOf, Waits, Answers
<1>5. \A s : Shows(s, Settled) => Shows(s, Settled)'
  BY <1>1, <1>2 DEF Shows, SamePost, SameBids
<1>6. CASE LoggingIn(o)
  BY <1>1, <1>2, <1>3, <1>4, <1>6 DEF LoggingIn, OneCallOf, Working
<1>7. CASE Reading(o)
  <2>1. call = "getLoads"
    BY <1>4, <1>7 DEF Reading
  <2>2. db' = db
    BY <1>1, <1>2, <2>1, WrittenRows
  <2>3. QED
    BY <1>1, <1>2, <1>3, <1>7, <2>1, <2>2 DEF Reading, OneCallOf, Working
<1>8. CASE Inserting(o)
  <2>1. Shows(Append(mem, ops[o].post), Settled)'
    BY <1>1, <1>2, <1>8 DEF Inserting, Shows, SamePost, SameBids
  <2>2. QED
    BY <1>1, <1>2, <1>3, <1>4, <1>8, <2>1 DEF Inserting, OneCallOf, Working
<1>9. CASE Erasing(o)
  <2>1. Shows(Without(mem, ops[o].load), Settled)'
    BY <1>1, <1>2, <1>9 DEF Erasing, Shows, SamePost, SameBids
  <2>2. QED
    BY <1>1, <1>2, <1>3, <1>4, <1>9, <2>1 DEF Erasing, OneCallOf, Working
<1>10. CASE Bidding(o)
  <2>1. ops[o].kind = "bidByName" => Shows(mem, Settled)'
    BY <1>1, <1>2, <1>10 DEF Bidding, Shows, SamePost, SameBids
  <2>2. QED
    BY <1>1, <1>2, <1>3, <1>4, <1>10, <2>1 DEF Bidding, OneCallOf, Working
<1>11. CASE Judging(o)
  <2>1. call = "updateLoadBids"
    BY <1>4, <1>11 DEF Judging
  <2>2. /\ DOMAIN db' = DOMAIN db
        /\ \A j \in DOMAIN db : db'[j].id = db[j].id /\ SameStage(db'[j], db[j])
    BY <1>1, <1>2, <2>1, WrittenRows
  <2>3. Verdict(o, mem[ops[o].index])'
    BY <1>1, <1>11, <2>2 DEF Judging, Verdict, SameStage
  <2>4. QED
    BY <1>1, <1>2, <1>3, <1>4, <1>11, <2>3 DEF Judging, OneCallOf, Working
<1>12. CASE Deciding(o)
  <2>1. ops'[o].verdict = "accepted" => AwaitedBy(Settled, ops[o].load, ops[o].who)'
    BY <1>1, <1>2, <1>12 DEF Deciding
  <2>2. QED
    BY <1>1, <1>2, <1>3, <1>4, <1>12, <2>1 DEF Deciding, OneCallOf, Working
<1>13. CASE Replying(o)
  <2>1. Shows(mem, Settled)'
    BY <1>1, <1>2, <1>13 DEF Replying, Shows, SamePost, SameBids
  <2>2. QED
    BY <1>1, <1>2, <1>3, <1>4, <1>13, <2>1 DEF Replying, OneCallOf, Working
<1>14. QED
  BY <1>6, <1>7, <1>8, <1>9, <1>10, <1>11, <1>12, <1>13

(* A distance is written: the row of the post that the board shows. *)
LEMMA ExecutedMeasuring ==
    ASSUME Held1, DbExecute, NEW o \in OpIds, Measuring(o)
    PROVE  Measuring(o)'
<1> DEFINE req == Head(queue)
<1>1. /\ queue # <<>> /\ queue' = Tail(queue) /\ db' = Written(db, req)
      /\ req \in GoodRequest /\ db \in Seq(GoodRow)
      /\ UNCHANGED <<mem, lists, tasks, ops>>
  BY CallExecuted
<1>2. /\ Pipe' = Pipe /\ Len(replies) + 1 \in DOMAIN Pipe
      /\ Pipe[Len(replies) + 1].call = req.call
  <2>1. Held
    BY HeldReady DEF Held1
  <2>2. PipeFacts /\ PipeFacts' /\ GoodQueue /\ GoodReplies
    BY Ready DEF Held1, Before, IInv
  <2>3. Pipe' = Pipe
    <3> DEFINE r == [call |-> req.call, owner |-> req.owner, load |-> req.row.id, ok |-> TRUE,
                     rows |-> IF req.call = "getLoads" THEN db ELSE <<>>]
    <3>1. replies' = Append(replies, r)
      BY CallExecuted
    <3>2. r.call = req.call /\ r.owner = req.owner /\ r.load = req.row.id
      OBVIOUS
    <3> HIDE DEF r
    <3>3. QED
      BY <1>1, <2>2, <3>1, <3>2, PipeExecuted
  <2>4. /\ Len(replies) + 1 \in DOMAIN Pipe
        /\ Pipe[Len(replies) + 1] = [call |-> req.call, owner |-> req.owner,
                                     load |-> req.row.id]
    BY <1>1, <2>1, FirstCall
  <2>5. QED
    BY <2>3, <2>4
<1>3. req.call = "saveDistance"
  BY <1>2 DEF Measuring
<1>4. /\ req = queue[1] /\ 1 \in DOMAIN queue
      /\ \A i \in DOMAIN queue' : i + 1 \in DOMAIN queue /\ queue'[i] = queue[i + 1]
  <2>1. queue \in Seq(GoodRequest)
    BY DEF Held1, IInv, GoodQueue
  <2>2. /\ req = queue[1] /\ 1 \in DOMAIN queue
        /\ Len(queue') = Len(queue) - 1
        /\ \A i \in DOMAIN queue' : queue'[i] = queue[i + 1]
    BY <1>1, <2>1, HeadTailProperties, LenProperties, EmptySeq
  <2>3. /\ Len(queue) \in Nat /\ DOMAIN queue = 1..Len(queue)
        /\ DOMAIN queue' = 1..Len(queue')
    BY LenProperties DEF Held1, IInv, GoodQueue
  <2>4. \A i \in DOMAIN queue' : i + 1 \in DOMAIN queue
    BY <2>2, <2>3
  <2>5. QED
    BY <2>2, <2>4
<1> HIDE DEF req
<1>5. \A k \in DOMAIN mem : mem[k].id = req.row.id => req.row = ToRow(mem[k])
  BY <1>4 DEF Measuring
<1>6. /\ Len(db') = Len(db) /\ DOMAIN db' = DOMAIN db
      /\ \A j \in DOMAIN db : /\ db'[j].id = db[j].id
                              /\ db'[j] = IF db[j].id = req.row.id THEN req.row ELSE db[j]
  BY <1>1, <1>3, WrittenRows
<1>7. Aligned(mem, db')
  BY <1>6 DEF Measuring, Shows, Aligned
<1>8. ASSUME NEW i \in DOMAIN mem, NEW j \in DOMAIN db', mem[i].id = db'[j].id
      PROVE  SamePost(mem[i], db'[j])
  <2>1. j \in DOMAIN db /\ mem[i].id = db[j].id
    BY <1>6, <1>8
  <2>2. SamePost(mem[i], db[j])
    BY <2>1 DEF Measuring, Shows
  <2>3. CASE db[j].id = req.row.id
    <3>1. db'[j] = ToRow(mem[i])
      BY <1>5, <1>6, <2>1, <2>3
    <3>2. SamePost(mem[i], ToRow(mem[i]))
      BY <2>2, SameAsRow DEF SamePost
    <3>3. QED
      BY <3>1, <3>2
  <2>4. CASE db[j].id # req.row.id
    BY <1>6, <2>1, <2>2, <2>4
  <2>5. QED
    BY <2>3, <2>4
<1>9. Shows(mem, db)'
  BY <1>1, <1>7, <1>8 DEF Shows, SamePost, SameBids
<1>10. \A i \in DOMAIN queue', k \in DOMAIN mem' :
          mem'[k].id = queue'[i].row.id => queue'[i].row = ToRow(mem[k])'
  BY <1>1, <1>4 DEF Measuring, ToRow
<1>11. \A p \in OpIds, l \in Loads :
          tasks'[p][l].step # "none" => p = o /\ Captured(l, tasks[p][l].post)'
  BY <1>1 DEF Measuring, Captured
<1>12. QED
  BY <1>1, <1>2, <1>9, <1>10, <1>11 DEF Measuring

LEMMA DbExecuteSerial ==
    ASSUME Held1, DbExecute
    PROVE  SerialInv'
<1>1. /\ queue # <<>> /\ Booted /\ UNCHANGED <<ops, boot>> /\ InFlight' = InFlight
      /\ replies' = Append(replies,
            [call |-> Head(queue).call, owner |-> Head(queue).owner,
             load |-> Head(queue).row.id, ok |-> TRUE,
             rows |-> IF Head(queue).call = "getLoads" THEN db ELSE <<>>])
  BY CallExecuted
<1>2. Unfailing'
  <2> DEFINE r == [call |-> Head(queue).call, owner |-> Head(queue).owner,
                   load |-> Head(queue).row.id, ok |-> TRUE,
                   rows |-> IF Head(queue).call = "getLoads" THEN db ELSE <<>>]
             S == GoodReply \cup {r}
  <2>1. replies \in Seq(S) /\ r \in S
    BY SeqMonotonic DEF Held1, IInv, GoodReplies
  <2>2. r.ok
    OBVIOUS
  <2>3. replies' = Append(replies, r)
    BY <1>1
  <2> HIDE DEF r, S
  <2>4. Len(replies) \in Nat /\ DOMAIN replies = 1..Len(replies)
    BY <2>1, LenProperties
  <2>5. \A k \in DOMAIN replies' : \/ k \in DOMAIN replies /\ replies'[k] = replies[k]
                                  \/ replies'[k] = r
    BY <2>1, <2>3, <2>4, AppendProperties
  <2>6. \A k \in DOMAIN replies : replies[k].ok
    BY DEF Held1, SerialInv, Unfailing
  <2>7. QED
    BY <2>2, <2>5, <2>6 DEF Unfailing
<1>3. BootFirst'
  BY <1>1 DEF BootFirst, Booted
<1>4. PICK o \in OpIds : InFlight = {o} /\ Working(o)
  BY <1>1 DEF Held1, SerialInv, Resting, NothingPending
<1>5. Working(o)'
  <2>1. ~Asking(o)
    BY <1>1 DEF Asking, NothingPending
  <2>2. CASE Measuring(o)
    BY <2>2, ExecutedMeasuring DEF Working
  <2>3. CASE ~Measuring(o)
    <3>1. PICK call : OneCallOf(o, call)
      BY <1>4, <2>1, <2>3 DEF Working, LoggingIn, Reading, Inserting, Erasing, Bidding,
         Judging, Deciding, Replying
    <3>2. Waits(o, call)
      BY <1>1, <3>1 DEF OneCallOf, Answers
    <3>3. QED
      BY <1>4, <2>1, <2>3, <3>2, ExecutedWorking DEF Working
  <2>4. QED
    BY <2>2, <2>3
<1>6. QED
  BY <1>1, <1>2, <1>3, <1>4, <1>5 DEF SerialInv

-----------------------------------------------------------------------------
(* main(), the kill, and the whole. *)

LEMMA InsertTestLoadSerial ==
    ASSUME Held1, InsertTestLoad
    PROVE  SerialInv'
<1>1. /\ boot < Len(Seeds)
      /\ UNCHANGED <<tasks, ops, user, queue, replies>>
  BY DEF InsertTestLoad, memory
<1>2. ~Booted
  BY <1>1, LoadsAssumption, LenProperties DEF Booted, Held1, IInv, GoodRest
<1>3. InFlight = {} /\ user = NoOne
  BY <1>2 DEF Held1, SerialInv, BootFirst
<1>4. NothingPending /\ NoTasks
  BY <1>3 DEF Held1, SerialInv, Resting
<1>5. InFlight' = {} /\ user' = NoOne
  BY <1>1, <1>3 DEF InFlight
<1>6. Resting' /\ BootFirst'
  BY <1>1, <1>4, <1>5 DEF Resting, BootFirst, NothingPending, NoTasks
<1>7. Unfailing'
  BY <1>1 DEF Unfailing, Held1, SerialInv
<1>8. QED
  BY <1>6, <1>7 DEF SerialInv

LEMMA RestartSerial ==
    ASSUME Held1, Restart
    PROVE  SerialInv'
<1>1. /\ queue' = <<>> /\ replies' = <<>> /\ user' = NoOne
      /\ tasks' = [o \in OpIds |-> [l \in Loads |-> NoTask(l)]]
  BY DEF Restart
<1>2. InFlight' = {}
  <2>1. ops \in [OpIds -> Op]
    BY DEF Held1, IInv, GoodOps
  <2>2. \A o \in OpIds : ops'[o].step \in Ended
    BY <2>1 DEF Restart, InFlight, Op, Ended
  <2>3. QED
    BY <2>2 DEF InFlight, Ended
<1>3. Resting' /\ BootFirst'
  BY <1>1, <1>2 DEF Resting, BootFirst, NothingPending, NoTasks, NoTask
<1>4. Unfailing'
  BY <1>1 DEF Unfailing
<1>5. QED
  BY <1>3, <1>4 DEF SerialInv

LEMMA WorkingStays ==
    ASSUME NEW o \in OpIds, Working(o), UNCHANGED vars
    PROVE  Working(o)'
<1>1. UNCHANGED <<mem, lists, tasks, ops, db, queue, replies>>
  BY DEF vars
<1>2. /\ NothingPending' = NothingPending /\ NoTasks' = NoTasks /\ Settled' = Settled
      /\ \A c : OneCallOf(o, c)' = OneCallOf(o, c)
      /\ \A c : Waits(o, c)' = Waits(o, c)
      /\ \A c : Answers(o, c)' = Answers(o, c)
  BY <1>1 DEF NothingPending, NoTasks, Settled, OneCallOf, Waits, Answers
<1>3. \A s, t : Shows(s, t)' = Shows(s, t)
  BY <1>1 DEF Shows, SamePost, SameBids
<1>4. CASE Asking(o) \/ LoggingIn(o) \/ Reading(o)
  BY <1>1, <1>2, <1>4
     DEF Working, Asking, LoggingIn, Reading, Shows, SamePost, SameBids
<1>5. CASE Inserting(o) \/ Erasing(o) \/ Bidding(o)
  <2>1. CASE Inserting(o)
    <3>1. Shows(Append(mem, ops[o].post), Settled)'
      BY <1>1, <1>2, <2>1 DEF Inserting, Shows, SamePost, SameBids
    <3>2. QED
      BY <1>1, <1>2, <2>1, <3>1 DEF Working, Inserting
  <2>2. CASE Erasing(o)
    <3>1. Shows(Without(mem, ops[o].load), Settled)'
      BY <1>1, <1>2, <2>2 DEF Erasing, Shows, SamePost, SameBids
    <3>2. QED
      BY <1>1, <1>2, <2>2, <3>1 DEF Working, Erasing
  <2>3. CASE Bidding(o)
    <3>1. ops'[o].kind = "bidByName" => Shows(mem, Settled)'
      BY <1>1, <1>2, <2>3 DEF Bidding, Shows, SamePost, SameBids
    <3>2. QED
      BY <1>1, <1>2, <2>3, <3>1 DEF Working, Bidding
  <2>4. QED
    BY <1>5, <2>1, <2>2, <2>3
<1>6. CASE Judging(o) \/ Deciding(o)
  BY <1>1, <1>2, <1>6 DEF Working, Judging, Deciding, Verdict
<1>7. CASE Replying(o)
  BY <1>1, <1>2, <1>7 DEF Working, Replying, Shows, SamePost, SameBids
<1>8. CASE Measuring(o)
  <2>1. Pipe' = Pipe
    BY <1>1 DEF Pipe
  <2>2. QED
    BY <1>1, <1>2, <1>8, <2>1
       DEF Working, Measuring, Captured, ToRow, Shows, SamePost, SameBids
<1>9. QED
  BY <1>4, <1>5, <1>6, <1>7, <1>8 DEF Working

LEMMA StutterSerial ==
    ASSUME Held1, UNCHANGED vars
    PROVE  SerialInv'
<1>1. UNCHANGED <<mem, lists, tasks, ops, user, boot, db, queue, replies>>
  BY DEF vars
<1>2. InFlight' = InFlight
  BY <1>1 DEF InFlight
<1>3. Unfailing' /\ BootFirst'
  BY <1>1, <1>2 DEF Held1, SerialInv, Unfailing, BootFirst, Booted
<1>4. CASE Resting
  BY <1>1, <1>2, <1>3, <1>4
     DEF SerialInv, Resting, NothingPending, NoTasks, Shows, SamePost, SameBids
<1>5. CASE \E o \in OpIds : InFlight = {o} /\ Working(o)
  BY <1>2, <1>3, <1>5, WorkingStays DEF SerialInv
<1>6. QED
  BY <1>4, <1>5 DEF Held1, SerialInv

LEMMA SerialInit == Init => SerialInv
<1> SUFFICES ASSUME Init PROVE SerialInv
  OBVIOUS
<1>1. /\ user = NoOne /\ queue = <<>> /\ replies = <<>>
      /\ tasks = [o \in OpIds |-> [l \in Loads |-> NoTask(l)]]
      /\ ops = [o \in OpIds |-> NoOp]
  BY DEF Init
<1>2. InFlight = {}
  BY <1>1 DEF InFlight, NoOp
<1>3. Resting /\ BootFirst /\ Unfailing
  BY <1>1, <1>2 DEF Resting, NothingPending, NoTasks, NoTask, BootFirst, Unfailing
<1>4. QED
  BY <1>3 DEF SerialInv

LEMMA SerialNext ==
    ASSUME Held1, [Next]_vars
    PROVE  SerialInv'
<1>1. CASE InsertTestLoad \/ DbExecute
  BY <1>1, InsertTestLoadSerial, DbExecuteSerial
<1>2. CASE DbFail
  <2>1. faults \in 0..0 /\ faults < 0
    BY <1>2 DEF DbFail, Held1, Serial, IInv, GoodRest
  <2>2. QED
    BY <2>1
<1>3. CASE (\E u \in Users : Login(u)) \/ LoginAnswered \/ Logout
  BY <1>3, LoginSerial, LoginAnsweredSerial, LogoutSerial
<1>4. CASE Refresh \/ LoadsRead
  BY <1>4, RefreshSerial, LoadsReadSerial
<1>5. CASE \/ \E o \in OpIds, l \in Loads : RouteFound(o, l) \/ RouteMissing(o, l)
           \/ DistanceSaved
  BY <1>5, RouteFoundSerial, RouteMissingSerial, DistanceSavedSerial
<1>6. CASE \/ \E l \in Loads : OpenDetails(l) \/ PostLoad(l)
           \/ LoadInserted
  BY <1>6, OpenDetailsSerial, PostLoadSerial, LoadInsertedSerial
<1>7. CASE \E l \in Loads : PostReturn(l)
  BY <1>7 DEF PostReturn, CanStart, Held1, Serial
<1>8. CASE (\E chosen \in SUBSET Loads \ {{}} : DeleteLoads(chosen)) \/ LoadDeleted
  BY <1>8, DeleteLoadsSerial, LoadDeletedSerial
<1>9. CASE \/ \E l \in Loads : PlaceBid(l) \/ BidByName(l)
           \/ \E l \in Loads, b \in Bidders, v \in {"accepted", "rejected", "countered"} :
                  Respond(l, b, v)
           \/ BidsWritten
  BY <1>9, AddBidSerial, RespondSerial, BidsWrittenSerial DEF PlaceBid, BidByName
<1>10. CASE \/ \E l \in Loads, kind \in {"confirm", "decline"} : OpenDialog(l, kind)
            \/ \E o \in OpIds : CancelDialog(o) \/ Submit(o)
            \/ LoadWritten
  BY <1>10, OpenDialogSerial, CancelDialogSerial, SubmitSerial, LoadWrittenSerial
<1>11. CASE Restart \/ UNCHANGED vars
  BY <1>11, RestartSerial, StutterSerial
<1>12. QED
  BY <1>1, <1>2, <1>3, <1>4, <1>5, <1>6, <1>7, <1>8, <1>9, <1>10, <1>11
     DEF Next, Users

LEMMA SerialInvariant ==
    ASSUME Serial
    PROVE  Spec => [](IInv /\ ListInv /\ SerialInv)
<1>1. Init => IInv /\ ListInv /\ SerialInv
  BY InitHolds, ListInit, SerialInit
<1>2. IInv /\ ListInv /\ SerialInv /\ [Next]_vars => IInv' /\ ListInv' /\ SerialInv'
  BY NextKeeps, ListNext, SerialNext DEF Held1
<1>3. QED
  BY <1>1, <1>2, PTL DEF Spec

-----------------------------------------------------------------------------
(* The stages of LoadLifecycle. *)

StageIn(table, l) ==
    LET i == IndexOf(table, l)
    IN  IF i = 0 THEN [phase |-> "absent", carrier |-> NoOne]
        ELSE [phase |-> table[i].status, carrier |-> table[i].selected]
StageOf(r) == [phase |-> r.status, carrier |-> r.selected]

LEMMA StagesAre == Stages = [l \in Loads |-> StageIn(db, l)]
BY DEF Stages, StageIn

LEMMA StagesNext == Stages' = [l \in Loads |-> StageIn(db', l)]
BY DEF Stages, StageIn

LEMMA StageAbsent ==
    ASSUME NEW S, NEW t \in Seq(S), NEW l, ~Has(t, l)
    PROVE  StageIn(t, l) = Lifecycle!Absent
<1>1. IndexOf(t, l) = 0
  BY IndexOfSpec
<1>2. QED
  BY <1>1 DEF StageIn, Lifecycle!Absent

LEMMA StageAt ==
    ASSUME NEW S, NEW t \in Seq(S), NEW i \in DOMAIN t, UniqueAt(t, t[i].id)
    PROVE  StageIn(t, t[i].id) = StageOf(t[i])
<1> DEFINE n == IndexOf(t, t[i].id)
<1>1. n = i
  BY UniqueIndex
<1>2. i # 0
  BY LenProperties
<1>3. StageIn(t, t[i].id) = IF n = 0 THEN [phase |-> "absent", carrier |-> NoOne]
                            ELSE [phase |-> t[n].status, carrier |-> t[n].selected]
  BY DEF StageIn
<1> HIDE DEF n
<1>4. QED
  BY <1>1, <1>2, <1>3 DEF StageOf

(* Two tables with the same rows of a load have it at the same stage. *)
LEMMA SameStages ==
    ASSUME NEW t \in Seq(GoodRow), NEW u \in Seq(GoodRow), NEW l,
           UniqueAt(t, l), UniqueAt(u, l), Has(t, l) <=> Has(u, l),
           \A i \in DOMAIN t, j \in DOMAIN u :
              t[i].id = l /\ u[j].id = l => SameStage(t[i], u[j])
    PROVE  StageIn(t, l) = StageIn(u, l)
<1>1. CASE Has(t, l)
  <2>1. PICK i \in DOMAIN t : t[i].id = l
    BY <1>1 DEF Has
  <2>2. PICK j \in DOMAIN u : u[j].id = l
    BY <1>1 DEF Has
  <2>3. StageIn(t, l) = StageOf(t[i])
    BY <2>1, StageAt
  <2>4. StageIn(u, l) = StageOf(u[j])
    BY <2>2, StageAt
  <2>5. QED
    BY <2>1, <2>2, <2>3, <2>4 DEF SameStage, StageOf
<1>2. CASE ~Has(t, l)
  BY <1>2, StageAbsent
<1>3. QED
  BY <1>1, <1>2

(* A deletion takes the load off the table and leaves the others. *)
LEMMA StageErased ==
    ASSUME NEW t \in Seq(GoodRow), NEW l, \A k \in Loads : UniqueAt(t, k), l \in Loads
    PROVE  /\ Without(t, l) \in Seq(GoodRow)
           /\ StageIn(Without(t, l), l) = Lifecycle!Absent
           /\ \A k \in Loads : k # l => StageIn(Without(t, l), k) = StageIn(t, k)
           /\ \A k \in Loads : UniqueAt(Without(t, l), k)
           /\ ~Has(Without(t, l), l)
<1> DEFINE w == Without(t, l)
<1>1. /\ w \in Seq(GoodRow)
      /\ \A k : Has(w, k) => Has(t, k)
      /\ \A k : k # l /\ Has(t, k) => Has(w, k)
      /\ \A k \in Loads : UniqueAt(w, k)
      /\ ~Has(w, l)
  BY WithoutType, WithoutIds
<1>2. StageIn(w, l) = Lifecycle!Absent
  BY <1>1, StageAbsent
<1>3. ASSUME NEW k \in Loads, k # l
      PROVE  StageIn(w, k) = StageIn(t, k)
  <2>1. ASSUME NEW i \in DOMAIN w, NEW j \in DOMAIN t, w[i].id = k, t[j].id = k
        PROVE  SameStage(w[i], t[j])
    <3>1. PICK n \in DOMAIN t : w[i] = t[n]
      BY WithoutFrom
    <3>2. UniqueAt(t, k)
      OBVIOUS
    <3>3. n = j
      BY <2>1, <3>1, <3>2 DEF UniqueAt
    <3>4. QED
      BY <3>1, <3>3 DEF SameStage
  <2> HIDE DEF w
  <2>2. Has(w, k) <=> Has(t, k)
    BY <1>1, <1>3
  <2>3. UniqueAt(w, k) /\ UniqueAt(t, k)
    BY <1>1
  <2>4. QED
    BY <1>1, <2>1, <2>2, <2>3, SameStages
<1>4. QED
  BY <1>1, <1>2, <1>3

(* An insert puts the load at the end of the table. *)
LEMMA StageInserted ==
    ASSUME NEW t \in Seq(GoodRow), NEW r \in GoodRow,
           \A k \in Loads : UniqueAt(t, k), ~Has(t, r.id), r.id \in Loads
    PROVE  /\ StageIn(Append(t, r), r.id) = StageOf(r)
           /\ \A k \in Loads : k # r.id => StageIn(Append(t, r), k) = StageIn(t, k)
<1> DEFINE u == Append(t, r)
           n == Len(t) + 1
<1>1. /\ Len(t) \in Nat /\ DOMAIN t = 1..Len(t) /\ DOMAIN u = 1..n /\ u \in Seq(GoodRow)
      /\ \A i \in DOMAIN t : u[i] = t[i]
      /\ u[n] = r
  BY AppendProperties, LenProperties
<1>2. /\ \A k : Has(u, k) <=> Has(t, k) \/ r.id = k
      /\ \A k \in Loads : UniqueAt(u, k)
  BY AppendIds
<1> HIDE DEF u
<1>3. n \in DOMAIN u /\ \A i \in DOMAIN u : i \in DOMAIN t \/ i = n
  BY <1>1
<1>4. StageIn(u, r.id) = StageOf(r)
  <2>1. UniqueAt(u, u[n].id)
    BY <1>1, <1>2
  <2>2. QED
    BY <1>1, <1>3, <2>1, StageAt
<1>5. ASSUME NEW k \in Loads, k # r.id
      PROVE  StageIn(u, k) = StageIn(t, k)
  <2>1. ASSUME NEW i \in DOMAIN u, NEW j \in DOMAIN t, u[i].id = k, t[j].id = k
        PROVE  SameStage(u[i], t[j])
    <3>1. i \in DOMAIN t /\ u[i] = t[i]
      BY <1>1, <1>3, <1>5, <2>1
    <3>2. UniqueAt(t, k)
      OBVIOUS
    <3>3. i = j
      BY <2>1, <3>1, <3>2 DEF UniqueAt
    <3>4. QED
      BY <3>1, <3>3 DEF SameStage
  <2>2. Has(u, k) <=> Has(t, k)
    BY <1>2, <1>5
  <2>3. UniqueAt(u, k) /\ UniqueAt(t, k)
    BY <1>2
  <2>4. QED
    BY <1>1, <2>1, <2>2, <2>3, SameStages
<1>6. QED
  BY <1>4, <1>5 DEF u

(* A step that replaces one entry of Stages, or none. *)
LEMMA StageMoves ==
    ASSUME NEW l \in Loads, NEW v,
           StageIn(db', l) = v,
           \A k \in Loads : k # l => StageIn(db', k) = StageIn(db, k)
    PROVE  Stages' = [Stages EXCEPT ![l] = v] /\ Stages[l] = StageIn(db, l)
<1> DEFINE f(k) == StageIn(db, k)
           g(k) == StageIn(db', k)
<1>1. Stages = [k \in Loads |-> f(k)] /\ Stages' = [k \in Loads |-> g(k)]
  BY StagesAre, StagesNext
<1>2. g(l) = v /\ \A k \in Loads : k # l => g(k) = f(k)
  OBVIOUS
<1> HIDE DEF f, g
<1>3. Stages' = [Stages EXCEPT ![l] = v] /\ Stages[l] = f(l)
  BY <1>1, <1>2
<1>4. QED
  BY <1>3 DEF f

LEMMA StagesStay ==
    ASSUME \A k \in Loads : StageIn(db', k) = StageIn(db, k)
    PROVE  UNCHANGED Stages
<1> DEFINE f(k) == StageIn(db, k)
           g(k) == StageIn(db', k)
<1>1. Stages = [k \in Loads |-> f(k)] /\ Stages' = [k \in Loads |-> g(k)]
  BY StagesAre, StagesNext
<1>2. \A k \in Loads : g(k) = f(k)
  OBVIOUS
<1> HIDE DEF f, g
<1>3. QED
  BY <1>1, <1>2

(* The write of a row moves its load at most. *)
LEMMA StageWritten ==
    ASSUME NEW t \in Seq(GoodRow), NEW req \in GoodRequest,
           req.call \in {"updateLoad", "saveDistance"}, \A k \in Loads : UniqueAt(t, k)
    PROVE  /\ req.row.id \in Loads
           /\ \A k \in Loads : k # req.row.id => StageIn(Written(t, req), k) = StageIn(t, k)
           /\ ~Has(t, req.row.id) =>
                 StageIn(Written(t, req), req.row.id) = StageIn(t, req.row.id)
           /\ \A j \in DOMAIN t : t[j].id = req.row.id =>
                 /\ StageIn(Written(t, req), req.row.id) = StageOf(req.row)
                 /\ StageIn(t, req.row.id) = StageOf(t[j])
<1> DEFINE w == Written(t, req)
           l == req.row.id
<1>1. l \in Loads
  BY DEF GoodRequest, Request, Row
<1>2. /\ DOMAIN w = DOMAIN t /\ w \in Seq(GoodRow)
      /\ \A i \in DOMAIN t : /\ w[i].id = t[i].id
                             /\ w[i] = IF t[i].id = l THEN req.row ELSE t[i]
  <2>1. req.call \notin {"insertLoad", "deleteLoad", "updateLoadBids"}
    OBVIOUS
  <2>2. w \in Seq(GoodRow)
    BY WrittenGood
  <2>3. DOMAIN w = DOMAIN t /\ \A i \in DOMAIN t : w[i].id = t[i].id
    BY <2>1, WrittenRows
  <2>4. w = [i \in DOMAIN t |-> IF t[i].id = l THEN req.row ELSE t[i]]
    BY <2>1 DEF Written
  <2>5. \A i \in DOMAIN t : w[i] = IF t[i].id = l THEN req.row ELSE t[i]
    BY <2>4
  <2>6. QED
    BY <2>2, <2>3, <2>5
<1> HIDE DEF w, l
<1>3. /\ \A k : Has(w, k) <=> Has(t, k)
      /\ \A k : UniqueAt(w, k) <=> UniqueAt(t, k)
  BY <1>2, SameIds
<1>4. ASSUME NEW k \in Loads, k # l \/ ~Has(t, l)
      PROVE  StageIn(w, k) = StageIn(t, k)
  <2>1. ASSUME NEW i \in DOMAIN w, NEW j \in DOMAIN t, w[i].id = k, t[j].id = k
        PROVE  SameStage(w[i], t[j])
    <3>1. i = j
      BY <1>2, <2>1 DEF UniqueAt
    <3>2. t[i].id # l
      BY <1>2, <1>4, <2>1, <3>1 DEF Has
    <3>3. QED
      BY <1>2, <3>1, <3>2 DEF SameStage
  <2>2. Has(w, k) <=> Has(t, k)
    BY <1>3
  <2>3. UniqueAt(w, k) /\ UniqueAt(t, k)
    BY <1>3
  <2>4. QED
    BY <1>2, <2>1, <2>2, <2>3, SameStages
<1>5. ASSUME NEW j \in DOMAIN t, t[j].id = l
      PROVE  StageIn(w, l) = StageOf(req.row) /\ StageIn(t, l) = StageOf(t[j])
  <2>1. UniqueAt(t, t[j].id) /\ UniqueAt(w, w[j].id)
    BY <1>1, <1>2, <1>3, <1>5
  <2>2. j \in DOMAIN w /\ w[j].id = l /\ w[j] = req.row
    BY <1>2, <1>5
  <2>3. StageIn(t, l) = StageOf(t[j])
    BY <1>5, <2>1, StageAt
  <2>4. StageIn(w, l) = StageOf(w[j])
    BY <1>2, <2>1, <2>2, StageAt
  <2>5. QED
    BY <2>2, <2>3, <2>4
<1>6. QED
  BY <1>1, <1>4, <1>5 DEF w, l

LEMMA LifecycleInit ==
    ASSUME IInv, ListInv
    PROVE  Lifecycle!Init
<1>1. ASSUME NEW l \in Loads
      PROVE  StageIn(db, l) \in Lifecycle!Stage
  <2>1. db \in Seq(GoodRow) /\ UniqueAt(db, l)
    BY DEF IInv, GoodDb, ListInv, Unique
  <2>2. CASE Has(db, l)
    <3>1. PICK i \in DOMAIN db : db[i].id = l
      BY <2>2 DEF Has
    <3>2. StageIn(db, l) = StageOf(db[i])
      BY <2>1, <3>1, StageAt
    <3>3. db[i] \in Row
      BY <2>1, LenProperties, ElementOfSeq DEF GoodRow
    <3>4. StageOf(db[i]) \in Lifecycle!Stage
      BY <3>3 DEF Row, Status, StageOf, Lifecycle!Stage
    <3>5. QED
      BY <3>2, <3>4
  <2>3. CASE ~Has(db, l)
    BY <2>1, <2>3, StageAbsent DEF Lifecycle!Absent, Lifecycle!Stage
  <2>4. QED
    BY <2>2, <2>3
<1>2. Stages \in [Loads -> Lifecycle!Stage]
  BY <1>1, StagesAre
<1>3. QED
  BY <1>2 DEF Lifecycle!Init

(* main() puts a test load back to its first stage. *)
LEMMA InsertTestLoadMaps ==
    ASSUME Held1, InsertTestLoad
    PROVE  Lifecycle!Next
<1> DEFINE l == Seeds[boot + 1]
           row == FreshRow(l)
           w == Without(db, l)
<1>1. boot + 1 \in DOMAIN Seeds /\ l \in Loads
  BY LoadsAssumption, LenProperties, ElementOfSeq DEF InsertTestLoad, Held1, IInv, GoodRest
<1>2. row \in GoodRow /\ row.id = l /\ StageOf(row) = Lifecycle!Open
  <2>1. row \in GoodRow
    BY <1>1, FreshGood
  <2>2. QED
    BY <2>1 DEF FreshRow, StageOf, Lifecycle!Open
<1>3. db' = Append(w, row)
  BY <1>2 DEF InsertTestLoad
<1>4. \E i \in DOMAIN Seeds : Seeds[i] = l
  BY <1>1
<1> HIDE DEF l, row
<1>5. db \in Seq(GoodRow) /\ \A k \in Loads : UniqueAt(db, k)
  BY RowsOnce
<1>6. /\ w \in Seq(GoodRow) /\ ~Has(w, l)
      /\ \A k \in Loads : k # l => StageIn(w, k) = StageIn(db, k)
      /\ \A k \in Loads : UniqueAt(w, k)
  BY <1>1, <1>5, StageErased
<1> HIDE DEF w
<1>7. /\ StageIn(db', l) = Lifecycle!Open
      /\ \A k \in Loads : k # l => StageIn(db', k) = StageIn(w, k)
  BY <1>1, <1>2, <1>3, <1>6, StageInserted
<1>8. Stages' = [Stages EXCEPT ![l] = Lifecycle!Open]
  BY <1>1, <1>6, <1>7, StageMoves
<1>9. Lifecycle!Reset(l)
  BY <1>4, <1>8 DEF Lifecycle!Reset
<1>10. QED
  BY <1>1, <1>9 DEF Lifecycle!Next

(* An insert posts a load, a deletion removes it. *)
LEMMA InsertMaps ==
    ASSUME Held1, DbExecute, NEW o \in OpIds, Inserting(o), Waits(o, "insertLoad")
    PROVE  Lifecycle!Next
<1> DEFINE l == ops[o].load
           row == FreshRow(l)
<1>1. l \in Loads
  BY DEF Held1, IInv, GoodOps, Op
<1>2. row \in GoodRow /\ row.id = l /\ StageOf(row) = Lifecycle!Open
  <2>1. row \in GoodRow
    BY <1>1, FreshGood
  <2>2. QED
    BY <2>1 DEF FreshRow, StageOf, Lifecycle!Open
<1>3. db \in Seq(GoodRow) /\ \A k \in Loads : UniqueAt(db, k)
  BY RowsOnce
<1>4. Head(queue).call = "insertLoad" /\ Head(queue).row = row /\ ~Has(db, l)
  BY AnswerArrives DEF Inserting
<1>5. db' = Append(Without(db, l), row)
  BY <1>2, <1>4, CallExecuted DEF Written
<1> HIDE DEF l, row
<1>6. Without(db, l) = db
  BY <1>3, <1>4, IndexOfSpec, WithoutShape
<1>7. /\ StageIn(db', l) = Lifecycle!Open
      /\ \A k \in Loads : k # l => StageIn(db', k) = StageIn(db, k)
  BY <1>1, <1>2, <1>3, <1>4, <1>5, <1>6, StageInserted
<1>8. StageIn(db, l) = Lifecycle!Absent
  BY <1>3, <1>4, StageAbsent
<1>9. Stages' = [Stages EXCEPT ![l] = Lifecycle!Open] /\ Stages[l] = Lifecycle!Absent
  BY <1>1, <1>7, <1>8, StageMoves
<1>10. Lifecycle!Appear(l)
  BY <1>9 DEF Lifecycle!Appear
<1>11. QED
  BY <1>1, <1>10 DEF Lifecycle!Next

LEMMA DeleteMaps ==
    ASSUME Held1, DbExecute, Head(queue).call = "deleteLoad"
    PROVE  Lifecycle!Next
<1> DEFINE l == Head(queue).row.id
<1>1. l \in Loads
  BY CallExecuted DEF GoodRequest, Request, Row
<1>2. db \in Seq(GoodRow) /\ \A k \in Loads : UniqueAt(db, k)
  BY RowsOnce
<1>3. db' = Without(db, l)
  BY CallExecuted DEF Written
<1> HIDE DEF l
<1>4. /\ StageIn(db', l) = Lifecycle!Absent
      /\ \A k \in Loads : k # l => StageIn(db', k) = StageIn(db, k)
  BY <1>1, <1>2, <1>3, StageErased
<1>5. Stages' = [Stages EXCEPT ![l] = Lifecycle!Absent]
  BY <1>1, <1>4, StageMoves
<1>6. Lifecycle!Vanish(l)
  BY <1>5 DEF Lifecycle!Vanish
<1>7. QED
  BY <1>1, <1>6 DEF Lifecycle!Next

(* Calls that read, and the write of a load's bids, move no load. *)
LEMMA ReadMaps ==
    ASSUME Held1, DbExecute, Head(queue).call \in {"getUser", "getLoads", "updateLoadBids"}
    PROVE  UNCHANGED Stages
<1>1. /\ db \in Seq(GoodRow) /\ \A k \in Loads : UniqueAt(db, k)
      /\ db' = Written(db, Head(queue)) /\ Head(queue) \in GoodRequest
  BY RowsOnce, CallExecuted
<1>2. CASE db' = db
  BY <1>2, StagesStay
<1>3. CASE Head(queue).call = "updateLoadBids"
  <2>1. /\ DOMAIN db' = DOMAIN db /\ db' \in Seq(GoodRow)
        /\ \A i \in DOMAIN db : db'[i].id = db[i].id /\ SameStage(db'[i], db[i])
    BY <1>1, <1>3, WrittenRows, WrittenGood
  <2>2. /\ \A k : Has(db', k) <=> Has(db, k)
        /\ \A k : UniqueAt(db', k) <=> UniqueAt(db, k)
    BY <2>1, SameIds
  <2>3. ASSUME NEW k \in Loads
        PROVE  StageIn(db', k) = StageIn(db, k)
    <3>1. ASSUME NEW i \in DOMAIN db', NEW j \in DOMAIN db, db'[i].id = k, db[j].id = k
          PROVE  SameStage(db'[i], db[j])
      BY <1>1, <2>1, <3>1 DEF UniqueAt
    <3>2. UniqueAt(db', k) /\ UniqueAt(db, k) /\ (Has(db', k) <=> Has(db, k))
      BY <1>1, <2>2
    <3>3. QED
      BY <1>1, <2>1, <3>1, <3>2, SameStages
  <2>4. QED
    BY <2>3, StagesStay
<1>4. QED
  BY <1>1, <1>2, <1>3, WrittenRows

(* A distance is written into a row the board shows as it is. *)
LEMMA DistanceMaps ==
    ASSUME Held1, DbExecute, NEW o \in OpIds, Measuring(o)
    PROVE  UNCHANGED Stages
<1>1. Shows(mem, db) /\ Shows(mem', db')
  BY ExecutedMeasuring, CallExecuted DEF Measuring, Shows, SamePost, SameBids
<1>2. mem' = mem /\ db' = Written(db, Head(queue)) /\ Head(queue) \in GoodRequest
  BY CallExecuted
<1>3. /\ db \in Seq(GoodRow) /\ db' \in Seq(GoodRow)
      /\ \A k \in Loads : UniqueAt(db, k) /\ UniqueAt(db', k)
      /\ mem \in Seq(GoodPost)
  BY DEF Held1, IInv, GoodDb, GoodMem, ListInv, Unique
<1>4. Aligned(mem, db) /\ Aligned(mem, db')
  BY <1>1, <1>2 DEF Shows, Aligned
<1>5. /\ DOMAIN mem = DOMAIN db /\ \A i \in DOMAIN mem : mem[i].id = db[i].id
      /\ \A k : Has(mem, k) <=> Has(db, k)
  BY <1>3, <1>4, AlignedIds
<1>6. \A k : Has(mem, k) <=> Has(db', k)
  BY <1>3, <1>4, AlignedIds
<1>7. ASSUME NEW k \in Loads
      PROVE  StageIn(db', k) = StageIn(db, k)
  <2>1. ASSUME NEW i \in DOMAIN db', NEW j \in DOMAIN db, db'[i].id = k, db[j].id = k
        PROVE  SameStage(db'[i], db[j])
    <3>1. j \in DOMAIN mem /\ mem[j].id = k
      BY <1>5, <2>1
    <3>2. SamePost(mem[j], db[j])
      BY <1>1, <2>1, <3>1 DEF Shows
    <3>3. mem'[j].status = db'[i].status /\ mem'[j].selected = db'[i].selected
      <4>1. j \in DOMAIN mem' /\ mem'[j].id = db'[i].id
        BY <1>2, <2>1, <3>1
      <4>2. SameStage(mem'[j], db'[i])
        BY <1>1, <4>1 DEF Shows, SamePost
      <4>3. QED
        BY <4>2 DEF SameStage
    <3>4. QED
      BY <1>2, <3>2, <3>3 DEF SamePost, SameStage
  <2>2. Has(db', k) <=> Has(db, k)
    BY <1>5, <1>6
  <2>3. QED
    BY <1>3, <2>1, <2>2, SameStages
<1>8. QED
  BY <1>7, StagesStay

(* The broker's acceptance chooses the carrier; another verdict moves      *)
(* nothing, and neither does a verdict on a load that is not in the table. *)
LEMMA DecisionMaps ==
    ASSUME Held1, DbExecute, NEW o \in OpIds, Deciding(o), Waits(o, "updateLoad")
    PROVE  Lifecycle!Next \/ UNCHANGED Stages
<1> DEFINE req == Head(queue)
           row == req.row
           l == row.id
<1>1. /\ db \in Seq(GoodRow) /\ \A k \in Loads : UniqueAt(db, k)
      /\ db' = Written(db, req) /\ req \in GoodRequest
  BY RowsOnce, CallExecuted
<1>2. req.call = "updateLoad" /\ Verdict(o, row)
  BY AnswerArrives DEF Deciding
<1> HIDE DEF req
<1>3. /\ l \in Loads
      /\ \A k \in Loads : k # l => StageIn(db', k) = StageIn(db, k)
      /\ ~Has(db, l) => StageIn(db', l) = StageIn(db, l)
      /\ \A j \in DOMAIN db : db[j].id = l =>
            StageIn(db', l) = StageOf(row) /\ StageIn(db, l) = StageOf(db[j])
  BY <1>1, <1>2, StageWritten
<1> HIDE DEF row, l
<1>4. CASE ~Has(db, l)
  BY <1>3, <1>4, StagesStay
<1>5. ASSUME NEW j \in DOMAIN db, db[j].id = l
      PROVE  Lifecycle!Next \/ UNCHANGED Stages
  <2>1. StageIn(db', l) = StageOf(row) /\ StageIn(db, l) = StageOf(db[j])
    BY <1>3, <1>5
  <2>2. Stages' = [Stages EXCEPT ![l] = StageOf(row)] /\ Stages[l] = StageOf(db[j])
    BY <1>3, <2>1, StageMoves
  <2>3. CASE ops[o].verdict = "accepted"
    <3>1. row.status = "awaiting" /\ row.selected = ops[o].who /\ ops[o].who \in Bidders
      BY <1>2, <2>3 DEF Verdict
    <3>2. db[j].status # "absent"
      <4>1. db[j] \in Row
        BY <1>1, LenProperties, ElementOfSeq DEF GoodRow
      <4>2. QED
        BY <4>1 DEF Row, Status
    <3>3. Lifecycle!Choose(l, ops[o].who)
      BY <2>2, <3>1, <3>2
         DEF Lifecycle!Choose, Lifecycle!Move, Lifecycle!Absent, StageOf
    <3>4. QED
      BY <1>3, <3>1, <3>3 DEF Lifecycle!Next
  <2>4. CASE ops[o].verdict # "accepted"
    <3>1. SameStage(row, db[j])
      BY <1>2, <1>5, <2>4 DEF Verdict, l
    <3>2. StageIn(db', l) = StageIn(db, l)
      BY <2>1, <3>1 DEF SameStage, StageOf
    <3>3. QED
      BY <1>3, <3>2, StagesStay
  <2>5. QED
    BY <2>3, <2>4
<1>6. QED
  BY <1>4, <1>5 DEF Has

(* The chosen carrier confirms or declines. *)
LEMMA ReplyMaps ==
    ASSUME Held1, DbExecute, NEW o \in OpIds, Replying(o), Waits(o, "updateLoad")
    PROVE  Lifecycle!Next \/ UNCHANGED Stages
<1> DEFINE req == Head(queue)
           row == req.row
           l == row.id
           who == ops[o].who
<1>1. /\ db \in Seq(GoodRow) /\ \A k \in Loads : UniqueAt(db, k)
      /\ db' = Written(db, req) /\ req \in GoodRequest
  BY RowsOnce, CallExecuted
<1>2. /\ req.call = "updateLoad" /\ l = ops[o].load /\ row.status = Outcome(ops[o].kind)
      /\ row.selected = who /\ who \in Carriers /\ ops[o].kind \in {"confirm", "decline"}
      /\ AwaitedBy(db, l, who)
  BY AnswerArrives DEF Replying
<1> HIDE DEF req
<1>3. /\ l \in Loads
      /\ \A k \in Loads : k # l => StageIn(db', k) = StageIn(db, k)
      /\ ~Has(db, l) => StageIn(db', l) = StageIn(db, l)
      /\ \A j \in DOMAIN db : db[j].id = l =>
            StageIn(db', l) = StageOf(row) /\ StageIn(db, l) = StageOf(db[j])
  BY <1>1, <1>2, StageWritten
<1> HIDE DEF row, l, who
<1>4. CASE ~Has(db, l)
  BY <1>3, <1>4, StagesStay
<1>5. ASSUME NEW j \in DOMAIN db, db[j].id = l
      PROVE  Lifecycle!Next
  <2>1. StageIn(db', l) = StageOf(row) /\ StageIn(db, l) = StageOf(db[j])
    BY <1>3, <1>5
  <2>2. Stages' = [Stages EXCEPT ![l] = StageOf(row)] /\ Stages[l] = StageOf(db[j])
    BY <1>3, <2>1, StageMoves
  <2>3. db[j].status = "awaiting" /\ db[j].selected = who
    BY <1>2, <1>5 DEF AwaitedBy
  <2>4. Stages[l].phase = "awaiting" /\ Stages[l].carrier = who
    BY <2>2, <2>3 DEF StageOf
  <2>5. Stages' = [Stages EXCEPT ![l] = [phase |-> Outcome(ops[o].kind), carrier |-> who]]
    BY <1>2, <2>2 DEF StageOf
  <2>6. CASE ops[o].kind = "confirm"
    <3>1. Lifecycle!Confirm(l)
      BY <1>2, <2>4, <2>5, <2>6 DEF Outcome, Lifecycle!Confirm, Lifecycle!Move
    <3>2. QED
      BY <1>3, <3>1 DEF Lifecycle!Next
  <2>7. CASE ops[o].kind = "decline"
    <3>1. Lifecycle!Decline(l)
      BY <1>2, <2>4, <2>5, <2>7 DEF Outcome, Lifecycle!Decline, Lifecycle!Move
    <3>2. QED
      BY <1>3, <3>1 DEF Lifecycle!Next
  <2>8. QED
    BY <1>2, <2>6, <2>7
<1>6. QED
  BY <1>4, <1>5 DEF Has

LEMMA DbExecuteMaps ==
    ASSUME Held1, DbExecute
    PROVE  Lifecycle!Next \/ UNCHANGED Stages
<1>1. queue # <<>>
  BY CallExecuted
<1>2. PICK o \in OpIds : InFlight = {o} /\ Working(o)
  BY <1>1 DEF Held1, SerialInv, Resting, NothingPending
<1>3. ~Asking(o)
  BY <1>1 DEF Asking, NothingPending
<1>4. \A c : OneCallOf(o, c) => Waits(o, c)
  BY <1>1 DEF OneCallOf, Answers
<1>5. \A c : Waits(o, c) => Head(queue).call = c
  BY AnswerArrives
<1>6. CASE LoggingIn(o) \/ Reading(o) \/ Bidding(o) \/ Judging(o)
  BY <1>4, <1>5, <1>6, ReadMaps DEF LoggingIn, Reading, Bidding, Judging
<1>7. CASE Inserting(o)
  BY <1>4, <1>7, InsertMaps DEF Inserting
<1>8. CASE Erasing(o)
  BY <1>4, <1>5, <1>8, DeleteMaps DEF Erasing
<1>9. CASE Deciding(o)
  BY <1>4, <1>9, DecisionMaps DEF Deciding
<1>10. CASE Replying(o)
  BY <1>4, <1>10, ReplyMaps DEF Replying
<1>11. CASE Measuring(o)
  BY <1>11, DistanceMaps
<1>12. QED
  BY <1>2, <1>3, <1>6, <1>7, <1>8, <1>9, <1>10, <1>11 DEF Working

LEMMA LifecycleStep ==
    ASSUME Held1, [Next]_vars
    PROVE  Lifecycle!Next \/ UNCHANGED Stages
<1>1. CASE InsertTestLoad
  BY <1>1, InsertTestLoadMaps
<1>2. CASE DbExecute
  BY <1>2, DbExecuteMaps
<1>3. CASE UNCHANGED db
  BY <1>3, StagesStay
<1>4. InsertTestLoad \/ DbExecute \/ UNCHANGED db
  BY DEF Next, vars, DbFail, Login, LoginAnswered, Logout, Refresh, LoadsRead, RouteFound,
     RouteMissing, DistanceSaved, OpenDetails, PostLoad, PostReturn, LoadInserted,
     DeleteLoads, LoadDeleted, PlaceBid, BidByName, AddBid, Respond, BidsWritten,
     OpenDialog, CancelDialog, Submit, LoadWritten, Restart
<1>5. QED
  BY <1>1, <1>2, <1>3, <1>4

-----------------------------------------------------------------------------
(* The theorems. *)

(* With the handlers one after the other, no failing database call and no  *)
(* return load, the rows of the table `loads` go through the stages of     *)
(* LoadLifecycle: a load is posted (insertLoad), a bidder is chosen        *)
(* (updateBidStatus), that carrier confirms or declines (confirmLoad,      *)
(* declineLoad), it is deleted, and no other write of the app moves it,    *)
(* although confirmLoad looks at no status and updateBidStatus and         *)
(* calculateDistance write a whole row they did not read for the purpose.  *)
THEOREM SerialUseRefines ==
    ASSUME Serial
    PROVE  Spec => RefinesLifecycle
<1>1. IInv /\ ListInv => Lifecycle!Init
  BY LifecycleInit
<1>2. IInv /\ IInv' /\ ListInv /\ ListInv' /\ SerialInv /\ [Next]_vars
         => Lifecycle!Next \/ UNCHANGED Stages
  BY LifecycleStep DEF Held1
<1>3. QED
  BY SerialInvariant, <1>1, <1>2, PTL DEF Spec, RefinesLifecycle, Lifecycle!Spec

(* An approval is announced when the write of the verdict is answered.     *)
LEMMA AnnouncedWhenWritten ==
    ASSUME Held1, [Next]_vars, NEW o \in OpIds,
           ops[o].kind = "respond", ops[o].verdict = "accepted",
           ops[o].step = "writeLoad", ops'[o].step = "read"
    PROVE  AwaitedBy(db, ops[o].load, ops[o].who)
<1>1. o \in InFlight
  BY DEF InFlight
<1>2. InFlight = {o} /\ Working(o)
  BY <1>1 DEF Held1, SerialInv, Resting
<1>3. Deciding(o)
  BY <1>2 DEF Working, Asking, LoggingIn, Reading, Inserting, Erasing, Bidding, Judging,
     Replying, Measuring
<1>4. ASSUME replies # <<>>
      PROVE  AwaitedBy(db, ops[o].load, ops[o].who)
  <2>1. queue = <<>>
    BY <1>3, <1>4 DEF Deciding, OneCallOf, Waits, Answers
  <2>2. QED
    BY <1>3, <2>1 DEF Deciding, Settled
<1>5. ASSUME NEW kind, CanStart(kind) PROVE FALSE
  BY <1>2, <1>5, NobodyStarted DEF CanStart, Held1
<1>6. ASSUME NEW p \in OpIds, ops[p].step = "dialog" PROVE FALSE
  <2>1. p \in InFlight
    BY <1>6 DEF InFlight
  <2>2. QED
    BY <1>2, <1>6, <2>1
<1>7. ASSUME NEW p \in OpIds, NEW l \in Loads, tasks[p][l].step # "none" PROVE FALSE
  BY <1>3, <1>7 DEF Deciding, NoTasks
<1>8. ASSUME UNCHANGED ops PROVE FALSE
  BY <1>8
<1>9. ~Restart
  <2>1. ops \in [OpIds -> Op]
    BY DEF Held1, IInv, GoodOps
  <2>2. Restart => ops'[o] = [ops[o] EXCEPT !.step = "aborted"]
    BY <1>1 DEF Restart
  <2>3. Restart => ops'[o].step = "aborted"
    BY <2>1, <2>2 DEF Op
  <2>4. QED
    BY <2>3
<1>10. CASE \/ \E u \in Users : Login(u)
            \/ Refresh \/ \E l \in Loads : OpenDetails(l) \/ PostLoad(l) \/ PostReturn(l)
            \/ \E chosen \in SUBSET Loads \ {{}} : DeleteLoads(chosen)
            \/ \E l \in Loads : PlaceBid(l) \/ BidByName(l)
            \/ \E l \in Loads, b \in Bidders, v \in {"accepted", "rejected", "countered"} :
                  Respond(l, b, v)
            \/ \E l \in Loads, kind \in {"confirm", "decline"} : OpenDialog(l, kind)
  BY <1>5, <1>10 DEF Login, Refresh, OpenDetails, PostLoad, PostReturn, DeleteLoads,
     PlaceBid, BidByName, AddBid, Respond, OpenDialog
<1>11. CASE \/ LoginAnswered \/ LoadsRead \/ DistanceSaved \/ LoadInserted \/ LoadDeleted
            \/ BidsWritten \/ LoadWritten
  BY <1>4, <1>11 DEF LoginAnswered, LoadsRead, DistanceSaved, LoadInserted, LoadDeleted,
     BidsWritten, LoadWritten, Resumed
<1>12. CASE \/ \E p \in OpIds : CancelDialog(p) \/ Submit(p)
            \/ \E p \in OpIds, l \in Loads : RouteFound(p, l) \/ RouteMissing(p, l)
  BY <1>6, <1>7, <1>12 DEF CancelDialog, Submit, RouteFound, RouteMissing
<1>13. CASE InsertTestLoad \/ DbExecute \/ DbFail \/ Logout \/ UNCHANGED vars
  BY <1>8, <1>13 DEF InsertTestLoad, DbExecute, DbFail, Logout, vars
<1>14. QED
  BY <1>9, <1>10, <1>11, <1>12, <1>13 DEF Next, Users

(* When the broker is told that a bid is approved, the table says that the *)
(* load awaits that carrier: updateBidStatus writes what stands at the     *)
(* index it found before its first await, and in serial use that is still  *)
(* the load it was called for.                                             *)
THEOREM ApprovalIsStored ==
    ASSUME Serial
    PROVE  Spec => ApprovedMeansAwaiting
<1>1. IInv /\ IInv' /\ ListInv /\ ListInv' /\ SerialInv /\ [Next]_vars =>
         [\A o \in OpIds :
            /\ ops[o].kind = "respond" /\ ops[o].verdict = "accepted"
            /\ ops[o].step = "writeLoad" /\ ops'[o].step = "read"
            => \A i \in DOMAIN db :
                  db[i].id = ops[o].load =>
                      db[i].status = "awaiting" /\ db[i].selected = ops[o].who]_vars
  BY AnnouncedWhenWritten DEF Held1, AwaitedBy
<1>2. QED
  BY SerialInvariant, <1>1, PTL DEF Spec, ApprovedMeansAwaiting

(* A board on which nothing is running shows what a fetch would read: the  *)
(* same loads with the same status, carrier and bids, although addLoad,    *)
(* deleteLoad, confirmLoad, declineLoad and the distance lookups change    *)
(* list and table separately and do not fetch afterwards.  (A bid under    *)
(* the user's name is written without a fetch and without its status.)     *)
THEOREM RestingBoardIsCurrent ==
    ASSUME Serial, "bidByName" \notin Buttons
    PROVE  Spec => []QuietBoardIsCurrent
<1>1. IInv /\ ListInv /\ SerialInv => QuietBoardIsCurrent
  <2> SUFFICES ASSUME IInv, ListInv, SerialInv, InFlight = {}, user # NoOne
               PROVE  /\ Len(mem) = Len(db)
                      /\ \A i \in DOMAIN db :
                            /\ mem[i].id = db[i].id
                            /\ mem[i].status = db[i].status
                            /\ mem[i].selected = db[i].selected
                            /\ mem[i].list # 0 =>
                                  \A b \in Bidders :
                                     BidOf(db[i].id, b) = ParseBids(db[i].bids)[b]
    BY DEF QuietBoardIsCurrent, Quiet
  <2>1. Shows(mem, db)
    BY DEF SerialInv, Resting
  <2>2. /\ mem \in Seq(GoodPost) /\ db \in Seq(GoodRow)
        /\ \A i \in DOMAIN db : db[i].id \in Loads
        /\ \A l \in Loads : UniqueAt(db, l)
    <3>1. mem \in Seq(GoodPost) /\ db \in Seq(GoodRow)
      BY DEF IInv, GoodMem, GoodDb
    <3>2. \A i \in DOMAIN db : db[i].id \in Loads
      BY <3>1, LenProperties, ElementOfSeq DEF GoodRow, Row
    <3>3. QED
      BY <3>1, <3>2 DEF ListInv, Unique
  <2>3. Aligned(mem, db) /\ Len(mem) = Len(db)
    BY <2>1 DEF Shows, Aligned
  <2>4. /\ DOMAIN mem = DOMAIN db /\ \A i \in DOMAIN mem : mem[i].id = db[i].id
        /\ \A l : UniqueAt(mem, l) <=> UniqueAt(db, l)
    BY <2>2, <2>3, AlignedIds
  <2>5. ASSUME NEW i \in DOMAIN db
        PROVE  /\ mem[i].id = db[i].id
               /\ mem[i].status = db[i].status
               /\ mem[i].selected = db[i].selected
               /\ mem[i].list # 0 =>
                     \A b \in Bidders : BidOf(db[i].id, b) = ParseBids(db[i].bids)[b]
    <3>1. i \in DOMAIN mem /\ mem[i].id = db[i].id
      BY <2>4
    <3>2. SameStage(mem[i], db[i]) /\ SameBids(mem[i], db[i])
      BY <2>1, <3>1 DEF Shows, SamePost
    <3>3. IndexOf(mem, db[i].id) = i /\ i # 0
      <4>1. UniqueAt(mem, mem[i].id)
        BY <2>2, <2>4, <3>1
      <4>2. IndexOf(mem, mem[i].id) = i
        BY <2>2, <3>1, <4>1, UniqueIndex
      <4>3. i # 0
        BY <2>2, LenProperties
      <4>4. QED
        BY <3>1, <4>2, <4>3
    <3>4. ASSUME mem[i].list # 0, NEW b \in Bidders
          PROVE  BidOf(db[i].id, b) = ParseBids(db[i].bids)[b]
      <4>1. BidOf(db[i].id, b) = lists[mem[i].list][db[i].id][b]
        BY <3>3, <3>4 DEF BidOf
      <4>2. lists[mem[i].list][db[i].id] = ParseBids(db[i].bids)
        BY <3>1, <3>2, <3>4 DEF SameBids
      <4>3. QED
        BY <4>1, <4>2
    <3>5. QED
      BY <3>1, <3>2, <3>4 DEF SameStage
  <2>6. QED
    BY <2>3, <2>5
<1>2. QED
  BY SerialInvariant, <1>1, PTL
=============================================================================
