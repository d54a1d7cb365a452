----------------------- MODULE LoadBoardOverlapProofs -----------------------
(***************************************************************************)
(* What handlers that overlap leave of bids and confirmations, for every   *)
(* value of the constants of LoadBoard that meets a hypothesis on the use  *)
(* of the board: where only bids are written to the rows of others an      *)
(* acknowledged bid stays in the table; where no distance is written a     *)
(* confirmed load names a carrier; and where, besides, nothing is posted,  *)
(* deleted or bid a reported confirmation stays in the table.              *)
(*                                                                         *)
(* updateLoadBids writes all bids of a load as its caller's copy has them, *)
(* so the first fact rests on what each copy may lack: BidsInv says that   *)
(* only bids of the user who is logged in may be missing from it.          *)
(*                                                                         *)
(* confirmLoad copies whatever post the list shows when its dialog is      *)
(* submitted, so the second fact rests on which carriers a load's copies   *)
(* may name: ChoiceInv says that while a carrier is logged in they all     *)
(* name the same one, since nothing of the session before is left to       *)
(* choose.                                                                 *)
(*                                                                         *)
(* updateBidStatus writes, after an await, the row that then stands where  *)
(* it found the load, so the third fact rests on who can still be at a     *)
(* board with a copy from before the confirmation: ConfirmInv says that    *)
(* until it is reported this is the carrier who confirms, on whose board   *)
(* no bid of his on that load can be judged, and that the boards of        *)
(* everybody else were fetched behind its write.                           *)
(***************************************************************************)
EXTENDS LoadBoardProofs

-----------------------------------------------------------------------------
(* Bids.  No handler writes a whole row: nobody answers a bid or a load,   *)
(* and no distance is found.  Bids are placed from the boards.             *)
NarrowWrites ==
    /\ Buttons \cap {"respond", "confirm", "decline", "bidByName"} = {}
    /\ Located = {}

Ordinary(l) == l # EmptyId /\ \A i \in DOMAIN Seeds : Seeds[i] # l

(* A bid whose handler was told of it, and one on the way there: its call  *)
(* has a place in the pipe up to n and has not failed.                     *)
Acked(l, b) ==
    \E o \in OpIds : BidAcknowledged(o) /\ ops[o].load = l /\ ops[o].who = b
Sent(l, b, n) ==
    \E p \in DOMAIN Pipe :
        /\ p <= n /\ Pipe[p].call = "updateLoadBids" /\ Pipe[p].load = l
        /\ ops[Pipe[p].owner].who = b
        /\ p \in DOMAIN replies => replies[p].ok
Placed(l, b, n) == Acked(l, b) \/ Sent(l, b, n)

(* Which calls there are, and whose. *)
Asks(o) == ops[o].kind = "login" /\ ops[o].step = "getUser"
Fetches(o) == ops[o].kind = "login" /\ ops[o].step = "read"
Late(o) == ~Asks(o) /\ (ops[o].kind = "bid" => BidAcknowledged(o))
NarrowCall(c) ==
    /\ c.call \notin {"updateLoad", "saveDistance"}
    /\ c.call = "updateLoadBids" =>
          /\ ops[c.owner].kind = "bid" /\ ops[c.owner].load = c.load
          /\ ~BidAcknowledged(c.owner)
    /\ c.call = "insertLoad" => ops[c.owner].kind \in {"post", "return"}
    /\ c.call = "getUser" => Asks(c.owner)
    /\ c.call = "getLoads" => Late(c.owner)
NarrowCalls == \A p \in DOMAIN Pipe : NarrowCall(Pipe[p])
BidsOnce ==
    \A p, q \in DOMAIN Pipe :
        /\ Pipe[p].call = "updateLoadBids" /\ Pipe[q].call = "updateLoadBids"
        /\ Pipe[p].owner = Pipe[q].owner
        => p = q
NarrowOp(op) ==
    /\ op.kind \notin {"respond", "confirm", "decline", "bidByName"} /\ op.step # "dialog"
    /\ op.kind = "bid" => op.who \in Bidders
    /\ op.kind = "post" => op.post.list = 0
NarrowOps == \A o \in OpIds : NarrowOp(ops[o])
TasksLate ==
    \A o \in OpIds, l \in Loads : tasks[o][l].step # "none" => Late(o) /\ ~Fetches(o)

(* A load that is or was on the board is in the table, or a deletion was   *)
(* told to delete it.                                                      *)
Known(l) == Has(db, l) \/ \E o \in OpIds : l \in ops[o].chosen
LoadsKnown ==
    \A l \in Loads \ {EmptyId} :
        /\ Has(mem, l) => Known(l)
        /\ \A o \in OpIds : ops[o].kind = "bid" /\ ops[o].load = l => Known(l)
        /\ \A k \in DOMAIN replies :
              replies[k].call = "insertLoad" /\ replies[k].ok /\ replies[k].load = l => Known(l)

(* What is written, and what was written, has the bids placed before. *)
TableKeeps ==
    \A j \in DOMAIN db, b \in Bidders :
        Ordinary(db[j].id) /\ Placed(db[j].id, b, Len(replies)) => db[j].bids[b] # "none"
WritesKeep ==
    \A i \in DOMAIN queue, b \in Bidders :
        /\ queue[i].call = "updateLoadBids" /\ Ordinary(queue[i].row.id)
        /\ Placed(queue[i].row.id, b, Len(replies) + i)
        => queue[i].row.bids[b] # "none"

(* Rows that have every acknowledged bid, or all but those of u.  *)
RowsKeep(rows) ==
    \A j \in DOMAIN rows, b \in Bidders :
        Ordinary(rows[j].id) /\ Acked(rows[j].id, b) => rows[j].bids[b] # "none"
RowsKeepOthers(rows, u) ==
    \A j \in DOMAIN rows, b \in Bidders :
        Ordinary(rows[j].id) /\ b # u /\ Acked(rows[j].id, b) => rows[j].bids[b] # "none"
BoardKeeps ==
    \A i \in DOMAIN mem, b \in Bidders :
        /\ Ordinary(mem[i].id) /\ mem[i].list # 0
        /\ b # user /\ Acked(mem[i].id, b)
        => lists[mem[i].list][mem[i].id][b] # "none"

(* Someone logs in after the last bid of the user before was sent, and     *)
(* when he gets an answer it has arrived.                                  *)
AsksAlone ==
    \A o \in OpIds : Asks(o) =>
        /\ user = NoOne
        /\ \A p \in OpIds : Asks(p) \/ Fetches(p) => p = o
NoBidAfter(p) == \A q \in DOMAIN Pipe : q > p => Pipe[q].call # "updateLoadBids"
AsksAfterBids ==
    \A p \in DOMAIN Pipe : Pipe[p].call = "getUser" =>
        /\ NoBidAfter(p)
        /\ \A q \in DOMAIN Pipe : Pipe[q].call = "getUser" => p = q
FetchesAfterBids ==
    \A o \in OpIds : Fetches(o) =>
        /\ NoBidAfter(0)
        /\ \A p, k \in DOMAIN replies :
              replies[p].call = "getLoads" /\ replies[p].owner = o /\ p <= k =>
                  RowsKeep(replies[k].rows)

(* Until the next login, bids are those of the user, and what he may write *)
(* from has the bids of everybody else.                                    *)
InSession == user # NoOne /\ \A o \in OpIds : ~Asks(o) /\ ~Fetches(o)
SessionKeeps ==
    InSession =>
        /\ \A p \in DOMAIN Pipe :
              Pipe[p].call = "updateLoadBids" => ops[Pipe[p].owner].who = user
        /\ BoardKeeps
        /\ \A k \in DOMAIN replies : RowsKeepOthers(replies[k].rows, user)

BidsInv ==
    /\ NarrowCalls /\ BidsOnce /\ NarrowOps /\ TasksLate /\ LoadsKnown /\ TableKeeps /\ WritesKeep
    /\ AsksAlone /\ AsksAfterBids /\ FetchesAfterBids /\ SessionKeeps

-----------------------------------------------------------------------------
(* A step of the app, as far as bids go: d replies are taken, operations   *)
(* stay what they are, a bid is acknowledged by its reply only, and at     *)
(* most one call is made; a bid is sent by the user in session.            *)
TakenOf(o, d, call) == d = 1 /\ replies[1].call = call /\ replies[1].owner = o
Follows(d) ==
    /\ \A o \in OpIds : o <= started =>
          /\ ops'[o].kind = ops[o].kind /\ ops'[o].who = ops[o].who
          /\ ops[o].kind = "bid" => ops'[o].load = ops[o].load
    /\ \A o \in OpIds : ops[o].chosen \subseteq ops'[o].chosen
    /\ \A o \in OpIds : Asks(o)' => Asks(o) \/ o > started
    /\ \A o \in OpIds : Asks(o) => Asks(o)' \/ TakenOf(o, d, "getUser")
    /\ \A o \in OpIds : BidAcknowledged(o)' =>
          BidAcknowledged(o) \/ (TakenOf(o, d, "updateLoadBids") /\ replies[1].ok)
    /\ \A o \in OpIds : BidAcknowledged(o) => BidAcknowledged(o)'

NewPlace(p, d) == p + d = Len(replies) + Len(queue) + 1 /\ p > Len(replies')
NewNarrow(c) ==
    /\ c.owner \in OpIds
    /\ c.call \notin {"updateLoad", "saveDistance"}
    /\ c.call = "insertLoad" => ops'[c.owner].kind \in {"post", "return"}
    /\ c.call = "getLoads" =>
          /\ ~(ops'[c.owner].kind = "login" /\ ops'[c.owner].step = "getUser")
          /\ ops'[c.owner].kind = "bid" => ops'[c.owner].step = "read"
    /\ c.call = "getUser" =>
          /\ ops'[c.owner].kind = "login" /\ ops'[c.owner].step = "getUser"
          /\ \A o \in OpIds : ~Asks(o)
    /\ c.call = "updateLoadBids" =>
          /\ InSession /\ c.owner > started
          /\ ops'[c.owner].kind = "bid" /\ ops'[c.owner].step = "writeBids"
          /\ ops'[c.owner].load = c.load /\ ops'[c.owner].who = user
NewRequest(q) ==
    q.call = "updateLoadBids" =>
        /\ InSession
        /\ Ordinary(q.row.id) =>
              \A b \in Bidders : b = user \/ Acked(q.row.id, b) => q.row.bids[b] # "none"
Grows(d) ==
    /\ \A p \in DOMAIN Pipe' : Moved(p, d) \/ (NewPlace(p, d) /\ NewNarrow(Pipe'[p]))
    /\ \A i \in DOMAIN queue' :
          \/ i \in DOMAIN queue /\ queue'[i] = queue[i]
          \/ i = Len(queue) + 1 /\ NewRequest(queue'[i])
BidStep(d) ==
    /\ RepliesMoved(d) /\ Follows(d) /\ Grows(d)
    /\ UNCHANGED db

HeldBids == NarrowWrites /\ Held /\ BidsInv

LEMMA CallsNarrow ==
    ASSUME HeldBids, NEW p \in DOMAIN Pipe
    PROVE  /\ Pipe[p].owner \in OpIds /\ Pipe[p].owner <= started
           /\ NarrowCall(Pipe[p])
BY DEF HeldBids, BidsInv, NarrowCalls, Held, ListInv, CallsLinked, CallLinked

LEMMA TakenCall ==
    ASSUME HeldBids, RepliesMoved(1)
    PROVE  /\ 1 \in DOMAIN replies /\ 1 \in DOMAIN Pipe
           /\ Pipe[1] = [call |-> replies[1].call, owner |-> replies[1].owner,
                         load |-> replies[1].load]
           /\ replies[1].owner \in OpIds /\ replies[1].owner <= started
           /\ NarrowCall(Pipe[1])
<1>1. /\ 1 \in DOMAIN replies /\ 1 \in DOMAIN Pipe
      /\ Pipe[1] = [call |-> replies[1].call, owner |-> replies[1].owner,
                    load |-> replies[1].load]
  BY FirstReply DEF HeldBids, Held, Before
<1>2. /\ Pipe[1].owner \in OpIds /\ Pipe[1].owner <= started
      /\ NarrowCall(Pipe[1])
  BY <1>1, CallsNarrow
<1>3. QED
  BY <1>1, <1>2

LEMMA PlacedLater ==
    ASSUME NEW l, NEW b, NEW m \in Nat, NEW n \in Nat, m <= n, Placed(l, b, m), PipeFacts
    PROVE  Placed(l, b, n)
<1>1. \A p \in DOMAIN Pipe : p \in Nat /\ (p <= m => p <= n)
  BY DEF PipeFacts, PipeSizes
<1>2. QED
  BY <1>1 DEF Placed, Sent

LEMMA AcksCome ==
    ASSUME HeldBids, NEW d \in {0, 1}, RepliesMoved(d), Follows(d),
           NEW l, NEW b, Acked(l, b)'
    PROVE  Placed(l, b, d)
<1>1. PICK o \in OpIds : BidAcknowledged(o)' /\ ops'[o].load = l /\ ops'[o].who = b
  BY DEF Acked
<1>2. CASE BidAcknowledged(o)
  <2>1. ops[o].kind = "bid" /\ o <= started
    <3>1. ops[o].kind = "bid" /\ (o > started <=> ops[o].kind = "none")
      BY <1>2 DEF BidAcknowledged, HeldBids, Held, ListInv, OpsShaped
    <3>2. o \in Nat /\ started \in Nat
      BY BoundsAssumption DEF OpIds, HeldBids, Held, IInv, GoodOps
    <3>3. QED
      BY <3>1, <3>2
  <2>2. ops[o].load = l /\ ops[o].who = b
    BY <1>1, <2>1 DEF Follows
  <2>3. QED
    BY <1>2, <2>2 DEF Placed, Acked
<1>3. CASE ~BidAcknowledged(o)
  <2>1. d = 1 /\ replies[1].call = "updateLoadBids" /\ replies[1].owner = o /\ replies[1].ok
    BY <1>1, <1>3 DEF Follows, TakenOf
  <2>2. /\ 1 \in DOMAIN replies /\ 1 \in DOMAIN Pipe
        /\ Pipe[1].call = "updateLoadBids" /\ Pipe[1].owner = o /\ o <= started
        /\ NarrowCall(Pipe[1])
    BY <2>1, TakenCall
  <2>3. ops[o].kind = "bid" /\ ops[o].load = Pipe[1].load
    BY <2>2 DEF NarrowCall
  <2>4. Pipe[1].load = l /\ ops[o].who = b
    BY <1>1, <2>2, <2>3 DEF Follows
  <2>5. QED
    BY <2>1, <2>2, <2>4 DEF Placed, Sent
<1>4. QED
  BY <1>2, <1>3

LEMMA PlacedComes ==
    ASSUME HeldBids, NEW d \in {0, 1}, BidStep(d), NEW l, NEW b, NEW n \in Nat,
           Placed(l, b, n)'
    PROVE  \/ Placed(l, b, n + d)
           \/ n + d >= Len(replies) + Len(queue) + 1 /\ InSession /\ b = user
<1>1. PipeFacts /\ PipeFacts' /\ n + d \in Nat /\ d <= n + d
  BY DEF HeldBids, Held, Before
<1>2. CASE Acked(l, b)'
  BY <1>1, <1>2, AcksCome, PlacedLater DEF BidStep
<1>3. CASE Sent(l, b, n)'
  <2>1. PICK p \in DOMAIN Pipe' :
            /\ p <= n /\ Pipe'[p].call = "updateLoadBids" /\ Pipe'[p].load = l
            /\ ops'[Pipe'[p].owner].who = b
            /\ p \in DOMAIN replies' => replies'[p].ok
    BY <1>3 DEF Sent
  <2>2. p \in Nat /\ p + d <= n + d
    BY <1>1, <2>1 DEF PipeFacts, PipeSizes
  <2>3. CASE Moved(p, d)
    <3>1. p + d \in DOMAIN Pipe /\ Pipe'[p] = Pipe[p + d]
      BY <2>3 DEF Moved
    <3>2. /\ Pipe[p + d].owner \in OpIds /\ Pipe[p + d].owner <= started
      BY <3>1, CallsNarrow
    <3>3. ops[Pipe[p + d].owner].who = b
      BY <2>1, <3>1, <3>2 DEF BidStep, Follows
    <3>4. p + d \in DOMAIN replies => replies[p + d].ok
      <4>1. ASSUME p + d \in DOMAIN replies PROVE p \in DOMAIN replies'
        BY <1>1, <2>2, <2>1, <4>1 DEF PipeFacts, PipeSizes, BidStep, RepliesMoved
      <4>2. QED
        BY <2>1, <4>1 DEF BidStep, RepliesMoved
    <3>5. QED
      BY <2>1, <2>2, <3>1, <3>3, <3>4 DEF Placed, Sent
  <2>4. CASE NewPlace(p, d) /\ NewNarrow(Pipe'[p])
    <3>1. InSession /\ b = user
      BY <2>1, <2>4 DEF NewNarrow
    <3>2. n + d >= Len(replies) + Len(queue) + 1
      <4>1. p + d = Len(replies) + Len(queue) + 1
        BY <2>4 DEF NewPlace
      <4>2. QED
        BY <1>1, <2>2, <4>1
    <3>3. QED
      BY <3>1, <3>2
  <2>5. QED
    BY <2>3, <2>4 DEF BidStep, Grows
<1>4. QED
  BY <1>2, <1>3 DEF Placed

LEMMA TableKept ==
    ASSUME HeldBids, NEW d \in {0, 1}, BidStep(d)
    PROVE  TableKeeps'
<1> SUFFICES ASSUME NEW j \in DOMAIN db', NEW b \in Bidders, Ordinary(db'[j].id),
                    Placed(db[j].id, b, Len(replies))'
             PROVE  db'[j].bids[b] # "none"
  BY DEF TableKeeps
<1>1. /\ Len(replies) \in Nat /\ Len(queue) \in Nat /\ Len(replies') \in Nat
      /\ Len(replies') + d = Len(replies)
  BY DEF HeldBids, Held, Before, PipeFacts, PipeSizes, BidStep, RepliesMoved
<1>2. PICK l : l = db'[j].id
  OBVIOUS
<1>3. PICK n \in Nat : n = Len(replies')
  BY <1>1
<1>4. Placed(l, b, n)'
  BY <1>2, <1>3 DEF Placed, Acked, Sent
<1>5. n + d = Len(replies) /\ ~(n + d >= Len(replies) + Len(queue) + 1)
  BY <1>1, <1>3
<1>6. Placed(l, b, n + d)
  BY <1>4, <1>5, PlacedComes
<1>7. QED
  BY <1>2, <1>5, <1>6 DEF BidStep, HeldBids, BidsInv, TableKeeps

LEMMA WritesKept ==
    ASSUME HeldBids, NEW d \in {0, 1}, BidStep(d)
    PROVE  WritesKeep'
<1> SUFFICES ASSUME NEW i \in DOMAIN queue', NEW b \in Bidders,
                    queue'[i].call = "updateLoadBids", Ordinary(queue'[i].row.id),
                    Placed(queue[i].row.id, b, Len(replies) + i)'
             PROVE  queue'[i].row.bids[b] # "none"
  BY DEF WritesKeep
<1>1. /\ Len(replies) \in Nat /\ Len(queue) \in Nat /\ Len(replies') \in Nat
      /\ Len(replies') + d = Len(replies) /\ i \in Nat /\ DOMAIN queue = 1..Len(queue)
  BY DEF HeldBids, Held, Before, PipeFacts, PipeSizes, BidStep, RepliesMoved
<1>2. PICK l : l = queue'[i].row.id
  OBVIOUS
<1>3. PICK n \in Nat : n = Len(replies') + i
  BY <1>1
<1>4. Placed(l, b, n)'
  BY <1>2, <1>3 DEF Placed, Acked, Sent
<1>5. n + d = Len(replies) + i
  BY <1>1, <1>3
<1>6. CASE i \in DOMAIN queue /\ queue'[i] = queue[i]
  <2>1. ~(n + d >= Len(replies) + Len(queue) + 1)
    BY <1>1, <1>5, <1>6
  <2>2. Placed(l, b, Len(replies) + i)
    BY <1>4, <1>5, <2>1, PlacedComes
  <2>3. QED
    BY <1>2, <1>6, <2>2 DEF HeldBids, BidsInv, WritesKeep
<1>7. CASE i = Len(queue) + 1 /\ NewRequest(queue'[i])
  <2>1. /\ InSession
        /\ \A c \in Bidders : c = user \/ Acked(l, c) => queue'[i].row.bids[c] # "none"
    BY <1>2, <1>7 DEF NewRequest
  <2>2. Placed(l, b, n + d) \/ b = user
    BY <1>4, PlacedComes
  <2>3. Acked(l, b) \/ b = user
    <3>1. ASSUME Sent(l, b, n + d) PROVE b = user
      BY <2>1, <3>1 DEF Sent, HeldBids, BidsInv, SessionKeeps
    <3>2. QED
      BY <2>2, <3>1 DEF Placed
  <2>4. QED
    BY <2>1, <2>3
<1>8. QED
  BY <1>6, <1>7 DEF BidStep, Grows

LEMMA CallsKeptNarrow ==
    ASSUME HeldBids, NEW d \in {0, 1}, BidStep(d)
    PROVE  NarrowCalls'
<1> SUFFICES ASSUME NEW p \in DOMAIN Pipe' PROVE NarrowCall(Pipe[p])'
  BY DEF NarrowCalls
<1>1. CASE Moved(p, d)
  <2> DEFINE c == Pipe[p + d]
  <2>1. p + d \in DOMAIN Pipe /\ Pipe'[p] = c
    BY <1>1 DEF Moved
  <2>2. c.owner \in OpIds /\ c.owner <= started /\ NarrowCall(c)
    BY <2>1, CallsNarrow
  <2>3. PICK o \in OpIds : o = c.owner
    BY <2>2
  <2>4. c.call = "getUser" => Asks(o)'
    <3> SUFFICES ASSUME c.call = "getUser", ~Asks(o)' PROVE FALSE
      OBVIOUS
    <3>1. d = 1 /\ replies[1].call = "getUser"
      BY <2>2, <2>3 DEF NarrowCall, BidStep, Follows, TakenOf
    <3>2. 1 \in DOMAIN Pipe /\ Pipe[1].call = "getUser"
      BY <3>1, TakenCall DEF BidStep
    <3>3. 1 = p + d
      BY <2>1, <3>2 DEF HeldBids, BidsInv, AsksAfterBids
    <3>4. p \in Nat /\ p # 0
      BY DEF HeldBids, Held, Before, PipeFacts, PipeSizes
    <3>5. QED
      BY <3>1, <3>3, <3>4
  <2>5. /\ ops'[o].kind = ops[o].kind
        /\ ops[o].kind = "bid" => ops'[o].load = ops[o].load
    BY <2>2, <2>3 DEF BidStep, Follows
  <2>6. c.call = "getLoads" => Late(o)'
    <3>1. o \in Nat /\ started \in Nat /\ o <= started
      BY <2>2, <2>3, BoundsAssumption DEF OpIds, HeldBids, Held, IInv, GoodOps
    <3>2. ~Asks(o) => ~Asks(o)'
      BY <3>1 DEF BidStep, Follows
    <3>3. BidAcknowledged(o) => BidAcknowledged(o)'
      BY DEF BidStep, Follows
    <3>4. QED
      BY <2>2, <2>3, <2>5, <3>2, <3>3 DEF NarrowCall, Late
  <2>7. c.call = "updateLoadBids" => ~BidAcknowledged(o)'
    <3> SUFFICES ASSUME c.call = "updateLoadBids", BidAcknowledged(o)' PROVE FALSE
      OBVIOUS
    <3>1. d = 1 /\ replies[1].call = "updateLoadBids" /\ replies[1].owner = o
      BY <2>2, <2>3 DEF NarrowCall, BidStep, Follows, TakenOf
    <3>2. 1 \in DOMAIN Pipe /\ Pipe[1].call = "updateLoadBids" /\ Pipe[1].owner = o
      BY <3>1, TakenCall DEF BidStep
    <3>3. 1 = p + d
      BY <2>1, <2>3, <3>2 DEF HeldBids, BidsInv, BidsOnce
    <3>4. p \in Nat /\ p # 0
      BY DEF HeldBids, Held, Before, PipeFacts, PipeSizes
    <3>5. QED
      BY <3>1, <3>3, <3>4
  <2> HIDE DEF c
  <2>8. QED
    BY <2>1, <2>2, <2>3, <2>4, <2>5, <2>6, <2>7 DEF NarrowCall, Asks, Late, BidAcknowledged
<1>2. CASE NewPlace(p, d) /\ NewNarrow(Pipe'[p])
  BY <1>2 DEF NewNarrow, NarrowCall, Asks, Late, BidAcknowledged
<1>3. QED
  BY <1>1, <1>2 DEF BidStep, Grows

LEMMA BidsKeptOnce ==
    ASSUME HeldBids, NEW d \in {0, 1}, BidStep(d)
    PROVE  BidsOnce'
<1> SUFFICES ASSUME NEW p \in DOMAIN Pipe', NEW q \in DOMAIN Pipe',
                    Pipe'[p].call = "updateLoadBids", Pipe'[q].call = "updateLoadBids",
                    Pipe'[p].owner = Pipe'[q].owner
             PROVE  p = q
  BY DEF BidsOnce
<1>1. p \in Nat /\ q \in Nat /\ started \in Nat
  BY BoundsAssumption DEF HeldBids, Held, Before, PipeFacts, PipeSizes, IInv, GoodOps
<1>2. \A i \in DOMAIN Pipe' :
        /\ Pipe'[i].call = "updateLoadBids"
        => \/ i + d \in DOMAIN Pipe /\ Pipe'[i] = Pipe[i + d] /\ Pipe'[i].owner <= started
           \/ NewPlace(i, d) /\ Pipe'[i].owner > started
  BY CallsNarrow DEF BidStep, Grows, Moved, NewNarrow
<1>3. PICK n \in Nat : n = Pipe'[p].owner
  <2>1. Pipe'[p].owner \in OpIds
    BY CallsNarrow DEF BidStep, Grows, Moved, NewNarrow
  <2>2. QED
    BY <2>1 DEF OpIds
<1>4. CASE n <= started
  <2>1. /\ p + d \in DOMAIN Pipe /\ Pipe'[p] = Pipe[p + d]
        /\ q + d \in DOMAIN Pipe /\ Pipe'[q] = Pipe[q + d]
    BY <1>1, <1>2, <1>3, <1>4
  <2>2. p + d = q + d
    BY <2>1 DEF HeldBids, BidsInv, BidsOnce
  <2>3. QED
    BY <1>1, <2>2
<1>5. CASE n > started
  <2>1. NewPlace(p, d) /\ NewPlace(q, d)
    BY <1>1, <1>2, <1>3, <1>5
  <2>2. p + d = q + d
    BY <2>1 DEF NewPlace
  <2>3. QED
    BY <1>1, <2>2
<1>6. QED
  BY <1>1, <1>3, <1>4, <1>5

-----------------------------------------------------------------------------
(* Logins and sessions. *)

(* Nobody logs in or is answered, though the user may log out. *)
LoginsKept ==
    /\ user' \in {user, NoOne}
    /\ \A o \in OpIds : (Asks(o)' <=> Asks(o)) /\ (Fetches(o)' <=> Fetches(o))

(* The posts on the board were there, and their bids stay. *)
BoardFrom ==
    \A i \in DOMAIN mem' :
        Ordinary(mem'[i].id) /\ mem'[i].list # 0 =>
            \E j \in DOMAIN mem :
                /\ mem[j].id = mem'[i].id /\ mem[j].list = mem'[i].list
                /\ \A b \in Bidders :
                      lists[mem[j].list][mem[j].id][b] # "none" =>
                          lists'[mem[j].list][mem[j].id][b] # "none"
BoardKnown == \A l \in Loads \ {EmptyId} : Has(mem', l) => Known(l)
BidsKnown ==
    \A o \in OpIds :
        o > started /\ ops'[o].kind = "bid" /\ ops'[o].load # EmptyId => Known(ops'[o].load)
TasksFollow ==
    \A o \in OpIds, l \in Loads :
        tasks'[o][l].step # "none" =>
            tasks[o][l].step # "none" \/ (Late(o)' /\ ~Fetches(o)')

LEMMA AsksKeptAlone ==
    ASSUME AsksAlone, LoginsKept
    PROVE  AsksAlone'
<1> SUFFICES ASSUME NEW o \in OpIds, Asks(o)'
             PROVE  /\ user' = NoOne
                    /\ \A p \in OpIds : Asks(p)' \/ Fetches(p)' => p = o
  BY DEF AsksAlone
<1>1. Asks(o)
  BY DEF LoginsKept
<1>2. user = NoOne /\ \A p \in OpIds : Asks(p) \/ Fetches(p) => p = o
  BY <1>1 DEF AsksAlone
<1>3. QED
  BY <1>2 DEF LoginsKept

LEMMA AsksKeptAfter ==
    ASSUME HeldBids, NEW d \in {0, 1}, BidStep(d)
    PROVE  AsksAfterBids'
<1> SUFFICES ASSUME NEW p \in DOMAIN Pipe', Pipe'[p].call = "getUser",
                    NEW q \in DOMAIN Pipe'
             PROVE  /\ q > p => Pipe'[q].call # "updateLoadBids"
                    /\ Pipe'[q].call = "getUser" => p = q
  BY DEF AsksAfterBids, NoBidAfter
<1>1. /\ p \in Nat /\ q \in Nat /\ Len(replies) \in Nat /\ Len(queue) \in Nat
      /\ \A i \in DOMAIN Pipe : i \in Nat /\ i < Len(replies) + Len(queue) + 1
  BY DEF HeldBids, Held, Before, PipeFacts, PipeSizes
<1>2. /\ Moved(p, d) \/ (NewPlace(p, d) /\ NewNarrow(Pipe'[p]))
      /\ Moved(q, d) \/ (NewPlace(q, d) /\ NewNarrow(Pipe'[q]))
  BY DEF BidStep, Grows
<1>3. CASE Moved(p, d)
  <2>1. p + d \in DOMAIN Pipe /\ Pipe[p + d].call = "getUser"
    BY <1>3 DEF Moved
  <2>2. PICK o \in OpIds : Asks(o)
    BY <2>1, CallsNarrow DEF NarrowCall
  <2>3. ~InSession
    BY <2>2 DEF InSession
  <2>4. CASE Moved(q, d)
    <3>1. q + d \in DOMAIN Pipe /\ Pipe'[q] = Pipe[q + d]
      BY <2>4 DEF Moved
    <3>2. /\ q + d > p + d => Pipe[q + d].call # "updateLoadBids"
          /\ Pipe[q + d].call = "getUser" => p + d = q + d
      BY <2>1, <3>1 DEF HeldBids, BidsInv, AsksAfterBids, NoBidAfter
    <3>3. (q > p => q + d > p + d) /\ (p + d = q + d => p = q)
      BY <1>1
    <3>4. QED
      BY <3>1, <3>2, <3>3
  <2>5. CASE NewPlace(q, d) /\ NewNarrow(Pipe'[q])
    BY <2>2, <2>3, <2>5 DEF NewNarrow
  <2>6. QED
    BY <1>2, <2>4, <2>5
<1>4. CASE NewPlace(p, d) /\ NewNarrow(Pipe'[p])
  <2>1. p + d = Len(replies) + Len(queue) + 1 /\ \A o \in OpIds : ~Asks(o)
    BY <1>4 DEF NewPlace, NewNarrow
  <2>2. CASE Moved(q, d)
    <3>1. q + d \in DOMAIN Pipe /\ Pipe'[q] = Pipe[q + d]
      BY <2>2 DEF Moved
    <3>2. ~(q > p)
      BY <1>1, <2>1, <3>1
    <3>3. Pipe[q + d].call # "getUser"
      BY <2>1, <3>1, CallsNarrow DEF NarrowCall
    <3>4. QED
      BY <3>1, <3>2, <3>3
  <2>3. CASE NewPlace(q, d)
    <3>1. p = q
      BY <1>1, <2>1, <2>3 DEF NewPlace
    <3>2. ~(q > p)
      BY <1>1, <3>1
    <3>3. QED
      BY <3>1, <3>2
  <2>4. QED
    BY <1>2, <2>2, <2>3
<1>5. QED
  BY <1>2, <1>3, <1>4

(* While a login fetches no bid is on its way or is acknowledged. *)
LEMMA FetchKept ==
    ASSUME HeldBids, NEW d \in {0, 1}, BidStep(d), NEW o \in OpIds, Fetches(o)
    PROVE  /\ NoBidAfter(0)'
           /\ \A p, k \in DOMAIN replies' :
                 replies'[p].call = "getLoads" /\ replies'[p].owner = o /\ p <= k =>
                     RowsKeep(replies[k].rows)'
<1>1. ~InSession
  BY DEF InSession
<1>2. /\ NoBidAfter(0)
      /\ \A p, k \in DOMAIN replies :
            replies[p].call = "getLoads" /\ replies[p].owner = o /\ p <= k =>
                RowsKeep(replies[k].rows)
  BY DEF HeldBids, BidsInv, FetchesAfterBids
<1>3. \A p \in DOMAIN Pipe : p > 0
  BY DEF HeldBids, Held, Before, PipeFacts, PipeSizes
<1>4. \A p \in DOMAIN Pipe : Pipe[p].call # "updateLoadBids"
  BY <1>2, <1>3 DEF NoBidAfter
<1>5. NoBidAfter(0)'
  <2> SUFFICES ASSUME NEW q \in DOMAIN Pipe' PROVE Pipe'[q].call # "updateLoadBids"
    BY DEF NoBidAfter
  <2>1. CASE Moved(q, d)
    BY <1>4, <2>1 DEF Moved
  <2>2. CASE NewNarrow(Pipe'[q])
    BY <1>1, <2>2 DEF NewNarrow
  <2>3. QED
    BY <2>1, <2>2 DEF BidStep, Grows
<1>6. \A l, b : Acked(l, b)' => Acked(l, b)
  <2> SUFFICES ASSUME NEW l, NEW b, Acked(l, b)' PROVE Acked(l, b)
    OBVIOUS
  <2>1. Placed(l, b, d)
    BY AcksCome DEF BidStep
  <2>2. QED
    BY <1>4, <2>1 DEF Placed, Sent
<1>7. ASSUME NEW p \in DOMAIN replies', NEW k \in DOMAIN replies',
             replies'[p].call = "getLoads", replies'[p].owner = o, p <= k
      PROVE  RowsKeep(replies[k].rows)'
  <2>1. /\ p + d \in DOMAIN replies /\ replies'[p] = replies[p + d]
        /\ k + d \in DOMAIN replies /\ replies'[k] = replies[k + d]
        /\ p \in Nat /\ k \in Nat
    BY DEF BidStep, RepliesMoved, HeldBids, Held, Before, PipeFacts, PipeSizes
  <2>2. p + d <= k + d
    BY <1>7, <2>1
  <2>3. RowsKeep(replies[k + d].rows)
    BY <1>2, <1>7, <2>1, <2>2
  <2>4. QED
    BY <1>6, <2>1, <2>3 DEF RowsKeep
<1>8. QED
  BY <1>5, <1>7

(* What is acknowledged in a session is a bid of its user. *)
LEMMA AcksInSession ==
    ASSUME HeldBids, NEW d \in {0, 1}, BidStep(d), InSession,
           NEW l, NEW b, b # user, Acked(l, b)'
    PROVE  Acked(l, b)
<1>1. Placed(l, b, d)
  BY AcksCome DEF BidStep
<1>2. ~Sent(l, b, d)
  BY DEF Sent, HeldBids, BidsInv, SessionKeeps
<1>3. QED
  BY <1>1, <1>2 DEF Placed

LEMMA SessionKept ==
    ASSUME HeldBids, NEW d \in {0, 1}, BidStep(d), LoginsKept, BoardFrom
    PROVE  SessionKeeps'
<1> SUFFICES ASSUME InSession'
             PROVE  /\ \A p \in DOMAIN Pipe' :
                         Pipe'[p].call = "updateLoadBids" => ops'[Pipe'[p].owner].who = user'
                    /\ BoardKeeps'
                    /\ \A k \in DOMAIN replies' : RowsKeepOthers(replies[k].rows, user)'
  BY DEF SessionKeeps
<1>1. InSession /\ user' = user
  BY DEF InSession, LoginsKept
<1>2. /\ \A p \in DOMAIN Pipe :
            Pipe[p].call = "updateLoadBids" => ops[Pipe[p].owner].who = user
      /\ BoardKeeps
      /\ \A k \in DOMAIN replies : RowsKeepOthers(replies[k].rows, user)
  BY <1>1 DEF HeldBids, BidsInv, SessionKeeps
<1>3. \A l, b : b # user /\ Acked(l, b)' => Acked(l, b)
  BY <1>1, AcksInSession
<1>4. ASSUME NEW p \in DOMAIN Pipe', Pipe'[p].call = "updateLoadBids"
      PROVE  ops'[Pipe'[p].owner].who = user'
  <2>1. CASE Moved(p, d)
    <3>1. p + d \in DOMAIN Pipe /\ Pipe'[p] = Pipe[p + d]
      BY <2>1 DEF Moved
    <3>2. Pipe[p + d].owner \in OpIds /\ Pipe[p + d].owner <= started
      BY <3>1, CallsNarrow
    <3>3. QED
      BY <1>1, <1>2, <1>4, <3>1, <3>2 DEF BidStep, Follows
  <2>2. CASE NewNarrow(Pipe'[p])
    BY <1>1, <1>4, <2>2 DEF NewNarrow
  <2>3. QED
    BY <2>1, <2>2 DEF BidStep, Grows
<1>5. BoardKeeps'
  <2> SUFFICES ASSUME NEW i \in DOMAIN mem', NEW b \in Bidders, Ordinary(mem'[i].id),
                      mem'[i].list # 0, b # user', Acked(mem[i].id, b)'
               PROVE  lists'[mem'[i].list][mem'[i].id][b] # "none"
    BY DEF BoardKeeps
  <2>1. PICK j \in DOMAIN mem :
            /\ mem[j].id = mem'[i].id /\ mem[j].list = mem'[i].list
            /\ \A c \in Bidders : lists[mem[j].list][mem[j].id][c] # "none" =>
                                      lists'[mem[j].list][mem[j].id][c] # "none"
    BY DEF BoardFrom
  <2>2. PICK l : l = mem'[i].id
    OBVIOUS
  <2>3. Acked(l, b)'
    BY <2>2 DEF Acked
  <2>4. Acked(mem[j].id, b)
    BY <1>1, <1>3, <2>1, <2>2, <2>3
  <2>5. lists[mem[j].list][mem[j].id][b] # "none"
    BY <1>1, <1>2, <2>1, <2>4 DEF BoardKeeps
  <2>6. QED
    BY <2>1, <2>5
<1>6. ASSUME NEW k \in DOMAIN replies'
      PROVE  RowsKeepOthers(replies[k].rows, user)'
  <2>1. k + d \in DOMAIN replies /\ replies'[k] = replies[k + d]
    BY DEF BidStep, RepliesMoved
  <2>2. RowsKeepOthers(replies[k + d].rows, user)
    BY <1>2, <2>1
  <2>3. QED
    BY <1>1, <1>3, <2>1, <2>2 DEF RowsKeepOthers
<1>7. QED
  BY <1>4, <1>5, <1>6

LEMMA KnownKept ==
    ASSUME HeldBids, NEW d \in {0, 1}, BidStep(d), BoardKnown, BidsKnown
    PROVE  LoadsKnown'
<1>1. \A l : Known(l) => Known(l)'
  BY DEF Known, BidStep, Follows
<1> SUFFICES ASSUME NEW l \in Loads \ {EmptyId}
             PROVE  /\ Has(mem', l) => Known(l)'
                    /\ \A o \in OpIds : ops'[o].kind = "bid" /\ ops'[o].load = l => Known(l)'
                    /\ \A k \in DOMAIN replies' :
                          replies'[k].call = "insertLoad" /\ replies'[k].ok
                          /\ replies'[k].load = l => Known(l)'
  BY DEF LoadsKnown
<1>2. Has(mem', l) => Known(l)'
  BY <1>1 DEF BoardKnown
<1>3. ASSUME NEW o \in OpIds, ops'[o].kind = "bid", ops'[o].load = l
      PROVE  Known(l)'
  <2>1. o \in Nat /\ started \in Nat
    BY BoundsAssumption DEF OpIds, HeldBids, Held, IInv, GoodOps
  <2>2. CASE o <= started
    <3>1. ops[o].kind = "bid" /\ ops[o].load = l
      BY <1>3, <2>2 DEF BidStep, Follows
    <3>2. QED
      BY <1>1, <3>1 DEF HeldBids, BidsInv, LoadsKnown
  <2>3. CASE o > started
    BY <1>1, <1>3, <2>3 DEF BidsKnown
  <2>4. QED
    BY <2>1, <2>2, <2>3
<1>4. ASSUME NEW k \in DOMAIN replies', replies'[k].call = "insertLoad", replies'[k].ok,
             replies'[k].load = l
      PROVE  Known(l)'
  <2>1. k + d \in DOMAIN replies /\ replies'[k] = replies[k + d]
    BY DEF BidStep, RepliesMoved
  <2>2. QED
    BY <1>1, <1>4, <2>1 DEF HeldBids, BidsInv, LoadsKnown
<1>5. QED
  BY <1>2, <1>3, <1>4

LEMMA TasksKeptLate ==
    ASSUME HeldBids, NEW d \in {0, 1}, BidStep(d), LoginsKept, TasksFollow
    PROVE  TasksLate'
<1> SUFFICES ASSUME NEW o \in OpIds, NEW l \in Loads, tasks'[o][l].step # "none"
             PROVE  Late(o)' /\ ~Fetches(o)'
  BY DEF TasksLate
<1>1. CASE tasks[o][l].step # "none"
  <2>1. Late(o) /\ ~Fetches(o) /\ o <= started
    BY <1>1 DEF HeldBids, BidsInv, TasksLate, Held, ListInv, TasksLinked
  <2>2. ~Asks(o)' /\ ~Fetches(o)'
    BY <2>1 DEF LoginsKept, Late
  <2>3. ops'[o].kind = ops[o].kind /\ (BidAcknowledged(o) => BidAcknowledged(o)')
    BY <2>1 DEF BidStep, Follows
  <2>4. QED
    BY <2>1, <2>2, <2>3 DEF Late
<1>2. CASE Late(o)' /\ ~Fetches(o)'
  BY <1>2
<1>3. QED
  BY <1>1, <1>2 DEF TasksFollow

LEMMA BidStepKeeps ==
    ASSUME HeldBids, NEW d \in {0, 1}, BidStep(d), LoginsKept, BoardFrom, BoardKnown,
           BidsKnown, TasksFollow, NarrowOps'
    PROVE  BidsInv'
<1>1. NarrowCalls' /\ BidsOnce' /\ TasksLate' /\ LoadsKnown' /\ TableKeeps' /\ WritesKeep'
  BY CallsKeptNarrow, BidsKeptOnce, TasksKeptLate, KnownKept, TableKept, WritesKept
<1>2. AsksAlone' /\ AsksAfterBids' /\ SessionKeeps'
  BY AsksKeptAlone, AsksKeptAfter, SessionKept DEF HeldBids, BidsInv
<1>3. FetchesAfterBids'
  BY FetchKept DEF FetchesAfterBids, LoginsKept
<1>4. QED
  BY <1>1, <1>2, <1>3 DEF BidsInv

-----------------------------------------------------------------------------
(* The parts of a step. *)

LEMMA OpFacts ==
    ASSUME HeldBids
    PROVE  /\ started \in Nat /\ OpIds \subseteq Nat
           /\ \A o \in OpIds : OpShaped(ops[o]) /\ (o > started <=> ops[o].kind = "none")
BY BoundsAssumption DEF OpIds, HeldBids, Held, IInv, GoodOps, ListInv, OpsShaped

LEMMA OpsAsTheyWere ==
    ASSUME HeldBids, NEW d, UNCHANGED <<ops, started>>
    PROVE  Follows(d) /\ NarrowOps' /\ BidsKnown
<1>1. \A o \in OpIds : o > started => ops'[o].kind = "none"
  BY OpFacts
<1>2. Follows(d)
  BY DEF Follows, Asks, BidAcknowledged
<1>3. QED
  BY <1>1, <1>2 DEF HeldBids, BidsInv, NarrowOps, BidsKnown

(* One operation goes on. *)
OpMoves(o, d) ==
    /\ \A p \in OpIds : p # o => ops'[p] = ops[p]
    /\ ops'[o].kind = ops[o].kind /\ ops'[o].who = ops[o].who
    /\ ops'[o].chosen = ops[o].chosen /\ ops'[o].post = ops[o].post
    /\ ops[o].kind # "delete" => ops'[o].load = ops[o].load
    /\ ops'[o].step \notin {"getUser", "dialog"}
    /\ Asks(o) => TakenOf(o, d, "getUser")
    /\ BidAcknowledged(o) => BidAcknowledged(o)'
    /\ BidAcknowledged(o)' =>
          BidAcknowledged(o) \/ (TakenOf(o, d, "updateLoadBids") /\ replies[1].ok)

LEMMA OpMovesOn ==
    ASSUME HeldBids, NEW d, NEW o \in OpIds, OpMoves(o, d), UNCHANGED started
    PROVE  Follows(d) /\ NarrowOps' /\ BidsKnown
<1>1. \A p \in OpIds : ops'[p].kind = ops[p].kind /\ ops'[p].who = ops[p].who
  BY DEF OpMoves
<1>2. \A p \in OpIds : ops[p].kind # "delete" => ops'[p].load = ops[p].load
  BY DEF OpMoves
<1>3. \A p \in OpIds : /\ Asks(p)' => Asks(p)
                       /\ Asks(p) => Asks(p)' \/ TakenOf(p, d, "getUser")
  BY DEF OpMoves, Asks
<1>4. \A p \in OpIds : /\ BidAcknowledged(p)' =>
                             \/ BidAcknowledged(p)
                             \/ TakenOf(p, d, "updateLoadBids") /\ replies[1].ok
                       /\ BidAcknowledged(p) => BidAcknowledged(p)'
  <2> TAKE p \in OpIds
  <2>1. CASE p = o
    BY <2>1 DEF OpMoves
  <2>2. CASE p # o
    <3>1. ops'[p] = ops[p]
      BY <2>2 DEF OpMoves
    <3>2. QED
      BY <3>1 DEF BidAcknowledged
  <2>3. QED
    BY <2>1, <2>2
<1>5. \A p \in OpIds : ops[p].chosen \subseteq ops'[p].chosen
  BY DEF OpMoves
<1>6. Follows(d)
  BY <1>1, <1>2, <1>3, <1>4, <1>5 DEF Follows
<1>7. NarrowOps'
  <2> SUFFICES ASSUME NEW p \in OpIds PROVE NarrowOp(ops'[p])
    BY DEF NarrowOps
  <2>1. NarrowOp(ops[p])
    BY DEF HeldBids, BidsInv, NarrowOps
  <2>2. ops'[p].post = ops[p].post /\ (ops'[p].step # ops[p].step => ops'[p].step # "dialog")
    BY DEF OpMoves
  <2>3. QED
    BY <1>1, <2>1, <2>2 DEF NarrowOp
<1>8. BidsKnown
  BY <1>1, OpFacts DEF BidsKnown
<1>9. QED
  BY <1>6, <1>7, <1>8

LEMMA OpMovesLogins ==
    ASSUME HeldBids, NEW d, NEW o \in OpIds, OpMoves(o, d), UNCHANGED user,
           \/ ops[o].kind # "login"
           \/ ~Asks(o) /\ ~Fetches(o) /\ ops'[o].step = "done"
    PROVE  LoginsKept
<1>1. \A p \in OpIds : p # o => ops'[p] = ops[p]
  BY DEF OpMoves
<1>2. ops'[o].kind = ops[o].kind
  BY DEF OpMoves
<1>3. \A p \in OpIds : (Asks(p)' <=> Asks(p)) /\ (Fetches(p)' <=> Fetches(p))
  BY <1>1, <1>2 DEF Asks, Fetches
<1>4. QED
  BY <1>3 DEF LoginsKept

(* A handler starts. *)
LEMMA OpStartsNow ==
    ASSUME HeldBids, NEW d, NEW kind, CanStart(kind), NEW op, StartOp(op),
           NarrowOp(op), op.kind = "bid" => op.step = "writeBids"
    PROVE  /\ Follows(d) /\ NarrowOps'
           /\ started + 1 \in OpIds /\ started + 1 > started
           /\ ops'[started + 1] = op /\ ops[started + 1].kind = "none"
           /\ \A o \in OpIds : o # started + 1 => ops'[o] = ops[o]
           /\ \A o \in OpIds : o > started /\ ops'[o].kind # "none" => o = started + 1
<1>1. /\ started + 1 \in OpIds /\ started \in Nat
      /\ ops'[started + 1] = op
      /\ \A o \in OpIds : o # started + 1 => ops'[o] = ops[o]
  BY OpIsNew DEF HeldBids, Held
<1>2. started + 1 > started /\ \A o \in OpIds : o <= started => o # started + 1
  BY <1>1, OpFacts
<1>3. PICK n \in OpIds : n = started + 1
  BY <1>1
<1>4. ops[n].kind = "none" /\ ops[n].chosen = {}
  BY <1>2, <1>3, OpFacts DEF OpShaped
<1>5. \A o \in OpIds : /\ Asks(o) => o # n
                       /\ BidAcknowledged(o) => o # n
                       /\ BidAcknowledged(o)' => o # n
  BY <1>1, <1>3, <1>4 DEF Asks, BidAcknowledged
<1>6. \A o \in OpIds : o # n => /\ Asks(o)' <=> Asks(o)
                                /\ BidAcknowledged(o)' <=> BidAcknowledged(o)
  BY <1>1, <1>3 DEF Asks, BidAcknowledged
<1>7. \A o \in OpIds : ops[o].chosen \subseteq ops'[o].chosen
  BY <1>1, <1>3, <1>4
<1>8. Follows(d)
  <2>1. \A o \in OpIds : Asks(o)' => Asks(o) \/ o > started
    BY <1>2, <1>3, <1>6
  <2>2. QED
    BY <1>1, <1>2, <1>5, <1>6, <1>7, <2>1 DEF Follows
<1>9. NarrowOps'
  BY <1>1, <1>3 DEF HeldBids, BidsInv, NarrowOps
<1>10. \A o \in OpIds : o > started /\ ops'[o].kind # "none" => o = started + 1
  BY <1>1, OpFacts
<1>11. QED
  BY <1>1, <1>2, <1>3, <1>4, <1>8, <1>9, <1>10

LEMMA OpStartsLogins ==
    ASSUME HeldBids, NEW kind, CanStart(kind), NEW op, StartOp(op), op.kind # "login",
           UNCHANGED user
    PROVE  LoginsKept
<1>1. /\ started + 1 \in OpIds
      /\ ops'[started + 1] = op
      /\ \A o \in OpIds : o # started + 1 => ops'[o] = ops[o]
  BY OpIsNew DEF HeldBids, Held
<1>2. PICK n \in OpIds : n = started + 1
  BY <1>1
<1>3. ops[n].kind = "none"
  BY <1>2, OpFacts
<1>4. \A o \in OpIds : (Asks(o)' <=> Asks(o)) /\ (Fetches(o)' <=> Fetches(o))
  BY <1>1, <1>2, <1>3 DEF Asks, Fetches
<1>5. QED
  BY <1>4 DEF LoginsKept

(* The pipe. *)
LEMMA NoCallMade ==
    ASSUME HeldBids, NEW d \in {0, 1}, RepliesMoved(d), UNCHANGED queue
    PROVE  Grows(d)
<1>1. \A p \in DOMAIN Pipe' : Moved(p, d)
  BY PipeKept DEF HeldBids, Held, Before
<1>2. QED
  BY <1>1 DEF Grows

LEMMA CallMade ==
    ASSUME HeldBids, NEW d \in {0, 1}, RepliesMoved(d),
           NEW o, NEW call, NEW row, Call(o, call, row),
           NewNarrow([call |-> call, owner |-> o, load |-> row.id]),
           NewRequest([call |-> call, owner |-> o, row |-> row])
    PROVE  Grows(d)
<1> DEFINE q == [call |-> call, owner |-> o, row |-> row]
<1>1. \A p \in DOMAIN Pipe' :
          \/ Moved(p, d)
          \/ NewPlace(p, d) /\ NewNarrow(Pipe'[p])
  BY PipeCalled DEF HeldBids, Held, Before, NewPlace
<1>2. \A i \in DOMAIN queue' :
          \/ i \in DOMAIN queue /\ queue'[i] = queue[i]
          \/ i = Len(queue) + 1 /\ queue'[i] = q
  <2> DEFINE S == GoodRequest \cup {q}
  <2>1. queue \in Seq(S)
    BY SeqMonotonic DEF HeldBids, Held, GoodQueue
  <2>2. q \in S
    OBVIOUS
  <2>3. Len(queue) \in Nat /\ DOMAIN queue = 1..Len(queue)
    BY <2>1, LenProperties
  <2>4. queue' = Append(queue, q)
    BY DEF Call
  <2> HIDE DEF q
  <2>5. /\ DOMAIN queue' = 1..(Len(queue) + 1)
        /\ \A i \in DOMAIN queue : queue'[i] = queue[i]
        /\ queue'[Len(queue) + 1] = q
    BY <2>1, <2>2, <2>3, <2>4, AppendProperties, LenProperties
  <2>6. QED
    BY <2>3, <2>5
<1>3. NewRequest(q)
  OBVIOUS
<1> HIDE DEF q
<1>4. QED
  BY <1>1, <1>2, <1>3 DEF Grows

(* A call that is no bid. *)
LEMMA CallOfOp ==
    ASSUME HeldBids, NEW d \in {0, 1}, RepliesMoved(d), NEW o \in OpIds,
           NEW call \in {"getLoads", "insertLoad", "deleteLoad"}, NEW row, Call(o, call, row),
           call = "getLoads" => /\ ops'[o].kind # "login" \/ ops'[o].step = "read"
                                /\ ops'[o].kind = "bid" => ops'[o].step = "read",
           call = "insertLoad" => ops'[o].kind \in {"post", "return"}
    PROVE  Grows(d)
<1> DEFINE c == [call |-> call, owner |-> o, load |-> row.id]
           q == [call |-> call, owner |-> o, row |-> row]
<1>1. c.call = call /\ c.owner = o /\ q.call = call
  OBVIOUS
<1> HIDE DEF c, q
<1>2. NewNarrow(c)
  BY <1>1 DEF NewNarrow
<1>3. NewRequest(q)
  BY <1>1 DEF NewRequest
<1>4. QED
  BY <1>2, <1>3, CallMade DEF c, q

LEMMA BoardAsItWas ==
    ASSUME HeldBids, UNCHANGED <<mem, lists>>
    PROVE  BoardFrom /\ BoardKnown
BY DEF BoardFrom, BoardKnown, HeldBids, BidsInv, LoadsKnown

LEMMA TasksAsTheyWere ==
    ASSUME UNCHANGED tasks
    PROVE  TasksFollow
BY DEF TasksFollow

-----------------------------------------------------------------------------
(* One lemma per action. *)

LEMMA BoardStart ==
    ASSUME HeldBids, NEW kind, CanStart(kind), NEW op, StartOp(op),
           op.kind \notin {"login", "bid"}, NarrowOp(op), Grows(0),
           UNCHANGED <<mem, lists, user, db, replies>>, TasksFollow
    PROVE  BidsInv'
<1>1. RepliesMoved(0)
  BY RepliesStay DEF HeldBids, Held
<1>2. /\ Follows(0) /\ NarrowOps'
      /\ ops'[started + 1] = op
      /\ \A o \in OpIds : o > started /\ ops'[o].kind # "none" => o = started + 1
  BY OpStartsNow
<1>3. LoginsKept
  BY OpStartsLogins
<1>4. BidsKnown
  BY <1>2 DEF BidsKnown
<1>5. BoardFrom /\ BoardKnown
  BY BoardAsItWas
<1>6. BidStep(0)
  BY <1>1, <1>2 DEF BidStep
<1>7. QED
  BY <1>2, <1>3, <1>4, <1>5, <1>6, BidStepKeeps

LEMMA RefreshBids ==
    ASSUME HeldBids, Refresh
    PROVE  BidsInv'
<1> DEFINE op == Handler("refresh", "read", NoOp.load, user)
<1>1. op.kind = "refresh" /\ op.step = "read"
  BY HandlerShape
<1> HIDE DEF op
<1>2. /\ CanStart("refresh") /\ StartOp(op) /\ Call(started + 1, "getLoads", AnyRow)
      /\ UNCHANGED <<mem, lists, tasks, user, db, replies>>
  BY DEF Refresh, op, memory, outside, FetchLoads
<1>3. NarrowOp(op)
  BY <1>1 DEF NarrowOp
<1>4. RepliesMoved(0)
  BY <1>2, RepliesStay DEF HeldBids, Held
<1>5. PICK n \in OpIds : n = started + 1 /\ ops'[n] = op
  BY <1>2, OpIsNew DEF HeldBids, Held
<1>6. Grows(0)
  <2>1. ops'[n].kind = "refresh"
    BY <1>1, <1>5
  <2>2. Call(n, "getLoads", AnyRow)
    BY <1>2, <1>5
  <2>3. QED
    BY <1>4, <2>1, <2>2, CallOfOp
<1>7. TasksFollow
  BY <1>2, TasksAsTheyWere
<1>8. QED
  BY <1>1, <1>2, <1>3, <1>6, <1>7, BoardStart

LEMMA OpenDetailsBids ==
    ASSUME HeldBids, NEW l \in Loads, OpenDetails(l)
    PROVE  BidsInv'
<1> DEFINE op == Handler("details", "distances", l, user)
<1>1. op.kind = "details" /\ op.step = "distances"
  BY HandlerShape
<1> HIDE DEF op
<1>2. /\ CanStart("details") /\ StartOp(op)
      /\ \E task : tasks' = [tasks EXCEPT ![started + 1][l] = task]
      /\ UNCHANGED <<mem, lists, user, db, replies, queue>>
  BY DEF OpenDetails, op, outside
<1>3. NarrowOp(op)
  BY <1>1 DEF NarrowOp
<1>4. RepliesMoved(0)
  BY <1>2, RepliesStay DEF HeldBids, Held
<1>5. PICK n \in OpIds : n = started + 1 /\ ops'[n] = op
  BY <1>2, OpIsNew DEF HeldBids, Held
<1>6. Grows(0)
  BY <1>2, <1>4, NoCallMade
<1>7. TasksFollow
  <2> SUFFICES ASSUME NEW p \in OpIds, NEW k \in Loads, tasks'[p][k].step # "none",
                      tasks[p][k].step = "none"
               PROVE  Late(p)' /\ ~Fetches(p)'
    BY DEF TasksFollow
  <2>1. p = n
    BY <1>2, <1>5 DEF HeldBids, Held, IInv, GoodTasks
  <2>2. ops'[p].kind = "details"
    BY <1>1, <1>5, <2>1
  <2>3. QED
    BY <2>2 DEF Late, Asks, Fetches
<1>8. QED
  BY <1>1, <1>2, <1>3, <1>6, <1>7, BoardStart

LEMMA PosterBids ==
    ASSUME HeldBids, NEW kind \in {"post", "return"}, CanStart(kind), NEW l, NEW post,
           StartOp([Handler(kind, "insert", l, user) EXCEPT !.post = post]),
           kind = "post" => post.list = 0,
           NEW row, Call(started + 1, "insertLoad", row),
           UNCHANGED <<mem, lists, tasks, user, db, replies>>
    PROVE  BidsInv'
<1> DEFINE op == [Handler(kind, "insert", l, user) EXCEPT !.post = post]
<1>1. op.kind = kind /\ op.step = "insert" /\ op.post = post
  BY DEF Handler, NoOp
<1>2. StartOp(op)
  OBVIOUS
<1> HIDE DEF op
<1>3. NarrowOp(op)
  BY <1>1 DEF NarrowOp
<1>4. RepliesMoved(0)
  BY RepliesStay DEF HeldBids, Held
<1>5. PICK n \in OpIds : n = started + 1 /\ ops'[n] = op
  BY <1>2, OpIsNew DEF HeldBids, Held
<1>6. Grows(0)
  <2>1. ops'[n].kind \in {"post", "return"}
    BY <1>1, <1>5
  <2>2. Call(n, "insertLoad", row)
    BY <1>5
  <2>3. QED
    BY <1>4, <2>1, <2>2, CallOfOp
<1>7. TasksFollow
  BY TasksAsTheyWere
<1>8. QED
  BY <1>1, <1>2, <1>3, <1>6, <1>7, BoardStart

LEMMA PostLoadBids ==
    ASSUME HeldBids, NEW l \in Loads, PostLoad(l)
    PROVE  BidsInv'
<1>1. /\ CanStart("post")
      /\ StartOp([Handler("post", "insert", l, user) EXCEPT !.post = FreshPost(l)])
      /\ Call(started + 1, "insertLoad", FreshRow(l))
      /\ UNCHANGED <<mem, lists, tasks, user, db, replies>>
  BY DEF PostLoad, memory, outside
<1>2. FreshPost(l).list = 0
  BY DEF FreshPost
<1>3. QED
  BY <1>1, <1>2, PosterBids

LEMMA PostReturnBids ==
    ASSUME HeldBids, NEW l \in Loads, PostReturn(l)
    PROVE  BidsInv'
<1> DEFINE post == [mem[IndexOf(mem, l)] EXCEPT !.id = EmptyId, !.list = started + 1]
<1>1. /\ CanStart("return")
      /\ StartOp([Handler("return", "insert", EmptyId, user) EXCEPT !.post = post])
      /\ Call(started + 1, "insertLoad", ToRow(post))
      /\ UNCHANGED <<mem, lists, tasks, user, db, replies>>
  BY DEF PostReturn, memory, outside
<1> HIDE DEF post
<1>2. QED
  BY <1>1, PosterBids

LEMMA DeleteLoadsBids ==
    ASSUME HeldBids, NEW chosen \in SUBSET Loads, DeleteLoads(chosen)
    PROVE  BidsInv'
<1>1. CanStart("delete") /\ UNCHANGED <<mem, lists, tasks, user, db, replies>>
  BY DEF DeleteLoads, memory, outside
<1>2. PICK l \in chosen :
          /\ StartOp([Handler("delete", "delete", l, user) EXCEPT
                         !.chosen = chosen, !.todo = chosen \ {l}])
          /\ Call(started + 1, "deleteLoad", FreshRow(l))
  BY DEF DeleteLoads
<1> DEFINE op == [Handler("delete", "delete", l, user) EXCEPT
                     !.chosen = chosen, !.todo = chosen \ {l}]
<1>3. op.kind = "delete" /\ op.step = "delete"
  BY DEF Handler, NoOp
<1>4. StartOp(op)
  BY <1>2
<1> HIDE DEF op
<1>5. NarrowOp(op)
  BY <1>3 DEF NarrowOp
<1>6. RepliesMoved(0)
  BY <1>1, RepliesStay DEF HeldBids, Held
<1>7. PICK n \in OpIds : n = started + 1
  BY <1>1, <1>4, OpIsNew DEF HeldBids, Held
<1>8. Grows(0)
  BY <1>2, <1>6, <1>7, CallOfOp
<1>9. TasksFollow
  BY <1>1, TasksAsTheyWere
<1>10. QED
  BY <1>1, <1>3, <1>4, <1>5, <1>8, <1>9, BoardStart

(* The app does not stir, or only its user leaves. *)
LEMMA LogoutBids ==
    ASSUME HeldBids, user' \in {user, NoOne},
           UNCHANGED <<mem, lists, tasks, ops, started, db, queue, replies>>
    PROVE  BidsInv'
<1>1. RepliesMoved(0)
  BY RepliesStay DEF HeldBids, Held
<1>2. Follows(0) /\ NarrowOps' /\ BidsKnown
  BY OpsAsTheyWere
<1>3. LoginsKept
  BY DEF LoginsKept, Asks, Fetches
<1>4. BoardFrom /\ BoardKnown /\ TasksFollow
  BY BoardAsItWas, TasksAsTheyWere
<1>5. Grows(0)
  BY <1>1, NoCallMade
<1>6. BidStep(0)
  BY <1>1, <1>2, <1>5 DEF BidStep
<1>7. QED
  BY <1>2, <1>3, <1>4, <1>6, BidStepKeeps

LEMMA OpSteps ==
    ASSUME HeldBids, NEW o \in OpIds, NEW s, ops' = [ops EXCEPT ![o].step = s]
    PROVE  /\ \A p \in OpIds : p # o => ops'[p] = ops[p]
           /\ ops'[o].kind = ops[o].kind /\ ops'[o].who = ops[o].who
           /\ ops'[o].chosen = ops[o].chosen /\ ops'[o].post = ops[o].post
           /\ ops'[o].load = ops[o].load /\ ops'[o].step = s
BY DEF HeldBids, Held, IInv, GoodOps, Op

(* The continuation of a call that is no login's goes on. *)
LEMMA AnswerTaken ==
    ASSUME HeldBids, NEW d \in {0, 1}, RepliesMoved(d), NEW o \in OpIds, OpMoves(o, d),
           \/ ops[o].kind # "login"
           \/ ~Asks(o) /\ ~Fetches(o) /\ ops'[o].step = "done",
           Grows(d), BoardFrom, BoardKnown, TasksFollow, UNCHANGED <<started, user, db>>
    PROVE  BidsInv'
<1>1. Follows(d) /\ NarrowOps' /\ BidsKnown
  BY OpMovesOn
<1>2. LoginsKept
  BY OpMovesLogins
<1>3. BidStep(d)
  BY <1>1 DEF BidStep
<1>4. QED
  BY <1>1, <1>2, <1>3, BidStepKeeps

LEMMA RouteMissingBids ==
    ASSUME HeldBids, NEW o \in OpIds, NEW l \in Loads, RouteMissing(o, l)
    PROVE  BidsInv'
<1>1. /\ tasks[o][l].step = "route" /\ EndTask(o, l)
      /\ UNCHANGED <<mem, lists, started, user, db, queue, replies>>
  BY DEF RouteMissing, outside
<1>2. Late(o) /\ ~Fetches(o)
  BY <1>1 DEF HeldBids, BidsInv, TasksLate
<1>3. TasksFollow
  BY <1>1 DEF EndTask, NoTask, TasksFollow, HeldBids, Held, IInv, GoodTasks
<1>4. RepliesMoved(0)
  BY <1>1, RepliesStay DEF HeldBids, Held
<1>5. Grows(0)
  BY <1>1, <1>4, NoCallMade
<1>6. BoardFrom /\ BoardKnown
  BY <1>1, BoardAsItWas
<1>7. CASE UNCHANGED ops
  <2>1. Follows(0) /\ NarrowOps' /\ BidsKnown
    BY <1>1, <1>7, OpsAsTheyWere
  <2>2. LoginsKept
    BY <1>1, <1>7 DEF LoginsKept, Asks, Fetches
  <2>3. BidStep(0)
    BY <1>1, <1>4, <1>5, <2>1 DEF BidStep
  <2>4. QED
    BY <1>3, <1>6, <2>1, <2>2, <2>3, BidStepKeeps
<1>8. CASE ops' = [ops EXCEPT ![o].step = "done"]
  <2>1. /\ \A p \in OpIds : p # o => ops'[p] = ops[p]
        /\ ops'[o].kind = ops[o].kind /\ ops'[o].who = ops[o].who
        /\ ops'[o].chosen = ops[o].chosen /\ ops'[o].post = ops[o].post
        /\ ops'[o].load = ops[o].load /\ ops'[o].step = "done"
    BY <1>8, OpSteps
  <2>2. OpMoves(o, 0)
    BY <1>2, <2>1 DEF OpMoves, Late, BidAcknowledged
  <2>3. QED
    BY <1>1, <1>2, <1>3, <1>4, <1>5, <1>6, <2>1, <2>2, AnswerTaken DEF Late
<1>9. QED
  BY <1>1, <1>7, <1>8 DEF EndTask

LEMMA BidsWrittenBids ==
    ASSUME HeldBids, BidsWritten
    PROVE  BidsInv'
<1> DEFINE rep == replies[1]
<1>0. PICK o : o = rep.owner
  OBVIOUS
<1>1. /\ Resumed("updateLoadBids")
      /\ UNCHANGED <<mem, lists, tasks, started, user, db>>
  BY DEF BidsWritten, memory, outside
<1>2. RepliesMoved(1) /\ Head(replies) = rep /\ rep.call = "updateLoadBids"
  BY <1>1, TakesReply DEF HeldBids, Held
<1>3. o \in OpIds /\ ops[o].kind = "bid" /\ ~BidAcknowledged(o)
  <2>1. /\ Pipe[1].call = "updateLoadBids" /\ Pipe[1].owner = o
        /\ o \in OpIds /\ NarrowCall(Pipe[1])
    BY <1>0, <1>2, TakenCall
  <2>2. QED
    BY <2>1 DEF NarrowCall
<1>4. \/ /\ ops' = [ops EXCEPT ![o].step = "aborted"]
         /\ UNCHANGED queue
      \/ /\ rep.ok
         /\ ops' = [ops EXCEPT ![o].step = "read"]
         /\ Call(o, "getLoads", AnyRow)
  BY <1>0, <1>2, <1>3 DEF BidsWritten, FetchLoads
<1>5. ASSUME NEW s \in {"aborted", "read"}, s = "read" => rep.ok,
             ops' = [ops EXCEPT ![o].step = s]
      PROVE  OpMoves(o, 1) /\ ops'[o].step = s
  <2>1. /\ \A p \in OpIds : p # o => ops'[p] = ops[p]
        /\ ops'[o].kind = ops[o].kind /\ ops'[o].who = ops[o].who
        /\ ops'[o].chosen = ops[o].chosen /\ ops'[o].post = ops[o].post
        /\ ops'[o].load = ops[o].load /\ ops'[o].step = s
    BY <1>3, <1>5, OpSteps
  <2>2. ~Asks(o)
    BY <1>3 DEF Asks
  <2>3. BidAcknowledged(o)' => TakenOf(o, 1, "updateLoadBids") /\ rep.ok
    BY <1>0, <1>2, <1>5, <2>1 DEF BidAcknowledged, TakenOf
  <2>4. QED
    BY <1>3, <1>5, <2>1, <2>2, <2>3 DEF OpMoves
<1>6. BoardFrom /\ BoardKnown /\ TasksFollow
  BY <1>1, BoardAsItWas, TasksAsTheyWere
<1>7. CASE ops' = [ops EXCEPT ![o].step = "aborted"] /\ UNCHANGED queue
  <2>1. OpMoves(o, 1)
    BY <1>5, <1>7
  <2>2. Grows(1)
    BY <1>2, <1>7, NoCallMade
  <2>3. QED
    BY <1>1, <1>2, <1>3, <1>6, <2>1, <2>2, AnswerTaken
<1>8. CASE /\ rep.ok
           /\ ops' = [ops EXCEPT ![o].step = "read"]
           /\ Call(o, "getLoads", AnyRow)
  <2>1. OpMoves(o, 1) /\ ops'[o].step = "read"
    BY <1>5, <1>8
  <2>2. Grows(1)
    BY <1>2, <1>3, <1>8, <2>1, CallOfOp
  <2>3. QED
    BY <1>1, <1>2, <1>3, <1>6, <2>1, <2>2, AnswerTaken
<1>9. QED
  BY <1>4, <1>7, <1>8

LEMMA LoadInsertedBids ==
    ASSUME HeldBids, LoadInserted
    PROVE  BidsInv'
<1> DEFINE rep == replies[1]
           post == ops[rep.owner].post
<1>0. PICK o : o = rep.owner
  OBVIOUS
<1>1. /\ Resumed("insertLoad")
      /\ UNCHANGED <<lists, tasks, started, user, db>>
  BY DEF LoadInserted, outside
<1>2. /\ RepliesMoved(1) /\ Head(replies) = rep /\ rep.call = "insertLoad"
      /\ 1 \in DOMAIN replies
      /\ CallLinked([call |-> "insertLoad", owner |-> o, load |-> rep.load], started, ops)
  BY <1>0, <1>1, TakesReply DEF HeldBids, Held
<1>3. o \in OpIds /\ ops[o].kind \in {"post", "return"}
  <2>1. /\ Pipe[1].call = "insertLoad" /\ Pipe[1].owner = o
        /\ o \in OpIds /\ NarrowCall(Pipe[1])
    BY <1>0, <1>2, TakenCall
  <2>2. QED
    BY <2>1 DEF NarrowCall
<1>4. /\ mem' = (IF rep.ok THEN Append(mem, post) ELSE mem)
      /\ \/ /\ \E s \in {"aborted", "done"} : ops' = [ops EXCEPT ![o].step = s]
            /\ UNCHANGED queue
         \/ /\ ops' = [ops EXCEPT ![o].step = "read"]
            /\ Call(o, "getLoads", AnyRow)
  BY <1>0, <1>2 DEF LoadInserted, FetchLoads
<1>5. /\ rep.load = post.id
      /\ post.id # EmptyId => ops[o].kind = "post"
  BY <1>0, <1>2 DEF CallLinked
<1>6. ops[o].kind = "post" => post.list = 0
  BY <1>0, <1>3 DEF HeldBids, BidsInv, NarrowOps, NarrowOp
<1>7. post \in GoodPost
  BY <1>0, <1>3 DEF HeldBids, Held, IInv, GoodOps, Op, OpsLinked, OpLinked, GoodPost
<1>8. rep.ok /\ post.id \in Loads \ {EmptyId} => Known(post.id)
  BY <1>2, <1>5 DEF HeldBids, BidsInv, LoadsKnown
<1> HIDE DEF post
<1>9. /\ \A i \in DOMAIN mem' :
            (i \in DOMAIN mem /\ mem'[i] = mem[i]) \/ (rep.ok /\ mem'[i] = post)
  BY <1>4, <1>7, AppendProperties, LenProperties DEF HeldBids, Held, IInv, GoodMem
<1>10. BoardFrom
  BY <1>1, <1>5, <1>6, <1>9 DEF BoardFrom, Ordinary
<1>11. BoardKnown
  BY <1>8, <1>9 DEF BoardKnown, Has, HeldBids, BidsInv, LoadsKnown
<1>12. ASSUME NEW s \in {"aborted", "read", "done"}, ops' = [ops EXCEPT ![o].step = s]
       PROVE  OpMoves(o, 1) /\ ops'[o].kind = ops[o].kind
  <2>1. /\ \A p \in OpIds : p # o => ops'[p] = ops[p]
        /\ ops'[o].kind = ops[o].kind /\ ops'[o].who = ops[o].who
        /\ ops'[o].chosen = ops[o].chosen /\ ops'[o].post = ops[o].post
        /\ ops'[o].load = ops[o].load /\ ops'[o].step = s
    BY <1>3, <1>12, OpSteps
  <2>2. ~Asks(o) /\ ~BidAcknowledged(o) /\ ~BidAcknowledged(o)'
    BY <1>3, <2>1 DEF Asks, BidAcknowledged
  <2>3. QED
    BY <1>12, <2>1, <2>2 DEF OpMoves
<1>13. OpMoves(o, 1) /\ Grows(1)
  <2>1. CASE /\ \E s \in {"aborted", "done"} : ops' = [ops EXCEPT ![o].step = s]
             /\ UNCHANGED queue
    BY <1>2, <1>12, <2>1, NoCallMade
  <2>2. CASE ops' = [ops EXCEPT ![o].step = "read"] /\ Call(o, "getLoads", AnyRow)
    <3>1. OpMoves(o, 1) /\ ops'[o].kind \in {"post", "return"}
      BY <1>3, <1>12, <2>2
    <3>2. QED
      BY <1>2, <1>3, <2>2, <3>1, CallOfOp
  <2>3. QED
    BY <1>4, <2>1, <2>2
<1>14. ops[o].kind # "login"
  BY <1>3
<1>15. TasksFollow
  BY <1>1, TasksAsTheyWere
<1>16. QED
  BY <1>1, <1>2, <1>3, <1>10, <1>11, <1>13, <1>14, <1>15, AnswerTaken

(* What is left after a deletion was there before. *)
LEMMA WithoutFrom ==
    ASSUME NEW S, NEW s \in Seq(S), NEW l, NEW i \in DOMAIN Without(s, l)
    PROVE  \E j \in DOMAIN s : Without(s, l)[i] = s[j]
<1> DEFINE p == IndexOf(s, l)
<1>1. /\ Len(s) \in Nat /\ DOMAIN s = 1..Len(s) /\ p \in 0..Len(s)
  BY IndexOfSpec, LenProperties
<1>2. CASE p = 0
  BY <1>2 DEF Without
<1>3. CASE p # 0
  <2>1. Without(s, l) = [k \in 1..(Len(s) - 1) |-> IF k < p THEN s[k] ELSE s[k + 1]]
    BY <1>3 DEF Without
  <2> HIDE DEF p
  <2>2. i \in 1..(Len(s) - 1) /\ Without(s, l)[i] \in {s[i], s[i + 1]}
    BY <2>1
  <2>3. i \in DOMAIN s /\ i + 1 \in DOMAIN s
    BY <1>1, <2>2
  <2>4. QED
    BY <2>2, <2>3
<1>4. QED
  BY <1>2, <1>3

LEMMA LoadDeletedBids ==
    ASSUME HeldBids, LoadDeleted
    PROVE  BidsInv'
<1> DEFINE rep == replies[1]
           l == rep.load
<1>0. PICK o : o = rep.owner
  OBVIOUS
<1>1. /\ Resumed("deleteLoad")
      /\ UNCHANGED <<lists, tasks, started, user, db>>
  BY DEF LoadDeleted, outside
<1>2. /\ RepliesMoved(1) /\ Head(replies) = rep /\ o \in OpIds
      /\ CallLinked([call |-> "deleteLoad", owner |-> o, load |-> l], started, ops)
  BY <1>0, <1>1, TakesReply DEF HeldBids, Held
<1>3. ops[o].kind = "delete" /\ ops[o].step = "delete"
  BY <1>2 DEF CallLinked
<1>4. /\ mem' = (IF rep.ok THEN Without(mem, l) ELSE mem)
      /\ \/ /\ \E s \in {"aborted", "done"} : ops' = [ops EXCEPT ![o].step = s]
            /\ UNCHANGED queue
         \/ \E k \in ops[o].todo :
              /\ ops' = [ops EXCEPT ![o].load = k, ![o].todo = @ \ {k}]
              /\ Call(o, "deleteLoad", FreshRow(k))
  BY <1>0, <1>2 DEF LoadDeleted
<1> HIDE DEF l, rep
<1>5. \A i \in DOMAIN mem' : \E j \in DOMAIN mem : mem'[i] = mem[j]
  BY <1>4, WithoutFrom DEF HeldBids, Held, IInv, GoodMem
<1>6. BoardFrom
  BY <1>1, <1>5 DEF BoardFrom
<1>7. BoardKnown
  BY <1>5 DEF BoardKnown, Has, HeldBids, BidsInv, LoadsKnown
<1>8. /\ \A p \in OpIds : p # o => ops'[p] = ops[p]
      /\ ops'[o].kind = "delete" /\ ops'[o].who = ops[o].who
      /\ ops'[o].chosen = ops[o].chosen /\ ops'[o].post = ops[o].post
      /\ ops'[o].step \in {"aborted", "done", "delete"}
  <2>1. ops \in [OpIds -> Op] /\ ops[o] \in Op
    BY <1>2 DEF HeldBids, Held, IInv, GoodOps
  <2>2. CASE \E s \in {"aborted", "done"} : ops' = [ops EXCEPT ![o].step = s]
    BY <1>2, <1>3, <2>1, <2>2 DEF Op
  <2>3. ASSUME NEW k, ops' = [ops EXCEPT ![o].load = k, ![o].todo = @ \ {k}]
        PROVE  /\ \A p \in OpIds : p # o => ops'[p] = ops[p]
               /\ ops'[o].kind = "delete" /\ ops'[o].who = ops[o].who
               /\ ops'[o].chosen = ops[o].chosen /\ ops'[o].post = ops[o].post
               /\ ops'[o].step = "delete"
    BY <1>2, <1>3, <2>1, <2>3 DEF Op
  <2>4. QED
    BY <1>4, <2>2, <2>3
<1>9. OpMoves(o, 1)
  <2>1. ~Asks(o) /\ ~BidAcknowledged(o) /\ ~BidAcknowledged(o)'
    BY <1>3, <1>8 DEF Asks, BidAcknowledged
  <2>2. QED
    BY <1>3, <1>8, <2>1 DEF OpMoves
<1>10. Grows(1)
  <2>1. CASE UNCHANGED queue
    BY <1>2, <2>1, NoCallMade
  <2>2. ASSUME NEW k, Call(o, "deleteLoad", FreshRow(k))
        PROVE  Grows(1)
    BY <1>2, <2>2, CallOfOp
  <2>3. QED
    BY <1>4, <2>1, <2>2
<1>11. ops[o].kind # "login" /\ TasksFollow
  BY <1>1, <1>3, TasksAsTheyWere
<1>12. QED
  BY <1>1, <1>2, <1>6, <1>7, <1>9, <1>10, <1>11, AnswerTaken

LEMMA BoardIsInSession ==
    ASSUME AtBoard
    PROVE  InSession
BY DEF AtBoard, InSession, InFlight, Asks, Fetches

(* The bids written with a new one are those on the board and it. *)
LEMMA PlaceBidBids ==
    ASSUME HeldBids, NEW l \in Loads, PlaceBid(l)
    PROVE  BidsInv'
<1> DEFINE i == IndexOf(mem, l)
           old == lists[mem[i].list][l]
           bids == WithBid(old, user)
           row == [ToRow(mem[i]) EXCEPT !.bids = bids]
           op == Handler("bid", "writeBids", l, user)
<1>1. /\ op.kind = "bid" /\ op.step = "writeBids" /\ op.load = l /\ op.who = user
      /\ op.post = NoOp.post
  BY HandlerShape DEF Handler, NoOp
<1>2. /\ user \in Carriers /\ AtBoard /\ CanStart("bid") /\ i # 0 /\ mem[i].list # 0
      /\ lists' = [lists EXCEPT ![mem[i].list][l] = bids]
      /\ Call(started + 1, "updateLoadBids", row) /\ StartOp(op)
      /\ UNCHANGED <<mem, tasks, user, db, replies>>
  BY DEF PlaceBid, AddBid, outside
<1>3. i \in DOMAIN mem /\ mem[i].id = l /\ mem[i] \in Post
  <2>1. mem \in Seq(GoodPost)
    BY DEF HeldBids, Held, IInv, GoodMem
  <2>2. i \in DOMAIN mem /\ mem[i].id = l
    BY <1>2, <2>1, IndexOfSpec, LenProperties
  <2>3. mem[i] \in GoodPost
    BY <2>1, <2>2, LenProperties, ElementOfSeq
  <2>4. QED
    BY <2>2, <2>3 DEF GoodPost
<1>4. mem[i].list \in OpIds /\ lists[mem[i].list] \in [Loads -> Bids] /\ old \in Bids
  <2>1. mem[i].list \in OpIds
    BY <1>2, <1>3, BoundsAssumption DEF Post, OpIds
  <2>2. QED
    BY <2>1 DEF HeldBids, Held, IInv, GoodLists
<1>5. row.id = l /\ row.bids = bids
  BY <1>3 DEF ToRow
<1>6. /\ user \in Bidders /\ bids[user] = "pending"
      /\ \A b \in Bidders : b # user => bids[b] = old[b]
      /\ \A b \in Bidders : old[b] # "none" => bids[b] # "none"
  BY <1>2, <1>4 DEF WithBid, Bids, Bidders
<1>7. InSession
  BY <1>2, BoardIsInSession
<1>8. ASSUME Ordinary(l), NEW b \in Bidders, b = user \/ Acked(l, b)
      PROVE  bids[b] # "none"
  <2>1. CASE b = user
    BY <1>6, <2>1
  <2>2. CASE b # user
    <3>1. BoardKeeps
      BY <1>7 DEF HeldBids, BidsInv, SessionKeeps
    <3>2. old[b] # "none"
      BY <1>2, <1>3, <1>8, <2>2, <3>1 DEF BoardKeeps
    <3>3. QED
      BY <1>6, <3>2
  <2>3. QED
    BY <2>1, <2>2
<1> HIDE DEF op
<1>9. NarrowOp(op)
  BY <1>1, <1>6 DEF NarrowOp
<1>10. /\ Follows(0) /\ NarrowOps' /\ started + 1 > started
       /\ ops'[started + 1] = op
       /\ \A o \in OpIds : o > started /\ ops'[o].kind # "none" => o = started + 1
  BY <1>1, <1>2, <1>9, OpStartsNow
<1>11. PICK n \in OpIds : n = started + 1 /\ n > started /\ ops'[n] = op
  BY <1>2, <1>10, OpIsNew DEF HeldBids, Held
<1>12. RepliesMoved(0)
  BY <1>2, RepliesStay DEF HeldBids, Held
<1>13. Grows(0)
  <2> HIDE DEF bids, row
  <2> DEFINE c == [call |-> "updateLoadBids", owner |-> n, load |-> row.id]
             q == [call |-> "updateLoadBids", owner |-> n, row |-> row]
  <2>1. c.call = "updateLoadBids" /\ c.owner = n /\ c.load = l /\ q.row = row
    BY <1>5
  <2> HIDE DEF c, q
  <2>2. NewNarrow(c)
    BY <1>1, <1>7, <1>11, <2>1 DEF NewNarrow
  <2>3. NewRequest(q)
    BY <1>5, <1>7, <1>8, <2>1 DEF NewRequest
  <2>4. Call(n, "updateLoadBids", row)
    BY <1>2, <1>11
  <2>5. QED
    BY <1>12, <2>2, <2>3, <2>4, CallMade DEF c, q
<1>14. LoginsKept
  BY <1>1, <1>2, OpStartsLogins
<1>15. BoardFrom
  <2> HIDE DEF bids
  <2>1. \A a \in OpIds, k \in Loads, b \in Bidders :
            lists[a][k][b] # "none" => lists'[a][k][b] # "none"
    BY <1>2, <1>4, <1>6 DEF HeldBids, Held, IInv, GoodLists
  <2>2. \A j \in DOMAIN mem : mem[j].id \in Loads /\ (mem[j].list # 0 => mem[j].list \in OpIds)
    <3>1. \A j \in DOMAIN mem : mem[j] \in GoodPost
      BY LenProperties, ElementOfSeq DEF HeldBids, Held, IInv, GoodMem
    <3>2. QED
      BY <3>1, BoundsAssumption DEF GoodPost, Post, OpIds
  <2>3. QED
    BY <1>2, <2>1, <2>2 DEF BoardFrom
<1>16. BoardKnown
  BY <1>2 DEF BoardKnown, HeldBids, BidsInv, LoadsKnown
<1>17. BidsKnown
  <2>1. l # EmptyId => Known(l)
    BY <1>3 DEF Has, HeldBids, BidsInv, LoadsKnown
  <2>2. QED
    BY <1>1, <1>10, <2>1 DEF BidsKnown
<1>18. TasksFollow
  BY <1>2, TasksAsTheyWere
<1>19. BidStep(0)
  BY <1>2, <1>10, <1>12, <1>13 DEF BidStep
<1>20. QED
  BY <1>10, <1>14, <1>15, <1>16, <1>17, <1>18, <1>19, BidStepKeeps

(* What nobody does here. *)
LEMMA NoWideWrites ==
    ASSUME HeldBids
    PROVE  /\ \A l, b : ~AddBid("bidByName", l, b)
           /\ \A l, b, v : ~Respond(l, b, v)
           /\ \A l : \A kind \in {"confirm", "decline"} : ~OpenDialog(l, kind)
           /\ \A o \in OpIds : ~CancelDialog(o) /\ ~Submit(o)
           /\ \A o, l : ~RouteFound(o, l)
           /\ ~LoadWritten /\ ~DistanceSaved
<1>1. /\ \A kind \in {"respond", "confirm", "decline", "bidByName"} : ~CanStart(kind)
      /\ Located = {}
  BY DEF HeldBids, NarrowWrites, CanStart
<1>2. /\ \A l, b : ~AddBid("bidByName", l, b)
      /\ \A l, b, v : ~Respond(l, b, v)
      /\ \A l : \A kind \in {"confirm", "decline"} : ~OpenDialog(l, kind)
      /\ \A o, l : ~RouteFound(o, l)
  BY <1>1 DEF AddBid, Respond, OpenDialog, RouteFound
<1>3. \A o \in OpIds : ~CancelDialog(o) /\ ~Submit(o)
  BY DEF CancelDialog, Submit, HeldBids, BidsInv, NarrowOps, NarrowOp
<1>4. ASSUME NEW call \in {"updateLoad", "saveDistance"}, Resumed(call)
      PROVE  FALSE
  <2>1. RepliesMoved(1) /\ replies[1].call = call
    BY <1>4, TakesReply DEF HeldBids, Held
  <2>2. Pipe[1].call = call /\ NarrowCall(Pipe[1])
    BY <2>1, TakenCall
  <2>3. QED
    BY <2>2 DEF NarrowCall
<1>5. ~LoadWritten /\ ~DistanceSaved
  BY <1>4 DEF LoadWritten, DistanceSaved
<1>6. QED
  BY <1>2, <1>3, <1>5

(* Someone logs in: nobody is, and no bid will be sent until he has an     *)
(* answer.                                                                 *)
LEMMA LoginBids ==
    ASSUME HeldBids, NEW u, Login(u)
    PROVE  BidsInv'
<1> DEFINE op == Handler("login", "getUser", NoOp.load, u)
<1>1. op.kind = "login" /\ op.step = "getUser"
  BY HandlerShape
<1> HIDE DEF op
<1>2. /\ user = NoOne /\ \A o \in InFlight : ops[o].kind # "login"
      /\ CanStart("login") /\ StartOp(op) /\ Call(started + 1, "getUser", AnyRow)
      /\ UNCHANGED <<mem, lists, tasks, user, db, replies>>
  BY DEF Login, op, memory, outside
<1>3. \A o \in OpIds : ~Asks(o) /\ ~Fetches(o)
  BY <1>2 DEF Asks, Fetches, InFlight
<1>4. NarrowOp(op)
  BY <1>1 DEF NarrowOp
<1>5. /\ Follows(0) /\ NarrowOps'
      /\ \A o \in OpIds : o > started /\ ops'[o].kind # "none" => o = started + 1
  BY <1>1, <1>2, <1>4, OpStartsNow
<1>6. PICK n \in OpIds : /\ n = started + 1 /\ ops'[n] = op
                         /\ \A o \in OpIds : o # n => ops'[o] = ops[o]
  BY <1>2, OpIsNew DEF HeldBids, Held
<1>7. RepliesMoved(0)
  BY <1>2, RepliesStay DEF HeldBids, Held
<1>8. Grows(0)
  <2> DEFINE c == [call |-> "getUser", owner |-> n, load |-> AnyRow.id]
             q == [call |-> "getUser", owner |-> n, row |-> AnyRow]
  <2>1. c.call = "getUser" /\ c.owner = n /\ q.call = "getUser"
    OBVIOUS
  <2> HIDE DEF c, q
  <2>2. NewNarrow(c)
    BY <1>1, <1>3, <1>6, <2>1 DEF NewNarrow
  <2>3. NewRequest(q)
    BY <2>1 DEF NewRequest
  <2>4. Call(n, "getUser", AnyRow)
    BY <1>2, <1>6
  <2>5. QED
    BY <1>7, <2>2, <2>3, <2>4, CallMade DEF c, q
<1>9. BidStep(0)
  BY <1>2, <1>5, <1>7, <1>8 DEF BidStep
<1>10. BoardKnown /\ BidsKnown
  BY <1>1, <1>2, <1>5, <1>6, BoardAsItWas DEF BidsKnown
<1>11. /\ NarrowCalls' /\ BidsOnce' /\ LoadsKnown' /\ TableKeeps' /\ WritesKeep'
       /\ AsksAfterBids'
  BY <1>9, <1>10, CallsKeptNarrow, BidsKeptOnce, KnownKept, TableKept, WritesKept,
     AsksKeptAfter
<1>12. \A o \in OpIds : o # n => /\ Late(o)' <=> Late(o)
                                 /\ Asks(o)' <=> Asks(o)
                                 /\ Fetches(o)' <=> Fetches(o)
  BY <1>6 DEF Late, Asks, Fetches, BidAcknowledged
<1>13. Asks(n)' /\ ~Fetches(n)'
  BY <1>1, <1>6 DEF Asks, Fetches
<1>14. TasksLate'
  <2>1. \A l \in Loads : tasks[n][l].step = "none"
    BY <1>6, OpFacts DEF HeldBids, Held, ListInv, TasksLinked
  <2>2. QED
    BY <1>2, <1>12, <2>1 DEF TasksLate, HeldBids, BidsInv
<1>15. AsksAlone'
  BY <1>2, <1>3, <1>12, <1>13 DEF AsksAlone
<1>16. FetchesAfterBids'
  BY <1>3, <1>12, <1>13 DEF FetchesAfterBids
<1>17. SessionKeeps'
  BY <1>13 DEF SessionKeeps, InSession
<1>18. QED
  BY <1>5, <1>11, <1>14, <1>15, <1>16, <1>17 DEF BidsInv

(* The answer: every bid sent before has been executed and answered.       *)
LEMMA LoginAnsweredBids ==
    ASSUME HeldBids, LoginAnswered
    PROVE  BidsInv'
<1> DEFINE rep == replies[1]
<1>0. PICK o : o = rep.owner
  OBVIOUS
<1>1. /\ Resumed("getUser")
      /\ UNCHANGED <<mem, lists, tasks, started, db>>
  BY DEF LoginAnswered, memory, outside
<1>2. /\ RepliesMoved(1) /\ Head(replies) = rep /\ rep.call = "getUser"
  BY <1>1, TakesReply DEF HeldBids, Held
<1>3. o \in OpIds /\ Asks(o) /\ 1 \in DOMAIN Pipe /\ Pipe[1].call = "getUser"
  <2>1. /\ Pipe[1].call = "getUser" /\ Pipe[1].owner = o /\ 1 \in DOMAIN Pipe
        /\ o \in OpIds /\ NarrowCall(Pipe[1])
    BY <1>0, <1>2, TakenCall
  <2>2. QED
    BY <2>1 DEF NarrowCall
<1>4. \/ /\ ops' = [ops EXCEPT ![o].step = "aborted"]
         /\ UNCHANGED <<user, queue>>
      \/ /\ ops' = [ops EXCEPT ![o].step = "read"]
         /\ Call(o, "getLoads", AnyRow)
  BY <1>0, <1>2 DEF LoginAnswered, FetchLoads
<1>5. PICK s \in {"aborted", "read"} : ops' = [ops EXCEPT ![o].step = s]
  BY <1>4
<1>6. /\ \A p \in OpIds : p # o => ops'[p] = ops[p]
      /\ ops'[o].kind = ops[o].kind /\ ops'[o].who = ops[o].who
      /\ ops'[o].chosen = ops[o].chosen /\ ops'[o].post = ops[o].post
      /\ ops'[o].load = ops[o].load /\ ops'[o].step = s
  BY <1>3, <1>5, OpSteps
<1>7. ops[o].kind = "login" /\ ~Asks(o)' /\ (Fetches(o)' => s = "read")
  BY <1>3, <1>6 DEF Asks, Fetches
<1>8. OpMoves(o, 1)
  <2>1. TakenOf(o, 1, "getUser")
    BY <1>0, <1>2 DEF TakenOf
  <2>2. ~BidAcknowledged(o) /\ ~BidAcknowledged(o)'
    BY <1>6, <1>7 DEF BidAcknowledged
  <2>3. QED
    BY <1>6, <2>1, <2>2 DEF OpMoves
<1>9. Follows(1) /\ NarrowOps' /\ BidsKnown
  BY <1>1, <1>3, <1>8, OpMovesOn
<1>10. Grows(1)
  <2>1. CASE UNCHANGED queue
    BY <1>2, <2>1, NoCallMade
  <2>2. CASE ops' = [ops EXCEPT ![o].step = "read"] /\ Call(o, "getLoads", AnyRow)
    <3>1. ops'[o].step = "read" /\ ops'[o].kind = "login"
      BY <1>3, <1>7, <2>2, OpSteps
    <3>2. QED
      BY <1>2, <1>3, <2>2, <3>1, CallOfOp
  <2>3. QED
    BY <1>4, <2>1, <2>2
<1>11. BidStep(1)
  BY <1>1, <1>2, <1>9, <1>10 DEF BidStep
<1>12. /\ NarrowCalls' /\ BidsOnce' /\ LoadsKnown' /\ TableKeeps' /\ WritesKeep'
       /\ AsksAfterBids'
  <2>1. BoardKnown
    BY <1>1, BoardAsItWas
  <2>2. QED
    BY <1>9, <1>11, <2>1, CallsKeptNarrow, BidsKeptOnce, KnownKept, TableKept, WritesKept,
       AsksKeptAfter
<1>13. \A p \in OpIds : p # o => /\ Late(p)' <=> Late(p)
                                 /\ Asks(p)' <=> Asks(p)
                                 /\ Fetches(p)' <=> Fetches(p)
  BY <1>6 DEF Late, Asks, Fetches, BidAcknowledged
<1>14. user = NoOne /\ \A p \in OpIds : p # o => ~Asks(p) /\ ~Fetches(p)
  BY <1>3 DEF HeldBids, BidsInv, AsksAlone
<1>15. TasksLate'
  <2>1. \A l \in Loads : tasks[o][l].step = "none"
    BY <1>3 DEF HeldBids, BidsInv, TasksLate, Late
  <2>2. QED
    BY <1>1, <1>13, <2>1 DEF TasksLate, HeldBids, BidsInv
<1>16. AsksAlone'
  BY <1>7, <1>13, <1>14 DEF AsksAlone
<1>17. FetchesAfterBids'
  <2> SUFFICES ASSUME NEW p \in OpIds, Fetches(p)'
               PROVE  /\ NoBidAfter(0)'
                      /\ \A m, k \in DOMAIN replies' :
                            replies'[m].call = "getLoads" /\ replies'[m].owner = p /\ m <= k =>
                                RowsKeep(replies[k].rows)'
    BY DEF FetchesAfterBids
  <2>1. p = o
    BY <1>13, <1>14
  <2>2. ~InSession
    BY <1>3 DEF InSession
  <2>3. NoBidAfter(1)
    BY <1>3 DEF HeldBids, BidsInv, AsksAfterBids
  <2>4. ASSUME NEW q \in DOMAIN Pipe', q > 0
        PROVE  Pipe'[q].call # "updateLoadBids"
    <3>1. Moved(q, 1) \/ NewNarrow(Pipe'[q])
      BY <1>10 DEF Grows
    <3>2. CASE Moved(q, 1)
      <4>1. q + 1 \in DOMAIN Pipe /\ Pipe'[q] = Pipe[q + 1]
        BY <3>2 DEF Moved
      <4>2. q + 1 > 1
        BY <2>4 DEF HeldBids, Held, Before, PipeFacts, PipeSizes
      <4>3. QED
        BY <2>3, <4>1, <4>2 DEF NoBidAfter
    <3>3. CASE NewNarrow(Pipe'[q])
      BY <2>2, <3>3 DEF NewNarrow
    <3>4. QED
      BY <3>1, <3>2, <3>3
  <2>5. ASSUME NEW m \in DOMAIN replies', replies'[m].call = "getLoads",
               replies'[m].owner = o
        PROVE  FALSE
    <3>1. m + 1 \in DOMAIN replies /\ replies'[m] = replies[m + 1]
      BY <1>2 DEF RepliesMoved
    <3>2. m + 1 \in DOMAIN Pipe
      BY <3>1 DEF HeldBids, Held, Before, PipeFacts, PipeSizes
    <3>3. Pipe[m + 1].call = "getLoads" /\ Pipe[m + 1].owner = o
      <4>1. Pipe[m + 1] = [call |-> replies[m + 1].call, owner |-> replies[m + 1].owner,
                           load |-> replies[m + 1].load]
        BY <3>1 DEF HeldBids, Held, Before, PipeFacts, ExecutedFirst
      <4>2. replies[m + 1].call = "getLoads" /\ replies[m + 1].owner = o
        BY <2>5, <3>1
      <4>3. QED
        BY <4>1, <4>2
    <3>4. Late(o)
      BY <3>2, <3>3, CallsNarrow DEF NarrowCall
    <3>5. QED
      BY <1>3, <3>4 DEF Late
  <2>6. QED
    BY <2>1, <2>4, <2>5 DEF NoBidAfter
<1>18. SessionKeeps'
  <2>1. CASE s = "read"
    <3>1. Fetches(o)'
      BY <1>6, <1>7, <2>1 DEF Fetches
    <3>2. QED
      BY <1>3, <3>1 DEF SessionKeeps, InSession
  <2>2. CASE s = "aborted"
    <3>1. ASSUME ops' = [ops EXCEPT ![o].step = "read"] PROVE FALSE
      <4>1. ops'[o].step = "read"
        BY <1>3, <3>1, OpSteps
      <4>2. QED
        BY <1>6, <2>2, <4>1
    <3>2. user' = NoOne
      BY <1>4, <1>14, <3>1
    <3>3. QED
      BY <3>2 DEF SessionKeeps, InSession
  <2>3. QED
    BY <2>1, <2>2
<1>19. QED
  BY <1>9, <1>12, <1>15, <1>16, <1>17, <1>18 DEF BidsInv

(* Rows that have a bid put it on the board. *)
LEMMA ParsedBids ==
    ASSUME NEW bids \in Bids, NEW b \in Bidders, bids[b] # "none"
    PROVE  ParseBids(bids)[b] # "none"
<1>1. bids # NoBids
  BY DEF NoBids
<1>2. QED
  BY <1>1 DEF ParseBids

LEMMA FetchedBids ==
    ASSUME GoodLists, NEW o \in OpIds, NEW rows \in Seq(GoodRow), mem' = Fetched(rows, o),
           lists' = [lists EXCEPT ![o] =
                        [l \in Loads |-> IF Has(rows, l)
                                         THEN ParseBids(rows[IndexOf(rows, l)].bids)
                                         ELSE NoBids]],
           NEW i \in DOMAIN mem'
    PROVE  \E j \in DOMAIN rows :
              /\ rows[j].id = mem'[i].id
              /\ \A b \in Bidders :
                    rows[j].bids[b] # "none" =>
                        lists'[mem'[i].list][mem'[i].id][b] # "none"
<1>1. i \in DOMAIN rows /\ mem'[i].id = rows[i].id /\ mem'[i].list = o
  BY DEF Fetched, FromRow
<1>2. PICK l : l = rows[i].id
  OBVIOUS
<1>3. \A k \in DOMAIN rows : rows[k] \in GoodRow
  BY LenProperties, ElementOfSeq
<1>4. l \in Loads
  BY <1>1, <1>2, <1>3 DEF GoodRow, Row
<1>5. Has(rows, l)
  BY <1>1, <1>2 DEF Has
<1>6. PICK j : j = IndexOf(rows, l)
  OBVIOUS
<1>7. j \in DOMAIN rows /\ rows[j].id = l
  BY <1>5, <1>6, IndexOfSpec, LenProperties
<1>8. rows[j].bids \in Bids
  BY <1>3, <1>7 DEF GoodRow, Row
<1>9. lists'[o][l] = ParseBids(rows[j].bids)
  BY <1>4, <1>5, <1>6 DEF GoodLists
<1>10. \A b \in Bidders : rows[j].bids[b] # "none" => lists'[o][l][b] # "none"
  BY <1>8, <1>9, ParsedBids
<1>11. QED
  BY <1>1, <1>2, <1>7, <1>10

(* A fetch replaces what the board shows: in a session by rows that have   *)
(* the bids of everybody but the user, at a login by rows that have all.   *)
LEMMA LoadsReadBids ==
    ASSUME HeldBids, LoadsRead
    PROVE  BidsInv'
<1> DEFINE rep == replies[1]
<1>0. PICK o, rows : o = rep.owner /\ rows = rep.rows
  OBVIOUS
<1>1. /\ Resumed("getLoads")
      /\ UNCHANGED <<started, user, db, queue>>
  BY DEF LoadsRead, outside
<1>2. /\ RepliesMoved(1) /\ Head(replies) = rep /\ rep.call = "getLoads"
      /\ 1 \in DOMAIN replies
  BY <1>1, TakesReply DEF HeldBids, Held
<1>3. o \in OpIds /\ Late(o) /\ 1 \in DOMAIN Pipe
  <2>1. /\ Pipe[1].call = "getLoads" /\ Pipe[1].owner = o /\ 1 \in DOMAIN Pipe
        /\ o \in OpIds /\ NarrowCall(Pipe[1])
    BY <1>0, <1>2, TakenCall
  <2>2. QED
    BY <2>1 DEF NarrowCall
<1>4. /\ \E s \in {"distances", "done"} : ops' = [ops EXCEPT ![o].step = s]
      /\ UNCHANGED tasks \/ \E f : tasks' = [tasks EXCEPT ![o] = f]
      /\ \/ /\ mem' = Fetched(rows, o)
            /\ lists' = [lists EXCEPT ![o] =
                  [l \in Loads |-> IF Has(rows, l)
                                   THEN ParseBids(rows[IndexOf(rows, l)].bids)
                                   ELSE NoBids]]
         \/ mem' = <<>>
  BY <1>0, <1>2 DEF LoadsRead
<1>5. PICK s \in {"distances", "done"} : ops' = [ops EXCEPT ![o].step = s]
  BY <1>4
<1>6. /\ \A p \in OpIds : p # o => ops'[p] = ops[p]
      /\ ops'[o].kind = ops[o].kind /\ ops'[o].who = ops[o].who
      /\ ops'[o].chosen = ops[o].chosen /\ ops'[o].post = ops[o].post
      /\ ops'[o].load = ops[o].load /\ ops'[o].step = s
  BY <1>3, <1>5, OpSteps
<1>7. ~Asks(o) /\ ~Asks(o)' /\ ~Fetches(o)' /\ (BidAcknowledged(o)' <=> BidAcknowledged(o))
  BY <1>3, <1>6 DEF Late, Asks, Fetches, BidAcknowledged
<1>8. OpMoves(o, 1)
  BY <1>6, <1>7 DEF OpMoves
<1>9. Follows(1) /\ NarrowOps' /\ BidsKnown
  BY <1>1, <1>3, <1>8, OpMovesOn
<1>10. Grows(1)
  BY <1>1, <1>2, NoCallMade
<1>11. BidStep(1)
  BY <1>1, <1>2, <1>9, <1>10 DEF BidStep
<1>12. rows \in Seq(GoodRow)
  BY <1>0, <1>2 DEF HeldBids, Held, Before, PipeFacts, PipeTypes
<1>13. \A i \in DOMAIN mem' :
          \E j \in DOMAIN rows :
              /\ rows[j].id = mem'[i].id
              /\ \A b \in Bidders :
                    rows[j].bids[b] # "none" =>
                        lists'[mem'[i].list][mem'[i].id][b] # "none"
  <2>1. CASE mem' = <<>>
    BY <2>1
  <2>2. CASE mem' # <<>>
    <3>1. GoodLists
      BY DEF HeldBids, Held, IInv
    <3>2. QED
      BY <1>3, <1>4, <1>12, <2>2, <3>1, FetchedBids
  <2>3. QED
    BY <2>1, <2>2
<1>14. BoardKnown
  <2> SUFFICES ASSUME NEW l \in Loads \ {EmptyId}, Has(mem', l) PROVE Known(l)
    BY DEF BoardKnown
  <2>1. Has(rows, l)
    BY <1>13 DEF Has
  <2>2. QED
    BY <1>0, <1>2, <2>1 DEF Known, HeldBids, Held, ListInv, ReadOnce
<1>15. /\ NarrowCalls' /\ BidsOnce' /\ LoadsKnown' /\ TableKeeps' /\ WritesKeep'
       /\ AsksAfterBids'
  BY <1>9, <1>11, <1>14, CallsKeptNarrow, BidsKeptOnce, KnownKept, TableKept, WritesKept,
     AsksKeptAfter
<1>16. \A p \in OpIds : p # o => /\ Late(p)' <=> Late(p)
                                 /\ Asks(p)' <=> Asks(p)
                                 /\ Fetches(p)' <=> Fetches(p)
  BY <1>6 DEF Late, Asks, Fetches, BidAcknowledged
<1>17. TasksLate'
  <2>1. Late(o)'
    BY <1>3, <1>6, <1>7 DEF Late
  <2>2. \A p \in OpIds, l \in Loads : p # o => tasks'[p][l] = tasks[p][l]
    BY <1>4 DEF HeldBids, Held, IInv, GoodTasks
  <2>3. QED
    BY <1>7, <1>16, <2>1, <2>2 DEF TasksLate, HeldBids, BidsInv
<1>18. AsksAlone'
  BY <1>1, <1>7, <1>16 DEF AsksAlone, HeldBids, BidsInv
<1>19. FetchesAfterBids'
  <2>1. \A p \in OpIds : Fetches(p)' => Fetches(p)
    BY <1>7, <1>16
  <2>2. QED
    BY <1>11, <2>1, FetchKept DEF FetchesAfterBids
<1>20. SessionKeeps'
  <2> SUFFICES ASSUME InSession'
               PROVE  /\ \A p \in DOMAIN Pipe' :
                           Pipe'[p].call = "updateLoadBids" => ops'[Pipe'[p].owner].who = user'
                      /\ BoardKeeps'
                      /\ \A k \in DOMAIN replies' : RowsKeepOthers(replies[k].rows, user)'
    BY DEF SessionKeeps
  <2>1. user # NoOne /\ user' = user /\ \A p \in OpIds : p # o => ~Asks(p) /\ ~Fetches(p)
    BY <1>1, <1>16 DEF InSession
  <2>2. \A p \in DOMAIN Pipe' : Moved(p, 1)
    BY <1>1, <1>2, PipeKept DEF HeldBids, Held, Before
  <2>3. \A k \in DOMAIN replies' : k + 1 \in DOMAIN replies /\ replies'[k] = replies[k + 1]
    BY <1>2 DEF RepliesMoved
  <2>4. \A k \in DOMAIN replies : 1 <= k
    BY DEF HeldBids, Held, Before, PipeFacts, PipeSizes
  <2>5. /\ \A p \in DOMAIN Pipe :
              Pipe[p].call = "updateLoadBids" => ops[Pipe[p].owner].who = user
        /\ \A k \in DOMAIN replies : RowsKeepOthers(replies[k].rows, user)
        /\ \A l, b : b # user /\ Acked(l, b)' => Acked(l, b)
    <3>1. CASE Fetches(o)
      <4>1. NoBidAfter(0) /\ \A k \in DOMAIN replies : RowsKeep(replies[k].rows)
        BY <1>0, <1>2, <1>3, <2>4, <3>1 DEF HeldBids, BidsInv, FetchesAfterBids
      <4>2. \A p \in DOMAIN Pipe : Pipe[p].call # "updateLoadBids"
        BY <4>1 DEF NoBidAfter, HeldBids, Held, Before, PipeFacts, PipeSizes
      <4>3. \A l, b : Acked(l, b)' => Acked(l, b)
        <5> TAKE l, b
        <5>1. HAVE Acked(l, b)'
        <5>2. Placed(l, b, 1)
          BY <1>2, <1>9, <5>1, AcksCome
        <5>3. QED
          BY <4>2, <5>2 DEF Placed, Sent
      <4>4. QED
        BY <4>1, <4>2, <4>3 DEF RowsKeep, RowsKeepOthers
    <3>2. CASE ~Fetches(o)
      <4>1. InSession
        BY <1>7, <2>1, <3>2 DEF InSession
      <4>2. \A l, b : b # user /\ Acked(l, b)' => Acked(l, b)
        BY <1>11, <4>1, AcksInSession
      <4>3. QED
        BY <4>1, <4>2 DEF HeldBids, BidsInv, SessionKeeps
    <3>3. QED
      BY <3>1, <3>2
  <2>6. \A p \in DOMAIN Pipe' :
            Pipe'[p].call = "updateLoadBids" => ops'[Pipe'[p].owner].who = user'
    <3> SUFFICES ASSUME NEW p \in DOMAIN Pipe', Pipe'[p].call = "updateLoadBids"
                 PROVE  ops'[Pipe'[p].owner].who = user
      BY <2>1
    <3>1. p + 1 \in DOMAIN Pipe /\ Pipe'[p] = Pipe[p + 1]
      BY <2>2 DEF Moved
    <3>2. Pipe[p + 1].owner \in OpIds /\ ops[Pipe[p + 1].owner].who = user
      BY <2>5, <3>1, CallsNarrow
    <3>3. QED
      BY <1>6, <3>1, <3>2
  <2>7. BoardKeeps'
    <3> SUFFICES ASSUME NEW i \in DOMAIN mem', NEW b \in Bidders, Ordinary(mem'[i].id),
                        b # user, Acked(mem[i].id, b)'
                 PROVE  lists'[mem'[i].list][mem'[i].id][b] # "none"
      BY <2>1 DEF BoardKeeps
    <3>1. PICK l : l = mem'[i].id
      OBVIOUS
    <3>2. Acked(l, b)
      <4>1. Acked(l, b)'
        BY <3>1 DEF Acked
      <4>2. QED
        BY <2>5, <4>1
    <3>3. PICK j \in DOMAIN rows :
              /\ rows[j].id = l
              /\ rows[j].bids[b] # "none" => lists'[mem'[i].list][mem'[i].id][b] # "none"
      BY <1>13, <3>1
    <3>4. RowsKeepOthers(rows, user)
      BY <1>0, <1>2, <2>5
    <3>5. QED
      BY <3>1, <3>2, <3>3, <3>4 DEF RowsKeepOthers
  <2>8. ASSUME NEW k \in DOMAIN replies'
        PROVE  RowsKeepOthers(replies[k].rows, user)'
    <3> SUFFICES ASSUME NEW j \in DOMAIN replies'[k].rows, NEW b \in Bidders,
                        Ordinary(replies'[k].rows[j].id), b # user,
                        Acked(replies[k].rows[j].id, b)'
                 PROVE  replies'[k].rows[j].bids[b] # "none"
      BY <2>1 DEF RowsKeepOthers
    <3>1. PICK l : l = replies'[k].rows[j].id
      OBVIOUS
    <3>2. Acked(l, b)
      <4>1. Acked(l, b)'
        BY <3>1 DEF Acked
      <4>2. QED
        BY <2>5, <4>1
    <3>3. RowsKeepOthers(replies'[k].rows, user)
      BY <2>3, <2>5
    <3>4. QED
      BY <3>1, <3>2, <3>3 DEF RowsKeepOthers
  <2>9. QED
    BY <2>6, <2>7, <2>8
<1>21. QED
  BY <1>9, <1>15, <1>17, <1>18, <1>19, <1>20 DEF BidsInv

(* The database. *)

(* An execution acknowledges no bid, and only a bid's adds one to the table. *)
LEMMA SentExecuted ==
    ASSUME HeldBids, UNCHANGED ops, Pipe' = Pipe,
           NEW n \in Nat, n = Len(replies), NEW r, r.ok \in BOOLEAN,
           DOMAIN replies' = 1..(n + 1),
           \A k \in DOMAIN replies : replies'[k] = replies[k],
           replies'[n + 1] = r
    PROVE  /\ \A l, b : Acked(l, b)' <=> Acked(l, b)
           /\ \A l, b : \A m \in Nat : Placed(l, b, m)' => Placed(l, b, m)
           /\ \A l, b :
                 Placed(l, b, n + 1)' =>
                     \/ Placed(l, b, n)
                     \/ r.ok /\ Pipe[n + 1].call = "updateLoadBids" /\ Pipe[n + 1].load = l
<1>1. \A l, b : Acked(l, b)' <=> Acked(l, b)
  BY DEF Acked, BidAcknowledged
<1>2. DOMAIN replies = 1..n /\ \A p \in DOMAIN Pipe : p \in Nat
  BY DEF HeldBids, Held, Before, PipeFacts, PipeSizes
<1>3. ASSUME NEW l, NEW b, NEW m \in Nat, Placed(l, b, m)'
      PROVE  Placed(l, b, m)
  <2>1. CASE Acked(l, b)'
    BY <1>1, <2>1 DEF Placed
  <2>2. CASE Sent(l, b, m)'
    <3>1. \A p \in DOMAIN replies : p \in DOMAIN replies'
      BY <1>2
    <3>2. QED
      BY <2>2, <3>1 DEF Placed, Sent
  <2>3. QED
    BY <1>3, <2>1, <2>2 DEF Placed
<1>4. ASSUME NEW l, NEW b, Placed(l, b, n + 1)'
      PROVE  \/ Placed(l, b, n)
             \/ r.ok /\ Pipe[n + 1].call = "updateLoadBids" /\ Pipe[n + 1].load = l
  <2>1. CASE Acked(l, b)'
    BY <1>1, <2>1 DEF Placed
  <2>2. CASE Sent(l, b, n + 1)'
    <3>1. PICK p \in DOMAIN Pipe :
              /\ p <= n + 1 /\ Pipe[p].call = "updateLoadBids" /\ Pipe[p].load = l
              /\ ops[Pipe[p].owner].who = b
              /\ p \in DOMAIN replies' => replies'[p].ok
      BY <2>2 DEF Sent
    <3>2. p \in Nat /\ (p <= n \/ p = n + 1)
      BY <1>2, <3>1
    <3>3. CASE p <= n
      <4>1. p \in DOMAIN replies => p \in DOMAIN replies'
        BY <1>2
      <4>2. QED
        BY <3>1, <3>3, <4>1 DEF Placed, Sent
    <3>4. CASE p = n + 1
      <4>1. p \in DOMAIN replies'
        BY <3>4
      <4>2. QED
        BY <3>1, <3>4, <4>1
    <3>5. QED
      BY <3>2, <3>3, <3>4
  <2>3. QED
    BY <1>4, <2>1, <2>2 DEF Placed
<1>5. QED
  BY <1>1, <1>3, <1>4

(* Nothing was bid on a load that is being posted. *)
LEMMA PostedUnbid ==
    ASSUME HeldBids, NEW p \in DOMAIN Pipe, p > Len(replies), Pipe[p].call = "insertLoad",
           NEW l \in Loads \ {EmptyId}, Pipe[p].load = l, NEW b, NEW n
    PROVE  ~Placed(l, b, n)
<1>1. ~Known(l)
  BY DEF Known, HeldBids, Held, ListInv, Posting
<1>2. \A o \in OpIds : ops[o].kind = "bid" => ops[o].load # l
  BY <1>1 DEF HeldBids, BidsInv, LoadsKnown
<1>3. ~Acked(l, b)
  BY <1>2 DEF Acked, BidAcknowledged
<1>4. ~Sent(l, b, n)
  BY <1>2, CallsNarrow DEF Sent, NarrowCall
<1>5. QED
  BY <1>3, <1>4 DEF Placed

(* What a call leaves in the table has the bids placed up to it. *)
LEMMA WrittenKeeps ==
    ASSUME HeldBids, queue # <<>>, NEW n \in Nat, n = Len(replies),
           NEW req, req = Head(queue),
           NEW j \in DOMAIN Written(db, req), NEW b \in Bidders,
           NEW l, l = Written(db, req)[j].id, Ordinary(l),
           Placed(l, b, n) \/ (req.call = "updateLoadBids" /\ req.row.id = l),
           Placed(l, b, n + 1)
    PROVE  Written(db, req)[j].bids[b] # "none"
<1>1. /\ n + 1 \in DOMAIN Pipe /\ req \in GoodRequest
      /\ Pipe[n + 1] = [call |-> req.call, owner |-> req.owner, load |-> req.row.id]
  BY FirstCall DEF HeldBids
<1>2. req.call \notin {"updateLoad", "saveDistance"}
  BY <1>1, CallsNarrow DEF NarrowCall
<1>3. /\ db \in Seq(GoodRow) /\ \A i \in DOMAIN db : db[i] \in GoodRow
      /\ req.row \in GoodRow /\ req.row.id \in Loads /\ req.row.bids \in Bids
  BY <1>1, LenProperties, ElementOfSeq
     DEF HeldBids, Held, IInv, GoodDb, GoodRequest, Request, GoodRow, Row
<1>4. ASSUME NEW i \in DOMAIN db, db[i].id = l, Placed(l, b, n)
      PROVE  db[i].bids[b] # "none"
  BY <1>4 DEF HeldBids, BidsInv, TableKeeps
<1>5. CASE req.call = "insertLoad"
  <2> DEFINE w == Without(db, req.row.id)
  <2>1. Written(db, req) = Append(w, req.row) /\ w \in Seq(GoodRow)
    BY <1>3, <1>5, WithoutType DEF Written
  <2>2. \A i \in DOMAIN w : \E k \in DOMAIN db : w[i] = db[k]
    BY <1>3, WithoutFrom
  <2> HIDE DEF w
  <2>3. (j \in DOMAIN w /\ Written(db, req)[j] = w[j]) \/ Written(db, req)[j] = req.row
    BY <1>3, <2>1, AppendProperties, LenProperties
  <2>4. Placed(l, b, n)
    BY <1>5
  <2>5. Written(db, req)[j] # req.row
    <3> SUFFICES ASSUME Written(db, req)[j] = req.row PROVE FALSE
      OBVIOUS
    <3>1. l = req.row.id /\ l \in Loads \ {EmptyId}
      BY <1>3 DEF Ordinary
    <3>2. Pipe[n + 1].call = "insertLoad" /\ Pipe[n + 1].load = l /\ n + 1 > Len(replies)
      BY <1>1, <1>5, <3>1
    <3>3. QED
      BY <1>1, <2>4, <3>1, <3>2, PostedUnbid
  <2>6. PICK k \in DOMAIN db : Written(db, req)[j] = db[k]
    BY <2>2, <2>3, <2>5
  <2>7. QED
    BY <1>4, <2>4, <2>6
<1>6. CASE req.call = "deleteLoad"
  <2>1. Written(db, req) = Without(db, req.row.id)
    BY <1>6 DEF Written
  <2>2. PICK k \in DOMAIN db : Written(db, req)[j] = db[k]
    BY <1>3, <2>1, WithoutFrom
  <2>3. QED
    BY <1>4, <1>6, <2>2
<1>7. CASE req.call = "updateLoadBids"
  <2>1. Written(db, req) = [i \in DOMAIN db |->
            IF db[i].id = req.row.id
            THEN [db[i] EXCEPT !.bids = Stripped(req.row.bids)]
            ELSE db[i]]
    BY <1>7 DEF Written
  <2>2. j \in DOMAIN db /\ db[j] \in Row
    BY <1>3, <2>1 DEF GoodRow
  <2>3. CASE db[j].id = req.row.id
    <3>1. Written(db, req)[j] = [db[j] EXCEPT !.bids = Stripped(req.row.bids)]
      BY <2>1, <2>2, <2>3
    <3>2. l = req.row.id /\ Written(db, req)[j].bids = Stripped(req.row.bids)
      BY <2>2, <2>3, <3>1 DEF Row
    <3>3. req = queue[1] /\ 1 \in DOMAIN queue
      BY HeadTailProperties, LenProperties, EmptySeq DEF HeldBids, Held, GoodQueue
    <3>4. req.row.bids[b] # "none"
      BY <1>7, <3>2, <3>3 DEF HeldBids, BidsInv, WritesKeep
    <3>5. QED
      BY <3>2, <3>4 DEF Stripped
  <2>4. CASE db[j].id # req.row.id
    <3>1. Written(db, req)[j] = db[j]
      BY <2>1, <2>2, <2>4
    <3>2. l # req.row.id
      BY <2>4, <3>1
    <3>3. QED
      BY <1>4, <2>2, <3>1, <3>2
  <2>5. QED
    BY <2>3, <2>4
<1>8. CASE req.call \notin {"insertLoad", "deleteLoad", "updateLoadBids"}
  <2>1. Written(db, req) = db
    BY <1>2, <1>8 DEF Written
  <2>2. QED
    BY <1>4, <1>8, <2>1
<1>9. QED
  BY <1>5, <1>6, <1>7, <1>8

LEMMA ExecutedBids ==
    ASSUME HeldBids, queue # <<>>, queue' = Tail(queue), NEW ok \in BOOLEAN, NEW rows,
           replies' = Append(replies,
               [call |-> Head(queue).call, owner |-> Head(queue).owner,
                load |-> Head(queue).row.id, ok |-> ok, rows |-> rows]),
           UNCHANGED <<mem, lists, tasks, ops, started, user>>,
           \/ ok /\ db' = Written(db, Head(queue)) /\ rows \in {db, <<>>}
           \/ ~ok /\ db' = db /\ rows = <<>>
    PROVE  BidsInv'
<1>0. PICK req, n : req = Head(queue) /\ n = Len(replies)
  OBVIOUS
<1> DEFINE r == [call |-> req.call, owner |-> req.owner, load |-> req.row.id,
                 ok |-> ok, rows |-> rows]
<1>1. r.call = req.call /\ r.owner = req.owner /\ r.load = req.row.id /\ r.ok = ok /\ r.rows = rows
  OBVIOUS
<1>2. replies' = Append(replies, r)
  BY <1>0
<1> HIDE DEF r
<1>3. /\ Pipe' = Pipe /\ Len(replies') = n + 1
      /\ \A k \in DOMAIN replies : replies'[k] = replies[k]
      /\ replies'[n + 1] = r
  BY <1>0, <1>1, <1>2, PipeExecuted DEF HeldBids, Held, Before
<1>4. /\ n \in Nat /\ DOMAIN replies = 1..n /\ DOMAIN replies' = 1..(n + 1)
      /\ \A p \in DOMAIN Pipe : p \in Nat
  BY <1>0, <1>3 DEF HeldBids, Held, Before, PipeFacts, PipeSizes
<1>5. /\ n + 1 \in DOMAIN Pipe /\ req \in GoodRequest
      /\ Pipe[n + 1] = [call |-> req.call, owner |-> req.owner, load |-> req.row.id]
      /\ req.call = "deleteLoad" => \E o \in OpIds : req.row.id \in ops[o].chosen
  BY <1>0, FirstCall DEF HeldBids
<1>6. /\ \A l, b : Acked(l, b)' <=> Acked(l, b)
      /\ \A l, b : \A m \in Nat : Placed(l, b, m)' => Placed(l, b, m)
      /\ \A l, b :
            Placed(l, b, n + 1)' =>
                Placed(l, b, n) \/ (ok /\ req.call = "updateLoadBids" /\ req.row.id = l)
  <2>1. r.ok \in BOOLEAN
    BY <1>1
  <2>2. /\ \A l, b : Acked(l, b)' <=> Acked(l, b)
        /\ \A l, b : \A m \in Nat : Placed(l, b, m)' => Placed(l, b, m)
        /\ \A l, b :
              Placed(l, b, n + 1)' =>
                  \/ Placed(l, b, n)
                  \/ r.ok /\ Pipe[n + 1].call = "updateLoadBids" /\ Pipe[n + 1].load = l
    BY <1>0, <1>3, <1>4, <2>1, SentExecuted
  <2>3. Pipe[n + 1].call = req.call /\ Pipe[n + 1].load = req.row.id
    BY <1>5
  <2>4. QED
    BY <1>1, <2>2, <2>3
<1>7. /\ NarrowCalls' /\ BidsOnce' /\ NarrowOps' /\ TasksLate' /\ AsksAlone' /\ AsksAfterBids'
  BY <1>3 DEF HeldBids, BidsInv, NarrowCalls, NarrowCall, BidsOnce, NarrowOps, TasksLate,
              AsksAlone, AsksAfterBids, NoBidAfter, Asks, Fetches, Late, BidAcknowledged
<1>8. \A j \in DOMAIN db, b \in Bidders :
          Ordinary(db[j].id) /\ Acked(db[j].id, b) => db[j].bids[b] # "none"
  BY DEF HeldBids, BidsInv, TableKeeps, Placed
<1>9. rows \in {db, <<>>} /\ (ok => db' = Written(db, req)) /\ (~ok => db' = db)
  BY <1>0
<1>10. RowsKeep(rows)
  BY <1>8, <1>9 DEF RowsKeep
<1>11. LoadsKnown'
  <2>1. /\ \A l : Has(db, l) => Has(db', l) \/ \E o \in OpIds : l \in ops[o].chosen
        /\ ok /\ req.call = "insertLoad" => Has(db', req.row.id)
    <3>1. CASE ~ok
      BY <1>9, <3>1
    <3>2. CASE ok
      <4>1. /\ db \in Seq(GoodRow) /\ \A l \in Loads : UniqueAt(db, l)
            /\ req.row \in GoodRow
        BY <1>5 DEF HeldBids, Held, IInv, GoodDb, ListInv, Unique, GoodRequest, Request, GoodRow
      <4>2. \A l : Has(db, l) =>
                Has(Written(db, req), l) \/ (req.call = "deleteLoad" /\ l = req.row.id)
        BY <1>5, <4>1, WrittenIds
      <4>3. req.call = "insertLoad" => Has(Written(db, req), req.row.id)
        <5>1. Without(db, req.row.id) \in Seq(GoodRow)
          BY <4>1, WithoutType
        <5>2. req.call = "insertLoad" =>
                  Written(db, req) = Append(Without(db, req.row.id), req.row)
          BY DEF Written
        <5>3. PICK w : w = Without(db, req.row.id)
          OBVIOUS
        <5>4. Has(Append(w, req.row), req.row.id)
          BY <4>1, <5>1, <5>3, AppendIds
        <5>5. QED
          BY <5>2, <5>3, <5>4
      <4>4. QED
        BY <1>5, <1>9, <3>2, <4>2, <4>3
    <3>3. QED
      BY <3>1, <3>2
  <2>2. \A l : Known(l) => Known(l)'
    BY <2>1 DEF Known
  <2> SUFFICES ASSUME NEW l \in Loads \ {EmptyId}
               PROVE  /\ Has(mem', l) => Known(l)'
                      /\ \A o \in OpIds : ops'[o].kind = "bid" /\ ops'[o].load = l => Known(l)'
                      /\ \A k \in DOMAIN replies' :
                            replies'[k].call = "insertLoad" /\ replies'[k].ok
                            /\ replies'[k].load = l => Known(l)'
    BY DEF LoadsKnown
  <2>3. /\ Has(mem', l) => Known(l)'
        /\ \A o \in OpIds : ops'[o].kind = "bid" /\ ops'[o].load = l => Known(l)'
    BY <2>2 DEF HeldBids, BidsInv, LoadsKnown
  <2>4. ASSUME NEW k \in DOMAIN replies', replies'[k].call = "insertLoad", replies'[k].ok,
               replies'[k].load = l
        PROVE  Known(l)'
    <3>1. CASE k \in DOMAIN replies
      BY <1>3, <2>2, <2>4, <3>1 DEF HeldBids, BidsInv, LoadsKnown
    <3>2. CASE k = n + 1
      BY <1>1, <1>3, <2>1, <2>4, <3>2 DEF Known
    <3>3. QED
      BY <1>4, <3>1, <3>2
  <2>5. QED
    BY <2>3, <2>4
<1>12. TableKeeps'
  <2> SUFFICES ASSUME NEW j \in DOMAIN db', NEW b \in Bidders, Ordinary(db'[j].id),
                      Placed(db[j].id, b, Len(replies))'
               PROVE  db'[j].bids[b] # "none"
    BY DEF TableKeeps
  <2>1. PICK l : l = db'[j].id
    OBVIOUS
  <2>2. PICK m \in Nat : m = n + 1
    BY <1>4
  <2>3. Placed(l, b, m)'
    BY <1>3, <2>1, <2>2 DEF Placed, Sent, Acked
  <2>4. Placed(l, b, n + 1) /\
        (Placed(l, b, n) \/ (ok /\ req.call = "updateLoadBids" /\ req.row.id = l))
    <3>1. Placed(l, b, n + 1)'
      BY <1>4, <2>2, <2>3
    <3>2. QED
      BY <1>6, <2>2, <2>3, <3>1
  <2>5. CASE ok
    BY <1>0, <1>4, <1>9, <2>1, <2>4, <2>5, WrittenKeeps
  <2>6. CASE ~ok
    BY <1>0, <1>9, <2>1, <2>4, <2>6 DEF HeldBids, BidsInv, TableKeeps
  <2>7. QED
    BY <2>5, <2>6
<1>13. WritesKeep'
  <2> SUFFICES ASSUME NEW i \in DOMAIN queue', NEW b \in Bidders,
                      queue'[i].call = "updateLoadBids", Ordinary(queue'[i].row.id),
                      Placed(queue[i].row.id, b, Len(replies) + i)'
               PROVE  queue'[i].row.bids[b] # "none"
    BY DEF WritesKeep
  <2>1. i \in Nat /\ i + 1 \in DOMAIN queue /\ queue'[i] = queue[i + 1]
    BY HeadTailProperties, LenProperties DEF HeldBids, Held, GoodQueue
  <2>2. PICK l : l = queue'[i].row.id
    OBVIOUS
  <2>3. PICK m \in Nat : m = n + (i + 1)
    BY <1>4, <2>1
  <2>4. m = Len(replies') + i /\ m = Len(replies) + (i + 1)
    <3>1. n \in Nat /\ i \in Nat /\ Len(replies') = n + 1 /\ Len(replies) = n
      BY <1>0, <1>3, <1>4, <2>1
    <3>2. m = (n + 1) + i
      BY <2>3, <3>1
    <3>3. QED
      BY <2>3, <3>1, <3>2
  <2>5. Placed(l, b, m)'
    BY <2>2, <2>4 DEF Placed, Sent, Acked
  <2>6. Placed(l, b, m)
    BY <1>6, <2>5
  <2>7. Placed(queue[i + 1].row.id, b, Len(replies) + (i + 1))
    BY <2>1, <2>2, <2>4, <2>6
  <2>8. QED
    BY <2>1, <2>7 DEF HeldBids, BidsInv, WritesKeep
<1>14. \A k \in DOMAIN replies' : k \in DOMAIN replies \/ k = n + 1
  BY <1>4
<1>15. \A s : /\ RowsKeep(s) => RowsKeep(s)'
              /\ \A u : RowsKeepOthers(s, u) => RowsKeepOthers(s, u)'
  BY <1>6 DEF RowsKeep, RowsKeepOthers
<1>16. FetchesAfterBids'
  <2> SUFFICES ASSUME NEW o \in OpIds, Fetches(o)'
               PROVE  /\ NoBidAfter(0)'
                      /\ \A p, k \in DOMAIN replies' :
                            replies'[p].call = "getLoads" /\ replies'[p].owner = o /\ p <= k =>
                                RowsKeep(replies[k].rows)'
    BY DEF FetchesAfterBids
  <2>1. /\ NoBidAfter(0)
        /\ \A p, k \in DOMAIN replies :
              replies[p].call = "getLoads" /\ replies[p].owner = o /\ p <= k =>
                  RowsKeep(replies[k].rows)
    BY DEF Fetches, HeldBids, BidsInv, FetchesAfterBids
  <2>2. NoBidAfter(0)'
    BY <1>3, <2>1 DEF NoBidAfter
  <2>3. ASSUME NEW p \in DOMAIN replies', NEW k \in DOMAIN replies',
               replies'[p].call = "getLoads", replies'[p].owner = o, p <= k
        PROVE  RowsKeep(replies[k].rows)'
    <3>1. PICK s : s = replies'[k].rows
      OBVIOUS
    <3>2. RowsKeep(s)
      <4>1. CASE k = n + 1
        BY <1>1, <1>3, <1>10, <3>1, <4>1
      <4>2. CASE k \in DOMAIN replies
        <5>1. p \in DOMAIN replies
          BY <1>4, <2>3, <4>2
        <5>2. QED
          BY <1>3, <2>1, <2>3, <3>1, <4>2, <5>1
      <4>3. QED
        BY <1>14, <4>1, <4>2
    <3>3. RowsKeep(s)'
      BY <1>15, <3>2
    <3>4. QED
      BY <3>1, <3>3 DEF RowsKeep
  <2>4. QED
    BY <2>2, <2>3
<1>17. SessionKeeps'
  <2> SUFFICES ASSUME InSession'
               PROVE  /\ \A p \in DOMAIN Pipe' :
                           Pipe'[p].call = "updateLoadBids" => ops'[Pipe'[p].owner].who = user'
                      /\ BoardKeeps'
                      /\ \A k \in DOMAIN replies' : RowsKeepOthers(replies[k].rows, user)'
    BY DEF SessionKeeps
  <2>1. InSession
    BY DEF InSession, Asks, Fetches
  <2>2. /\ \A p \in DOMAIN Pipe :
              Pipe[p].call = "updateLoadBids" => ops[Pipe[p].owner].who = user
        /\ BoardKeeps
        /\ \A k \in DOMAIN replies : RowsKeepOthers(replies[k].rows, user)
    BY <2>1 DEF HeldBids, BidsInv, SessionKeeps
  <2>3. BoardKeeps'
    BY <1>6, <2>2 DEF BoardKeeps
  <2>4. ASSUME NEW k \in DOMAIN replies'
        PROVE  RowsKeepOthers(replies[k].rows, user)'
    <3>1. PICK s, u : s = replies'[k].rows /\ u = user
      OBVIOUS
    <3>2. RowsKeepOthers(s, u)
      <4>1. CASE k = n + 1
        BY <1>1, <1>3, <1>10, <3>1, <4>1 DEF RowsKeep, RowsKeepOthers
      <4>2. CASE k \in DOMAIN replies
        BY <1>3, <2>2, <3>1, <4>2
      <4>3. QED
        BY <1>14, <4>1, <4>2
    <3>3. RowsKeepOthers(s, u)'
      BY <1>15, <3>2
    <3>4. QED
      BY <3>1, <3>3 DEF RowsKeepOthers
  <2>5. QED
    BY <1>3, <2>2, <2>3, <2>4
<1>18. QED
  BY <1>7, <1>11, <1>12, <1>13, <1>16, <1>17 DEF BidsInv

LEMMA DatabaseBids ==
    ASSUME HeldBids, DbExecute \/ DbFail
    PROVE  BidsInv'
<1>1. CASE DbExecute
  BY <1>1, ExecutedBids DEF DbExecute, memory, outside
<1>2. CASE DbFail
  BY <1>2, ExecutedBids DEF DbFail, memory
<1>3. QED
  BY <1>1, <1>2

LEMMA InsertTestLoadBids ==
    ASSUME HeldBids, InsertTestLoad
    PROVE  BidsInv'
<1>0. PICK row : row = FreshRow(Seeds[boot + 1])
  OBVIOUS
<1>1. /\ boot < Len(Seeds) /\ db' = Append(Without(db, row.id), row)
      /\ UNCHANGED <<mem, lists, tasks, ops, started, user, queue, replies>>
  BY <1>0 DEF InsertTestLoad, memory
<1>2. boot + 1 \in DOMAIN Seeds /\ row \in GoodRow /\ row.id = Seeds[boot + 1]
  <2>1. boot + 1 \in DOMAIN Seeds /\ Seeds[boot + 1] \in Loads
    BY <1>1, LoadsAssumption, LenProperties, ElementOfSeq DEF HeldBids, Held, IInv, GoodRest
  <2>2. QED
    BY <1>0, <2>1, FreshGood DEF FreshRow
<1>3. PICK w : w = Without(db, row.id)
  OBVIOUS
<1>4. /\ db \in Seq(GoodRow) /\ w \in Seq(GoodRow) /\ db' = Append(w, row)
      /\ \A k : k # row.id /\ Has(db, k) => Has(w, k)
      /\ \A i \in DOMAIN w : \E j \in DOMAIN db : w[i] = db[j]
  <2>1. db \in Seq(GoodRow)
    BY DEF HeldBids, Held, IInv, GoodDb
  <2>2. QED
    BY <1>1, <1>3, <2>1, WithoutType, WithoutIds, WithoutFrom
<1>5. \A k : Has(db, k) => Has(db', k)
  <2>1. \A k : Has(Append(w, row), k) <=> Has(w, k) \/ row.id = k
    BY <1>2, <1>4, AppendIds
  <2>2. QED
    BY <1>4, <2>1
<1>6. \A j \in DOMAIN db' : db'[j] = row \/ \E i \in DOMAIN db : db'[j] = db[i]
  <2>1. \A j \in DOMAIN db' : (j \in DOMAIN w /\ db'[j] = w[j]) \/ db'[j] = row
    BY <1>2, <1>4, AppendProperties, LenProperties
  <2>2. QED
    BY <1>4, <2>1
<1>7. Pipe' = Pipe
  BY <1>1 DEF Pipe
<1>8. /\ NarrowCalls' /\ BidsOnce' /\ NarrowOps' /\ TasksLate' /\ AsksAlone' /\ AsksAfterBids'
      /\ WritesKeep' /\ FetchesAfterBids' /\ SessionKeeps'
  BY <1>1, <1>7
     DEF HeldBids, BidsInv, NarrowCalls, NarrowCall, BidsOnce, NarrowOps, TasksLate,
         AsksAlone, AsksAfterBids, NoBidAfter, WritesKeep, FetchesAfterBids, SessionKeeps,
         InSession, BoardKeeps, RowsKeep, RowsKeepOthers, Placed, Sent, Acked,
         Asks, Fetches, Late, BidAcknowledged
<1>9. LoadsKnown'
  <2>1. \A l : Known(l) => Known(l)'
    BY <1>1, <1>5 DEF Known
  <2>2. QED
    BY <1>1, <2>1 DEF HeldBids, BidsInv, LoadsKnown
<1>10. TableKeeps'
  <2> SUFFICES ASSUME NEW j \in DOMAIN db', NEW b \in Bidders, Ordinary(db'[j].id),
                      Placed(db[j].id, b, Len(replies))'
               PROVE  db'[j].bids[b] # "none"
    BY DEF TableKeeps
  <2>1. db'[j] # row
    BY <1>2 DEF Ordinary
  <2>2. PICK i \in DOMAIN db : db'[j] = db[i]
    BY <1>6, <2>1
  <2>3. Placed(db[i].id, b, Len(replies))
    BY <1>1, <1>7, <2>2 DEF Placed, Sent, Acked, BidAcknowledged
  <2>4. QED
    BY <2>2, <2>3 DEF HeldBids, BidsInv, TableKeeps
<1>11. QED
  BY <1>8, <1>9, <1>10 DEF BidsInv

(* A kill keeps the table and loses the bids that were not acknowledged.   *)
LEMMA RestartBids ==
    ASSUME HeldBids, Restart
    PROVE  BidsInv'
<1>1. /\ mem' = <<>> /\ queue' = <<>> /\ replies' = <<>> /\ user' = NoOne
      /\ tasks' = [o \in OpIds |-> [l \in Loads |-> NoTask(l)]]
      /\ UNCHANGED <<started, db>>
  BY DEF Restart
<1>2. \A o \in OpIds : /\ ops'[o].kind = ops[o].kind /\ ops'[o].load = ops[o].load
                       /\ ops'[o].who = ops[o].who /\ ops'[o].post = ops[o].post
                       /\ ops'[o].chosen = ops[o].chosen
                       /\ \/ /\ ops'[o].step = ops[o].step
                             /\ ops[o].step \in {"idle", "done", "aborted"}
                          \/ /\ ops'[o].step = "done"
                             /\ ops[o].step \in {"read", "distances"}
                          \/ ops'[o].step = "aborted"
  <2>1. ops \in [OpIds -> Op]
    BY DEF HeldBids, Held, IInv, GoodOps
  <2>2. QED
    BY <2>1 DEF Restart, InFlight, Op
<1>3. DOMAIN Pipe' = {} /\ DOMAIN replies' = {} /\ DOMAIN queue' = {} /\ DOMAIN mem' = {}
  <2>1. Len(replies') = 0 /\ Len(queue') = 0
    BY <1>1, EmptySeq
  <2>2. QED
    BY <1>1, <2>1, EmptySeq DEF HeldBids, Held, Before, PipeFacts, PipeSizes
<1>4. NarrowCalls' /\ BidsOnce' /\ WritesKeep' /\ AsksAfterBids'
  BY <1>3 DEF NarrowCalls, BidsOnce, WritesKeep, AsksAfterBids
<1>5. \A o \in OpIds : ~Asks(o)' /\ ~Fetches(o)'
  BY <1>2 DEF Asks, Fetches
<1>6. AsksAlone' /\ FetchesAfterBids' /\ SessionKeeps'
  BY <1>1, <1>5 DEF AsksAlone, FetchesAfterBids, SessionKeeps, InSession
<1>7. NarrowOps'
  BY <1>2 DEF HeldBids, BidsInv, NarrowOps, NarrowOp
<1>8. TasksLate'
  BY <1>1 DEF TasksLate, NoTask
<1>9. LoadsKnown'
  <2>1. \A l : Known(l) => Known(l)'
    BY <1>1, <1>2 DEF Known
  <2>2. \A l : ~Has(mem', l)
    BY <1>3 DEF Has
  <2>3. QED
    BY <1>2, <1>3, <2>1, <2>2 DEF HeldBids, BidsInv, LoadsKnown
<1>10. TableKeeps'
  <2> SUFFICES ASSUME NEW j \in DOMAIN db', NEW b \in Bidders, Ordinary(db'[j].id),
                      Placed(db[j].id, b, Len(replies))'
               PROVE  db'[j].bids[b] # "none"
    BY DEF TableKeeps
  <2>1. Acked(db[j].id, b)'
    BY <1>3 DEF Placed, Sent
  <2>2. Acked(db[j].id, b)
    BY <1>1, <1>2, <2>1 DEF Acked, BidAcknowledged
  <2>3. QED
    BY <1>1, <2>2 DEF HeldBids, BidsInv, TableKeeps, Placed
<1>11. QED
  BY <1>4, <1>6, <1>7, <1>8, <1>9, <1>10 DEF BidsInv

LEMMA BidsInit == Init => BidsInv
<1> SUFFICES ASSUME Init PROVE BidsInv
  OBVIOUS
<1>1. /\ mem = <<>> /\ queue = <<>> /\ replies = <<>> /\ user = NoOne
      /\ tasks = [o \in OpIds |-> [l \in Loads |-> NoTask(l)]]
      /\ ops = [o \in OpIds |-> NoOp]
  BY DEF Init
<1>2. NoOp.kind = "none" /\ NoOp.step = "idle"
  BY DEF NoOp
<1>3. \A o \in OpIds : ops[o].kind = "none" /\ ops[o].step = "idle"
  BY <1>1, <1>2
<1>4. DOMAIN Pipe = {} /\ DOMAIN replies = {} /\ DOMAIN queue = {} /\ DOMAIN mem = {}
  BY <1>1, EmptySeq DEF Pipe
<1>5. NarrowCalls /\ BidsOnce /\ WritesKeep /\ AsksAfterBids
  BY <1>4 DEF NarrowCalls, BidsOnce, WritesKeep, AsksAfterBids
<1>6. NarrowOps
  BY <1>3 DEF NarrowOps, NarrowOp
<1>7. TasksLate
  BY <1>1 DEF TasksLate, NoTask
<1>8. LoadsKnown
  BY <1>3, <1>4 DEF LoadsKnown, Has
<1>9. TableKeeps
  BY <1>3, <1>4 DEF TableKeeps, Placed, Sent, Acked, BidAcknowledged
<1>10. AsksAlone /\ FetchesAfterBids /\ SessionKeeps
  BY <1>1, <1>3 DEF AsksAlone, FetchesAfterBids, SessionKeeps, InSession, Asks, Fetches
<1>11. QED
  BY <1>5, <1>6, <1>7, <1>8, <1>9, <1>10 DEF BidsInv

LEMMA BidsNext ==
    ASSUME NarrowWrites, IInv, IInv', ListInv, BidsInv, [Next]_vars
    PROVE  BidsInv'
<1>0. HeldBids
  BY HeldReady DEF HeldBids
<1> USE <1>0
<1>1. CASE InsertTestLoad \/ DbExecute \/ DbFail \/ Restart
  BY <1>1, InsertTestLoadBids, DatabaseBids, RestartBids
<1>2. CASE (\E u \in Users : Login(u)) \/ LoginAnswered
  BY <1>2, LoginBids, LoginAnsweredBids
<1>3. CASE Refresh \/ LoadsRead
  BY <1>3, RefreshBids, LoadsReadBids
<1>4. CASE \/ \E o \in OpIds, l \in Loads : RouteFound(o, l) \/ RouteMissing(o, l)
           \/ DistanceSaved
  BY <1>4, NoWideWrites, RouteMissingBids
<1>5. CASE \/ \E l \in Loads : OpenDetails(l) \/ PostLoad(l) \/ PostReturn(l)
           \/ LoadInserted
  BY <1>5, OpenDetailsBids, PostLoadBids, PostReturnBids, LoadInsertedBids
<1>6. CASE (\E chosen \in SUBSET Loads \ {{}} : DeleteLoads(chosen)) \/ LoadDeleted
  BY <1>6, DeleteLoadsBids, LoadDeletedBids
<1>7. CASE \/ \E l \in Loads : PlaceBid(l) \/ BidByName(l)
           \/ \E l \in Loads, b \in Bidders, v \in {"accepted", "rejected", "countered"} :
                  Respond(l, b, v)
           \/ BidsWritten
  BY <1>7, NoWideWrites, PlaceBidBids, BidsWrittenBids DEF BidByName
<1>8. CASE \/ \E l \in Loads, kind \in {"confirm", "decline"} : OpenDialog(l, kind)
           \/ \E o \in OpIds : CancelDialog(o) \/ Submit(o)
           \/ LoadWritten
  BY <1>8, NoWideWrites
<1>9. CASE Logout \/ UNCHANGED vars
  <2>1. /\ user' \in {user, NoOne}
        /\ UNCHANGED <<mem, lists, tasks, ops, started, db, queue, replies>>
    BY <1>9 DEF Logout, vars, memory
  <2>2. QED
    BY <2>1, LogoutBids
<1>10. QED
  BY <1>1, <1>2, <1>3, <1>4, <1>5, <1>6, <1>7, <1>8, <1>9 DEF Next, Users

LEMMA BidsInvariant == NarrowWrites /\ Spec => [](IInv /\ ListInv /\ BidsInv)
<1>1. Init => IInv /\ ListInv /\ BidsInv
  BY InitHolds, ListInit, BidsInit
<1>2. NarrowWrites /\ IInv /\ ListInv /\ BidsInv /\ [Next]_vars => IInv' /\ ListInv' /\ BidsInv'
  BY NextKeeps, ListNext, BidsNext
<1>3. CASE NarrowWrites
  BY <1>1, <1>2, <1>3, PTL DEF Spec
<1>4. QED
  BY <1>3

(* Where nobody answers bids or loads, bids under the user's name are not  *)
(* offered and no distance is found, an acknowledged bid stays in the      *)
(* table, however posts, deletions, fetches, logins, failing calls and     *)
(* kills interleave: each bid writes the whole list of its load from the   *)
(* copy on the board, and that copy has the bids of all others.            *)
THEOREM NarrowUseKeepsBids ==
    ASSUME NarrowWrites
    PROVE  Spec => []AcknowledgedBidsSurvive
<1>1. IInv /\ BidsInv => AcknowledgedBidsSurvive
  <2> SUFFICES ASSUME IInv, BidsInv, NEW o \in OpIds, BidAcknowledged(o),
                      ops[o].load # EmptyId, \A i \in DOMAIN Seeds : Seeds[i] # ops[o].load,
                      NEW i \in DOMAIN db, db[i].id = ops[o].load
               PROVE  db[i].bids[ops[o].who] # "none"
    BY DEF AcknowledgedBidsSurvive
  <2>1. ops[o].who \in Bidders
    BY DEF BidAcknowledged, BidsInv, NarrowOps, NarrowOp
  <2>2. Ordinary(db[i].id) /\ Acked(db[i].id, ops[o].who)
    BY DEF Ordinary, Acked
  <2>3. QED
    BY <2>1, <2>2 DEF BidsInv, TableKeeps, Placed
<1>2. QED
  BY BidsInvariant, <1>1, PTL

-----------------------------------------------------------------------------
(* The carrier a confirmed load names.  No distance is found, so that      *)
(* saveDistance writes no old copy; the broker is no carrier, and neither  *)
(* is nobody; the rows of an earlier session have the property.            *)
Named(r) == r.carrierOk => r.selected \in Carriers
NoOldCopies ==
    /\ Located = {}
    /\ Broker \notin Carriers /\ NoOne \notin Carriers
    /\ \A table \in LeftBehind : \A i \in DOMAIN table : Named(table[i])

(* Every copy of a load that may reach the list or the table names one.    *)
RowsNamed ==
    /\ \A i \in DOMAIN mem : Named(mem[i])
    /\ \A i \in DOMAIN db : Named(db[i])
    /\ \A i \in DOMAIN queue : Named(queue[i].row)
    /\ \A k \in DOMAIN replies : \A j \in DOMAIN replies[k].rows : Named(replies[k].rows[j])
    /\ \A o \in OpIds : Named(ops[o].post)

(* Whose calls they are, and where the handlers of an answer are. *)
AnswerKinds == {"confirm", "decline"}
KnownCall(c) ==
    /\ c.call # "saveDistance"
    /\ c.call = "getUser" => Asks(c.owner)
    /\ c.call = "getLoads" => ~Asks(c.owner) /\ ops[c.owner].kind \notin AnswerKinds
    /\ c.call \notin {"getUser", "getLoads"} => ops[c.owner].kind # "login"
KnownCalls == \A p \in DOMAIN Pipe : KnownCall(Pipe[p])
TasksAway == \A o \in OpIds, l \in Loads : tasks[o][l].step # "none" => ~Asks(o) /\ ~Fetches(o)
NobodyBoots == ~Booted => user = NoOne
CarrierSession == user \in Carriers /\ InSession
AnswersWait ==
    \A o \in OpIds :
        /\ ops[o].step = "dialog" =>
              ops[o].kind \in AnswerKinds /\ ops[o].who \in Carriers /\ CarrierSession
        /\ ops[o].kind \in AnswerKinds =>
              /\ ops[o].step \in {"dialog", "writeLoad", "done", "aborted"}
              /\ ops[o].step = "writeLoad" =>
                    \E p \in DOMAIN Pipe : Pipe[p].call = "updateLoad" /\ Pipe[p].owner = o

(* A login comes after every bid, verdict and post of the session before,  *)
(* and its fetch after everything they wrote.                              *)
Opening == {"updateLoadBids", "insertLoad"}
AsksAfterOpenings ==
    \A p \in DOMAIN Pipe : Pipe[p].call = "getUser" =>
        /\ \A q \in DOMAIN Pipe : q > p => Pipe[q].call \notin Opening
        /\ \A q \in DOMAIN Pipe : Pipe[q].call = "getUser" => p = q

(* The carrier chosen for a load, in the rows a handler may meet. *)
Chooses(rows, l, b) == \E i \in DOMAIN rows : rows[i].id = l /\ rows[i].selected = b
Reads(n, l, b) == \E k \in DOMAIN replies : k >= n /\ Chooses(replies[k].rows, l, b)
Writes(l, b) ==
    \E i \in DOMAIN queue : /\ queue[i].call = "updateLoad"
                            /\ queue[i].row.id = l /\ queue[i].row.selected = b
Fetchable(n, l, b) == Chooses(db, l, b) \/ Reads(n, l, b)
Stands(l, b) == Chooses(mem, l, b) \/ Fetchable(1, l, b) \/ Writes(l, b)

FetchesLast ==
    \A o \in OpIds : Fetches(o) =>
        /\ \A p \in DOMAIN Pipe : Pipe[p].call \notin Opening
        /\ \A p \in DOMAIN Pipe : Pipe[p].call = "getLoads" /\ Pipe[p].owner = o =>
              /\ \A q \in DOMAIN Pipe : q > p => Pipe[q].call # "updateLoad"
              /\ p \in DOMAIN replies =>
                    \A l \in Loads, b, c \in Bidders \cup {NoOne} :
                        Fetchable(p, l, b) /\ Fetchable(p, l, c) => b = c

(* In the session of a carrier nothing chooses: every copy of a load names *)
(* the same one, and the load he answers for names him.                    *)
SessionChoice ==
    CarrierSession =>
        /\ \A p \in DOMAIN Pipe : Pipe[p].call # "insertLoad"
        /\ \A l \in Loads, b, c \in Bidders \cup {NoOne} : Stands(l, b) /\ Stands(l, c) => b = c
        /\ \A o \in OpIds, b \in Bidders \cup {NoOne} :
              /\ ops[o].kind \in AnswerKinds /\ ops[o].step \in {"dialog", "writeLoad"}
              /\ Stands(ops[o].load, b)
              => b = ops[o].who

ChoiceInv ==
    /\ RowsNamed /\ KnownCalls /\ TasksAway /\ NobodyBoots /\ AnswersWait
    /\ AsksAlone /\ AsksAfterOpenings /\ FetchesLast /\ SessionChoice

HeldChoice == NoOldCopies /\ Held /\ ChoiceInv

(* A step of the app: d replies are taken, at most one call is made, and   *)
(* nobody's login goes on.                                                 *)
AskingOp(op) == op.kind = "login" /\ op.step = "getUser"
OpsGo(d) ==
    /\ \A o \in OpIds : o <= started => ops'[o].kind = ops[o].kind
    /\ \A o \in OpIds : Asks(o)' => Asks(o) \/ o > started
    /\ \A o \in OpIds : Asks(o) => Asks(o)' \/ TakenOf(o, d, "getUser")
NewKnown(c) ==
    /\ c.owner \in OpIds /\ c.call # "saveDistance"
    /\ c.call = "getUser" => AskingOp(ops'[c.owner]) /\ \A o \in OpIds : ~Asks(o)
    /\ c.call = "getLoads" =>
          ~AskingOp(ops'[c.owner]) /\ ops'[c.owner].kind \notin AnswerKinds
    /\ c.call \notin {"getUser", "getLoads"} => ops'[c.owner].kind # "login"
    /\ c.call \in Opening => \A o \in OpIds : ~Asks(o) /\ ~Fetches(o)
    /\ c.call = "insertLoad" => user \notin Carriers
    /\ c.call = "updateLoad" => \A o \in OpIds : ~Fetches(o)
NewWrite(q) ==
    /\ Named(q.row)
    /\ CarrierSession /\ q.call = "updateLoad" => Stands(q.row.id, q.row.selected)
Grown(d) ==
    /\ Len(queue') >= Len(queue)
    /\ \A p \in DOMAIN Pipe' : Moved(p, d) \/ (NewPlace(p, d) /\ NewKnown(Pipe'[p]))
    /\ \A i \in DOMAIN queue' :
          (i \in DOMAIN queue /\ queue'[i] = queue[i]) \/ NewWrite(queue'[i])
ChoiceStep(d) ==
    /\ RepliesMoved(d) /\ OpsGo(d) /\ Grown(d)
    /\ UNCHANGED db

(* What else a step has to show. *)
BoardNamed ==
    /\ \A i \in DOMAIN mem' : Named(mem'[i])
    /\ \A o \in OpIds : Named(ops'[o].post)
BoardStands ==
    CarrierSession => \A i \in DOMAIN mem' : Stands(mem'[i].id, mem'[i].selected)
AnswerStays(o, d) == ops'[o] = ops[o] /\ ~TakenOf(o, d, "updateLoad")
AnswerEnds(o) == ops'[o].kind \in AnswerKinds /\ ops'[o].step \in {"done", "aborted"}
AnswerSubmits(o) ==
    /\ ops[o].step = "dialog" /\ ops'[o].step = "writeLoad"
    /\ ops'[o].kind = ops[o].kind /\ ops'[o].load = ops[o].load /\ ops'[o].who = ops[o].who
    /\ \E p \in DOMAIN Pipe' : Pipe'[p].call = "updateLoad" /\ Pipe'[p].owner = o
AnswerBegins(o) ==
    /\ ops'[o].step = "dialog" /\ ops'[o].kind \in AnswerKinds /\ ops'[o].who \in Carriers
    /\ CarrierSession
    /\ \A b \in Bidders \cup {NoOne} : Stands(ops'[o].load, b) => b = ops'[o].who
AnswersGo(d) ==
    \A o \in OpIds :
        ops'[o].kind \in AnswerKinds \/ ops'[o].step = "dialog" =>
            AnswerStays(o, d) \/ AnswerEnds(o) \/ AnswerSubmits(o) \/ AnswerBegins(o)

LEMMA KnownCallOf ==
    ASSUME HeldChoice, NEW p \in DOMAIN Pipe
    PROVE  /\ Pipe[p].owner \in OpIds /\ Pipe[p].owner <= started
           /\ KnownCall(Pipe[p]) /\ p \in Nat /\ p >= 1
BY DEF HeldChoice, ChoiceInv, KnownCalls, Held, ListInv, CallsLinked, CallLinked, Before,
       PipeFacts, PipeSizes

LEMMA TakenKnown ==
    ASSUME HeldChoice, RepliesMoved(1)
    PROVE  /\ 1 \in DOMAIN replies /\ 1 \in DOMAIN Pipe
           /\ Pipe[1] = [call |-> replies[1].call, owner |-> replies[1].owner,
                         load |-> replies[1].load]
           /\ replies[1].owner \in OpIds /\ replies[1].owner <= started
           /\ KnownCall(Pipe[1])
<1>1. /\ 1 \in DOMAIN replies /\ 1 \in DOMAIN Pipe
      /\ Pipe[1] = [call |-> replies[1].call, owner |-> replies[1].owner,
                    load |-> replies[1].load]
  BY FirstReply DEF HeldChoice, Held, Before
<1>2. /\ Pipe[1].owner \in OpIds /\ Pipe[1].owner <= started
      /\ KnownCall(Pipe[1])
  BY <1>1, KnownCallOf
<1>3. QED
  BY <1>1, <1>2

(* A call that is not taken is one place nearer. *)
LEMMA CallSurvives ==
    ASSUME HeldChoice, NEW d \in {0, 1}, ChoiceStep(d), NEW p \in DOMAIN Pipe, p > d
    PROVE  p - d \in DOMAIN Pipe' /\ Pipe'[p - d] = Pipe[p]
<1>1. /\ p \in Nat /\ p <= Len(replies) + Len(queue) /\ Len(replies) \in Nat /\ Len(queue) \in Nat
      /\ Len(queue') >= Len(queue) /\ Len(replies') = Len(replies) - d
      /\ Len(queue') \in Nat
      /\ DOMAIN Pipe' = 1..(Len(replies') + Len(queue'))
  BY DEF HeldChoice, Held, Before, PipeFacts, PipeSizes, ChoiceStep, Grown, RepliesMoved
<1>2. PICK n \in Nat : n = p - d
  BY <1>1
<1>3. n \in DOMAIN Pipe' /\ n + d = p
  BY <1>1, <1>2
<1>4. ~NewPlace(n, d)
  BY <1>1, <1>3 DEF NewPlace
<1>5. Moved(n, d)
  BY <1>3, <1>4 DEF ChoiceStep, Grown
<1>6. QED
  BY <1>2, <1>3, <1>5 DEF Moved

LEMMA NamedKept ==
    ASSUME HeldChoice, NEW d \in {0, 1}, ChoiceStep(d), BoardNamed
    PROVE  RowsNamed'
<1>1. \A i \in DOMAIN queue' : Named(queue'[i].row)
  BY DEF ChoiceStep, Grown, NewWrite, HeldChoice, ChoiceInv, RowsNamed
<1>2. \A k \in DOMAIN replies' : \A j \in DOMAIN replies'[k].rows : Named(replies'[k].rows[j])
  BY DEF ChoiceStep, RepliesMoved, HeldChoice, ChoiceInv, RowsNamed
<1>3. \A i \in DOMAIN db' : Named(db'[i])
  BY DEF ChoiceStep, HeldChoice, ChoiceInv, RowsNamed
<1>4. QED
  BY <1>1, <1>2, <1>3 DEF RowsNamed, BoardNamed, Named

LEMMA KnownKeptCalls ==
    ASSUME HeldChoice, NEW d \in {0, 1}, ChoiceStep(d)
    PROVE  KnownCalls'
<1> SUFFICES ASSUME NEW p \in DOMAIN Pipe' PROVE KnownCall(Pipe[p])'
  BY DEF KnownCalls
<1>1. CASE NewKnown(Pipe'[p])
  BY <1>1 DEF NewKnown, KnownCall, Asks, AskingOp
<1>2. CASE Moved(p, d)
  <2> DEFINE c == Pipe[p + d]
  <2>1. p + d \in DOMAIN Pipe /\ Pipe'[p] = c
    BY <1>2 DEF Moved
  <2>2. c.owner \in OpIds /\ c.owner <= started /\ KnownCall(c)
    BY <2>1, KnownCallOf
  <2>3. PICK o : o = c.owner
    OBVIOUS
  <2>8. o \in OpIds /\ ops'[o].kind = ops[o].kind /\ ~(o > started)
    <3>1. started \in Nat /\ OpIds \subseteq Nat /\ o \in OpIds /\ o <= started
      BY <2>2, <2>3, BoundsAssumption DEF OpIds, HeldChoice, Held, IInv, GoodOps
    <3>2. ~(o > started)
      BY <3>1
    <3>3. QED
      BY <3>1, <3>2 DEF ChoiceStep, OpsGo
  <2>4. ASSUME c.call = "getUser" PROVE Asks(o)'
    <3>1. Asks(o)
      BY <2>2, <2>3, <2>4 DEF KnownCall
    <3>2. ~TakenOf(o, d, "getUser")
      <4> SUFFICES ASSUME TakenOf(o, d, "getUser") PROVE FALSE
        OBVIOUS
      <4>1. d = 1 /\ Pipe[1].call = "getUser" /\ 1 \in DOMAIN Pipe
        BY TakenKnown DEF TakenOf, ChoiceStep
      <4>2. p + d = 1
        BY <2>1, <2>4, <4>1 DEF HeldChoice, ChoiceInv, AsksAfterOpenings
      <4>3. p \in Nat /\ p >= 1
        BY DEF HeldChoice, Held, Before, PipeFacts, PipeSizes
      <4>4. QED
        BY <4>1, <4>2, <4>3
    <3>3. QED
      BY <2>8, <3>1, <3>2 DEF ChoiceStep, OpsGo
  <2>5. ~Asks(o) => ~Asks(o)'
    BY <2>8 DEF ChoiceStep, OpsGo
  <2> HIDE DEF c
  <2>6. Pipe'[p].owner = o
    BY <2>1, <2>3
  <2>7. QED
    BY <2>1, <2>2, <2>3, <2>8, <2>4, <2>5, <2>6 DEF KnownCall
<1>3. QED
  BY <1>1, <1>2 DEF ChoiceStep, Grown

LEMMA OpeningsKept ==
    ASSUME HeldChoice, NEW d \in {0, 1}, ChoiceStep(d)
    PROVE  AsksAfterOpenings'
<1> SUFFICES ASSUME NEW p \in DOMAIN Pipe', Pipe'[p].call = "getUser", NEW q \in DOMAIN Pipe'
             PROVE  /\ q > p => Pipe'[q].call \notin Opening
                    /\ Pipe'[q].call = "getUser" => p = q
  BY DEF AsksAfterOpenings
<1>1. p \in Nat /\ q \in Nat /\ Len(replies) \in Nat /\ Len(queue) \in Nat
  BY DEF HeldChoice, Held, Before, PipeFacts, PipeSizes
<1>2. ASSUME NEW n \in DOMAIN Pipe', Moved(n, d), Pipe'[n].call = "getUser"
      PROVE  \E o \in OpIds : Asks(o)
  <2>1. n + d \in DOMAIN Pipe /\ Pipe[n + d].call = "getUser"
    BY <1>2 DEF Moved
  <2>2. Pipe[n + d].owner \in OpIds /\ KnownCall(Pipe[n + d])
    BY <2>1, KnownCallOf
  <2>3. QED
    BY <2>1, <2>2 DEF KnownCall
<1>3. CASE Moved(p, d) /\ Moved(q, d)
  <2>1. /\ p + d \in DOMAIN Pipe /\ Pipe[p + d].call = "getUser"
        /\ q + d \in DOMAIN Pipe /\ Pipe'[q] = Pipe[q + d]
    BY <1>3 DEF Moved
  <2>2. /\ q + d > p + d => Pipe[q + d].call \notin Opening
        /\ Pipe[q + d].call = "getUser" => p + d = q + d
    BY <2>1 DEF HeldChoice, ChoiceInv, AsksAfterOpenings
  <2>3. QED
    BY <1>1, <2>1, <2>2
<1>4. CASE Moved(p, d) /\ NewPlace(q, d) /\ NewKnown(Pipe'[q])
  BY <1>2, <1>4 DEF NewKnown
<1>5. CASE NewPlace(p, d) /\ NewKnown(Pipe'[p]) /\ Moved(q, d)
  <2>1. Pipe'[q].call # "getUser"
    BY <1>2, <1>5 DEF NewKnown
  <2>2. q + d \in DOMAIN Pipe /\ p + d = Len(replies) + Len(queue) + 1
    BY <1>5 DEF NewPlace, Moved
  <2>3. q + d <= Len(replies) + Len(queue)
    BY <2>2 DEF HeldChoice, Held, Before, PipeFacts, PipeSizes
  <2>4. ~(q > p)
    BY <1>1, <2>2, <2>3
  <2>5. QED
    BY <2>1, <2>4
<1>6. CASE NewPlace(p, d) /\ NewPlace(q, d)
  BY <1>1, <1>6 DEF NewPlace
<1>7. QED
  BY <1>3, <1>4, <1>5, <1>6 DEF ChoiceStep, Grown

(* Where a call that was made stands. *)
LEMMA CallArrives ==
    ASSUME HeldChoice, NEW o, NEW call, NEW row, Call(o, call, row)
    PROVE  /\ \E p \in DOMAIN Pipe' : Pipe'[p].call = call /\ Pipe'[p].owner = o
           /\ Len(queue') = Len(queue) + 1
           /\ \A i \in DOMAIN queue' :
                 \/ i \in DOMAIN queue /\ queue'[i] = queue[i]
                 \/ queue'[i] = [call |-> call, owner |-> o, row |-> row]
<1> DEFINE q == [call |-> call, owner |-> o, row |-> row]
           S == GoodRequest \cup {q}
<1>1. queue \in Seq(S) /\ q \in S
  BY SeqMonotonic DEF HeldChoice, Held, GoodQueue
<1>2. queue' = Append(queue, q) /\ q.call = call /\ q.owner = o
  BY DEF Call
<1> HIDE DEF q
<1>3. Len(queue) \in Nat /\ DOMAIN queue = 1..Len(queue)
  BY <1>1, LenProperties
<1>4. /\ DOMAIN queue' = 1..(Len(queue) + 1) /\ Len(queue') = Len(queue) + 1
      /\ \A i \in DOMAIN queue : queue'[i] = queue[i]
      /\ queue'[Len(queue) + 1] = q
  BY <1>1, <1>2, <1>3, AppendProperties, LenProperties
<1>5. PICK i : i = Len(queue) + 1
  OBVIOUS
<1>6. i \in DOMAIN queue' /\ queue'[i] = q
  BY <1>3, <1>4, <1>5
<1>7. Len(replies') \in Nat /\ DOMAIN Pipe' = 1..(Len(replies') + Len(queue'))
  BY DEF HeldChoice, Held, Before, PipeFacts, PipeSizes
<1>8. Len(replies') + i \in DOMAIN Pipe'
  BY <1>3, <1>4, <1>5, <1>7
<1>9. Pipe'[Len(replies') + i] = [call |-> queue'[i].call, owner |-> queue'[i].owner,
                                  load |-> queue'[i].row.id]
  BY <1>6 DEF HeldChoice, Held, Before, PipeFacts, WaitingNext
<1>10. Pipe'[Len(replies') + i].call = call /\ Pipe'[Len(replies') + i].owner = o
  BY <1>2, <1>6, <1>9
<1>11. \A j \in DOMAIN queue' : (j \in DOMAIN queue /\ queue'[j] = queue[j]) \/ queue'[j] = q
  BY <1>3, <1>4
<1>12. QED
  BY <1>4, <1>8, <1>10, <1>11 DEF q

LEMMA AnswersKept ==
    ASSUME HeldChoice, NEW d \in {0, 1}, ChoiceStep(d), AnswersGo(d),
           CarrierSession => CarrierSession'
    PROVE  AnswersWait'
<1> SUFFICES ASSUME NEW o \in OpIds
             PROVE  /\ ops'[o].step = "dialog" =>
                          /\ ops'[o].kind \in AnswerKinds /\ ops'[o].who \in Carriers
                          /\ CarrierSession'
                    /\ ops'[o].kind \in AnswerKinds =>
                          /\ ops'[o].step \in {"dialog", "writeLoad", "done", "aborted"}
                          /\ ops'[o].step = "writeLoad" =>
                                \E p \in DOMAIN Pipe' :
                                    Pipe'[p].call = "updateLoad" /\ Pipe'[p].owner = o
  BY DEF AnswersWait
<1>1. /\ ops[o].step = "dialog" =>
            ops[o].kind \in AnswerKinds /\ ops[o].who \in Carriers /\ CarrierSession
      /\ ops[o].kind \in AnswerKinds =>
            /\ ops[o].step \in {"dialog", "writeLoad", "done", "aborted"}
            /\ ops[o].step = "writeLoad" =>
                  \E p \in DOMAIN Pipe : Pipe[p].call = "updateLoad" /\ Pipe[p].owner = o
  BY DEF HeldChoice, ChoiceInv, AnswersWait
<1>2. CASE AnswerStays(o, d)
  <2>1. ops'[o] = ops[o] /\ ~TakenOf(o, d, "updateLoad")
    BY <1>2 DEF AnswerStays
  <2>2. ASSUME NEW p \in DOMAIN Pipe, Pipe[p].call = "updateLoad", Pipe[p].owner = o
        PROVE  \E q \in DOMAIN Pipe' : Pipe'[q].call = "updateLoad" /\ Pipe'[q].owner = o
    <3>1. p \in Nat /\ p >= 1
      BY KnownCallOf
    <3>2. p > d
      <4>1. CASE p = 1 /\ d = 1
        <5>1. Pipe[1].call = replies[1].call /\ Pipe[1].owner = replies[1].owner
          BY <4>1, TakenKnown DEF ChoiceStep
        <5>2. QED
          BY <2>1, <2>2, <4>1, <5>1 DEF TakenOf
      <4>2. QED
        BY <3>1, <4>1
    <3>3. QED
      BY <2>2, <3>2, CallSurvives
  <2>3. QED
    BY <1>1, <2>1, <2>2
<1>3. CASE AnswerEnds(o)
  BY <1>3 DEF AnswerEnds
<1>4. CASE AnswerSubmits(o)
  BY <1>1, <1>4 DEF AnswerSubmits
<1>5. CASE AnswerBegins(o)
  BY <1>5 DEF AnswerBegins
<1>6. QED
  BY <1>2, <1>3, <1>4, <1>5 DEF AnswersGo

(* While a login fetches, nothing opens or chooses behind the fetch. *)
LEMMA FetchedRows ==
    ASSUME HeldChoice, NEW d \in {0, 1}, ChoiceStep(d), NEW n \in DOMAIN Pipe',
           NEW l, NEW b, Fetchable(n, l, b)'
    PROVE  Fetchable(n + d, l, b)
<1>1. CASE Chooses(db', l, b)
  BY <1>1 DEF Fetchable, ChoiceStep
<1>2. CASE \E k \in DOMAIN replies' : k >= n /\ Chooses(replies'[k].rows, l, b)
  <2>1. PICK k \in DOMAIN replies' : k >= n /\ Chooses(replies'[k].rows, l, b)
    BY <1>2
  <2>2. k + d \in DOMAIN replies /\ replies'[k] = replies[k + d]
    BY DEF ChoiceStep, RepliesMoved
  <2>3. k \in Nat /\ n \in Nat
    BY DEF HeldChoice, Held, Before, PipeFacts, PipeSizes
  <2>4. k + d >= n + d
    BY <2>1, <2>3
  <2>5. QED
    BY <2>1, <2>2, <2>4 DEF Fetchable, Reads
<1>3. QED
  BY <1>1, <1>2 DEF Fetchable, Reads, Chooses

LEMMA FetchesKept ==
    ASSUME HeldChoice, NEW d \in {0, 1}, ChoiceStep(d), \A o \in OpIds : Fetches(o)' => Fetches(o)
    PROVE  FetchesLast'
<1> SUFFICES ASSUME NEW o \in OpIds, Fetches(o)
             PROVE  /\ \A p \in DOMAIN Pipe' : Pipe'[p].call \notin Opening
                    /\ \A p \in DOMAIN Pipe' :
                          Pipe'[p].call = "getLoads" /\ Pipe'[p].owner = o =>
                              /\ \A q \in DOMAIN Pipe' : q > p => Pipe'[q].call # "updateLoad"
                              /\ p \in DOMAIN replies' =>
                                    \A l \in Loads, b, c \in Bidders \cup {NoOne} :
                                        Fetchable(p, l, b)' /\ Fetchable(p, l, c)' => b = c
  BY DEF FetchesLast
<1>1. /\ \A p \in DOMAIN Pipe : Pipe[p].call \notin Opening
      /\ \A p \in DOMAIN Pipe : Pipe[p].call = "getLoads" /\ Pipe[p].owner = o =>
            /\ \A q \in DOMAIN Pipe : q > p => Pipe[q].call # "updateLoad"
            /\ p \in DOMAIN replies =>
                  \A l \in Loads, b, c \in Bidders \cup {NoOne} :
                      Fetchable(p, l, b) /\ Fetchable(p, l, c) => b = c
  BY DEF HeldChoice, ChoiceInv, FetchesLast
<1>2. \A p \in DOMAIN Pipe' : Moved(p, d) \/ (NewPlace(p, d) /\ NewKnown(Pipe'[p]))
  BY DEF ChoiceStep, Grown
<1>3. \A p \in DOMAIN Pipe' : p \in Nat
  BY DEF HeldChoice, Held, Before, PipeFacts, PipeSizes
<1>4. \A p \in DOMAIN Pipe' : Pipe'[p].call \notin Opening
  BY <1>1, <1>2 DEF Moved, NewKnown
<1>5. ASSUME NEW p \in DOMAIN Pipe', Pipe'[p].call = "getLoads", Pipe'[p].owner = o,
             NEW q \in DOMAIN Pipe', q > p
      PROVE  Pipe'[q].call # "updateLoad"
  <2>1. CASE NewPlace(q, d) /\ NewKnown(Pipe'[q])
    BY <2>1 DEF NewKnown
  <2>2. CASE Moved(q, d)
    <3>1. q + d \in DOMAIN Pipe /\ Pipe'[q] = Pipe[q + d]
      BY <2>2 DEF Moved
    <3>2. CASE NewPlace(p, d)
      <4>1. p + d = Len(replies) + Len(queue) + 1 /\ q + d <= Len(replies) + Len(queue)
        BY <3>1, <3>2 DEF NewPlace, HeldChoice, Held, Before, PipeFacts, PipeSizes
      <4>2. Len(replies) + Len(queue) \in Nat /\ p \in Nat /\ q \in Nat
        BY <1>3 DEF HeldChoice, Held, Before, PipeFacts, PipeSizes
      <4>3. QED
        BY <1>5, <4>1, <4>2
    <3>3. CASE Moved(p, d)
      <4>1. p + d \in DOMAIN Pipe /\ Pipe'[p] = Pipe[p + d]
        BY <3>3 DEF Moved
      <4>2. q + d > p + d
        BY <1>3, <1>5
      <4>3. QED
        BY <1>1, <1>5, <3>1, <4>1, <4>2
    <3>4. QED
      BY <1>2, <3>2, <3>3
  <2>3. QED
    BY <1>2, <2>1, <2>2
<1>6. ASSUME NEW p \in DOMAIN Pipe', Pipe'[p].call = "getLoads", Pipe'[p].owner = o,
             p \in DOMAIN replies', NEW l \in Loads, NEW b \in Bidders \cup {NoOne},
             NEW c \in Bidders \cup {NoOne}, Fetchable(p, l, b)', Fetchable(p, l, c)'
      PROVE  b = c
  <2>1. ~NewPlace(p, d)
    BY <1>6 DEF NewPlace, HeldChoice, Held, Before, PipeFacts, PipeSizes
  <2>2. p + d \in DOMAIN Pipe /\ Pipe'[p] = Pipe[p + d]
    BY <1>2, <2>1 DEF Moved
  <2>3. p + d \in DOMAIN replies
    BY <1>6 DEF ChoiceStep, RepliesMoved
  <2>4. Fetchable(p + d, l, b) /\ Fetchable(p + d, l, c)
    BY <1>6, FetchedRows
  <2>5. QED
    BY <1>1, <1>6, <2>2, <2>3, <2>4
<1>7. QED
  BY <1>4, <1>5, <1>6

(* In the session of a carrier no copy with another choice appears. *)
LEMMA StandsBefore ==
    ASSUME HeldChoice, NEW d \in {0, 1}, ChoiceStep(d), BoardStands, CarrierSession,
           NEW l, NEW b, Stands(l, b)'
    PROVE  Stands(l, b)
<1>1. CASE Chooses(mem', l, b)
  BY <1>1 DEF Chooses, BoardStands
<1>2. CASE Chooses(db', l, b)
  BY <1>2 DEF Stands, Fetchable, ChoiceStep
<1>3. CASE \E k \in DOMAIN replies' : Chooses(replies'[k].rows, l, b)
  <2>1. PICK k \in DOMAIN replies' : Chooses(replies'[k].rows, l, b)
    BY <1>3
  <2>2. k + d \in DOMAIN replies /\ replies'[k] = replies[k + d] /\ k + d >= 1
    BY DEF ChoiceStep, RepliesMoved, HeldChoice, Held, Before, PipeFacts, PipeSizes
  <2>3. QED
    BY <2>1, <2>2 DEF Stands, Fetchable, Reads
<1>4. CASE \E i \in DOMAIN queue' : /\ queue'[i].call = "updateLoad"
                                    /\ queue'[i].row.id = l /\ queue'[i].row.selected = b
  <2>1. PICK i \in DOMAIN queue' : /\ queue'[i].call = "updateLoad"
                                   /\ queue'[i].row.id = l /\ queue'[i].row.selected = b
    BY <1>4
  <2>2. CASE i \in DOMAIN queue /\ queue'[i] = queue[i]
    BY <2>1, <2>2 DEF Stands, Writes
  <2>3. CASE NewWrite(queue'[i])
    BY <2>1, <2>3 DEF NewWrite
  <2>4. QED
    BY <2>2, <2>3 DEF ChoiceStep, Grown
<1>5. QED
  BY <1>1, <1>2, <1>3, <1>4 DEF Stands, Fetchable, Reads, Writes, Chooses

LEMMA SessionChoiceKept ==
    ASSUME HeldChoice, NEW d \in {0, 1}, ChoiceStep(d), BoardStands, AnswersGo(d),
           CarrierSession
    PROVE  SessionChoice'
<1>1. /\ \A p \in DOMAIN Pipe : Pipe[p].call # "insertLoad"
      /\ \A l \in Loads, b, c \in Bidders \cup {NoOne} : Stands(l, b) /\ Stands(l, c) => b = c
      /\ \A o \in OpIds, b \in Bidders \cup {NoOne} :
            /\ ops[o].kind \in AnswerKinds /\ ops[o].step \in {"dialog", "writeLoad"}
            /\ Stands(ops[o].load, b)
            => b = ops[o].who
  BY DEF HeldChoice, ChoiceInv, SessionChoice
<1>2. \A p \in DOMAIN Pipe' : Pipe'[p].call # "insertLoad"
  BY <1>1 DEF ChoiceStep, Grown, Moved, NewKnown, CarrierSession
<1>3. \A l \in Loads, b, c \in Bidders \cup {NoOne} : Stands(l, b)' /\ Stands(l, c)' => b = c
  BY <1>1, StandsBefore
<1>4. ASSUME NEW o \in OpIds, NEW b \in Bidders \cup {NoOne},
             ops'[o].kind \in AnswerKinds, ops'[o].step \in {"dialog", "writeLoad"},
             Stands(ops[o].load, b)'
      PROVE  b = ops'[o].who
  <2>1. PICK l : l = ops'[o].load
    OBVIOUS
  <2>2. Stands(l, b)
    <3>1. Stands(l, b)'
      BY <1>4, <2>1 DEF Stands, Fetchable, Reads, Writes, Chooses
    <3>2. QED
      BY <3>1, StandsBefore
  <2>3. CASE AnswerStays(o, d)
    BY <1>1, <1>4, <2>1, <2>2, <2>3 DEF AnswerStays
  <2>4. CASE AnswerEnds(o)
    BY <1>4, <2>4 DEF AnswerEnds
  <2>5. CASE AnswerSubmits(o)
    BY <1>1, <1>4, <2>1, <2>2, <2>5 DEF AnswerSubmits
  <2>6. CASE AnswerBegins(o)
    BY <2>1, <2>2, <2>6 DEF AnswerBegins
  <2>7. QED
    BY <1>4, <2>3, <2>4, <2>5, <2>6 DEF AnswersGo
<1>5. QED
  BY <1>2, <1>3, <1>4 DEF SessionChoice

(* A step of the app in which nobody logs in. *)
TasksAside ==
    \A o \in OpIds, l \in Loads :
        tasks'[o][l].step # "none" => tasks[o][l].step # "none" \/ (~Asks(o)' /\ ~Fetches(o)')
LEMMA ChoiceStepKeeps ==
    ASSUME HeldChoice, NEW d \in {0, 1}, ChoiceStep(d), LoginsKept, UNCHANGED <<user, boot>>,
           TasksAside, BoardNamed, BoardStands, AnswersGo(d)
    PROVE  ChoiceInv'
<1>1. RowsNamed' /\ KnownCalls' /\ AsksAfterOpenings'
  BY NamedKept, KnownKeptCalls, OpeningsKept
<1>2. TasksAway'
  BY DEF TasksAside, TasksAway, LoginsKept, HeldChoice, ChoiceInv
<1>3. NobodyBoots'
  BY DEF NobodyBoots, Booted, HeldChoice, ChoiceInv
<1>4. CarrierSession' <=> CarrierSession
  BY DEF LoginsKept, CarrierSession, InSession
<1>5. AnswersWait'
  BY <1>4, AnswersKept
<1>6. AsksAlone'
  BY AsksKeptAlone DEF HeldChoice, ChoiceInv
<1>7. FetchesLast'
  BY FetchesKept DEF LoginsKept
<1>8. SessionChoice'
  <2>1. CASE CarrierSession
    BY <2>1, SessionChoiceKept
  <2>2. CASE ~CarrierSession
    BY <1>4, <2>2 DEF SessionChoice
  <2>3. QED
    BY <2>1, <2>2
<1>9. QED
  BY <1>1, <1>2, <1>3, <1>5, <1>6, <1>7, <1>8 DEF ChoiceInv

(* The parts of a step. *)
LEMMA OpsHeld ==
    ASSUME HeldChoice
    PROVE  /\ started \in Nat /\ OpIds \subseteq Nat
           /\ \A o \in OpIds : o > started <=> ops[o].kind = "none"
           /\ \A o \in OpIds : Named(ops[o].post)
BY BoundsAssumption
   DEF OpIds, HeldChoice, Held, IInv, GoodOps, ListInv, OpsShaped, ChoiceInv, RowsNamed

GoesTo(o, d) ==
    /\ \A p \in OpIds : p # o => ops'[p] = ops[p]
    /\ ops'[o].kind = ops[o].kind /\ ops'[o].post = ops[o].post
    /\ ops'[o].step \notin {"getUser", "dialog"}
    /\ ops[o].kind = "login" => ~Asks(o) /\ ~Fetches(o) /\ ops'[o].step # "read"
    /\ ops[o].kind \in AnswerKinds => AnswerEnds(o) \/ AnswerSubmits(o)
    /\ d = 1 => replies[1].owner = o
LEMMA GoesToOps ==
    ASSUME HeldChoice, NEW d \in {0, 1}, NEW o \in OpIds, GoesTo(o, d), UNCHANGED <<started, user>>
    PROVE  /\ OpsGo(d) /\ LoginsKept /\ AnswersGo(d)
           /\ \A p \in OpIds : Named(ops'[p].post)
<1>1. \A p \in OpIds : p # o => ops'[p] = ops[p]
  BY DEF GoesTo
<1>2. \A p \in OpIds : ops'[p].kind = ops[p].kind /\ ops'[p].post = ops[p].post
  BY DEF GoesTo
<1>3. \A p \in OpIds : (Asks(p)' <=> Asks(p)) /\ (Fetches(p)' <=> Fetches(p))
  BY <1>1, <1>2 DEF GoesTo, Asks, Fetches
<1>4. OpsGo(d) /\ LoginsKept
  BY <1>2, <1>3 DEF OpsGo, LoginsKept
<1>5. AnswersGo(d)
  <2> SUFFICES ASSUME NEW p \in OpIds, ops'[p].kind \in AnswerKinds \/ ops'[p].step = "dialog"
               PROVE  AnswerStays(p, d) \/ AnswerEnds(p) \/ AnswerSubmits(p)
    BY DEF AnswersGo
  <2>1. CASE p = o
    BY <1>2, <2>1 DEF GoesTo
  <2>2. CASE p # o
    BY <2>2 DEF GoesTo, AnswerStays, TakenOf
  <2>3. QED
    BY <2>1, <2>2
<1>6. QED
  BY <1>2, <1>4, <1>5, OpsHeld

LEMMA StepsTo ==
    ASSUME HeldChoice, NEW o \in OpIds, NEW s, ops' = [ops EXCEPT ![o].step = s]
    PROVE  /\ \A p \in OpIds : p # o => ops'[p] = ops[p]
           /\ ops'[o].kind = ops[o].kind /\ ops'[o].who = ops[o].who
           /\ ops'[o].post = ops[o].post
           /\ ops'[o].load = ops[o].load /\ ops'[o].step = s
BY DEF HeldChoice, Held, IInv, GoodOps, Op

(* The handler of a call that was answered. *)
LEMMA ReplyTaken ==
    ASSUME HeldChoice, NEW call, Resumed(call)
    PROVE  /\ RepliesMoved(1) /\ Booted /\ Head(replies) = replies[1]
           /\ 1 \in DOMAIN replies /\ 1 \in DOMAIN Pipe
           /\ replies[1].call = call /\ Pipe[1].call = call
           /\ Pipe[1].owner = replies[1].owner /\ Pipe[1].load = replies[1].load
           /\ replies[1].owner \in OpIds /\ replies[1].owner <= started
           /\ KnownCall(Pipe[1])
<1>1. /\ RepliesMoved(1) /\ Booted /\ Head(replies) = replies[1] /\ replies[1].call = call
  BY TakesReply DEF HeldChoice, Held
<1>2. QED
  BY <1>1, TakenKnown

(* A handler that is no login starts. *)
LEMMA BeginsOps ==
    ASSUME HeldChoice, NEW kind, CanStart(kind), NEW op, StartOp(op), UNCHANGED user,
           op.kind # "login", Named(op.post),
           op.kind \in AnswerKinds \/ op.step = "dialog" =>
               /\ op.step = "dialog" /\ op.kind \in AnswerKinds /\ op.who \in Carriers
               /\ CarrierSession
               /\ \A b \in Bidders \cup {NoOne} : Stands(op.load, b) => b = op.who
    PROVE  /\ OpsGo(0) /\ LoginsKept /\ AnswersGo(0)
           /\ \A p \in OpIds : Named(ops'[p].post)
           /\ started + 1 \in OpIds /\ ops'[started + 1] = op
<1>1. /\ started + 1 \in OpIds /\ started \in Nat
      /\ ops'[started + 1] = op
      /\ \A o \in OpIds : o # started + 1 => ops'[o] = ops[o]
  BY OpIsNew DEF HeldChoice, Held
<1>2. PICK n \in OpIds : n = started + 1
  BY <1>1
<1>3. n > started /\ \A o \in OpIds : o <= started => o # n
  BY <1>1, <1>2, OpsHeld
<1>4. ops[n].kind = "none"
  BY <1>3, OpsHeld
<1>5. \A o \in OpIds : (Asks(o)' <=> Asks(o)) /\ (Fetches(o)' <=> Fetches(o))
  BY <1>1, <1>2, <1>4 DEF Asks, Fetches
<1>6. OpsGo(0) /\ LoginsKept
  BY <1>1, <1>2, <1>3, <1>5 DEF OpsGo, LoginsKept
<1>7. AnswersGo(0)
  <2> SUFFICES ASSUME NEW o \in OpIds, ops'[o].kind \in AnswerKinds \/ ops'[o].step = "dialog"
               PROVE  AnswerStays(o, 0) \/ AnswerBegins(o)
    BY DEF AnswersGo
  <2>1. CASE o = n
    BY <1>1, <1>2, <2>1 DEF AnswerBegins
  <2>2. CASE o # n
    <3>1. ops'[o] = ops[o]
      BY <1>1, <1>2, <2>2
    <3>2. ~TakenOf(o, 0, "updateLoad")
      BY DEF TakenOf
    <3>3. QED
      BY <3>1, <3>2 DEF AnswerStays
  <2>3. QED
    BY <2>1, <2>2
<1>8. \A p \in OpIds : Named(ops'[p].post)
  BY <1>1, <1>2, OpsHeld
<1>9. QED
  BY <1>1, <1>6, <1>7, <1>8

LEMMA NothingGrown ==
    ASSUME HeldChoice, NEW d \in {0, 1}, RepliesMoved(d), UNCHANGED queue
    PROVE  Grown(d)
<1>1. \A p \in DOMAIN Pipe' : Moved(p, d)
  BY PipeKept DEF HeldChoice, Held, Before
<1>2. Len(queue') >= Len(queue)
  BY DEF HeldChoice, Held, Before, PipeFacts, PipeSizes
<1>3. QED
  BY <1>1, <1>2 DEF Grown

LEMMA CallGrown ==
    ASSUME HeldChoice, NEW d \in {0, 1}, RepliesMoved(d),
           NEW o, NEW call, NEW row, Call(o, call, row),
           NewKnown([call |-> call, owner |-> o, load |-> row.id]),
           NewWrite([call |-> call, owner |-> o, row |-> row])
    PROVE  Grown(d)
<1> DEFINE q == [call |-> call, owner |-> o, row |-> row]
           c == [call |-> call, owner |-> o, load |-> row.id]
<1>1. \A p \in DOMAIN Pipe' : Moved(p, d) \/ (NewPlace(p, d) /\ Pipe'[p] = c)
  BY PipeCalled DEF HeldChoice, Held, Before, NewPlace
<1>2. /\ Len(queue') = Len(queue) + 1
      /\ \A i \in DOMAIN queue' :
            (i \in DOMAIN queue /\ queue'[i] = queue[i]) \/ queue'[i] = q
  BY CallArrives
<1>3. Len(queue') >= Len(queue)
  BY <1>2 DEF HeldChoice, Held, Before, PipeFacts, PipeSizes
<1>4. NewKnown(c) /\ NewWrite(q)
  OBVIOUS
<1> HIDE DEF c, q
<1>5. QED
  BY <1>1, <1>2, <1>3, <1>4 DEF Grown

(* A call that writes no load and is no login's. *)
LEMMA PlainGrown ==
    ASSUME HeldChoice, NEW d \in {0, 1}, RepliesMoved(d), NEW o \in OpIds,
           NEW call \in {"getLoads", "deleteLoad", "insertLoad", "updateLoadBids"}, NEW row,
           Call(o, call, row), Named(row), ops'[o].kind # "login",
           call = "getLoads" => ops'[o].kind \notin AnswerKinds,
           call \in Opening => InSession,
           call = "insertLoad" => user \notin Carriers
    PROVE  Grown(d)
<1> DEFINE q == [call |-> call, owner |-> o, row |-> row]
           c == [call |-> call, owner |-> o, load |-> row.id]
<1>1. c.call = call /\ c.owner = o /\ q.call = call /\ q.row = row
  OBVIOUS
<1> HIDE DEF c, q
<1>2. NewKnown(c)
  BY <1>1 DEF NewKnown, AskingOp, InSession
<1>3. NewWrite(q)
  BY <1>1 DEF NewWrite
<1>4. QED
  BY <1>2, <1>3, CallGrown DEF c, q

LEMMA FreshNamed ==
    /\ \A l : Named(FreshRow(l)) /\ Named(FreshPost(l))
    /\ Named(AnyRow) /\ Named(NoOp.post)
    /\ \A kind, step, l, who : Handler(kind, step, l, who).post = NoOp.post
BY DEF Named, FreshRow, FreshPost, AnyRow, NoOp, Handler

LEMMA BoardChoice ==
    ASSUME HeldChoice, UNCHANGED mem, \A o \in OpIds : Named(ops'[o].post)
    PROVE  BoardNamed /\ BoardStands
BY DEF BoardNamed, BoardStands, Stands, Chooses, HeldChoice, ChoiceInv, RowsNamed

LEMMA RowNamed ==
    ASSUME NEW post, Named(post)
    PROVE  /\ Named(ToRow(post)) /\ ToRow(post).selected = post.selected
           /\ ToRow(post).id = post.id
           /\ \A bids : Named([ToRow(post) EXCEPT !.bids = bids])
BY DEF ToRow, Named

(* One lemma per action.  A handler of a board starts: *)
LEMMA BoardBegins ==
    ASSUME HeldChoice, NEW kind, CanStart(kind), NEW op, StartOp(op), op.kind # "login",
           Named(op.post), op.kind \notin AnswerKinds, op.step # "dialog", Grown(0),
           UNCHANGED <<mem, user, boot, db, replies>>, TasksAside
    PROVE  ChoiceInv'
<1>1. RepliesMoved(0)
  BY RepliesStay DEF HeldChoice, Held
<1>2. /\ OpsGo(0) /\ LoginsKept /\ AnswersGo(0)
      /\ \A p \in OpIds : Named(ops'[p].post)
  BY BeginsOps
<1>3. BoardNamed /\ BoardStands
  BY <1>2, BoardChoice
<1>4. ChoiceStep(0)
  BY <1>1, <1>2 DEF ChoiceStep
<1>5. QED
  BY <1>2, <1>3, <1>4, ChoiceStepKeeps

LEMMA TasksRest ==
    ASSUME UNCHANGED tasks
    PROVE  TasksAside
BY DEF TasksAside

LEMMA BeginsWithCall ==
    ASSUME HeldChoice, NEW kind, CanStart(kind), NEW op, StartOp(op), op.kind # "login",
           Named(op.post), op.kind \notin AnswerKinds, op.step # "dialog",
           NEW call \in {"getLoads", "deleteLoad", "insertLoad", "updateLoadBids"}, NEW row,
           Call(started + 1, call, row), Named(row),
           call \in Opening => InSession,
           call = "insertLoad" => user \notin Carriers,
           UNCHANGED <<mem, user, boot, db, replies, tasks>>
    PROVE  ChoiceInv'
<1>1. RepliesMoved(0)
  BY RepliesStay DEF HeldChoice, Held
<1>2. PICK n \in OpIds : n = started + 1 /\ ops'[n] = op
  BY BeginsOps
<1>3. Grown(0)
  <2>1. Call(n, call, row) /\ ops'[n].kind # "login" /\ ops'[n].kind \notin AnswerKinds
    BY <1>2
  <2>2. QED
    BY <1>1, <2>1, PlainGrown
<1>4. QED
  BY <1>3, BoardBegins, TasksRest

LEMMA RefreshChoice ==
    ASSUME HeldChoice, Refresh
    PROVE  ChoiceInv'
<1> DEFINE op == Handler("refresh", "read", NoOp.load, user)
<1>1. op.kind = "refresh" /\ op.step = "read" /\ Named(op.post) /\ Named(AnyRow)
  BY HandlerShape, FreshNamed
<1> HIDE DEF op
<1>2. /\ CanStart("refresh") /\ StartOp(op) /\ Call(started + 1, "getLoads", AnyRow)
      /\ UNCHANGED <<mem, tasks, user, boot, db, replies>>
  BY DEF Refresh, op, memory, outside, FetchLoads
<1>3. op.kind \notin AnswerKinds
  BY <1>1 DEF AnswerKinds
<1>4. QED
  BY <1>1, <1>2, <1>3, BeginsWithCall DEF Opening

LEMMA OpenDetailsChoice ==
    ASSUME HeldChoice, NEW l \in Loads, OpenDetails(l)
    PROVE  ChoiceInv'
<1> DEFINE op == Handler("details", "distances", l, user)
<1>1. op.kind = "details" /\ op.step = "distances" /\ Named(op.post)
  BY HandlerShape, FreshNamed
<1> HIDE DEF op
<1>2. /\ CanStart("details") /\ StartOp(op)
      /\ tasks' = [tasks EXCEPT ![started + 1][l] =
                      [step |-> "route", post |-> mem[IndexOf(mem, l)]]]
      /\ UNCHANGED <<mem, user, boot, db, queue, replies>>
  BY DEF OpenDetails, op, outside
<1>3. PICK n \in OpIds : n = started + 1 /\ ops'[n] = op
  BY <1>2, OpIsNew DEF HeldChoice, Held
<1>4. ~Asks(n)' /\ ~Fetches(n)'
  BY <1>1, <1>3 DEF Asks, Fetches
<1>5. TasksAside
  <2>1. \A o \in OpIds, k \in Loads : tasks'[o][k] = tasks[o][k] \/ o = n
    BY <1>2, <1>3 DEF HeldChoice, Held, IInv, GoodTasks
  <2>2. QED
    BY <1>4, <2>1 DEF TasksAside
<1>6. Grown(0)
  BY <1>2, NothingGrown, RepliesStay DEF HeldChoice, Held
<1>7. op.kind # "login" /\ op.kind \notin AnswerKinds /\ op.step # "dialog"
  BY <1>1 DEF AnswerKinds
<1>8. QED
  BY <1>1, <1>2, <1>5, <1>6, <1>7, BoardBegins

LEMMA PosterChoice ==
    ASSUME HeldChoice, AtBoard, user = Broker, NEW kind \in {"post", "return"}, CanStart(kind),
           NEW l, NEW post, Named(post),
           StartOp([Handler(kind, "insert", l, user) EXCEPT !.post = post]),
           NEW row, Named(row), Call(started + 1, "insertLoad", row),
           UNCHANGED <<mem, tasks, user, boot, db, replies>>
    PROVE  ChoiceInv'
<1> DEFINE op == [Handler(kind, "insert", l, user) EXCEPT !.post = post]
<1>1. op.kind = kind /\ op.step = "insert" /\ op.post = post
  BY DEF Handler, NoOp
<1>2. StartOp(op)
  OBVIOUS
<1> HIDE DEF op
<1>3. user \notin Carriers /\ InSession
  BY BoardIsInSession DEF HeldChoice, NoOldCopies
<1>4. op.kind # "login" /\ op.kind \notin AnswerKinds /\ op.step # "dialog" /\ Named(op.post)
  BY <1>1 DEF AnswerKinds
<1>5. QED
  BY <1>2, <1>3, <1>4, BeginsWithCall

LEMMA PostLoadChoice ==
    ASSUME HeldChoice, NEW l \in Loads, PostLoad(l)
    PROVE  ChoiceInv'
<1>1. /\ AtBoard /\ user = Broker /\ CanStart("post")
      /\ StartOp([Handler("post", "insert", l, user) EXCEPT !.post = FreshPost(l)])
      /\ Call(started + 1, "insertLoad", FreshRow(l))
      /\ UNCHANGED <<mem, tasks, user, boot, db, replies>>
  BY DEF PostLoad, memory, outside
<1>2. Named(FreshPost(l)) /\ Named(FreshRow(l))
  BY FreshNamed
<1>3. QED
  BY <1>1, <1>2, PosterChoice

LEMMA Shown ==
    ASSUME HeldChoice, NEW l
    PROVE  /\ IndexOf(mem, l) # 0 => /\ IndexOf(mem, l) \in DOMAIN mem
                                     /\ mem[IndexOf(mem, l)].id = l
                                     /\ Named(mem[IndexOf(mem, l)])
           /\ Has(mem, l) => IndexOf(mem, l) # 0
           /\ \A i \in DOMAIN mem : mem[i] \in GoodPost
<1>1. mem \in Seq(GoodPost)
  BY DEF HeldChoice, Held, IInv, GoodMem
<1>2. Len(mem) \in Nat /\ DOMAIN mem = 1..Len(mem) /\ \A i \in DOMAIN mem : mem[i] \in GoodPost
  BY <1>1, LenProperties, ElementOfSeq
<1>3. /\ IndexOf(mem, l) # 0 => IndexOf(mem, l) \in DOMAIN mem /\ mem[IndexOf(mem, l)].id = l
      /\ Has(mem, l) => IndexOf(mem, l) # 0
  BY <1>1, <1>2, IndexOfSpec
<1>4. QED
  BY <1>2, <1>3 DEF HeldChoice, ChoiceInv, RowsNamed

LEMMA PostReturnChoice ==
    ASSUME HeldChoice, NEW l \in Loads, PostReturn(l)
    PROVE  ChoiceInv'
<1> DEFINE post == [mem[IndexOf(mem, l)] EXCEPT !.id = EmptyId, !.list = started + 1]
<1>1. /\ AtBoard /\ user = Broker /\ Has(mem, l) /\ CanStart("return")
      /\ StartOp([Handler("return", "insert", EmptyId, user) EXCEPT !.post = post])
      /\ Call(started + 1, "insertLoad", ToRow(post))
      /\ UNCHANGED <<mem, tasks, user, boot, db, replies>>
  BY DEF PostReturn, memory, outside
<1>2. Named(post)
  <2>1. PICK i \in DOMAIN mem : i = IndexOf(mem, l) /\ Named(mem[i]) /\ mem[i] \in Post
    BY <1>1, Shown DEF GoodPost
  <2>2. QED
    BY <2>1 DEF Named, Post
<1> HIDE DEF post
<1>3. Named(ToRow(post))
  BY <1>2, RowNamed
<1>4. QED
  BY <1>1, <1>2, <1>3, PosterChoice

LEMMA DeleteLoadsChoice ==
    ASSUME HeldChoice, NEW chosen \in SUBSET Loads, DeleteLoads(chosen)
    PROVE  ChoiceInv'
<1>1. CanStart("delete") /\ UNCHANGED <<mem, tasks, user, boot, db, replies>>
  BY DEF DeleteLoads, memory, outside
<1>2. PICK l \in chosen :
          /\ StartOp([Handler("delete", "delete", l, user) EXCEPT
                         !.chosen = chosen, !.todo = chosen \ {l}])
          /\ Call(started + 1, "deleteLoad", FreshRow(l))
  BY DEF DeleteLoads
<1> DEFINE op == [Handler("delete", "delete", l, user) EXCEPT
                     !.chosen = chosen, !.todo = chosen \ {l}]
<1>3. op.kind = "delete" /\ op.step = "delete" /\ op.post = NoOp.post
  BY DEF Handler, NoOp
<1>4. StartOp(op)
  BY <1>2
<1> HIDE DEF op
<1>5. /\ op.kind # "login" /\ op.kind \notin AnswerKinds /\ op.step # "dialog"
      /\ Named(op.post) /\ Named(FreshRow(l))
  BY <1>3, FreshNamed DEF AnswerKinds
<1>6. QED
  BY <1>1, <1>2, <1>4, <1>5, BeginsWithCall DEF Opening

LEMMA AddBidChoice ==
    ASSUME HeldChoice, NEW kind \in {"bid", "bidByName"}, NEW l, NEW b, AddBid(kind, l, b)
    PROVE  ChoiceInv'
<1> DEFINE op == Handler(kind, "writeBids", l, b)
<1>1. op.kind = kind /\ op.step = "writeBids" /\ Named(op.post)
  BY HandlerShape, FreshNamed
<1> HIDE DEF op
<1>2. /\ AtBoard /\ CanStart(kind) /\ StartOp(op) /\ IndexOf(mem, l) # 0
      /\ UNCHANGED <<mem, tasks, user, boot, db, replies>>
  BY DEF AddBid, op, outside
<1>3. PICK i, bids : /\ i = IndexOf(mem, l)
                     /\ Call(started + 1, "updateLoadBids", [ToRow(mem[i]) EXCEPT !.bids = bids])
  BY DEF AddBid
<1>4. Named([ToRow(mem[i]) EXCEPT !.bids = bids])
  BY <1>2, <1>3, Shown, RowNamed
<1>5. op.kind # "login" /\ op.kind \notin AnswerKinds /\ op.step # "dialog" /\ InSession
  BY <1>1, <1>2, BoardIsInSession DEF AnswerKinds
<1>6. QED
  BY <1>1, <1>2, <1>3, <1>4, <1>5, BeginsWithCall

(* A verdict: an acceptance is the broker's and confirms nothing, and a    *)
(* rejection leaves the load.                                              *)
LEMMA RespondChoice ==
    ASSUME HeldChoice, NEW l, NEW b, NEW verdict, Respond(l, b, verdict)
    PROVE  ChoiceInv'
<1>0. PICK i : i = IndexOf(mem, l)
  OBVIOUS
<1> DEFINE post == Judged(mem[i], b, verdict)
           op == [Handler("respond", "writeBids", l, b) EXCEPT
                     !.index = i, !.verdict = verdict]
<1>1. op.kind = "respond" /\ op.step = "writeBids" /\ op.post = NoOp.post
  BY DEF Handler, NoOp
<1> HIDE DEF op
<1>2. /\ AtBoard /\ CanStart("respond") /\ StartOp(op) /\ BidOf(l, b) # "none"
      /\ user = Broker \/ verdict = "rejected"
      /\ mem' = [mem EXCEPT ![i] = post]
      /\ UNCHANGED <<tasks, user, boot, db, replies>>
  BY <1>0 DEF Respond, op, outside
<1>3. PICK bids : Call(started + 1, "updateLoadBids", [ToRow(post) EXCEPT !.bids = bids])
  BY <1>0 DEF Respond
<1>4. i \in DOMAIN mem /\ mem[i].id = l /\ Named(mem[i]) /\ mem[i] \in Post
  BY <1>0, <1>2, Shown DEF BidOf, GoodPost
<1>5. Named(post) /\ (verdict = "rejected" => post = mem[i])
  BY <1>4 DEF Judged, Named, Post
<1> HIDE DEF post
<1>6. InSession /\ Named(op.post)
  BY <1>1, <1>2, BoardIsInSession, FreshNamed
<1>7. /\ OpsGo(0) /\ LoginsKept /\ AnswersGo(0)
      /\ \A p \in OpIds : Named(ops'[p].post)
      /\ started + 1 \in OpIds /\ ops'[started + 1] = op
  <2>1. op.kind # "login" /\ op.kind \notin AnswerKinds /\ op.step # "dialog"
    BY <1>1 DEF AnswerKinds
  <2>2. QED
    BY <1>2, <1>6, <2>1, BeginsOps
<1>8. RepliesMoved(0)
  BY <1>2, RepliesStay DEF HeldChoice, Held
<1>9. Grown(0)
  <2>1. PICK n \in OpIds : n = started + 1 /\ ops'[n] = op
    BY <1>7
  <2>2. ops'[n].kind # "login" /\ Named([ToRow(post) EXCEPT !.bids = bids])
    BY <1>1, <1>5, <2>1, RowNamed
  <2>3. Call(n, "updateLoadBids", [ToRow(post) EXCEPT !.bids = bids])
    BY <1>3, <2>1
  <2>4. QED
    BY <1>6, <1>8, <2>2, <2>3, PlainGrown
<1>10. BoardNamed
  BY <1>2, <1>4, <1>5, <1>7 DEF BoardNamed, HeldChoice, ChoiceInv, RowsNamed
<1>11. BoardStands
  <2> SUFFICES ASSUME user \in Carriers PROVE \A k \in DOMAIN mem' : Stands(mem'[k].id, mem'[k].selected)
    BY DEF BoardStands, CarrierSession
  <2>1. verdict = "rejected"
    BY <1>2 DEF HeldChoice, NoOldCopies
  <2>2. DOMAIN mem' = DOMAIN mem /\ \A k \in DOMAIN mem : mem'[k] = mem[k]
    BY <1>2, <1>5, <2>1
  <2>3. QED
    BY <2>2 DEF Stands, Chooses
<1>12. ChoiceStep(0)
  BY <1>2, <1>7, <1>8, <1>9 DEF ChoiceStep
<1>13. QED
  BY <1>2, <1>7, <1>10, <1>11, <1>12, ChoiceStepKeeps, TasksRest

(* An operation goes on. *)
LEMMA GoesOnChoice ==
    ASSUME HeldChoice, NEW d \in {0, 1}, RepliesMoved(d), NEW o \in OpIds, GoesTo(o, d), Grown(d),
           TasksAside, UNCHANGED <<started, user, boot, db>>,
           \A i \in DOMAIN mem' : Named(mem'[i]),
           BoardStands
    PROVE  ChoiceInv'
<1>1. /\ OpsGo(d) /\ LoginsKept /\ AnswersGo(d)
      /\ \A p \in OpIds : Named(ops'[p].post)
  BY GoesToOps
<1>2. BoardNamed
  BY <1>1 DEF BoardNamed
<1>3. ChoiceStep(d)
  BY <1>1 DEF ChoiceStep
<1>4. QED
  BY <1>1, <1>2, <1>3, ChoiceStepKeeps

LEMMA BoardRests ==
    ASSUME HeldChoice, UNCHANGED mem
    PROVE  (\A i \in DOMAIN mem' : Named(mem'[i])) /\ BoardStands
BY DEF BoardStands, Stands, Chooses, HeldChoice, ChoiceInv, RowsNamed

(* The handler of a taken call goes on to a step without an answer. *)
LEMMA TakenGoesTo ==
    ASSUME HeldChoice, NEW o \in OpIds, o = replies[1].owner, ops[o].kind # "login",
           NEW s \in {"aborted", "done", "read", "writeLoad"}, ops' = [ops EXCEPT ![o].step = s],
           ops[o].kind \in AnswerKinds => s \in {"done", "aborted"}
    PROVE  GoesTo(o, 1) /\ ops'[o].kind = ops[o].kind
<1>1. /\ \A p \in OpIds : p # o => ops'[p] = ops[p]
      /\ ops'[o].kind = ops[o].kind /\ ops'[o].post = ops[o].post /\ ops'[o].step = s
  BY StepsTo
<1>2. QED
  BY <1>1 DEF GoesTo, AnswerEnds

LEMMA TakenFetches ==
    ASSUME HeldChoice, RepliesMoved(1), NEW o \in OpIds, ops'[o].kind # "login",
           ops'[o].kind \notin AnswerKinds, Call(o, "getLoads", AnyRow)
    PROVE  Grown(1)
<1>1. Named(AnyRow)
  BY FreshNamed
<1>2. QED
  BY <1>1, PlainGrown DEF Opening

LEMMA RouteMissingChoice ==
    ASSUME HeldChoice, NEW o \in OpIds, NEW l \in Loads, RouteMissing(o, l)
    PROVE  ChoiceInv'
<1>1. /\ tasks[o][l].step = "route" /\ EndTask(o, l)
      /\ UNCHANGED <<mem, started, user, boot, db, queue, replies>>
  BY DEF RouteMissing, outside
<1>2. ~Asks(o) /\ ~Fetches(o)
  BY <1>1 DEF HeldChoice, ChoiceInv, TasksAway
<1>3. TasksAside
  BY <1>1 DEF EndTask, NoTask, TasksAside, HeldChoice, Held, IInv, GoodTasks
<1>4. RepliesMoved(0) /\ Grown(0)
  BY <1>1, RepliesStay, NothingGrown DEF HeldChoice, Held
<1>5. (\A i \in DOMAIN mem' : Named(mem'[i])) /\ BoardStands
  BY <1>1, BoardRests
<1>6. CASE UNCHANGED ops
  <2>1. /\ OpsGo(0) /\ LoginsKept
        /\ \A p \in OpIds : Named(ops'[p].post)
    BY <1>1, <1>6, OpsHeld DEF OpsGo, LoginsKept, Asks, Fetches
  <2>2. AnswersGo(0)
    <3>1. \A p : ~TakenOf(p, 0, "updateLoad")
      BY DEF TakenOf
    <3>2. QED
      BY <1>6, <3>1 DEF AnswersGo, AnswerStays
  <2>3. ChoiceStep(0) /\ BoardNamed
    BY <1>1, <1>4, <1>5, <2>1 DEF ChoiceStep, BoardNamed
  <2>4. QED
    BY <1>1, <1>3, <1>5, <2>1, <2>2, <2>3, ChoiceStepKeeps
<1>7. CASE ops' = [ops EXCEPT ![o].step = "done"]
  <2>1. /\ \A p \in OpIds : p # o => ops'[p] = ops[p]
        /\ ops'[o].kind = ops[o].kind /\ ops'[o].post = ops[o].post /\ ops'[o].step = "done"
    BY <1>7, StepsTo
  <2>2. GoesTo(o, 0)
    BY <1>2, <2>1 DEF GoesTo, AnswerEnds
  <2>3. QED
    BY <1>1, <1>3, <1>4, <1>5, <2>2, GoesOnChoice
<1>8. QED
  BY <1>1, <1>6, <1>7 DEF EndTask

LEMMA NoDistances ==
    ASSUME HeldChoice
    PROVE  (\A o, l : ~RouteFound(o, l)) /\ ~DistanceSaved
<1>1. \A o, l : ~RouteFound(o, l)
  BY DEF RouteFound, HeldChoice, NoOldCopies
<1>2. ~DistanceSaved
  BY ReplyTaken DEF DistanceSaved, KnownCall
<1>3. QED
  BY <1>1, <1>2

(* addLoad goes on: in no session of a carrier. *)
LEMMA LoadInsertedChoice ==
    ASSUME HeldChoice, LoadInserted
    PROVE  ChoiceInv'
<1> DEFINE rep == replies[1]
           post == ops[rep.owner].post
<1>0. PICK o : o = rep.owner
  OBVIOUS
<1>1. /\ Resumed("insertLoad")
      /\ UNCHANGED <<tasks, started, user, boot, db>>
  BY DEF LoadInserted, outside
<1>2. /\ RepliesMoved(1) /\ Head(replies) = rep /\ 1 \in DOMAIN Pipe
      /\ Pipe[1].call = "insertLoad" /\ o \in OpIds /\ ops[o].kind # "login"
  BY <1>0, <1>1, ReplyTaken DEF KnownCall
<1>3. /\ mem' = (IF rep.ok THEN Append(mem, post) ELSE mem)
      /\ \/ /\ \E s \in {"aborted", "done"} : ops' = [ops EXCEPT ![o].step = s]
            /\ UNCHANGED queue
         \/ /\ ops[o].kind = "return" /\ ops' = [ops EXCEPT ![o].step = "read"]
            /\ Call(o, "getLoads", AnyRow)
  BY <1>0, <1>2 DEF LoadInserted, FetchLoads
<1>4. post \in GoodPost /\ Named(post)
  BY <1>0, <1>2, OpsHeld
     DEF HeldChoice, Held, IInv, GoodOps, Op, OpsLinked, OpLinked, GoodPost
<1> HIDE DEF post
<1>5. \A i \in DOMAIN mem' : (i \in DOMAIN mem /\ mem'[i] = mem[i]) \/ mem'[i] = post
  BY <1>3, <1>4, AppendProperties, LenProperties DEF HeldChoice, Held, IInv, GoodMem
<1>6. \A i \in DOMAIN mem' : Named(mem'[i])
  BY <1>4, <1>5 DEF HeldChoice, ChoiceInv, RowsNamed
<1>7. BoardStands
  BY <1>2 DEF BoardStands, HeldChoice, ChoiceInv, SessionChoice
<1>8. GoesTo(o, 1) /\ Grown(1)
  <2>1. CASE /\ \E s \in {"aborted", "done"} : ops' = [ops EXCEPT ![o].step = s]
             /\ UNCHANGED queue
    BY <1>0, <1>2, <2>1, TakenGoesTo, NothingGrown
  <2>2. CASE /\ ops[o].kind = "return" /\ ops' = [ops EXCEPT ![o].step = "read"]
             /\ Call(o, "getLoads", AnyRow)
    <3>1. ops[o].kind \notin AnswerKinds
      BY <2>2 DEF AnswerKinds
    <3>2. GoesTo(o, 1) /\ ops'[o].kind = ops[o].kind
      BY <1>0, <1>2, <2>2, <3>1, TakenGoesTo
    <3>3. QED
      BY <1>2, <2>2, <3>1, <3>2, TakenFetches
  <2>3. QED
    BY <1>3, <2>1, <2>2
<1>9. QED
  BY <1>1, <1>2, <1>6, <1>7, <1>8, GoesOnChoice, TasksRest

LEMMA LoadDeletedChoice ==
    ASSUME HeldChoice, LoadDeleted
    PROVE  ChoiceInv'
<1> DEFINE rep == replies[1]
<1>0. PICK o, l : o = rep.owner /\ l = rep.load
  OBVIOUS
<1>1. /\ Resumed("deleteLoad")
      /\ UNCHANGED <<tasks, started, user, boot, db>>
  BY DEF LoadDeleted, outside
<1>2. /\ RepliesMoved(1) /\ Head(replies) = rep /\ rep.call = "deleteLoad" /\ o \in OpIds
      /\ ops[o].kind = "delete"
  <2>1. /\ RepliesMoved(1) /\ Head(replies) = rep /\ rep.call = "deleteLoad" /\ o \in OpIds
        /\ CallLinked([call |-> "deleteLoad", owner |-> o, load |-> rep.load], started, ops)
    BY <1>0, <1>1, TakesReply DEF HeldChoice, Held
  <2>2. QED
    BY <2>1 DEF CallLinked
<1>3. /\ mem' = (IF rep.ok THEN Without(mem, l) ELSE mem)
      /\ \/ /\ \E s \in {"aborted", "done"} : ops' = [ops EXCEPT ![o].step = s]
            /\ UNCHANGED queue
         \/ \E k \in ops[o].todo :
               /\ ops' = [ops EXCEPT ![o].load = k, ![o].todo = @ \ {k}]
               /\ Call(o, "deleteLoad", FreshRow(k))
  BY <1>0, <1>2 DEF LoadDeleted
<1>4. \A i \in DOMAIN mem' : \E j \in DOMAIN mem : mem'[i] = mem[j]
  BY <1>3, WithoutFrom DEF HeldChoice, Held, IInv, GoodMem
<1>5. (\A i \in DOMAIN mem' : Named(mem'[i])) /\ BoardStands
  BY <1>4 DEF BoardStands, Stands, Chooses, HeldChoice, ChoiceInv, RowsNamed
<1>6. ops[o].kind # "login" /\ ops[o].kind \notin AnswerKinds
  BY <1>2 DEF AnswerKinds
<1>7. GoesTo(o, 1) /\ Grown(1)
  <2>1. CASE /\ \E s \in {"aborted", "done"} : ops' = [ops EXCEPT ![o].step = s]
             /\ UNCHANGED queue
    BY <1>0, <1>2, <1>6, <2>1, TakenGoesTo, NothingGrown
  <2>2. ASSUME NEW k \in ops[o].todo,
               ops' = [ops EXCEPT ![o].load = k, ![o].todo = @ \ {k}],
               Call(o, "deleteLoad", FreshRow(k))
        PROVE  GoesTo(o, 1) /\ Grown(1)
    <3>1. /\ \A p \in OpIds : p # o => ops'[p] = ops[p]
          /\ ops'[o].kind = ops[o].kind /\ ops'[o].post = ops[o].post
          /\ ops'[o].step = ops[o].step
      BY <1>2, <2>2 DEF HeldChoice, Held, IInv, GoodOps, Op
    <3>2. ops[o].step \notin {"getUser", "dialog"}
      BY <1>2 DEF HeldChoice, Held, ListInv, OpsShaped, OpShaped
    <3>3. GoesTo(o, 1)
      BY <1>0, <1>6, <3>1, <3>2 DEF GoesTo
    <3>4. Named(FreshRow(k))
      BY FreshNamed
    <3>5. QED
      BY <1>2, <1>6, <2>2, <3>1, <3>3, <3>4, PlainGrown DEF Opening
  <2>3. QED
    BY <1>3, <2>1, <2>2
<1>8. QED
  BY <1>1, <1>2, <1>5, <1>7, GoesOnChoice, TasksRest

(* updateBidStatus writes what stands at its index: while a login fetches  *)
(* no verdict is under way, and in a session that load is on the board.    *)
LEMMA BidsWrittenChoice ==
    ASSUME HeldChoice, BidsWritten
    PROVE  ChoiceInv'
<1> DEFINE rep == replies[1]
<1>0. PICK o : o = rep.owner
  OBVIOUS
<1>1. /\ Resumed("updateLoadBids")
      /\ UNCHANGED <<mem, tasks, started, user, boot, db>>
  BY DEF BidsWritten, memory, outside
<1>2. /\ RepliesMoved(1) /\ Head(replies) = rep /\ 1 \in DOMAIN Pipe
      /\ Pipe[1].call = "updateLoadBids" /\ o \in OpIds /\ ops[o].kind # "login"
  BY <1>0, <1>1, ReplyTaken DEF KnownCall
<1>3. \/ /\ \E s \in {"aborted", "done"} : ops' = [ops EXCEPT ![o].step = s]
         /\ UNCHANGED queue
      \/ /\ ops[o].kind = "bid" /\ ops' = [ops EXCEPT ![o].step = "read"]
         /\ Call(o, "getLoads", AnyRow)
      \/ /\ ops[o].kind = "respond" /\ ops[o].index <= Len(mem)
         /\ ops' = [ops EXCEPT ![o].step = "writeLoad"]
         /\ Call(o, "updateLoad", ToRow(mem[ops[o].index]))
  BY <1>0, <1>2 DEF BidsWritten, FetchLoads
<1>4. (\A i \in DOMAIN mem' : Named(mem'[i])) /\ BoardStands
  BY <1>1, BoardRests
<1>5. GoesTo(o, 1) /\ Grown(1)
  <2>1. CASE /\ \E s \in {"aborted", "done"} : ops' = [ops EXCEPT ![o].step = s]
             /\ UNCHANGED queue
    BY <1>0, <1>2, <2>1, TakenGoesTo, NothingGrown
  <2>2. CASE /\ ops[o].kind = "bid" /\ ops' = [ops EXCEPT ![o].step = "read"]
             /\ Call(o, "getLoads", AnyRow)
    <3>1. ops[o].kind \notin AnswerKinds
      BY <2>2 DEF AnswerKinds
    <3>2. GoesTo(o, 1) /\ ops'[o].kind = ops[o].kind
      BY <1>0, <1>2, <2>2, <3>1, TakenGoesTo
    <3>3. QED
      BY <1>2, <2>2, <3>1, <3>2, TakenFetches
  <2>3. CASE /\ ops[o].kind = "respond" /\ ops[o].index <= Len(mem)
             /\ ops' = [ops EXCEPT ![o].step = "writeLoad"]
             /\ Call(o, "updateLoad", ToRow(mem[ops[o].index]))
    <3>1. ops[o].kind \notin AnswerKinds
      BY <2>3 DEF AnswerKinds
    <3>2. GoesTo(o, 1) /\ ops'[o].kind = ops[o].kind
      BY <1>0, <1>2, <2>3, <3>1, TakenGoesTo
    <3>3. PICK i, row : i = ops[o].index /\ row = ToRow(mem[i])
      OBVIOUS
    <3>4. i \in DOMAIN mem
      <4>1. ops[o].index # 0 /\ ops[o].index \in Nat
        BY <1>2, <2>3 DEF HeldChoice, Held, IInv, OpsLinked, OpLinked, GoodOps, Op
      <4>2. mem \in Seq(GoodPost)
        BY DEF HeldChoice, Held, IInv, GoodMem
      <4>3. DOMAIN mem = 1..Len(mem) /\ Len(mem) \in Nat
        BY <4>2, LenProperties
      <4>4. QED
        BY <2>3, <3>3, <4>1, <4>3
    <3>5. Named(row) /\ row.id = mem[i].id /\ row.selected = mem[i].selected
      BY <3>3, <3>4, RowNamed DEF HeldChoice, ChoiceInv, RowsNamed
    <3>6. Stands(row.id, row.selected)
      BY <3>4, <3>5 DEF Stands, Chooses
    <3>7. \A p \in OpIds : ~Fetches(p)
      BY <1>2 DEF HeldChoice, ChoiceInv, FetchesLast, Opening
    <3> DEFINE q == [call |-> "updateLoad", owner |-> o, row |-> row]
               c == [call |-> "updateLoad", owner |-> o, load |-> row.id]
    <3>8. q.row = row /\ c.call = "updateLoad" /\ c.owner = o
      OBVIOUS
    <3> HIDE DEF q, c
    <3>9. NewKnown(c)
      BY <1>2, <3>2, <3>7, <3>8 DEF NewKnown, Opening
    <3>10. NewWrite(q)
      BY <3>5, <3>6, <3>8 DEF NewWrite
    <3>11. Grown(1)
      BY <1>2, <2>3, <3>3, <3>9, <3>10, CallGrown DEF q, c
    <3>12. QED
      BY <3>2, <3>11
  <2>4. QED
    BY <1>3, <2>1, <2>2, <2>3
<1>6. QED
  BY <1>1, <1>2, <1>4, <1>5, GoesOnChoice, TasksRest

LEMMA LoadWrittenChoice ==
    ASSUME HeldChoice, LoadWritten
    PROVE  ChoiceInv'
<1> DEFINE rep == replies[1]
<1>0. PICK o : o = rep.owner
  OBVIOUS
<1>1. /\ Resumed("updateLoad")
      /\ UNCHANGED <<mem, tasks, started, user, boot, db>>
  BY DEF LoadWritten, memory, outside
<1>2. /\ RepliesMoved(1) /\ Head(replies) = rep
      /\ Pipe[1].call = "updateLoad" /\ o \in OpIds /\ ops[o].kind # "login"
  BY <1>0, <1>1, ReplyTaken DEF KnownCall
<1>3. \/ /\ \E s \in {"aborted", "done"} : ops' = [ops EXCEPT ![o].step = s]
         /\ UNCHANGED queue
      \/ /\ ops[o].kind = "respond" /\ ops' = [ops EXCEPT ![o].step = "read"]
         /\ Call(o, "getLoads", AnyRow)
  BY <1>0, <1>2 DEF LoadWritten, FetchLoads
<1>4. (\A i \in DOMAIN mem' : Named(mem'[i])) /\ BoardStands
  BY <1>1, BoardRests
<1>5. GoesTo(o, 1) /\ Grown(1)
  <2>1. CASE /\ \E s \in {"aborted", "done"} : ops' = [ops EXCEPT ![o].step = s]
             /\ UNCHANGED queue
    BY <1>0, <1>2, <2>1, TakenGoesTo, NothingGrown
  <2>2. CASE /\ ops[o].kind = "respond" /\ ops' = [ops EXCEPT ![o].step = "read"]
             /\ Call(o, "getLoads", AnyRow)
    <3>1. ops[o].kind \notin AnswerKinds
      BY <2>2 DEF AnswerKinds
    <3>2. GoesTo(o, 1) /\ ops'[o].kind = ops[o].kind
      BY <1>0, <1>2, <2>2, <3>1, TakenGoesTo
    <3>3. QED
      BY <1>2, <2>2, <3>1, <3>2, TakenFetches
  <2>3. QED
    BY <1>3, <2>1, <2>2
<1>6. QED
  BY <1>1, <1>2, <1>4, <1>5, GoesOnChoice, TasksRest

(* A dialog opens for the carrier the load names. *)
LEMMA OpenDialogChoice ==
    ASSUME HeldChoice, NEW l \in Loads, NEW kind \in AnswerKinds, OpenDialog(l, kind)
    PROVE  ChoiceInv'
<1> DEFINE op == Handler(kind, "dialog", l, user)
<1>0. op.who = user
  BY DEF Handler, NoOp
<1>1. op.kind = kind /\ op.step = "dialog" /\ op.load = l /\ op.who = user /\ Named(op.post)
  BY <1>0, HandlerShape, FreshNamed
<1> HIDE DEF op
<1>2. /\ AtBoard /\ user \in Carriers /\ CanStart(kind) /\ StartOp(op)
      /\ \/ OffersAnswer(l)
         \/ \E o \in InFlight : ops[o].kind \in AnswerKinds /\ ops[o].load = l /\ ops[o].who = user
      /\ UNCHANGED <<mem, tasks, user, boot, db, queue, replies>>
  BY DEF OpenDialog, op, memory, outside, AnswerKinds
<1>3. CarrierSession
  BY <1>2, BoardIsInSession DEF CarrierSession
<1>4. /\ \A k \in Loads, b, c \in Bidders \cup {NoOne} : Stands(k, b) /\ Stands(k, c) => b = c
      /\ \A o \in OpIds, b \in Bidders \cup {NoOne} :
            /\ ops[o].kind \in AnswerKinds /\ ops[o].step \in {"dialog", "writeLoad"}
            /\ Stands(ops[o].load, b)
            => b = ops[o].who
  BY <1>3 DEF HeldChoice, ChoiceInv, SessionChoice
<1>5. ASSUME NEW b \in Bidders \cup {NoOne}, Stands(l, b)
      PROVE  b = user
  <2>1. CASE OffersAnswer(l)
    <3>1. PICK i : i = IndexOf(mem, l)
      OBVIOUS
    <3>2. i \in DOMAIN mem /\ mem[i].id = l /\ mem[i].selected = user
      BY <2>1, <3>1, Shown DEF OffersAnswer
    <3>3. Stands(l, user)
      BY <3>2 DEF Stands, Chooses
    <3>4. user \in Bidders
      BY <1>2 DEF Bidders
    <3>5. QED
      BY <1>4, <1>5, <3>3, <3>4
  <2>2. CASE \E o \in InFlight : ops[o].kind \in AnswerKinds /\ ops[o].load = l /\ ops[o].who = user
    <3>1. PICK o \in InFlight : ops[o].kind \in AnswerKinds /\ ops[o].load = l /\ ops[o].who = user
      BY <2>2
    <3>2. o \in OpIds /\ ops[o].step \in {"dialog", "writeLoad"}
      BY <3>1 DEF InFlight, HeldChoice, ChoiceInv, AnswersWait
    <3>3. QED
      BY <1>4, <1>5, <3>1, <3>2
  <2>3. QED
    BY <1>2, <2>1, <2>2
<1>6. op.kind # "login" /\ op.kind \in AnswerKinds
  BY <1>1 DEF AnswerKinds
<1>7. /\ OpsGo(0) /\ LoginsKept /\ AnswersGo(0)
      /\ \A p \in OpIds : Named(ops'[p].post)
  BY <1>1, <1>2, <1>3, <1>5, <1>6, BeginsOps
<1>8. RepliesMoved(0) /\ Grown(0)
  BY <1>2, RepliesStay, NothingGrown DEF HeldChoice, Held
<1>9. BoardNamed /\ BoardStands
  BY <1>2, <1>7, BoardChoice
<1>10. ChoiceStep(0)
  BY <1>2, <1>7, <1>8 DEF ChoiceStep
<1>11. QED
  BY <1>2, <1>7, <1>9, <1>10, ChoiceStepKeeps, TasksRest

LEMMA DialogOf ==
    ASSUME HeldChoice, NEW o \in OpIds, ops[o].step = "dialog"
    PROVE  /\ ops[o].kind \in AnswerKinds /\ ops[o].kind # "login"
           /\ ops[o].who \in Carriers /\ CarrierSession
           /\ \A b \in Bidders \cup {NoOne} : Stands(ops[o].load, b) => b = ops[o].who
<1>1. ops[o].kind \in AnswerKinds /\ ops[o].who \in Carriers /\ CarrierSession
  BY DEF HeldChoice, ChoiceInv, AnswersWait
<1>2. ops[o].kind # "login"
  BY <1>1 DEF AnswerKinds
<1>3. QED
  BY <1>1, <1>2 DEF HeldChoice, ChoiceInv, SessionChoice

LEMMA DialogEnds ==
    ASSUME HeldChoice, NEW o \in OpIds, ops[o].step = "dialog",
           ops' = [ops EXCEPT ![o].step = "aborted"],
           UNCHANGED <<mem, tasks, started, user, boot, db, queue, replies>>
    PROVE  ChoiceInv'
<1>1. /\ \A p \in OpIds : p # o => ops'[p] = ops[p]
      /\ ops'[o].kind = ops[o].kind /\ ops'[o].post = ops[o].post /\ ops'[o].step = "aborted"
  BY StepsTo
<1>2. GoesTo(o, 0)
  BY <1>1, DialogOf DEF GoesTo, AnswerEnds
<1>3. RepliesMoved(0) /\ Grown(0)
  BY RepliesStay, NothingGrown DEF HeldChoice, Held
<1>4. QED
  BY <1>2, <1>3, GoesOnChoice, BoardRests, TasksRest

LEMMA CancelDialogChoice ==
    ASSUME HeldChoice, NEW o \in OpIds, CancelDialog(o)
    PROVE  ChoiceInv'
BY DialogEnds DEF CancelDialog, memory, outside

(* The copy of the answer names whom the load on the board names. *)
LEMMA SubmitChoice ==
    ASSUME HeldChoice, NEW o \in OpIds, Submit(o)
    PROVE  ChoiceInv'
<1>0. PICK l, i : l = ops[o].load /\ i = IndexOf(mem, l)
  OBVIOUS
<1> DEFINE post == Answered(mem[i], ops[o].kind)
           row == ToRow(post)
<1>1. /\ ops[o].step = "dialog"
      /\ UNCHANGED <<tasks, started, user, boot, db, replies>>
      /\ \/ ops' = [ops EXCEPT ![o].step = "aborted"] /\ UNCHANGED <<mem, queue>>
         \/ /\ i # 0 /\ mem' = [mem EXCEPT ![i] = post]
            /\ ops' = [ops EXCEPT ![o].step = "writeLoad"]
            /\ Call(o, "updateLoad", row)
  BY <1>0 DEF Submit, outside
<1>2. CASE ops' = [ops EXCEPT ![o].step = "aborted"] /\ UNCHANGED <<mem, queue>>
  BY <1>1, <1>2, DialogEnds
<1>3. CASE /\ i # 0 /\ mem' = [mem EXCEPT ![i] = post]
           /\ ops' = [ops EXCEPT ![o].step = "writeLoad"]
           /\ Call(o, "updateLoad", row)
  <2>1. /\ ops[o].kind \in AnswerKinds /\ ops[o].kind # "login"
        /\ ops[o].who \in Carriers /\ CarrierSession
        /\ \A b \in Bidders \cup {NoOne} : Stands(l, b) => b = ops[o].who
    BY <1>0, <1>1, DialogOf
  <2>2. i \in DOMAIN mem /\ mem[i].id = l /\ mem[i] \in Post
    BY <1>0, <1>3, Shown DEF GoodPost
  <2>3. Stands(l, mem[i].selected) /\ mem[i].selected \in Bidders \cup {NoOne}
    BY <2>2 DEF Stands, Chooses, Post
  <2>4. mem[i].selected \in Carriers
    BY <2>1, <2>3
  <2>5. post.id = mem[i].id /\ post.selected = mem[i].selected
    BY <2>2 DEF Answered, Post
  <2> HIDE DEF post
  <2>6. row.id = l /\ row.selected = mem[i].selected
    BY <2>2, <2>5 DEF ToRow
  <2> HIDE DEF row
  <2>7. Named(post) /\ Named(row)
    BY <2>4, <2>5, <2>6 DEF Named
  <2>8. DOMAIN mem' = DOMAIN mem /\ \A j \in DOMAIN mem : mem'[j] = mem[j] \/ (j = i /\ mem'[j] = post)
    BY <1>3
  <2>9. \A j \in DOMAIN mem' : Named(mem'[j])
    BY <2>7, <2>8 DEF HeldChoice, ChoiceInv, RowsNamed
  <2>10. BoardStands
    BY <2>2, <2>5, <2>8 DEF BoardStands, Stands, Chooses
  <2>11. /\ \A p \in OpIds : p # o => ops'[p] = ops[p]
         /\ ops'[o].kind = ops[o].kind /\ ops'[o].who = ops[o].who /\ ops'[o].post = ops[o].post
         /\ ops'[o].load = ops[o].load /\ ops'[o].step = "writeLoad"
    BY <1>3, StepsTo
  <2>12. \E p \in DOMAIN Pipe' : Pipe'[p].call = "updateLoad" /\ Pipe'[p].owner = o
    BY <1>3, CallArrives
  <2>13. AnswerSubmits(o)
    BY <1>1, <2>11, <2>12 DEF AnswerSubmits
  <2>14. GoesTo(o, 0)
    BY <2>1, <2>11, <2>13 DEF GoesTo
  <2>15. RepliesMoved(0)
    BY <1>1, RepliesStay DEF HeldChoice, Held
  <2>16. Grown(0)
    <3> DEFINE q == [call |-> "updateLoad", owner |-> o, row |-> row]
               c == [call |-> "updateLoad", owner |-> o, load |-> row.id]
    <3>1. q.row = row /\ c.call = "updateLoad" /\ c.owner = o
      OBVIOUS
    <3> HIDE DEF q, c
    <3>2. \A p \in OpIds : ~Fetches(p)
      BY <2>1 DEF CarrierSession, InSession
    <3>3. NewKnown(c)
      BY <2>1, <2>11, <3>1, <3>2 DEF NewKnown, Opening
    <3>4. NewWrite(q)
      BY <2>3, <2>6, <2>7, <3>1 DEF NewWrite
    <3>5. QED
      BY <1>3, <2>15, <3>3, <3>4, CallGrown DEF q, c
  <2>17. QED
    BY <1>1, <2>9, <2>10, <2>14, <2>15, <2>16, GoesOnChoice, TasksRest
<1>4. QED
  BY <1>1, <1>2, <1>3

(* Someone logs in. *)
LEMMA LoginChoice ==
    ASSUME HeldChoice, NEW u, Login(u)
    PROVE  ChoiceInv'
<1> DEFINE op == Handler("login", "getUser", NoOp.load, u)
<1>1. op.kind = "login" /\ op.step = "getUser" /\ Named(op.post)
  BY HandlerShape, FreshNamed
<1> HIDE DEF op
<1>2. /\ Booted /\ user = NoOne /\ \A o \in InFlight : ops[o].kind # "login"
      /\ CanStart("login") /\ StartOp(op) /\ Call(started + 1, "getUser", AnyRow)
      /\ UNCHANGED <<mem, tasks, user, boot, db, replies>>
  BY DEF Login, op, memory, outside
<1>3. \A o \in OpIds : ~Asks(o) /\ ~Fetches(o)
  BY <1>2 DEF Asks, Fetches, InFlight
<1>4. PICK n \in OpIds : /\ n = started + 1 /\ ops'[n] = op
                         /\ \A o \in OpIds : o # n => ops'[o] = ops[o]
  BY <1>2, OpIsNew DEF HeldChoice, Held
<1>5. n > started /\ \A o \in OpIds : o <= started => o # n
  BY <1>4, OpsHeld
<1>6. Asks(n)' /\ ~Fetches(n)' /\ \A o \in OpIds : o # n => ~Asks(o)' /\ ~Fetches(o)'
  BY <1>1, <1>3, <1>4 DEF Asks, Fetches
<1>7. OpsGo(0)
  BY <1>3, <1>4, <1>5, <1>6 DEF OpsGo
<1>8. RepliesMoved(0)
  BY <1>2, RepliesStay DEF HeldChoice, Held
<1>9. Grown(0)
  <2> DEFINE c == [call |-> "getUser", owner |-> n, load |-> AnyRow.id]
             q == [call |-> "getUser", owner |-> n, row |-> AnyRow]
  <2>1. c.call = "getUser" /\ c.owner = n /\ q.call = "getUser" /\ q.row = AnyRow
    OBVIOUS
  <2> HIDE DEF c, q
  <2>2. NewKnown(c)
    BY <1>1, <1>3, <1>4, <2>1 DEF NewKnown, AskingOp, Opening
  <2>3. NewWrite(q)
    BY <2>1, FreshNamed DEF NewWrite
  <2>4. Call(n, "getUser", AnyRow)
    BY <1>2, <1>4
  <2>5. QED
    BY <1>8, <2>2, <2>3, <2>4, CallGrown DEF c, q
<1>10. ChoiceStep(0)
  BY <1>2, <1>7, <1>8, <1>9 DEF ChoiceStep
<1>11. user \notin Carriers /\ ~CarrierSession /\ ~CarrierSession'
  BY <1>2 DEF CarrierSession, HeldChoice, NoOldCopies
<1>12. BoardNamed
  BY <1>1, <1>2, <1>4 DEF BoardNamed, HeldChoice, ChoiceInv, RowsNamed
<1>13. RowsNamed' /\ KnownCalls' /\ AsksAfterOpenings'
  BY <1>10, <1>12, NamedKept, KnownKeptCalls, OpeningsKept
<1>14. AnswersGo(0)
  <2> SUFFICES ASSUME NEW o \in OpIds, ops'[o].kind \in AnswerKinds \/ ops'[o].step = "dialog"
               PROVE  AnswerStays(o, 0)
    BY DEF AnswersGo
  <2>1. o # n
    BY <1>1, <1>4 DEF AnswerKinds
  <2>2. ~TakenOf(o, 0, "updateLoad")
    BY DEF TakenOf
  <2>3. QED
    BY <1>4, <2>1, <2>2 DEF AnswerStays
<1>15. AnswersWait'
  BY <1>10, <1>11, <1>14, AnswersKept
<1>16. TasksAway'
  <2>1. \A l \in Loads : tasks[n][l].step = "none"
    BY <1>5 DEF HeldChoice, Held, ListInv, TasksLinked
  <2>2. QED
    BY <1>2, <1>6, <2>1 DEF TasksAway
<1>17. NobodyBoots' /\ SessionChoice'
  BY <1>2, <1>11 DEF NobodyBoots, SessionChoice
<1>18. AsksAlone'
  BY <1>2, <1>6 DEF AsksAlone
<1>19. FetchesLast'
  BY <1>6 DEF FetchesLast
<1>20. QED
  BY <1>13, <1>15, <1>16, <1>17, <1>18, <1>19 DEF ChoiceInv

(* The login goes on: he fetches behind every bid, verdict and post.       *)
LEMMA LoginReads ==
    ASSUME HeldChoice, RepliesMoved(1), Grown(1), NEW o \in OpIds, Asks(o),
           Pipe[1].call = "getUser", 1 \in DOMAIN Pipe
    PROVE  /\ \A p \in DOMAIN Pipe' : Pipe'[p].call \notin Opening
           /\ \A p \in DOMAIN Pipe' : Pipe'[p].call = "getLoads" /\ Pipe'[p].owner = o =>
                 /\ \A q \in DOMAIN Pipe' : ~(q > p)
                 /\ p \notin DOMAIN replies'
<1>1. \A p \in DOMAIN Pipe' : Moved(p, 1) \/ (NewPlace(p, 1) /\ NewKnown(Pipe'[p]))
  BY DEF Grown
<1>2. \A p \in DOMAIN Pipe' : p \in Nat /\ p >= 1
  BY DEF HeldChoice, Held, Before, PipeFacts, PipeSizes
<1>3. \A q \in DOMAIN Pipe : q > 1 => Pipe[q].call \notin Opening
  BY DEF HeldChoice, ChoiceInv, AsksAfterOpenings
<1>4. ASSUME NEW p \in DOMAIN Pipe' PROVE Pipe'[p].call \notin Opening
  <2>1. CASE Moved(p, 1)
    <3>1. p + 1 \in DOMAIN Pipe /\ Pipe'[p] = Pipe[p + 1]
      BY <2>1 DEF Moved
    <3>2. p + 1 > 1
      BY <1>2
    <3>3. QED
      BY <1>3, <3>1, <3>2
  <2>2. CASE NewKnown(Pipe'[p])
    BY <2>2 DEF NewKnown
  <2>3. QED
    BY <1>1, <2>1, <2>2
<1>5. ASSUME NEW p \in DOMAIN Pipe', Pipe'[p].call = "getLoads", Pipe'[p].owner = o
      PROVE  NewPlace(p, 1)
  <2>1. CASE Moved(p, 1)
    <3>1. p + 1 \in DOMAIN Pipe /\ Pipe'[p] = Pipe[p + 1]
      BY <2>1 DEF Moved
    <3>2. KnownCall(Pipe[p + 1])
      BY <3>1, KnownCallOf
    <3>3. ~Asks(o)
      BY <1>5, <3>1, <3>2 DEF KnownCall
    <3>4. QED
      BY <3>3
  <2>2. QED
    BY <1>1, <2>1
<1>6. ASSUME NEW p \in DOMAIN Pipe', NewPlace(p, 1), NEW q \in DOMAIN Pipe'
      PROVE  ~(q > p)
  <2>1. p + 1 = Len(replies) + Len(queue) + 1
    BY <1>6 DEF NewPlace
  <2>2. q + 1 <= Len(replies) + Len(queue) + 1
    <3>1. CASE Moved(q, 1)
      BY <3>1 DEF Moved, HeldChoice, Held, Before, PipeFacts, PipeSizes
    <3>2. CASE NewPlace(q, 1)
      BY <3>2, <1>2 DEF NewPlace
    <3>3. QED
      BY <1>1, <3>1, <3>2
  <2>3. p \in Nat /\ q \in Nat /\ Len(replies) \in Nat /\ Len(queue) \in Nat
    BY <1>2 DEF HeldChoice, Held, Before, PipeFacts, PipeSizes
  <2>4. QED
    BY <2>1, <2>2, <2>3
<1>7. ASSUME NEW p \in DOMAIN Pipe', NewPlace(p, 1) PROVE p \notin DOMAIN replies'
  <2>1. p > Len(replies')
    BY <1>7 DEF NewPlace
  <2>2. QED
    BY <2>1, <1>2 DEF HeldChoice, Held, Before, PipeFacts, PipeSizes
<1>8. QED
  BY <1>4, <1>5, <1>6, <1>7

LEMMA LoginAnsweredChoice ==
    ASSUME HeldChoice, LoginAnswered
    PROVE  ChoiceInv'
<1>0. PICK o : o = replies[1].owner
  OBVIOUS
<1>1. /\ Resumed("getUser")
      /\ UNCHANGED <<mem, tasks, started, boot, db>>
  BY DEF LoginAnswered, memory, outside
<1>2. /\ RepliesMoved(1) /\ Booted /\ Head(replies) = replies[1]
      /\ replies[1].call = "getUser" /\ Pipe[1].call = "getUser" /\ 1 \in DOMAIN Pipe
      /\ o \in OpIds /\ o <= started /\ Asks(o)
  <2>1. /\ RepliesMoved(1) /\ Booted /\ Head(replies) = replies[1]
        /\ replies[1].call = "getUser" /\ Pipe[1].call = "getUser" /\ 1 \in DOMAIN Pipe
        /\ Pipe[1].owner = o /\ o \in OpIds /\ o <= started /\ KnownCall(Pipe[1])
    BY <1>0, <1>1, ReplyTaken
  <2>2. QED
    BY <2>1 DEF KnownCall
<1>3. \/ /\ ops' = [ops EXCEPT ![o].step = "aborted"]
         /\ UNCHANGED <<user, queue>>
      \/ /\ ops' = [ops EXCEPT ![o].step = "read"]
         /\ Call(o, "getLoads", AnyRow)
  BY <1>0, <1>2 DEF LoginAnswered, FetchLoads
<1>4. PICK s \in {"aborted", "read"} :
          /\ ops' = [ops EXCEPT ![o].step = s]
          /\ s = "aborted" => UNCHANGED <<user, queue>>
          /\ s = "read" => Call(o, "getLoads", AnyRow)
  BY <1>3
<1>5. /\ \A p \in OpIds : p # o => ops'[p] = ops[p]
      /\ ops'[o].kind = ops[o].kind /\ ops'[o].post = ops[o].post /\ ops'[o].step = s
  BY <1>2, <1>4, StepsTo
<1>6. user = NoOne /\ \A p \in OpIds : p # o => ~Asks(p) /\ ~Fetches(p)
  BY <1>2 DEF HeldChoice, ChoiceInv, AsksAlone
<1>7. /\ ops'[o].kind = "login" /\ ~Asks(o)' /\ (Fetches(o)' <=> s = "read")
      /\ \A p \in OpIds : p # o => ~Asks(p)' /\ ~Fetches(p)'
  BY <1>2, <1>5, <1>6 DEF Asks, Fetches
<1>8. OpsGo(1)
  BY <1>0, <1>2, <1>5, <1>6, <1>7 DEF OpsGo, TakenOf
<1>9. Grown(1)
  <2>1. CASE s = "aborted"
    BY <1>2, <1>4, <2>1, NothingGrown
  <2>2. CASE s = "read"
    <3> DEFINE c == [call |-> "getLoads", owner |-> o, load |-> AnyRow.id]
               q == [call |-> "getLoads", owner |-> o, row |-> AnyRow]
    <3>1. c.call = "getLoads" /\ c.owner = o /\ q.call = "getLoads" /\ q.row = AnyRow
      OBVIOUS
    <3> HIDE DEF c, q
    <3>2. NewKnown(c)
      BY <1>2, <1>5, <1>7, <2>2, <3>1 DEF NewKnown, AskingOp, Opening, AnswerKinds
    <3>3. NewWrite(q)
      BY <3>1, FreshNamed DEF NewWrite
    <3>4. QED
      BY <1>2, <1>4, <2>2, <3>2, <3>3, CallGrown DEF c, q
  <2>3. QED
    BY <2>1, <2>2
<1>10. ChoiceStep(1)
  BY <1>1, <1>2, <1>8, <1>9 DEF ChoiceStep
<1>11. BoardNamed
  BY <1>1, <1>2, <1>5 DEF BoardNamed, HeldChoice, ChoiceInv, RowsNamed
<1>12. RowsNamed' /\ KnownCalls' /\ AsksAfterOpenings'
  BY <1>10, <1>11, NamedKept, KnownKeptCalls, OpeningsKept
<1>13. ~CarrierSession /\ ~CarrierSession'
  <2>1. ~CarrierSession
    BY <1>2 DEF CarrierSession, InSession
  <2>2. CASE s = "read"
    BY <1>2, <1>7, <2>2 DEF CarrierSession, InSession
  <2>3. CASE s = "aborted"
    BY <1>4, <1>6, <2>3 DEF CarrierSession, InSession
  <2>4. QED
    BY <2>1, <2>2, <2>3
<1>14. AnswersGo(1)
  <2> SUFFICES ASSUME NEW p \in OpIds, ops'[p].kind \in AnswerKinds \/ ops'[p].step = "dialog"
               PROVE  AnswerStays(p, 1)
    BY DEF AnswersGo
  <2>1. p # o
    BY <1>5, <1>7 DEF AnswerKinds
  <2>2. QED
    BY <1>2, <1>5, <2>1 DEF AnswerStays, TakenOf
<1>15. AnswersWait'
  BY <1>10, <1>13, <1>14, AnswersKept
<1>16. TasksAway'
  <2>1. \A l \in Loads : ~(tasks[o][l].step # "none")
    BY <1>2 DEF HeldChoice, ChoiceInv, TasksAway
  <2>2. QED
    BY <1>1, <1>7, <2>1 DEF TasksAway
<1>17. NobodyBoots' /\ SessionChoice'
  BY <1>1, <1>2, <1>13 DEF NobodyBoots, SessionChoice, Booted
<1>18. AsksAlone'
  BY <1>7 DEF AsksAlone
<1>19. FetchesLast'
  <2>1. /\ \A p \in DOMAIN Pipe' : Pipe'[p].call \notin Opening
        /\ \A p \in DOMAIN Pipe' : Pipe'[p].call = "getLoads" /\ Pipe'[p].owner = o =>
              /\ \A q \in DOMAIN Pipe' : ~(q > p)
              /\ p \notin DOMAIN replies'
    BY <1>2, <1>9, LoginReads
  <2>2. \A p \in OpIds : Fetches(p)' => p = o
    BY <1>7
  <2>3. QED
    BY <2>1, <2>2 DEF FetchesLast
<1>20. QED
  BY <1>12, <1>15, <1>16, <1>17, <1>18, <1>19 DEF ChoiceInv

(* A fetch is over.  In a session the rows are copies the board may show;  *)
(* at a login they and whatever else is left name one carrier.             *)
LEMMA LoadsReadChoice ==
    ASSUME HeldChoice, LoadsRead
    PROVE  ChoiceInv'
<1>0. PICK o, rows : o = replies[1].owner /\ rows = replies[1].rows
  OBVIOUS
<1>1. /\ Resumed("getLoads")
      /\ UNCHANGED <<started, user, boot, db, queue>>
  BY DEF LoadsRead, outside
<1>2. /\ RepliesMoved(1) /\ Head(replies) = replies[1] /\ replies[1].call = "getLoads"
      /\ 1 \in DOMAIN replies /\ 1 \in DOMAIN Pipe
      /\ Pipe[1].call = "getLoads" /\ Pipe[1].owner = o
      /\ o \in OpIds /\ ~Asks(o) /\ ops[o].kind \notin AnswerKinds
  <2>1. /\ RepliesMoved(1) /\ Head(replies) = replies[1] /\ replies[1].call = "getLoads"
        /\ 1 \in DOMAIN replies /\ 1 \in DOMAIN Pipe
        /\ Pipe[1].call = "getLoads" /\ Pipe[1].owner = o
        /\ o \in OpIds /\ KnownCall(Pipe[1])
    BY <1>0, <1>1, ReplyTaken
  <2>2. QED
    BY <2>1 DEF KnownCall
<1>3. /\ \E s \in {"distances", "done"} : ops' = [ops EXCEPT ![o].step = s]
      /\ UNCHANGED tasks \/ \E f : tasks' = [tasks EXCEPT ![o] = f]
      /\ mem' = Fetched(rows, o) \/ mem' = <<>>
  BY <1>0, <1>2 DEF LoadsRead
<1>4. PICK s \in {"distances", "done"} : ops' = [ops EXCEPT ![o].step = s]
  BY <1>3
<1>5. /\ \A p \in OpIds : p # o => ops'[p] = ops[p]
      /\ ops'[o].kind = ops[o].kind /\ ops'[o].who = ops[o].who
      /\ ops'[o].post = ops[o].post /\ ops'[o].step = s
  BY <1>2, <1>4, StepsTo
<1>6. /\ ~Asks(o)' /\ ~Fetches(o)'
      /\ \A p \in OpIds : p # o => (Asks(p)' <=> Asks(p)) /\ (Fetches(p)' <=> Fetches(p))
  BY <1>2, <1>5 DEF Asks, Fetches
<1>7. OpsGo(1)
  BY <1>2, <1>5, <1>6 DEF OpsGo
<1>8. Grown(1)
  BY <1>1, <1>2, NothingGrown
<1>9. ChoiceStep(1)
  BY <1>1, <1>2, <1>7, <1>8 DEF ChoiceStep
<1>10. \A i \in DOMAIN mem' : /\ i \in DOMAIN rows /\ mem'[i].id = rows[i].id
                              /\ mem'[i].selected = rows[i].selected
                              /\ mem'[i].carrierOk = rows[i].carrierOk
  <2>1. CASE mem' = <<>>
    BY <2>1, EmptySeq
  <2>2. CASE mem' = Fetched(rows, o)
    BY <2>2 DEF Fetched, FromRow
  <2>3. QED
    BY <1>3, <2>1, <2>2
<1>11. BoardNamed
  <2>1. \A i \in DOMAIN rows : Named(rows[i])
    BY <1>0, <1>2 DEF HeldChoice, ChoiceInv, RowsNamed
  <2>2. \A i \in DOMAIN mem' : Named(mem'[i])
    BY <1>10, <2>1 DEF Named
  <2>3. QED
    BY <1>2, <1>5, <2>2, OpsHeld DEF BoardNamed
<1>12. \A l, b : Chooses(mem', l, b) => Fetchable(1, l, b)
  <2>1. ASSUME NEW l, NEW b, Chooses(mem', l, b) PROVE Chooses(rows, l, b)
    BY <1>10, <2>1 DEF Chooses
  <2>2. QED
    BY <1>0, <1>2, <2>1 DEF Fetchable, Reads
<1>13. RowsNamed' /\ KnownCalls' /\ AsksAfterOpenings'
  BY <1>9, <1>11, NamedKept, KnownKeptCalls, OpeningsKept
<1>14. TasksAway'
  <2>1. \A p \in OpIds, l \in Loads : p # o => tasks'[p][l] = tasks[p][l]
    BY <1>3 DEF HeldChoice, Held, IInv, GoodTasks
  <2>2. QED
    BY <1>6, <2>1 DEF TasksAway, HeldChoice, ChoiceInv
<1>15. NobodyBoots'
  BY <1>1 DEF NobodyBoots, Booted, HeldChoice, ChoiceInv
<1>16. AsksAlone'
  BY <1>1, <1>6 DEF AsksAlone, HeldChoice, ChoiceInv
<1>17. FetchesLast'
  <2>1. \A p \in OpIds : Fetches(p)' => Fetches(p)
    BY <1>6
  <2>2. QED
    BY <1>9, <2>1, FetchesKept
<1>18. AnswersGo(1)
  <2> SUFFICES ASSUME NEW p \in OpIds, ops'[p].kind \in AnswerKinds \/ ops'[p].step = "dialog"
               PROVE  AnswerStays(p, 1)
    BY DEF AnswersGo
  <2>1. p # o
    BY <1>2, <1>5
  <2>2. QED
    BY <1>2, <1>5, <2>1 DEF AnswerStays, TakenOf
<1>19. CarrierSession => CarrierSession'
  BY <1>1, <1>6 DEF CarrierSession, InSession
<1>20. AnswersWait'
  BY <1>9, <1>18, <1>19, AnswersKept
<1>21. CASE ~Fetches(o)
  <2>1. CarrierSession' => CarrierSession
    BY <1>1, <1>2, <1>6, <1>21 DEF CarrierSession, InSession
  <2>2. BoardStands
    <3>1. ASSUME NEW i \in DOMAIN mem' PROVE Stands(mem'[i].id, mem'[i].selected)
      <4>1. PICK l, b : l = mem'[i].id /\ b = mem'[i].selected
        OBVIOUS
      <4>2. Chooses(mem', l, b)
        BY <4>1 DEF Chooses
      <4>3. Stands(l, b)
        BY <1>12, <4>2 DEF Stands
      <4>4. QED
        BY <4>1, <4>3
    <3>2. QED
      BY <3>1 DEF BoardStands
  <2>3. SessionChoice'
    <3>1. CASE CarrierSession
      BY <1>9, <1>18, <2>2, <3>1, SessionChoiceKept
    <3>2. CASE ~CarrierSession
      BY <2>1, <3>2 DEF SessionChoice
    <3>3. QED
      BY <3>1, <3>2
  <2>4. QED
    BY <1>13, <1>14, <1>15, <1>16, <1>17, <1>20, <2>3 DEF ChoiceInv
<1>22. CASE Fetches(o)
  <2>1. /\ \A p \in DOMAIN Pipe : Pipe[p].call \notin Opening
        /\ \A q \in DOMAIN Pipe : q > 1 => Pipe[q].call # "updateLoad"
        /\ \A l \in Loads, b, c \in Bidders \cup {NoOne} :
              Fetchable(1, l, b) /\ Fetchable(1, l, c) => b = c
    BY <1>2, <1>22 DEF HeldChoice, ChoiceInv, FetchesLast
  <2>2. \A p \in DOMAIN Pipe' : Moved(p, 1)
    BY <1>1, <1>2, PipeKept DEF HeldChoice, Held, Before
  <2>3. \A p \in DOMAIN Pipe' : Pipe'[p].call # "insertLoad"
    BY <2>1, <2>2 DEF Moved, Opening
  <2>4. \A p \in DOMAIN Pipe' : Pipe'[p].call # "updateLoad"
    <3> SUFFICES ASSUME NEW p \in DOMAIN Pipe' PROVE Pipe'[p].call # "updateLoad"
      OBVIOUS
    <3>1. p + 1 \in DOMAIN Pipe /\ Pipe'[p] = Pipe[p + 1]
      BY <2>2 DEF Moved
    <3>2. p + 1 > 1
      BY DEF HeldChoice, Held, Before, PipeFacts, PipeSizes
    <3>3. QED
      BY <2>1, <3>1, <3>2
  <2>5. \A i \in DOMAIN queue' : queue'[i].call # "updateLoad"
    <3> SUFFICES ASSUME NEW i \in DOMAIN queue' PROVE queue'[i].call # "updateLoad"
      OBVIOUS
    <3>1. Len(replies') + i \in DOMAIN Pipe'
      BY DEF HeldChoice, Held, Before, PipeFacts, PipeSizes
    <3>2. Pipe'[Len(replies') + i] = [call |-> queue'[i].call, owner |-> queue'[i].owner,
                                      load |-> queue'[i].row.id]
      BY DEF HeldChoice, Held, Before, PipeFacts, WaitingNext
    <3>3. PICK c : c = queue'[i].call
      OBVIOUS
    <3>4. Pipe'[Len(replies') + i].call = c
      BY <3>2, <3>3
    <3>5. QED
      BY <2>4, <3>1, <3>3, <3>4
  <2>6. ASSUME NEW l, NEW b, Stands(l, b)' PROVE Fetchable(1, l, b)
    <3>1. CASE Chooses(mem', l, b)
      BY <1>12, <3>1
    <3>2. CASE Chooses(db', l, b)
      BY <1>1, <3>2 DEF Fetchable
    <3>3. CASE \E k \in DOMAIN replies' : Chooses(replies'[k].rows, l, b)
      <4>1. PICK k \in DOMAIN replies' : Chooses(replies'[k].rows, l, b)
        BY <3>3
      <4>2. k + 1 \in DOMAIN replies /\ replies'[k] = replies[k + 1] /\ k + 1 >= 1
        BY <1>2 DEF RepliesMoved, HeldChoice, Held, Before, PipeFacts, PipeSizes
      <4>3. QED
        BY <4>1, <4>2 DEF Fetchable, Reads
    <3>4. QED
      BY <2>5, <2>6, <3>1, <3>2, <3>3 DEF Stands, Fetchable, Reads, Writes, Chooses
  <2>7. \A l \in Loads, b, c \in Bidders \cup {NoOne} : Stands(l, b)' /\ Stands(l, c)' => b = c
    BY <2>1, <2>6
  <2>8. ASSUME NEW p \in OpIds, ops'[p].kind \in AnswerKinds,
               ops'[p].step \in {"dialog", "writeLoad"}
        PROVE  FALSE
    <3>1. p # o
      BY <1>2, <1>5, <2>8
    <3>2. ops[p].kind \in AnswerKinds /\ ops[p].step \in {"dialog", "writeLoad"}
      BY <1>5, <2>8, <3>1
    <3>3. /\ ops[p].step = "dialog" => CarrierSession
          /\ ops[p].step = "writeLoad" =>
                \E q \in DOMAIN Pipe : Pipe[q].call = "updateLoad" /\ Pipe[q].owner = p
      BY <3>2 DEF HeldChoice, ChoiceInv, AnswersWait
    <3>4. ~CarrierSession
      BY <1>2, <1>22 DEF CarrierSession, InSession
    <3>5. \A q \in DOMAIN Pipe : q = 1 \/ q > 1
      BY DEF HeldChoice, Held, Before, PipeFacts, PipeSizes
    <3>6. QED
      BY <1>2, <2>1, <3>2, <3>3, <3>4, <3>5
  <2>9. SessionChoice'
    BY <2>3, <2>7, <2>8 DEF SessionChoice
  <2>10. QED
    BY <1>13, <1>14, <1>15, <1>16, <1>17, <1>20, <2>9 DEF ChoiceInv
<1>23. QED
  BY <1>21, <1>22

(* What a call leaves in the table: rows that were there, with other bids  *)
(* perhaps, and the row it writes.                                         *)
LEMMA WrittenFrom ==
    ASSUME NEW table \in Seq(GoodRow), NEW req, req.row \in GoodRow,
           NEW j \in DOMAIN Written(table, req)
    PROVE  \/ /\ Written(table, req)[j] = req.row
              /\ req.call \in {"insertLoad", "updateLoad", "saveDistance"}
           \/ \E i \in DOMAIN table :
                 /\ Written(table, req)[j].id = table[i].id
                 /\ Written(table, req)[j].selected = table[i].selected
                 /\ Written(table, req)[j].carrierOk = table[i].carrierOk
<1> DEFINE t == Written(table, req)
<1>0. /\ DOMAIN table = 1..Len(table) /\ Len(table) \in Nat /\ j \in DOMAIN t
      /\ \A i \in DOMAIN table : table[i] \in Row
  BY LenProperties, ElementOfSeq DEF GoodRow
<1>1. CASE req.call = "insertLoad"
  <2>1. PICK w : w = Without(table, req.row.id)
    OBVIOUS
  <2>2. w \in Seq(GoodRow) /\ \A i \in DOMAIN w : \E k \in DOMAIN table : w[i] = table[k]
    BY <2>1, WithoutType, WithoutFrom
  <2>3. t = Append(w, req.row)
    BY <1>1, <2>1 DEF Written
  <2>4. (j \in DOMAIN w /\ t[j] = w[j]) \/ t[j] = req.row
    BY <2>2, <2>3, AppendProperties, LenProperties
  <2>5. QED
    BY <1>1, <2>2, <2>4
<1>2. CASE req.call = "deleteLoad"
  <2>1. t = Without(table, req.row.id)
    BY <1>2 DEF Written
  <2>2. \E k \in DOMAIN table : t[j] = table[k]
    BY <2>1, WithoutFrom
  <2>3. QED
    BY <2>2
<1>3. CASE req.call = "updateLoadBids"
  <2>1. t = [i \in DOMAIN table |->
                IF table[i].id = req.row.id
                THEN [table[i] EXCEPT !.bids = Stripped(req.row.bids)]
                ELSE table[i]]
    BY <1>3 DEF Written
  <2> HIDE DEF t
  <2>2. j \in DOMAIN table
    BY <1>0, <2>1
  <2>3. t[j] = table[j] \/ t[j] = [table[j] EXCEPT !.bids = Stripped(req.row.bids)]
    BY <2>1, <2>2
  <2>4. /\ t[j].id = table[j].id /\ t[j].selected = table[j].selected
        /\ t[j].carrierOk = table[j].carrierOk
    BY <1>0, <2>2, <2>3 DEF Row
  <2>5. QED
    BY <2>2, <2>4 DEF t
<1>4. CASE req.call \in {"updateLoad", "saveDistance"}
  <2>1. t = [i \in DOMAIN table |-> IF table[i].id = req.row.id THEN req.row ELSE table[i]]
    BY <1>4 DEF Written
  <2> HIDE DEF t
  <2>2. j \in DOMAIN table
    BY <1>0, <2>1
  <2>3. t[j] = table[j] \/ t[j] = req.row
    BY <2>1, <2>2
  <2>4. QED
    BY <1>4, <2>2, <2>3 DEF t
<1>5. CASE req.call \notin {"insertLoad", "deleteLoad", "updateLoadBids", "updateLoad", "saveDistance"}
  <2>1. t = table
    BY <1>5 DEF Written
  <2>2. QED
    BY <2>1
<1>6. QED
  BY <1>1, <1>2, <1>3, <1>4, <1>5

(* The database: a call executes, or fails, and its answer waits.          *)
LEMMA ExecutedChoice ==
    ASSUME HeldChoice, queue # <<>>, queue' = Tail(queue), NEW ok \in BOOLEAN, NEW rows,
           replies' = Append(replies,
               [call |-> Head(queue).call, owner |-> Head(queue).owner,
                load |-> Head(queue).row.id, ok |-> ok, rows |-> rows]),
           UNCHANGED <<mem, tasks, ops, started, user, boot>>,
           \/ ok /\ db' = Written(db, Head(queue)) /\ rows \in {db, <<>>}
           \/ ~ok /\ db' = db /\ rows = <<>>
    PROVE  ChoiceInv'
<1>0. PICK req, n : req = Head(queue) /\ n = Len(replies)
  OBVIOUS
<1> DEFINE r == [call |-> req.call, owner |-> req.owner, load |-> req.row.id,
                 ok |-> ok, rows |-> rows]
<1>1. r.call = req.call /\ r.owner = req.owner /\ r.load = req.row.id /\ r.ok = ok /\ r.rows = rows
  OBVIOUS
<1>2. replies' = Append(replies, r)
  BY <1>0
<1> HIDE DEF r
<1>3. /\ Pipe' = Pipe /\ Len(replies') = n + 1
      /\ \A k \in DOMAIN replies : replies'[k] = replies[k]
      /\ replies'[n + 1] = r
  BY <1>0, <1>1, <1>2, PipeExecuted DEF HeldChoice, Held, Before
<1>4. /\ n \in Nat /\ DOMAIN replies = 1..n /\ DOMAIN replies' = 1..(n + 1)
      /\ \A p \in DOMAIN Pipe : p \in Nat /\ p >= 1
  BY <1>0, <1>3 DEF HeldChoice, Held, Before, PipeFacts, PipeSizes
<1>5. /\ n + 1 \in DOMAIN Pipe /\ req \in GoodRequest
      /\ Pipe[n + 1] = [call |-> req.call, owner |-> req.owner, load |-> req.row.id]
  BY <1>0, FirstCall DEF HeldChoice
<1>6. PICK m : m = n + 1
  OBVIOUS
<1>7. m \in DOMAIN Pipe /\ Pipe[m].call = req.call /\ KnownCall(Pipe[m])
  BY <1>5, <1>6, KnownCallOf
<1>8. /\ 1 \in DOMAIN queue /\ req = queue[1] /\ req.row \in GoodRow /\ db \in Seq(GoodRow)
      /\ \A i \in DOMAIN queue' : i + 1 \in DOMAIN queue /\ queue'[i] = queue[i + 1]
  <2>1. /\ 1 \in DOMAIN queue /\ req = queue[1]
        /\ \A i \in DOMAIN queue' : i + 1 \in DOMAIN queue /\ queue'[i] = queue[i + 1]
    BY <1>0, HeadTailProperties, LenProperties, EmptySeq DEF HeldChoice, Held, GoodQueue
  <2>2. req.row \in GoodRow /\ db \in Seq(GoodRow)
    BY <1>5 DEF HeldChoice, Held, IInv, GoodDb, GoodRequest, Request, GoodRow
  <2>3. QED
    BY <2>1, <2>2
<1>9. rows \in {db, <<>>} /\ (ok => db' = Written(db, req)) /\ (~ok => db' = db)
  BY <1>0
<1>10. ASSUME NEW j \in DOMAIN db'
       PROVE  \/ db'[j] = req.row /\ req.call \in {"insertLoad", "updateLoad", "saveDistance"}
              \/ \E i \in DOMAIN db :
                    /\ db'[j].id = db[i].id /\ db'[j].selected = db[i].selected
                    /\ db'[j].carrierOk = db[i].carrierOk
  <2>1. CASE ok
    BY <1>8, <1>9, <2>1, WrittenFrom
  <2>2. CASE ~ok
    BY <1>9, <2>2
  <2>3. QED
    BY <2>1, <2>2
<1>11. \A k \in DOMAIN replies' : k \in DOMAIN replies \/ k = m
  BY <1>4, <1>6
<1>12. RowsNamed'
  <2>1. /\ \A i \in DOMAIN mem : Named(mem[i])
        /\ \A i \in DOMAIN db : Named(db[i])
        /\ \A i \in DOMAIN queue : Named(queue[i].row)
        /\ \A k \in DOMAIN replies : \A j \in DOMAIN replies[k].rows : Named(replies[k].rows[j])
        /\ \A o \in OpIds : Named(ops[o].post)
    BY DEF HeldChoice, ChoiceInv, RowsNamed
  <2>2. \A j \in DOMAIN db' : Named(db'[j])
    <3>1. Named(req.row)
      BY <1>8, <2>1
    <3>2. QED
      BY <1>10, <2>1, <3>1 DEF Named
  <2>3. \A i \in DOMAIN queue' : Named(queue'[i].row)
    BY <1>8, <2>1
  <2>4. \A j \in DOMAIN rows : Named(rows[j])
    <3>1. CASE rows = db
      BY <2>1, <3>1
    <3>2. CASE rows = <<>>
      BY <3>2, EmptySeq
    <3>3. QED
      BY <1>9, <3>1, <3>2
  <2>5. \A k \in DOMAIN replies' : \A j \in DOMAIN replies'[k].rows : Named(replies'[k].rows[j])
    BY <1>1, <1>3, <1>6, <1>11, <2>1, <2>4
  <2>6. QED
    BY <2>1, <2>2, <2>3, <2>5 DEF RowsNamed, Named
<1>13. /\ KnownCalls' /\ TasksAway' /\ NobodyBoots' /\ AnswersWait' /\ AsksAlone'
       /\ AsksAfterOpenings'
  BY <1>3 DEF HeldChoice, ChoiceInv, KnownCalls, KnownCall, TasksAway, NobodyBoots, Booted,
              AnswersWait, CarrierSession, InSession, AsksAlone, AsksAfterOpenings, Asks, Fetches
<1>14. ASSUME NEW l, NEW b, Chooses(db', l, b)
       PROVE  \/ Chooses(db, l, b)
              \/ /\ req.row.id = l /\ req.row.selected = b
                 /\ req.call \in {"insertLoad", "updateLoad"}
  <2>1. req.call # "saveDistance"
    BY <1>7 DEF KnownCall
  <2>2. QED
    BY <1>10, <1>14, <2>1 DEF Chooses
<1>15. \A l, b : Chooses(rows, l, b) => Chooses(db, l, b)
  BY <1>9, EmptySeq DEF Chooses
<1>16. ASSUME NEW p, NEW l, NEW b, \E k \in DOMAIN replies' : k >= p /\ Chooses(replies'[k].rows, l, b)
       PROVE  Chooses(db, l, b) \/ Reads(p, l, b)
  <2>1. PICK k \in DOMAIN replies' : k >= p /\ Chooses(replies'[k].rows, l, b)
    BY <1>16
  <2>2. CASE k \in DOMAIN replies
    BY <1>3, <2>1, <2>2 DEF Reads
  <2>3. CASE k = m
    BY <1>1, <1>3, <1>6, <1>15, <2>1, <2>3
  <2>4. QED
    BY <1>11, <2>2, <2>3
<1>17. FetchesLast'
  <2> SUFFICES ASSUME NEW o \in OpIds, Fetches(o)
               PROVE  /\ \A p \in DOMAIN Pipe' : Pipe'[p].call \notin Opening
                      /\ \A p \in DOMAIN Pipe' :
                            Pipe'[p].call = "getLoads" /\ Pipe'[p].owner = o =>
                              /\ \A q \in DOMAIN Pipe' : q > p => Pipe'[q].call # "updateLoad"
                              /\ p \in DOMAIN replies' =>
                                    \A l \in Loads, b, c \in Bidders \cup {NoOne} :
                                        Fetchable(p, l, b)' /\ Fetchable(p, l, c)' => b = c
    BY DEF FetchesLast, Fetches
  <2>1. /\ \A p \in DOMAIN Pipe : Pipe[p].call \notin Opening
        /\ \A p \in DOMAIN Pipe : Pipe[p].call = "getLoads" /\ Pipe[p].owner = o =>
              /\ \A q \in DOMAIN Pipe : q > p => Pipe[q].call # "updateLoad"
              /\ p \in DOMAIN replies =>
                    \A l \in Loads, b, c \in Bidders \cup {NoOne} :
                        Fetchable(p, l, b) /\ Fetchable(p, l, c) => b = c
    BY DEF HeldChoice, ChoiceInv, FetchesLast
  <2>2. ASSUME NEW p \in DOMAIN Pipe, Pipe[p].call = "getLoads", Pipe[p].owner = o,
               p \in DOMAIN replies', NEW l \in Loads, NEW b \in Bidders \cup {NoOne},
               NEW c \in Bidders \cup {NoOne}, Fetchable(p, l, b)', Fetchable(p, l, c)'
        PROVE  b = c
    <3>1. CASE p \in DOMAIN replies
      <4>1. m > p
        BY <1>4, <1>6, <3>1
      <4>2. req.call \notin {"insertLoad", "updateLoad"}
        BY <1>7, <2>1, <2>2, <4>1 DEF Opening
      <4>3. ASSUME NEW a, Fetchable(p, l, a)' PROVE Fetchable(p, l, a)
        <5>1. CASE Chooses(db', l, a)
          BY <1>14, <4>2, <5>1 DEF Fetchable
        <5>2. CASE \E k \in DOMAIN replies' : k >= p /\ Chooses(replies'[k].rows, l, a)
          BY <1>16, <5>2 DEF Fetchable
        <5>3. QED
          BY <4>3, <5>1, <5>2 DEF Fetchable, Reads, Chooses
      <4>4. QED
        BY <2>1, <2>2, <3>1, <4>3
    <3>2. CASE p = m
      <4>1. req.call = "getLoads"
        BY <1>7, <2>2, <3>2
      <4>2. ASSUME NEW a, Fetchable(p, l, a)' PROVE Chooses(db, l, a)
        <5>1. CASE Chooses(db', l, a)
          BY <1>14, <4>1, <5>1
        <5>2. CASE \E k \in DOMAIN replies' : k >= p /\ Chooses(replies'[k].rows, l, a)
          <6>1. PICK k \in DOMAIN replies' : k >= p /\ Chooses(replies'[k].rows, l, a)
            BY <5>2
          <6>2. k = m
            BY <1>4, <1>6, <3>2, <6>1
          <6>3. QED
            BY <1>1, <1>3, <1>6, <1>15, <6>1, <6>2
        <5>3. QED
          BY <4>2, <5>1, <5>2 DEF Fetchable, Reads, Chooses
      <4>3. UniqueAt(db, l)
        BY DEF HeldChoice, Held, ListInv, Unique
      <4>4. Chooses(db, l, b) /\ Chooses(db, l, c)
        BY <2>2, <4>2
      <4>5. QED
        BY <4>3, <4>4 DEF Chooses, UniqueAt
    <3>3. QED
      BY <1>11, <2>2, <3>1, <3>2
  <2>3. QED
    BY <1>3, <2>1, <2>2
<1>18. SessionChoice'
  <2> SUFFICES ASSUME CarrierSession
               PROVE  /\ \A p \in DOMAIN Pipe' : Pipe'[p].call # "insertLoad"
                      /\ \A l \in Loads, b, c \in Bidders \cup {NoOne} :
                            Stands(l, b)' /\ Stands(l, c)' => b = c
                      /\ \A o \in OpIds, b \in Bidders \cup {NoOne} :
                            /\ ops[o].kind \in AnswerKinds /\ ops[o].step \in {"dialog", "writeLoad"}
                            /\ Stands(ops[o].load, b)'
                            => b = ops[o].who
    BY DEF SessionChoice, CarrierSession, InSession, Asks, Fetches, Stands, Fetchable, Reads,
           Writes, Chooses
  <2>1. /\ \A p \in DOMAIN Pipe : Pipe[p].call # "insertLoad"
        /\ \A l \in Loads, b, c \in Bidders \cup {NoOne} : Stands(l, b) /\ Stands(l, c) => b = c
        /\ \A o \in OpIds, b \in Bidders \cup {NoOne} :
              /\ ops[o].kind \in AnswerKinds /\ ops[o].step \in {"dialog", "writeLoad"}
              /\ Stands(ops[o].load, b)
              => b = ops[o].who
    BY DEF HeldChoice, ChoiceInv, SessionChoice
  <2>2. req.call # "insertLoad"
    BY <1>7, <2>1
  <2>3. \A k \in DOMAIN replies' : k >= 1
    BY <1>4
  <2>4. ASSUME NEW l, NEW b, Stands(l, b)' PROVE Stands(l, b)
    <3>1. CASE Chooses(mem', l, b)
      BY <3>1 DEF Stands, Chooses
    <3>2. CASE Chooses(db', l, b)
      BY <1>8, <1>14, <2>2, <3>2 DEF Stands, Fetchable, Writes
    <3>3. CASE \E k \in DOMAIN replies' : k >= 1 /\ Chooses(replies'[k].rows, l, b)
      BY <1>16, <3>3 DEF Stands, Fetchable
    <3>4. CASE \E i \in DOMAIN queue' : /\ queue'[i].call = "updateLoad"
                                        /\ queue'[i].row.id = l /\ queue'[i].row.selected = b
      BY <1>8, <3>4 DEF Stands, Writes
    <3>5. QED
      BY <2>4, <3>1, <3>2, <3>3, <3>4 DEF Stands, Fetchable, Reads, Writes, Chooses
  <2>5. QED
    BY <1>3, <2>1, <2>4
<1>19. QED
  BY <1>12, <1>13, <1>17, <1>18 DEF ChoiceInv

LEMMA DatabaseChoice ==
    ASSUME HeldChoice, DbExecute \/ DbFail
    PROVE  ChoiceInv'
<1>1. CASE DbExecute
  BY <1>1, ExecutedChoice DEF DbExecute, memory, outside
<1>2. CASE DbFail
  BY <1>2, ExecutedChoice DEF DbFail, memory
<1>3. QED
  BY <1>1, <1>2

(* main() inserts the test loads before anybody logs in.                   *)
LEMMA InsertTestLoadChoice ==
    ASSUME HeldChoice, InsertTestLoad
    PROVE  ChoiceInv'
<1>0. PICK row : row = FreshRow(Seeds[boot + 1])
  OBVIOUS
<1>1. /\ boot < Len(Seeds) /\ db' = Append(Without(db, row.id), row)
      /\ UNCHANGED <<mem, tasks, ops, started, user, queue, replies>>
  BY <1>0 DEF InsertTestLoad, memory
<1>2. row \in GoodRow /\ Named(row)
  <2>1. boot + 1 \in DOMAIN Seeds /\ Seeds[boot + 1] \in Loads
    BY <1>1, LoadsAssumption, LenProperties, ElementOfSeq DEF HeldChoice, Held, IInv, GoodRest
  <2>2. QED
    BY <1>0, <2>1, FreshGood, FreshNamed
<1>3. /\ user = NoOne /\ queue = <<>> /\ replies = <<>>
  BY <1>1 DEF HeldChoice, Held, ListInv, BootsAlone, ChoiceInv, NobodyBoots, Booted
<1>4. DOMAIN Pipe' = {}
  <2>1. Len(replies') = 0 /\ Len(queue') = 0
    BY <1>1, <1>3, EmptySeq
  <2>2. QED
    BY <2>1 DEF HeldChoice, Held, Before, PipeFacts, PipeSizes
<1>5. \A j \in DOMAIN db' : Named(db'[j])
  <2>1. PICK w : w = Without(db, row.id)
    OBVIOUS
  <2>2. db \in Seq(GoodRow)
    BY DEF HeldChoice, Held, IInv, GoodDb
  <2>3. w \in Seq(GoodRow) /\ \A i \in DOMAIN w : \E k \in DOMAIN db : w[i] = db[k]
    BY <2>1, <2>2, WithoutType, WithoutFrom
  <2>4. \A j \in DOMAIN db' : (j \in DOMAIN w /\ db'[j] = w[j]) \/ db'[j] = row
    BY <1>1, <1>2, <2>1, <2>3, AppendProperties, LenProperties
  <2>5. \A i \in DOMAIN db : Named(db[i])
    BY DEF HeldChoice, ChoiceInv, RowsNamed
  <2>6. QED
    BY <1>2, <2>3, <2>4, <2>5
<1>6. RowsNamed'
  BY <1>1, <1>5 DEF RowsNamed, HeldChoice, ChoiceInv, Named
<1>7. KnownCalls' /\ AsksAfterOpenings' /\ FetchesLast'
  BY <1>4 DEF KnownCalls, AsksAfterOpenings, FetchesLast
<1>8. TasksAway' /\ AsksAlone'
  BY <1>1 DEF TasksAway, AsksAlone, Asks, Fetches, HeldChoice, ChoiceInv
<1>9. NobodyBoots'
  BY <1>1, <1>3 DEF NobodyBoots
<1>10. ~CarrierSession /\ ~CarrierSession'
  BY <1>1, <1>3 DEF CarrierSession, HeldChoice, NoOldCopies
<1>11. SessionChoice'
  BY <1>10 DEF SessionChoice
<1>12. AnswersWait'
  <2>1. Pipe' = Pipe
    BY <1>1 DEF Pipe
  <2>2. QED
    BY <1>1, <1>10, <2>1 DEF AnswersWait, HeldChoice, ChoiceInv
<1>13. QED
  BY <1>6, <1>7, <1>8, <1>9, <1>11, <1>12 DEF ChoiceInv

(* A kill leaves the table, and nobody logged in.                          *)
LEMMA RestartChoice ==
    ASSUME HeldChoice, Restart
    PROVE  ChoiceInv'
<1>1. /\ mem' = <<>> /\ queue' = <<>> /\ replies' = <<>> /\ user' = NoOne
      /\ tasks' = [o \in OpIds |-> [l \in Loads |-> NoTask(l)]]
      /\ UNCHANGED <<started, db>>
  BY DEF Restart
<1>2. \A o \in OpIds : /\ ops'[o].kind = ops[o].kind /\ ops'[o].post = ops[o].post
                       /\ ops'[o].step \in {"idle", "done", "aborted"}
                       /\ ops[o].step = "idle" \/ ops'[o].step \in {"done", "aborted"}
                       /\ ops[o].step = "idle" => ops'[o].step = "idle"
  <2>1. ops \in [OpIds -> Op]
    BY DEF HeldChoice, Held, IInv, GoodOps
  <2>2. QED
    BY <2>1 DEF Restart, InFlight, Op
<1>3. DOMAIN Pipe' = {} /\ DOMAIN replies' = {} /\ DOMAIN queue' = {} /\ DOMAIN mem' = {}
  <2>1. Len(replies') = 0 /\ Len(queue') = 0
    BY <1>1, EmptySeq
  <2>2. QED
    BY <1>1, <2>1, EmptySeq DEF HeldChoice, Held, Before, PipeFacts, PipeSizes
<1>4. \A o \in OpIds : ~Asks(o)' /\ ~Fetches(o)'
  BY <1>2 DEF Asks, Fetches
<1>5. RowsNamed'
  BY <1>1, <1>2, <1>3 DEF RowsNamed, HeldChoice, ChoiceInv
<1>6. KnownCalls' /\ AsksAfterOpenings' /\ FetchesLast' /\ AsksAlone'
  BY <1>3, <1>4 DEF KnownCalls, AsksAfterOpenings, FetchesLast, AsksAlone
<1>7. TasksAway' /\ NobodyBoots'
  BY <1>1, <1>4 DEF TasksAway, NobodyBoots
<1>8. SessionChoice'
  <2>1. ~CarrierSession'
    BY <1>1 DEF CarrierSession, HeldChoice, NoOldCopies
  <2>2. QED
    BY <2>1 DEF SessionChoice
<1>9. AnswersWait'
  <2>1. \A o \in OpIds : ops[o].kind \in AnswerKinds => ops[o].step # "idle"
    BY DEF HeldChoice, ChoiceInv, AnswersWait
  <2>2. \A o \in OpIds : ops'[o].step # "dialog" /\ ops'[o].step # "writeLoad"
    BY <1>2
  <2>3. \A o \in OpIds : ops'[o].kind \in AnswerKinds => ops'[o].step \in {"done", "aborted"}
    BY <1>2, <2>1
  <2>4. QED
    BY <2>2, <2>3 DEF AnswersWait
<1>10. QED
  BY <1>5, <1>6, <1>7, <1>8, <1>9 DEF ChoiceInv

(* The user leaves, or nothing happens.  No dialog is open over a board.   *)
LEMMA LogoutChoice ==
    ASSUME HeldChoice,
           UNCHANGED <<mem, tasks, ops, started, boot, db, queue, replies>>,
           user' = user \/ (AtBoard /\ user' = NoOne)
    PROVE  ChoiceInv'
<1>1. Pipe' = Pipe
  BY DEF Pipe
<1>2. \A o \in OpIds : (Asks(o)' <=> Asks(o)) /\ (Fetches(o)' <=> Fetches(o))
  BY DEF Asks, Fetches
<1>3. RowsNamed' /\ KnownCalls' /\ TasksAway' /\ AsksAfterOpenings' /\ FetchesLast'
  BY <1>1, <1>2 DEF HeldChoice, ChoiceInv, RowsNamed, KnownCalls, KnownCall, TasksAway,
                    AsksAfterOpenings, FetchesLast, Fetchable, Reads, Chooses, Asks, Fetches
<1>4. NobodyBoots' /\ AsksAlone'
  BY <1>2 DEF HeldChoice, ChoiceInv, NobodyBoots, Booted, AsksAlone
<1>5. CASE user' = user
  <2>1. CarrierSession' <=> CarrierSession
    BY <1>2, <1>5 DEF CarrierSession, InSession
  <2>2. AnswersWait'
    BY <1>1, <2>1 DEF HeldChoice, ChoiceInv, AnswersWait
  <2>3. SessionChoice'
    BY <1>1, <2>1 DEF HeldChoice, ChoiceInv, SessionChoice, Stands, Fetchable, Reads, Writes,
                      Chooses
  <2>4. QED
    BY <1>3, <1>4, <2>2, <2>3 DEF ChoiceInv
<1>6. CASE AtBoard /\ user' = NoOne
  <2>1. ~CarrierSession'
    BY <1>6 DEF CarrierSession, HeldChoice, NoOldCopies
  <2>2. \A o \in OpIds : ops[o].step # "dialog"
    BY <1>6 DEF AtBoard, InFlight
  <2>3. AnswersWait'
    BY <1>1, <2>2 DEF HeldChoice, ChoiceInv, AnswersWait
  <2>4. SessionChoice'
    BY <2>1 DEF SessionChoice
  <2>5. QED
    BY <1>3, <1>4, <2>3, <2>4 DEF ChoiceInv
<1>7. QED
  BY <1>5, <1>6

LEMMA ChoiceInit == NoOldCopies /\ Init => ChoiceInv
<1> SUFFICES ASSUME NoOldCopies, Init PROVE ChoiceInv
  OBVIOUS
<1>1. /\ mem = <<>> /\ queue = <<>> /\ replies = <<>> /\ user = NoOne /\ db \in LeftBehind
      /\ tasks = [o \in OpIds |-> [l \in Loads |-> NoTask(l)]]
      /\ ops = [o \in OpIds |-> NoOp]
  BY DEF Init
<1>2. NoOp.kind = "none" /\ NoOp.step = "idle"
  BY DEF NoOp
<1>3. \A o \in OpIds : ops[o].kind = "none" /\ ops[o].step = "idle" /\ Named(ops[o].post)
  BY <1>1, <1>2, FreshNamed
<1>4. DOMAIN Pipe = {} /\ DOMAIN replies = {} /\ DOMAIN queue = {} /\ DOMAIN mem = {}
  BY <1>1, EmptySeq DEF Pipe
<1>5. RowsNamed
  BY <1>1, <1>3, <1>4 DEF RowsNamed, NoOldCopies
<1>6. KnownCalls /\ AsksAfterOpenings
  BY <1>4 DEF KnownCalls, AsksAfterOpenings
<1>7. TasksAway /\ NobodyBoots
  BY <1>1 DEF TasksAway, NoTask, NobodyBoots
<1>8. AnswersWait
  BY <1>3 DEF AnswersWait, AnswerKinds
<1>9. AsksAlone /\ FetchesLast
  BY <1>3 DEF AsksAlone, FetchesLast, Asks, Fetches
<1>10. SessionChoice
  BY <1>1 DEF SessionChoice, CarrierSession, NoOldCopies
<1>11. QED
  BY <1>5, <1>6, <1>7, <1>8, <1>9, <1>10 DEF ChoiceInv

LEMMA ChoiceNext ==
    ASSUME NoOldCopies, IInv, IInv', ListInv, ChoiceInv, [Next]_vars
    PROVE  ChoiceInv'
<1>0. HeldChoice
  BY HeldReady DEF HeldChoice
<1> USE <1>0
<1>1. CASE InsertTestLoad \/ DbExecute \/ DbFail \/ Restart
  BY <1>1, InsertTestLoadChoice, DatabaseChoice, RestartChoice
<1>2. CASE (\E u \in Users : Login(u)) \/ LoginAnswered
  BY <1>2, LoginChoice, LoginAnsweredChoice
<1>3. CASE Refresh \/ LoadsRead
  BY <1>3, RefreshChoice, LoadsReadChoice
<1>4. CASE \/ \E o \in OpIds, l \in Loads : RouteFound(o, l) \/ RouteMissing(o, l)
           \/ DistanceSaved
  BY <1>4, NoDistances, RouteMissingChoice
<1>5. CASE \/ \E l \in Loads : OpenDetails(l) \/ PostLoad(l) \/ PostReturn(l)
           \/ LoadInserted
  BY <1>5, OpenDetailsChoice, PostLoadChoice, PostReturnChoice, LoadInsertedChoice
<1>6. CASE (\E chosen \in SUBSET Loads \ {{}} : DeleteLoads(chosen)) \/ LoadDeleted
  BY <1>6, DeleteLoadsChoice, LoadDeletedChoice
<1>7. CASE \/ \E l \in Loads : PlaceBid(l) \/ BidByName(l)
           \/ \E l \in Loads, b \in Bidders, v \in {"accepted", "rejected", "countered"} :
                  Respond(l, b, v)
           \/ BidsWritten
  BY <1>7, AddBidChoice, RespondChoice, BidsWrittenChoice DEF PlaceBid, BidByName
<1>8. CASE \/ \E l \in Loads, kind \in {"confirm", "decline"} : OpenDialog(l, kind)
           \/ \E o \in OpIds : CancelDialog(o) \/ Submit(o)
           \/ LoadWritten
  BY <1>8, OpenDialogChoice, CancelDialogChoice, SubmitChoice, LoadWrittenChoice DEF AnswerKinds
<1>9. CASE Logout \/ UNCHANGED vars
  <2>1. /\ user' = user \/ (AtBoard /\ user' = NoOne)
        /\ UNCHANGED <<mem, tasks, ops, started, boot, db, queue, replies>>
    BY <1>9 DEF Logout, vars, memory
  <2>2. QED
    BY <2>1, LogoutChoice
<1>10. QED
  BY <1>1, <1>2, <1>3, <1>4, <1>5, <1>6, <1>7, <1>8, <1>9 DEF Next, Users

LEMMA ChoiceInvariant == NoOldCopies /\ Spec => [](IInv /\ ListInv /\ ChoiceInv)
<1>1. NoOldCopies /\ Init => IInv /\ ListInv /\ ChoiceInv
  BY InitHolds, ListInit, ChoiceInit
<1>2. NoOldCopies /\ IInv /\ ListInv /\ ChoiceInv /\ [Next]_vars =>
          IInv' /\ ListInv' /\ ChoiceInv'
  BY NextKeeps, ListNext, ChoiceNext
<1>3. CASE NoOldCopies
  BY <1>1, <1>2, <1>3, PTL DEF Spec
<1>4. QED
  BY <1>3

(* Where no distance write can put an old copy back and the broker is not  *)
(* himself a carrier, a load that is confirmed names a carrier, in memory  *)
(* and in the table, however the answers overlap fetches, verdicts that    *)
(* were given before the login, deletions, failing calls and kills: while  *)
(* a carrier is logged in every copy of a load names the same one.         *)
THEOREM OverlapsKeepCarrier ==
    ASSUME NoOldCopies
    PROVE  Spec => []ConfirmedNamesCarrier
<1>1. IInv /\ ChoiceInv => ConfirmedNamesCarrier
  BY DEF ChoiceInv, RowsNamed, Named, ConfirmedNamesCarrier
<1>2. QED
  BY ChoiceInvariant, <1>1, PTL

-----------------------------------------------------------------------------
(* A confirmation that was reported stays in the table while handlers      *)
(* overlap, fail and are killed, when the board is used to negotiate only: *)
(* nothing is posted, deleted or bid meanwhile.                            *)
NegotiationKinds == {"login", "refresh", "details", "respond", "confirm", "decline"}
OnlyNegotiation == NoOldCopies /\ Buttons \subseteq NegotiationKinds

(* A handler has one call at a time under way, and its step says which. *)
WaitsFor(op, call) ==
    \/ op.kind = "login" /\ op.step = "getUser" /\ call = "getUser"
    \/ op.kind \in {"login", "refresh", "respond"} /\ op.step = "read" /\ call = "getLoads"
    \/ op.kind = "respond" /\ op.step = "writeBids" /\ call = "updateLoadBids"
    \/ op.kind \in {"respond", "confirm", "decline"} /\ op.step = "writeLoad"
       /\ call = "updateLoad"
AwaitedCalls ==
    /\ \A p \in DOMAIN Pipe : WaitsFor(ops[Pipe[p].owner], Pipe[p].call)
    /\ \A p, q \in DOMAIN Pipe : Pipe[p].owner = Pipe[q].owner => p = q
RowsOwned ==
    \A p \in DOMAIN Pipe :
        Pipe[p].call \in {"updateLoadBids", "updateLoad"} =>
            Pipe[p].load = ops[Pipe[p].owner].load

(* A verdict is under way: its handler waits for a write. *)
Judges(o) == ops[o].kind = "respond" /\ ops[o].step \in {"writeBids", "writeLoad"}
NegotiationOps ==
    \A o \in OpIds :
        /\ ops[o].kind \in NegotiationKinds \cup {"none"}
        /\ Judges(o) =>
              /\ \E p \in DOMAIN Pipe : Pipe[p].owner = o
              /\ ops[o].index \in DOMAIN db /\ db[ops[o].index].id = ops[o].load
        /\ ops[o].step = "dialog" => o = started

(* A handler is not past its distance lookups while one runs. *)
TasksOpen ==
    \A o \in OpIds, l \in Loads :
        tasks[o][l].step # "none" => ops[o].step = "distances"

(* The table keeps its loads in their places, so that the index a verdict  *)
(* remembers is good for every list that was read.                         *)
InPlace(s) == \A i \in DOMAIN s : i \in DOMAIN db /\ s[i].id = db[i].id
ListsInPlace == InPlace(mem) /\ \A k \in DOMAIN replies : InPlace(replies[k].rows)

(* What copies of a load say of the bid of the user who is logged in. *)
Mark(bids) == IF bids[user] = "accepted" THEN "accepted" ELSE "open"
MarkIn(rows, l, m) == \E i \in DOMAIN rows : rows[i].id = l /\ Mark(rows[i].bids) = m
MarkOnBoard(l, m) == \E i \in DOMAIN mem : mem[i].id = l /\ Mark(ToRow(mem[i]).bids) = m
MarkWritten(l, m) ==
    \E i \in DOMAIN queue : /\ queue[i].call = "updateLoad" /\ queue[i].row.id = l
                            /\ Mark(queue[i].row.bids) = m
Marked(l, m) ==
    \/ MarkOnBoard(l, m) \/ MarkIn(db, l, m) \/ MarkWritten(l, m)
    \/ \E k \in DOMAIN replies : MarkIn(replies[k].rows, l, m)

(* A login's fetch reads the table as it stays until the board shows it.   *)
FetchedNow ==
    \A o \in OpIds : Fetches(o) =>
        \A p \in DOMAIN replies : replies[p].call = "getLoads" /\ replies[p].owner = o =>
            \A k \in DOMAIN replies : k >= p => replies[k].rows \in {<<>>, db}

(* In the session of a carrier all copies of a load agree on whether his   *)
(* bid is accepted; it is not where a verdict is under way, and is where   *)
(* he answers.                                                             *)
Answering(o) == ops[o].kind \in AnswerKinds /\ ops[o].step \in {"dialog", "writeLoad"}
SessionMarks ==
    CarrierSession =>
        /\ \A l \in Loads : ~(Marked(l, "accepted") /\ Marked(l, "open"))
        /\ \A o \in OpIds : Judges(o) => ~Marked(ops[o].load, "accepted")
        /\ \A o \in OpIds : Answering(o) =>
              ops[o].who = user /\ ~Marked(ops[o].load, "open")

(* A confirmation has its place in the pipe until it is reported (0), and  *)
(* what the table holds from then on confirms the load.                    *)
Place(o, n) ==
    /\ ops[o].kind = "confirm"
    /\ \/ n = 0 /\ ops[o].step = "done"
       \/ /\ n \in DOMAIN Pipe /\ Pipe[n].call = "updateLoad" /\ Pipe[n].owner = o
          /\ n \in DOMAIN replies => replies[n].ok
Unchallenged(o) ==
    /\ ~\E p \in OpIds : Supersedes(p, o)
    /\ \A i \in DOMAIN Seeds : Seeds[i] # ops[o].load
Confirms(r, l, c) == r.id = l => r.status = "confirmed" /\ r.selected = c
AllConfirm(s, l, c) == \A i \in DOMAIN s : Confirms(s[i], l, c)
Behind(n, l, c) ==
    /\ n <= Len(replies) => AllConfirm(db, l, c)
    /\ \A k \in DOMAIN replies : k > n => AllConfirm(replies[k].rows, l, c)
    /\ \A i \in DOMAIN queue :
          queue[i].call = "updateLoad" /\ Len(replies) + i > n => Confirms(queue[i].row, l, c)
(* Nobody but the carrier who confirmed is at the board. *)
Closed(l, c) ==
    /\ \A r \in OpIds : ops[r].kind = "respond" /\ ops[r].step = "writeBids" => ops[r].load # l
    /\ InSession => user \in Carriers /\ user = c /\ ~Marked(l, "open")
Kept ==
    \A o \in OpIds, n \in Nat :
        Place(o, n) /\ Unchallenged(o) =>
            /\ Behind(n, ops[o].load, ops[o].who)
            /\ \/ n = 0 /\ AllConfirm(mem, ops[o].load, ops[o].who)
               \/ Closed(ops[o].load, ops[o].who)
(* The row a confirmation writes. *)
ConfirmRows ==
    \A i \in DOMAIN queue :
        queue[i].call = "updateLoad" /\ ops[queue[i].owner].kind = "confirm" =>
            Confirms(queue[i].row, ops[queue[i].owner].load, ops[queue[i].owner].who)

ConfirmInv ==
    /\ AwaitedCalls /\ RowsOwned /\ NegotiationOps /\ TasksOpen /\ ListsInPlace /\ FetchedNow
    /\ SessionMarks /\ ConfirmRows /\ Kept

HeldConfirm == OnlyNegotiation /\ HeldChoice /\ ChoiceInv' /\ ListInv' /\ ConfirmInv

(* A step of the app: d replies are taken.  What becomes of each handler,  *)
Replied(o, d) == d = 1 /\ replies[1].owner = o
SameOp(o) ==
    /\ ops'[o].kind = ops[o].kind /\ ops'[o].load = ops[o].load /\ ops'[o].who = ops[o].who
    /\ ops'[o].verdict = ops[o].verdict /\ ops'[o].index = ops[o].index
VerdictGoes(o, d) ==
    /\ \/ Judges(o) /\ (ops'[o].step = "writeBids" => ops[o].step = "writeBids")
       \/ /\ o > started /\ InSession
          /\ CarrierSession => Marked(ops'[o].load, "open")
          /\ ops'[o].index \in DOMAIN db /\ db[ops'[o].index].id = ops'[o].load
    /\ \/ Judges(o) /\ ~Replied(o, d)
       \/ \E p \in DOMAIN Pipe' : Pipe'[p].owner = o
OpGoes(o, d) ==
    /\ o <= started =>
          /\ SameOp(o)
          /\ \/ ops'[o].step = ops[o].step \/ Replied(o, d)
             \/ ops[o].step \in {"dialog", "distances"}
    /\ ops'[o].kind \in NegotiationKinds \cup {"none"}
    /\ ops'[o].step = "dialog" => o = started'
    /\ Judges(o)' => VerdictGoes(o, d)
    /\ Answering(o)' =>
          Answering(o) \/ (ops'[o].who = user /\ ~Marked(ops'[o].load, "open"))
    /\ ops'[o].kind = "confirm" /\ ops'[o].step = "done" =>
          /\ o <= started
          /\ ops[o].step = "done" \/ (Replied(o, d) /\ replies[1].ok)

(* which calls and rows are new,                                           *)
NewTalk(c, d) ==
    /\ WaitsFor(ops'[c.owner], c.call)
    /\ c.owner > started \/ Replied(c.owner, d) \/ ops[c.owner].step = "dialog"
    /\ c.call \in {"updateLoadBids", "updateLoad"} => c.load = ops'[c.owner].load
    /\ c.call = "updateLoad" /\ ops'[c.owner].kind = "confirm" =>
          Closed(ops'[c.owner].load, ops'[c.owner].who)
RowKeeps(r) ==
    \A o \in OpIds :
        /\ o <= started /\ ops[o].kind = "confirm" /\ Unchallenged(o)'
        /\ AllConfirm(mem, ops[o].load, ops[o].who) \/ Closed(ops[o].load, ops[o].who)
        => Confirms(r, ops[o].load, ops[o].who)
NewRow(q) ==
    q.call = "updateLoad" =>
        /\ CarrierSession => Marked(q.row.id, Mark(q.row.bids))
        /\ ops'[q.owner].kind = "confirm" =>
              Confirms(q.row, ops'[q.owner].load, ops'[q.owner].who)
        /\ RowKeeps(q.row)
Talks(d) ==
    /\ \A p \in DOMAIN Pipe' : Moved(p, d) \/ (NewPlace(p, d) /\ NewTalk(Pipe'[p], d))
    /\ \A i \in DOMAIN queue' :
          \/ i \in DOMAIN queue /\ queue'[i] = queue[i]
          \/ i = Len(queue) + 1 /\ NewRow(queue'[i])
    /\ Len(queue') >= Len(queue)
Wired(d) ==
    /\ RepliesMoved(d) /\ UNCHANGED db
    /\ (\A o \in OpIds : OpGoes(o, d)) /\ Talks(d)
    /\ InPlace(mem')

(* and what the board shows, unless a login ends.                          *)
BoardMark(i) == Mark(ToRow(mem[i]).bids)
BoardMarks == \A i \in DOMAIN mem' : Marked(mem'[i].id, BoardMark(i)')
BoardConfirms ==
    \A o \in OpIds :
        /\ o <= started /\ Place(o, 0) /\ Unchallenged(o) /\ Unchallenged(o)'
        /\ AllConfirm(mem, ops[o].load, ops[o].who)
        => AllConfirm(mem', ops[o].load, ops[o].who)
SessionGoes ==
    /\ InSession' => InSession /\ user' = user
    /\ CarrierSession' => BoardMarks
    /\ BoardConfirms

LEMMA ConfirmHeld ==
    ASSUME HeldConfirm
    PROVE  /\ HeldChoice /\ PipeFacts /\ PipeFacts' /\ started \in Nat
           /\ \A o \in OpIds : o \in Nat /\ (o > started <=> ops[o].kind = "none")
           /\ \A o \in OpIds : o > started' <=> ops'[o].kind = "none"
           /\ \A p \in DOMAIN Pipe : /\ Pipe[p].owner \in OpIds /\ Pipe[p].owner <= started
                                     /\ p \in Nat /\ p >= 1
           /\ Len(replies) \in Nat /\ Len(queue) \in Nat
           /\ Len(replies') \in Nat /\ Len(queue') \in Nat
<1>1. HeldChoice /\ PipeFacts /\ PipeFacts'
  BY DEF HeldConfirm, HeldChoice, Held, Before
<1>2. started \in Nat /\ \A o \in OpIds : o \in Nat /\ (o > started <=> ops[o].kind = "none")
  BY <1>1, OpsHeld
<1>3. \A o \in OpIds : o > started' <=> ops'[o].kind = "none"
  BY DEF HeldConfirm, ListInv, OpsShaped
<1>4. ASSUME NEW p \in DOMAIN Pipe
      PROVE  Pipe[p].owner \in OpIds /\ Pipe[p].owner <= started /\ p \in Nat /\ p >= 1
  BY <1>1, KnownCallOf
<1>5. QED
  BY <1>1, <1>2, <1>3, <1>4 DEF PipeFacts, PipeSizes

(* The calls that were there still are, and their handlers wait for them. *)
LEMMA OldCall ==
    ASSUME HeldConfirm, NEW d \in {0, 1}, Wired(d), NEW p \in DOMAIN Pipe', Moved(p, d)
    PROVE  /\ p + d \in DOMAIN Pipe /\ Pipe'[p] = Pipe[p + d]
           /\ p \in Nat /\ p >= 1
           /\ Pipe'[p].owner \in OpIds /\ Pipe'[p].owner <= started
           /\ WaitsFor(ops[Pipe'[p].owner], Pipe'[p].call)
           /\ WaitsFor(ops'[Pipe'[p].owner], Pipe'[p].call)
           /\ SameOp(Pipe'[p].owner) /\ ops'[Pipe'[p].owner].step = ops[Pipe'[p].owner].step
           /\ ~Replied(Pipe'[p].owner, d)
<1>1. p + d \in DOMAIN Pipe /\ Pipe'[p] = Pipe[p + d] /\ p \in Nat /\ p >= 1
  BY ConfirmHeld DEF Moved, PipeFacts, PipeSizes
<1>2. PICK o, c : o = Pipe[p + d].owner /\ c = Pipe[p + d].call
  OBVIOUS
<1>3. o \in OpIds /\ o <= started
  BY <1>1, <1>2, ConfirmHeld
<1>4. WaitsFor(ops[o], c)
  BY <1>1, <1>2 DEF HeldConfirm, ConfirmInv, AwaitedCalls
<1>5. ~Replied(o, d)
  <2> SUFFICES ASSUME Replied(o, d) PROVE FALSE
    OBVIOUS
  <2>1. d = 1 /\ replies[1].owner = o
    BY DEF Replied
  <2>2. 1 \in DOMAIN Pipe /\ Pipe[1].owner = o
    <3>1. RepliesMoved(1)
      BY <2>1 DEF Wired, Talks
    <3>2. QED
      BY <2>1, <3>1, ConfirmHeld, TakenKnown
  <2>3. p + d = 1
    BY <1>1, <1>2, <2>2 DEF HeldConfirm, ConfirmInv, AwaitedCalls
  <2>4. QED
    BY <1>1, <2>1, <2>3
<1>6. ops[o].step \notin {"dialog", "distances"}
  BY <1>4 DEF WaitsFor
<1>7. SameOp(o) /\ ops'[o].step = ops[o].step
  BY <1>3, <1>5, <1>6 DEF Wired, Talks, OpGoes
<1>8. WaitsFor(ops'[o], c)
  BY <1>4, <1>7 DEF WaitsFor, SameOp
<1>9. QED
  BY <1>1, <1>2, <1>3, <1>4, <1>5, <1>7, <1>8

LEMMA CallStays ==
    ASSUME HeldConfirm, NEW d \in {0, 1}, Wired(d), NEW p \in DOMAIN Pipe, p > d
    PROVE  p - d \in DOMAIN Pipe' /\ Pipe'[p - d] = Pipe[p]
<1>1. /\ p \in Nat /\ p <= Len(replies) + Len(queue) /\ Len(replies) \in Nat /\ Len(queue) \in Nat
      /\ Len(queue') >= Len(queue) /\ Len(replies') = Len(replies) - d
      /\ Len(queue') \in Nat
      /\ DOMAIN Pipe' = 1..(Len(replies') + Len(queue'))
  BY ConfirmHeld DEF PipeFacts, PipeSizes, Wired, Talks, RepliesMoved
<1>2. PICK n \in Nat : n = p - d
  BY <1>1
<1>3. n \in DOMAIN Pipe' /\ n + d = p
  BY <1>1, <1>2
<1>4. ~NewPlace(n, d)
  BY <1>1, <1>3 DEF NewPlace
<1>5. Moved(n, d)
  BY <1>3, <1>4 DEF Wired, Talks
<1>6. QED
  BY <1>2, <1>3, <1>5 DEF Moved

LEMMA AwaitedKept ==
    ASSUME HeldConfirm, NEW d \in {0, 1}, Wired(d)
    PROVE  AwaitedCalls' /\ RowsOwned'
<1>1. \A p \in DOMAIN Pipe' : Moved(p, d) \/ (NewPlace(p, d) /\ NewTalk(Pipe'[p], d))
  BY DEF Wired, Talks
<1>2. ASSUME NEW p \in DOMAIN Pipe' PROVE WaitsFor(ops'[Pipe'[p].owner], Pipe'[p].call)
  BY <1>1, OldCall DEF NewTalk
<1>3. ASSUME NEW p \in DOMAIN Pipe', Pipe'[p].call \in {"updateLoadBids", "updateLoad"}
      PROVE  Pipe'[p].load = ops'[Pipe'[p].owner].load
  <2>1. CASE Moved(p, d)
    <3>1. /\ p + d \in DOMAIN Pipe /\ Pipe'[p] = Pipe[p + d] /\ SameOp(Pipe'[p].owner)
      BY <2>1, OldCall
    <3>2. Pipe'[p].load = ops[Pipe'[p].owner].load
      BY <1>3, <3>1 DEF HeldConfirm, ConfirmInv, RowsOwned
    <3>3. QED
      BY <3>1, <3>2 DEF SameOp
  <2>2. CASE NewTalk(Pipe'[p], d)
    BY <1>3, <2>2 DEF NewTalk
  <2>3. QED
    BY <1>1, <2>1, <2>2
<1>4. ASSUME NEW p \in DOMAIN Pipe', NEW q \in DOMAIN Pipe', Moved(p, d), Moved(q, d),
             Pipe'[p].owner = Pipe'[q].owner
      PROVE  p = q
  <2>1. /\ p + d \in DOMAIN Pipe /\ Pipe'[p] = Pipe[p + d]
        /\ q + d \in DOMAIN Pipe /\ Pipe'[q] = Pipe[q + d]
        /\ p \in Nat /\ q \in Nat
    BY <1>4, OldCall
  <2>2. p + d = q + d
    BY <1>4, <2>1 DEF HeldConfirm, ConfirmInv, AwaitedCalls
  <2>3. QED
    BY <2>1, <2>2
<1>5. ASSUME NEW p \in DOMAIN Pipe', NEW q \in DOMAIN Pipe', Moved(p, d), NewTalk(Pipe'[q], d),
             Pipe'[p].owner = Pipe'[q].owner
      PROVE  FALSE
  <2>1. PICK o : o = Pipe'[p].owner
    OBVIOUS
  <2>2. o \in OpIds /\ o <= started /\ WaitsFor(ops[o], Pipe'[p].call) /\ ~Replied(o, d)
    BY <1>5, <2>1, OldCall
  <2>3. ops[o].step # "dialog" /\ ~(o > started)
    BY <2>2, ConfirmHeld DEF WaitsFor
  <2>4. QED
    BY <1>5, <2>1, <2>2, <2>3 DEF NewTalk
<1>6. ASSUME NEW p \in DOMAIN Pipe', NEW q \in DOMAIN Pipe', NewPlace(p, d), NewPlace(q, d)
      PROVE  p = q
  <2>1. p \in Nat /\ q \in Nat /\ p + d = q + d
    BY <1>6, ConfirmHeld DEF NewPlace, PipeFacts, PipeSizes
  <2>2. QED
    BY <2>1
<1>7. \A p, q \in DOMAIN Pipe' : Pipe'[p].owner = Pipe'[q].owner => p = q
  BY <1>1, <1>4, <1>5, <1>6
<1>8. QED
  BY <1>2, <1>3, <1>7 DEF AwaitedCalls, RowsOwned

LEMMA OpsKeptNegotiating ==
    ASSUME HeldConfirm, NEW d \in {0, 1}, Wired(d)
    PROVE  NegotiationOps'
<1> SUFFICES ASSUME NEW o \in OpIds
             PROVE  /\ ops'[o].kind \in NegotiationKinds \cup {"none"}
                    /\ Judges(o)' =>
                          /\ \E p \in DOMAIN Pipe' : Pipe'[p].owner = o
                          /\ ops'[o].index \in DOMAIN db' /\ db'[ops'[o].index].id = ops'[o].load
                    /\ ops'[o].step = "dialog" => o = started'
  BY DEF NegotiationOps
<1>1. OpGoes(o, d) /\ UNCHANGED db
  BY DEF Wired, Talks
<1>2. ASSUME Judges(o)'
      PROVE  /\ \E p \in DOMAIN Pipe' : Pipe'[p].owner = o
             /\ ops'[o].index \in DOMAIN db /\ db[ops'[o].index].id = ops'[o].load
  <2>1. VerdictGoes(o, d)
    BY <1>1, <1>2 DEF OpGoes
  <2>2. CASE Judges(o)
    <3>1. o <= started
      BY <2>2, ConfirmHeld DEF Judges
    <3>2. SameOp(o)
      BY <1>1, <3>1 DEF OpGoes
    <3>3. /\ \E p \in DOMAIN Pipe : Pipe[p].owner = o
          /\ ops[o].index \in DOMAIN db /\ db[ops[o].index].id = ops[o].load
      BY <2>2 DEF HeldConfirm, ConfirmInv, NegotiationOps
    <3>4. CASE \E p \in DOMAIN Pipe' : Pipe'[p].owner = o
      BY <3>2, <3>3, <3>4 DEF SameOp
    <3>5. CASE ~Replied(o, d)
      <4>1. PICK p \in DOMAIN Pipe : Pipe[p].owner = o
        BY <3>3
      <4>2. p > d
        <5>1. CASE d = 0
          BY <5>1, ConfirmHeld
        <5>2. CASE d = 1
          <6>1. RepliesMoved(1)
            BY <5>2 DEF Wired, Talks
          <6>2. Pipe[1].owner = replies[1].owner
            BY <6>1, ConfirmHeld, TakenKnown
          <6>3. p # 1
            BY <3>5, <4>1, <5>2, <6>2 DEF Replied
          <6>4. QED
            BY <5>2, <6>3, ConfirmHeld
        <5>3. QED
          BY <5>1, <5>2
      <4>3. PICK n : n = p - d
        OBVIOUS
      <4>4. n \in DOMAIN Pipe' /\ Pipe'[n] = Pipe[p]
        BY <4>2, <4>3, CallStays
      <4>5. QED
        BY <3>2, <3>3, <4>1, <4>4 DEF SameOp
    <3>6. QED
      BY <2>1, <3>4, <3>5 DEF VerdictGoes
  <2>3. CASE ~Judges(o)
    BY <2>1, <2>3 DEF VerdictGoes
  <2>4. QED
    BY <2>2, <2>3
<1>3. QED
  BY <1>1, <1>2 DEF OpGoes

LEMMA PlacesKept ==
    ASSUME HeldConfirm, NEW d \in {0, 1}, Wired(d)
    PROVE  ListsInPlace'
<1>1. UNCHANGED db /\ InPlace(mem')
  BY DEF Wired, Talks
<1>2. \A k \in DOMAIN replies' : k + d \in DOMAIN replies /\ replies'[k] = replies[k + d]
  BY DEF Wired, Talks, RepliesMoved
<1>3. \A k \in DOMAIN replies : InPlace(replies[k].rows)
  BY DEF HeldConfirm, ConfirmInv, ListsInPlace
<1>4. \A k \in DOMAIN replies' : InPlace(replies'[k].rows)
  BY <1>2, <1>3
<1>5. QED
  BY <1>1, <1>4 DEF ListsInPlace, InPlace

LEMMA FetchedKept ==
    ASSUME HeldConfirm, NEW d \in {0, 1}, Wired(d)
    PROVE  FetchedNow'
<1> SUFFICES ASSUME NEW o \in OpIds, Fetches(o)', NEW p \in DOMAIN replies',
                    replies'[p].call = "getLoads", replies'[p].owner = o,
                    NEW k \in DOMAIN replies', k >= p
             PROVE  replies'[k].rows \in {<<>>, db'}
  BY DEF FetchedNow
<1>1. /\ p \in DOMAIN Pipe' /\ Pipe'[p].owner = o /\ p \in Nat /\ k \in Nat /\ p <= Len(replies')
  <2>1. PipeSizes' /\ ExecutedFirst'
    BY ConfirmHeld DEF PipeFacts
  <2>2. Pipe'[p] = [call |-> replies'[p].call, owner |-> replies'[p].owner,
                   load |-> replies'[p].load]
    BY <2>1 DEF ExecutedFirst
  <2>3. Pipe'[p].owner = o
    BY <2>2
  <2>4. DOMAIN replies' = 1..Len(replies')
    BY <2>1 DEF PipeSizes
  <2>5. QED
    BY <2>1, <2>3, <2>4, ConfirmHeld DEF PipeSizes
<1>2. ~NewPlace(p, d)
  BY <1>1, ConfirmHeld DEF NewPlace
<1>3. Moved(p, d)
  BY <1>1, <1>2 DEF Wired, Talks
<1>4. SameOp(o) /\ ops'[o].step = ops[o].step
  BY <1>1, <1>3, OldCall
<1>5. Fetches(o)
  BY <1>4 DEF SameOp, Fetches
<1>6. /\ p + d \in DOMAIN replies /\ replies'[p] = replies[p + d]
      /\ k + d \in DOMAIN replies /\ replies'[k] = replies[k + d]
  BY DEF Wired, Talks, RepliesMoved
<1>7. k + d >= p + d
  BY <1>1
<1>8. replies[k + d].rows \in {<<>>, db}
  BY <1>5, <1>6, <1>7 DEF HeldConfirm, ConfirmInv, FetchedNow
<1>9. QED
  BY <1>6, <1>8 DEF Wired, Talks

LEMMA ConfirmRowsKept ==
    ASSUME HeldConfirm, NEW d \in {0, 1}, Wired(d)
    PROVE  ConfirmRows'
<1> SUFFICES ASSUME NEW i \in DOMAIN queue', queue'[i].call = "updateLoad",
                    ops'[queue'[i].owner].kind = "confirm"
             PROVE  Confirms(queue'[i].row, ops'[queue'[i].owner].load, ops'[queue'[i].owner].who)
  BY DEF ConfirmRows, Confirms
<1>1. CASE i \in DOMAIN queue /\ queue'[i] = queue[i]
  <2>1. PICK o : o = queue[i].owner
    OBVIOUS
  <2>2. o \in OpIds /\ o <= started
    <3>1. Len(replies) + i \in DOMAIN Pipe
      BY <1>1, ConfirmHeld DEF PipeFacts, PipeSizes
    <3>2. Pipe[Len(replies) + i].owner = o
      <4>1. Pipe[Len(replies) + i] = [call |-> queue[i].call, owner |-> queue[i].owner,
                                      load |-> queue[i].row.id]
        BY <1>1, ConfirmHeld DEF PipeFacts, WaitingNext
      <4>2. QED
        BY <2>1, <4>1
    <3>3. QED
      BY <3>1, <3>2, ConfirmHeld
  <2>3. SameOp(o)
    BY <2>2 DEF Wired, Talks, OpGoes
  <2>4. Confirms(queue[i].row, ops[o].load, ops[o].who)
    BY <1>1, <2>1, <2>3 DEF HeldConfirm, ConfirmInv, ConfirmRows, SameOp
  <2>5. QED
    BY <1>1, <2>1, <2>3, <2>4 DEF SameOp
<1>2. CASE NewRow(queue'[i])
  BY <1>2 DEF NewRow
<1>3. QED
  BY <1>1, <1>2 DEF Wired, Talks

(* In a session that goes on no copy with another mark appears, and nobody *)
(* else comes to the board of a carrier who confirmed.                     *)
LEMMA MarkedBefore ==
    ASSUME HeldConfirm, NEW d \in {0, 1}, Wired(d), SessionGoes, CarrierSession',
           NEW l, NEW m, Marked(l, m)'
    PROVE  CarrierSession /\ user' = user /\ Marked(l, m)
<1>1. CarrierSession /\ user' = user /\ BoardMarks /\ UNCHANGED db
  BY DEF SessionGoes, CarrierSession, Wired, Talks
<1>2. CASE \E i \in DOMAIN mem' : mem'[i].id = l /\ BoardMark(i)' = m
  BY <1>1, <1>2 DEF BoardMarks
<1>3. CASE \E i \in DOMAIN db' : db'[i].id = l /\ Mark(db[i].bids)' = m
  BY <1>1, <1>3 DEF Marked, MarkIn, Mark
<1>4. CASE \E k \in DOMAIN replies' : \E i \in DOMAIN replies'[k].rows :
              replies'[k].rows[i].id = l /\ Mark(replies[k].rows[i].bids)' = m
  <2>1. PICK k \in DOMAIN replies' : \E i \in DOMAIN replies'[k].rows :
              replies'[k].rows[i].id = l /\ Mark(replies[k].rows[i].bids)' = m
    BY <1>4
  <2>2. k + d \in DOMAIN replies /\ replies'[k] = replies[k + d]
    BY DEF Wired, Talks, RepliesMoved
  <2>3. MarkIn(replies[k + d].rows, l, m)
    BY <1>1, <2>1, <2>2 DEF MarkIn, Mark
  <2>4. QED
    BY <1>1, <2>2, <2>3 DEF Marked
<1>5. CASE \E i \in DOMAIN queue' : /\ queue'[i].call = "updateLoad" /\ queue'[i].row.id = l
                                    /\ Mark(queue[i].row.bids)' = m
  <2>1. PICK i \in DOMAIN queue' : /\ queue'[i].call = "updateLoad" /\ queue'[i].row.id = l
                                   /\ Mark(queue[i].row.bids)' = m
    BY <1>5
  <2>2. Mark(queue'[i].row.bids) = m
    BY <1>1, <2>1 DEF Mark
  <2>3. CASE i \in DOMAIN queue /\ queue'[i] = queue[i]
    BY <1>1, <2>1, <2>2, <2>3 DEF Marked, MarkWritten
  <2>4. CASE NewRow(queue'[i])
    BY <1>1, <2>1, <2>2, <2>4 DEF NewRow
  <2>5. QED
    BY <2>3, <2>4 DEF Wired, Talks
<1>6. QED
  BY <1>2, <1>3, <1>4, <1>5 DEF Marked, MarkOnBoard, MarkIn, MarkWritten, BoardMark

LEMMA MarksKept ==
    ASSUME HeldConfirm, NEW d \in {0, 1}, Wired(d), SessionGoes
    PROVE  SessionMarks'
<1> SUFFICES ASSUME CarrierSession'
             PROVE  /\ \A l \in Loads : ~(Marked(l, "accepted")' /\ Marked(l, "open")')
                    /\ \A o \in OpIds : Judges(o)' => ~Marked(ops[o].load, "accepted")'
                    /\ \A o \in OpIds : Answering(o)' =>
                          ops'[o].who = user' /\ ~Marked(ops[o].load, "open")'
  BY DEF SessionMarks
<1>1. CarrierSession /\ user' = user
  BY DEF SessionGoes, CarrierSession
<1>2. /\ \A l \in Loads : ~(Marked(l, "accepted") /\ Marked(l, "open"))
      /\ \A o \in OpIds : Judges(o) => ~Marked(ops[o].load, "accepted")
      /\ \A o \in OpIds : Answering(o) =>
            ops[o].who = user /\ ~Marked(ops[o].load, "open")
  BY <1>1 DEF HeldConfirm, ConfirmInv, SessionMarks
<1>3. \A l, m : Marked(l, m)' => Marked(l, m)
  BY MarkedBefore
<1>4. ASSUME NEW o \in OpIds
      PROVE  /\ ops'[o].load \in Loads /\ OpGoes(o, d)
             /\ Judges(o) \/ Answering(o) => SameOp(o)
             /\ \A m : Marked(ops[o].load, m)' => Marked(ops'[o].load, m)
  <2>1. ops'[o].load \in Loads
    BY DEF HeldConfirm, HeldChoice, Held, IInv, GoodOps, Op
  <2>2. OpGoes(o, d)
    BY DEF Wired, Talks
  <2>3. Judges(o) \/ Answering(o) => o <= started
    BY ConfirmHeld DEF Judges, Answering, AnswerKinds
  <2>4. PICK l : l = ops'[o].load
    OBVIOUS
  <2>5. \A m : Marked(ops[o].load, m)' => Marked(l, m)'
    BY <2>4 DEF Marked, MarkOnBoard, MarkIn, MarkWritten
  <2>6. QED
    BY <1>3, <2>1, <2>2, <2>3, <2>4, <2>5 DEF OpGoes
<1>5. ASSUME NEW o \in OpIds, Judges(o)' PROVE ~Marked(ops[o].load, "accepted")'
  <2>1. VerdictGoes(o, d)
    BY <1>4, <1>5 DEF OpGoes
  <2>2. CASE Judges(o)
    BY <1>2, <1>4, <2>2 DEF SameOp
  <2>3. CASE ~Judges(o)
    <3>1. Marked(ops'[o].load, "open")
      BY <1>1, <2>1, <2>3 DEF VerdictGoes
    <3>2. QED
      BY <1>2, <1>4, <3>1
  <2>4. QED
    BY <2>2, <2>3
<1>6. ASSUME NEW o \in OpIds, Answering(o)'
      PROVE  ops'[o].who = user' /\ ~Marked(ops[o].load, "open")'
  <2>1. CASE Answering(o)
    BY <1>1, <1>2, <1>4, <2>1 DEF SameOp
  <2>2. CASE ops'[o].who = user /\ ~Marked(ops'[o].load, "open")
    BY <1>1, <1>4, <2>2
  <2>3. QED
    BY <1>4, <1>6, <2>1, <2>2 DEF OpGoes
<1>7. QED
  BY <1>2, <1>3, <1>5, <1>6

LEMMA ClosedStays ==
    ASSUME HeldConfirm, NEW d \in {0, 1}, Wired(d), SessionGoes,
           NEW l, NEW c, Closed(l, c)
    PROVE  Closed(l, c)'
<1>1. ASSUME NEW r \in OpIds, ops'[r].kind = "respond", ops'[r].step = "writeBids"
      PROVE  ops'[r].load # l
  <2>1. OpGoes(r, d)
    BY DEF Wired, Talks
  <2>2. VerdictGoes(r, d)
    BY <1>1, <2>1 DEF OpGoes, Judges
  <2>3. CASE Judges(r) /\ ops[r].step = "writeBids"
    <3>1. r <= started
      BY <2>3, ConfirmHeld DEF Judges
    <3>2. SameOp(r)
      BY <2>1, <3>1 DEF OpGoes
    <3>3. QED
      BY <2>3, <3>2 DEF Judges, SameOp, Closed
  <2>4. CASE InSession /\ (CarrierSession => Marked(ops'[r].load, "open"))
    BY <2>4 DEF Closed, CarrierSession
  <2>5. QED
    BY <1>1, <2>2, <2>3, <2>4 DEF VerdictGoes
<1>2. ASSUME InSession' PROVE user' \in Carriers /\ user' = c /\ ~Marked(l, "open")'
  <2>1. user' = user /\ user \in Carriers /\ user = c /\ ~Marked(l, "open")
    BY <1>2 DEF SessionGoes, Closed
  <2>2. CarrierSession'
    BY <1>2, <2>1 DEF CarrierSession
  <2>3. Marked(l, "open")' => Marked(l, "open")
    BY <2>2, MarkedBefore
  <2>4. QED
    BY <2>1, <2>3
<1>3. QED
  BY <1>1, <1>2 DEF Closed

LEMMA UnchallengedBefore ==
    ASSUME HeldConfirm, NEW d \in {0, 1}, Wired(d),
           NEW o \in OpIds, o <= started, Unchallenged(o)'
    PROVE  Unchallenged(o)
<1>1. SameOp(o)
  BY DEF Wired, Talks, OpGoes
<1>2. ASSUME NEW p \in OpIds, Supersedes(p, o) PROVE FALSE
  <2>1. ops[p].kind # "none"
    BY <1>2 DEF Supersedes
  <2>2. p <= started
    BY <2>1, ConfirmHeld
  <2>3. SameOp(p)
    BY <2>2 DEF Wired, Talks, OpGoes
  <2>4. Supersedes(p, o)'
    BY <1>1, <1>2, <2>3 DEF Supersedes, SameOp
  <2>5. QED
    BY <2>4 DEF Unchallenged
<1>3. \A i \in DOMAIN Seeds : Seeds[i] # ops[o].load
  BY <1>1 DEF Unchallenged, SameOp
<1>4. QED
  BY <1>2, <1>3 DEF Unchallenged

(* A place that was there before the step. *)
LEMMA PlaceBefore ==
    ASSUME HeldConfirm, NEW d \in {0, 1}, Wired(d),
           NEW o \in OpIds, NEW n \in Nat, Place(o, n)',
           ~(NewPlace(n, d) /\ NewTalk(Pipe'[n], d) /\ n # 0)
    PROVE  /\ o <= started /\ SameOp(o)
           /\ \E m \in Nat : Place(o, m) /\ n <= m /\ m <= n + d /\ (m = 0 => n = 0)
<1>1. CASE n = 0 /\ ops'[o].step = "done"
  <2>1. OpGoes(o, d)
    BY DEF Wired, Talks
  <2>2. /\ ops'[o].kind = "confirm" /\ o <= started
        /\ ops[o].step = "done" \/ (Replied(o, d) /\ replies[1].ok)
    BY <1>1, <2>1 DEF Place, OpGoes
  <2>3. SameOp(o)
    BY <2>1, <2>2 DEF OpGoes
  <2>4. CASE ops[o].step = "done"
    <3>1. Place(o, 0)
      BY <2>2, <2>3, <2>4 DEF Place, SameOp
    <3>2. QED
      BY <1>1, <2>2, <2>3, <3>1
  <2>5. CASE Replied(o, d) /\ replies[1].ok
    <3>1. d = 1 /\ replies[1].owner = o
      BY <2>5 DEF Replied
    <3>2. RepliesMoved(1)
      BY <3>1 DEF Wired, Talks
    <3>3. 1 \in DOMAIN Pipe /\ Pipe[1].owner = o
      BY <3>1, <3>2, ConfirmHeld, TakenKnown
    <3>4. WaitsFor(ops[o], Pipe[1].call)
      BY <3>3 DEF HeldConfirm, ConfirmInv, AwaitedCalls
    <3>5. ops[o].kind = "confirm"
      BY <2>2, <2>3 DEF SameOp
    <3>6. Pipe[1].call = "updateLoad"
      BY <3>4, <3>5 DEF WaitsFor
    <3>7. Place(o, 1)
      BY <2>5, <3>3, <3>5, <3>6 DEF Place
    <3>8. QED
      BY <1>1, <2>2, <2>3, <3>1, <3>7
  <2>6. QED
    BY <2>2, <2>4, <2>5
<1>2. CASE /\ n \in DOMAIN Pipe' /\ Pipe'[n].call = "updateLoad" /\ Pipe'[n].owner = o
           /\ n \in DOMAIN replies' => replies'[n].ok
  <2>1. n # 0
    BY <1>2, ConfirmHeld DEF PipeFacts, PipeSizes
  <2>2. Moved(n, d)
    BY <1>2, <2>1 DEF Wired, Talks
  <2>3. PICK m : m = n + d
    OBVIOUS
  <2>4. /\ m \in DOMAIN Pipe /\ Pipe'[n] = Pipe[m] /\ o <= started /\ SameOp(o)
    BY <1>2, <2>2, <2>3, OldCall
  <2>5. ASSUME m \in DOMAIN replies PROVE replies[m].ok
    <3>1. Len(replies') = Len(replies) - d /\ m <= Len(replies) /\ n >= 1
      BY <2>1, <2>5, ConfirmHeld DEF Wired, Talks, RepliesMoved, PipeFacts, PipeSizes
    <3>2. n <= Len(replies')
      BY <2>3, <3>1, ConfirmHeld
    <3>3. DOMAIN replies' = 1..Len(replies')
      BY ConfirmHeld DEF PipeFacts, PipeSizes
    <3>4. n \in DOMAIN replies'
      BY <3>1, <3>2, <3>3, ConfirmHeld
    <3>5. replies'[n] = replies[m]
      BY <2>3, <3>4 DEF Wired, Talks, RepliesMoved
    <3>6. QED
      BY <1>2, <3>4, <3>5
  <2>6. ops[o].kind = "confirm"
    BY <2>4 DEF Place, SameOp
  <2>7. Place(o, m)
    BY <1>2, <2>4, <2>5, <2>6 DEF Place
  <2>8. m \in Nat /\ n <= m /\ m <= n + d /\ m # 0
    BY <2>1, <2>3
  <2>9. QED
    BY <2>4, <2>7, <2>8
<1>3. QED
  BY <1>1, <1>2 DEF Place

LEMMA KeptStep ==
    ASSUME HeldConfirm, NEW d \in {0, 1}, Wired(d), SessionGoes
    PROVE  Kept'
<1> SUFFICES ASSUME NEW o \in OpIds, NEW n \in Nat, Place(o, n)', Unchallenged(o)'
             PROVE  /\ Behind(n, ops[o].load, ops[o].who)'
                    /\ \/ n = 0 /\ AllConfirm(mem, ops[o].load, ops[o].who)'
                       \/ Closed(ops[o].load, ops[o].who)'
  BY DEF Kept
<1>0. PICK l, c : l = ops'[o].load /\ c = ops'[o].who
  OBVIOUS
<1>1. /\ Len(replies') = Len(replies) - d /\ UNCHANGED db
      /\ DOMAIN replies' = 1..Len(replies') /\ DOMAIN queue' = 1..Len(queue')
      /\ DOMAIN replies = 1..Len(replies) /\ DOMAIN queue = 1..Len(queue)
      /\ Len(replies) \in Nat /\ Len(queue) \in Nat /\ Len(replies') \in Nat
  BY ConfirmHeld DEF Wired, Talks, RepliesMoved, PipeFacts, PipeSizes
<1>2. /\ \A i \in DOMAIN queue' :
          \/ i \in DOMAIN queue /\ queue'[i] = queue[i]
          \/ i = Len(queue) + 1 /\ NewRow(queue'[i])
      /\ \A k \in DOMAIN replies' : k + d \in DOMAIN replies /\ replies'[k] = replies[k + d]
  BY DEF Wired, Talks, RepliesMoved
<1>3. CASE NewPlace(n, d) /\ NewTalk(Pipe'[n], d) /\ n # 0
  <2>1. Pipe'[n].call = "updateLoad" /\ Pipe'[n].owner = o /\ ops'[o].kind = "confirm"
    BY <1>3 DEF Place
  <2>2. Closed(l, c)
    BY <1>0, <1>3, <2>1 DEF NewTalk
  <2>3. Closed(l, c)'
    BY <2>2, ClosedStays
  <2>4. n = Len(replies') + Len(queue) + 1
    BY <1>1, <1>3 DEF NewPlace
  <2>5. /\ ~(n <= Len(replies'))
        /\ \A k \in DOMAIN replies' : ~(k > n)
        /\ \A i \in DOMAIN queue' : ~(Len(replies') + i > n)
    BY <1>1, <1>2, <2>4
  <2>6. Behind(n, l, c)'
    BY <2>5 DEF Behind
  <2>7. QED
    BY <1>0, <2>3, <2>6 DEF Behind, Closed, AllConfirm, Confirms, Marked, MarkOnBoard,
                            MarkIn, MarkWritten
<1>4. CASE ~(NewPlace(n, d) /\ NewTalk(Pipe'[n], d) /\ n # 0)
  <2>1. o <= started /\ SameOp(o)
    BY <1>4, PlaceBefore
  <2>2. PICK m \in Nat : Place(o, m) /\ n <= m /\ m <= n + d /\ (m = 0 => n = 0)
    BY <1>4, PlaceBefore
  <2>3. Unchallenged(o)
    BY <2>1, UnchallengedBefore
  <2>4. l = ops[o].load /\ c = ops[o].who /\ ops[o].kind = "confirm"
    BY <1>0, <2>1, <2>2 DEF SameOp, Place
  <2>5. /\ Behind(m, l, c)
        /\ (m = 0 /\ AllConfirm(mem, l, c)) \/ Closed(l, c)
    BY <2>2, <2>3, <2>4 DEF HeldConfirm, ConfirmInv, Kept
  <2>6. ASSUME n <= Len(replies') PROVE AllConfirm(db', l, c)
    <3>1. m <= Len(replies)
      BY <1>1, <2>2, <2>6
    <3>2. QED
      BY <1>1, <2>5, <3>1 DEF Behind
  <2>7. ASSUME NEW k \in DOMAIN replies', k > n PROVE AllConfirm(replies'[k].rows, l, c)
    <3>1. k \in Nat
      BY <1>1
    <3>2. k + d > m
      BY <2>2, <2>7, <3>1
    <3>3. k + d \in DOMAIN replies /\ replies'[k] = replies[k + d]
      BY <1>2
    <3>4. QED
      BY <2>5, <3>2, <3>3 DEF Behind
  <2>8. ASSUME NEW i \in DOMAIN queue', queue'[i].call = "updateLoad", Len(replies') + i > n
        PROVE  Confirms(queue'[i].row, l, c)
    <3>1. CASE i \in DOMAIN queue /\ queue'[i] = queue[i]
      <4>1. i \in Nat
        BY <1>1
      <4>2. Len(replies) + i > m
        BY <1>1, <2>2, <2>8, <4>1
      <4>3. QED
        BY <2>5, <2>8, <3>1, <4>2 DEF Behind
    <3>2. CASE NewRow(queue'[i])
      <4>1. RowKeeps(queue'[i].row)
        BY <2>8, <3>2 DEF NewRow
      <4>2. AllConfirm(mem, ops[o].load, ops[o].who) \/ Closed(ops[o].load, ops[o].who)
        BY <2>4, <2>5
      <4>3. Confirms(queue'[i].row, ops[o].load, ops[o].who)
        BY <2>1, <2>4, <4>1, <4>2 DEF RowKeeps
      <4>4. QED
        BY <2>4, <4>3
    <3>3. QED
      BY <1>2, <3>1, <3>2
  <2>9. Behind(n, l, c)'
    BY <2>6, <2>7, <2>8 DEF Behind, AllConfirm, Confirms
  <2>10. (n = 0 /\ AllConfirm(mem', l, c)) \/ Closed(l, c)'
    <3>1. CASE Closed(l, c)
      BY <3>1, ClosedStays
    <3>2. CASE m = 0 /\ AllConfirm(mem, l, c)
      <4>1. Place(o, 0) /\ n = 0
        BY <2>2, <3>2
      <4>2. AllConfirm(mem', ops[o].load, ops[o].who)
        BY <2>1, <2>3, <2>4, <3>2, <4>1 DEF SessionGoes, BoardConfirms
      <4>3. QED
        BY <2>4, <4>1, <4>2
    <3>3. QED
      BY <2>5, <3>1, <3>2
  <2>11. QED
    BY <1>0, <2>9, <2>10 DEF Behind, Closed, AllConfirm, Confirms, Marked, MarkOnBoard,
                             MarkIn, MarkWritten
<1>5. QED
  BY <1>3, <1>4

LEMMA WiredKeeps ==
    ASSUME HeldConfirm, NEW d \in {0, 1}, Wired(d), SessionGoes, TasksOpen'
    PROVE  ConfirmInv'
<1>1. AwaitedCalls' /\ RowsOwned' /\ NegotiationOps'
  BY AwaitedKept, OpsKeptNegotiating
<1>2. ListsInPlace' /\ FetchedNow' /\ SessionMarks' /\ ConfirmRows'
  BY PlacesKept, FetchedKept, MarksKept, ConfirmRowsKept
<1>3. Kept'
  BY KeptStep
<1>4. QED
  BY <1>1, <1>2, <1>3 DEF ConfirmInv

-----------------------------------------------------------------------------
(* What a step does to the handlers, the calls and the board, in the forms *)
(* the actions take.  The call that was answered was its handler's.        *)
LEMMA AnsweredCall ==
    ASSUME HeldConfirm, NEW call, Resumed(call)
    PROVE  /\ RepliesMoved(1) /\ Head(replies) = replies[1] /\ 1 \in DOMAIN replies
           /\ 1 \in DOMAIN Pipe /\ Pipe[1].owner = replies[1].owner /\ Pipe[1].call = call
           /\ replies[1].call = call /\ replies[1].owner \in OpIds
           /\ replies[1].owner <= started
           /\ WaitsFor(ops[replies[1].owner], call)
<1>1. /\ RepliesMoved(1) /\ Head(replies) = replies[1] /\ 1 \in DOMAIN replies
      /\ 1 \in DOMAIN Pipe /\ Pipe[1].owner = replies[1].owner /\ Pipe[1].call = call
      /\ replies[1].call = call /\ replies[1].owner \in OpIds
      /\ replies[1].owner <= started
  BY ReplyTaken, ConfirmHeld
<1>2. WaitsFor(ops[Pipe[1].owner], Pipe[1].call)
  BY <1>1 DEF HeldConfirm, ConfirmInv, AwaitedCalls
<1>3. QED
  BY <1>1, <1>2

LEMMA OpRests ==
    ASSUME HeldConfirm, NEW d \in {0, 1}, NEW o \in OpIds, ops'[o] = ops[o], ~Replied(o, d),
           ops[o].step = "dialog" => started' = started
    PROVE  OpGoes(o, d)
<1>1. /\ ops[o].kind \in NegotiationKinds \cup {"none"}
      /\ ops[o].step = "dialog" => o = started
  BY DEF HeldConfirm, ConfirmInv, NegotiationOps
<1>2. Judges(o)' => Judges(o)
  BY DEF Judges
<1>3. Judges(o)' => VerdictGoes(o, d)
  BY <1>2 DEF VerdictGoes
<1>4. Answering(o)' => Answering(o)
  BY DEF Answering
<1>5. ops[o].kind = "confirm" => o <= started
  BY ConfirmHeld
<1>6. SameOp(o)
  BY DEF SameOp
<1>7. QED
  BY <1>1, <1>3, <1>4, <1>5, <1>6 DEF OpGoes

(* The handler of the call that was answered goes on. *)
LEMMA AnsweredGoes ==
    ASSUME HeldConfirm, NEW o \in OpIds, Replied(o, 1), o <= started, UNCHANGED started,
           NEW s \in {"aborted", "done", "read", "writeLoad", "distances"},
           ops' = [ops EXCEPT ![o].step = s],
           s = "done" /\ ops[o].kind = "confirm" => replies[1].ok,
           s = "writeLoad" => /\ Judges(o)
                              /\ \E p \in DOMAIN Pipe' : Pipe'[p].owner = o
    PROVE  /\ \A p \in OpIds : OpGoes(p, 1)
           /\ \A p \in OpIds : p # o => ops'[p] = ops[p]
           /\ SameOp(o) /\ ops'[o].step = s
<1>1. /\ \A p \in OpIds : p # o => ops'[p] = ops[p]
      /\ SameOp(o) /\ ops'[o].step = s
  BY DEF HeldConfirm, HeldChoice, Held, IInv, GoodOps, Op, SameOp
<1>2. ASSUME NEW p \in OpIds, p # o PROVE OpGoes(p, 1)
  <2>1. ops'[p] = ops[p] /\ ~Replied(p, 1)
    BY <1>1, <1>2 DEF Replied
  <2>2. QED
    BY <2>1, OpRests
<1>3. OpGoes(o, 1)
  <2>1. ops[o].kind \in NegotiationKinds \cup {"none"}
    BY DEF HeldConfirm, ConfirmInv, NegotiationOps
  <2>2. ops'[o].kind = ops[o].kind /\ s \notin {"dialog", "writeBids"}
    BY <1>1 DEF SameOp
  <2>3. ASSUME Judges(o)' PROVE VerdictGoes(o, 1)
    <3>1. s = "writeLoad"
      BY <1>1, <2>2, <2>3 DEF Judges
    <3>2. QED
      BY <1>1, <3>1 DEF VerdictGoes
  <2>4. ~Answering(o)'
    <3>1. CASE s = "writeLoad"
      BY <2>2, <3>1 DEF Judges, Answering, AnswerKinds
    <3>2. CASE s # "writeLoad"
      BY <1>1, <2>2, <3>2 DEF Answering
    <3>3. QED
      BY <3>1, <3>2
  <2>5. QED
    BY <1>1, <2>1, <2>2, <2>3, <2>4 DEF OpGoes
<1>4. QED
  BY <1>1, <1>2, <1>3

(* A handler starts. *)
LEMMA HandlerBegins ==
    ASSUME HeldConfirm, NEW kind, CanStart(kind), NEW op, StartOp(op),
           op.kind \in NegotiationKinds, op.step # "done",
           \A o \in OpIds : ops[o].step # "dialog",
           op.kind = "respond" =>
               /\ InSession /\ (CarrierSession => Marked(op.load, "open"))
               /\ op.index \in DOMAIN db /\ db[op.index].id = op.load
               /\ \E p \in DOMAIN Pipe' : Pipe'[p].owner = started + 1,
           op.kind \in AnswerKinds => op.who = user /\ ~Marked(op.load, "open")
    PROVE  /\ started + 1 \in OpIds /\ ops'[started + 1] = op
           /\ \A o \in OpIds : o # started + 1 => ops'[o] = ops[o]
           /\ \A o \in OpIds : OpGoes(o, 0)
<1>1. /\ started + 1 \in OpIds /\ started \in Nat /\ started' = started + 1
      /\ ops'[started + 1] = op
      /\ \A o \in OpIds : o # started + 1 => ops'[o] = ops[o]
  BY OpIsNew, ConfirmHeld DEF HeldChoice, Held
<1>2. PICK n \in OpIds : n = started + 1
  BY <1>1
<1>3. ~(n <= started) /\ n > started /\ n = started'
  BY <1>1, <1>2
<1>4. ASSUME NEW o \in OpIds, o # n PROVE OpGoes(o, 0)
  <2>1. ~Replied(o, 0) /\ ops'[o] = ops[o]
    BY <1>1, <1>2, <1>4 DEF Replied
  <2>2. QED
    BY <2>1, OpRests
<1>5. OpGoes(n, 0)
  <2>1. ops'[n] = op
    BY <1>1, <1>2
  <2>2. ASSUME Judges(n)' PROVE VerdictGoes(n, 0)
    <3>1. op.kind = "respond"
      BY <2>1, <2>2 DEF Judges
    <3>2. QED
      BY <1>2, <1>3, <2>1, <3>1 DEF VerdictGoes
  <2>3. ASSUME Answering(n)' PROVE ops'[n].who = user /\ ~Marked(ops'[n].load, "open")
    BY <2>1, <2>3 DEF Answering
  <2>4. QED
    BY <1>3, <2>1, <2>2, <2>3 DEF OpGoes
<1>6. QED
  BY <1>1, <1>2, <1>4, <1>5

(* The calls: none, one that writes no load, any. *)
LEMMA NothingTalked ==
    ASSUME HeldConfirm, NEW d \in {0, 1}, RepliesMoved(d), UNCHANGED queue
    PROVE  Talks(d)
<1>1. \A p \in DOMAIN Pipe' : Moved(p, d)
  BY PipeKept, ConfirmHeld
<1>2. Len(queue') >= Len(queue)
  BY ConfirmHeld
<1>3. QED
  BY <1>1, <1>2 DEF Talks

LEMMA CallAppended ==
    ASSUME HeldConfirm, NEW o, NEW call, NEW row, Call(o, call, row)
    PROVE  /\ Len(queue') = Len(queue) + 1
           /\ \A i \in DOMAIN queue' :
                 \/ i \in DOMAIN queue /\ queue'[i] = queue[i]
                 \/ i = Len(queue) + 1 /\ queue'[i] = [call |-> call, owner |-> o, row |-> row]
<1> DEFINE q == [call |-> call, owner |-> o, row |-> row]
           S == GoodRequest \cup {q}
<1>1. queue \in Seq(S)
  BY ConfirmHeld, SeqMonotonic DEF HeldChoice, Held, GoodQueue
<1>2. q \in S
  OBVIOUS
<1>3. Len(queue) \in Nat /\ DOMAIN queue = 1..Len(queue)
  BY <1>1, LenProperties
<1>4. queue' = Append(queue, q)
  BY DEF Call
<1> HIDE DEF q
<1>5. /\ Len(queue') = Len(queue) + 1 /\ DOMAIN queue' = 1..(Len(queue) + 1)
      /\ \A i \in DOMAIN queue : queue'[i] = queue[i]
      /\ queue'[Len(queue) + 1] = q
  BY <1>1, <1>2, <1>3, <1>4, AppendProperties, LenProperties
<1>6. \A i \in DOMAIN queue' :
          \/ i \in DOMAIN queue /\ queue'[i] = queue[i]
          \/ i = Len(queue) + 1 /\ queue'[i] = q
  BY <1>3, <1>5
<1>7. QED
  BY <1>5, <1>6 DEF q

LEMMA CallTalked ==
    ASSUME HeldConfirm, NEW d \in {0, 1}, RepliesMoved(d),
           NEW o, NEW call, NEW row, Call(o, call, row),
           NewTalk([call |-> call, owner |-> o, load |-> row.id], d),
           NewRow([call |-> call, owner |-> o, row |-> row])
    PROVE  Talks(d) /\ \E p \in DOMAIN Pipe' : Pipe'[p].owner = o
<1> DEFINE q == [call |-> call, owner |-> o, row |-> row]
           c == [call |-> call, owner |-> o, load |-> row.id]
<1>1. \A p \in DOMAIN Pipe' : Moved(p, d) \/ (NewPlace(p, d) /\ Pipe'[p] = c)
  BY PipeCalled, ConfirmHeld DEF NewPlace, HeldChoice, Held
<1>2. /\ Len(queue') = Len(queue) + 1
      /\ \A i \in DOMAIN queue' :
            \/ i \in DOMAIN queue /\ queue'[i] = queue[i]
            \/ i = Len(queue) + 1 /\ queue'[i] = q
  BY CallAppended
<1>3. NewTalk(c, d) /\ NewRow(q)
  OBVIOUS
<1>4. Len(queue') >= Len(queue)
  BY <1>2, ConfirmHeld
<1>5. \E p \in DOMAIN Pipe' : Pipe'[p].owner = o
  BY CallArrives, ConfirmHeld
<1> HIDE DEF c, q
<1>6. QED
  BY <1>1, <1>2, <1>3, <1>4, <1>5 DEF Talks

LEMMA PlainTalked ==
    ASSUME HeldConfirm, NEW d \in {0, 1}, RepliesMoved(d), NEW o,
           NEW call \in {"getUser", "getLoads", "updateLoadBids"}, NEW row, Call(o, call, row),
           WaitsFor(ops'[o], call), o > started \/ Replied(o, d),
           call = "updateLoadBids" => row.id = ops'[o].load
    PROVE  Talks(d) /\ \E p \in DOMAIN Pipe' : Pipe'[p].owner = o
<1> DEFINE q == [call |-> call, owner |-> o, row |-> row]
           c == [call |-> call, owner |-> o, load |-> row.id]
<1>1. q.call = call /\ c.call = call /\ c.owner = o /\ c.load = row.id
  OBVIOUS
<1> HIDE DEF c, q
<1>2. NewTalk(c, d)
  BY <1>1 DEF NewTalk
<1>3. NewRow(q)
  BY <1>1 DEF NewRow
<1>4. QED
  BY <1>2, <1>3, CallTalked DEF c, q

(* The board: it rests, or nobody is in a session afterwards. *)
LEMMA BoardResting ==
    ASSUME HeldConfirm, UNCHANGED <<mem, lists>>, InSession' => InSession /\ user' = user
    PROVE  SessionGoes /\ InPlace(mem')
<1>1. BoardConfirms
  BY DEF BoardConfirms
<1>2. ASSUME CarrierSession' PROVE BoardMarks
  <2>1. user' = user
    BY <1>2 DEF CarrierSession
  <2>2. ASSUME NEW i \in DOMAIN mem' PROVE Marked(mem'[i].id, BoardMark(i)')
    <3>1. PICK l, m : l = mem[i].id /\ m = BoardMark(i)
      OBVIOUS
    <3>2. BoardMark(i)' = m /\ mem'[i].id = l
      BY <2>1, <3>1 DEF BoardMark, Mark, ToRow
    <3>3. Marked(l, m)
      BY <2>2, <3>1 DEF Marked, MarkOnBoard, BoardMark
    <3>4. QED
      BY <3>2, <3>3
  <2>3. QED
    BY <2>2 DEF BoardMarks
<1>3. InPlace(mem)
  BY DEF HeldConfirm, ConfirmInv, ListsInPlace
<1>4. InPlace(mem')
  <2>1. QED
    BY <1>3 DEF InPlace
<1>5. QED
  BY <1>1, <1>2, <1>4 DEF SessionGoes

LEMMA SessionStays ==
    ASSUME UNCHANGED user, \A o \in OpIds : Asks(o) \/ Fetches(o) => ops'[o] = ops[o]
    PROVE  InSession' => InSession /\ user' = user
BY DEF InSession, Asks, Fetches

(* The lookups. *)
LEMMA LookupsRest ==
    ASSUME HeldConfirm, UNCHANGED tasks,
           \A o \in OpIds : ops[o].step = "distances" => ops'[o] = ops[o]
    PROVE  TasksOpen'
BY DEF TasksOpen, HeldConfirm, ConfirmInv

-----------------------------------------------------------------------------
(* One lemma per action. *)
LEMMA OldLookups ==
    ASSUME HeldConfirm, NEW n, ops[n].kind = "none", n \in OpIds,
           \A o \in OpIds : o # n => ops'[o] = ops[o]
    PROVE  /\ \A o \in OpIds : ops[o].step = "distances" => ops'[o] = ops[o]
           /\ \A o \in OpIds : Asks(o) \/ Fetches(o) => ops'[o] = ops[o]
<1>1. ops[n].step = "idle"
  BY DEF HeldConfirm, HeldChoice, Held, ListInv, OpsShaped, OpShaped
<1>2. QED
  BY <1>1 DEF Asks, Fetches

LEMMA NoDialogAtBoard ==
    ASSUME HeldConfirm, AtBoard
    PROVE  /\ \A o \in OpIds : ops[o].step # "dialog"
           /\ InSession
<1>1. \A o \in OpIds : ops[o].step # "dialog"
  BY DEF AtBoard, InFlight
<1>2. QED
  BY <1>1, BoardIsInSession

LEMMA LoginConfirm ==
    ASSUME HeldConfirm, NEW u, Login(u)
    PROVE  ConfirmInv'
<1> DEFINE op == Handler("login", "getUser", NoOp.load, u)
<1>1. op.kind = "login" /\ op.step = "getUser"
  BY HandlerShape
<1> HIDE DEF op
<1>2. /\ user = NoOne /\ CanStart("login") /\ StartOp(op)
      /\ Call(started + 1, "getUser", AnyRow)
      /\ UNCHANGED <<mem, lists, tasks, user, db, replies>>
  BY DEF Login, op, memory, outside
<1>3. \A o \in OpIds : ops[o].step # "dialog"
  BY <1>2 DEF HeldConfirm, HeldChoice, NoOldCopies, ChoiceInv, AnswersWait, CarrierSession
<1>4. PICK n : n = started + 1
  OBVIOUS
<1>5. op.kind # "respond" /\ op.kind \notin AnswerKinds /\ op.kind \in NegotiationKinds
      /\ op.step # "done"
  BY <1>1 DEF AnswerKinds, NegotiationKinds
<1>6. /\ n \in OpIds /\ ops'[n] = op
      /\ \A o \in OpIds : o # n => ops'[o] = ops[o]
      /\ \A o \in OpIds : OpGoes(o, 0)
  BY <1>2, <1>3, <1>4, <1>5, HandlerBegins
<1>7. n > started
  BY <1>4, ConfirmHeld
<1>8. RepliesMoved(0)
  BY <1>2, RepliesStay, ConfirmHeld DEF HeldChoice, Held
<1>9. Talks(0)
  <2>1. WaitsFor(ops'[n], "getUser")
    BY <1>1, <1>6 DEF WaitsFor
  <2>2. QED
    BY <1>2, <1>4, <1>7, <1>8, <2>1, PlainTalked
<1>10. ~InSession'
  BY <1>1, <1>6 DEF InSession, Asks
<1>11. SessionGoes /\ InPlace(mem')
  BY <1>2, <1>10, BoardResting
<1>12. Wired(0)
  BY <1>2, <1>6, <1>8, <1>9, <1>11 DEF Wired
<1>13. TasksOpen'
  <2>1. ops[n].kind = "none"
    BY <1>6, <1>7, ConfirmHeld
  <2>2. QED
    BY <1>2, <1>6, <2>1, OldLookups, LookupsRest
<1>14. QED
  BY <1>11, <1>12, <1>13, WiredKeeps

LEMMA LoginAnsweredConfirm ==
    ASSUME HeldConfirm, LoginAnswered
    PROVE  ConfirmInv'
<1>0. PICK o : o = replies[1].owner
  OBVIOUS
<1>1. /\ Resumed("getUser")
      /\ UNCHANGED <<mem, lists, tasks, started, db>>
  BY DEF LoginAnswered, memory, outside
<1>2. /\ RepliesMoved(1) /\ Head(replies) = replies[1]
      /\ o \in OpIds /\ o <= started /\ WaitsFor(ops[o], "getUser")
  BY <1>0, <1>1, AnsweredCall
<1>3. ops[o].kind = "login" /\ ops[o].step = "getUser" /\ Replied(o, 1)
  BY <1>0, <1>2 DEF WaitsFor, Replied
<1>4. \/ /\ ops' = [ops EXCEPT ![o].step = "read"] /\ Call(o, "getLoads", AnyRow)
      \/ /\ ops' = [ops EXCEPT ![o].step = "aborted"] /\ UNCHANGED <<user, queue>>
  BY <1>0, <1>2 DEF LoginAnswered, FetchLoads
<1>5. PICK s \in {"aborted", "read"} :
         /\ ops' = [ops EXCEPT ![o].step = s]
         /\ \/ s = "read" /\ Call(o, "getLoads", AnyRow)
            \/ s = "aborted" /\ UNCHANGED <<user, queue>>
  BY <1>4
<1>6. /\ \A p \in OpIds : OpGoes(p, 1)
      /\ \A p \in OpIds : p # o => ops'[p] = ops[p]
      /\ SameOp(o) /\ ops'[o].step = s
  BY <1>1, <1>2, <1>3, <1>5, AnsweredGoes
<1>7. ~InSession'
  <2>1. CASE s = "read"
    BY <1>2, <1>3, <1>6, <2>1 DEF InSession, Fetches, SameOp
  <2>2. CASE s = "aborted"
    <3>1. user = NoOne
      BY <1>2, <1>3 DEF HeldConfirm, HeldChoice, ChoiceInv, AsksAlone, Asks
    <3>2. QED
      BY <1>5, <2>2, <3>1 DEF InSession
  <2>3. QED
    BY <2>1, <2>2
<1>8. SessionGoes /\ InPlace(mem')
  BY <1>1, <1>7, BoardResting
<1>9. Talks(1)
  <2>1. CASE s = "read"
    <3>1. WaitsFor(ops'[o], "getLoads")
      BY <1>3, <1>6, <2>1 DEF WaitsFor, SameOp
    <3>2. QED
      BY <1>2, <1>3, <1>5, <2>1, <3>1, PlainTalked
  <2>2. CASE s = "aborted"
    BY <1>2, <1>5, <2>2, NothingTalked
  <2>3. QED
    BY <2>1, <2>2
<1>10. Wired(1)
  BY <1>1, <1>2, <1>6, <1>8, <1>9 DEF Wired
<1>11. TasksOpen'
  BY <1>1, <1>3, <1>6, LookupsRest
<1>12. QED
  BY <1>8, <1>10, <1>11, WiredKeeps

LEMMA LogoutConfirm ==
    ASSUME HeldConfirm,
           UNCHANGED <<mem, lists, tasks, ops, started, db, queue, replies>>,
           user' = user \/ user' = NoOne
    PROVE  ConfirmInv'
<1>1. InSession' => InSession /\ user' = user
  BY DEF InSession, Asks, Fetches
<1>2. RepliesMoved(0) /\ Talks(0)
  BY RepliesStay, NothingTalked, ConfirmHeld DEF HeldChoice, Held
<1>3. SessionGoes /\ InPlace(mem')
  BY <1>1, BoardResting
<1>4. \A o \in OpIds : OpGoes(o, 0)
  BY OpRests DEF Replied
<1>5. TasksOpen'
  BY LookupsRest
<1>6. Wired(0)
  BY <1>2, <1>3, <1>4 DEF Wired
<1>7. QED
  BY <1>3, <1>5, <1>6, WiredKeeps

LEMMA RefreshConfirm ==
    ASSUME HeldConfirm, Refresh
    PROVE  ConfirmInv'
<1> DEFINE op == Handler("refresh", "read", NoOp.load, user)
<1>1. op.kind = "refresh" /\ op.step = "read"
  BY HandlerShape
<1> HIDE DEF op
<1>2. /\ AtBoard /\ CanStart("refresh") /\ StartOp(op)
      /\ Call(started + 1, "getLoads", AnyRow)
      /\ UNCHANGED <<mem, lists, tasks, user, db, replies>>
  BY DEF Refresh, op, memory, outside, FetchLoads
<1>3. \A o \in OpIds : ops[o].step # "dialog"
  BY <1>2, NoDialogAtBoard
<1>4. PICK n : n = started + 1
  OBVIOUS
<1>5. op.kind # "respond" /\ op.kind \notin AnswerKinds /\ op.kind \in NegotiationKinds
      /\ op.step # "done"
  BY <1>1 DEF AnswerKinds, NegotiationKinds
<1>6. /\ n \in OpIds /\ ops'[n] = op
      /\ \A o \in OpIds : o # n => ops'[o] = ops[o]
      /\ \A o \in OpIds : OpGoes(o, 0)
  BY <1>2, <1>3, <1>4, <1>5, HandlerBegins
<1>7. n > started /\ ops[n].kind = "none"
  BY <1>4, <1>6, ConfirmHeld
<1>8. RepliesMoved(0)
  BY <1>2, RepliesStay, ConfirmHeld DEF HeldChoice, Held
<1>9. Talks(0)
  <2>1. WaitsFor(ops'[n], "getLoads")
    BY <1>1, <1>6 DEF WaitsFor
  <2>2. QED
    BY <1>2, <1>4, <1>7, <1>8, <2>1, PlainTalked
<1>10. SessionGoes /\ InPlace(mem') /\ TasksOpen'
  <2>1. /\ \A o \in OpIds : ops[o].step = "distances" => ops'[o] = ops[o]
        /\ \A o \in OpIds : Asks(o) \/ Fetches(o) => ops'[o] = ops[o]
    BY <1>6, <1>7, OldLookups
  <2>2. QED
    BY <1>2, <2>1, SessionStays, BoardResting, LookupsRest
<1>11. Wired(0)
  BY <1>2, <1>6, <1>8, <1>9, <1>10 DEF Wired
<1>12. QED
  BY <1>10, <1>11, WiredKeeps

LEMMA OpenDetailsConfirm ==
    ASSUME HeldConfirm, NEW l \in Loads, OpenDetails(l)
    PROVE  ConfirmInv'
<1> DEFINE op == Handler("details", "distances", l, user)
<1>1. op.kind = "details" /\ op.step = "distances"
  BY HandlerShape
<1> HIDE DEF op
<1>2. /\ AtBoard /\ CanStart("details") /\ StartOp(op)
      /\ \E t : tasks' = [tasks EXCEPT ![started + 1][l] = t]
      /\ UNCHANGED <<mem, lists, user, db, queue, replies>>
  BY DEF OpenDetails, op, outside
<1>3. \A o \in OpIds : ops[o].step # "dialog"
  BY <1>2, NoDialogAtBoard
<1>4. PICK n : n = started + 1
  OBVIOUS
<1>5. op.kind # "respond" /\ op.kind \notin AnswerKinds /\ op.kind \in NegotiationKinds
      /\ op.step # "done"
  BY <1>1 DEF AnswerKinds, NegotiationKinds
<1>6. /\ n \in OpIds /\ ops'[n] = op
      /\ \A o \in OpIds : o # n => ops'[o] = ops[o]
      /\ \A o \in OpIds : OpGoes(o, 0)
  BY <1>2, <1>3, <1>4, <1>5, HandlerBegins
<1>7. n > started /\ ops[n].kind = "none"
  BY <1>4, <1>6, ConfirmHeld
<1>8. RepliesMoved(0) /\ Talks(0)
  BY <1>2, RepliesStay, NothingTalked, ConfirmHeld DEF HeldChoice, Held
<1>9. /\ \A o \in OpIds : ops[o].step = "distances" => ops'[o] = ops[o]
      /\ \A o \in OpIds : Asks(o) \/ Fetches(o) => ops'[o] = ops[o]
  BY <1>6, <1>7, OldLookups
<1>10. SessionGoes /\ InPlace(mem')
  BY <1>2, <1>9, SessionStays, BoardResting
<1>11. TasksOpen'
  <2> SUFFICES ASSUME NEW o \in OpIds, NEW k \in Loads, tasks'[o][k].step # "none"
               PROVE  ops'[o].step = "distances"
    BY DEF TasksOpen
  <2>1. CASE o = n
    BY <1>1, <1>6, <2>1
  <2>2. CASE o # n
    <3>1. tasks'[o][k] = tasks[o][k]
      BY <1>2, <1>4, <2>2 DEF HeldConfirm, HeldChoice, Held, IInv, GoodTasks
    <3>2. ops[o].step = "distances"
      BY <3>1 DEF HeldConfirm, ConfirmInv, TasksOpen
    <3>3. QED
      BY <1>9, <3>2
  <2>3. QED
    BY <2>1, <2>2
<1>12. Wired(0)
  BY <1>2, <1>6, <1>8, <1>10 DEF Wired
<1>13. QED
  BY <1>10, <1>11, <1>12, WiredKeeps

(* A dialog closes or the last lookup of a fetch ends. *)
LEMMA HandlerEndsAlone ==
    ASSUME HeldConfirm, NEW o \in OpIds, ops[o].step \in {"dialog", "distances"},
           UNCHANGED started, NEW s \in {"aborted", "done"},
           ops' = [ops EXCEPT ![o].step = s], s = "done" => ops[o].kind # "confirm"
    PROVE  /\ \A p \in OpIds : OpGoes(p, 0)
           /\ \A p \in OpIds : p # o => ops'[p] = ops[p]
           /\ ops'[o].step = s
<1>1. /\ \A p \in OpIds : p # o => ops'[p] = ops[p]
      /\ SameOp(o) /\ ops'[o].step = s
  BY DEF HeldConfirm, HeldChoice, Held, IInv, GoodOps, Op, SameOp
<1>2. \A p \in OpIds : ~Replied(p, 0)
  BY DEF Replied
<1>3. \A p \in OpIds : p # o => OpGoes(p, 0)
  BY <1>1, <1>2, OpRests
<1>4. OpGoes(o, 0)
  <2>1. ops[o].kind \in NegotiationKinds \cup {"none"}
    BY DEF HeldConfirm, ConfirmInv, NegotiationOps
  <2>2. ops'[o].kind = ops[o].kind /\ s \notin {"dialog", "writeBids", "writeLoad"}
    BY <1>1 DEF SameOp
  <2>3. ~Judges(o)' /\ ~Answering(o)'
    BY <1>1, <2>2 DEF Judges, Answering
  <2>4. ~(ops'[o].kind = "confirm" /\ ops'[o].step = "done")
    BY <1>1, <2>2
  <2>5. QED
    BY <1>1, <2>1, <2>2, <2>3, <2>4 DEF OpGoes
<1>5. QED
  BY <1>1, <1>3, <1>4

LEMMA RouteMissingConfirm ==
    ASSUME HeldConfirm, NEW o \in OpIds, NEW l \in Loads, RouteMissing(o, l)
    PROVE  ConfirmInv'
<1>1. /\ tasks[o][l].step = "route" /\ EndTask(o, l)
      /\ UNCHANGED <<mem, lists, started, user, db, queue, replies>>
  BY DEF RouteMissing, outside
<1>2. ops[o].step = "distances"
  BY <1>1 DEF HeldConfirm, ConfirmInv, TasksOpen
<1>3. ops[o].kind # "confirm"
  BY <1>2 DEF HeldConfirm, HeldChoice, ChoiceInv, AnswersWait, AnswerKinds
<1>4. RepliesMoved(0) /\ Talks(0)
  BY <1>1, RepliesStay, NothingTalked, ConfirmHeld DEF HeldChoice, Held
<1>5. /\ tasks'[o][l].step = "none"
      /\ \A p \in OpIds, k \in Loads : p # o \/ k # l => tasks'[p][k] = tasks[p][k]
  BY <1>1 DEF EndTask, NoTask, HeldConfirm, HeldChoice, Held, IInv, GoodTasks
<1>6. ~Asks(o) /\ ~Fetches(o)
  BY <1>2 DEF Asks, Fetches
<1>7. /\ \A p \in OpIds : OpGoes(p, 0)
      /\ \A p \in OpIds : p # o => ops'[p] = ops[p]
      /\ TasksOpen'
  <2>1. CASE UNCHANGED ops
    <3>1. \A p \in OpIds : OpGoes(p, 0)
      BY <1>1, <2>1, OpRests DEF Replied
    <3>2. TasksOpen'
      <4> SUFFICES ASSUME NEW p \in OpIds, NEW k \in Loads, tasks'[p][k].step # "none"
                   PROVE  ops'[p].step = "distances"
        BY DEF TasksOpen
      <4>1. tasks[p][k].step # "none"
        BY <1>5, <1>1
      <4>2. QED
        BY <2>1, <4>1 DEF HeldConfirm, ConfirmInv, TasksOpen
    <3>3. QED
      BY <2>1, <3>1, <3>2
  <2>2. CASE /\ \A k \in Loads \ {l} : tasks[o][k].step = "none"
             /\ ops' = [ops EXCEPT ![o].step = "done"]
    <3>1. /\ \A p \in OpIds : OpGoes(p, 0)
          /\ \A p \in OpIds : p # o => ops'[p] = ops[p]
      BY <1>1, <1>2, <1>3, <2>2, HandlerEndsAlone
    <3>2. TasksOpen'
      <4> SUFFICES ASSUME NEW p \in OpIds, NEW k \in Loads, tasks'[p][k].step # "none"
                   PROVE  ops'[p].step = "distances"
        BY DEF TasksOpen
      <4>1. p # o
        <5>1. \A j \in Loads : tasks'[o][j].step = "none"
          BY <1>5, <2>2
        <5>2. QED
          BY <5>1
      <4>2. ops[p].step = "distances"
        BY <1>5, <4>1 DEF HeldConfirm, ConfirmInv, TasksOpen
      <4>3. QED
        BY <3>1, <4>1, <4>2
    <3>3. QED
      BY <3>1, <3>2
  <2>3. QED
    BY <1>1, <2>1, <2>2 DEF EndTask
<1>8. SessionGoes /\ InPlace(mem')
  <2>1. \A p \in OpIds : Asks(p) \/ Fetches(p) => ops'[p] = ops[p]
    BY <1>6, <1>7
  <2>2. QED
    BY <1>1, <2>1, SessionStays, BoardResting
<1>9. Wired(0)
  BY <1>1, <1>4, <1>7, <1>8 DEF Wired
<1>10. QED
  BY <1>7, <1>8, <1>9, WiredKeeps

(* What the handler of an answered call leaves alone. *)
LEMMA OthersRest ==
    ASSUME HeldConfirm, NEW o \in OpIds, ops[o].step # "distances", ~Asks(o), ~Fetches(o),
           \A p \in OpIds : p # o => ops'[p] = ops[p],
           UNCHANGED <<mem, lists, tasks, user>>
    PROVE  SessionGoes /\ InPlace(mem') /\ TasksOpen'
<1>1. /\ \A p \in OpIds : ops[p].step = "distances" => ops'[p] = ops[p]
      /\ \A p \in OpIds : Asks(p) \/ Fetches(p) => ops'[p] = ops[p]
  OBVIOUS
<1>2. QED
  BY <1>1, SessionStays, BoardResting, LookupsRest

LEMMA CancelDialogConfirm ==
    ASSUME HeldConfirm, NEW o \in OpIds, ops[o].step = "dialog",
           ops' = [ops EXCEPT ![o].step = "aborted"],
           UNCHANGED <<mem, lists, tasks, started, user, db, queue, replies>>
    PROVE  ConfirmInv'
<1>1. RepliesMoved(0) /\ Talks(0)
  BY RepliesStay, NothingTalked, ConfirmHeld DEF HeldChoice, Held
<1>2. /\ \A p \in OpIds : OpGoes(p, 0)
      /\ \A p \in OpIds : p # o => ops'[p] = ops[p]
  BY HandlerEndsAlone
<1>3. SessionGoes /\ InPlace(mem') /\ TasksOpen'
  BY <1>2, OthersRest DEF Asks, Fetches
<1>4. Wired(0)
  BY <1>1, <1>2, <1>3 DEF Wired
<1>5. QED
  BY <1>3, <1>4, WiredKeeps

LEMMA LoadWrittenConfirm ==
    ASSUME HeldConfirm, LoadWritten
    PROVE  ConfirmInv'
<1>0. PICK o : o = replies[1].owner
  OBVIOUS
<1>1. /\ Resumed("updateLoad")
      /\ UNCHANGED <<mem, lists, tasks, started, user, db>>
  BY DEF LoadWritten, memory, outside
<1>2. /\ RepliesMoved(1) /\ Head(replies) = replies[1]
      /\ o \in OpIds /\ o <= started /\ WaitsFor(ops[o], "updateLoad")
  BY <1>0, <1>1, AnsweredCall
<1>3. /\ ops[o].kind \in {"respond", "confirm", "decline"} /\ ops[o].step = "writeLoad"
      /\ Replied(o, 1)
  BY <1>0, <1>2 DEF WaitsFor, Replied
<1>4. \/ ops' = [ops EXCEPT ![o].step = "aborted"] /\ UNCHANGED queue
      \/ ops' = [ops EXCEPT ![o].step = "done"] /\ replies[1].ok /\ UNCHANGED queue
      \/ /\ ops[o].kind = "respond" /\ ops' = [ops EXCEPT ![o].step = "read"]
         /\ Call(o, "getLoads", AnyRow)
  BY <1>0, <1>2 DEF LoadWritten, FetchLoads
<1>5. PICK s \in {"aborted", "done", "read"} :
         /\ ops' = [ops EXCEPT ![o].step = s] /\ (s = "done" => replies[1].ok)
         /\ \/ s \in {"aborted", "done"} /\ UNCHANGED queue
            \/ s = "read" /\ ops[o].kind = "respond" /\ Call(o, "getLoads", AnyRow)
  BY <1>4
<1>6. /\ \A p \in OpIds : OpGoes(p, 1)
      /\ \A p \in OpIds : p # o => ops'[p] = ops[p]
      /\ SameOp(o) /\ ops'[o].step = s
  BY <1>1, <1>2, <1>3, <1>5, AnsweredGoes
<1>7. Talks(1)
  <2>1. CASE s = "read" /\ ops[o].kind = "respond" /\ Call(o, "getLoads", AnyRow)
    <3>1. WaitsFor(ops'[o], "getLoads")
      BY <1>6, <2>1 DEF WaitsFor, SameOp
    <3>2. QED
      BY <1>2, <1>3, <2>1, <3>1, PlainTalked
  <2>2. CASE UNCHANGED queue
    BY <1>2, <2>2, NothingTalked
  <2>3. QED
    BY <1>5, <2>1, <2>2
<1>8. SessionGoes /\ InPlace(mem') /\ TasksOpen'
  <2>1. ops[o].step # "distances" /\ ~Asks(o) /\ ~Fetches(o)
    BY <1>3 DEF Asks, Fetches
  <2>2. QED
    BY <1>1, <1>2, <1>6, <2>1, OthersRest
<1>9. Wired(1)
  BY <1>1, <1>2, <1>6, <1>7, <1>8 DEF Wired
<1>10. QED
  BY <1>8, <1>9, WiredKeeps

(* updateBidStatus writes what stands at its index: the load it judged. *)
LEMMA BidsWrittenConfirm ==
    ASSUME HeldConfirm, BidsWritten
    PROVE  ConfirmInv'
<1>0. PICK o, i : o = replies[1].owner /\ i = ops[o].index
  OBVIOUS
<1>1. /\ Resumed("updateLoadBids")
      /\ UNCHANGED <<mem, lists, tasks, started, user, db>>
  BY DEF BidsWritten, memory, outside
<1>2. /\ RepliesMoved(1) /\ Head(replies) = replies[1]
      /\ o \in OpIds /\ o <= started /\ WaitsFor(ops[o], "updateLoadBids")
  BY <1>0, <1>1, AnsweredCall
<1>3. /\ ops[o].kind = "respond" /\ ops[o].step = "writeBids" /\ Replied(o, 1)
      /\ Judges(o)
  BY <1>0, <1>2 DEF WaitsFor, Replied, Judges
<1>4. \/ ops' = [ops EXCEPT ![o].step = "aborted"] /\ UNCHANGED queue
      \/ /\ i <= Len(mem) /\ ops' = [ops EXCEPT ![o].step = "writeLoad"]
         /\ Call(o, "updateLoad", ToRow(mem[i]))
  BY <1>0, <1>2, <1>3 DEF BidsWritten
<1>5. ops[o].step # "distances" /\ ~Asks(o) /\ ~Fetches(o)
  BY <1>3 DEF Asks, Fetches
<1>6. CASE ops' = [ops EXCEPT ![o].step = "aborted"] /\ UNCHANGED queue
  <2>1. /\ \A p \in OpIds : OpGoes(p, 1)
        /\ \A p \in OpIds : p # o => ops'[p] = ops[p]
    BY <1>1, <1>2, <1>3, <1>6, AnsweredGoes
  <2>2. Talks(1)
    BY <1>2, <1>6, NothingTalked
  <2>3. SessionGoes /\ InPlace(mem') /\ TasksOpen'
    BY <1>1, <1>2, <1>5, <2>1, OthersRest
  <2>4. Wired(1)
    BY <1>1, <1>2, <2>1, <2>2, <2>3 DEF Wired
  <2>5. QED
    BY <2>3, <2>4, WiredKeeps
<1>7. CASE /\ i <= Len(mem) /\ ops' = [ops EXCEPT ![o].step = "writeLoad"]
           /\ Call(o, "updateLoad", ToRow(mem[i]))
  <2>1. i \in DOMAIN db /\ db[i].id = ops[o].load
    BY <1>0, <1>2, <1>3 DEF HeldConfirm, ConfirmInv, NegotiationOps
  <2>2. i \in DOMAIN mem
    <3>1. db \in Seq(GoodRow) /\ mem \in Seq(GoodPost)
      BY DEF HeldConfirm, HeldChoice, Held, IInv, GoodDb, GoodMem
    <3>2. QED
      BY <1>7, <2>1, <3>1, LenProperties
  <2>3. mem[i].id = ops[o].load
    BY <2>1, <2>2 DEF HeldConfirm, ConfirmInv, ListsInPlace, InPlace
  <2>4. PICK row : row = ToRow(mem[i])
    OBVIOUS
  <2>5. /\ row.id = ops[o].load /\ row.status = mem[i].status
        /\ row.selected = mem[i].selected
    BY <2>3, <2>4 DEF ToRow
  <2>6. \E p \in DOMAIN Pipe' : Pipe'[p].owner = o
    BY <1>7, CallArrives, ConfirmHeld
  <2>7. /\ \A p \in OpIds : OpGoes(p, 1)
        /\ \A p \in OpIds : p # o => ops'[p] = ops[p]
        /\ SameOp(o) /\ ops'[o].step = "writeLoad"
    BY <1>1, <1>2, <1>3, <1>7, <2>6, AnsweredGoes
  <2>8. RowKeeps(row)
    <3> SUFFICES ASSUME NEW p \in OpIds,
                        AllConfirm(mem, ops[p].load, ops[p].who) \/ Closed(ops[p].load, ops[p].who)
                 PROVE  Confirms(row, ops[p].load, ops[p].who)
      BY DEF RowKeeps
    <3>1. CASE AllConfirm(mem, ops[p].load, ops[p].who)
      BY <2>2, <2>3, <2>5, <3>1 DEF AllConfirm, Confirms
    <3>2. CASE Closed(ops[p].load, ops[p].who)
      BY <1>2, <1>3, <2>5, <3>2 DEF Closed, Confirms
    <3>3. QED
      BY <3>1, <3>2
  <2>9. Marked(row.id, Mark(row.bids))
    BY <2>2, <2>3, <2>4, <2>5 DEF Marked, MarkOnBoard
  <2>10. Talks(1)
    <3> DEFINE q == [call |-> "updateLoad", owner |-> o, row |-> row]
               c == [call |-> "updateLoad", owner |-> o, load |-> row.id]
    <3>1. /\ q.row = row /\ q.owner = o /\ c.call = "updateLoad" /\ c.owner = o
          /\ c.load = row.id
      OBVIOUS
    <3> HIDE DEF q, c
    <3>2. ops'[o].kind = "respond" /\ ops'[o].load = ops[o].load
      BY <1>3, <2>7 DEF SameOp
    <3>3. NewTalk(c, 1)
      BY <1>3, <2>5, <2>7, <3>1, <3>2 DEF NewTalk, WaitsFor
    <3>4. NewRow(q)
      BY <2>8, <2>9, <3>1, <3>2 DEF NewRow
    <3>5. QED
      BY <1>2, <1>7, <2>4, <3>3, <3>4, CallTalked DEF q, c
  <2>11. SessionGoes /\ InPlace(mem') /\ TasksOpen'
    BY <1>1, <1>2, <1>5, <2>7, OthersRest
  <2>12. Wired(1)
    BY <1>1, <1>2, <2>7, <2>10, <2>11 DEF Wired
  <2>13. QED
    BY <2>11, <2>12, WiredKeeps
<1>8. QED
  BY <1>4, <1>6, <1>7

(* The mark of a load on the board is the one its bid there gives it. *)
LEMMA BoardBid ==
    ASSUME HeldConfirm, user \in Carriers, NEW l, NEW i, i = IndexOf(mem, l), i # 0
    PROVE  /\ i \in DOMAIN mem /\ mem[i].id = l
           /\ Mark(ToRow(mem[i]).bids) =
                 IF BidOf(l, user) = "accepted" THEN "accepted" ELSE "open"
           /\ Marked(l, IF BidOf(l, user) = "accepted" THEN "accepted" ELSE "open")
<1>1. i \in DOMAIN mem /\ mem[i].id = l
  BY Shown, ConfirmHeld
<1>2. user \in Bidders
  BY DEF Bidders
<1>3. ToRow(mem[i]).bids[user] = BidOf(l, user)
  <2>1. ToRow(mem[i]).bids = IF mem[i].list = 0 THEN NoBids ELSE lists[mem[i].list][l]
    BY <1>1 DEF ToRow
  <2>2. NoBids[user] = "none"
    BY <1>2 DEF NoBids
  <2>3. BidOf(l, user) = IF mem[i].list = 0 THEN "none" ELSE lists[mem[i].list][l][user]
    BY DEF BidOf
  <2>4. QED
    BY <2>1, <2>2, <2>3
<1>4. Mark(ToRow(mem[i]).bids) = IF BidOf(l, user) = "accepted" THEN "accepted" ELSE "open"
  BY <1>3 DEF Mark
<1>5. QED
  BY <1>1, <1>4 DEF Marked, MarkOnBoard

LEMMA OpenDialogConfirm ==
    ASSUME HeldConfirm, NEW l \in Loads, NEW kind \in AnswerKinds, OpenDialog(l, kind)
    PROVE  ConfirmInv'
<1> DEFINE op == Handler(kind, "dialog", l, user)
<1>0. op.who = user
  BY DEF Handler, NoOp
<1>1. op.kind = kind /\ op.step = "dialog" /\ op.load = l /\ op.who = user
  BY <1>0, HandlerShape
<1> HIDE DEF op
<1>2. /\ AtBoard /\ user \in Carriers /\ CanStart(kind) /\ StartOp(op)
      /\ \/ OffersAnswer(l)
         \/ \E o \in InFlight : ops[o].kind \in AnswerKinds /\ ops[o].load = l /\ ops[o].who = user
      /\ UNCHANGED <<mem, lists, tasks, user, db, queue, replies>>
  BY DEF OpenDialog, op, memory, outside, AnswerKinds
<1>3. (\A o \in OpIds : ops[o].step # "dialog") /\ CarrierSession
  BY <1>2, NoDialogAtBoard DEF CarrierSession
<1>4. /\ \A k \in Loads : ~(Marked(k, "accepted") /\ Marked(k, "open"))
      /\ \A o \in OpIds : Answering(o) => ops[o].who = user /\ ~Marked(ops[o].load, "open")
  BY <1>3 DEF HeldConfirm, ConfirmInv, SessionMarks
<1>5. ~Marked(l, "open")
  <2>1. CASE OffersAnswer(l)
    <3>1. PICK i : i = IndexOf(mem, l)
      OBVIOUS
    <3>2. i # 0 /\ BidOf(l, user) = "accepted"
      BY <2>1, <3>1, Shown, ConfirmHeld DEF OffersAnswer
    <3>3. Marked(l, "accepted")
      BY <1>2, <3>1, <3>2, BoardBid
    <3>4. QED
      BY <1>4, <3>3
  <2>2. CASE \E o \in InFlight : ops[o].kind \in AnswerKinds /\ ops[o].load = l /\ ops[o].who = user
    <3>1. PICK o \in InFlight : ops[o].kind \in AnswerKinds /\ ops[o].load = l /\ ops[o].who = user
      BY <2>2
    <3>2. o \in OpIds /\ ops[o].step \in {"dialog", "writeLoad"}
      BY <3>1 DEF InFlight, HeldConfirm, HeldChoice, ChoiceInv, AnswersWait
    <3>3. Answering(o)
      BY <3>1, <3>2 DEF Answering
    <3>4. QED
      BY <1>4, <3>1, <3>2, <3>3
  <2>3. QED
    BY <1>2, <2>1, <2>2
<1>6. PICK n : n = started + 1
  OBVIOUS
<1>7. op.kind # "respond" /\ op.kind \in NegotiationKinds /\ op.step # "done"
  BY <1>1 DEF AnswerKinds, NegotiationKinds
<1>8. /\ n \in OpIds /\ ops'[n] = op
      /\ \A o \in OpIds : o # n => ops'[o] = ops[o]
      /\ \A o \in OpIds : OpGoes(o, 0)
  BY <1>1, <1>2, <1>3, <1>5, <1>6, <1>7, HandlerBegins
<1>9. ops[n].kind = "none"
  BY <1>6, <1>8, ConfirmHeld
<1>10. RepliesMoved(0) /\ Talks(0)
  BY <1>2, RepliesStay, NothingTalked, ConfirmHeld DEF HeldChoice, Held
<1>11. SessionGoes /\ InPlace(mem') /\ TasksOpen'
  <2>1. /\ \A o \in OpIds : ops[o].step = "distances" => ops'[o] = ops[o]
        /\ \A o \in OpIds : Asks(o) \/ Fetches(o) => ops'[o] = ops[o]
    BY <1>8, <1>9, OldLookups
  <2>2. QED
    BY <1>2, <2>1, SessionStays, BoardResting, LookupsRest
<1>12. Wired(0)
  BY <1>2, <1>8, <1>10, <1>11 DEF Wired
<1>13. QED
  BY <1>11, <1>12, WiredKeeps

(* The board after one load on it changed its status only. *)
LEMMA SubmitConfirm ==
    ASSUME HeldConfirm, NEW o \in OpIds, Submit(o)
    PROVE  ConfirmInv'
<1>0. PICK l, i : l = ops[o].load /\ i = IndexOf(mem, l)
  OBVIOUS
<1> DEFINE post == Answered(mem[i], ops[o].kind)
           row == ToRow(post)
<1>1. /\ ops[o].step = "dialog"
      /\ UNCHANGED <<lists, tasks, started, user, db, replies>>
      /\ \/ ops' = [ops EXCEPT ![o].step = "aborted"] /\ UNCHANGED <<mem, queue>>
         \/ /\ i # 0 /\ mem' = [mem EXCEPT ![i] = post]
            /\ ops' = [ops EXCEPT ![o].step = "writeLoad"]
            /\ Call(o, "updateLoad", row)
  BY <1>0 DEF Submit, outside
<1>2. CASE ops' = [ops EXCEPT ![o].step = "aborted"] /\ UNCHANGED <<mem, queue>>
  BY <1>1, <1>2, CancelDialogConfirm
<1>3. CASE /\ i # 0 /\ mem' = [mem EXCEPT ![i] = post]
           /\ ops' = [ops EXCEPT ![o].step = "writeLoad"]
           /\ Call(o, "updateLoad", row)
  <2>1. /\ ops[o].kind \in AnswerKinds /\ ops[o].who \in Carriers /\ CarrierSession
        /\ \A b \in Bidders \cup {NoOne} : Stands(l, b) => b = ops[o].who
    BY <1>0, <1>1, DialogOf, ConfirmHeld
  <2>2. user \in Carriers
    BY <2>1 DEF CarrierSession
  <2>3. i \in DOMAIN mem /\ mem[i].id = l /\ mem[i] \in Post
    BY <1>0, <1>3, Shown, ConfirmHeld DEF GoodPost
  <2>4. mem[i].selected = ops[o].who
    <3>1. Stands(l, mem[i].selected) /\ mem[i].selected \in Bidders \cup {NoOne}
      BY <2>3 DEF Stands, Chooses, Post
    <3>2. QED
      BY <2>1, <3>1
  <2>5. /\ post.id = l /\ post.selected = ops[o].who /\ post.list = mem[i].list
        /\ ops[o].kind = "confirm" => post.status = "confirmed"
    BY <2>3, <2>4 DEF Answered, Post
  <2> HIDE DEF post
  <2>6. /\ row.id = l /\ row.selected = ops[o].who /\ row.status = post.status
        /\ row.bids = ToRow(mem[i]).bids
    BY <2>3, <2>5 DEF ToRow
  <2> HIDE DEF row
  <2>7. Answering(o) /\ ops[o].who = user /\ ~Marked(l, "open")
    <3>1. Answering(o)
      BY <1>1, <2>1 DEF Answering
    <3>2. QED
      BY <1>0, <2>1, <3>1 DEF HeldConfirm, ConfirmInv, SessionMarks
  <2>8. Marked(l, Mark(row.bids)) /\ Marked(l, "accepted")
    <3>1. Marked(l, Mark(row.bids))
      BY <2>3, <2>6 DEF Marked, MarkOnBoard
    <3>2. Mark(row.bids) \in {"accepted", "open"}
      BY DEF Mark
    <3>3. QED
      BY <2>7, <3>1, <3>2
  <2>9. /\ \A p \in OpIds : p # o => ops'[p] = ops[p]
        /\ SameOp(o) /\ ops'[o].step = "writeLoad"
    BY <1>3 DEF HeldConfirm, HeldChoice, Held, IInv, GoodOps, Op, SameOp
  <2>10. ops'[o].kind = ops[o].kind /\ ops'[o].load = l /\ ops'[o].who = ops[o].who
         /\ ops[o].kind # "respond"
    BY <1>0, <2>1, <2>9 DEF SameOp, AnswerKinds
  <2>11. o = started
    BY <1>1 DEF HeldConfirm, ConfirmInv, NegotiationOps
  <2>12. \A p \in OpIds : OpGoes(p, 0)
    <3>1. \A p \in OpIds : p # o => OpGoes(p, 0)
      BY <1>1, <2>9, OpRests DEF Replied
    <3>2. OpGoes(o, 0)
      <4>1. ops'[o].kind \in NegotiationKinds
        BY <2>1, <2>10 DEF AnswerKinds, NegotiationKinds
      <4>2. ~Judges(o)'
        BY <2>10 DEF Judges
      <4>3. QED
        BY <1>1, <2>7, <2>9, <4>1, <4>2 DEF OpGoes
    <3>3. QED
      BY <3>1, <3>2
  <2>13. ASSUME NEW p \in OpIds, p <= started, ops[p].kind = "confirm", Unchallenged(p)',
                AllConfirm(mem, ops[p].load, ops[p].who) \/ Closed(ops[p].load, ops[p].who),
                ops[p].load = l
         PROVE  post.status = "confirmed" /\ ops[o].who = ops[p].who
    <3>1. ops[o].kind = "confirm"
      <4> SUFFICES ASSUME ops[o].kind # "confirm" PROVE FALSE
        OBVIOUS
      <4>1. ops[o].kind = "decline" /\ p # o
        BY <2>1, <2>13 DEF AnswerKinds
      <4>2. o > p
        BY <2>11, <2>13, <4>1, ConfirmHeld
      <4>3. ops'[p] = ops[p]
        BY <2>9, <4>1
      <4>4. Supersedes(o, p)'
        BY <2>10, <2>13, <4>1, <4>2, <4>3 DEF Supersedes
      <4>5. QED
        BY <2>13, <4>4 DEF Unchallenged
    <3>2. CASE AllConfirm(mem, ops[p].load, ops[p].who)
      BY <2>3, <2>4, <2>5, <2>13, <3>1, <3>2 DEF AllConfirm, Confirms
    <3>3. CASE Closed(ops[p].load, ops[p].who)
      BY <2>1, <2>5, <2>7, <2>13, <3>1, <3>3 DEF Closed, CarrierSession
    <3>4. QED
      BY <2>13, <3>2, <3>3
  <2>14. RowKeeps(row)
    <3> SUFFICES ASSUME NEW p \in OpIds, p <= started, ops[p].kind = "confirm", Unchallenged(p)',
                        AllConfirm(mem, ops[p].load, ops[p].who) \/ Closed(ops[p].load, ops[p].who)
                 PROVE  Confirms(row, ops[p].load, ops[p].who)
      BY DEF RowKeeps
    <3>1. CASE ops[p].load = l
      BY <2>6, <2>13, <3>1 DEF Confirms
    <3>2. CASE ops[p].load # l
      BY <2>6, <3>2 DEF Confirms
    <3>3. QED
      BY <3>1, <3>2
  <2>15. RepliesMoved(0)
    BY <1>1, RepliesStay, ConfirmHeld DEF HeldChoice, Held
  <2>16. Closed(l, ops[o].who)
    <3>1. \A r \in OpIds : Judges(r) => ~Marked(ops[r].load, "accepted")
      BY <2>1 DEF HeldConfirm, ConfirmInv, SessionMarks
    <3>2. \A r \in OpIds : ops[r].kind = "respond" /\ ops[r].step = "writeBids" => ops[r].load # l
      BY <2>8, <3>1 DEF Judges
    <3>3. QED
      BY <2>2, <2>7, <3>2 DEF Closed
  <2>17. Talks(0)
    <3> DEFINE q == [call |-> "updateLoad", owner |-> o, row |-> row]
               c == [call |-> "updateLoad", owner |-> o, load |-> row.id]
    <3>1. /\ q.row = row /\ q.owner = o /\ c.call = "updateLoad" /\ c.owner = o
          /\ c.load = row.id
      OBVIOUS
    <3> HIDE DEF q, c
    <3>2. WaitsFor(ops'[o], "updateLoad")
      BY <2>1, <2>9, <2>10 DEF WaitsFor, AnswerKinds
    <3>3. NewTalk(c, 0)
      BY <1>1, <2>6, <2>10, <2>16, <3>1, <3>2 DEF NewTalk
    <3>4. ops[o].kind = "confirm" => Confirms(row, l, ops[o].who)
      BY <2>5, <2>6 DEF Confirms
    <3>5. NewRow(q)
      BY <2>6, <2>8, <2>10, <2>14, <3>1, <3>4 DEF NewRow
    <3>6. QED
      BY <1>3, <2>15, <3>3, <3>5, CallTalked DEF q, c
  <2>18. DOMAIN mem' = DOMAIN mem /\ mem'[i] = post /\ \A j \in DOMAIN mem : j # i => mem'[j] = mem[j]
    BY <1>3, <2>3
  <2>19. SessionGoes
    <3>1. InSession' => InSession /\ user' = user
      <4>1. \A p \in OpIds : Asks(p) \/ Fetches(p) => ops'[p] = ops[p]
        BY <1>1, <2>9 DEF Asks, Fetches
      <4>2. QED
        BY <1>1, <4>1, SessionStays
    <3>2. ASSUME NEW j \in DOMAIN mem' PROVE Marked(mem'[j].id, BoardMark(j)')
      <4>1. BoardMark(j)' = BoardMark(j) /\ mem'[j].id = mem[j].id
        <5>1. CASE j = i
          BY <1>1, <2>3, <2>5, <2>18, <5>1 DEF BoardMark, Mark, ToRow
        <5>2. CASE j # i
          BY <1>1, <2>18, <3>2, <5>2 DEF BoardMark, Mark, ToRow
        <5>3. QED
          BY <5>1, <5>2
      <4>2. Marked(mem[j].id, BoardMark(j))
        BY <2>18, <3>2 DEF Marked, MarkOnBoard, BoardMark
      <4>3. QED
        BY <4>1, <4>2
    <3>3. BoardConfirms
      <4> SUFFICES ASSUME NEW p \in OpIds, p <= started, Place(p, 0), Unchallenged(p)',
                          AllConfirm(mem, ops[p].load, ops[p].who),
                          NEW j \in DOMAIN mem'
                   PROVE  Confirms(mem'[j], ops[p].load, ops[p].who)
        BY DEF BoardConfirms, AllConfirm
      <4>1. ops[p].kind = "confirm"
        BY DEF Place
      <4>2. CASE j = i /\ ops[p].load = l
        BY <2>5, <2>13, <2>18, <4>1, <4>2 DEF Confirms
      <4>3. CASE j = i /\ ops[p].load # l
        BY <2>5, <2>18, <4>3 DEF Confirms
      <4>4. CASE j # i
        BY <2>18, <4>4 DEF AllConfirm
      <4>5. QED
        BY <4>2, <4>3, <4>4
    <3>4. QED
      BY <3>1, <3>2, <3>3 DEF SessionGoes, BoardMarks
  <2>20. InPlace(mem')
    <3>1. \A j \in DOMAIN mem' : j \in DOMAIN mem /\ mem'[j].id = mem[j].id
      BY <2>3, <2>5, <2>18
    <3>2. InPlace(mem)
      BY DEF HeldConfirm, ConfirmInv, ListsInPlace
    <3>3. QED
      BY <3>1, <3>2 DEF InPlace
  <2>21. TasksOpen'
    BY <1>1, <2>9, LookupsRest
  <2>22. Wired(0)
    BY <1>1, <2>12, <2>15, <2>17, <2>20 DEF Wired
  <2>23. QED
    BY <2>19, <2>21, <2>22, WiredKeeps
<1>4. QED
  BY <1>1, <1>2, <1>3

(* updateBidStatus: nobody judges for a carrier who has confirmed, and an  *)
(* acceptance ends what an earlier confirmation promised.                  *)
LEMMA RespondConfirm ==
    ASSUME HeldConfirm, NEW l \in Loads, NEW b \in Bidders,
           NEW verdict \in {"accepted", "rejected", "countered"}, Respond(l, b, verdict)
    PROVE  ConfirmInv'
<1>0. PICK i, n : i = IndexOf(mem, l) /\ n = started + 1
  OBVIOUS
<1> DEFINE post == Judged(mem[i], b, verdict)
           op == [Handler("respond", "writeBids", l, b) EXCEPT
                     !.index = i, !.verdict = verdict]
<1>1. /\ op.kind = "respond" /\ op.step = "writeBids" /\ op.load = l
      /\ op.index = i /\ op.verdict = verdict
  BY DEF Handler, NoOp
<1> HIDE DEF op
<1>2. PICK bids : /\ bids = [lists[mem[i].list][l] EXCEPT ![b] = verdict]
                  /\ lists' = [lists EXCEPT ![mem[i].list][l] = bids]
                  /\ Call(n, "updateLoadBids", [ToRow(post) EXCEPT !.bids = bids])
  BY <1>0 DEF Respond
<1>3. /\ AtBoard /\ CanStart("respond") /\ StartOp(op) /\ BidOf(l, b) # "none"
      /\ user = Broker \/ (user = b /\ verdict = "rejected")
      /\ Actionable(l, b)
      /\ mem' = [mem EXCEPT ![i] = post]
      /\ UNCHANGED <<tasks, user, db, replies>>
  BY <1>0 DEF Respond, op, outside
<1>4. i \in DOMAIN mem /\ mem[i].id = l /\ mem[i] \in Post /\ mem[i].list # 0 /\ i # 0
  BY <1>0, <1>3, Shown, ConfirmHeld DEF BidOf, GoodPost
<1>5. /\ post.id = l /\ post.list = mem[i].list /\ (verdict # "accepted" => post = mem[i])
  BY <1>4 DEF Judged, Post
<1> HIDE DEF post
<1>6. (\A o \in OpIds : ops[o].step # "dialog") /\ InSession
  BY <1>3, NoDialogAtBoard
<1>7. InPlace(mem) /\ i \in DOMAIN db /\ db[i].id = l
  BY <1>4 DEF HeldConfirm, ConfirmInv, ListsInPlace, InPlace
<1>8. CarrierSession => user \in Carriers /\ user = b /\ verdict = "rejected" /\ Marked(l, "open")
  <2> SUFFICES ASSUME CarrierSession
               PROVE  user \in Carriers /\ user = b /\ verdict = "rejected" /\ Marked(l, "open")
    OBVIOUS
  <2>1. user \in Carriers /\ user = b /\ verdict = "rejected"
    BY <1>3 DEF CarrierSession, HeldConfirm, HeldChoice, NoOldCopies
  <2>2. Marked(l, IF BidOf(l, user) = "accepted" THEN "accepted" ELSE "open")
    BY <1>0, <1>4, <2>1, BoardBid
  <2>3. CASE BidOf(l, b) \in {"pending", "countered"}
    BY <2>1, <2>2, <2>3
  <2>4. CASE \E o \in InFlight : /\ ops[o].kind = "respond" /\ ops[o].load = l
                                 /\ ops[o].step \in {"writeBids", "writeLoad"}
    <3>1. PICK o \in OpIds : Judges(o) /\ ops[o].load = l
      BY <2>4 DEF InFlight, Judges
    <3>2. ~Marked(l, "accepted")
      BY <3>1 DEF HeldConfirm, ConfirmInv, SessionMarks
    <3>3. QED
      BY <2>1, <2>2, <3>2
  <2>5. QED
    BY <1>3, <2>1, <2>3, <2>4 DEF Actionable
<1>9. op.kind \in NegotiationKinds /\ op.step # "done" /\ op.kind \notin AnswerKinds
  BY <1>1 DEF NegotiationKinds, AnswerKinds
<1>10. \E p \in DOMAIN Pipe' : Pipe'[p].owner = n
  BY <1>2, CallArrives, ConfirmHeld
<1>11. /\ n \in OpIds /\ ops'[n] = op
       /\ \A o \in OpIds : o # n => ops'[o] = ops[o]
       /\ \A o \in OpIds : OpGoes(o, 0)
  BY <1>0, <1>1, <1>3, <1>6, <1>7, <1>8, <1>9, <1>10, HandlerBegins
<1>12. n > started /\ ops[n].kind = "none"
  BY <1>0, <1>11, ConfirmHeld
<1>13. RepliesMoved(0)
  BY <1>3, RepliesStay, ConfirmHeld DEF HeldChoice, Held
<1>14. Talks(0)
  <2>1. PICK row : row = [ToRow(post) EXCEPT !.bids = bids]
    OBVIOUS
  <2>2. row.id = l
    BY <1>5, <2>1 DEF ToRow
  <2>3. WaitsFor(ops'[n], "updateLoadBids") /\ row.id = ops'[n].load
    BY <1>1, <1>11, <2>2 DEF WaitsFor
  <2>4. QED
    BY <1>2, <1>12, <1>13, <2>1, <2>3, PlainTalked
<1>15. DOMAIN mem' = DOMAIN mem /\ mem'[i] = post /\ \A j \in DOMAIN mem : j # i => mem'[j] = mem[j]
  BY <1>3, <1>4
<1>16. InPlace(mem')
  <2>1. \A j \in DOMAIN mem' : j \in DOMAIN mem /\ mem'[j].id = mem[j].id
    BY <1>4, <1>5, <1>15
  <2>2. QED
    BY <1>7, <2>1 DEF InPlace
<1>17. /\ \A o \in OpIds : ops[o].step = "distances" => ops'[o] = ops[o]
       /\ \A o \in OpIds : Asks(o) \/ Fetches(o) => ops'[o] = ops[o]
  BY <1>11, <1>12, OldLookups
<1>18. InSession' => InSession /\ user' = user
  BY <1>3, <1>17, SessionStays
<1>19. ASSUME CarrierSession' PROVE BoardMarks
  <2>1. CarrierSession /\ user' = user
    BY <1>18, <1>19 DEF CarrierSession
  <2>2. /\ user \in Carriers /\ user = b /\ verdict = "rejected" /\ Marked(l, "open")
        /\ \A j \in DOMAIN mem : mem'[j] = mem[j]
    BY <1>5, <1>8, <1>15, <2>1
  <2>3. lists \in [OpIds -> [Loads -> Bids]] /\ mem[i].list \in OpIds
    BY <1>4, BoundsAssumption DEF HeldConfirm, HeldChoice, Held, IInv, GoodLists, Post, OpIds
  <2>4. lists'[mem[i].list][l] = bids /\ bids[b] = verdict
    <3>1. lists[mem[i].list][l] \in Bids
      BY <2>3
    <3>2. QED
      BY <1>2, <2>3, <3>1 DEF Bids
  <2>5. ASSUME NEW j \in DOMAIN mem' PROVE Marked(mem'[j].id, BoardMark(j)')
    <3>1. CASE j = i
      <4>1. mem'[i].id = l /\ mem'[i].list = mem[i].list
        BY <1>4, <2>2
      <4>2. ToRow(mem[i])'.bids = bids
        BY <1>4, <2>4, <4>1 DEF ToRow
      <4>3. BoardMark(j)' = "open"
        BY <2>1, <2>2, <2>4, <3>1, <4>2 DEF BoardMark, Mark
      <4>4. QED
        BY <2>2, <3>1, <4>1, <4>3
    <3>2. CASE j # i
      <4>1. j \in DOMAIN mem /\ mem'[j] = mem[j] /\ mem[j].id # l /\ mem[j] \in Post
        <5>1. j \in DOMAIN mem /\ mem'[j] = mem[j] /\ mem[j] \in Post
          BY <1>15, <2>5, <3>2, Shown, ConfirmHeld DEF GoodPost
        <5>2. j \in DOMAIN db /\ db[j].id = mem[j].id
          BY <1>7, <5>1 DEF InPlace
        <5>3. UniqueAt(db, l)
          BY DEF HeldConfirm, HeldChoice, Held, ListInv, Unique
        <5>4. QED
          BY <1>7, <3>2, <5>1, <5>2, <5>3 DEF UniqueAt
      <4>2. PICK s, k : s = mem[j].list /\ k = mem[j].id
        OBVIOUS
      <4>3. s # 0 => s \in OpIds
        BY <4>1, <4>2, BoundsAssumption DEF Post, OpIds
      <4>4. k \in Loads /\ k # l
        BY <4>1, <4>2 DEF Post
      <4>5. s # 0 => lists'[s][k] = lists[s][k]
        BY <1>2, <2>3, <4>3, <4>4
      <4>6. PICK m : m = BoardMark(j)
        OBVIOUS
      <4>7. BoardMark(j)' = m
        BY <2>1, <4>1, <4>2, <4>5, <4>6 DEF BoardMark, Mark, ToRow
      <4>8. Marked(mem[j].id, m)
        BY <4>1, <4>6 DEF Marked, MarkOnBoard, BoardMark
      <4>9. QED
        BY <4>1, <4>7, <4>8
    <3>3. QED
      BY <3>1, <3>2
  <2>6. QED
    BY <2>5 DEF BoardMarks
<1>20. BoardConfirms
  <2> SUFFICES ASSUME NEW p \in OpIds, p <= started, Place(p, 0), Unchallenged(p)',
                      AllConfirm(mem, ops[p].load, ops[p].who),
                      NEW j \in DOMAIN mem'
               PROVE  Confirms(mem'[j], ops[p].load, ops[p].who)
    BY DEF BoardConfirms, AllConfirm
  <2>1. CASE verdict = "accepted" /\ ops[p].load = l
    <3>1. ops'[p] = ops[p] /\ n > p
      BY <1>0, <1>11, <1>12, ConfirmHeld
    <3>2. Supersedes(n, p)'
      BY <1>1, <1>11, <2>1, <3>1 DEF Supersedes
    <3>3. QED
      BY <1>11, <3>2 DEF Unchallenged
  <2>2. CASE j = i /\ ops[p].load # l
    BY <1>5, <1>15, <2>2 DEF Confirms
  <2>3. CASE j # i \/ verdict # "accepted"
    BY <1>5, <1>15, <2>3 DEF AllConfirm
  <2>4. QED
    BY <2>1, <2>2, <2>3
<1>21. SessionGoes
  BY <1>18, <1>19, <1>20 DEF SessionGoes
<1>22. TasksOpen'
  BY <1>3, <1>17, LookupsRest
<1>23. Wired(0)
  BY <1>3, <1>11, <1>13, <1>14, <1>16 DEF Wired
<1>24. QED
  BY <1>21, <1>22, <1>23, WiredKeeps

(* A fetch puts the rows it read on the board, marked as they were read. *)
LEMMA FetchedBoard ==
    ASSUME HeldConfirm, LoadsRead, NEW o, NEW rows,
           o = replies[1].owner, rows = replies[1].rows
    PROVE  /\ o \in OpIds /\ o <= started /\ RepliesMoved(1) /\ Replied(o, 1)
           /\ 1 \in DOMAIN replies /\ replies[1].call = "getLoads"
           /\ 1 \in DOMAIN Pipe /\ Pipe[1].call = "getLoads" /\ Pipe[1].owner = o
           /\ ops[o].kind \in {"login", "refresh", "respond"} /\ ops[o].step = "read"
           /\ UNCHANGED <<started, user, db, queue>>
           /\ \A i \in DOMAIN mem' :
                 /\ i \in DOMAIN rows /\ mem'[i].id = rows[i].id
                 /\ mem'[i].status = rows[i].status /\ mem'[i].selected = rows[i].selected
                 /\ user \in Carriers => BoardMark(i)' = Mark(rows[i].bids)
           /\ TasksOpen'
           /\ \A p \in OpIds : p # o => ops'[p] = ops[p]
           /\ Wired(1)
<1>1. /\ Resumed("getLoads")
      /\ UNCHANGED <<started, user, db, queue>>
  BY DEF LoadsRead, outside
<1>2. /\ RepliesMoved(1) /\ Head(replies) = replies[1] /\ replies[1].call = "getLoads"
      /\ 1 \in DOMAIN replies /\ 1 \in DOMAIN Pipe
      /\ Pipe[1].call = "getLoads" /\ Pipe[1].owner = o
      /\ o \in OpIds /\ o <= started /\ WaitsFor(ops[o], "getLoads")
  BY <1>1, AnsweredCall
<1>3. ops[o].kind \in {"login", "refresh", "respond"} /\ ops[o].step = "read" /\ Replied(o, 1)
  BY <1>2 DEF WaitsFor, Replied
<1> DEFINE Looks(l) == Has(rows, l) /\ l \in Addressed \ cache
<1>4. \/ /\ mem' = Fetched(rows, o)
         /\ lists' = [lists EXCEPT ![o] =
               [l \in Loads |-> IF Has(rows, l)
                                THEN ParseBids(rows[IndexOf(rows, l)].bids)
                                ELSE NoBids]]
         /\ tasks' = [tasks EXCEPT ![o] =
               [l \in Loads |->
                  IF Looks(l)
                  THEN [step |-> "route", post |-> FromRow(rows[IndexOf(rows, l)], o)]
                  ELSE NoTask(l)]]
         /\ ops' = [ops EXCEPT ![o].step =
                      IF \E l \in Loads : Looks(l) THEN "distances" ELSE "done"]
      \/ /\ mem' = <<>> /\ ops' = [ops EXCEPT ![o].step = "done"]
         /\ UNCHANGED <<lists, tasks>>
  BY <1>2 DEF LoadsRead
<1>5. PICK s \in {"distances", "done"} :
         /\ ops' = [ops EXCEPT ![o].step = s]
         /\ \/ s = IF \E l \in Loads : Looks(l) THEN "distances" ELSE "done"
            \/ UNCHANGED tasks
  BY <1>4
<1> HIDE DEF Looks
<1>6. /\ \A p \in OpIds : OpGoes(p, 1)
      /\ \A p \in OpIds : p # o => ops'[p] = ops[p]
      /\ SameOp(o) /\ ops'[o].step = s
  BY <1>1, <1>2, <1>3, <1>5, AnsweredGoes
<1>7. Talks(1)
  BY <1>1, <1>2, NothingTalked
<1>8. rows \in Seq(GoodRow)
  BY <1>2, ConfirmHeld DEF PipeFacts, PipeTypes
<1>9. ASSUME NEW i \in DOMAIN mem'
      PROVE  /\ i \in DOMAIN rows /\ mem'[i].id = rows[i].id
             /\ mem'[i].status = rows[i].status /\ mem'[i].selected = rows[i].selected
             /\ user \in Carriers => BoardMark(i)' = Mark(rows[i].bids)
  <2>1. CASE mem' = <<>>
    BY <1>9, <2>1, EmptySeq
  <2>2. CASE /\ mem' = Fetched(rows, o)
             /\ lists' = [lists EXCEPT ![o] =
                   [l \in Loads |-> IF Has(rows, l)
                                    THEN ParseBids(rows[IndexOf(rows, l)].bids)
                                    ELSE NoBids]]
    <3>1. i \in DOMAIN rows /\ mem'[i] = FromRow(rows[i], o)
      BY <1>9, <2>2 DEF Fetched
    <3>2. /\ mem'[i].id = rows[i].id /\ mem'[i].list = o
          /\ mem'[i].status = rows[i].status /\ mem'[i].selected = rows[i].selected
      BY <3>1 DEF FromRow
    <3>3. ASSUME user \in Carriers PROVE BoardMark(i)' = Mark(rows[i].bids)
      <4>1. PICK l : l = rows[i].id
        OBVIOUS
      <4>2. l \in Loads /\ Has(rows, l)
        BY <1>8, <3>1, <4>1 DEF Has, GoodRow, Row
      <4>3. UniqueAt(rows, l)
        BY <1>2, <4>2 DEF HeldConfirm, HeldChoice, Held, ListInv, Unique
      <4>4. IndexOf(rows, l) = i
        <5>1. IndexOf(rows, l) \in DOMAIN rows /\ rows[IndexOf(rows, l)].id = l
          BY <1>8, <4>2, IndexOfSpec, LenProperties
        <5>2. QED
          BY <3>1, <4>1, <4>3, <5>1 DEF UniqueAt
      <4>5. lists'[o][l] = ParseBids(rows[i].bids)
        BY <1>2, <2>2, <4>2, <4>4 DEF HeldConfirm, HeldChoice, Held, IInv, GoodLists
      <4>6. o # 0
        BY <1>2 DEF OpIds
      <4>7. ToRow(mem[i])'.bids = ParseBids(rows[i].bids)
        BY <3>2, <4>1, <4>5, <4>6 DEF ToRow
      <4>8. Mark(ParseBids(rows[i].bids)) = Mark(rows[i].bids)
        <5>1. user \in Bidders
          BY <3>3 DEF Bidders
        <5>2. NoBids[user] = "none" /\ [NoBids EXCEPT ![Unknown] = "pending"][user] # "accepted"
          BY <5>1 DEF NoBids
        <5>3. QED
          BY <5>2 DEF Mark, ParseBids
      <4>9. QED
        BY <1>1, <4>7, <4>8 DEF BoardMark, Mark
    <3>4. QED
      BY <3>1, <3>2, <3>3
  <2>3. QED
    BY <1>4, <2>1, <2>2
<1>10. InPlace(mem')
  <2>1. InPlace(rows)
    BY <1>2 DEF HeldConfirm, ConfirmInv, ListsInPlace
  <2>2. QED
    BY <1>9, <2>1 DEF InPlace
<1>11. TasksOpen'
  <2> SUFFICES ASSUME NEW p \in OpIds, NEW l \in Loads, tasks'[p][l].step # "none"
               PROVE  ops'[p].step = "distances"
    BY DEF TasksOpen
  <2>1. tasks \in [OpIds -> [Loads -> GoodTask]]
    BY DEF HeldConfirm, HeldChoice, Held, IInv, GoodTasks
  <2>2. CASE p # o
    <3>1. tasks'[p][l] = tasks[p][l]
      BY <1>4, <2>1, <2>2
    <3>2. QED
      BY <1>6, <2>2, <3>1 DEF HeldConfirm, ConfirmInv, TasksOpen
  <2>3. CASE p = o /\ UNCHANGED tasks
    BY <1>3, <2>3 DEF HeldConfirm, ConfirmInv, TasksOpen
  <2>4. CASE /\ p = o
             /\ tasks' = [tasks EXCEPT ![o] =
                   [k \in Loads |->
                      IF Looks(k)
                      THEN [step |-> "route", post |-> FromRow(rows[IndexOf(rows, k)], o)]
                      ELSE NoTask(k)]]
             /\ ops' = [ops EXCEPT ![o].step =
                      IF \E k \in Loads : Looks(k) THEN "distances" ELSE "done"]
    <3>1. Looks(l)
      BY <1>2, <2>1, <2>4 DEF NoTask
    <3>2. QED
      BY <1>2, <2>4, <3>1 DEF HeldConfirm, HeldChoice, Held, IInv, GoodOps, Op
  <2>5. QED
    BY <1>4, <2>2, <2>3, <2>4
<1>12. Wired(1)
  BY <1>1, <1>2, <1>6, <1>7, <1>10 DEF Wired
<1>13. QED
  BY <1>1, <1>2, <1>3, <1>6, <1>9, <1>11, <1>12

(* What is behind a place that was reported is what the board shows next. *)
LEMMA ReadConfirms ==
    ASSUME HeldConfirm, LoadsRead, NEW p \in OpIds, Place(p, 0), Unchallenged(p)
    PROVE  AllConfirm(mem', ops[p].load, ops[p].who)
<1>1. PICK rows : rows = replies[1].rows
  OBVIOUS
<1>2. 1 \in DOMAIN replies
  BY FetchedBoard
<1>3. \A i \in DOMAIN mem' :
          /\ i \in DOMAIN rows /\ mem'[i].id = rows[i].id
          /\ mem'[i].status = rows[i].status /\ mem'[i].selected = rows[i].selected
  BY <1>1, FetchedBoard
<1>4. Behind(0, ops[p].load, ops[p].who)
  BY DEF HeldConfirm, ConfirmInv, Kept
<1>5. AllConfirm(rows, ops[p].load, ops[p].who)
  BY <1>1, <1>2, <1>4 DEF Behind
<1>6. QED
  BY <1>3, <1>5 DEF AllConfirm, Confirms

(* A fetch whose handler is no login. *)
LEMMA BoardReadConfirm ==
    ASSUME HeldConfirm, LoadsRead, ~Fetches(replies[1].owner)
    PROVE  ConfirmInv'
<1>1. PICK o, rows : o = replies[1].owner /\ rows = replies[1].rows
  OBVIOUS
<1>2. /\ o \in OpIds /\ ops[o].step = "read" /\ UNCHANGED user /\ 1 \in DOMAIN replies
      /\ Wired(1) /\ TasksOpen'
      /\ \A p \in OpIds : p # o => ops'[p] = ops[p]
      /\ \A i \in DOMAIN mem' :
            /\ i \in DOMAIN rows /\ mem'[i].id = rows[i].id
            /\ user \in Carriers => BoardMark(i)' = Mark(rows[i].bids)
  BY <1>1, FetchedBoard
<1>3. ~Asks(o) /\ ~Fetches(o)
  BY <1>1, <1>2 DEF Asks
<1>4. InSession' => InSession /\ user' = user
  BY <1>2, <1>3, SessionStays
<1>5. ASSUME CarrierSession' PROVE BoardMarks
  <2>1. user \in Carriers
    BY <1>2, <1>5 DEF CarrierSession
  <2>2. ASSUME NEW i \in DOMAIN mem' PROVE Marked(mem'[i].id, BoardMark(i)')
    <3>1. PICK l, m : l = rows[i].id /\ m = Mark(rows[i].bids)
      OBVIOUS
    <3>2. i \in DOMAIN rows /\ mem'[i].id = l /\ BoardMark(i)' = m
      BY <1>2, <2>1, <2>2, <3>1
    <3>3. MarkIn(replies[1].rows, l, m)
      BY <1>1, <3>1, <3>2 DEF MarkIn
    <3>4. Marked(l, m)
      BY <1>2, <3>3 DEF Marked
    <3>5. QED
      BY <3>2, <3>4
  <2>3. QED
    BY <2>2 DEF BoardMarks
<1>6. BoardConfirms
  BY ReadConfirms DEF BoardConfirms
<1>7. SessionGoes
  BY <1>4, <1>5, <1>6 DEF SessionGoes
<1>8. QED
  BY <1>2, <1>7, WiredKeeps

(* A login's fetch: no write is under way, and what was read is the table. *)
LEMMA LoginLeaves ==
    ASSUME HeldConfirm, LoadsRead, NEW o, o = replies[1].owner, Fetches(o)
    PROVE  /\ \A p \in DOMAIN Pipe' : Pipe'[p].call \notin {"updateLoadBids", "updateLoad"}
           /\ \A i \in DOMAIN queue' : queue'[i].call # "updateLoad"
           /\ \A k \in DOMAIN replies : replies[k].rows \in {<<>>, db}
           /\ \A p \in OpIds : ~Judges(p)' /\ ~Answering(p)'
<1>1. /\ o \in OpIds /\ RepliesMoved(1) /\ UNCHANGED <<user, db, queue>>
      /\ 1 \in DOMAIN replies /\ replies[1].call = "getLoads"
      /\ 1 \in DOMAIN Pipe /\ Pipe[1].call = "getLoads" /\ Pipe[1].owner = o
      /\ \A p \in OpIds : p # o => ops'[p] = ops[p]
      /\ Wired(1) /\ ops[o].step = "read" /\ o <= started
  BY FetchedBoard
<1>2. /\ \A p \in DOMAIN Pipe : Pipe[p].call \notin Opening
      /\ \A q \in DOMAIN Pipe : q > 1 => Pipe[q].call # "updateLoad"
  BY <1>1 DEF HeldConfirm, HeldChoice, ChoiceInv, FetchesLast
<1>3. \A p \in DOMAIN Pipe : Pipe[p].call \notin {"updateLoadBids", "updateLoad"}
  <2>1. \A p \in DOMAIN Pipe : p = 1 \/ p > 1
    BY ConfirmHeld
  <2>2. QED
    BY <1>1, <1>2, <2>1 DEF Opening
<1>4. \A p \in DOMAIN Pipe' : Moved(p, 1)
  BY <1>1, ConfirmHeld, PipeKept
<1>5. \A p \in DOMAIN Pipe' : Pipe'[p].call \notin {"updateLoadBids", "updateLoad"}
  BY <1>3, <1>4 DEF Moved
<1>6. ASSUME NEW i \in DOMAIN queue' PROVE queue'[i].call # "updateLoad"
  <2>1. Len(replies') + i \in DOMAIN Pipe'
    BY ConfirmHeld DEF PipeFacts, PipeSizes
  <2>2. Pipe'[Len(replies') + i] = [call |-> queue'[i].call, owner |-> queue'[i].owner,
                                    load |-> queue'[i].row.id]
    BY ConfirmHeld DEF PipeFacts, WaitingNext
  <2>3. PICK c : c = queue'[i].call
    OBVIOUS
  <2>4. Pipe'[Len(replies') + i].call = c
    BY <2>2, <2>3
  <2>5. QED
    BY <1>5, <2>1, <2>3, <2>4
<1>7. \A k \in DOMAIN replies : replies[k].rows \in {<<>>, db}
  <2>1. \A k \in DOMAIN replies : k >= 1
    BY ConfirmHeld DEF PipeFacts, PipeSizes
  <2>2. QED
    BY <1>1, <2>1 DEF HeldConfirm, ConfirmInv, FetchedNow
<1>8. ASSUME NEW p \in OpIds, Judges(p)' PROVE FALSE
  <2>1. OpGoes(p, 1)
    BY <1>1 DEF Wired
  <2>2. VerdictGoes(p, 1)
    BY <1>8, <2>1 DEF OpGoes
  <2>3. ~InSession
    BY <1>1 DEF InSession
  <2>4. Judges(p)
    BY <2>2, <2>3 DEF VerdictGoes
  <2>5. PICK q \in DOMAIN Pipe : Pipe[q].owner = p
    BY <2>4 DEF HeldConfirm, ConfirmInv, NegotiationOps
  <2>6. WaitsFor(ops[p], Pipe[q].call)
    BY <2>5 DEF HeldConfirm, ConfirmInv, AwaitedCalls
  <2>7. Pipe[q].call \in {"updateLoadBids", "updateLoad"}
    BY <2>4, <2>6 DEF WaitsFor, Judges
  <2>8. QED
    BY <1>3, <2>7
<1>9. ASSUME NEW p \in OpIds, Answering(p)' PROVE FALSE
  <2>1. OpGoes(p, 1)
    BY <1>1 DEF Wired
  <2>2. p # o
    <3>1. ops[o].kind = "login"
      BY DEF Fetches
    <3>2. ops'[o].kind = "login"
      BY <1>1, <3>1 DEF Wired, OpGoes, SameOp
    <3>3. QED
      BY <1>9, <3>2 DEF Answering, AnswerKinds
  <2>3. ops[p].kind \in AnswerKinds /\ ops[p].step \in {"dialog", "writeLoad"}
    BY <1>1, <1>9, <2>2 DEF Answering
  <2>4. /\ ops[p].step = "dialog" => CarrierSession
        /\ ops[p].step = "writeLoad" =>
              \E q \in DOMAIN Pipe : Pipe[q].call = "updateLoad" /\ Pipe[q].owner = p
    BY <2>3 DEF HeldConfirm, HeldChoice, ChoiceInv, AnswersWait
  <2>5. ~CarrierSession
    BY <1>1 DEF CarrierSession, InSession
  <2>6. QED
    BY <1>3, <2>3, <2>4, <2>5
<1>10. QED
  BY <1>5, <1>6, <1>7, <1>8, <1>9

LEMMA LoginReadMarks ==
    ASSUME HeldConfirm, LoadsRead, Fetches(replies[1].owner)
    PROVE  SessionMarks'
<1>1. PICK o, rows : o = replies[1].owner /\ rows = replies[1].rows
  OBVIOUS
<1>2. /\ RepliesMoved(1) /\ UNCHANGED <<user, db, queue>> /\ 1 \in DOMAIN replies
      /\ \A i \in DOMAIN mem' :
            /\ i \in DOMAIN rows /\ mem'[i].id = rows[i].id
            /\ user \in Carriers => BoardMark(i)' = Mark(rows[i].bids)
  BY <1>1, FetchedBoard
<1>3. /\ \A i \in DOMAIN queue' : queue'[i].call # "updateLoad"
      /\ \A k \in DOMAIN replies : replies[k].rows \in {<<>>, db}
      /\ \A p \in OpIds : ~Judges(p)' /\ ~Answering(p)'
  BY <1>1, LoginLeaves
<1>4. ASSUME NEW k \in DOMAIN replies, NEW i \in DOMAIN replies[k].rows
      PROVE  i \in DOMAIN db /\ replies[k].rows[i] = db[i]
  <2>1. CASE replies[k].rows = <<>>
    BY <1>4, <2>1, EmptySeq
  <2>2. CASE replies[k].rows = db
    BY <1>4, <2>2
  <2>3. QED
    BY <1>3, <2>1, <2>2
<1>5. ASSUME CarrierSession', NEW l, NEW m, Marked(l, m)'
      PROVE  MarkIn(db, l, m)
  <2>1. user \in Carriers
    BY <1>2, <1>5 DEF CarrierSession
  <2>2. CASE \E i \in DOMAIN mem' : mem'[i].id = l /\ BoardMark(i)' = m
    BY <1>1, <1>2, <1>4, <2>1, <2>2 DEF MarkIn
  <2>3. CASE \E i \in DOMAIN db' : db'[i].id = l /\ Mark(db[i].bids)' = m
    BY <1>2, <2>3 DEF MarkIn, Mark
  <2>4. CASE \E k \in DOMAIN replies' : \E i \in DOMAIN replies'[k].rows :
              replies'[k].rows[i].id = l /\ Mark(replies[k].rows[i].bids)' = m
    <3>1. PICK k \in DOMAIN replies' : \E i \in DOMAIN replies'[k].rows :
              replies'[k].rows[i].id = l /\ Mark(replies[k].rows[i].bids)' = m
      BY <2>4
    <3>2. k + 1 \in DOMAIN replies /\ replies'[k] = replies[k + 1]
      BY <1>2 DEF RepliesMoved
    <3>3. PICK i \in DOMAIN replies[k + 1].rows :
              replies[k + 1].rows[i].id = l /\ Mark(replies[k + 1].rows[i].bids) = m
      BY <1>2, <3>1, <3>2 DEF Mark
    <3>4. QED
      BY <1>4, <3>2, <3>3 DEF MarkIn
  <2>5. CASE \E i \in DOMAIN queue' : queue'[i].call = "updateLoad"
    BY <1>3, <2>5
  <2>6. QED
    BY <1>5, <2>2, <2>3, <2>4, <2>5 DEF Marked, MarkOnBoard, MarkIn, MarkWritten, BoardMark
<1>6. ASSUME CarrierSession', NEW l \in Loads, Marked(l, "accepted")', Marked(l, "open")'
      PROVE  FALSE
  <2>1. MarkIn(db, l, "accepted") /\ MarkIn(db, l, "open")
    BY <1>5, <1>6
  <2>2. UniqueAt(db, l)
    BY DEF HeldConfirm, HeldChoice, Held, ListInv, Unique
  <2>3. PICK i \in DOMAIN db : db[i].id = l /\ Mark(db[i].bids) = "accepted"
    BY <2>1 DEF MarkIn
  <2>4. PICK j \in DOMAIN db : db[j].id = l /\ Mark(db[j].bids) = "open"
    BY <2>1 DEF MarkIn
  <2>5. i = j
    BY <2>2, <2>3, <2>4 DEF UniqueAt
  <2>6. QED
    BY <2>3, <2>4, <2>5
<1>7. QED
  BY <1>3, <1>6 DEF SessionMarks

LEMMA LoginReadKept ==
    ASSUME HeldConfirm, LoadsRead, Fetches(replies[1].owner)
    PROVE  Kept'
<1> SUFFICES ASSUME NEW p \in OpIds, NEW n \in Nat, Place(p, n)', Unchallenged(p)'
             PROVE  /\ Behind(n, ops[p].load, ops[p].who)'
                    /\ n = 0 /\ AllConfirm(mem, ops[p].load, ops[p].who)'
  BY DEF Kept
<1>1. PICK o : o = replies[1].owner
  OBVIOUS
<1>2. /\ RepliesMoved(1) /\ UNCHANGED <<db, queue>> /\ Wired(1)
      /\ 1 \in DOMAIN Pipe /\ Pipe[1].call = "getLoads"
  BY <1>1, FetchedBoard
<1>3. \A q \in DOMAIN Pipe' : Pipe'[q].call \notin {"updateLoadBids", "updateLoad"}
  BY <1>1, LoginLeaves
<1>4. n = 0
  BY <1>3 DEF Place
<1>5. /\ p <= started /\ SameOp(p)
      /\ \E m \in Nat : Place(p, m) /\ n <= m /\ m <= n + 1 /\ (m = 0 => n = 0)
  BY <1>2, <1>4, PlaceBefore
<1>6. PICK m \in Nat : Place(p, m) /\ m <= n + 1
  BY <1>5
<1>7. m # 1
  BY <1>2, <1>6 DEF Place
<1>8. m = 0
  BY <1>4, <1>6, <1>7
<1>9. Place(p, 0) /\ Unchallenged(p)
  BY <1>2, <1>5, <1>6, <1>8, UnchallengedBefore
<1>10. PICK l, c : l = ops[p].load /\ c = ops[p].who
  OBVIOUS
<1>11. ops'[p].load = l /\ ops'[p].who = c
  BY <1>5, <1>10 DEF SameOp
<1>12. AllConfirm(mem', l, c)
  BY <1>9, <1>10, ReadConfirms
<1>13. Behind(0, l, c)
  BY <1>9, <1>10 DEF HeldConfirm, ConfirmInv, Kept
<1>14. /\ AllConfirm(db, l, c)
       /\ \A k \in DOMAIN replies' : AllConfirm(replies'[k].rows, l, c)
       /\ \A i \in DOMAIN queue' : queue'[i].call # "updateLoad"
  <2>1. AllConfirm(db, l, c)
    BY <1>13, ConfirmHeld DEF Behind
  <2>2. ASSUME NEW k \in DOMAIN replies' PROVE AllConfirm(replies'[k].rows, l, c)
    <3>1. k + 1 \in DOMAIN replies /\ replies'[k] = replies[k + 1]
      BY <1>2 DEF RepliesMoved
    <3>2. k + 1 > 0
      BY ConfirmHeld DEF PipeFacts, PipeSizes
    <3>3. QED
      BY <1>13, <3>1, <3>2 DEF Behind
  <2>3. QED
    BY <1>1, <2>1, <2>2, LoginLeaves
<1>15. Behind(n, l, c)'
  BY <1>2, <1>14 DEF Behind, AllConfirm, Confirms
<1>16. QED
  BY <1>4, <1>11, <1>12, <1>15 DEF Behind, AllConfirm, Confirms

LEMMA LoadsReadConfirm ==
    ASSUME HeldConfirm, LoadsRead
    PROVE  ConfirmInv'
<1>1. CASE ~Fetches(replies[1].owner)
  BY <1>1, BoardReadConfirm
<1>2. CASE Fetches(replies[1].owner)
  <2>1. Wired(1) /\ TasksOpen'
    BY FetchedBoard
  <2>2. AwaitedCalls' /\ RowsOwned' /\ NegotiationOps' /\ ListsInPlace' /\ FetchedNow'
        /\ ConfirmRows'
    BY <2>1, AwaitedKept, OpsKeptNegotiating, PlacesKept, FetchedKept, ConfirmRowsKept
  <2>3. SessionMarks' /\ Kept'
    BY <1>2, LoginReadMarks, LoginReadKept
  <2>4. QED
    BY <2>1, <2>2, <2>3 DEF ConfirmInv
<1>3. QED
  BY <1>1, <1>2

(* The database: what a call that is executed, or fails, leaves. *)
NextCall(req, ok, rows) ==
    /\ queue # <<>> /\ req = Head(queue) /\ queue' = Tail(queue)
    /\ replies' = Append(replies, [call |-> req.call, owner |-> req.owner,
                                   load |-> req.row.id, ok |-> ok, rows |-> rows])
    /\ UNCHANGED <<mem, lists, tasks, ops, started, user>>
    /\ \/ ok /\ db' = Written(db, req) /\ rows \in {db, <<>>}
       \/ ~ok /\ db' = db /\ rows = <<>>

CallPlace(req, ok, rows, m) ==
    /\ Pipe' = Pipe /\ m \in Nat /\ Len(replies') = m /\ m \in DOMAIN replies'
    /\ DOMAIN replies = 1..Len(replies) /\ DOMAIN replies' = 1..m
    /\ \A k \in DOMAIN replies' : k \in DOMAIN replies \/ k = m
    /\ \A k \in DOMAIN replies : replies'[k] = replies[k] /\ k < m /\ k \in DOMAIN replies'
    /\ replies'[m].rows = rows /\ replies'[m].ok = ok
    /\ replies'[m].call = req.call /\ replies'[m].owner = req.owner
    /\ m \in DOMAIN Pipe /\ Pipe[m].call = req.call /\ Pipe[m].owner = req.owner
    /\ Pipe[m].load = req.row.id /\ req.owner \in OpIds /\ req.row \in GoodRow
    /\ WaitsFor(ops[req.owner], req.call)
    /\ 1 \in DOMAIN queue /\ req = queue[1]
    /\ \A i \in DOMAIN queue' : i \in Nat /\ i + 1 \in DOMAIN queue
                                /\ queue'[i] = queue[i + 1]

LEMMA CallKeepsPlace ==
    ASSUME HeldConfirm, NEW req, NEW ok \in BOOLEAN, NEW rows, NextCall(req, ok, rows),
           NEW m, m = Len(replies) + 1
    PROVE  CallPlace(req, ok, rows, m)
<1>0. PICK n : n = Len(replies)
  OBVIOUS
<1> DEFINE r == [call |-> req.call, owner |-> req.owner, load |-> req.row.id,
                 ok |-> ok, rows |-> rows]
<1>1. r.call = req.call /\ r.owner = req.owner /\ r.load = req.row.id /\ r.ok = ok /\ r.rows = rows
  OBVIOUS
<1>2. /\ replies' = Append(replies, r) /\ queue # <<>> /\ queue' = Tail(queue)
      /\ req = Head(queue)
  BY DEF NextCall
<1> HIDE DEF r
<1>3. /\ Pipe' = Pipe /\ Len(replies') = n + 1
      /\ \A k \in DOMAIN replies : replies'[k] = replies[k]
      /\ replies'[n + 1] = r
  BY <1>0, <1>1, <1>2, ConfirmHeld, PipeExecuted DEF HeldChoice, Held
<1>4. /\ n \in Nat /\ DOMAIN replies = 1..n /\ DOMAIN replies' = 1..(n + 1) /\ m = n + 1
  BY <1>0, <1>3, ConfirmHeld DEF PipeFacts, PipeSizes
<1>5. /\ n + 1 \in DOMAIN Pipe /\ req \in GoodRequest
      /\ Pipe[n + 1] = [call |-> req.call, owner |-> req.owner, load |-> req.row.id]
  BY <1>0, <1>2, ConfirmHeld, FirstCall DEF HeldChoice
<1>6. /\ m \in DOMAIN Pipe /\ Pipe[m].call = req.call /\ Pipe[m].owner = req.owner
      /\ Pipe[m].load = req.row.id
  BY <1>4, <1>5
<1>7. req.owner \in OpIds /\ req.row \in GoodRow
  BY <1>5 DEF GoodRequest, Request, GoodRow
<1>8. WaitsFor(ops[Pipe[m].owner], Pipe[m].call)
  BY <1>6 DEF HeldConfirm, ConfirmInv, AwaitedCalls
<1>9. /\ 1 \in DOMAIN queue /\ req = queue[1]
      /\ \A i \in DOMAIN queue' : i \in Nat /\ i + 1 \in DOMAIN queue
                                  /\ queue'[i] = queue[i + 1]
  BY <1>2, HeadTailProperties, LenProperties, EmptySeq, ConfirmHeld
     DEF HeldChoice, Held, GoodQueue
<1>10. /\ \A k \in DOMAIN replies' : k \in DOMAIN replies \/ k = m
       /\ \A k \in DOMAIN replies : k < m /\ k \in DOMAIN replies'
       /\ m \in DOMAIN replies' /\ m \in Nat
  BY <1>4
<1>11. /\ replies'[m].rows = rows /\ replies'[m].ok = ok
       /\ replies'[m].call = req.call /\ replies'[m].owner = req.owner
  BY <1>1, <1>3, <1>4
<1>12. QED
  BY <1>0, <1>3, <1>4, <1>6, <1>7, <1>8, <1>9, <1>10, <1>11 DEF CallPlace

(* The rows of the table after it: the row that was written, bids without  *)
(* their status, or as before.                                             *)
LEMMA RowsExecuted ==
    ASSUME HeldConfirm, NEW req, NEW ok \in BOOLEAN, NEW rows, NextCall(req, ok, rows)
    PROVE  /\ req.call \in {"getUser", "getLoads", "updateLoadBids", "updateLoad"}
           /\ req.call \in {"getUser", "getLoads"} => db' = db
           /\ DOMAIN db' = DOMAIN db
           /\ \A i \in DOMAIN db :
                 /\ db'[i].id = db[i].id
                 /\ \/ db'[i] = db[i]
                    \/ /\ req.call = "updateLoad" /\ db[i].id = req.row.id
                       /\ db'[i] = req.row
                    \/ /\ req.call = "updateLoadBids" /\ db[i].id = req.row.id
                       /\ db'[i].status = db[i].status /\ db'[i].selected = db[i].selected
                       /\ db'[i].bids = Stripped(req.row.bids)
                 /\ ok /\ req.call = "updateLoad" /\ db[i].id = req.row.id => db'[i] = req.row
<1>1. /\ req.call \in {"getUser", "getLoads", "updateLoadBids", "updateLoad"}
      /\ req.row \in GoodRow
  <2>1. PICK m : m = Len(replies) + 1
    OBVIOUS
  <2>2. WaitsFor(ops[req.owner], req.call) /\ req.row \in GoodRow
    <3>1. CallPlace(req, ok, rows, m)
      BY <2>1, CallKeepsPlace
    <3>2. QED
      BY <3>1 DEF CallPlace
  <2>3. QED
    BY <2>2 DEF WaitsFor
<1>2. \A i \in DOMAIN db : db[i] \in Row
  BY LenProperties, ElementOfSeq DEF GoodRow, HeldConfirm, HeldChoice, Held, IInv, GoodDb
<1>3. CASE ~ok
  <2>1. db' = db
    BY <1>3 DEF NextCall
  <2>2. QED
    BY <1>1, <1>3, <2>1
<1>4. CASE ok
  <2>1. db' = Written(db, req)
    BY <1>4 DEF NextCall
  <2>2. CASE req.call \in {"getUser", "getLoads"}
    <3>1. db' = db
      BY <2>1, <2>2 DEF Written
    <3>2. QED
      BY <1>1, <2>2, <3>1
  <2>3. CASE req.call = "updateLoad"
    <3>1. db' = [i \in DOMAIN db |-> IF db[i].id = req.row.id THEN req.row ELSE db[i]]
      BY <2>1, <2>3 DEF Written
    <3>2. DOMAIN db' = DOMAIN db
      BY <3>1
    <3>3. \A i \in DOMAIN db : \/ db[i].id = req.row.id /\ db'[i] = req.row
                               \/ db[i].id # req.row.id /\ db'[i] = db[i]
      BY <3>1
    <3>4. QED
      BY <1>1, <2>3, <3>2, <3>3
  <2>4. CASE req.call = "updateLoadBids"
    <3>1. db' = [i \in DOMAIN db |->
                    IF db[i].id = req.row.id
                    THEN [db[i] EXCEPT !.bids = Stripped(req.row.bids)]
                    ELSE db[i]]
      BY <2>1, <2>4 DEF Written
    <3>2. DOMAIN db' = DOMAIN db
      BY <3>1
    <3>3. ASSUME NEW i \in DOMAIN db
          PROVE  /\ db'[i].id = db[i].id
                 /\ \/ db'[i] = db[i]
                    \/ /\ db[i].id = req.row.id
                       /\ db'[i].status = db[i].status /\ db'[i].selected = db[i].selected
                       /\ db'[i].bids = Stripped(req.row.bids)
      <4>1. CASE db[i].id = req.row.id
        <5>1. db'[i] = [db[i] EXCEPT !.bids = Stripped(req.row.bids)]
          BY <3>1, <4>1
        <5>2. db[i] \in Row
          BY <1>2
        <5>3. QED
          BY <4>1, <5>1, <5>2 DEF Row
      <4>2. CASE db[i].id # req.row.id
        BY <3>1, <4>2
      <4>3. QED
        BY <4>1, <4>2
    <3>4. QED
      BY <1>1, <2>4, <3>2, <3>3
  <2>5. QED
    BY <1>1, <2>2, <2>3, <2>4
<1>5. QED
  BY <1>3, <1>4

(* No copy with a mark of its own appears: only a verdict strips bids, and *)
(* where one is under way no copy of the load says accepted.               *)
LEMMA MarkedExecuted ==
    ASSUME HeldConfirm, NEW req, NEW ok \in BOOLEAN, NEW rows, NextCall(req, ok, rows),
           CarrierSession, NEW l, NEW k, Marked(l, k)'
    PROVE  Marked(l, k)
<1>1. PICK m : m = Len(replies) + 1
  OBVIOUS
<1>2. /\ \A j \in DOMAIN replies' : j \in DOMAIN replies \/ j = m
      /\ \A j \in DOMAIN replies : replies'[j] = replies[j]
      /\ replies'[m].rows = rows
      /\ m \in DOMAIN Pipe /\ Pipe[m].call = req.call /\ Pipe[m].owner = req.owner
      /\ Pipe[m].load = req.row.id /\ req.owner \in OpIds
      /\ WaitsFor(ops[req.owner], req.call)
      /\ 1 \in DOMAIN queue /\ req = queue[1]
      /\ \A i \in DOMAIN queue' : i + 1 \in DOMAIN queue /\ queue'[i] = queue[i + 1]
  <2>1. CallPlace(req, ok, rows, m)
    BY <1>1, CallKeepsPlace
  <2>2. QED
    BY <2>1 DEF CallPlace
<1>3. /\ UNCHANGED <<mem, lists, user>> /\ rows \in {db, <<>>} /\ user \in Bidders
  BY DEF NextCall, CarrierSession, Bidders
<1>4. CASE \E i \in DOMAIN mem' : mem'[i].id = l /\ BoardMark(i)' = k
  BY <1>3, <1>4 DEF Marked, MarkOnBoard, BoardMark, Mark, ToRow
<1>5. CASE \E i \in DOMAIN db' : db'[i].id = l /\ Mark(db[i].bids)' = k
  <2>1. PICK i \in DOMAIN db' : db'[i].id = l /\ Mark(db[i].bids)' = k
    BY <1>5
  <2>2. Mark(db'[i].bids) = k
    BY <1>3, <2>1 DEF Mark
  <2>3. /\ i \in DOMAIN db /\ db[i].id = l
        /\ \/ db'[i] = db[i]
           \/ req.call = "updateLoad" /\ db[i].id = req.row.id /\ db'[i] = req.row
           \/ /\ req.call = "updateLoadBids" /\ db[i].id = req.row.id
              /\ db'[i].bids = Stripped(req.row.bids)
    BY <2>1, RowsExecuted
  <2>4. CASE db'[i] = db[i]
    BY <2>2, <2>3, <2>4 DEF Marked, MarkIn
  <2>5. CASE req.call = "updateLoad" /\ db[i].id = req.row.id /\ db'[i] = req.row
    BY <1>2, <2>2, <2>3, <2>5 DEF Marked, MarkWritten
  <2>6. CASE /\ req.call = "updateLoadBids" /\ db[i].id = req.row.id
             /\ db'[i].bids = Stripped(req.row.bids)
    <3>1. Judges(req.owner)
      BY <1>2, <2>6 DEF WaitsFor, Judges
    <3>2. Pipe[m].load = ops[Pipe[m].owner].load
      BY <1>2, <2>6 DEF HeldConfirm, ConfirmInv, RowsOwned
    <3>3. ops[req.owner].load = l
      BY <1>2, <2>3, <2>6, <3>2
    <3>4. ~Marked(l, "accepted")
      BY <1>2, <3>1, <3>3 DEF HeldConfirm, ConfirmInv, SessionMarks
    <3>5. Mark(db[i].bids) # "accepted"
      BY <2>3, <3>4 DEF Marked, MarkIn
    <3>6. Mark(db[i].bids) = "open"
      BY <3>5 DEF Mark
    <3>7. k = "open"
      <4>1. Stripped(req.row.bids)[user] # "accepted"
        BY <1>3 DEF Stripped
      <4>2. QED
        BY <2>2, <2>6, <4>1 DEF Mark
    <3>8. QED
      BY <2>3, <3>6, <3>7 DEF Marked, MarkIn
  <2>7. QED
    BY <2>3, <2>4, <2>5, <2>6
<1>6. CASE \E j \in DOMAIN replies' : \E i \in DOMAIN replies'[j].rows :
              replies'[j].rows[i].id = l /\ Mark(replies[j].rows[i].bids)' = k
  <2>1. PICK j \in DOMAIN replies' : \E i \in DOMAIN replies'[j].rows :
              replies'[j].rows[i].id = l /\ Mark(replies[j].rows[i].bids)' = k
    BY <1>6
  <2>2. PICK i \in DOMAIN replies'[j].rows :
              replies'[j].rows[i].id = l /\ Mark(replies'[j].rows[i].bids) = k
    BY <1>3, <2>1 DEF Mark
  <2>3. CASE j \in DOMAIN replies
    <3>1. replies'[j] = replies[j]
      BY <1>2, <2>3
    <3>2. MarkIn(replies[j].rows, l, k)
      BY <2>2, <3>1 DEF MarkIn
    <3>3. QED
      BY <2>3, <3>2 DEF Marked
  <2>4. CASE j = m
    <3>1. i \in DOMAIN rows /\ rows[i].id = l /\ Mark(rows[i].bids) = k
      BY <1>2, <2>2, <2>4
    <3>2. rows = db
      BY <1>3, <3>1, EmptySeq
    <3>3. QED
      BY <3>1, <3>2 DEF Marked, MarkIn
  <2>5. QED
    BY <1>2, <2>1, <2>3, <2>4
<1>7. CASE \E i \in DOMAIN queue' : /\ queue'[i].call = "updateLoad" /\ queue'[i].row.id = l
                                    /\ Mark(queue[i].row.bids)' = k
  <2>1. PICK i \in DOMAIN queue' : /\ queue'[i].call = "updateLoad" /\ queue'[i].row.id = l
                                   /\ Mark(queue[i].row.bids)' = k
    BY <1>7
  <2>2. Mark(queue'[i].row.bids) = k
    BY <1>3, <2>1 DEF Mark
  <2>3. i + 1 \in DOMAIN queue /\ queue'[i] = queue[i + 1]
    BY <1>2
  <2>4. QED
    BY <2>1, <2>2, <2>3 DEF Marked, MarkWritten
<1>8. QED
  BY <1>4, <1>5, <1>6, <1>7 DEF Marked, MarkOnBoard, MarkIn, MarkWritten, BoardMark

LEMMA PlacesExecuted ==
    ASSUME HeldConfirm, NEW req, NEW ok \in BOOLEAN, NEW rows, NextCall(req, ok, rows)
    PROVE  /\ AwaitedCalls' /\ RowsOwned' /\ NegotiationOps' /\ TasksOpen'
           /\ ListsInPlace' /\ FetchedNow' /\ ConfirmRows'
<1>1. PICK m : m = Len(replies) + 1
  OBVIOUS
<1>2. /\ Pipe' = Pipe /\ m \in Nat
      /\ \A j \in DOMAIN replies' : j \in DOMAIN replies \/ j = m
      /\ \A j \in DOMAIN replies : replies'[j] = replies[j] /\ j < m
      /\ replies'[m].rows = rows /\ replies'[m].call = req.call /\ replies'[m].owner = req.owner
      /\ m \in DOMAIN Pipe /\ Pipe[m].call = req.call
      /\ \A i \in DOMAIN queue' : i + 1 \in DOMAIN queue /\ queue'[i] = queue[i + 1]
  <2>1. CallPlace(req, ok, rows, m)
    BY <1>1, CallKeepsPlace
  <2>2. QED
    BY <2>1 DEF CallPlace
<1>3. /\ UNCHANGED <<mem, lists, tasks, ops, started, user>> /\ rows \in {db, <<>>}
  BY DEF NextCall
<1>4. /\ req.call \in {"getUser", "getLoads", "updateLoadBids", "updateLoad"}
      /\ req.call \in {"getUser", "getLoads"} => db' = db
      /\ DOMAIN db' = DOMAIN db /\ \A i \in DOMAIN db : db'[i].id = db[i].id
  BY RowsExecuted
<1>5. AwaitedCalls' /\ RowsOwned' /\ TasksOpen'
  BY <1>2, <1>3 DEF HeldConfirm, ConfirmInv, AwaitedCalls, RowsOwned, TasksOpen
<1>6. NegotiationOps'
  <2>1. \A o \in OpIds :
          /\ ops[o].kind \in NegotiationKinds \cup {"none"}
          /\ Judges(o) =>
                /\ \E p \in DOMAIN Pipe : Pipe[p].owner = o
                /\ ops[o].index \in DOMAIN db' /\ db'[ops[o].index].id = ops[o].load
          /\ ops[o].step = "dialog" => o = started
    BY <1>4 DEF HeldConfirm, ConfirmInv, NegotiationOps
  <2>2. QED
    BY <1>2, <1>3, <2>1 DEF NegotiationOps, Judges
<1>7. ListsInPlace'
  <2>1. InPlace(mem) /\ \A k \in DOMAIN replies : InPlace(replies[k].rows)
    BY DEF HeldConfirm, ConfirmInv, ListsInPlace
  <2>2. ASSUME NEW k \in DOMAIN replies' PROVE InPlace(replies'[k].rows)
    <3>1. CASE k \in DOMAIN replies
      BY <1>2, <2>1, <3>1
    <3>2. CASE k = m
      BY <1>2, <1>3, <3>2, EmptySeq DEF InPlace
    <3>3. QED
      BY <1>2, <3>1, <3>2
  <2>3. QED
    BY <1>3, <1>4, <2>1, <2>2 DEF ListsInPlace, InPlace
<1>8. FetchedNow'
  <2> SUFFICES ASSUME NEW o \in OpIds, Fetches(o), NEW p \in DOMAIN replies',
                      replies'[p].call = "getLoads", replies'[p].owner = o,
                      NEW k \in DOMAIN replies', k >= p
               PROVE  replies'[k].rows \in {<<>>, db'}
    BY <1>3 DEF FetchedNow, Fetches
  <2>1. db' = db
    <3>1. CASE p \in DOMAIN replies
      <4>1. replies[p].call = "getLoads" /\ replies[p].owner = o /\ m > p
        BY <1>2, <3>1, ConfirmHeld DEF PipeFacts, PipeSizes
      <4>2. Pipe[p] = [call |-> replies[p].call, owner |-> replies[p].owner,
                       load |-> replies[p].load]
        BY <3>1, ConfirmHeld DEF PipeFacts, ExecutedFirst
      <4>3. p \in DOMAIN Pipe /\ Pipe[p].call = "getLoads" /\ Pipe[p].owner = o
        BY <3>1, <4>1, <4>2, ConfirmHeld DEF PipeFacts, PipeSizes
      <4>4. Pipe[m].call \notin Opening /\ Pipe[m].call # "updateLoad"
        BY <1>2, <4>1, <4>3 DEF HeldConfirm, HeldChoice, ChoiceInv, FetchesLast
      <4>5. QED
        BY <1>2, <1>4, <4>4 DEF Opening
    <3>2. CASE p = m
      BY <1>2, <1>4, <3>2
    <3>3. QED
      BY <1>2, <3>1, <3>2
  <2>2. CASE k = m
    BY <1>2, <1>3, <2>1, <2>2
  <2>3. CASE k \in DOMAIN replies
    <3>1. p \in DOMAIN replies
      BY <1>2, <2>3, ConfirmHeld DEF PipeFacts, PipeSizes
    <3>2. replies[k].rows \in {<<>>, db}
      BY <1>2, <2>3, <3>1 DEF HeldConfirm, ConfirmInv, FetchedNow
    <3>3. QED
      BY <1>2, <2>1, <2>3, <3>2
  <2>4. QED
    BY <1>2, <2>2, <2>3
<1>9. ConfirmRows'
  <2>1. ASSUME NEW i \in DOMAIN queue', queue'[i].call = "updateLoad",
               ops[queue'[i].owner].kind = "confirm"
        PROVE  Confirms(queue'[i].row, ops[queue'[i].owner].load, ops[queue'[i].owner].who)
    BY <1>2, <2>1 DEF HeldConfirm, ConfirmInv, ConfirmRows
  <2>2. QED
    BY <1>3, <2>1 DEF ConfirmRows, Confirms
<1>10. QED
  BY <1>5, <1>6, <1>7, <1>8, <1>9

LEMMA KeptExecuted ==
    ASSUME HeldConfirm, NEW req, NEW ok \in BOOLEAN, NEW rows, NextCall(req, ok, rows)
    PROVE  Kept'
<1>1. PICK m : m = Len(replies) + 1
  OBVIOUS
<1>2. /\ Pipe' = Pipe /\ m \in Nat /\ Len(replies') = m /\ m \in DOMAIN replies'
      /\ DOMAIN replies = 1..Len(replies) /\ DOMAIN replies' = 1..m
      /\ \A k \in DOMAIN replies' : k \in DOMAIN replies \/ k = m
      /\ \A k \in DOMAIN replies : replies'[k] = replies[k] /\ k < m /\ k \in DOMAIN replies'
      /\ replies'[m].rows = rows /\ replies'[m].ok = ok
      /\ m \in DOMAIN Pipe /\ Pipe[m].call = req.call /\ Pipe[m].owner = req.owner
      /\ Pipe[m].load = req.row.id
      /\ 1 \in DOMAIN queue /\ req = queue[1]
      /\ \A i \in DOMAIN queue' : i \in Nat /\ i + 1 \in DOMAIN queue
                                  /\ queue'[i] = queue[i + 1]
  <2>1. CallPlace(req, ok, rows, m)
    BY <1>1, CallKeepsPlace
  <2>2. QED
    BY <2>1 DEF CallPlace
<1>3. /\ UNCHANGED <<mem, lists, tasks, ops, started, user>> /\ rows \in {db, <<>>}
  BY DEF NextCall
<1>4. /\ DOMAIN db' = DOMAIN db
      /\ \A i \in DOMAIN db :
            /\ db'[i].id = db[i].id
            /\ \/ db'[i] = db[i]
               \/ req.call = "updateLoad" /\ db'[i] = req.row
               \/ db'[i].status = db[i].status /\ db'[i].selected = db[i].selected
            /\ ok /\ req.call = "updateLoad" /\ db[i].id = req.row.id => db'[i] = req.row
  BY RowsExecuted
<1> SUFFICES ASSUME NEW o \in OpIds, NEW n \in Nat, Place(o, n)', Unchallenged(o)'
             PROVE  /\ Behind(n, ops[o].load, ops[o].who)'
                    /\ \/ n = 0 /\ AllConfirm(mem, ops[o].load, ops[o].who)'
                       \/ Closed(ops[o].load, ops[o].who)'
  BY DEF Kept
<1>5. PICK l, c : l = ops[o].load /\ c = ops[o].who
  OBVIOUS
<1>6. Unchallenged(o)
  BY <1>3 DEF Unchallenged, Supersedes
<1>7. /\ ops[o].kind = "confirm"
      /\ \/ n = 0 /\ ops[o].step = "done"
         \/ /\ n \in DOMAIN Pipe /\ Pipe[n].call = "updateLoad" /\ Pipe[n].owner = o
            /\ n \in DOMAIN replies' => replies'[n].ok
  BY <1>2, <1>3 DEF Place
<1>8. Place(o, n)
  BY <1>2, <1>7 DEF Place
<1>9. /\ Behind(n, l, c)
      /\ \/ n = 0 /\ AllConfirm(mem, l, c)
         \/ Closed(l, c)
  BY <1>5, <1>6, <1>8 DEF HeldConfirm, ConfirmInv, Kept
<1>10. Len(replies) \in Nat /\ m = Len(replies) + 1
  BY <1>1, ConfirmHeld
<1>11. ASSUME n <= m PROVE AllConfirm(db', l, c)
  <2>1. CASE n <= Len(replies)
    <3>1. AllConfirm(db, l, c)
      BY <1>9, <2>1 DEF Behind
    <3>2. req.call = "updateLoad" => Confirms(req.row, l, c)
      <4>1. Len(replies) + 1 > n
        BY <1>10, <2>1
      <4>2. QED
        BY <1>2, <1>9, <4>1 DEF Behind
    <3>3. QED
      BY <1>4, <3>1, <3>2 DEF AllConfirm, Confirms
  <2>2. CASE n = m
    <3>1. m # 0
      BY <1>10
    <3>2. Pipe[m].call = "updateLoad" /\ Pipe[m].owner = o /\ replies'[m].ok
      BY <1>2, <1>7, <2>2, <3>1
    <3>3. ok /\ req.call = "updateLoad" /\ req.owner = o
      BY <1>2, <3>2
    <3>4. Pipe[m].load = ops[Pipe[m].owner].load
      BY <1>2, <3>2 DEF HeldConfirm, ConfirmInv, RowsOwned
    <3>5. req.row.id = l
      BY <1>2, <1>5, <3>2, <3>4
    <3>6. Confirms(req.row, l, c)
      BY <1>2, <1>5, <1>7, <3>3 DEF HeldConfirm, ConfirmInv, ConfirmRows
    <3>7. QED
      BY <1>4, <3>3, <3>5, <3>6 DEF AllConfirm, Confirms
  <2>3. QED
    BY <1>10, <1>11, <2>1, <2>2
<1>12. ASSUME NEW k \in DOMAIN replies', k > n PROVE AllConfirm(replies'[k].rows, l, c)
  <2>1. CASE k \in DOMAIN replies
    BY <1>2, <1>9, <1>12, <2>1 DEF Behind
  <2>2. CASE k = m
    <3>1. n <= Len(replies)
      BY <1>10, <1>12, <2>2
    <3>2. AllConfirm(db, l, c)
      BY <1>9, <3>1 DEF Behind
    <3>3. QED
      BY <1>2, <1>3, <2>2, <3>2, EmptySeq DEF AllConfirm
  <2>3. QED
    BY <1>2, <2>1, <2>2
<1>13. ASSUME NEW i \in DOMAIN queue', queue'[i].call = "updateLoad", Len(replies') + i > n
       PROVE  Confirms(queue'[i].row, l, c)
  <2>1. i \in Nat /\ i + 1 \in DOMAIN queue /\ queue'[i] = queue[i + 1]
    BY <1>2
  <2>2. Len(replies) + (i + 1) > n
    BY <1>2, <1>10, <1>13, <2>1
  <2>3. QED
    BY <1>9, <1>13, <2>1, <2>2 DEF Behind
<1>14. Behind(n, l, c)'
  BY <1>2, <1>11, <1>12, <1>13 DEF Behind, AllConfirm, Confirms
<1>15. (n = 0 /\ AllConfirm(mem, l, c)') \/ Closed(l, c)'
  <2>1. CASE n = 0 /\ AllConfirm(mem, l, c)
    BY <1>3, <2>1 DEF AllConfirm, Confirms
  <2>2. CASE Closed(l, c)
    <3>1. InSession' => InSession /\ user' = user
      BY <1>3 DEF InSession, Asks, Fetches
    <3>2. ASSUME InSession' PROVE ~Marked(l, "open")'
      <4>1. CarrierSession /\ ~Marked(l, "open")
        BY <2>2, <3>1, <3>2 DEF Closed, CarrierSession
      <4>2. Marked(l, "open")' => Marked(l, "open")
        BY <4>1, MarkedExecuted
      <4>3. QED
        BY <4>1, <4>2
    <3>3. QED
      BY <1>3, <2>2, <3>1, <3>2 DEF Closed
  <2>3. QED
    BY <1>9, <2>1, <2>2
<1>16. QED
  BY <1>3, <1>5, <1>14, <1>15 DEF Behind, Closed, AllConfirm, Confirms, Marked, MarkOnBoard,
                                  MarkIn, MarkWritten

LEMMA ExecutedConfirm ==
    ASSUME HeldConfirm, NEW req, NEW ok \in BOOLEAN, NEW rows, NextCall(req, ok, rows)
    PROVE  ConfirmInv'
<1>1. UNCHANGED <<ops, user>>
  BY DEF NextCall
<1>2. CarrierSession' <=> CarrierSession
  BY <1>1 DEF CarrierSession, InSession, Asks, Fetches
<1>3. SessionMarks'
  <2> SUFFICES ASSUME CarrierSession
               PROVE  /\ \A l \in Loads : ~(Marked(l, "accepted")' /\ Marked(l, "open")')
                      /\ \A o \in OpIds : Judges(o)' => ~Marked(ops[o].load, "accepted")'
                      /\ \A o \in OpIds : Answering(o)' =>
                            ops'[o].who = user' /\ ~Marked(ops[o].load, "open")'
    BY <1>2 DEF SessionMarks
  <2>1. \A l, m : Marked(l, m)' => Marked(l, m)
    BY MarkedExecuted
  <2>2. /\ \A l \in Loads : ~(Marked(l, "accepted") /\ Marked(l, "open"))
        /\ \A o \in OpIds : Judges(o) => ~Marked(ops[o].load, "accepted")
        /\ \A o \in OpIds : Answering(o) =>
              ops[o].who = user /\ ~Marked(ops[o].load, "open")
    BY DEF HeldConfirm, ConfirmInv, SessionMarks
  <2>3. ASSUME NEW o \in OpIds, NEW m, Marked(ops[o].load, m)' PROVE Marked(ops[o].load, m)
    <3>1. PICK l : l = ops[o].load
      OBVIOUS
    <3>2. Marked(l, m)'
      BY <1>1, <2>3, <3>1 DEF Marked, MarkOnBoard, MarkIn, MarkWritten
    <3>3. QED
      BY <2>1, <3>1, <3>2
  <2>4. \A o \in OpIds : (Judges(o)' <=> Judges(o)) /\ (Answering(o)' <=> Answering(o))
    BY <1>1 DEF Judges, Answering
  <2>5. QED
    BY <1>1, <2>1, <2>2, <2>3, <2>4
<1>4. QED
  BY <1>3, PlacesExecuted, KeptExecuted DEF ConfirmInv

LEMMA DatabaseConfirm ==
    ASSUME HeldConfirm, DbExecute \/ DbFail
    PROVE  ConfirmInv'
<1>1. PICK req : req = Head(queue)
  OBVIOUS
<1>2. CASE DbExecute
  <2>1. PICK rows : rows = IF req.call = "getLoads" THEN db ELSE <<>>
    OBVIOUS
  <2>2. NextCall(req, TRUE, rows)
    BY <1>1, <1>2, <2>1 DEF DbExecute, NextCall, memory
  <2>3. QED
    BY <2>2, ExecutedConfirm
<1>3. CASE DbFail
  <2>1. NextCall(req, FALSE, <<>>)
    BY <1>1, <1>3 DEF DbFail, NextCall, memory
  <2>2. QED
    BY <2>1, ExecutedConfirm
<1>4. QED
  BY <1>2, <1>3

(* main() inserts a test load: nothing runs, and only a confirmation that  *)
(* was reported has a place.                                               *)
LEMMA InsertTestLoadConfirm ==
    ASSUME HeldConfirm, InsertTestLoad
    PROVE  ConfirmInv'
<1>0. PICK row : row = FreshRow(Seeds[boot + 1])
  OBVIOUS
<1>1. /\ boot < Len(Seeds) /\ db' = Append(Without(db, row.id), row)
      /\ UNCHANGED <<mem, lists, tasks, ops, started, user, queue, replies>>
  BY <1>0 DEF InsertTestLoad, memory
<1>2. /\ mem = <<>> /\ user = NoOne /\ queue = <<>> /\ replies = <<>>
  BY <1>1 DEF HeldConfirm, HeldChoice, Held, ListInv, BootsAlone, ChoiceInv, NobodyBoots, Booted
<1>3. /\ boot + 1 \in DOMAIN Seeds /\ Seeds[boot + 1] \in Loads
  BY <1>1, LoadsAssumption, LenProperties, ElementOfSeq
     DEF HeldConfirm, HeldChoice, Held, IInv, GoodRest
<1>4. row \in GoodRow /\ row.id = Seeds[boot + 1]
  BY <1>0, <1>3, FreshGood DEF FreshRow
<1>5. DOMAIN Pipe = {} /\ Pipe' = Pipe /\ DOMAIN mem = {} /\ DOMAIN replies = {} /\ DOMAIN queue = {}
  <2>1. Len(replies) = 0 /\ Len(queue) = 0
    BY <1>2, EmptySeq
  <2>2. DOMAIN Pipe = {}
    BY <2>1, ConfirmHeld DEF PipeFacts, PipeSizes
  <2>3. QED
    BY <1>1, <1>2, <2>2, EmptySeq DEF Pipe
<1>6. \A o \in OpIds : ~Judges(o)
  BY <1>5 DEF HeldConfirm, ConfirmInv, NegotiationOps
<1>7. AwaitedCalls' /\ RowsOwned' /\ TasksOpen' /\ ConfirmRows'
  BY <1>1, <1>5 DEF HeldConfirm, ConfirmInv, AwaitedCalls, RowsOwned, TasksOpen, ConfirmRows
<1>8. NegotiationOps'
  BY <1>1, <1>6 DEF HeldConfirm, ConfirmInv, NegotiationOps, Judges
<1>9. ListsInPlace' /\ FetchedNow'
  BY <1>1, <1>5 DEF ListsInPlace, InPlace, FetchedNow
<1>10. ~InSession /\ ~InSession'
  BY <1>1, <1>2 DEF InSession
<1>11. SessionMarks'
  BY <1>10 DEF SessionMarks, CarrierSession
<1>12. Kept'
  <2> SUFFICES ASSUME NEW o \in OpIds, NEW n \in Nat, Place(o, n)', Unchallenged(o)'
               PROVE  /\ Behind(n, ops[o].load, ops[o].who)'
                      /\ n = 0 /\ AllConfirm(mem, ops[o].load, ops[o].who)'
    BY DEF Kept
  <2>1. PICK l, c : l = ops[o].load /\ c = ops[o].who
    OBVIOUS
  <2>2. n = 0 /\ Place(o, n) /\ Unchallenged(o)
    BY <1>1, <1>5 DEF Place, Unchallenged, Supersedes
  <2>3. AllConfirm(db, l, c)
    BY <2>1, <2>2, ConfirmHeld DEF HeldConfirm, ConfirmInv, Kept, Behind
  <2>4. row.id # l
    BY <1>3, <1>4, <2>1, <2>2 DEF Unchallenged
  <2>5. AllConfirm(db', l, c)
    <3>1. PICK w : w = Without(db, row.id)
      OBVIOUS
    <3>2. db \in Seq(GoodRow)
      BY DEF HeldConfirm, HeldChoice, Held, IInv, GoodDb
    <3>3. w \in Seq(GoodRow) /\ \A i \in DOMAIN w : \E k \in DOMAIN db : w[i] = db[k]
      BY <3>1, <3>2, WithoutType, WithoutFrom
    <3>4. \A j \in DOMAIN db' : (j \in DOMAIN w /\ db'[j] = w[j]) \/ db'[j] = row
      BY <1>1, <1>4, <3>1, <3>3, AppendProperties, LenProperties
    <3>5. QED
      BY <2>3, <2>4, <3>3, <3>4 DEF AllConfirm, Confirms
  <2>6. /\ Behind(n, l, c)' /\ AllConfirm(mem', l, c)
    BY <1>1, <1>5, <2>5 DEF Behind, AllConfirm, Confirms
  <2>7. QED
    BY <1>1, <2>1, <2>2, <2>6 DEF Behind, AllConfirm, Confirms
<1>13. QED
  BY <1>7, <1>8, <1>9, <1>11, <1>12 DEF ConfirmInv

(* A kill leaves the table and what was reported. *)
LEMMA RestartConfirm ==
    ASSUME HeldConfirm, Restart
    PROVE  ConfirmInv'
<1>1. /\ mem' = <<>> /\ queue' = <<>> /\ replies' = <<>> /\ user' = NoOne
      /\ tasks' = [o \in OpIds |-> [l \in Loads |-> NoTask(l)]]
      /\ UNCHANGED <<started, db>>
  BY DEF Restart
<1>2. \A o \in OpIds : /\ SameOp(o)
                       /\ ops'[o].step \in {"idle", "done", "aborted"}
                       /\ ops'[o].step = "done" =>
                             ops[o].step \in {"done", "read", "distances"}
  <2>1. ops \in [OpIds -> Op]
    BY DEF HeldConfirm, HeldChoice, Held, IInv, GoodOps
  <2>2. QED
    BY <2>1 DEF Restart, InFlight, Op, SameOp
<1>3. DOMAIN Pipe' = {} /\ DOMAIN replies' = {} /\ DOMAIN queue' = {} /\ DOMAIN mem' = {}
  <2>1. Len(replies') = 0 /\ Len(queue') = 0
    BY <1>1, EmptySeq
  <2>2. QED
    BY <1>1, <2>1, EmptySeq, ConfirmHeld DEF PipeFacts, PipeSizes
<1>4. \A o \in OpIds : ~Judges(o)' /\ ops'[o].step # "dialog" /\ ~Fetches(o)'
  BY <1>2 DEF Judges, Fetches
<1>5. AwaitedCalls' /\ RowsOwned' /\ ConfirmRows' /\ ListsInPlace' /\ FetchedNow'
  BY <1>3, <1>4 DEF AwaitedCalls, RowsOwned, ConfirmRows, ListsInPlace, InPlace, FetchedNow
<1>6. TasksOpen'
  BY <1>1 DEF TasksOpen, NoTask
<1>7. NegotiationOps'
  <2>1. \A o \in OpIds : ops'[o].kind \in NegotiationKinds \cup {"none"}
    BY <1>2 DEF SameOp, HeldConfirm, ConfirmInv, NegotiationOps
  <2>2. QED
    BY <1>4, <2>1 DEF NegotiationOps
<1>8. SessionMarks'
  BY <1>1 DEF SessionMarks, CarrierSession, InSession
<1>9. Kept'
  <2> SUFFICES ASSUME NEW o \in OpIds, NEW n \in Nat, Place(o, n)', Unchallenged(o)'
               PROVE  /\ Behind(n, ops[o].load, ops[o].who)'
                      /\ n = 0 /\ AllConfirm(mem, ops[o].load, ops[o].who)'
    BY DEF Kept
  <2>1. PICK l, c : l = ops[o].load /\ c = ops[o].who
    OBVIOUS
  <2>2. n = 0 /\ ops'[o].kind = "confirm" /\ ops'[o].step = "done"
    BY <1>3 DEF Place
  <2>3. ops[o].kind = "confirm" /\ ops[o].step \in {"done", "read", "distances"}
    BY <1>2, <2>2 DEF SameOp
  <2>4. ops[o].step \in {"dialog", "writeLoad", "done", "aborted"}
    BY <2>3 DEF HeldConfirm, HeldChoice, ChoiceInv, AnswersWait, AnswerKinds
  <2>5. Place(o, 0)
    BY <2>3, <2>4 DEF Place
  <2>6. Unchallenged(o)
    <3>1. \A p \in OpIds : Supersedes(p, o) => Supersedes(p, o)'
      BY <1>2 DEF Supersedes, SameOp
    <3>2. ops'[o].load = ops[o].load
      BY <1>2 DEF SameOp
    <3>3. QED
      BY <3>1, <3>2 DEF Unchallenged
  <2>7. AllConfirm(db, l, c)
    BY <2>1, <2>5, <2>6, ConfirmHeld DEF HeldConfirm, ConfirmInv, Kept, Behind
  <2>8. Behind(n, l, c)' /\ AllConfirm(mem', l, c)
    BY <1>1, <1>3, <2>7 DEF Behind, AllConfirm, Confirms
  <2>9. ops'[o].load = l /\ ops'[o].who = c
    BY <1>2, <2>1 DEF SameOp
  <2>10. QED
    BY <2>2, <2>8, <2>9 DEF Behind, AllConfirm, Confirms
<1>10. QED
  BY <1>5, <1>6, <1>7, <1>8, <1>9 DEF ConfirmInv

LEMMA ConfirmInit == OnlyNegotiation /\ Init => ConfirmInv
<1> SUFFICES ASSUME OnlyNegotiation, Init PROVE ConfirmInv
  OBVIOUS
<1>1. /\ mem = <<>> /\ queue = <<>> /\ replies = <<>> /\ user = NoOne
      /\ tasks = [o \in OpIds |-> [l \in Loads |-> NoTask(l)]]
      /\ ops = [o \in OpIds |-> NoOp]
  BY DEF Init
<1>2. NoOp.kind = "none" /\ NoOp.step = "idle"
  BY DEF NoOp
<1>3. \A o \in OpIds : ops[o].kind = "none" /\ ops[o].step = "idle"
  BY <1>1, <1>2
<1>4. DOMAIN Pipe = {} /\ DOMAIN replies = {} /\ DOMAIN queue = {} /\ DOMAIN mem = {}
  BY <1>1, EmptySeq DEF Pipe
<1>5. AwaitedCalls /\ RowsOwned /\ ConfirmRows /\ ListsInPlace /\ FetchedNow
  BY <1>4 DEF AwaitedCalls, RowsOwned, ConfirmRows, ListsInPlace, InPlace, FetchedNow
<1>6. NegotiationOps
  BY <1>3 DEF NegotiationOps, Judges
<1>7. TasksOpen
  BY <1>1 DEF TasksOpen, NoTask
<1>8. SessionMarks
  BY <1>1 DEF SessionMarks, CarrierSession, InSession
<1>9. Kept
  BY <1>3 DEF Kept, Place
<1>10. QED
  BY <1>5, <1>6, <1>7, <1>8, <1>9 DEF ConfirmInv

(* What nobody presses or waits for does not happen. *)
LEMMA OtherActions ==
    ASSUME HeldConfirm
    PROVE  /\ \A o \in OpIds, l \in Loads : ~RouteFound(o, l)
           /\ ~DistanceSaved /\ ~LoadInserted /\ ~LoadDeleted
           /\ \A l \in Loads : ~PostLoad(l) /\ ~PostReturn(l) /\ ~PlaceBid(l) /\ ~BidByName(l)
           /\ \A chosen : ~DeleteLoads(chosen)
<1>1. \A o \in OpIds, l \in Loads : ~RouteFound(o, l)
  BY DEF RouteFound, HeldConfirm, HeldChoice, NoOldCopies
<1>2. ASSUME NEW call \in {"saveDistance", "insertLoad", "deleteLoad"}, Resumed(call) PROVE FALSE
  <2>1. WaitsFor(ops[replies[1].owner], call)
    BY <1>2, AnsweredCall
  <2>2. QED
    BY <2>1 DEF WaitsFor
<1>3. ~DistanceSaved /\ ~LoadInserted /\ ~LoadDeleted
  BY <1>2 DEF DistanceSaved, LoadInserted, LoadDeleted
<1>4. \A kind \in {"post", "return", "bid", "bidByName", "delete"} : ~CanStart(kind)
  BY DEF CanStart, HeldConfirm, OnlyNegotiation, NegotiationKinds
<1>5. \A l \in Loads : ~PostLoad(l) /\ ~PostReturn(l) /\ ~PlaceBid(l) /\ ~BidByName(l)
  BY <1>4 DEF PostLoad, PostReturn, PlaceBid, BidByName, AddBid
<1>6. \A chosen : ~DeleteLoads(chosen)
  BY <1>4 DEF DeleteLoads
<1>7. QED
  BY <1>1, <1>3, <1>5, <1>6

LEMMA ConfirmNext ==
    ASSUME OnlyNegotiation, IInv, IInv', ListInv, ListInv', ChoiceInv, ChoiceInv', ConfirmInv,
           [Next]_vars
    PROVE  ConfirmInv'
<1>0. HeldConfirm
  BY HeldReady DEF HeldConfirm, HeldChoice, OnlyNegotiation
<1> USE <1>0
<1>1. CASE InsertTestLoad \/ DbExecute \/ DbFail \/ Restart
  BY <1>1, InsertTestLoadConfirm, DatabaseConfirm, RestartConfirm
<1>2. CASE (\E u \in Users : Login(u)) \/ LoginAnswered
  BY <1>2, LoginConfirm, LoginAnsweredConfirm
<1>3. CASE Refresh \/ LoadsRead \/ \E l \in Loads : OpenDetails(l)
  BY <1>3, RefreshConfirm, LoadsReadConfirm, OpenDetailsConfirm
<1>4. CASE \E o \in OpIds, l \in Loads : RouteMissing(o, l)
  BY <1>4, RouteMissingConfirm
<1>5. CASE \/ \E l \in Loads, b \in Bidders, v \in {"accepted", "rejected", "countered"} :
                  Respond(l, b, v)
           \/ BidsWritten
  BY <1>5, RespondConfirm, BidsWrittenConfirm
<1>6. CASE \/ \E l \in Loads, kind \in {"confirm", "decline"} : OpenDialog(l, kind)
           \/ \E o \in OpIds : Submit(o)
           \/ LoadWritten
  BY <1>6, OpenDialogConfirm, SubmitConfirm, LoadWrittenConfirm DEF AnswerKinds
<1>7. CASE \E o \in OpIds : CancelDialog(o)
  <2>1. PICK o \in OpIds : CancelDialog(o)
    BY <1>7
  <2>2. /\ ops[o].step = "dialog" /\ ops' = [ops EXCEPT ![o].step = "aborted"]
        /\ UNCHANGED <<mem, lists, tasks, started, user, db, queue, replies>>
    BY <2>1 DEF CancelDialog, memory
  <2>3. QED
    BY <2>2, CancelDialogConfirm
<1>8. CASE Logout \/ UNCHANGED vars
  <2>1. /\ user' = user \/ user' = NoOne
        /\ UNCHANGED <<mem, lists, tasks, ops, started, db, queue, replies>>
    BY <1>8 DEF Logout, vars, memory
  <2>2. QED
    BY <2>1, LogoutConfirm
<1>9. QED
  BY <1>1, <1>2, <1>3, <1>4, <1>5, <1>6, <1>7, <1>8, OtherActions DEF Next, Users

LEMMA ConfirmInvariant ==
    OnlyNegotiation /\ Spec => [](IInv /\ ListInv /\ ChoiceInv /\ ConfirmInv)
<1>1. OnlyNegotiation /\ Init => IInv /\ ListInv /\ ChoiceInv /\ ConfirmInv
  BY InitHolds, ListInit, ChoiceInit, ConfirmInit DEF OnlyNegotiation
<1>2. OnlyNegotiation /\ IInv /\ ListInv /\ ChoiceInv /\ ConfirmInv /\ [Next]_vars =>
          IInv' /\ ListInv' /\ ChoiceInv' /\ ConfirmInv'
  BY NextKeeps, ListNext, ChoiceNext, ConfirmNext DEF OnlyNegotiation
<1>3. CASE OnlyNegotiation
  BY <1>1, <1>2, <1>3, PTL DEF Spec
<1>4. QED
  BY <1>3

(* While the board is used to negotiate only, and no distance write can    *)
(* put an old copy back, a load whose confirmation was reported to the     *)
(* broker stays confirmed by that carrier in the table until a decline or  *)
(* another acceptance, however verdicts, answers, fetches and sessions     *)
(* overlap, fail and are killed: behind the write of the confirmation      *)
(* nothing is written but copies of it, since every copy of the load a     *)
(* handler of the carrier's session may meet has his bid accepted, which   *)
(* no verdict leaves, and the board everybody else sees was fetched after  *)
(* it.                                                                     *)
THEOREM OverlapsKeepConfirmation ==
    ASSUME OnlyNegotiation
    PROVE  Spec => []ConfirmationDurable
<1>1. IInv /\ ListInv /\ ConfirmInv => ConfirmationDurable
  <2> SUFFICES ASSUME IInv, ConfirmInv, NEW o \in OpIds,
                      ops[o].kind = "confirm", ops[o].step = "done",
                      ~\E p \in OpIds : Supersedes(p, o),
                      \A i \in DOMAIN Seeds : Seeds[i] # ops[o].load,
                      NEW i \in DOMAIN db, db[i].id = ops[o].load
               PROVE  db[i].status = "confirmed" /\ db[i].selected = ops[o].who
    BY DEF ConfirmationDurable
  <2>1. Place(o, 0) /\ Unchallenged(o)
    BY DEF Place, Unchallenged
  <2>2. Behind(0, ops[o].load, ops[o].who)
    BY <2>1 DEF ConfirmInv, Kept
  <2>3. Len(replies) \in Nat
    BY LenProperties DEF IInv, GoodReplies
  <2>4. AllConfirm(db, ops[o].load, ops[o].who)
    BY <2>2, <2>3 DEF Behind
  <2>5. QED
    BY <2>4 DEF AllConfirm, Confirms
<1>2. QED
  BY ConfirmInvariant, <1>1, PTL
=============================================================================
