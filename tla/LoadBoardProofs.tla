-------------------------- MODULE LoadBoardProofs --------------------------
(***************************************************************************)
(* Theorems about LoadBoard for every value of its constants: any number   *)
(* of loads, carriers, handlers in flight, failed database calls and       *)
(* kills.                                                                  *)
(*                                                                         *)
(* TypeOK and StatusFlagsAgree are not inductive.  A post reaches the list *)
(* or the table through the rows that wait in `queue` and `replies` and    *)
(* through the posts captured by distance lookups, so those must agree     *)
(* too; and the login step sets `user` to the `who` of the operation that  *)
(* owns the reply, so the invariant ties a getUser call to a login.        *)
(*                                                                         *)
(* addLoad and deleteLoad change _loads after an await during which other  *)
(* handlers fetch, so what the list shows (no load twice, none whose       *)
(* deletion has returned) rests on the order in which the database         *)
(* executes the calls and the event loop takes the answers.  The inductive *)
(* invariant ListInv says where a load that is being posted or deleted may *)
(* be met: on the board, in the table and in each reply on the way.        *)
(***************************************************************************)
EXTENDS LoadBoard, FiniteSetTheorems, SequenceTheorems,
        WellFoundedInduction, TLAPS

Users == Carriers \cup {Broker}

GoodPost == {p \in Post : Agree(p)}
GoodRow == {r \in Row : Agree(r)}
GoodTask == [step: {"none", "route", "save"}, post: GoodPost]
GoodRequest == {q \in Request : Agree(q.row)}
GoodReply == {r \in Reply : \A i \in DOMAIN r.rows : Agree(r.rows[i])}

(* The part of the invariant about each variable alone. *)
GoodMem == mem \in Seq(GoodPost)
GoodLists == lists \in [OpIds -> [Loads -> Bids]]
GoodTasks == tasks \in [OpIds -> [Loads -> GoodTask]]
GoodOps == ops \in [OpIds -> Op] /\ started \in 0..MaxOps
GoodDb == db \in Seq(GoodRow)
GoodQueue == queue \in Seq(GoodRequest)
GoodReplies == replies \in Seq(GoodReply)
GoodRest ==
    /\ cache \subseteq Loads
    /\ user \in Users \cup {NoOne}
    /\ boot \in 0..Len(Seeds)
    /\ faults \in 0..MaxFaults
    /\ restarts \in 0..MaxRestarts

(* A login is of a user, a verdict has found its load, the post given to   *)
(* addLoad agrees, and getUser was called by a login that has been started. *)
OpLinked(op) ==
    /\ op.kind = "login" => op.who \in Users
    /\ op.kind = "respond" => op.index # 0
    /\ Agree(op.post)
OpsLinked == \A o \in OpIds : OpLinked(ops[o])
FromLogin(call, n, f) ==
    call.call = "getUser" => call.owner <= n /\ f[call.owner].kind = "login"
QueueLinked == \A i \in DOMAIN queue : FromLogin(queue[i], started, ops)
RepliesLinked == \A i \in DOMAIN replies : FromLogin(replies[i], started, ops)

IInv ==
    /\ GoodMem /\ GoodLists /\ GoodTasks /\ GoodOps /\ GoodDb
    /\ GoodQueue /\ GoodReplies /\ GoodRest
    /\ OpsLinked /\ QueueLinked /\ RepliesLinked

-----------------------------------------------------------------------------
(* Lists by id. *)

(* By the well-foundedness of strict inclusion on the finite sets 0..n.    *)
LEMMA LeastIndex ==
    ASSUME NEW T \in SUBSET Nat, T # {}
    PROVE  \E i \in T : \A j \in T : i <= j
<1> DEFINE U == {0..n : n \in T}
<1>1. U \subseteq FiniteSubsetsOf(Nat) /\ U # {}
  <2>1. ASSUME NEW n \in T
        PROVE  0..n \in FiniteSubsetsOf(Nat)
    <3>1. 0 \in Int /\ n \in Int /\ 0..n \in SUBSET Nat
      OBVIOUS
    <3>2. IsFiniteSet(0..n)
      BY <3>1, FS_Interval
    <3>3. QED
      BY <3>1, <3>2 DEF FiniteSubsetsOf
  <2>2. QED
    BY <2>1
<1>2. PICK x \in U : \A y \in U : ~ (<<y, x>> \in StrictSubsetOrdering(Nat))
  <2> HIDE DEF U
  <2> QED
    BY <1>1, FS_StrictSubsetOrderingWellFounded, WFMin
<1>3. PICK i \in T : x = 0..i
  OBVIOUS
<1>4. \A j \in T : i <= j
  <2>1. SUFFICES ASSUME NEW j \in T, j < i
                 PROVE  FALSE
    OBVIOUS
  <2>2. 0..j \subseteq 0..i
    BY <2>1
  <2>3. 0..j # 0..i
    <3>1. i \in 0..i /\ i \notin 0..j
      BY <2>1
    <3>2. QED
      BY <3>1
  <2>4. 0..j \in SUBSET Nat /\ 0..i \in SUBSET Nat
    OBVIOUS
  <2>5. <<0..j, 0..i>> \in StrictSubsetOrdering(Nat)
    BY <2>2, <2>3, <2>4 DEF StrictSubsetOrdering
  <2>6. 0..j \in U
    OBVIOUS
  <2>7. QED
    BY <1>2, <1>3, <2>5, <2>6
<1>5. QED
  BY <1>4

(* IndexOf finds a position of the id if there is one, and 0 otherwise. *)
LEMMA IndexOfSpec ==
    ASSUME NEW S, NEW s \in Seq(S), NEW l
    PROVE  /\ IndexOf(s, l) \in 0..Len(s)
           /\ IndexOf(s, l) # 0 => s[IndexOf(s, l)].id = l
           /\ Has(s, l) <=> IndexOf(s, l) # 0
<1> DEFINE found == {i \in DOMAIN s : s[i].id = l}
<1>1. found \in SUBSET Nat /\ found \subseteq 1..Len(s)
  BY LenProperties
<1>2. CASE found = {}
  BY <1>2, LenProperties DEF IndexOf, Has
<1>3. CASE found # {}
  <2>1. \E i \in found : \A j \in found : i <= j
    BY <1>1, <1>3, LeastIndex
  <2>2. IndexOf(s, l) \in found
    BY <2>1, <1>3 DEF IndexOf
  <2>3. QED
    BY <2>2, <1>1, LenProperties DEF Has
<1>4. QED
  BY <1>2, <1>3

LEMMA WithoutType ==
    ASSUME NEW S, NEW s \in Seq(S), NEW l
    PROVE  Without(s, l) \in Seq(S)
<1> DEFINE p == IndexOf(s, l)
<1>1. CASE p = 0
  BY <1>1 DEF Without
<1>2. CASE p # 0
  <2>1. p \in 1..Len(s) /\ Len(s) \in Nat
    BY <1>2, IndexOfSpec, LenProperties
  <2>2. [i \in 1..(Len(s) - 1) |-> IF i < p THEN s[i] ELSE s[i + 1]]
          \in [1..(Len(s) - 1) -> S]
    BY <2>1, ElementOfSeq
  <2>3. QED
    BY <1>2, <2>1, <2>2, SeqDef DEF Without
<1>3. QED
  BY <1>1, <1>2

-----------------------------------------------------------------------------
(* What the conversions between posts and rows return. *)

LEMMA NoBidsType == NoBids \in Bids
BY DEF NoBids, Bids, BidStatus

LEMMA FreshGood ==
    ASSUME NEW l \in Loads
    PROVE  FreshRow(l) \in GoodRow /\ FreshPost(l) \in GoodPost
<1>1. FreshRow(l) \in Row
  BY NoBidsType DEF FreshRow, Row, Status
<1>2. FreshPost(l) \in Post
  BY BoundsAssumption DEF FreshPost, Post, Status
<1>3. Agree(FreshRow(l)) /\ Agree(FreshPost(l))
  BY DEF Agree, FreshRow, FreshPost
<1>4. QED
  BY <1>1, <1>2, <1>3 DEF GoodRow, GoodPost

LEMMA AnyLoad == (CHOOSE l \in Loads : TRUE) \in Loads
BY LoadsAssumption

LEMMA AnyRowGood == AnyRow \in GoodRow
BY AnyLoad, FreshGood DEF AnyRow

LEMMA NoOpType == NoOp \in Op /\ NoOp.kind = "none" /\ NoOp.post \in GoodPost
<1>1. FreshPost(CHOOSE l \in Loads : TRUE) \in GoodPost
  BY AnyLoad, FreshGood
<1>2. FreshPost(CHOOSE l \in Loads : TRUE) \in Post
  BY <1>1 DEF GoodPost
<1>3. QED
  BY AnyLoad, <1>1, <1>2 DEF NoOp, Op, Kinds, Steps, BidStatus

LEMMA ToRowGood ==
    ASSUME NEW post \in GoodPost, GoodLists
    PROVE  ToRow(post) \in GoodRow
<1>1. post \in Post /\ Agree(post)
  BY DEF GoodPost
<1>2. post.list # 0 => post.list \in OpIds
  BY <1>1, BoundsAssumption DEF Post, OpIds
<1>3. (IF post.list = 0 THEN NoBids ELSE lists[post.list][post.id]) \in Bids
  BY <1>1, <1>2, NoBidsType DEF GoodLists, Post
<1>4. ToRow(post) \in Row
  BY <1>1, <1>3 DEF ToRow, Row, Post
<1>5. Agree(ToRow(post))
  BY <1>1 DEF Agree, ToRow
<1>6. QED
  BY <1>4, <1>5 DEF GoodRow

LEMMA WithBidsGood ==
    ASSUME NEW row \in GoodRow, NEW bids \in Bids
    PROVE  [row EXCEPT !.bids = bids] \in GoodRow
<1>1. row \in Row /\ Agree(row)
  BY DEF GoodRow
<1>2. [row EXCEPT !.bids = bids] \in Row
  BY <1>1 DEF Row
<1>3. Agree([row EXCEPT !.bids = bids])
  BY <1>1 DEF Agree, Row
<1>4. QED
  BY <1>2, <1>3 DEF GoodRow

LEMMA FromRowGood ==
    ASSUME NEW row \in GoodRow, NEW o \in OpIds
    PROVE  FromRow(row, o) \in GoodPost
<1>1. row \in Row /\ Agree(row)
  BY DEF GoodRow
<1>2. FromRow(row, o) \in Post
  BY <1>1, BoundsAssumption DEF FromRow, Row, Post, OpIds
<1>3. Agree(FromRow(row, o))
  BY <1>1 DEF Agree, FromRow
<1>4. QED
  BY <1>2, <1>3 DEF GoodPost

LEMMA ParseBidsType ==
    ASSUME NEW bids \in Bids
    PROVE  ParseBids(bids) \in Bids
BY NoBidsType DEF ParseBids, Bids, BidStatus, Bidders

LEMMA StrippedType ==
    ASSUME NEW bids \in Bids
    PROVE  Stripped(bids) \in Bids
BY DEF Stripped, Bids, BidStatus

(* An acceptance, a confirmation and a refusal each set the status and the *)
(* flags together.                                                         *)
LEMMA JudgedGood ==
    ASSUME NEW post \in GoodPost, NEW b \in Bidders, NEW verdict
    PROVE  Judged(post, b, verdict) \in GoodPost
<1>1. post \in Post /\ Agree(post)
  BY DEF GoodPost
<1>2. Judged(post, b, verdict) \in Post
  BY <1>1 DEF Judged, Post, Status
<1>3. Agree(Judged(post, b, verdict))
  BY <1>1 DEF Agree, Judged, Post
<1>4. QED
  BY <1>2, <1>3 DEF GoodPost

LEMMA AnsweredGood ==
    ASSUME NEW post \in GoodPost, NEW kind
    PROVE  Answered(post, kind) \in GoodPost
<1>1. post \in Post /\ Agree(post)
  BY DEF GoodPost
<1>2. Answered(post, kind) \in Post
  BY <1>1 DEF Answered, Post, Status
<1>3. Agree(Answered(post, kind))
  BY <1>1 DEF Agree, Answered, Post
<1>4. QED
  BY <1>2, <1>3 DEF GoodPost

(* A database call leaves rows whose flags agree. *)
LEMMA WrittenGood ==
    ASSUME NEW table \in Seq(GoodRow), NEW req \in GoodRequest
    PROVE  Written(table, req) \in Seq(GoodRow)
<1>1. req \in Request /\ req.row \in GoodRow
  BY DEF GoodRequest, Request, GoodRow
<1>2. /\ Len(table) \in Nat /\ DOMAIN table = 1..Len(table)
      /\ \A i \in DOMAIN table : table[i] \in GoodRow
  BY LenProperties, ElementOfSeq
<1>3. Stripped(req.row.bids) \in Bids
  BY <1>1, StrippedType DEF GoodRow, Row
<1>4. CASE req.call = "insertLoad"
  <2>1. Without(table, req.row.id) \in Seq(GoodRow)
    BY WithoutType
  <2>2. QED
    BY <1>1, <1>4, <2>1, AppendProperties DEF Written
<1>5. CASE req.call = "deleteLoad"
  BY <1>5, WithoutType DEF Written
<1>6. CASE req.call = "updateLoadBids"
  <2>1. \A i \in DOMAIN table :
            [table[i] EXCEPT !.bids = Stripped(req.row.bids)] \in GoodRow
    BY <1>2, <1>3, WithBidsGood
  <2>2. Written(table, req) \in [1..Len(table) -> GoodRow]
    BY <1>2, <1>6, <2>1 DEF Written
  <2>3. QED
    BY <1>2, <2>2, SeqDef
<1>7. CASE req.call \in {"updateLoad", "saveDistance"}
  <2>1. Written(table, req) \in [1..Len(table) -> GoodRow]
    BY <1>1, <1>2, <1>7 DEF Written
  <2>2. QED
    BY <1>2, <2>1, SeqDef
<1>8. CASE req.call \notin {"insertLoad", "deleteLoad", "updateLoadBids",
                            "updateLoad", "saveDistance"}
  BY <1>8 DEF Written
<1>9. QED
  BY <1>4, <1>5, <1>6, <1>7, <1>8

-----------------------------------------------------------------------------
(* Calls and their replies. *)

Calls == {"getUser", "getLoads", "insertLoad", "deleteLoad",
          "updateLoadBids", "updateLoad", "saveDistance"}

(* Started operations keep their kind. *)
KindsKept ==
    /\ started' >= started
    /\ \A o \in OpIds : o <= started => ops'[o].kind = ops[o].kind

LEMMA LinkKept ==
    ASSUME GoodOps, started' \in 0..MaxOps, KindsKept,
           NEW call, call.owner \in OpIds, FromLogin(call, started, ops)
    PROVE  FromLogin(call, started', ops')
BY BoundsAssumption DEF GoodOps, KindsKept, FromLogin, OpIds

LEMMA RequestType ==
    ASSUME NEW o \in OpIds, NEW call \in Calls, NEW row \in GoodRow
    PROVE  [call |-> call, owner |-> o, row |-> row] \in GoodRequest
BY DEF Calls, GoodRequest, GoodRow, Request

LEMMA QueueKept ==
    ASSUME GoodQueue, QueueLinked, GoodOps, started' \in 0..MaxOps, KindsKept,
           queue' \in {queue, <<>>}
    PROVE  GoodQueue' /\ QueueLinked'
<1>1. CASE queue' = <<>>
  BY <1>1, EmptySeq DEF GoodQueue, QueueLinked
<1>2. CASE queue' = queue
  <2>1. \A i \in DOMAIN queue : queue[i].owner \in OpIds
    BY LenProperties, ElementOfSeq DEF GoodQueue, GoodRequest, Request
  <2>2. \A i \in DOMAIN queue :
            FromLogin(queue[i], started, ops) => FromLogin(queue'[i], started', ops')
    BY <1>2, <2>1, BoundsAssumption DEF GoodOps, KindsKept, FromLogin, OpIds
  <2>3. QED
    BY <1>2, <2>2 DEF GoodQueue, QueueLinked
<1>3. QED
  BY <1>1, <1>2

(* A call made by an operation; getUser only by a login. *)
LEMMA QueueCalled ==
    ASSUME GoodQueue, QueueLinked, GoodOps, GoodOps', KindsKept,
           NEW o \in OpIds, NEW call \in Calls, NEW row \in GoodRow,
           Call(o, call, row),
           call = "getUser" => o <= started' /\ ops'[o].kind = "login"
    PROVE  GoodQueue' /\ QueueLinked'
<1> DEFINE q == [call |-> call, owner |-> o, row |-> row]
<1>1. q \in GoodRequest /\ q.call = call /\ q.owner = o
  BY RequestType
<1>2. queue' = Append(queue, q)
  BY DEF Call
<1> HIDE DEF q
<1>3. /\ queue' \in Seq(GoodRequest)
      /\ Len(queue) \in Nat
      /\ DOMAIN queue = 1..Len(queue)
      /\ DOMAIN queue' = 1..(Len(queue) + 1)
      /\ \A i \in 1..Len(queue) : queue'[i] = queue[i]
      /\ queue'[Len(queue) + 1] = q
  BY <1>1, <1>2, AppendProperties, LenProperties DEF GoodQueue
<1>4. ASSUME NEW i \in DOMAIN queue'
      PROVE  FromLogin(queue'[i], started', ops')
  <2>1. CASE i = Len(queue) + 1
    BY <1>1, <1>3, <2>1 DEF FromLogin
  <2>2. CASE i # Len(queue) + 1
    <3>1. i \in DOMAIN queue /\ queue'[i] = queue[i]
      BY <1>3, <2>2
    <3>2. queue[i].owner \in OpIds
      BY <3>1, <1>3, ElementOfSeq DEF GoodQueue, GoodRequest, Request
    <3>3. FromLogin(queue[i], started, ops)
      BY <3>1 DEF QueueLinked
    <3>4. QED
      BY <3>1, <3>2, <3>3, BoundsAssumption DEF GoodOps, KindsKept, FromLogin, OpIds
  <2>3. QED
    BY <2>1, <2>2
<1>5. QED
  BY <1>3, <1>4 DEF GoodQueue, QueueLinked

LEMMA RepliesKept ==
    ASSUME GoodReplies, RepliesLinked, GoodOps, started' \in 0..MaxOps, KindsKept,
           \/ replies' \in {replies, <<>>}
           \/ replies # <<>> /\ replies' = Tail(replies)
    PROVE  GoodReplies' /\ RepliesLinked'
<1>0. /\ Len(replies) \in Nat
      /\ DOMAIN replies = 1..Len(replies)
      /\ \A i \in DOMAIN replies : replies[i].owner \in OpIds
  BY LenProperties, ElementOfSeq DEF GoodReplies, GoodReply, Reply
<1>1. \A i \in DOMAIN replies : \A r : r = replies[i] => FromLogin(r, started', ops')
  BY <1>0, BoundsAssumption DEF RepliesLinked, GoodOps, KindsKept, FromLogin, OpIds
<1>2. CASE replies' = <<>>
  BY <1>2, EmptySeq DEF GoodReplies, RepliesLinked
<1>3. CASE replies' = replies
  <2>1. \A i \in DOMAIN replies' : FromLogin(replies'[i], started', ops')
    BY <1>1, <1>3 DEF FromLogin
  <2>2. QED
    BY <1>3, <2>1 DEF GoodReplies, RepliesLinked
<1>4. CASE replies # <<>> /\ replies' = Tail(replies)
  <2>1. /\ replies' \in Seq(GoodReply)
        /\ DOMAIN replies' = 1..(Len(replies) - 1)
        /\ \A i \in DOMAIN replies' : replies'[i] = replies[i + 1]
    BY <1>4, HeadTailProperties, LenProperties DEF GoodReplies
  <2>2. ASSUME NEW i \in DOMAIN replies'
        PROVE  FromLogin(replies'[i], started', ops')
    <3>1. i + 1 \in DOMAIN replies /\ replies'[i] = replies[i + 1]
      BY <1>0, <2>1
    <3>2. QED
      BY <1>1, <3>1 DEF FromLogin
  <2>3. QED
    BY <2>1, <2>2 DEF GoodReplies, RepliesLinked
<1>5. QED
  BY <1>2, <1>3, <1>4

(* The database takes the first call and answers it. *)
LEMMA FirstAnswered ==
    ASSUME GoodQueue, QueueLinked, GoodReplies, RepliesLinked, GoodOps,
           queue # <<>>, queue' = Tail(queue), UNCHANGED <<started, ops>>,
           NEW ok \in BOOLEAN, NEW rows \in Seq(GoodRow),
           replies' = Append(replies,
               [call |-> Head(queue).call, owner |-> Head(queue).owner,
                load |-> Head(queue).row.id, ok |-> ok, rows |-> rows])
    PROVE  GoodQueue' /\ QueueLinked' /\ GoodReplies' /\ RepliesLinked'
<1> DEFINE r == [call |-> Head(queue).call, owner |-> Head(queue).owner,
                 load |-> Head(queue).row.id, ok |-> ok, rows |-> rows]
<1>1. /\ Len(queue) \in Nat /\ DOMAIN queue = 1..Len(queue)
      /\ 1 \in DOMAIN queue
      /\ Head(queue) = queue[1] /\ Head(queue) \in GoodRequest
      /\ queue' \in Seq(GoodRequest)
      /\ DOMAIN queue' = 1..(Len(queue) - 1)
      /\ \A i \in DOMAIN queue' : queue'[i] = queue[i + 1]
  BY HeadTailProperties, LenProperties, EmptySeq DEF GoodQueue
<1>2. GoodQueue' /\ QueueLinked'
  <2>1. \A i \in DOMAIN queue' : FromLogin(queue'[i], started', ops')
    <3>1. TAKE i \in DOMAIN queue'
    <3>2. i + 1 \in DOMAIN queue /\ queue'[i] = queue[i + 1]
      BY <1>1
    <3>3. QED
      BY <3>2 DEF QueueLinked, FromLogin
  <2>2. QED
    BY <1>1, <2>1 DEF GoodQueue, QueueLinked
<1>3. r \in GoodReply /\ r.call = Head(queue).call /\ r.owner = Head(queue).owner
  <2>1. rows \in Seq(Row) /\ \A i \in DOMAIN rows : Agree(rows[i])
    <3>1. GoodRow \subseteq Row
      BY DEF GoodRow
    <3>2. QED
      BY <3>1, SeqMonotonic, LenProperties, ElementOfSeq DEF GoodRow
  <2>2. QED
    BY <1>1, <2>1 DEF GoodRequest, Request, Row, GoodReply, Reply
<1>4. replies' = Append(replies, r)
  OBVIOUS
<1> HIDE DEF r
<1>5. /\ replies' \in Seq(GoodReply)
      /\ Len(replies) \in Nat
      /\ DOMAIN replies = 1..Len(replies)
      /\ DOMAIN replies' = 1..(Len(replies) + 1)
      /\ \A i \in 1..Len(replies) : replies'[i] = replies[i]
      /\ replies'[Len(replies) + 1] = r
  BY <1>3, <1>4, AppendProperties, LenProperties DEF GoodReplies
<1>6. ASSUME NEW i \in DOMAIN replies'
      PROVE  FromLogin(replies'[i], started', ops')
  <2>1. CASE i = Len(replies) + 1
    <3>1. FromLogin(queue[1], started, ops)
      BY <1>1 DEF QueueLinked
    <3>2. QED
      BY <1>1, <1>3, <1>5, <2>1, <3>1 DEF FromLogin
  <2>2. CASE i # Len(replies) + 1
    <3>1. i \in DOMAIN replies /\ replies'[i] = replies[i]
      BY <1>5, <2>2
    <3>2. QED
      BY <3>1 DEF RepliesLinked, FromLogin
  <2>3. QED
    BY <2>1, <2>2
<1>7. QED
  BY <1>2, <1>5, <1>6 DEF GoodReplies, RepliesLinked

-----------------------------------------------------------------------------
(* Operations. *)

LEMMA HandlerType ==
    ASSUME NEW kind \in Kinds, NEW step \in Steps, NEW l \in Loads,
           NEW who \in Bidders \cup {Broker, NoOne}
    PROVE  /\ Handler(kind, step, l, who) \in Op
           /\ Handler(kind, step, l, who).kind = kind
           /\ Handler(kind, step, l, who).who = who
           /\ Handler(kind, step, l, who).post \in GoodPost
BY NoOpType DEF Handler, Op

LEMMA Starts ==
    ASSUME GoodOps, OpsLinked, NEW kind, CanStart(kind), NEW op \in Op, OpLinked(op),
           StartOp(op)
    PROVE  /\ started + 1 \in OpIds
           /\ GoodOps' /\ OpsLinked' /\ KindsKept
           /\ ops'[started + 1] = op
<1>1. started \in Nat /\ started + 1 \in OpIds /\ started' \in 0..MaxOps
  BY BoundsAssumption DEF GoodOps, OpIds, CanStart, StartOp
<1>2. /\ GoodOps' /\ ops'[started + 1] = op
      /\ started' = started + 1 /\ ops' = [ops EXCEPT ![started + 1] = op]
  BY <1>1 DEF GoodOps, StartOp
<1>3. OpsLinked'
  BY <1>1, <1>2 DEF GoodOps, OpsLinked
<1>4. KindsKept
  BY <1>1, <1>2 DEF GoodOps, KindsKept, OpIds
<1>5. QED
  BY <1>1, <1>2, <1>3, <1>4

LEMMA Moves ==
    ASSUME GoodOps, OpsLinked, UNCHANGED started, NEW o \in OpIds,
           NEW step \in Steps, ops' = [ops EXCEPT ![o].step = step]
    PROVE  GoodOps' /\ OpsLinked' /\ KindsKept
<1>1. GoodOps'
  BY DEF GoodOps, Op
<1>2. \A p \in OpIds : /\ ops'[p].kind = ops[p].kind
                       /\ ops'[p].who = ops[p].who
                       /\ ops'[p].index = ops[p].index
                       /\ ops'[p].post = ops[p].post
  BY DEF GoodOps, Op
<1>3. OpsLinked'
  BY <1>2 DEF OpsLinked, OpLinked
<1>4. started \in Nat
  BY DEF GoodOps
<1>5. KindsKept
  BY <1>2, <1>4 DEF KindsKept
<1>6. QED
  BY <1>1, <1>3, <1>5

LEMMA Stays ==
    ASSUME GoodOps, OpsLinked, UNCHANGED <<started, ops>>
    PROVE  GoodOps' /\ OpsLinked' /\ KindsKept
BY DEF GoodOps, OpsLinked, KindsKept

(* The reply the continuation takes. *)
LEMMA Resumes ==
    ASSUME GoodReplies, RepliesLinked, NEW call, Resumed(call)
    PROVE  /\ replies # <<>> /\ replies' = Tail(replies)
           /\ Head(replies).call = call
           /\ Head(replies).owner \in OpIds
           /\ Head(replies).load \in Loads
           /\ Head(replies).rows \in Seq(GoodRow)
           /\ call = "getUser" => ops[Head(replies).owner].kind = "login"
<1>1. replies # <<>> /\ replies' = Tail(replies) /\ Head(replies).call = call
  BY DEF Resumed
<1>2. Head(replies) \in GoodReply /\ Head(replies) = replies[1] /\ 1 \in DOMAIN replies
  BY <1>1, HeadTailProperties, LenProperties, EmptySeq DEF GoodReplies
<1>3. Head(replies).rows \in Seq(GoodRow)
  <2>1. /\ Head(replies).rows \in Seq(Row)
        /\ \A i \in DOMAIN Head(replies).rows : Agree(Head(replies).rows[i])
    BY <1>2 DEF GoodReply, Reply
  <2>2. Head(replies).rows \in [1..Len(Head(replies).rows) -> GoodRow]
    BY <2>1, LenProperties DEF GoodRow
  <2>3. QED
    BY <2>1, <2>2, LenProperties, SeqDef
<1>4. QED
  BY <1>1, <1>2, <1>3 DEF GoodReply, Reply, RepliesLinked, FromLogin

LEMMA TaskEnds ==
    ASSUME GoodTasks, GoodOps, OpsLinked, UNCHANGED started,
           NEW o \in OpIds, NEW l \in Loads, EndTask(o, l)
    PROVE  GoodTasks' /\ GoodOps' /\ OpsLinked' /\ KindsKept
<1>1. NoTask(l) \in GoodTask
  BY FreshGood DEF NoTask, GoodTask
<1>2. GoodTasks'
  BY <1>1 DEF EndTask, GoodTasks
<1>3. GoodOps' /\ OpsLinked' /\ KindsKept
  <2>1. CASE ops' = ops
    BY <2>1, Stays
  <2>2. CASE ops' = [ops EXCEPT ![o].step = "done"]
    BY <2>2, Moves DEF Steps
  <2>3. QED
    BY <2>1, <2>2 DEF EndTask
<1>4. QED
  BY <1>2, <1>3

-----------------------------------------------------------------------------
(* The initial states. *)

LEMMA InitHolds == Init => IInv
<1> SUFFICES ASSUME Init PROVE IInv
  OBVIOUS
<1>1. GoodDb
  <2>1. /\ db \in Seq(Row)
        /\ \A i \in DOMAIN db : Agree(db[i])
    BY LeftBehindAssumption DEF Init
  <2>2. db \in [1..Len(db) -> GoodRow] /\ Len(db) \in Nat
    BY <2>1, LenProperties DEF GoodRow
  <2>3. QED
    BY <2>2, SeqDef DEF GoodDb
<1>2. GoodMem /\ GoodQueue /\ GoodReplies
  BY EmptySeq DEF Init, GoodMem, GoodQueue, GoodReplies
<1>3. GoodLists
  BY NoBidsType DEF Init, GoodLists
<1>4. GoodTasks
  BY FreshGood DEF Init, GoodTasks, GoodTask, NoTask
<1>5. GoodOps /\ OpsLinked
  <2>1. GoodOps
    BY NoOpType, BoundsAssumption DEF Init, GoodOps
  <2>2. OpLinked(NoOp)
    BY NoOpType DEF OpLinked, GoodPost
  <2>3. OpsLinked
    BY <2>2 DEF Init, OpsLinked
  <2>4. QED
    BY <2>1, <2>3
<1>6. GoodRest
  BY LoadsAssumption, BoundsAssumption, LenProperties DEF Init, GoodRest
<1>7. QueueLinked /\ RepliesLinked
  BY DEF Init, QueueLinked, RepliesLinked
<1>8. QED
  BY <1>1, <1>2, <1>3, <1>4, <1>5, <1>6, <1>7 DEF IInv

-----------------------------------------------------------------------------
(* Every step keeps the invariant: one lemma for each group of actions. *)

LEMMA InsertTestLoadKeeps ==
    ASSUME IInv, InsertTestLoad
    PROVE  IInv'
<1> DEFINE l == Seeds[boot + 1]
<1>1. boot + 1 \in 0..Len(Seeds) /\ l \in Loads
  BY LoadsAssumption, LenProperties, ElementOfSeq DEF IInv, GoodRest, InsertTestLoad
<1>2. GoodDb'
  <2>1. FreshRow(l) \in GoodRow /\ FreshRow(l).id = l
    BY <1>1, FreshGood DEF FreshRow
  <2>2. Without(db, l) \in Seq(GoodRow)
    BY WithoutType DEF IInv, GoodDb
  <2>3. Append(Without(db, l), FreshRow(l)) \in Seq(GoodRow)
    BY <2>1, <2>2, AppendProperties
  <2>4. QED
    BY <2>1, <2>3 DEF InsertTestLoad, GoodDb
<1>3. QED
  BY <1>1, <1>2
     DEF IInv, InsertTestLoad, memory, GoodMem, GoodLists, GoodTasks, GoodOps,
         GoodQueue, GoodReplies, GoodRest, OpsLinked, QueueLinked, RepliesLinked

LEMMA DatabaseKeeps ==
    ASSUME IInv, DbExecute \/ DbFail
    PROVE  IInv'
<1>1. Head(queue) \in GoodRequest
  BY HeadTailProperties DEF IInv, GoodQueue, DbExecute, DbFail
<1>2. GoodDb' /\ GoodRest'
  <2>1. CASE DbExecute
    BY <1>1, <2>1, WrittenGood
       DEF IInv, GoodDb, GoodRest, DbExecute, memory, outside
  <2>2. CASE DbFail
    BY <2>2, BoundsAssumption DEF IInv, GoodDb, GoodRest, DbFail, memory
  <2>3. QED
    BY <2>1, <2>2
<1>3. GoodQueue' /\ QueueLinked' /\ GoodReplies' /\ RepliesLinked'
  <2>1. CASE DbExecute
    <3> DEFINE rows == IF Head(queue).call = "getLoads" THEN db ELSE <<>>
    <3>1. rows \in Seq(GoodRow)
      BY EmptySeq DEF IInv, GoodDb
    <3>2. replies' = Append(replies,
               [call |-> Head(queue).call, owner |-> Head(queue).owner,
                load |-> Head(queue).row.id, ok |-> TRUE, rows |-> rows])
      BY <2>1 DEF DbExecute
    <3> HIDE DEF rows
    <3>3. QED
      BY <2>1, <3>1, <3>2, FirstAnswered DEF DbExecute, IInv
  <2>2. CASE DbFail
    <3>1. <<>> \in Seq(GoodRow)
      BY EmptySeq
    <3>2. QED
      BY <2>2, <3>1, FirstAnswered DEF DbFail, IInv
  <2>3. QED
    BY <2>1, <2>2
<1>4. QED
  BY <1>2, <1>3
     DEF IInv, DbExecute, DbFail, memory, GoodMem, GoodLists, GoodTasks, GoodOps, OpsLinked

LEMMA LoginKeeps ==
    ASSUME IInv, NEW u \in Users, Login(u)
    PROVE  IInv'
<1> DEFINE op == Handler("login", "getUser", NoOp.load, u)
<1>1. op \in Op /\ op.kind = "login" /\ OpLinked(op)
  <2>1. NoOp.load \in Loads
    BY NoOpType DEF Op
  <2>2. QED
    BY <2>1, HandlerType DEF Kinds, Steps, Users, Bidders, OpLinked, GoodPost
<1>2. CanStart("login") /\ StartOp(op)
  BY DEF Login
<1> HIDE DEF op
<1>3. started + 1 \in OpIds /\ GoodOps' /\ OpsLinked' /\ KindsKept /\ ops'[started + 1] = op
  BY <1>1, <1>2, Starts DEF IInv
<1>4. GoodQueue' /\ QueueLinked'
  BY <1>1, <1>2, <1>3, AnyRowGood, QueueCalled
     DEF IInv, Login, Calls, GoodOps, StartOp
<1>5. GoodReplies' /\ RepliesLinked'
  BY <1>3, RepliesKept DEF IInv, Login, GoodOps
<1>6. QED
  BY <1>3, <1>4, <1>5
     DEF IInv, Login, memory, outside, GoodMem, GoodLists, GoodTasks, GoodDb, GoodRest

LEMMA LoginAnsweredKeeps ==
    ASSUME IInv, LoginAnswered
    PROVE  IInv'
<1> DEFINE o == Head(replies).owner
<1>1. /\ o \in OpIds /\ ops[o].kind = "login"
      /\ replies # <<>> /\ replies' = Tail(replies)
  BY Resumes DEF IInv, LoginAnswered
<1> HIDE DEF o
<1>2. GoodOps' /\ OpsLinked' /\ KindsKept
  BY <1>1, Moves DEF IInv, LoginAnswered, Steps, o
<1>3. GoodReplies' /\ RepliesLinked'
  BY <1>1, <1>2, RepliesKept DEF IInv, GoodOps
<1>4. GoodQueue' /\ QueueLinked'
  <2>1. CASE UNCHANGED queue
    BY <1>2, <2>1, QueueKept DEF IInv, GoodOps
  <2>2. CASE Call(o, "getLoads", AnyRow)
    BY <1>1, <1>2, <2>2, AnyRowGood, QueueCalled DEF IInv, Calls
  <2>3. QED
    BY <2>1, <2>2 DEF LoginAnswered, FetchLoads, o
<1>5. GoodRest'
  BY <1>1 DEF IInv, LoginAnswered, GoodRest, OpsLinked, OpLinked, o, outside, memory
<1>6. QED
  BY <1>2, <1>3, <1>4, <1>5
     DEF IInv, LoginAnswered, memory, GoodMem, GoodLists, GoodTasks, GoodDb

LEMMA LogoutKeeps ==
    ASSUME IInv, Logout
    PROVE  IInv'
BY DEF IInv, Logout, memory, GoodMem, GoodLists, GoodTasks, GoodOps, GoodDb, GoodQueue,
       GoodReplies, GoodRest, OpsLinked, QueueLinked, RepliesLinked

LEMMA RefreshKeeps ==
    ASSUME IInv, Refresh
    PROVE  IInv'
<1> DEFINE op == Handler("refresh", "read", NoOp.load, user)
<1>1. op \in Op /\ OpLinked(op)
  <2>1. NoOp.load \in Loads
    BY NoOpType DEF Op
  <2>2. QED
    BY <2>1, HandlerType
       DEF IInv, GoodRest, Kinds, Steps, Users, Bidders, OpLinked, GoodPost
<1>2. CanStart("refresh") /\ StartOp(op)
  BY DEF Refresh
<1> HIDE DEF op
<1>3. started + 1 \in OpIds /\ GoodOps' /\ OpsLinked' /\ KindsKept
  BY <1>1, <1>2, Starts DEF IInv
<1>4. GoodQueue' /\ QueueLinked'
  BY <1>3, AnyRowGood, QueueCalled DEF IInv, Refresh, FetchLoads, Calls
<1>5. GoodReplies' /\ RepliesLinked'
  BY <1>3, RepliesKept DEF IInv, Refresh, GoodOps
<1>6. QED
  BY <1>3, <1>4, <1>5
     DEF IInv, Refresh, memory, outside, GoodMem, GoodLists, GoodTasks, GoodDb, GoodRest

LEMMA LoadsReadKeeps ==
    ASSUME IInv, LoadsRead
    PROVE  IInv'
<1> DEFINE rep == Head(replies)
           o == rep.owner
           rows == rep.rows
<1>1. /\ o \in OpIds /\ rows \in Seq(GoodRow)
      /\ replies # <<>> /\ replies' = Tail(replies)
  BY Resumes DEF IInv, LoadsRead
<1>2. GoodOps' /\ OpsLinked' /\ KindsKept
  <2>1. PICK step \in {"distances", "done"} : ops' = [ops EXCEPT ![o].step = step]
    BY DEF LoadsRead
  <2>2. QED
    BY <1>1, <2>1, Moves DEF IInv, LoadsRead, Steps
<1>3. GoodReplies' /\ RepliesLinked'
  BY <1>1, <1>2, RepliesKept DEF IInv, GoodOps
<1>4. GoodQueue' /\ QueueLinked'
  BY <1>2, QueueKept DEF IInv, GoodOps, LoadsRead
<1>5. ASSUME NEW l \in Loads, Has(rows, l)
      PROVE  rows[IndexOf(rows, l)] \in GoodRow
  <2>1. IndexOf(rows, l) \in 1..Len(rows)
    BY <1>1, <1>5, IndexOfSpec, LenProperties
  <2>2. QED
    BY <1>1, <2>1, ElementOfSeq
<1>6. GoodMem'
  <2>1. CASE rep.ok
    <3>1. \A i \in 1..Len(rows) : FromRow(rows[i], o) \in GoodPost
      BY <1>1, ElementOfSeq, FromRowGood
    <3>2. DOMAIN rows = 1..Len(rows) /\ Len(rows) \in Nat
      BY <1>1, LenProperties
    <3>3. Fetched(rows, o) \in [1..Len(rows) -> GoodPost]
      BY <3>1, <3>2 DEF Fetched
    <3>4. mem' = Fetched(rows, o)
      BY <2>1 DEF LoadsRead
    <3>5. QED
      BY <3>2, <3>3, <3>4, SeqDef DEF GoodMem
  <2>2. CASE ~rep.ok
    BY <2>2, EmptySeq DEF LoadsRead, GoodMem
  <2>3. QED
    BY <2>1, <2>2
<1>7. GoodLists'
  <2>1. CASE rep.ok
    <3> DEFINE read == [l \in Loads |->
                          IF Has(rows, l) THEN ParseBids(rows[IndexOf(rows, l)].bids)
                          ELSE NoBids]
    <3>1. \A l \in Loads : Has(rows, l) => rows[IndexOf(rows, l)].bids \in Bids
      BY <1>5 DEF GoodRow, Row
    <3>2. read \in [Loads -> Bids]
      BY <3>1, ParseBidsType, NoBidsType
    <3>3. lists' = [lists EXCEPT ![o] = read]
      BY <2>1 DEF LoadsRead
    <3> HIDE DEF read
    <3>4. QED
      BY <1>1, <3>2, <3>3 DEF IInv, GoodLists
  <2>2. CASE ~rep.ok
    BY <2>2 DEF LoadsRead, IInv, GoodLists
  <2>3. QED
    BY <2>1, <2>2
<1>8. GoodTasks'
  <2>1. CASE rep.ok
    <3> DEFINE S(l) == Has(rows, l) /\ l \in Addressed \ cache
               begun == [l \in Loads |->
                           IF S(l)
                           THEN [step |-> "route",
                                 post |-> FromRow(rows[IndexOf(rows, l)], o)]
                           ELSE NoTask(l)]
    <3>1. \A l \in Loads : S(l) => FromRow(rows[IndexOf(rows, l)], o) \in GoodPost
      BY <1>1, <1>5, FromRowGood
    <3>2. \A l \in Loads : NoTask(l) \in GoodTask
      BY FreshGood DEF NoTask, GoodTask
    <3> HIDE DEF S
    <3>3. begun \in [Loads -> GoodTask]
      BY <3>1, <3>2 DEF GoodTask
    <3>4. tasks' = [tasks EXCEPT ![o] = begun]
      BY <2>1 DEF LoadsRead, S
    <3> HIDE DEF begun
    <3>5. QED
      BY <1>1, <3>3, <3>4 DEF IInv, GoodTasks
  <2>2. CASE ~rep.ok
    BY <2>2 DEF LoadsRead, IInv, GoodTasks
  <2>3. QED
    BY <2>1, <2>2
<1>9. GoodDb' /\ GoodRest'
  BY DEF IInv, LoadsRead, GoodDb, GoodRest, outside
<1>10. QED
  BY <1>2, <1>3, <1>4, <1>6, <1>7, <1>8, <1>9 DEF IInv

LEMMA RouteFoundKeeps ==
    ASSUME IInv, NEW o \in OpIds, NEW l \in Loads, RouteFound(o, l)
    PROVE  IInv'
<1>1. tasks[o][l] \in GoodTask /\ tasks[o][l].post \in GoodPost
  BY DEF IInv, GoodTasks, GoodTask
<1>2. GoodOps' /\ OpsLinked' /\ KindsKept
  BY Stays DEF IInv, RouteFound
<1>3. GoodQueue' /\ QueueLinked'
  <2>1. ToRow(tasks[o][l].post) \in GoodRow
    BY <1>1, ToRowGood DEF IInv
  <2>2. QED
    BY <1>2, <2>1, QueueCalled DEF IInv, RouteFound, Calls
<1>4. GoodReplies' /\ RepliesLinked'
  BY <1>2, RepliesKept DEF IInv, RouteFound, GoodOps
<1>5. GoodTasks'
  BY <1>1 DEF IInv, RouteFound, GoodTasks, GoodTask
<1>6. GoodRest'
  BY DEF IInv, RouteFound, GoodRest, outside
<1>7. QED
  BY <1>2, <1>3, <1>4, <1>5, <1>6 DEF IInv, RouteFound, GoodMem, GoodLists, GoodDb

LEMMA RouteMissingKeeps ==
    ASSUME IInv, NEW o \in OpIds, NEW l \in Loads, RouteMissing(o, l)
    PROVE  IInv'
<1>1. GoodTasks' /\ GoodOps' /\ OpsLinked' /\ KindsKept
  BY TaskEnds DEF IInv, RouteMissing
<1>2. GoodQueue' /\ QueueLinked' /\ GoodReplies' /\ RepliesLinked'
  BY <1>1, QueueKept, RepliesKept DEF IInv, RouteMissing, GoodOps
<1>3. GoodRest'
  BY DEF IInv, RouteMissing, GoodRest, outside
<1>4. QED
  BY <1>1, <1>2, <1>3 DEF IInv, RouteMissing, GoodMem, GoodLists, GoodDb

LEMMA DistanceSavedKeeps ==
    ASSUME IInv, DistanceSaved
    PROVE  IInv'
<1>1. /\ Head(replies).owner \in OpIds /\ Head(replies).load \in Loads
      /\ replies # <<>> /\ replies' = Tail(replies)
  BY Resumes DEF IInv, DistanceSaved
<1>2. GoodTasks' /\ GoodOps' /\ OpsLinked' /\ KindsKept
  BY <1>1, TaskEnds DEF IInv, DistanceSaved
<1>3. GoodQueue' /\ QueueLinked' /\ GoodReplies' /\ RepliesLinked'
  BY <1>1, <1>2, QueueKept, RepliesKept DEF IInv, DistanceSaved, GoodOps
<1>4. QED
  BY <1>2, <1>3
     DEF IInv, DistanceSaved, GoodMem, GoodLists, GoodDb, GoodRest, outside

(* A handler that posts a load. *)
LEMMA PosterType ==
    ASSUME GoodRest, NEW kind \in {"post", "return"}, NEW l \in Loads,
           NEW post \in GoodPost
    PROVE  /\ [Handler(kind, "insert", l, user) EXCEPT !.post = post] \in Op
           /\ OpLinked([Handler(kind, "insert", l, user) EXCEPT !.post = post])
<1> DEFINE op == Handler(kind, "insert", l, user)
<1>1. op \in Op /\ op.kind = kind
  BY HandlerType DEF GoodRest, Kinds, Steps, Users, Bidders
<1>2. post \in Post /\ Agree(post)
  BY DEF GoodPost
<1> HIDE DEF op
<1>3. [op EXCEPT !.post = post] \in Op
  BY <1>1, <1>2 DEF Op
<1>4. OpLinked([op EXCEPT !.post = post])
  BY <1>1, <1>2 DEF OpLinked, Op
<1>5. QED
  BY <1>3, <1>4 DEF op

LEMMA OpenDetailsKeeps ==
    ASSUME IInv, NEW l \in Loads, OpenDetails(l)
    PROVE  IInv'
<1> DEFINE op == Handler("details", "distances", l, user)
           task == [step |-> "route", post |-> mem[IndexOf(mem, l)]]
<1>1. op \in Op /\ OpLinked(op)
  BY HandlerType DEF IInv, GoodRest, Kinds, Steps, Users, Bidders, OpLinked, GoodPost
<1>2. /\ CanStart("details") /\ StartOp(op)
      /\ tasks' = [tasks EXCEPT ![started + 1][l] = task]
  BY DEF OpenDetails
<1>3. task \in GoodTask
  <2>1. IndexOf(mem, l) \in 1..Len(mem)
    BY IndexOfSpec, LenProperties DEF IInv, GoodMem, OpenDetails
  <2>2. QED
    BY <2>1, ElementOfSeq DEF IInv, GoodMem, GoodTask
<1> HIDE DEF op, task
<1>4. started + 1 \in OpIds /\ GoodOps' /\ OpsLinked' /\ KindsKept
  BY <1>1, <1>2, Starts DEF IInv
<1>5. GoodTasks'
  BY <1>2, <1>3, <1>4 DEF IInv, GoodTasks
<1>6. GoodQueue' /\ QueueLinked' /\ GoodReplies' /\ RepliesLinked'
  BY <1>4, QueueKept, RepliesKept DEF IInv, OpenDetails, GoodOps
<1>7. QED
  BY <1>4, <1>5, <1>6
     DEF IInv, OpenDetails, outside, GoodMem, GoodLists, GoodDb, GoodRest

LEMMA PostLoadKeeps ==
    ASSUME IInv, NEW l \in Loads, PostLoad(l)
    PROVE  IInv'
<1> DEFINE op == [Handler("post", "insert", l, user) EXCEPT !.post = FreshPost(l)]
<1>1. op \in Op /\ OpLinked(op)
  BY FreshGood, PosterType DEF IInv
<1>2. CanStart("post") /\ StartOp(op)
  BY DEF PostLoad
<1> HIDE DEF op
<1>3. started + 1 \in OpIds /\ GoodOps' /\ OpsLinked' /\ KindsKept
  BY <1>1, <1>2, Starts DEF IInv
<1>4. GoodQueue' /\ QueueLinked'
  BY <1>3, FreshGood, QueueCalled DEF IInv, PostLoad, Calls
<1>5. GoodReplies' /\ RepliesLinked'
  BY <1>3, RepliesKept DEF IInv, PostLoad, GoodOps
<1>6. QED
  BY <1>3, <1>4, <1>5
     DEF IInv, PostLoad, memory, outside, GoodMem, GoodLists, GoodTasks, GoodDb, GoodRest

LEMMA PostReturnKeeps ==
    ASSUME IInv, NEW l \in Loads, PostReturn(l)
    PROVE  IInv'
<1> DEFINE o == started + 1
           shown == mem[IndexOf(mem, l)]
           post == [shown EXCEPT !.id = EmptyId, !.list = o]
           op == [Handler("return", "insert", EmptyId, user) EXCEPT !.post = post]
<1>1. /\ CanStart("return") /\ StartOp(op)
      /\ Call(o, "insertLoad", ToRow(post))
  BY DEF PostReturn
<1>2. EmptyId \in Loads
  BY <1>1, LoadsAssumption DEF CanStart
<1>3. o \in OpIds
  BY <1>1, BoundsAssumption DEF IInv, GoodOps, OpIds, CanStart
<1>4. post \in GoodPost
  <2>1. IndexOf(mem, l) \in 1..Len(mem)
    BY IndexOfSpec, LenProperties DEF IInv, GoodMem, PostReturn
  <2>2. shown \in GoodPost
    BY <2>1, ElementOfSeq DEF IInv, GoodMem
  <2> HIDE DEF o, shown
  <2>3. post \in Post
    <3>1. o \in 0..MaxOps
      BY <1>3, BoundsAssumption DEF OpIds
    <3>2. shown \in Post
      BY <2>2 DEF GoodPost
    <3>3. QED
      BY <1>2, <3>1, <3>2 DEF Post
  <2>4. Agree(post)
    BY <2>2 DEF GoodPost, Post, Agree
  <2>5. QED
    BY <2>3, <2>4 DEF GoodPost
<1>5. ToRow(post) \in GoodRow
  BY <1>4, ToRowGood DEF IInv
<1> HIDE DEF post
<1>6. op \in Op /\ OpLinked(op)
  BY <1>2, <1>4, PosterType DEF IInv
<1> HIDE DEF op
<1>7. GoodOps' /\ OpsLinked' /\ KindsKept
  BY <1>1, <1>6, Starts DEF IInv
<1>8. GoodQueue' /\ QueueLinked'
  BY <1>1, <1>3, <1>5, <1>7, QueueCalled DEF IInv, Calls
<1>9. GoodReplies' /\ RepliesLinked'
  BY <1>7, RepliesKept DEF IInv, PostReturn, GoodOps
<1>10. QED
  BY <1>7, <1>8, <1>9
     DEF IInv, PostReturn, memory, outside, GoodMem, GoodLists, GoodTasks, GoodDb, GoodRest

LEMMA LoadInsertedKeeps ==
    ASSUME IInv, LoadInserted
    PROVE  IInv'
<1> DEFINE o == Head(replies).owner
           step(s) == ops' = [ops EXCEPT ![o].step = s]
<1>1. o \in OpIds /\ replies # <<>> /\ replies' = Tail(replies)
  BY Resumes DEF IInv, LoadInserted
<1>2. \/ (step("aborted") \/ step("done")) /\ UNCHANGED queue
      \/ step("read") /\ Call(o, "getLoads", AnyRow)
  BY DEF LoadInserted, FetchLoads
<1>3. GoodMem'
  <2>1. ops[o].post \in GoodPost
    BY <1>1 DEF IInv, GoodOps, OpsLinked, OpLinked, Op, GoodPost
  <2>2. mem' \in {mem, Append(mem, ops[o].post)}
    BY DEF LoadInserted
  <2>3. QED
    BY <2>1, <2>2, AppendProperties DEF IInv, GoodMem
<1>4. GoodOps' /\ OpsLinked' /\ KindsKept
  <2>1. PICK s \in {"aborted", "read", "done"} : step(s)
    BY <1>2
  <2>2. QED
    BY <1>1, <2>1, Moves DEF IInv, LoadInserted, Steps
<1> HIDE DEF o, step
<1>5. GoodQueue' /\ QueueLinked'
  <2>1. CASE UNCHANGED queue
    BY <1>4, <2>1, QueueKept DEF IInv, GoodOps
  <2>2. CASE Call(o, "getLoads", AnyRow)
    BY <1>1, <1>4, <2>2, AnyRowGood, QueueCalled DEF IInv, Calls
  <2>3. QED
    BY <1>2, <2>1, <2>2
<1>6. GoodReplies' /\ RepliesLinked'
  BY <1>1, <1>4, RepliesKept DEF IInv, GoodOps
<1>7. QED
  BY <1>3, <1>4, <1>5, <1>6
     DEF IInv, LoadInserted, GoodLists, GoodTasks, GoodDb, GoodRest, outside

LEMMA DeleteLoadsKeeps ==
    ASSUME IInv, NEW chosen \in SUBSET Loads, DeleteLoads(chosen)
    PROVE  IInv'
<1>1. PICK l \in chosen :
        /\ StartOp([Handler("delete", "delete", l, user) EXCEPT
                       !.chosen = chosen, !.todo = chosen \ {l}])
        /\ Call(started + 1, "deleteLoad", FreshRow(l))
  BY DEF DeleteLoads
<1> DEFINE fresh == Handler("delete", "delete", l, user)
           op == [fresh EXCEPT !.chosen = chosen, !.todo = chosen \ {l}]
<1>2. op \in Op /\ OpLinked(op)
  <2>1. fresh \in Op /\ fresh.kind = "delete" /\ Agree(fresh.post)
    BY HandlerType DEF IInv, GoodRest, Kinds, Steps, Users, Bidders, GoodPost
  <2> HIDE DEF fresh
  <2>2. QED
    BY <2>1 DEF Op, OpLinked
<1>3. CanStart("delete") /\ StartOp(op)
  BY <1>1 DEF DeleteLoads
<1> HIDE DEF op
<1>4. started + 1 \in OpIds /\ GoodOps' /\ OpsLinked' /\ KindsKept
  BY <1>1, <1>2, <1>3, Starts DEF IInv
<1>5. GoodQueue' /\ QueueLinked'
  BY <1>1, <1>4, FreshGood, QueueCalled DEF IInv, Calls
<1>6. GoodReplies' /\ RepliesLinked'
  BY <1>4, RepliesKept DEF IInv, DeleteLoads, GoodOps
<1>7. QED
  BY <1>4, <1>5, <1>6
     DEF IInv, DeleteLoads, memory, outside, GoodMem, GoodLists, GoodTasks, GoodDb, GoodRest

LEMMA LoadDeletedKeeps ==
    ASSUME IInv, LoadDeleted
    PROVE  IInv'
<1> DEFINE o == Head(replies).owner
<1>1. o \in OpIds /\ replies # <<>> /\ replies' = Tail(replies)
  BY Resumes DEF IInv, LoadDeleted
<1>2. GoodOps' /\ OpsLinked' /\ KindsKept /\ GoodQueue' /\ QueueLinked'
  <2>1. CASE /\ \E step \in {"done", "aborted"} : ops' = [ops EXCEPT ![o].step = step]
             /\ UNCHANGED queue
    <3>1. GoodOps' /\ OpsLinked' /\ KindsKept
      BY <1>1, <2>1, Moves DEF IInv, LoadDeleted, Steps
    <3>2. QED
      BY <2>1, <3>1, QueueKept DEF IInv, GoodOps
  <2>2. CASE \E k \in ops[o].todo :
               /\ ops' = [ops EXCEPT ![o].load = k, ![o].todo = @ \ {k}]
               /\ Call(o, "deleteLoad", FreshRow(k))
    <3>1. PICK k \in ops[o].todo :
               /\ ops' = [ops EXCEPT ![o].load = k, ![o].todo = @ \ {k}]
               /\ Call(o, "deleteLoad", FreshRow(k))
      BY <2>2
    <3>2. k \in Loads /\ ops[o] \in Op
      BY <1>1 DEF IInv, GoodOps, Op
    <3>3. GoodOps'
      BY <3>1, <3>2, <1>1 DEF IInv, GoodOps, Op, LoadDeleted
    <3>4. \A p \in OpIds : /\ ops'[p].kind = ops[p].kind
                           /\ ops'[p].who = ops[p].who
                           /\ ops'[p].index = ops[p].index
                           /\ ops'[p].post = ops[p].post
      BY <3>1, <1>1 DEF IInv, GoodOps, Op
    <3>5. OpsLinked' /\ KindsKept
      BY <3>4 DEF IInv, GoodOps, OpsLinked, OpLinked, KindsKept, LoadDeleted
    <3>6. GoodQueue' /\ QueueLinked'
      BY <1>1, <3>1, <3>2, <3>3, <3>5, FreshGood, QueueCalled DEF IInv, Calls
    <3>7. QED
      BY <3>3, <3>5, <3>6
  <2>3. QED
    BY <2>1, <2>2 DEF LoadDeleted
<1>3. GoodReplies' /\ RepliesLinked'
  BY <1>1, <1>2, RepliesKept DEF IInv, LoadDeleted, GoodOps
<1>4. GoodMem' /\ GoodRest'
  BY WithoutType DEF IInv, LoadDeleted, GoodMem, GoodRest, outside
<1>5. QED
  BY <1>2, <1>3, <1>4 DEF IInv, LoadDeleted, GoodLists, GoodTasks, GoodDb

(* The post a board shows under an id. *)
LEMMA PostShown ==
    ASSUME IInv, NEW l \in Loads, IndexOf(mem, l) # 0
    PROVE  /\ IndexOf(mem, l) \in 1..Len(mem)
           /\ mem[IndexOf(mem, l)] \in GoodPost
           /\ mem[IndexOf(mem, l)].list # 0 =>
                 /\ mem[IndexOf(mem, l)].list \in OpIds
                 /\ lists[mem[IndexOf(mem, l)].list][l] \in Bids
<1> DEFINE i == IndexOf(mem, l)
<1>1. i \in 1..Len(mem)
  BY IndexOfSpec, LenProperties DEF IInv, GoodMem
<1>2. mem[i] \in GoodPost
  BY <1>1, ElementOfSeq DEF IInv, GoodMem
<1>3. mem[i].list \in 0..MaxOps
  BY <1>2 DEF GoodPost, Post
<1>4. mem[i].list # 0 => mem[i].list \in OpIds
  BY <1>3, BoundsAssumption DEF OpIds
<1>5. QED
  BY <1>1, <1>2, <1>4 DEF IInv, GoodLists

LEMMA AddBidKeeps ==
    ASSUME IInv, NEW kind \in {"bid", "bidByName"}, NEW l \in Loads,
           NEW b \in Bidders, AddBid(kind, l, b)
    PROVE  IInv'
<1> DEFINE i == IndexOf(mem, l)
           bids == WithBid(lists[mem[i].list][l], b)
           op == Handler(kind, "writeBids", l, b)
<1>1. /\ i # 0 /\ mem[i].list # 0
      /\ lists' = [lists EXCEPT ![mem[i].list][l] = bids]
      /\ Call(started + 1, "updateLoadBids", [ToRow(mem[i]) EXCEPT !.bids = bids])
      /\ CanStart(kind) /\ StartOp(op)
  BY DEF AddBid
<1>2. /\ mem[i] \in GoodPost /\ mem[i].list \in OpIds
      /\ lists[mem[i].list][l] \in Bids
  BY <1>1, PostShown
<1>3. bids \in Bids
  BY <1>1, <1>2 DEF WithBid, Bids, BidStatus
<1>4. op \in Op /\ OpLinked(op)
  BY HandlerType DEF Kinds, Steps, OpLinked, GoodPost
<1>5. ToRow(mem[i]) \in GoodRow
  BY <1>2, ToRowGood DEF IInv
<1> HIDE DEF i, bids, op
<1>6. started + 1 \in OpIds /\ GoodOps' /\ OpsLinked' /\ KindsKept
  BY <1>1, <1>4, Starts DEF IInv
<1>7. GoodLists'
  BY <1>1, <1>2, <1>3 DEF IInv, GoodLists
<1>8. GoodQueue' /\ QueueLinked'
  <2>1. [ToRow(mem[i]) EXCEPT !.bids = bids] \in GoodRow
    BY <1>3, <1>5, WithBidsGood
  <2>2. QED
    BY <1>1, <1>6, <2>1, QueueCalled DEF IInv, Calls
<1>9. GoodReplies' /\ RepliesLinked'
  BY <1>6, RepliesKept DEF IInv, AddBid, GoodOps
<1>10. QED
  BY <1>6, <1>7, <1>8, <1>9
     DEF IInv, AddBid, outside, GoodMem, GoodTasks, GoodDb, GoodRest

LEMMA BidsKeep ==
    ASSUME IInv, NEW l \in Loads, PlaceBid(l) \/ BidByName(l)
    PROVE  IInv'
<1>1. user \in Carriers
  BY DEF PlaceBid, BidByName
<1>2. user \in Bidders /\ NameOf[user] \in Bidders
  BY <1>1, LoadsAssumption DEF Bidders
<1>3. QED
  BY <1>2, AddBidKeeps DEF PlaceBid, BidByName

LEMMA RespondKeeps ==
    ASSUME IInv, NEW l \in Loads, NEW b \in Bidders,
           NEW verdict \in {"accepted", "rejected", "countered"}, Respond(l, b, verdict)
    PROVE  IInv'
<1> DEFINE i == IndexOf(mem, l)
           bids == [lists[mem[i].list][l] EXCEPT ![b] = verdict]
           post == Judged(mem[i], b, verdict)
           fresh == Handler("respond", "writeBids", l, b)
           op == [fresh EXCEPT !.index = i, !.verdict = verdict]
<1>1. /\ i # 0 /\ mem[i].list # 0
      /\ lists' = [lists EXCEPT ![mem[i].list][l] = bids]
      /\ mem' = [mem EXCEPT ![i] = post]
      /\ Call(started + 1, "updateLoadBids", [ToRow(post) EXCEPT !.bids = bids])
      /\ CanStart("respond") /\ StartOp(op)
  BY DEF Respond, BidOf
<1>2. /\ mem[i] \in GoodPost /\ mem[i].list \in OpIds /\ i \in 1..Len(mem)
      /\ lists[mem[i].list][l] \in Bids
  BY <1>1, PostShown
<1>3. bids \in Bids
  BY <1>2 DEF Bids, BidStatus
<1>4. post \in GoodPost
  BY <1>2, JudgedGood
<1>5. op \in Op /\ OpLinked(op)
  <2>1. i \in Nat \ {0}
    BY <1>1, <1>2
  <2>2. verdict \in BidStatus
    BY DEF BidStatus
  <2>3. fresh \in Op /\ fresh.kind = "respond" /\ Agree(fresh.post)
    BY HandlerType DEF Kinds, Steps, GoodPost
  <2> HIDE DEF i, fresh
  <2>4. QED
    BY <2>1, <2>2, <2>3 DEF Op, OpLinked
<1>6. ToRow(post) \in GoodRow
  BY <1>4, ToRowGood DEF IInv
<1> HIDE DEF i, bids, op, post
<1>7. started + 1 \in OpIds /\ GoodOps' /\ OpsLinked' /\ KindsKept
  BY <1>1, <1>5, Starts DEF IInv
<1>8. GoodLists'
  BY <1>1, <1>2, <1>3 DEF IInv, GoodLists
<1>9. GoodMem'
  BY <1>1, <1>2, <1>4, ExceptSeq DEF IInv, GoodMem
<1>10. GoodQueue' /\ QueueLinked'
  <2>1. [ToRow(post) EXCEPT !.bids = bids] \in GoodRow
    BY <1>3, <1>6, WithBidsGood
  <2>2. QED
    BY <1>1, <1>7, <2>1, QueueCalled DEF IInv, Calls
<1>11. GoodReplies' /\ RepliesLinked'
  BY <1>7, RepliesKept DEF IInv, Respond, GoodOps
<1>12. QED
  BY <1>7, <1>8, <1>9, <1>10, <1>11
     DEF IInv, Respond, outside, GoodTasks, GoodDb, GoodRest

LEMMA BidsWrittenKeeps ==
    ASSUME IInv, BidsWritten
    PROVE  IInv'
<1> DEFINE o == Head(replies).owner
           step(s) == ops' = [ops EXCEPT ![o].step = s]
<1>1. o \in OpIds /\ replies # <<>> /\ replies' = Tail(replies)
  BY Resumes DEF IInv, BidsWritten
<1>2. \/ (step("aborted") \/ step("done")) /\ UNCHANGED queue
      \/ step("read") /\ Call(o, "getLoads", AnyRow)
      \/ /\ step("writeLoad") /\ Call(o, "updateLoad", ToRow(mem[ops[o].index]))
         /\ ops[o].kind = "respond" /\ ops[o].index <= Len(mem)
  BY DEF BidsWritten, FetchLoads
<1>3. GoodOps' /\ OpsLinked' /\ KindsKept
  <2>1. PICK s \in {"aborted", "done", "read", "writeLoad"} : step(s)
    BY <1>2
  <2>2. QED
    BY <1>1, <2>1, Moves DEF IInv, BidsWritten, Steps
<1> HIDE DEF o, step
<1>4. GoodQueue' /\ QueueLinked'
  <2>1. CASE UNCHANGED queue
    BY <1>3, <2>1, QueueKept DEF IInv, GoodOps
  <2>2. CASE Call(o, "getLoads", AnyRow)
    BY <1>1, <1>3, <2>2, AnyRowGood, QueueCalled DEF IInv, Calls
  <2>3. CASE /\ Call(o, "updateLoad", ToRow(mem[ops[o].index]))
             /\ ops[o].kind = "respond" /\ ops[o].index <= Len(mem)
    <3>1. ops[o].index \in 1..Len(mem)
      BY <1>1, <2>3, LenProperties DEF IInv, GoodOps, OpsLinked, OpLinked, Op, GoodMem
    <3>2. ToRow(mem[ops[o].index]) \in GoodRow
      BY <3>1, ElementOfSeq, ToRowGood DEF IInv, GoodMem
    <3>3. QED
      BY <1>1, <1>3, <2>3, <3>2, QueueCalled DEF IInv, Calls
  <2>4. QED
    BY <1>2, <2>1, <2>2, <2>3
<1>5. GoodReplies' /\ RepliesLinked'
  BY <1>1, <1>3, RepliesKept DEF IInv, GoodOps
<1>6. QED
  BY <1>3, <1>4, <1>5
     DEF IInv, BidsWritten, memory, outside, GoodMem, GoodLists, GoodTasks, GoodDb, GoodRest

LEMMA OpenDialogKeeps ==
    ASSUME IInv, NEW l \in Loads, NEW kind \in {"confirm", "decline"},
           OpenDialog(l, kind)
    PROVE  IInv'
<1> DEFINE op == Handler(kind, "dialog", l, user)
<1>1. op \in Op /\ OpLinked(op)
  BY HandlerType DEF IInv, GoodRest, Kinds, Steps, Users, Bidders, OpLinked, GoodPost
<1>2. CanStart(kind) /\ StartOp(op)
  BY DEF OpenDialog
<1> HIDE DEF op
<1>3. started + 1 \in OpIds /\ GoodOps' /\ OpsLinked' /\ KindsKept
  BY <1>1, <1>2, Starts DEF IInv
<1>4. GoodQueue' /\ QueueLinked' /\ GoodReplies' /\ RepliesLinked'
  BY <1>3, QueueKept, RepliesKept DEF IInv, OpenDialog, GoodOps
<1>5. QED
  BY <1>3, <1>4
     DEF IInv, OpenDialog, memory, outside, GoodMem, GoodLists, GoodTasks, GoodDb, GoodRest

LEMMA CancelDialogKeeps ==
    ASSUME IInv, NEW o \in OpIds, CancelDialog(o)
    PROVE  IInv'
<1>1. GoodOps' /\ OpsLinked' /\ KindsKept
  BY Moves DEF IInv, CancelDialog, Steps
<1>2. GoodQueue' /\ QueueLinked' /\ GoodReplies' /\ RepliesLinked'
  BY <1>1, QueueKept, RepliesKept DEF IInv, CancelDialog, GoodOps
<1>3. QED
  BY <1>1, <1>2
     DEF IInv, CancelDialog, memory, outside, GoodMem, GoodLists, GoodTasks, GoodDb, GoodRest

LEMMA SubmitKeeps ==
    ASSUME IInv, NEW o \in OpIds, Submit(o)
    PROVE  IInv'
<1> DEFINE l == ops[o].load
           i == IndexOf(mem, l)
           post == Answered(mem[i], ops[o].kind)
<1>1. CASE i = 0
  <2>1. GoodOps' /\ OpsLinked' /\ KindsKept
    BY <1>1, Moves DEF IInv, Submit, Steps
  <2>2. GoodQueue' /\ QueueLinked' /\ GoodReplies' /\ RepliesLinked'
    BY <1>1, <2>1, QueueKept, RepliesKept DEF IInv, Submit, GoodOps
  <2>3. QED
    BY <1>1, <2>1, <2>2
       DEF IInv, Submit, outside, GoodMem, GoodLists, GoodTasks, GoodDb, GoodRest
<1>2. CASE i # 0
  <2>1. l \in Loads
    BY DEF IInv, GoodOps, Op
  <2>2. i \in 1..Len(mem) /\ mem[i] \in GoodPost
    BY <1>2, <2>1, PostShown
  <2>3. post \in GoodPost
    BY <2>2, AnsweredGood
  <2>4. ToRow(post) \in GoodRow
    BY <2>3, ToRowGood DEF IInv
  <2>5. /\ mem' = [mem EXCEPT ![i] = post]
        /\ ops' = [ops EXCEPT ![o].step = "writeLoad"]
        /\ Call(o, "updateLoad", ToRow(post))
    BY <1>2 DEF Submit
  <2> HIDE DEF l, i, post
  <2>6. GoodOps' /\ OpsLinked' /\ KindsKept
    BY <2>5, Moves DEF IInv, Submit, Steps
  <2>7. GoodMem'
    BY <2>2, <2>3, <2>5, ExceptSeq DEF IInv, GoodMem
  <2>8. GoodQueue' /\ QueueLinked'
    BY <2>4, <2>5, <2>6, QueueCalled DEF IInv, Calls
  <2>9. GoodReplies' /\ RepliesLinked'
    BY <2>6, RepliesKept DEF IInv, Submit, GoodOps
  <2>10. QED
    BY <2>6, <2>7, <2>8, <2>9
       DEF IInv, Submit, outside, GoodLists, GoodTasks, GoodDb, GoodRest
<1>3. QED
  BY <1>1, <1>2

LEMMA LoadWrittenKeeps ==
    ASSUME IInv, LoadWritten
    PROVE  IInv'
<1> DEFINE o == Head(replies).owner
           step(s) == ops' = [ops EXCEPT ![o].step = s]
<1>1. o \in OpIds /\ replies # <<>> /\ replies' = Tail(replies)
  BY Resumes DEF IInv, LoadWritten
<1>2. \/ (step("aborted") \/ step("done")) /\ UNCHANGED queue
      \/ step("read") /\ Call(o, "getLoads", AnyRow)
  BY DEF LoadWritten, FetchLoads
<1>3. GoodOps' /\ OpsLinked' /\ KindsKept
  <2>1. PICK s \in {"aborted", "read", "done"} : step(s)
    BY <1>2
  <2>2. QED
    BY <1>1, <2>1, Moves DEF IInv, LoadWritten, Steps
<1> HIDE DEF o, step
<1>4. GoodQueue' /\ QueueLinked'
  <2>1. CASE UNCHANGED queue
    BY <1>3, <2>1, QueueKept DEF IInv, GoodOps
  <2>2. CASE Call(o, "getLoads", AnyRow)
    BY <1>1, <1>3, <2>2, AnyRowGood, QueueCalled DEF IInv, Calls
  <2>3. QED
    BY <1>2, <2>1, <2>2
<1>5. GoodReplies' /\ RepliesLinked'
  BY <1>1, <1>3, RepliesKept DEF IInv, GoodOps
<1>6. QED
  BY <1>3, <1>4, <1>5
     DEF IInv, LoadWritten, memory, outside, GoodMem, GoodLists, GoodTasks, GoodDb, GoodRest

LEMMA RestartKeeps ==
    ASSUME IInv, Restart
    PROVE  IInv'
<1> DEFINE end(op) == IF op.step \in {"read", "distances"} THEN "done" ELSE "aborted"
<1>0. ASSUME NEW o \in OpIds
      PROVE  ops'[o] \in {ops[o], [ops[o] EXCEPT !.step = end(ops[o])]}
  BY DEF Restart
<1>1. GoodOps'
  <2>1. ASSUME NEW o \in OpIds
        PROVE  ops'[o] \in Op
    <3>1. ops[o] \in Op /\ end(ops[o]) \in Steps
      BY DEF IInv, GoodOps, Steps
    <3> HIDE DEF end
    <3>2. [ops[o] EXCEPT !.step = end(ops[o])] \in Op
      BY <3>1 DEF Op
    <3>3. QED
      BY <1>0, <3>1, <3>2
  <2>2. ops' = [o \in OpIds |-> ops'[o]]
    BY DEF Restart
  <2>3. QED
    BY <2>1, <2>2 DEF IInv, Restart, GoodOps
<1>2. \A o \in OpIds : /\ ops'[o].kind = ops[o].kind
                       /\ ops'[o].who = ops[o].who
                       /\ ops'[o].index = ops[o].index
                       /\ ops'[o].post = ops[o].post
  <2>1. \A o \in OpIds : ops[o] \in Op
    BY DEF IInv, GoodOps
  <2> HIDE DEF end
  <2>2. QED
    BY <1>0, <2>1 DEF Op
<1>3. OpsLinked' /\ KindsKept
  BY <1>2 DEF IInv, Restart, GoodOps, OpsLinked, OpLinked, KindsKept
<1>4. GoodQueue' /\ QueueLinked' /\ GoodReplies' /\ RepliesLinked'
  BY <1>3, QueueKept, RepliesKept DEF IInv, Restart, GoodOps
<1>5. GoodMem' /\ GoodLists'
  BY NoBidsType, EmptySeq DEF Restart, GoodMem, GoodLists
<1>6. GoodTasks'
  BY FreshGood DEF Restart, GoodTasks, GoodTask, NoTask
<1>7. GoodDb' /\ GoodRest'
  BY LoadsAssumption, BoundsAssumption, LenProperties
     DEF IInv, Restart, GoodDb, GoodRest
<1>8. QED
  BY <1>1, <1>3, <1>4, <1>5, <1>6, <1>7 DEF IInv

LEMMA StutterKeeps ==
    ASSUME IInv, UNCHANGED vars
    PROVE  IInv'
BY DEF IInv, vars, GoodMem, GoodLists, GoodTasks, GoodOps, GoodDb, GoodQueue,
       GoodReplies, GoodRest, OpsLinked, QueueLinked, RepliesLinked

LEMMA NextKeeps ==
    ASSUME IInv, [Next]_vars
    PROVE  IInv'
<1>1. CASE InsertTestLoad
  BY <1>1, InsertTestLoadKeeps
<1>2. CASE DbExecute \/ DbFail
  BY <1>2, DatabaseKeeps
<1>3. CASE (\E u \in Users : Login(u)) \/ LoginAnswered \/ Logout
  BY <1>3, LoginKeeps, LoginAnsweredKeeps, LogoutKeeps
<1>4. CASE Refresh \/ LoadsRead
  BY <1>4, RefreshKeeps, LoadsReadKeeps
<1>5. CASE \/ \E o \in OpIds, l \in Loads : RouteFound(o, l) \/ RouteMissing(o, l)
           \/ DistanceSaved
  BY <1>5, RouteFoundKeeps, RouteMissingKeeps, DistanceSavedKeeps
<1>6. CASE \/ \E l \in Loads : OpenDetails(l) \/ PostLoad(l) \/ PostReturn(l)
           \/ LoadInserted
  BY <1>6, OpenDetailsKeeps, PostLoadKeeps, PostReturnKeeps, LoadInsertedKeeps
<1>7. CASE (\E chosen \in SUBSET Loads \ {{}} : DeleteLoads(chosen)) \/ LoadDeleted
  BY <1>7, DeleteLoadsKeeps, LoadDeletedKeeps
<1>8. CASE \/ \E l \in Loads : PlaceBid(l) \/ BidByName(l)
           \/ \E l \in Loads, b \in Bidders, v \in {"accepted", "rejected", "countered"} :
                  Respond(l, b, v)
           \/ BidsWritten
  BY <1>8, BidsKeep, RespondKeeps, BidsWrittenKeeps
<1>9. CASE \/ \E l \in Loads, kind \in {"confirm", "decline"} : OpenDialog(l, kind)
           \/ \E o \in OpIds : CancelDialog(o) \/ Submit(o)
           \/ LoadWritten
  BY <1>9, OpenDialogKeeps, CancelDialogKeeps, SubmitKeeps, LoadWrittenKeeps
<1>10. CASE Restart
  BY <1>10, RestartKeeps
<1>11. CASE UNCHANGED vars
  BY <1>11, StutterKeeps
<1>12. QED
  BY <1>1, <1>2, <1>3, <1>4, <1>5, <1>6, <1>7, <1>8, <1>9, <1>10, <1>11
     DEF Next, Users

LEMMA InvariantHolds == Spec => []IInv
<1>1. IInv /\ [Next]_vars => IInv'
  BY NextKeeps
<1>2. QED
  BY InitHolds, <1>1, PTL DEF Spec

-----------------------------------------------------------------------------
(* Whatever handlers overlap, whichever database calls fail and whenever   *)
(* the app is killed, every variable of LoadProvider, of the session, of   *)
(* the database and of the calls between them holds a value of its type.   *)
THEOREM TypeCorrect == Spec => []TypeOK
<1>1. IInv => TypeOK
  <2> SUFFICES ASSUME IInv PROVE TypeOK
    OBVIOUS
  <2>1. GoodPost \subseteq Post /\ GoodRow \subseteq Row
        /\ GoodRequest \subseteq Request /\ GoodReply \subseteq Reply
    BY DEF GoodPost, GoodRow, GoodRequest, GoodReply
  <2>2. mem \in Seq(Post) /\ db \in Seq(Row)
        /\ queue \in Seq(Request) /\ replies \in Seq(Reply)
    BY <2>1, SeqMonotonic DEF IInv, GoodMem, GoodDb, GoodQueue, GoodReplies
  <2>3. tasks \in [OpIds -> [Loads -> Task]]
    BY <2>1 DEF IInv, GoodTasks, GoodTask, Task
  <2>4. user \in Carriers \cup {Broker, NoOne}
    BY DEF IInv, GoodRest, Users
  <2>5. QED
    BY <2>2, <2>3, <2>4 DEF IInv, GoodLists, GoodOps, GoodRest, TypeOK
<1>2. QED
  BY InvariantHolds, <1>1, PTL

(* The status of a load agrees with its two confirmation flags, in memory  *)
(* and in the table, under every overlap of updateBidStatus, confirmLoad,  *)
(* declineLoad and the distance write-back, every failure and every kill.  *)
THEOREM FlagsAgree == Spec => []StatusFlagsAgree
<1>1. IInv => StatusFlagsAgree
  <2> SUFFICES ASSUME IInv PROVE StatusFlagsAgree
    OBVIOUS
  <2>1. \A i \in DOMAIN mem : mem[i] \in GoodPost
    BY LenProperties, ElementOfSeq DEF IInv, GoodMem
  <2>2. \A i \in DOMAIN db : db[i] \in GoodRow
    BY LenProperties, ElementOfSeq DEF IInv, GoodDb
  <2>3. QED
    BY <2>1, <2>2 DEF StatusFlagsAgree, GoodPost, GoodRow
<1>2. QED
  BY InvariantHolds, <1>1, PTL

-----------------------------------------------------------------------------
(* What the list shows. *)

(* The calls between the code and the database are one pipe: `replies`     *)
(* holds the executed ones, `queue` the others, and a call keeps its place *)
(* when it is executed.                                                    *)
Pipe ==
    [p \in 1..(Len(replies) + Len(queue)) |->
        IF p <= Len(replies)
        THEN [call |-> replies[p].call, owner |-> replies[p].owner, load |-> replies[p].load]
        ELSE LET q == queue[p - Len(replies)]
             IN  [call |-> q.call, owner |-> q.owner, load |-> q.row.id]]

(* Each call knows its operation, and only deletions delete. *)
CallLinked(c, n, f) ==
    /\ c.owner \in OpIds /\ c.owner <= n
    /\ c.call = "deleteLoad" <=> f[c.owner].kind = "delete"
    /\ c.call = "deleteLoad" => c.load = f[c.owner].load /\ f[c.owner].step = "delete"
    /\ c.call = "insertLoad" =>
          /\ c.load = f[c.owner].post.id
          /\ c.load # EmptyId => f[c.owner].kind = "post" /\ c.load = f[c.owner].load
CallsLinked == \A p \in DOMAIN Pipe : CallLinked(Pipe[p], started, ops)
TasksLinked ==
    \A o \in OpIds, l \in Loads :
        tasks[o][l].step # "none" => o <= started /\ ops[o].kind # "delete"

(* A deletion has one call at a time under way, and no two operations post *)
(* the same load.                                                          *)
CallsApart ==
    \A p, q \in DOMAIN Pipe :
        /\ Pipe[p].call = Pipe[q].call
        /\ \/ Pipe[p].call = "deleteLoad" /\ Pipe[p].owner = Pipe[q].owner
           \/ /\ Pipe[p].call = "insertLoad" /\ Pipe[p].load = Pipe[q].load
              /\ Pipe[p].load # EmptyId
        => p = q

OpShaped(op) ==
    /\ op.kind = "none" => op.step = "idle"
    /\ op.kind # "delete" => op.chosen = {}
    /\ op.kind = "delete" =>
          /\ op.step \in {"delete", "done", "aborted"}
          /\ op.load \in op.chosen
          /\ op.todo \subseteq op.chosen
OpsShaped == \A o \in OpIds : OpShaped(ops[o]) /\ (o > started <=> ops[o].kind = "none")

(* Nothing runs while main() inserts the test loads. *)
BootsAlone ==
    ~Booted => /\ mem = <<>> /\ queue = <<>> /\ replies = <<>>
               /\ \A o \in OpIds, l \in Loads : tasks[o][l].step = "none"
               /\ restarts = 0 => started = 0

(* No load is twice in the table, in a reply or, but for return loads, on  *)
(* the board.                                                              *)
UniqueAt(s, l) == \A i, j \in DOMAIN s : s[i].id = l /\ s[j].id = l => i = j
Unique ==
    \A l \in Loads :
        /\ UniqueAt(db, l)
        /\ \A k \in DOMAIN replies : UniqueAt(replies[k].rows, l)
        /\ l # EmptyId => UniqueAt(mem, l)

(* A load being posted is nowhere until its insert is executed, and then   *)
(* only in the table and in the replies behind it.                         *)
Posting ==
    \A p \in DOMAIN Pipe :
        Pipe[p].call = "insertLoad" /\ Pipe[p].load # EmptyId =>
            /\ ~Has(mem, Pipe[p].load)
            /\ p > Len(replies) => ~Has(db, Pipe[p].load)
            /\ \A k \in DOMAIN replies : k < p => ~Has(replies[k].rows, Pipe[p].load)
            /\ \A o \in OpIds : Pipe[p].load \notin ops[o].chosen

(* A row that was read is in the table still, or a deletion was told to    *)
(* delete it.                                                              *)
ReadOnce ==
    \A k \in DOMAIN replies : \A l \in Loads \ {EmptyId} :
        Has(replies[k].rows, l) => Has(db, l) \/ \E o \in OpIds : l \in ops[o].chosen

(* A load is gone from the table and from the replies behind its deletion  *)
(* once that is executed.                                                  *)
Deleting ==
    \A p \in DOMAIN replies :
        replies[p].call = "deleteLoad" /\ replies[p].ok /\ replies[p].load # EmptyId =>
            /\ ~Has(db, replies[p].load)
            /\ \A k \in DOMAIN replies : k > p => ~Has(replies[k].rows, replies[p].load)

Deleted ==
    \A o \in OpIds : \A l \in Gone(o) \ {EmptyId} :
        restarts = 0 \/ (\A i \in DOMAIN Seeds : Seeds[i] # l) =>
            /\ ~Has(mem, l) /\ ~Has(db, l)
            /\ \A k \in DOMAIN replies : ~Has(replies[k].rows, l)

ListInv ==
    /\ CallsLinked /\ TasksLinked /\ CallsApart /\ OpsShaped /\ BootsAlone
    /\ Unique /\ Posting /\ ReadOnce /\ Deleting /\ Deleted

-----------------------------------------------------------------------------
(* Which ids a list holds after an element is removed or added. *)

LEMMA WithoutIds ==
    ASSUME NEW S, NEW s \in Seq(S), NEW l
    PROVE  /\ \A k : Has(Without(s, l), k) => Has(s, k)
           /\ \A k : k # l /\ Has(s, k) => Has(Without(s, l), k)
           /\ \A k : UniqueAt(s, k) => UniqueAt(Without(s, l), k)
           /\ UniqueAt(s, l) => ~Has(Without(s, l), l)
<1> DEFINE p == IndexOf(s, l)
           w == Without(s, l)
<1>1. /\ Len(s) \in Nat /\ DOMAIN s = 1..Len(s) /\ p \in 0..Len(s)
      /\ p # 0 => s[p].id = l
      /\ Has(s, l) <=> p # 0
  BY IndexOfSpec, LenProperties
<1>2. CASE p = 0
  <2>1. w = s
    BY <1>2 DEF Without
  <2>2. QED
    BY <1>1, <1>2, <2>1
<1>3. CASE p # 0
  <2>1. w = [i \in 1..(Len(s) - 1) |-> IF i < p THEN s[i] ELSE s[i + 1]]
    BY <1>3 DEF Without
  <2> HIDE DEF w, p
  <2>2. DOMAIN w = 1..(Len(s) - 1)
    BY <2>1
  <2>3. \A i \in DOMAIN w : /\ i < p => i \in DOMAIN s /\ w[i] = s[i]
                            /\ i >= p => i + 1 \in DOMAIN s /\ w[i] = s[i + 1]
    BY <1>1, <2>1
  <2>4. \A k : Has(w, k) => Has(s, k)
    BY <1>1, <2>2, <2>3 DEF Has
  <2>5. ASSUME NEW k, k # l, Has(s, k)
        PROVE  Has(w, k)
    <3>1. PICK j \in DOMAIN s : s[j].id = k
      BY <2>5 DEF Has
    <3>2. j # p
      BY <1>1, <1>3, <2>5, <3>1
    <3>3. CASE j < p
      <4>1. j \in DOMAIN w /\ w[j] = s[j]
        BY <1>1, <2>2, <2>3, <3>3
      <4>2. QED
        BY <3>1, <4>1 DEF Has
    <3>4. CASE j > p
      <4>1. j - 1 \in DOMAIN w /\ j - 1 >= p /\ (j - 1) + 1 = j
        <5>1. j \in 1..Len(s) /\ p \in 1..Len(s) /\ Len(s) \in Nat
          BY <1>1, <1>3
        <5>2. QED
          BY <2>2, <3>4, <5>1
      <4>2. w[j - 1] = s[j]
        BY <2>3, <4>1
      <4>3. QED
        BY <3>1, <4>1, <4>2 DEF Has
    <3>5. QED
      BY <1>1, <3>2, <3>3, <3>4
  <2>6. ASSUME NEW k, UniqueAt(s, k), NEW i \in DOMAIN w, NEW j \in DOMAIN w,
               w[i].id = k, w[j].id = k
        PROVE  i = j
    <3>1. CASE i < p /\ j < p
      BY <2>3, <2>6, <3>1 DEF UniqueAt
    <3>2. CASE i < p /\ j >= p
      <4>1. i = j + 1
        BY <2>3, <2>6, <3>2 DEF UniqueAt
      <4>2. QED
        BY <1>1, <2>2, <3>2, <4>1
    <3>3. CASE i >= p /\ j < p
      <4>1. i + 1 = j
        BY <2>3, <2>6, <3>3 DEF UniqueAt
      <4>2. QED
        BY <1>1, <2>2, <3>3, <4>1
    <3>4. CASE i >= p /\ j >= p
      <4>1. i + 1 = j + 1
        BY <2>3, <2>6, <3>4 DEF UniqueAt
      <4>2. QED
        BY <2>2, <4>1
    <3>5. QED
      BY <1>1, <2>2, <3>1, <3>2, <3>3, <3>4
  <2>7. ASSUME UniqueAt(s, l), NEW i \in DOMAIN w, w[i].id = l
        PROVE  FALSE
    <3>1. CASE i < p
      BY <1>1, <1>3, <2>3, <2>7, <3>1 DEF UniqueAt
    <3>2. CASE i >= p
      <4>1. i + 1 = p
        BY <1>1, <1>3, <2>3, <2>7, <3>2 DEF UniqueAt
      <4>2. QED
        BY <1>1, <2>2, <3>2, <4>1
    <3>3. QED
      BY <1>1, <2>2, <3>1, <3>2
  <2>8. QED
    BY <2>4, <2>5, <2>6, <2>7 DEF UniqueAt, Has, w
<1>4. QED
  BY <1>2, <1>3

LEMMA AppendIds ==
    ASSUME NEW S, NEW s \in Seq(S), NEW x \in S
    PROVE  /\ \A k : Has(Append(s, x), k) <=> Has(s, k) \/ x.id = k
           /\ \A k : UniqueAt(s, k) /\ (x.id = k => ~Has(s, k)) => UniqueAt(Append(s, x), k)
<1> DEFINE t == Append(s, x)
<1>1. /\ Len(s) \in Nat /\ DOMAIN s = 1..Len(s) /\ DOMAIN t = 1..(Len(s) + 1)
      /\ \A i \in DOMAIN s : t[i] = s[i]
      /\ t[Len(s) + 1] = x
  BY AppendProperties, LenProperties
<1> HIDE DEF t
<1>2. \A i \in DOMAIN t : i \in DOMAIN s \/ i = Len(s) + 1
  BY <1>1
<1>3. DOMAIN s \subseteq DOMAIN t /\ Len(s) + 1 \in DOMAIN t
  BY <1>1
<1>4. \A k : Has(t, k) <=> Has(s, k) \/ x.id = k
  BY <1>1, <1>2, <1>3 DEF Has
<1>5. ASSUME NEW k, UniqueAt(s, k), x.id = k => ~Has(s, k)
      PROVE  UniqueAt(t, k)
  BY <1>1, <1>2, <1>5 DEF Has, UniqueAt
<1>6. QED
  BY <1>4, <1>5 DEF t

(* Handlers that replace posts by copies keep the ids. *)
LEMMA SameIds ==
    ASSUME NEW s, NEW t, DOMAIN t = DOMAIN s, \A i \in DOMAIN s : t[i].id = s[i].id
    PROVE  \A k : (Has(t, k) <=> Has(s, k)) /\ (UniqueAt(t, k) <=> UniqueAt(s, k))
BY DEF Has, UniqueAt

LEMMA EmptyIds == \A k : ~Has(<<>>, k) /\ UniqueAt(<<>>, k)
BY DEF Has, UniqueAt

(* A call adds a row, removes one, or leaves the ids as they are. *)
LEMMA WrittenIds ==
    ASSUME NEW table \in Seq(GoodRow), NEW req \in GoodRequest,
           \A l \in Loads : UniqueAt(table, l)
    PROVE  /\ \A l \in Loads : UniqueAt(Written(table, req), l)
           /\ \A l : Has(Written(table, req), l) =>
                 Has(table, l) \/ (req.call = "insertLoad" /\ l = req.row.id)
           /\ \A l : Has(table, l) =>
                 Has(Written(table, req), l) \/ (req.call = "deleteLoad" /\ l = req.row.id)
           /\ req.call = "deleteLoad" => ~Has(Written(table, req), req.row.id)
<1>1. req.row \in GoodRow /\ req.row.id \in Loads
  BY DEF GoodRequest, Request, Row, GoodRow
<1> DEFINE w == Without(table, req.row.id)
<1>2. /\ w \in Seq(GoodRow)
      /\ \A k : Has(w, k) => Has(table, k)
      /\ \A k : k # req.row.id /\ Has(table, k) => Has(w, k)
      /\ \A k \in Loads : UniqueAt(w, k)
      /\ ~Has(w, req.row.id)
  BY <1>1, WithoutType, WithoutIds
<1>3. CASE req.call = "insertLoad"
  <2>1. Written(table, req) = Append(w, req.row)
    BY <1>3 DEF Written
  <2> HIDE DEF w
  <2>2. /\ \A k : Has(Append(w, req.row), k) <=> Has(w, k) \/ req.row.id = k
        /\ \A k : UniqueAt(w, k) /\ (req.row.id = k => ~Has(w, k))
                  => UniqueAt(Append(w, req.row), k)
    BY <1>1, <1>2, AppendIds
  <2>3. /\ \A k : Has(Written(table, req), k) <=> Has(w, k) \/ req.row.id = k
        /\ \A k \in Loads : UniqueAt(Written(table, req), k)
    BY <1>2, <2>1, <2>2
  <2>4. \A l : Has(table, l) => Has(Written(table, req), l)
    BY <1>2, <2>3
  <2>5. QED
    BY <1>2, <1>3, <2>3, <2>4
<1>4. CASE req.call = "deleteLoad"
  <2>1. Written(table, req) = w
    BY <1>4 DEF Written
  <2> HIDE DEF w
  <2>2. QED
    BY <1>2, <1>4, <2>1
<1>5. CASE req.call \notin {"insertLoad", "deleteLoad"}
  <2>1. /\ DOMAIN Written(table, req) = DOMAIN table
        /\ \A i \in DOMAIN table : Written(table, req)[i].id = table[i].id
    <3>1. \A i \in DOMAIN table : table[i] \in Row
      BY LenProperties, ElementOfSeq DEF GoodRow
    <3>2. CASE req.call = "updateLoadBids"
      BY <3>1, <3>2 DEF Written, Row
    <3>3. CASE req.call \in {"updateLoad", "saveDistance"}
      BY <3>3 DEF Written
    <3>4. CASE req.call \notin {"updateLoadBids", "updateLoad", "saveDistance"}
      BY <1>5, <3>4 DEF Written
    <3>5. QED
      BY <3>2, <3>3, <3>4
  <2>2. \A k : /\ Has(Written(table, req), k) <=> Has(table, k)
              /\ UniqueAt(Written(table, req), k) <=> UniqueAt(table, k)
    BY <2>1, SameIds
  <2>3. req.call # "deleteLoad"
    BY <1>5
  <2>4. \A l \in Loads : UniqueAt(Written(table, req), l)
    BY <2>2
  <2>5. \A l : Has(Written(table, req), l) => Has(table, l)
    BY <2>1 DEF Has
  <2>6. \A l : Has(table, l) => Has(Written(table, req), l)
    BY <2>1 DEF Has
  <2>7. QED
    BY <2>3, <2>4, <2>5, <2>6
<1>6. QED
  BY <1>3, <1>4, <1>5

-----------------------------------------------------------------------------
(* The pipe. *)

PipeSizes ==
    /\ Len(replies) \in Nat /\ DOMAIN replies = 1..Len(replies)
    /\ Len(queue) \in Nat /\ DOMAIN queue = 1..Len(queue)
    /\ DOMAIN Pipe = 1..(Len(replies) + Len(queue))
ExecutedFirst ==
    \A k \in DOMAIN replies :
        Pipe[k] = [call |-> replies[k].call, owner |-> replies[k].owner,
                   load |-> replies[k].load]
WaitingNext ==
    \A i \in DOMAIN queue :
        Pipe[Len(replies) + i] = [call |-> queue[i].call, owner |-> queue[i].owner,
                                  load |-> queue[i].row.id]
PipeTypes ==
    /\ \A k \in DOMAIN replies :
          /\ replies[k].owner \in OpIds /\ replies[k].load \in Loads
          /\ replies[k].rows \in Seq(GoodRow)
    /\ \A i \in DOMAIN queue :
          /\ queue[i] \in GoodRequest
          /\ queue[i].owner \in OpIds /\ queue[i].row.id \in Loads
PipeFacts == PipeSizes /\ ExecutedFirst /\ WaitingNext /\ PipeTypes

LEMMA PipeShape == GoodQueue /\ GoodReplies => PipeFacts
<1> SUFFICES ASSUME GoodQueue, GoodReplies PROVE PipeFacts
  OBVIOUS
<1>1. /\ Len(replies) \in Nat /\ DOMAIN replies = 1..Len(replies)
      /\ Len(queue) \in Nat /\ DOMAIN queue = 1..Len(queue)
  BY LenProperties DEF GoodQueue, GoodReplies
<1>2. ASSUME NEW k \in DOMAIN replies
      PROVE  /\ replies[k].owner \in OpIds /\ replies[k].load \in Loads
             /\ replies[k].rows \in Seq(GoodRow)
  <2>1. replies[k] \in GoodReply
    BY <1>1, ElementOfSeq DEF GoodReplies
  <2>2. /\ replies[k].rows \in Seq(Row)
        /\ \A i \in DOMAIN replies[k].rows : Agree(replies[k].rows[i])
    BY <2>1 DEF GoodReply, Reply
  <2>3. replies[k].rows \in [1..Len(replies[k].rows) -> GoodRow]
    BY <2>2, LenProperties DEF GoodRow
  <2>4. replies[k].rows \in Seq(GoodRow)
    BY <2>2, <2>3, LenProperties, SeqDef
  <2>5. QED
    BY <2>1, <2>4 DEF GoodReply, Reply
<1>3. ASSUME NEW i \in DOMAIN queue
      PROVE  queue[i] \in GoodRequest /\ queue[i].owner \in OpIds /\ queue[i].row.id \in Loads
  BY <1>1, ElementOfSeq DEF GoodQueue, GoodRequest, Request, Row
<1>4. /\ DOMAIN Pipe = 1..(Len(replies) + Len(queue))
      /\ \A k \in DOMAIN replies :
            Pipe[k] = [call |-> replies[k].call, owner |-> replies[k].owner,
                       load |-> replies[k].load]
      /\ \A i \in DOMAIN queue :
            Pipe[Len(replies) + i] = [call |-> queue[i].call, owner |-> queue[i].owner,
                                      load |-> queue[i].row.id]
  BY <1>1 DEF Pipe
<1>5. QED
  BY <1>1, <1>2, <1>3, <1>4
     DEF PipeFacts, PipeSizes, ExecutedFirst, WaitingNext, PipeTypes

LEMMA PipeShapeNext == GoodQueue' /\ GoodReplies' => PipeFacts'
BY PipeShape, PTL

(* A step takes d replies off the pipe. *)
RepliesMoved(d) ==
    /\ Len(replies') = Len(replies) - d
    /\ \A k \in DOMAIN replies' : k + d \in DOMAIN replies /\ replies'[k] = replies[k + d]
Moved(p, d) == p + d \in DOMAIN Pipe /\ Pipe'[p] = Pipe[p + d]

LEMMA RepliesTaken ==
    ASSUME GoodReplies
    PROVE  /\ UNCHANGED replies => RepliesMoved(0)
           /\ replies # <<>> /\ replies' = Tail(replies) => RepliesMoved(1)
<1>1. Len(replies) \in Nat /\ DOMAIN replies = 1..Len(replies)
  BY LenProperties DEF GoodReplies
<1>2. ASSUME UNCHANGED replies PROVE RepliesMoved(0)
  BY <1>1, <1>2 DEF RepliesMoved
<1>3. ASSUME replies # <<>>, replies' = Tail(replies) PROVE RepliesMoved(1)
  <2>1. /\ replies' \in Seq(GoodReply)
        /\ Len(replies') = Len(replies) - 1
        /\ DOMAIN replies' = 1..(Len(replies) - 1)
        /\ \A i \in DOMAIN replies' : replies'[i] = replies[i + 1]
    BY <1>3, HeadTailProperties, LenProperties DEF GoodReplies
  <2>2. QED
    BY <1>1, <2>1 DEF RepliesMoved
<1>4. QED
  BY <1>2, <1>3

LEMMA ExecutedMoved ==
    ASSUME PipeFacts, PipeFacts', NEW d \in {0, 1}, NEW p \in DOMAIN replies',
           p + d \in DOMAIN replies, replies'[p] = replies[p + d]
    PROVE  Moved(p, d)
<1>1. Pipe'[p] = [call |-> replies'[p].call, owner |-> replies'[p].owner,
                  load |-> replies'[p].load]
  BY DEF PipeFacts, ExecutedFirst
<1>2. Pipe[p + d] = [call |-> replies[p + d].call, owner |-> replies[p + d].owner,
                     load |-> replies[p + d].load]
  BY DEF PipeFacts, ExecutedFirst
<1>3. p + d \in DOMAIN Pipe
  BY DEF PipeFacts, PipeSizes
<1>4. QED
  BY <1>1, <1>2, <1>3 DEF Moved

LEMMA WaitingMoved ==
    ASSUME PipeFacts, PipeFacts', NEW d \in {0, 1}, RepliesMoved(d),
           NEW i \in DOMAIN queue, i \in DOMAIN queue', queue'[i] = queue[i],
           NEW p, p = Len(replies') + i
    PROVE  Moved(p, d)
<1>1. Pipe'[Len(replies') + i] = [call |-> queue'[i].call, owner |-> queue'[i].owner,
                                  load |-> queue'[i].row.id]
  BY DEF PipeFacts, WaitingNext
<1>2. Pipe[Len(replies) + i] = [call |-> queue[i].call, owner |-> queue[i].owner,
                                load |-> queue[i].row.id]
  BY DEF PipeFacts, WaitingNext
<1>3. p + d = Len(replies) + i /\ p + d \in DOMAIN Pipe
  BY DEF PipeFacts, PipeSizes, RepliesMoved
<1>4. Pipe'[p] = Pipe[p + d]
  BY <1>1, <1>2, <1>3
<1>5. QED
  BY <1>3, <1>4 DEF Moved

LEMMA PipeKept ==
    ASSUME PipeFacts, PipeFacts', NEW d \in {0, 1}, RepliesMoved(d), UNCHANGED queue
    PROVE  \A p \in DOMAIN Pipe' : Moved(p, d)
<1> TAKE p \in DOMAIN Pipe'
<1>1. CASE p \in DOMAIN replies'
  <2>1. p + d \in DOMAIN replies /\ replies'[p] = replies[p + d]
    BY <1>1 DEF RepliesMoved
  <2>2. QED
    BY <1>1, <2>1, ExecutedMoved
<1>2. CASE p \notin DOMAIN replies'
  <2> DEFINE i == p - Len(replies')
  <2>1. i \in DOMAIN queue' /\ p = Len(replies') + i
    BY <1>2 DEF PipeFacts, PipeSizes
  <2>2. i \in DOMAIN queue /\ queue'[i] = queue[i]
    BY <2>1
  <2> HIDE DEF i
  <2>3. QED
    BY <2>1, <2>2, WaitingMoved
<1>3. QED
  BY <1>1, <1>2

LEMMA PipeCalled ==
    ASSUME PipeFacts, PipeFacts', GoodQueue, NEW d \in {0, 1}, RepliesMoved(d),
           NEW o, NEW call, NEW row, Call(o, call, row)
    PROVE  \A p \in DOMAIN Pipe' :
              \/ Moved(p, d)
              \/ /\ p + d = Len(replies) + Len(queue) + 1
                 /\ p > Len(replies')
                 /\ Pipe'[p] = [call |-> call, owner |-> o, load |-> row.id]
<1> DEFINE q == [call |-> call, owner |-> o, row |-> row]
           S == GoodRequest \cup {q}
<1>1. q.call = call /\ q.owner = o /\ q.row = row
  OBVIOUS
<1>2. queue' = Append(queue, q)
  BY DEF Call
<1> HIDE DEF q
<1>3. /\ Len(queue') = Len(queue) + 1
      /\ \A i \in DOMAIN queue : queue'[i] = queue[i]
      /\ queue'[Len(queue) + 1] = q
  <2>1. queue \in Seq(S)
    BY SeqMonotonic DEF GoodQueue
  <2>2. q \in S
    OBVIOUS
  <2>3. Len(queue) \in Nat /\ DOMAIN queue = 1..Len(queue)
    BY <2>1, LenProperties
  <2>4. QED
    BY <1>2, <2>1, <2>2, <2>3, AppendProperties
<1> TAKE p \in DOMAIN Pipe'
<1>4. CASE p \in DOMAIN replies'
  <2>1. p + d \in DOMAIN replies /\ replies'[p] = replies[p + d]
    BY <1>4 DEF RepliesMoved
  <2>2. QED
    BY <1>4, <2>1, ExecutedMoved
<1>5. CASE p \notin DOMAIN replies'
  <2> DEFINE i == p - Len(replies')
  <2>1. i \in DOMAIN queue' /\ p = Len(replies') + i /\ p > Len(replies')
    BY <1>5 DEF PipeFacts, PipeSizes
  <2> HIDE DEF i
  <2>3. CASE i \in DOMAIN queue
    BY <1>3, <2>1, <2>3, WaitingMoved
  <2>4. CASE i \notin DOMAIN queue
    <3>1. i = Len(queue) + 1
      BY <1>3, <2>1, <2>4 DEF PipeFacts, PipeSizes
    <3>2. Pipe'[Len(replies') + i] = [call |-> queue'[i].call, owner |-> queue'[i].owner,
                                     load |-> queue'[i].row.id]
      BY <2>1 DEF PipeFacts, WaitingNext
    <3>3. Pipe'[p] = [call |-> call, owner |-> o, load |-> row.id]
      BY <1>1, <1>3, <2>1, <3>1, <3>2
    <3>4. p + d = Len(replies) + Len(queue) + 1
      <4>1. /\ Len(replies') = Len(replies) - d /\ Len(replies) \in Nat
            /\ Len(queue) \in Nat
        BY DEF PipeFacts, PipeSizes, RepliesMoved
      <4>2. QED
        BY <2>1, <3>1, <4>1
    <3>5. QED
      BY <2>1, <3>3, <3>4
  <2>5. QED
    BY <2>3, <2>4
<1>6. QED
  BY <1>4, <1>5

(* The database executes a call: it keeps its place. *)
LEMMA PipeExecuted ==
    ASSUME PipeFacts, PipeFacts', GoodQueue, GoodReplies, queue # <<>>,
           queue' = Tail(queue), NEW r, replies' = Append(replies, r),
           r.call = Head(queue).call, r.owner = Head(queue).owner,
           r.load = Head(queue).row.id
    PROVE  /\ Pipe' = Pipe
           /\ Len(replies) + 1 \in DOMAIN Pipe
           /\ Len(replies') = Len(replies) + 1
           /\ \A k \in DOMAIN replies : replies'[k] = replies[k]
           /\ replies'[Len(replies) + 1] = r
<1>1. /\ Head(queue) = queue[1] /\ 1 \in DOMAIN queue
      /\ Len(queue') = Len(queue) - 1
      /\ \A i \in DOMAIN queue' : queue'[i] = queue[i + 1]
  BY HeadTailProperties, LenProperties, EmptySeq DEF GoodQueue
<1>2. /\ Len(replies') = Len(replies) + 1
      /\ \A k \in DOMAIN replies : replies'[k] = replies[k]
      /\ replies'[Len(replies) + 1] = r
  <2> DEFINE S == GoodReply \cup {r}
  <2>1. replies \in Seq(S)
    BY SeqMonotonic DEF GoodReplies
  <2>2. r \in S /\ Len(replies) \in Nat /\ DOMAIN replies = 1..Len(replies)
    BY <2>1, LenProperties
  <2>3. QED
    BY <2>1, <2>2, AppendProperties
<1>3. Len(replies) + 1 \in DOMAIN Pipe /\ DOMAIN Pipe' = DOMAIN Pipe
  BY <1>1, <1>2 DEF PipeFacts, PipeSizes
<1>4. ASSUME NEW p \in DOMAIN Pipe
      PROVE  Pipe'[p] = Pipe[p]
  <2>1. CASE p \in DOMAIN replies
    <3>1. p \in DOMAIN replies'
      BY <1>2, <2>1 DEF PipeFacts, PipeSizes
    <3>2. QED
      BY <1>2, <2>1, <3>1 DEF PipeFacts, ExecutedFirst
  <2>2. CASE p = Len(replies) + 1
    <3>1. p \in DOMAIN replies'
      BY <1>2, <2>2 DEF PipeFacts, PipeSizes
    <3>2. Pipe'[p] = [call |-> r.call, owner |-> r.owner, load |-> r.load]
      BY <1>2, <2>2, <3>1 DEF PipeFacts, ExecutedFirst
    <3>3. QED
      BY <1>1, <2>2, <3>2 DEF PipeFacts, WaitingNext
  <2>3. CASE p > Len(replies) + 1
    <3> DEFINE i == p - (Len(replies) + 1)
    <3>1. /\ i \in DOMAIN queue' /\ p = Len(replies') + i
          /\ i + 1 \in DOMAIN queue /\ p = Len(replies) + (i + 1)
      <4>1. /\ Len(replies) \in Nat /\ Len(queue) \in Nat
            /\ DOMAIN Pipe = 1..(Len(replies) + Len(queue))
            /\ DOMAIN queue = 1..Len(queue) /\ DOMAIN queue' = 1..(Len(queue) - 1)
        BY <1>1 DEF PipeFacts, PipeSizes
      <4>2. p \in Nat /\ p > Len(replies) + 1 /\ p <= Len(replies) + Len(queue)
        BY <2>3, <4>1
      <4>3. i \in 1..(Len(queue) - 1) /\ i + 1 \in 1..Len(queue)
        BY <4>1, <4>2
      <4>4. p = Len(replies) + (i + 1)
        BY <4>1, <4>2
      <4>5. p = (Len(replies) + 1) + i
        BY <4>1, <4>2
      <4>6. p = Len(replies') + i
        BY <1>2, <4>5
      <4>7. QED
        BY <4>1, <4>3, <4>4, <4>6
    <3> HIDE DEF i
    <3>2. Pipe'[Len(replies') + i] =
              [call |-> queue'[i].call, owner |-> queue'[i].owner, load |-> queue'[i].row.id]
      BY <3>1 DEF PipeFacts, WaitingNext
    <3>3. Pipe[Len(replies) + (i + 1)] =
              [call |-> queue[i + 1].call, owner |-> queue[i + 1].owner,
               load |-> queue[i + 1].row.id]
      BY <3>1 DEF PipeFacts, WaitingNext
    <3>4. QED
      BY <1>1, <3>1, <3>2, <3>3
  <2>4. QED
    BY <2>1, <2>2, <2>3 DEF PipeFacts, PipeSizes
<1>5. Pipe' = Pipe
  BY <1>3, <1>4 DEF Pipe
<1>6. QED
  BY <1>2, <1>3, <1>5

-----------------------------------------------------------------------------
(* The shape of a step of the app: d replies are taken off the pipe, the   *)
(* table stays, at most one call is made, and each operation stays as it   *)
(* is but for its step, is the one that starts, or goes on with the        *)
(* deletion whose reply is taken.                                          *)
GoneOf(op) ==
    op.chosen \ (op.todo \cup (IF op.step = "done" THEN {} ELSE {op.load}))
OpKept(o) ==
    /\ ops'[o].kind = ops[o].kind /\ ops'[o].load = ops[o].load
    /\ ops'[o].chosen = ops[o].chosen /\ ops'[o].todo = ops[o].todo
    /\ ops'[o].post = ops[o].post
    /\ ops[o].kind \in {"none", "delete"} => ops'[o].step = ops[o].step
OpStarts(o) ==
    /\ o = started + 1 /\ started' = started + 1
    /\ ops'[o].kind # "none" /\ OpShaped(ops'[o])
    /\ \A l \in ops'[o].chosen : Has(mem, l) /\ l \notin GoneOf(ops'[o])
OpDeletes(o, d) ==
    /\ d = 1 /\ replies[1].call = "deleteLoad" /\ replies[1].owner = o
    /\ ops'[o].kind = ops[o].kind /\ ops'[o].chosen = ops[o].chosen
    /\ OpShaped(ops'[o])
    /\ \A l \in GoneOf(ops'[o]) \ {EmptyId} :
          l \in Gone(o) \/ (replies[1].ok /\ l = replies[1].load /\ ~Has(mem', l))
OpsMoved(d) ==
    /\ started' \in {started, started + 1}
    /\ started' # started => OpStarts(started')
    /\ \A o \in OpIds : OpKept(o) \/ OpStarts(o) \/ OpDeletes(o, d)

(* Only a load that was never posted, fetched or deleted is inserted, and  *)
(* only an operation without a deletion under way deletes.                 *)
NewCall(c, d) ==
    /\ CallLinked(c, started', ops')
    /\ c.call = "deleteLoad" => \/ c.owner > started
                                \/ /\ d = 1 /\ replies[1].call = "deleteLoad"
                                   /\ replies[1].owner = c.owner
    /\ c.call = "insertLoad" /\ c.load # EmptyId => NeverUsed(c.load)
Made(p, d) ==
    /\ p + d = Len(replies) + Len(queue) + 1
    /\ p > Len(replies')
    /\ NewCall(Pipe'[p], d)
PipeMoved(d) == \A p \in DOMAIN Pipe' : Moved(p, d) \/ Made(p, d)

TasksMoved ==
    \A o \in OpIds, l \in Loads :
        tasks'[o][l].step # "none" =>
            \/ tasks[o][l].step # "none"
            \/ o <= started' /\ ops'[o].kind # "delete"

(* The board gets loads from the reply that is taken only. *)
Taken(l, d) ==
    /\ d = 1
    /\ \/ Has(replies[1].rows, l)
       \/ replies[1].call = "insertLoad" /\ replies[1].load = l
MemMoved(d) ==
    \A l \in Loads \ {EmptyId} :
        /\ UniqueAt(mem', l)
        /\ Has(mem', l) => Has(mem, l) \/ Taken(l, d)

Awake == Booted \/ UNCHANGED <<mem, queue, replies, tasks, started>>

AppStep(d) ==
    /\ RepliesMoved(d) /\ OpsMoved(d) /\ PipeMoved(d) /\ TasksMoved /\ MemMoved(d)
    /\ UNCHANGED <<db, boot, restarts>>
    /\ Awake
Before == PipeFacts /\ PipeFacts' /\ GoodOps /\ GoodOps' /\ ListInv

(* The reply that is taken heads the pipe. *)
LEMMA FirstReply ==
    ASSUME PipeFacts, PipeFacts', RepliesMoved(1)
    PROVE  /\ 1 \in DOMAIN replies /\ 1 \in DOMAIN Pipe
           /\ Pipe[1] = [call |-> replies[1].call, owner |-> replies[1].owner,
                         load |-> replies[1].load]
<1>1. 1 \in DOMAIN replies /\ 1 \in DOMAIN Pipe
  BY DEF PipeFacts, PipeSizes, RepliesMoved
<1>2. QED
  BY <1>1 DEF PipeFacts, ExecutedFirst

(* A call that stays in the pipe keeps to its operation. *)
LEMMA CallKept ==
    ASSUME Before, NEW d \in {0, 1}, AppStep(d), NEW p \in DOMAIN Pipe', Moved(p, d)
    PROVE  CallLinked(Pipe'[p], started', ops')
<1> DEFINE c == Pipe[p + d]
           o == c.owner
<1>1. /\ p + d \in DOMAIN Pipe /\ Pipe'[p] = c
      /\ CallLinked(c, started, ops)
  BY DEF Before, ListInv, CallsLinked, Moved
<1>2. o \in OpIds /\ o <= started /\ started \in Nat /\ started' \in {started, started + 1}
  BY <1>1 DEF CallLinked, Before, GoodOps, AppStep, OpsMoved
<1>3. o <= started' /\ ~OpStarts(o)
  BY <1>2 DEF OpStarts, OpIds
<1>4. ~OpDeletes(o, d)
  <2> SUFFICES ASSUME OpDeletes(o, d) PROVE FALSE
    OBVIOUS
  <2>1. /\ d = 1 /\ 1 \in DOMAIN Pipe
        /\ Pipe[1].call = "deleteLoad" /\ Pipe[1].owner = o
    BY FirstReply DEF OpDeletes, AppStep, Before
  <2>2. CallLinked(Pipe[1], started, ops)
    BY <2>1 DEF Before, ListInv, CallsLinked
  <2>3. c.call = "deleteLoad"
    BY <1>1, <2>1, <2>2 DEF CallLinked
  <2>4. p + d = 1
    BY <1>1, <2>1, <2>3 DEF Before, ListInv, CallsApart
  <2>5. p >= 1 /\ p \in Nat
    BY DEF Before, PipeFacts, PipeSizes
  <2>6. QED
    BY <2>1, <2>4, <2>5
<1>5. OpKept(o)
  BY <1>2, <1>3, <1>4 DEF AppStep, OpsMoved
<1> HIDE DEF c
<1>6. CallLinked(c, started', ops')
  BY <1>1, <1>2, <1>3, <1>5 DEF CallLinked, OpKept
<1>7. QED
  BY <1>1, <1>6

LEMMA CallsKept ==
    ASSUME Before, NEW d \in {0, 1}, AppStep(d)
    PROVE  CallsLinked' /\ CallsApart'
<1>1. CallsLinked'
  <2> SUFFICES ASSUME NEW p \in DOMAIN Pipe' PROVE CallLinked(Pipe'[p], started', ops')
    BY DEF CallsLinked
  <2>1. CASE Moved(p, d)
    BY <2>1, CallKept
  <2>2. CASE Made(p, d)
    BY <2>2 DEF Made, NewCall
  <2>3. QED
    BY <2>1, <2>2 DEF AppStep, PipeMoved
<1> DEFINE Twin(a, b) ==
       /\ a.call = b.call
       /\ \/ a.call = "deleteLoad" /\ a.owner = b.owner
          \/ a.call = "insertLoad" /\ a.load = b.load /\ a.load # EmptyId
<1>2. ASSUME NEW p \in DOMAIN Pipe', NEW q \in DOMAIN Pipe',
             Moved(p, d), Made(q, d), Twin(Pipe'[p], Pipe'[q])
      PROVE  FALSE
  <2> DEFINE a == Pipe[p + d]
             b == Pipe'[q]
  <2>1. /\ p + d \in DOMAIN Pipe /\ Pipe'[p] = a
        /\ CallLinked(a, started, ops) /\ NewCall(b, d)
    BY <1>2 DEF Moved, Made, Before, ListInv, CallsLinked
  <2>2. Twin(a, b)
    BY <1>2, <2>1
  <2>3. /\ a.owner \in OpIds /\ a.owner <= started /\ started \in Nat
    BY <2>1 DEF CallLinked, Before, GoodOps
  <2> HIDE DEF a, b
  <2>4. CASE a.call = "deleteLoad"
    <3>1. b.call = "deleteLoad" /\ b.owner = a.owner
      BY <2>2, <2>4
    <3>2. ~(b.owner > started)
      BY <2>3, <3>1 DEF OpIds
    <3>3. d = 1 /\ replies[1].call = "deleteLoad" /\ replies[1].owner = b.owner
      BY <2>1, <3>1, <3>2 DEF NewCall
    <3>4. 1 \in DOMAIN Pipe /\ Pipe[1].call = "deleteLoad" /\ Pipe[1].owner = b.owner
      BY <3>3, FirstReply DEF AppStep, Before
    <3>5. p + d = 1
      BY <2>1, <2>4, <3>1, <3>4 DEF a, Before, ListInv, CallsApart
    <3>6. p >= 1 /\ p \in Nat
      BY DEF Before, PipeFacts, PipeSizes
    <3>7. QED
      BY <3>3, <3>5, <3>6
  <2>5. CASE a.call = "insertLoad"
    <3>1. b.call = "insertLoad" /\ b.load = a.load /\ a.load # EmptyId
      BY <2>2, <2>5
    <3>2. NeverUsed(a.load)
      BY <2>1, <3>1 DEF NewCall
    <3>3. ops[a.owner].kind = "post" /\ a.load = ops[a.owner].load
      BY <2>1, <2>5, <3>1 DEF CallLinked
    <3>4. QED
      BY <2>3, <3>2, <3>3 DEF NeverUsed
  <2>6. QED
    BY <2>2, <2>4, <2>5
<1>3. ASSUME NEW p \in DOMAIN Pipe', NEW q \in DOMAIN Pipe', Twin(Pipe'[p], Pipe'[q])
      PROVE  p = q
  <2>1. Twin(Pipe'[q], Pipe'[p])
    BY <1>3
  <2>2. p \in Nat /\ q \in Nat
    BY DEF Before, PipeFacts, PipeSizes
  <2>3. CASE Moved(p, d) /\ Moved(q, d)
    <3>1. p + d = q + d
      BY <1>3, <2>3 DEF Moved, Before, ListInv, CallsApart
    <3>2. QED
      BY <2>2, <3>1
  <2>4. CASE Made(p, d) /\ Made(q, d)
    <3>1. p + d = q + d
      BY <2>4 DEF Made
    <3>2. QED
      BY <2>2, <3>1
  <2>5. QED
    BY <1>2, <1>3, <2>1, <2>3, <2>4 DEF AppStep, PipeMoved
<1>4. QED
  BY <1>1, <1>3 DEF CallsApart

LEMMA TasksKept ==
    ASSUME Before, NEW d \in {0, 1}, AppStep(d)
    PROVE  TasksLinked'
<1> SUFFICES ASSUME NEW o \in OpIds, NEW l \in Loads, tasks'[o][l].step # "none"
             PROVE  o <= started' /\ ops'[o].kind # "delete"
  BY DEF TasksLinked
<1>1. CASE tasks[o][l].step # "none"
  <2>1. o <= started /\ ops[o].kind # "delete"
    BY <1>1 DEF Before, ListInv, TasksLinked
  <2>2. started \in Nat /\ started' \in {started, started + 1}
    BY DEF Before, GoodOps, AppStep, OpsMoved
  <2>3. o <= started' /\ ~OpStarts(o)
    BY <2>1, <2>2 DEF OpStarts, OpIds
  <2>4. OpKept(o) \/ OpDeletes(o, d)
    BY <2>3 DEF AppStep, OpsMoved
  <2>5. ops'[o].kind = ops[o].kind
    BY <2>4 DEF OpKept, OpDeletes
  <2>6. QED
    BY <2>1, <2>3, <2>5
<1>2. CASE tasks[o][l].step = "none"
  BY <1>2 DEF AppStep, TasksMoved
<1>3. QED
  BY <1>1, <1>2

LEMMA OpsKept ==
    ASSUME Before, NEW d \in {0, 1}, AppStep(d)
    PROVE  OpsShaped'
<1> SUFFICES ASSUME NEW o \in OpIds
             PROVE  OpShaped(ops'[o]) /\ (o > started' <=> ops'[o].kind = "none")
  BY DEF OpsShaped
<1>1. OpShaped(ops[o]) /\ (o > started <=> ops[o].kind = "none")
  BY DEF Before, ListInv, OpsShaped
<1>2. /\ started \in Nat /\ started' \in {started, started + 1} /\ o \in Nat
      /\ started' # started => OpStarts(started')
      /\ OpKept(o) \/ OpStarts(o) \/ OpDeletes(o, d)
  BY DEF Before, GoodOps, AppStep, OpsMoved, OpIds
<1>3. CASE OpStarts(o)
  BY <1>2, <1>3 DEF OpStarts
<1>4. CASE ~OpStarts(o)
  <2>1. OpKept(o) \/ OpDeletes(o, d)
    BY <1>2, <1>4
  <2>2. o > started' <=> o > started
    BY <1>2, <1>4
  <2>3. ops'[o].kind = ops[o].kind
    BY <2>1 DEF OpKept, OpDeletes
  <2>4. CASE OpKept(o)
    <3>1. OpShaped(ops'[o])
      BY <1>1, <2>4 DEF OpKept, OpShaped
    <3>2. QED
      BY <1>1, <2>2, <2>3, <3>1
  <2>5. CASE OpDeletes(o, d)
    <3>1. OpShaped(ops'[o])
      BY <2>5 DEF OpDeletes
    <3>2. QED
      BY <1>1, <2>2, <2>3, <3>1
  <2>6. QED
    BY <1>1, <2>1, <2>2, <2>3, <2>4, <2>5
<1>5. QED
  BY <1>3, <1>4

(* A deletion is given loads of the board and forgets none of them. *)
LEMMA ChosenKept ==
    ASSUME Before, NEW d \in {0, 1}, AppStep(d)
    PROVE  \A o \in OpIds : /\ ops[o].chosen \subseteq ops'[o].chosen
                            /\ \A l \in ops'[o].chosen : l \in ops[o].chosen \/ Has(mem, l)
<1> TAKE o \in OpIds
<1>1. OpShaped(ops[o]) /\ (o > started => ops[o].kind = "none")
  BY DEF Before, ListInv, OpsShaped
<1>2. started \in Nat /\ (OpKept(o) \/ OpStarts(o) \/ OpDeletes(o, d))
  BY DEF Before, GoodOps, AppStep, OpsMoved
<1>3. CASE OpKept(o)
  BY <1>3 DEF OpKept
<1>4. CASE OpStarts(o)
  <2>1. ops[o].chosen = {}
    BY <1>1, <1>2, <1>4 DEF OpStarts, OpShaped
  <2>2. QED
    BY <1>4, <2>1 DEF OpStarts
<1>5. CASE OpDeletes(o, d)
  BY <1>5 DEF OpDeletes
<1>6. QED
  BY <1>2, <1>3, <1>4, <1>5

(* No step but the one that takes the answer of deleteLoad ends a deletion. *)
LEMMA GoneKept ==
    ASSUME Before, NEW d \in {0, 1}, AppStep(d)
    PROVE  \A o \in OpIds : \A l \in GoneOf(ops'[o]) \ {EmptyId} :
              \/ l \in Gone(o)
              \/ /\ d = 1 /\ replies[1].call = "deleteLoad" /\ replies[1].ok
                 /\ l = replies[1].load /\ ~Has(mem', l)
<1> TAKE o \in OpIds
<1> TAKE l \in GoneOf(ops'[o]) \ {EmptyId}
<1>1. OpShaped(ops[o])
  BY DEF Before, ListInv, OpsShaped
<1>2. OpKept(o) \/ OpStarts(o) \/ OpDeletes(o, d)
  BY DEF AppStep, OpsMoved
<1>3. l \in ops'[o].chosen
  BY DEF GoneOf
<1>4. CASE OpKept(o)
  <2>1. l \in ops[o].chosen /\ ops[o].kind = "delete"
    BY <1>1, <1>3, <1>4 DEF OpKept, OpShaped
  <2>2. GoneOf(ops'[o]) = Gone(o)
    BY <1>4, <2>1 DEF OpKept, GoneOf, Gone
  <2>3. QED
    BY <2>2
<1>5. CASE OpStarts(o)
  BY <1>3, <1>5 DEF OpStarts
<1>6. CASE OpDeletes(o, d)
  BY <1>6 DEF OpDeletes
<1>7. QED
  BY <1>2, <1>4, <1>5, <1>6

LEMMA BootsKept ==
    ASSUME Before, NEW d \in {0, 1}, AppStep(d)
    PROVE  BootsAlone'
<1>1. (Booted' <=> Booted) /\ (restarts' = 0 <=> restarts = 0)
  BY DEF AppStep, Booted
<1>2. CASE Booted
  BY <1>1, <1>2 DEF BootsAlone
<1>3. CASE ~Booted
  <2>1. UNCHANGED <<mem, queue, replies, tasks, started>>
    BY <1>3 DEF AppStep, Awake
  <2>2. QED
    BY <1>1, <1>3, <2>1 DEF Before, ListInv, BootsAlone
<1>4. QED
  BY <1>2, <1>3

LEMMA UniqueKept ==
    ASSUME Before, NEW d \in {0, 1}, AppStep(d)
    PROVE  Unique'
<1> SUFFICES ASSUME NEW l \in Loads
             PROVE  /\ UniqueAt(db', l)
                    /\ \A k \in DOMAIN replies' : UniqueAt(replies'[k].rows, l)
                    /\ l # EmptyId => UniqueAt(mem', l)
  BY DEF Unique
<1>1. UniqueAt(db', l)
  BY DEF Before, ListInv, Unique, AppStep
<1>2. ASSUME NEW k \in DOMAIN replies' PROVE UniqueAt(replies'[k].rows, l)
  <2>1. k + d \in DOMAIN replies /\ replies'[k] = replies[k + d]
    BY DEF AppStep, RepliesMoved
  <2>2. UniqueAt(replies[k + d].rows, l)
    BY <2>1 DEF Before, ListInv, Unique
  <2>3. QED
    BY <2>1, <2>2
<1>3. l # EmptyId => UniqueAt(mem', l)
  BY DEF AppStep, MemMoved
<1>4. QED
  BY <1>1, <1>2, <1>3

(* A reply that is taken does not bring a load that is being posted. *)
LEMMA PostingNotTaken ==
    ASSUME Before, NEW d \in {0, 1}, AppStep(d), NEW p \in DOMAIN Pipe', Moved(p, d),
           Pipe'[p].call = "insertLoad", Pipe'[p].load # EmptyId
    PROVE  ~Taken(Pipe'[p].load, d)
<1> SUFFICES ASSUME Taken(Pipe'[p].load, d) PROVE FALSE
  OBVIOUS
<1>1. d = 1 /\ p + 1 \in DOMAIN Pipe /\ Pipe'[p] = Pipe[p + 1] /\ p \in Nat /\ 1 < p + 1
  BY DEF Taken, Moved, Before, PipeFacts, PipeSizes
<1>2. /\ 1 \in DOMAIN replies /\ 1 \in DOMAIN Pipe
      /\ Pipe[1].call = replies[1].call /\ Pipe[1].load = replies[1].load
  BY <1>1, FirstReply DEF AppStep, Before
<1>3. ~Has(replies[1].rows, Pipe'[p].load)
  BY <1>1, <1>2 DEF Before, ListInv, Posting
<1>4. Pipe[1].call = Pipe[p + 1].call /\ Pipe[1].load = Pipe[p + 1].load
  BY <1>1, <1>2, <1>3 DEF Taken
<1>5. p + 1 = 1
  BY <1>1, <1>2, <1>4 DEF Before, ListInv, CallsApart
<1>6. QED
  BY <1>1, <1>5

LEMMA PostingKept ==
    ASSUME Before, NEW d \in {0, 1}, AppStep(d)
    PROVE  Posting'
<1> SUFFICES ASSUME NEW p \in DOMAIN Pipe', Pipe'[p].call = "insertLoad",
                    Pipe'[p].load # EmptyId
             PROVE  /\ ~Has(mem', Pipe'[p].load)
                    /\ p > Len(replies') => ~Has(db', Pipe'[p].load)
                    /\ \A k \in DOMAIN replies' :
                          k < p => ~Has(replies'[k].rows, Pipe'[p].load)
                    /\ \A o \in OpIds : Pipe'[p].load \notin ops'[o].chosen
  BY DEF Posting
<1> DEFINE l == Pipe'[p].load
<1>1. /\ p \in Nat /\ Len(replies) \in Nat /\ Len(replies') \in Nat
      /\ Len(replies') = Len(replies) - d
      /\ DOMAIN replies' = 1..Len(replies')
  BY DEF Before, PipeFacts, PipeSizes, AppStep, RepliesMoved
<1>2. \A k \in DOMAIN replies' : k + d \in DOMAIN replies /\ replies'[k] = replies[k + d]
  BY DEF AppStep, RepliesMoved
<1>3. l \in Loads \ {EmptyId}
  <2>1. \/ p \in DOMAIN replies' /\ l = replies'[p].load
        \/ \E i \in DOMAIN queue' : l = queue'[i].row.id
    <3>1. CASE p \in DOMAIN replies'
      <4>1. Pipe'[p] = [call |-> replies'[p].call, owner |-> replies'[p].owner,
                        load |-> replies'[p].load]
        BY <3>1 DEF Before, PipeFacts, ExecutedFirst
      <4>2. QED
        BY <3>1, <4>1
    <3>2. CASE p \notin DOMAIN replies'
      <4>1. p - Len(replies') \in DOMAIN queue'
        BY <3>2, <1>1 DEF Before, PipeFacts, PipeSizes
      <4>2. p = Len(replies') + (p - Len(replies'))
        BY <1>1
      <4> DEFINE i == p - Len(replies')
      <4> HIDE DEF i
      <4>3. Pipe'[Len(replies') + i] = [call |-> queue'[i].call, owner |-> queue'[i].owner,
                                       load |-> queue'[i].row.id]
        BY <4>1 DEF Before, PipeFacts, WaitingNext, i
      <4>4. QED
        BY <4>1, <4>2, <4>3 DEF i
    <3>3. QED
      BY <3>1, <3>2
  <2>2. QED
    BY <2>1 DEF Before, PipeFacts, PipeTypes
<1>4. /\ Has(mem', l) => Has(mem, l) \/ Taken(l, d)
      /\ db' = db
      /\ \A o \in OpIds : l \in ops'[o].chosen => l \in ops[o].chosen \/ Has(mem, l)
  BY <1>3, ChosenKept DEF AppStep, MemMoved
<1>5. CASE Moved(p, d)
  <2>1. p + d \in DOMAIN Pipe /\ Pipe[p + d] = Pipe'[p] /\ ~Taken(l, d)
    BY <1>5, PostingNotTaken DEF Moved
  <2>2. /\ ~Has(mem, l)
        /\ p + d > Len(replies) => ~Has(db, l)
        /\ \A k \in DOMAIN replies : k < p + d => ~Has(replies[k].rows, l)
        /\ \A o \in OpIds : l \notin ops[o].chosen
    BY <2>1 DEF Before, ListInv, Posting
  <2> HIDE DEF l
  <2>3. ASSUME NEW k \in DOMAIN replies', k < p PROVE ~Has(replies'[k].rows, l)
    <3>1. k + d < p + d
      BY <1>1, <2>3
    <3>2. QED
      BY <1>2, <2>2, <3>1
  <2>4. p > Len(replies') => ~Has(db', l)
    BY <1>1, <1>4, <2>2
  <2>5. QED
    BY <1>4, <2>1, <2>2, <2>3, <2>4 DEF l
<1>6. CASE Made(p, d)
  <2>1. NeverUsed(l)
    BY <1>6 DEF Made, NewCall
  <2>2. ~Has(mem, l) /\ ~Has(db, l) /\ \A o \in OpIds : l \notin ops[o].chosen
    BY <2>1 DEF NeverUsed
  <2> HIDE DEF l
  <2>3. \A k \in DOMAIN replies : ~Has(replies[k].rows, l)
    BY <1>3, <2>2 DEF Before, ListInv, ReadOnce
  <2>4. ~Taken(l, d)
    <3> SUFFICES ASSUME Taken(l, d) PROVE FALSE
      OBVIOUS
    <3>1. d = 1 /\ 1 \in DOMAIN replies /\ 1 \in DOMAIN Pipe
          /\ Pipe[1].call = replies[1].call /\ Pipe[1].load = replies[1].load
          /\ Pipe[1].owner \in OpIds
      BY FirstReply DEF Taken, AppStep, Before, PipeFacts, PipeTypes
    <3>2. Pipe[1].call = "insertLoad" /\ Pipe[1].load = l
      BY <2>3, <3>1 DEF Taken
    <3>3. CallLinked(Pipe[1], started, ops)
      BY <3>1 DEF Before, ListInv, CallsLinked
    <3>4. ops[Pipe[1].owner].kind = "post" /\ ops[Pipe[1].owner].load = l
      BY <1>3, <3>2, <3>3 DEF CallLinked
    <3>5. QED
      BY <2>1, <3>1, <3>4 DEF NeverUsed
  <2>5. QED
    BY <1>2, <1>4, <2>2, <2>3, <2>4 DEF l
<1>7. QED
  BY <1>5, <1>6 DEF AppStep, PipeMoved

LEMMA RowsKept ==
    ASSUME Before, NEW d \in {0, 1}, AppStep(d)
    PROVE  ReadOnce' /\ Deleting'
<1>1. \A k \in DOMAIN replies' : k + d \in DOMAIN replies /\ replies'[k] = replies[k + d]
  BY DEF AppStep, RepliesMoved
<1>2. db' = db
  BY DEF AppStep
<1>3. ReadOnce'
  <2> SUFFICES ASSUME NEW k \in DOMAIN replies', NEW l \in Loads \ {EmptyId},
                      Has(replies'[k].rows, l)
               PROVE  Has(db', l) \/ \E o \in OpIds : l \in ops'[o].chosen
    BY DEF ReadOnce
  <2>1. Has(db, l) \/ \E o \in OpIds : l \in ops[o].chosen
    BY <1>1 DEF Before, ListInv, ReadOnce
  <2>2. QED
    BY <1>2, <2>1, ChosenKept
<1>4. Deleting'
  <2> SUFFICES ASSUME NEW p \in DOMAIN replies', replies'[p].call = "deleteLoad",
                      replies'[p].ok, replies'[p].load # EmptyId
               PROVE  /\ ~Has(db', replies'[p].load)
                      /\ \A k \in DOMAIN replies' :
                            k > p => ~Has(replies'[k].rows, replies'[p].load)
    BY DEF Deleting
  <2>1. /\ ~Has(db, replies[p + d].load)
        /\ \A k \in DOMAIN replies : k > p + d => ~Has(replies[k].rows, replies[p + d].load)
    BY <1>1 DEF Before, ListInv, Deleting
  <2>2. \A k \in DOMAIN replies' : k \in Nat /\ p \in Nat
    BY DEF Before, PipeFacts, PipeSizes
  <2>3. ASSUME NEW k \in DOMAIN replies', k > p
        PROVE  ~Has(replies'[k].rows, replies'[p].load)
    <3>1. k + d > p + d
      BY <2>2, <2>3
    <3>2. QED
      BY <1>1, <2>1, <3>1
  <2>4. QED
    BY <1>1, <1>2, <2>1, <2>3
<1>5. QED
  BY <1>3, <1>4

LEMMA DeletedKept ==
    ASSUME Before, NEW d \in {0, 1}, AppStep(d)
    PROVE  Deleted'
<1> SUFFICES ASSUME NEW o \in OpIds, NEW l \in Gone(o)', l # EmptyId, l \in Loads,
                    restarts = 0 \/ \A i \in DOMAIN Seeds : Seeds[i] # l
             PROVE  /\ ~Has(mem', l) /\ ~Has(db', l)
                    /\ \A k \in DOMAIN replies' : ~Has(replies'[k].rows, l)
  <2>1. ops' \in [OpIds -> Op]
    BY DEF Before, GoodOps
  <2>2. QED
    BY <2>1 DEF Deleted, AppStep, Gone, Op
<1>1. \A k \in DOMAIN replies' : k + d \in DOMAIN replies /\ replies'[k] = replies[k + d]
  BY DEF AppStep, RepliesMoved
<1>2. db' = db /\ (Has(mem', l) => Has(mem, l) \/ Taken(l, d))
  BY DEF AppStep, MemMoved
<1>3. CASE l \in Gone(o)
  <2>1. /\ ~Has(mem, l) /\ ~Has(db, l)
        /\ \A k \in DOMAIN replies : ~Has(replies[k].rows, l)
    BY <1>3 DEF Before, ListInv, Deleted
  <2>2. ~Taken(l, d)
    <3> SUFFICES ASSUME Taken(l, d) PROVE FALSE
      OBVIOUS
    <3>1. d = 1 /\ 1 \in DOMAIN replies /\ 1 \in DOMAIN Pipe
          /\ Pipe[1].call = replies[1].call /\ Pipe[1].load = replies[1].load
      BY FirstReply DEF Taken, AppStep, Before
    <3>2. Pipe[1].call = "insertLoad" /\ Pipe[1].load = l
      BY <2>1, <3>1 DEF Taken
    <3>3. l \notin ops[o].chosen
      BY <3>1, <3>2 DEF Before, ListInv, Posting
    <3>4. QED
      BY <1>3, <3>3 DEF Gone
  <2>3. QED
    BY <1>1, <1>2, <2>1, <2>2
<1>4. CASE /\ d = 1 /\ replies[1].call = "deleteLoad" /\ replies[1].ok
           /\ l = replies[1].load /\ ~Has(mem', l)
  <2>1. 1 \in DOMAIN replies
    BY <1>4, FirstReply DEF AppStep, Before
  <2>2. ~Has(db, l) /\ \A k \in DOMAIN replies : k > 1 => ~Has(replies[k].rows, l)
    BY <1>4, <2>1 DEF Before, ListInv, Deleting
  <2>3. \A k \in DOMAIN replies' : k + d > 1
    BY <1>4 DEF Before, PipeFacts, PipeSizes
  <2>4. QED
    BY <1>1, <1>2, <1>4, <2>2, <2>3
<1>5. GoneOf(ops'[o]) = Gone(o)'
  BY DEF Gone, GoneOf
<1>6. QED
  BY <1>3, <1>4, <1>5, GoneKept

LEMMA AppStepKeeps ==
    ASSUME Before, NEW d \in {0, 1}, AppStep(d)
    PROVE  ListInv'
<1>1. CallsLinked' /\ CallsApart'
  BY CallsKept
<1>2. TasksLinked' /\ OpsShaped' /\ BootsAlone' /\ Unique'
  BY TasksKept, OpsKept, BootsKept, UniqueKept
<1>3. Posting' /\ ReadOnce' /\ Deleting' /\ Deleted'
  BY PostingKept, RowsKept, DeletedKept
<1>4. QED
  BY <1>1, <1>2, <1>3 DEF ListInv

-----------------------------------------------------------------------------
(* The parts of a step. *)

LEMMA Ready ==
    ASSUME IInv, IInv', ListInv
    PROVE  Before
BY PipeShape, PipeShapeNext DEF IInv, Before

LEMMA RepliesStay ==
    ASSUME Before, GoodReplies, UNCHANGED replies
    PROVE  RepliesMoved(0)
BY RepliesTaken

(* The continuation of a call runs. *)
LEMMA TakesReply ==
    ASSUME Before, GoodReplies, NEW call, Resumed(call)
    PROVE  /\ RepliesMoved(1) /\ Booted
           /\ 1 \in DOMAIN replies /\ Head(replies) = replies[1] /\ replies[1].call = call
           /\ replies[1].owner \in OpIds /\ replies[1].owner <= started
           /\ CallLinked([call |-> call, owner |-> replies[1].owner,
                          load |-> replies[1].load], started, ops)
<1>1. replies # <<>> /\ replies' = Tail(replies) /\ Head(replies).call = call
  BY DEF Resumed
<1>2. RepliesMoved(1)
  BY <1>1, RepliesTaken
<1>3. Head(replies) = replies[1]
  BY <1>1, HeadTailProperties, LenProperties, EmptySeq DEF GoodReplies
<1>4. /\ 1 \in DOMAIN replies /\ 1 \in DOMAIN Pipe
      /\ Pipe[1] = [call |-> call, owner |-> replies[1].owner, load |-> replies[1].load]
  BY <1>1, <1>2, <1>3, FirstReply DEF Before
<1>5. CallLinked(Pipe[1], started, ops)
  BY <1>4 DEF Before, ListInv, CallsLinked
<1>6. replies[1].owner \in OpIds /\ replies[1].owner <= started
  BY <1>4, <1>5 DEF CallLinked
<1>7. Booted
  BY <1>1 DEF Before, ListInv, BootsAlone
<1>8. QED
  BY <1>1, <1>2, <1>3, <1>4, <1>5, <1>6, <1>7

LEMMA OpsStay ==
    ASSUME Before, NEW d, UNCHANGED <<ops, started>>
    PROVE  OpsMoved(d)
BY DEF OpsMoved, OpKept

LEMMA OpGoesOn ==
    ASSUME Before, NEW d, NEW o \in OpIds, ops[o].kind \notin {"none", "delete"},
           UNCHANGED started, NEW s, ops' = [ops EXCEPT ![o].step = s]
    PROVE  OpsMoved(d) /\ ops'[o].kind = ops[o].kind
<1>1. \A p \in OpIds : OpKept(p)
  BY DEF Before, GoodOps, Op, OpKept
<1>2. QED
  BY <1>1 DEF OpsMoved, OpKept

LEMMA HandlerShape ==
    ASSUME NEW kind, NEW step, NEW l, NEW who
    PROVE  /\ Handler(kind, step, l, who).kind = kind
           /\ Handler(kind, step, l, who).step = step
           /\ Handler(kind, step, l, who).load = l
           /\ Handler(kind, step, l, who).chosen = {}
BY DEF Handler, NoOp

LEMMA OpIsNew ==
    ASSUME Before, NEW kind, CanStart(kind), NEW op, StartOp(op)
    PROVE  /\ started + 1 \in OpIds /\ started \in Nat /\ started' = started + 1
           /\ ops'[started + 1] = op
           /\ \A o \in OpIds : o # started + 1 => ops'[o] = ops[o]
<1>1. started \in Nat /\ started + 1 \in OpIds
  BY BoundsAssumption DEF Before, GoodOps, CanStart, OpIds
<1>2. QED
  BY <1>1 DEF Before, GoodOps, StartOp

LEMMA OpBegins ==
    ASSUME Before, NEW d, NEW kind, CanStart(kind), NEW op, StartOp(op),
           op.kind \notin {"none", "delete"}, op.chosen = {}
    PROVE  /\ OpsMoved(d) /\ started + 1 \in OpIds /\ started' = started + 1
           /\ started + 1 <= started' /\ ops'[started + 1] = op
<1>1. /\ started + 1 \in OpIds /\ started \in Nat /\ started' = started + 1
      /\ ops'[started + 1] = op
      /\ \A o \in OpIds : o # started + 1 => ops'[o] = ops[o]
  BY OpIsNew
<1>2. OpStarts(started + 1)
  BY <1>1 DEF OpStarts, OpShaped
<1>3. \A o \in OpIds : OpKept(o) \/ OpStarts(o)
  BY <1>1, <1>2 DEF OpKept
<1>4. OpStarts(started')
  BY <1>1, <1>2
<1>5. QED
  BY <1>1, <1>3, <1>4 DEF OpsMoved

LEMMA NothingCalled ==
    ASSUME Before, NEW d \in {0, 1}, RepliesMoved(d), UNCHANGED queue
    PROVE  PipeMoved(d)
BY PipeKept DEF Before, PipeMoved

LEMMA OneCall ==
    ASSUME Before, GoodQueue, NEW d \in {0, 1}, RepliesMoved(d),
           NEW o, NEW call, NEW row, Call(o, call, row),
           NewCall([call |-> call, owner |-> o, load |-> row.id], d)
    PROVE  PipeMoved(d)
BY PipeCalled DEF Before, PipeMoved, Made

LEMMA PlainCall ==
    ASSUME Before, GoodQueue, NEW d \in {0, 1}, RepliesMoved(d),
           NEW o \in OpIds, o <= started', ops'[o].kind # "delete",
           NEW call, call \notin {"insertLoad", "deleteLoad"}, NEW row, Call(o, call, row)
    PROVE  PipeMoved(d)
<1> DEFINE c == [call |-> call, owner |-> o, load |-> row.id]
<1>1. c.call = call /\ c.owner = o
  OBVIOUS
<1> HIDE DEF c
<1>2. NewCall(c, d)
  BY <1>1 DEF NewCall, CallLinked
<1>3. QED
  BY <1>2, OneCall DEF c

LEMMA TasksStay ==
    ASSUME UNCHANGED tasks
    PROVE  TasksMoved
BY DEF TasksMoved

LEMMA BoardStays ==
    ASSUME Before, NEW d, DOMAIN mem' = DOMAIN mem,
           \A i \in DOMAIN mem : mem'[i].id = mem[i].id
    PROVE  MemMoved(d)
<1>1. \A k : (Has(mem', k) <=> Has(mem, k)) /\ (UniqueAt(mem', k) <=> UniqueAt(mem, k))
  BY SameIds
<1>2. \A l \in Loads \ {EmptyId} : UniqueAt(mem, l)
  BY DEF Before, ListInv, Unique
<1>3. ASSUME NEW l \in Loads \ {EmptyId}
      PROVE  UniqueAt(mem', l) /\ (Has(mem', l) => Has(mem, l) \/ Taken(l, d))
  BY <1>1, <1>2
<1>4. QED
  BY <1>3 DEF MemMoved

(* A step that changes no id on the board, in the table or among the tasks. *)
LEMMA PlainStep ==
    ASSUME Before, NEW d \in {0, 1}, RepliesMoved(d), OpsMoved(d), PipeMoved(d),
           DOMAIN mem' = DOMAIN mem, \A i \in DOMAIN mem : mem'[i].id = mem[i].id,
           UNCHANGED <<tasks, db, boot, restarts>>, Awake
    PROVE  ListInv'
BY TasksStay, BoardStays, AppStepKeeps DEF AppStep

LEMMA NothingMoves ==
    ASSUME Before, GoodReplies,
           UNCHANGED <<mem, tasks, ops, started, boot, db, queue, replies, restarts>>
    PROVE  ListInv'
<1>1. RepliesMoved(0)
  BY RepliesStay
<1>2. OpsMoved(0) /\ PipeMoved(0)
  BY <1>1, OpsStay, NothingCalled
<1>3. Awake
  BY DEF Awake
<1>4. QED
  BY <1>1, <1>2, <1>3, PlainStep

-----------------------------------------------------------------------------
(* One lemma per handler. *)

Held == IInv /\ IInv' /\ ListInv /\ Before /\ GoodQueue /\ GoodReplies

LEMMA HeldReady == IInv /\ IInv' /\ ListInv => Held
BY Ready DEF Held, IInv

(* A handler starts with a call that neither inserts nor deletes. *)
LEMMA HandlerCalls ==
    ASSUME Held, NEW kind, CanStart(kind), NEW op, StartOp(op),
           op.kind \notin {"none", "delete"}, op.chosen = {},
           NEW call, call \notin {"insertLoad", "deleteLoad"}, NEW row,
           Call(started + 1, call, row),
           DOMAIN mem' = DOMAIN mem, \A i \in DOMAIN mem : mem'[i].id = mem[i].id,
           UNCHANGED <<tasks, db, boot, restarts, replies>>, Booted
    PROVE  ListInv'
<1>1. RepliesMoved(0)
  BY RepliesStay DEF Held
<1>2. OpsMoved(0) /\ started + 1 \in OpIds /\ started + 1 <= started' /\ ops'[started + 1] = op
  BY OpBegins DEF Held
<1>3. PipeMoved(0)
  BY <1>1, <1>2, PlainCall DEF Held
<1>4. QED
  BY <1>1, <1>2, <1>3, PlainStep DEF Held, Awake

LEMMA LoginListed ==
    ASSUME Held, NEW u, Login(u)
    PROVE  ListInv'
<1> DEFINE op == Handler("login", "getUser", NoOp.load, u)
<1>1. op.kind = "login" /\ op.chosen = {}
  BY HandlerShape
<1> HIDE DEF op
<1>2. /\ CanStart("login") /\ StartOp(op) /\ Call(started + 1, "getUser", AnyRow)
      /\ UNCHANGED <<mem, tasks, db, boot, restarts, replies>> /\ Booted
  BY DEF Login, op, memory, outside
<1>3. QED
  BY <1>1, <1>2, HandlerCalls

LEMMA RefreshListed ==
    ASSUME Held, Refresh
    PROVE  ListInv'
<1> DEFINE op == Handler("refresh", "read", NoOp.load, user)
<1>1. op.kind = "refresh" /\ op.chosen = {}
  BY HandlerShape
<1> HIDE DEF op
<1>2. /\ CanStart("refresh") /\ StartOp(op) /\ Call(started + 1, "getLoads", AnyRow)
      /\ UNCHANGED <<mem, tasks, db, boot, restarts, replies>> /\ Booted
  BY DEF Refresh, op, memory, outside, FetchLoads, AtBoard
<1>3. QED
  BY <1>1, <1>2, HandlerCalls

LEMMA AddBidListed ==
    ASSUME Held, NEW kind \in {"bid", "bidByName"}, NEW l, NEW b, AddBid(kind, l, b)
    PROVE  ListInv'
<1> DEFINE op == Handler(kind, "writeBids", l, b)
<1>1. op.kind = kind /\ op.chosen = {}
  BY HandlerShape
<1> HIDE DEF op
<1>2. /\ CanStart(kind) /\ StartOp(op)
      /\ UNCHANGED <<mem, tasks, db, boot, restarts, replies>> /\ Booted
  BY DEF AddBid, op, outside, AtBoard
<1>3. \E row : Call(started + 1, "updateLoadBids", row)
  BY DEF AddBid
<1>4. QED
  BY <1>1, <1>2, <1>3, HandlerCalls

LEMMA RespondListed ==
    ASSUME Held, NEW l, NEW b, NEW verdict, Respond(l, b, verdict)
    PROVE  ListInv'
<1> DEFINE i == IndexOf(mem, l)
           op == [Handler("respond", "writeBids", l, b) EXCEPT
                     !.index = i, !.verdict = verdict]
<1>1. op.kind = "respond" /\ op.chosen = {}
  BY DEF Handler, NoOp
<1> HIDE DEF op
<1>2. /\ CanStart("respond") /\ StartOp(op)
      /\ mem' = [mem EXCEPT ![i] = Judged(mem[i], b, verdict)]
      /\ UNCHANGED <<tasks, db, boot, restarts, replies>> /\ Booted
  BY DEF Respond, op, outside, AtBoard
<1>3. \E row : Call(started + 1, "updateLoadBids", row)
  BY DEF Respond
<1>4. DOMAIN mem' = DOMAIN mem /\ \A j \in DOMAIN mem : mem'[j].id = mem[j].id
  <2>1. \A j \in DOMAIN mem : mem[j] \in Post
    BY LenProperties, ElementOfSeq DEF Held, IInv, GoodMem, GoodPost
  <2>2. i \in DOMAIN mem => Judged(mem[i], b, verdict).id = mem[i].id
    BY <2>1 DEF Judged, Post
  <2>3. QED
    BY <1>2, <2>2
<1>5. QED
  BY <1>1, <1>2, <1>3, <1>4, HandlerCalls

LEMMA OpenDialogListed ==
    ASSUME Held, NEW l, NEW kind \in {"confirm", "decline"}, OpenDialog(l, kind)
    PROVE  ListInv'
<1> DEFINE op == Handler(kind, "dialog", l, user)
<1>1. op.kind = kind /\ op.chosen = {}
  BY HandlerShape
<1> HIDE DEF op
<1>2. /\ CanStart(kind) /\ StartOp(op)
      /\ UNCHANGED <<mem, tasks, db, boot, restarts, replies, queue>> /\ Booted
  BY DEF OpenDialog, op, memory, outside, AtBoard
<1>3. RepliesMoved(0)
  BY <1>2, RepliesStay DEF Held
<1>4. OpsMoved(0) /\ PipeMoved(0)
  BY <1>1, <1>2, <1>3, OpBegins, NothingCalled DEF Held
<1>5. QED
  BY <1>2, <1>3, <1>4, PlainStep DEF Held, Awake

LEMMA StartedKind ==
    ASSUME Before, NEW o \in OpIds
    PROVE  o <= started <=> ops[o].kind # "none"
<1>1. started \in Nat /\ o \in Nat /\ (o > started <=> ops[o].kind = "none")
  BY DEF Before, GoodOps, ListInv, OpsShaped, OpIds
<1>2. QED
  BY <1>1

(* A continuation goes on with a call that neither inserts nor deletes, or *)
(* makes none.                                                             *)
LEMMA GoesOn ==
    ASSUME Held, NEW d \in {0, 1}, RepliesMoved(d),
           NEW o \in OpIds, o <= started, ops[o].kind # "delete", UNCHANGED started,
           NEW s, ops' = [ops EXCEPT ![o].step = s],
           \/ UNCHANGED queue
           \/ \E call, row : call \notin {"insertLoad", "deleteLoad"} /\ Call(o, call, row)
    PROVE  OpsMoved(d) /\ PipeMoved(d)
<1>1. OpsMoved(d) /\ ops'[o].kind = ops[o].kind
  <2>1. ops[o].kind # "none"
    BY StartedKind DEF Held
  <2>2. QED
    BY <2>1, OpGoesOn DEF Held
<1>2. CASE UNCHANGED queue
  BY <1>1, <1>2, NothingCalled DEF Held
<1>3. ASSUME NEW call, NEW row, call \notin {"insertLoad", "deleteLoad"}, Call(o, call, row)
      PROVE  PipeMoved(d)
  <2>1. o <= started' /\ ops'[o].kind # "delete"
    BY <1>1
  <2>2. QED
    BY <1>3, <2>1, PlainCall DEF Held
<1>4. QED
  BY <1>1, <1>2, <1>3

LEMMA Continues ==
    ASSUME Held, NEW call, call # "deleteLoad", Resumed(call), NEW o, o = Head(replies).owner,
           UNCHANGED started, NEW s, ops' = [ops EXCEPT ![o].step = s],
           \/ UNCHANGED queue
           \/ \E c, row : c \notin {"insertLoad", "deleteLoad"} /\ Call(o, c, row)
    PROVE  /\ RepliesMoved(1) /\ OpsMoved(1) /\ PipeMoved(1) /\ Awake
           /\ o \in OpIds /\ o <= started /\ ops[o].kind # "delete"
<1>1. /\ RepliesMoved(1) /\ Booted /\ o \in OpIds /\ o <= started
      /\ CallLinked([call |-> call, owner |-> o, load |-> replies[1].load], started, ops)
  BY TakesReply DEF Held
<1>2. ops[o].kind # "delete"
  BY <1>1 DEF CallLinked
<1>3. QED
  BY <1>1, <1>2, GoesOn DEF Awake

LEMMA LoginAnsweredListed ==
    ASSUME Held, LoginAnswered
    PROVE  ListInv'
<1> DEFINE o == Head(replies).owner
<1>1. /\ Resumed("getUser")
      /\ UNCHANGED <<mem, tasks, db, boot, restarts, started>>
  BY DEF LoginAnswered, memory, outside
<1>2. \/ /\ ops' = [ops EXCEPT ![o].step = "read"]
         /\ Call(o, "getLoads", AnyRow)
      \/ /\ ops' = [ops EXCEPT ![o].step = "aborted"]
         /\ UNCHANGED queue
  BY DEF LoginAnswered, FetchLoads
<1> HIDE DEF o
<1>3. RepliesMoved(1) /\ OpsMoved(1) /\ PipeMoved(1) /\ Awake
  <2>1. o = Head(replies).owner
    BY DEF o
  <2>2. CASE ops' = [ops EXCEPT ![o].step = "read"] /\ Call(o, "getLoads", AnyRow)
    BY <1>1, <2>1, <2>2, Continues
  <2>3. CASE ops' = [ops EXCEPT ![o].step = "aborted"] /\ UNCHANGED queue
    BY <1>1, <2>1, <2>3, Continues
  <2>4. QED
    BY <1>2, <2>2, <2>3
<1>4. QED
  BY <1>1, <1>3, PlainStep DEF Held

LEMMA BidsWrittenListed ==
    ASSUME Held, BidsWritten
    PROVE  ListInv'
<1> DEFINE o == Head(replies).owner
<1>1. /\ Resumed("updateLoadBids")
      /\ UNCHANGED <<mem, tasks, db, boot, restarts, started>>
  BY DEF BidsWritten, memory, outside
<1>2. /\ \E s : ops' = [ops EXCEPT ![o].step = s]
      /\ \/ UNCHANGED queue
         \/ \E call, row : call \notin {"insertLoad", "deleteLoad"} /\ Call(o, call, row)
  BY DEF BidsWritten, FetchLoads
<1> HIDE DEF o
<1>3. RepliesMoved(1) /\ OpsMoved(1) /\ PipeMoved(1) /\ Awake
  BY <1>1, <1>2, Continues DEF o
<1>4. QED
  BY <1>1, <1>3, PlainStep DEF Held

LEMMA LoadWrittenListed ==
    ASSUME Held, LoadWritten
    PROVE  ListInv'
<1> DEFINE o == Head(replies).owner
<1>1. /\ Resumed("updateLoad")
      /\ UNCHANGED <<mem, tasks, db, boot, restarts, started>>
  BY DEF LoadWritten, memory, outside
<1>2. /\ \E s : ops' = [ops EXCEPT ![o].step = s]
      /\ \/ UNCHANGED queue
         \/ \E call, row : call \notin {"insertLoad", "deleteLoad"} /\ Call(o, call, row)
  BY DEF LoadWritten, FetchLoads
<1> HIDE DEF o
<1>3. RepliesMoved(1) /\ OpsMoved(1) /\ PipeMoved(1) /\ Awake
  BY <1>1, <1>2, Continues DEF o
<1>4. QED
  BY <1>1, <1>3, PlainStep DEF Held

LEMMA CancelDialogListed ==
    ASSUME Held, NEW o \in OpIds, CancelDialog(o)
    PROVE  ListInv'
<1>1. /\ ops[o].step = "dialog" /\ ops' = [ops EXCEPT ![o].step = "aborted"]
      /\ UNCHANGED <<mem, tasks, started, db, queue, replies, boot, restarts>>
  BY DEF CancelDialog, memory, outside
<1>2. ops[o].kind \notin {"none", "delete"}
  BY <1>1 DEF Held, ListInv, OpsShaped, OpShaped
<1>3. RepliesMoved(0)
  BY <1>1, RepliesStay DEF Held
<1>4. OpsMoved(0) /\ PipeMoved(0)
  BY <1>1, <1>2, <1>3, OpGoesOn, NothingCalled DEF Held
<1>5. QED
  BY <1>1, <1>3, <1>4, PlainStep DEF Held, Awake

LEMMA SubmitListed ==
    ASSUME Held, NEW o \in OpIds, Submit(o)
    PROVE  ListInv'
<1> DEFINE l == ops[o].load
           i == IndexOf(mem, l)
           post == Answered(mem[i], ops[o].kind)
<1>1. /\ ops[o].step = "dialog"
      /\ UNCHANGED <<tasks, started, db, replies, boot, restarts>>
      /\ \/ i = 0 /\ ops' = [ops EXCEPT ![o].step = "aborted"] /\ UNCHANGED <<mem, queue>>
         \/ /\ i # 0 /\ mem' = [mem EXCEPT ![i] = post]
            /\ ops' = [ops EXCEPT ![o].step = "writeLoad"]
            /\ Call(o, "updateLoad", ToRow(post))
  BY DEF Submit, outside
<1>2. i \in 0..Len(mem) /\ (Has(mem, l) <=> i # 0)
  BY IndexOfSpec DEF Held, IInv, GoodMem
<1>3. DOMAIN mem' = DOMAIN mem /\ \A j \in DOMAIN mem : mem'[j].id = mem[j].id
  <2>1. \A j \in DOMAIN mem : mem[j] \in Post
    BY LenProperties, ElementOfSeq DEF Held, IInv, GoodMem, GoodPost
  <2>2. i \in DOMAIN mem => post.id = mem[i].id
    BY <2>1 DEF Answered, Post
  <2> HIDE DEF post, i
  <2>3. QED
    BY <1>1, <2>2
<1>4. Awake
  <2>1. Booted \/ mem = <<>>
    BY DEF Held, ListInv, BootsAlone
  <2>2. CASE mem = <<>>
    <3>1. i = 0
      BY <1>2, <2>2, EmptyIds
    <3>2. QED
      BY <1>1, <3>1 DEF Awake
  <2>3. QED
    BY <2>1, <2>2 DEF Awake
<1> HIDE DEF i, l, post
<1>5. ops[o].kind \notin {"none", "delete"}
  BY <1>1 DEF Held, ListInv, OpsShaped, OpShaped
<1>6. o <= started
  BY <1>5, StartedKind DEF Held
<1>7. RepliesMoved(0)
  BY <1>1, RepliesStay DEF Held
<1>8. OpsMoved(0) /\ PipeMoved(0)
  <2>1. CASE ops' = [ops EXCEPT ![o].step = "aborted"] /\ UNCHANGED queue
    BY <1>1, <1>5, <1>6, <1>7, <2>1, GoesOn
  <2>2. CASE ops' = [ops EXCEPT ![o].step = "writeLoad"] /\ Call(o, "updateLoad", ToRow(post))
    BY <1>1, <1>5, <1>6, <1>7, <2>2, GoesOn
  <2>3. QED
    BY <1>1, <2>1, <2>2
<1>9. QED
  BY <1>1, <1>3, <1>4, <1>7, <1>8, PlainStep DEF Held

(* Distance lookups run for fetches that were started, and not before the  *)
(* app has booted.                                                         *)
LEMMA TaskOwner ==
    ASSUME Held, NEW o \in OpIds, NEW l \in Loads, tasks[o][l].step # "none"
    PROVE  o <= started /\ ops[o].kind # "delete" /\ Booted
<1>1. o <= started /\ ops[o].kind # "delete"
  BY DEF Held, ListInv, TasksLinked
<1>2. Booted
  BY DEF Held, ListInv, BootsAlone
<1>3. QED
  BY <1>1, <1>2

LEMMA RouteFoundListed ==
    ASSUME Held, NEW o \in OpIds, NEW l \in Loads, RouteFound(o, l)
    PROVE  ListInv'
<1>1. /\ tasks[o][l].step = "route" /\ tasks' = [tasks EXCEPT ![o][l].step = "save"]
      /\ \E row : Call(o, "saveDistance", row)
      /\ UNCHANGED <<mem, ops, started, db, replies, boot, restarts>>
  BY DEF RouteFound, outside
<1>2. o <= started /\ ops[o].kind # "delete" /\ Booted
  BY <1>1, TaskOwner
<1>3. RepliesMoved(0)
  BY <1>1, RepliesStay DEF Held
<1>4. OpsMoved(0) /\ PipeMoved(0)
  BY <1>1, <1>2, <1>3, OpsStay, PlainCall DEF Held
<1>5. TasksMoved
  BY <1>1 DEF TasksMoved, Held, IInv, GoodTasks
<1>6. MemMoved(0)
  BY <1>1, BoardStays DEF Held
<1>7. QED
  BY <1>1, <1>2, <1>3, <1>4, <1>5, <1>6, AppStepKeeps DEF Held, AppStep, Awake

LEMMA TaskEndListed ==
    ASSUME Held, NEW o \in OpIds, NEW l \in Loads, EndTask(o, l), o <= started,
           ops[o].kind # "delete", NEW d \in {0, 1}, RepliesMoved(d), Booted,
           UNCHANGED <<mem, started, db, queue, boot, restarts>>
    PROVE  ListInv'
<1>1. ops[o].kind # "none"
  BY StartedKind DEF Held
<1>2. OpsMoved(d)
  <2>1. CASE ops' = ops
    BY <2>1, OpsStay DEF Held
  <2>2. CASE ops' = [ops EXCEPT ![o].step = "done"]
    BY <1>1, <2>2, OpGoesOn DEF Held
  <2>3. QED
    BY <2>1, <2>2 DEF EndTask
<1>3. PipeMoved(d)
  BY NothingCalled DEF Held
<1>4. TasksMoved
  BY DEF EndTask, NoTask, TasksMoved, Held, IInv, GoodTasks
<1>5. MemMoved(d)
  BY BoardStays DEF Held
<1>6. QED
  BY <1>2, <1>3, <1>4, <1>5, AppStepKeeps DEF Held, AppStep, Awake

LEMMA RouteMissingListed ==
    ASSUME Held, NEW o \in OpIds, NEW l \in Loads, RouteMissing(o, l)
    PROVE  ListInv'
<1>1. /\ tasks[o][l].step = "route" /\ EndTask(o, l)
      /\ UNCHANGED <<mem, started, db, queue, replies, boot, restarts>>
  BY DEF RouteMissing, outside
<1>2. o <= started /\ ops[o].kind # "delete" /\ Booted
  BY <1>1, TaskOwner
<1>3. RepliesMoved(0)
  BY <1>1, RepliesStay DEF Held
<1>4. QED
  BY <1>1, <1>2, <1>3, TaskEndListed

LEMMA DistanceSavedListed ==
    ASSUME Held, DistanceSaved
    PROVE  ListInv'
<1>1. /\ Resumed("saveDistance") /\ EndTask(Head(replies).owner, Head(replies).load)
      /\ UNCHANGED <<mem, started, db, queue, boot, restarts>>
  BY DEF DistanceSaved, outside
<1> DEFINE o == replies[1].owner
<1>2. /\ RepliesMoved(1) /\ Booted /\ Head(replies) = replies[1] /\ 1 \in DOMAIN replies
      /\ o \in OpIds /\ o <= started
      /\ CallLinked([call |-> "saveDistance", owner |-> o,
                     load |-> replies[1].load], started, ops)
  BY <1>1, TakesReply DEF Held
<1>3. replies[1].load \in Loads
  BY <1>2 DEF Held, Before, PipeFacts, PipeTypes
<1>4. ops[o].kind # "delete"
  BY <1>2 DEF CallLinked
<1>5. EndTask(o, replies[1].load)
  BY <1>1, <1>2
<1> HIDE DEF o
<1>6. QED
  BY <1>1, <1>2, <1>3, <1>4, <1>5, TaskEndListed

LEMMA OpenDetailsListed ==
    ASSUME Held, NEW l \in Loads, OpenDetails(l)
    PROVE  ListInv'
<1> DEFINE op == Handler("details", "distances", l, user)
<1>1. op.kind = "details" /\ op.chosen = {}
  BY HandlerShape
<1> HIDE DEF op
<1>2. /\ CanStart("details") /\ StartOp(op)
      /\ \E task : tasks' = [tasks EXCEPT ![started + 1][l] = task]
      /\ UNCHANGED <<mem, db, boot, restarts, replies, queue>> /\ Booted
  BY DEF OpenDetails, op, outside, AtBoard
<1>3. RepliesMoved(0)
  BY <1>2, RepliesStay DEF Held
<1>4. /\ OpsMoved(0) /\ PipeMoved(0)
      /\ started + 1 <= started' /\ ops'[started + 1] = op
  BY <1>1, <1>2, <1>3, OpBegins, NothingCalled DEF Held
<1>5. TasksMoved
  <2> SUFFICES ASSUME NEW p \in OpIds, NEW k \in Loads, tasks'[p][k].step # "none",
                      tasks[p][k].step = "none"
               PROVE  p <= started' /\ ops'[p].kind # "delete"
    BY DEF TasksMoved
  <2>1. p = started + 1
    BY <1>2 DEF Held, IInv, GoodTasks
  <2>2. QED
    BY <1>1, <1>4, <2>1
<1>6. MemMoved(0)
  BY <1>2, BoardStays DEF Held
<1>7. QED
  BY <1>2, <1>3, <1>4, <1>5, <1>6, AppStepKeeps DEF Held, AppStep, Awake

(* What a fetch puts on the board was in its reply. *)
LEMMA LoadsReadListed ==
    ASSUME Held, LoadsRead
    PROVE  ListInv'
<1> DEFINE o == Head(replies).owner
           rows == Head(replies).rows
<1>1. /\ Resumed("getLoads")
      /\ \E s : ops' = [ops EXCEPT ![o].step = s]
      /\ UNCHANGED <<started, db, queue, boot, restarts>>
  BY DEF LoadsRead, outside
<1>2. \/ mem' = Fetched(rows, o)
      \/ mem' = <<>>
  BY DEF LoadsRead
<1>3. \/ UNCHANGED tasks
      \/ \E f : tasks' = [tasks EXCEPT ![o] = f]
  BY DEF LoadsRead
<1> HIDE DEF o, rows
<1>4. /\ RepliesMoved(1) /\ OpsMoved(1) /\ PipeMoved(1) /\ Awake
      /\ o \in OpIds /\ o <= started /\ ops[o].kind # "delete"
      /\ \E s : ops' = [ops EXCEPT ![o].step = s]
  BY <1>1, Continues DEF o
<1>5. 1 \in DOMAIN replies /\ rows = replies[1].rows
  BY <1>1, TakesReply DEF Held, rows
<1>6. TasksMoved
  <2>1. ops'[o].kind # "delete"
    BY <1>4 DEF Held, IInv, GoodOps, Op
  <2>2. o <= started'
    BY <1>1, <1>4
  <2>3. QED
    BY <1>3, <2>1, <2>2 DEF TasksMoved, Held, IInv, GoodTasks
<1>7. MemMoved(1)
  <2> SUFFICES ASSUME NEW l \in Loads \ {EmptyId}
               PROVE  UniqueAt(mem', l) /\ (Has(mem', l) => Taken(l, 1))
    BY DEF MemMoved
  <2>1. CASE mem' = <<>>
    BY <2>1, EmptyIds
  <2>2. CASE mem' = Fetched(rows, o)
    <3>1. DOMAIN mem' = DOMAIN rows /\ \A i \in DOMAIN rows : mem'[i].id = rows[i].id
      BY <2>2 DEF Fetched, FromRow
    <3>2. (Has(mem', l) <=> Has(rows, l)) /\ (UniqueAt(mem', l) <=> UniqueAt(rows, l))
      BY <3>1, SameIds
    <3>3. UniqueAt(rows, l)
      BY <1>5 DEF Held, ListInv, Unique
    <3>4. QED
      BY <1>5, <3>2, <3>3 DEF Taken
  <2>3. QED
    BY <1>2, <2>1, <2>2
<1>8. QED
  BY <1>1, <1>4, <1>6, <1>7, AppStepKeeps DEF Held, AppStep

(* A return load has the id '', any other posted load an id never used. *)
LEMMA PosterListed ==
    ASSUME Held, NEW kind \in {"post", "return"}, CanStart(kind), NEW l, NEW post,
           StartOp([Handler(kind, "insert", l, user) EXCEPT !.post = post]), post.id = l,
           NEW row, row.id = l, Call(started + 1, "insertLoad", row),
           l # EmptyId => kind = "post" /\ NeverUsed(l),
           UNCHANGED <<mem, tasks, db, boot, restarts, replies>>, Booted
    PROVE  ListInv'
<1> DEFINE op == [Handler(kind, "insert", l, user) EXCEPT !.post = post]
           c == [call |-> "insertLoad", owner |-> started + 1, load |-> row.id]
<1>1. op.kind = kind /\ op.load = l /\ op.post = post /\ op.chosen = {}
  BY DEF Handler, NoOp
<1>2. c.call = "insertLoad" /\ c.owner = started + 1 /\ c.load = l
  OBVIOUS
<1>3. StartOp(op)
  OBVIOUS
<1> HIDE DEF op, c
<1>4. RepliesMoved(0)
  BY RepliesStay DEF Held
<1>5. /\ OpsMoved(0) /\ started + 1 \in OpIds /\ started + 1 <= started'
      /\ ops'[started + 1] = op
  BY <1>1, <1>3, OpBegins DEF Held
<1>6. NewCall(c, 0)
  <2>1. CallLinked(c, started', ops')
    BY <1>1, <1>2, <1>5 DEF CallLinked
  <2>2. QED
    BY <1>2, <2>1 DEF NewCall
<1>7. PipeMoved(0)
  BY <1>4, <1>6, OneCall DEF Held, c
<1>8. QED
  BY <1>4, <1>5, <1>7, PlainStep DEF Held, Awake

LEMMA PostLoadListed ==
    ASSUME Held, NEW l \in Loads, PostLoad(l)
    PROVE  ListInv'
<1>1. /\ CanStart("post") /\ NeverUsed(l) /\ Booted
      /\ StartOp([Handler("post", "insert", l, user) EXCEPT !.post = FreshPost(l)])
      /\ Call(started + 1, "insertLoad", FreshRow(l))
      /\ UNCHANGED <<mem, tasks, db, boot, restarts, replies>>
  BY DEF PostLoad, AtBoard, memory, outside
<1>2. FreshPost(l).id = l /\ FreshRow(l).id = l
  BY DEF FreshPost, FreshRow
<1>3. QED
  BY <1>1, <1>2, PosterListed

LEMMA PostReturnListed ==
    ASSUME Held, NEW l \in Loads, PostReturn(l)
    PROVE  ListInv'
<1> DEFINE shown == mem[IndexOf(mem, l)]
           post == [shown EXCEPT !.id = EmptyId, !.list = started + 1]
<1>1. /\ CanStart("return") /\ Booted /\ Has(mem, l)
      /\ StartOp([Handler("return", "insert", EmptyId, user) EXCEPT !.post = post])
      /\ Call(started + 1, "insertLoad", ToRow(post))
      /\ UNCHANGED <<mem, tasks, db, boot, restarts, replies>>
  BY DEF PostReturn, AtBoard, memory, outside
<1>2. shown \in GoodPost
  BY <1>1, IndexOfSpec, LenProperties, ElementOfSeq DEF Held, IInv, GoodMem
<1>3. post.id = EmptyId /\ ToRow(post).id = EmptyId
  BY <1>2 DEF GoodPost, Post, ToRow
<1> HIDE DEF post
<1>4. QED
  BY <1>1, <1>3, PosterListed

(* A load that was posted joins the board once. *)
LEMMA LoadInsertedListed ==
    ASSUME Held, LoadInserted
    PROVE  ListInv'
<1> DEFINE o == Head(replies).owner
           post == ops[o].post
<1>1. /\ Resumed("insertLoad")
      /\ mem' = Append(mem, post) \/ mem' = mem
      /\ UNCHANGED <<tasks, started, db, boot, restarts>>
  BY DEF LoadInserted, outside
<1>2. /\ \E s : ops' = [ops EXCEPT ![o].step = s]
      /\ \/ UNCHANGED queue
         \/ \E call, row : call \notin {"insertLoad", "deleteLoad"} /\ Call(o, call, row)
  BY DEF LoadInserted, FetchLoads
<1> HIDE DEF o
<1>3. RepliesMoved(1) /\ OpsMoved(1) /\ PipeMoved(1) /\ Awake /\ o \in OpIds
  BY <1>1, <1>2, Continues DEF o
<1>4. /\ 1 \in DOMAIN replies /\ replies[1].call = "insertLoad" /\ o = replies[1].owner
      /\ CallLinked([call |-> "insertLoad", owner |-> o,
                     load |-> replies[1].load], started, ops)
  BY <1>1, TakesReply DEF Held, o
<1>5. replies[1].load = post.id
  BY <1>4 DEF CallLinked
<1>6. /\ 1 \in DOMAIN Pipe /\ Pipe[1].call = "insertLoad" /\ Pipe[1].load = post.id
  BY <1>3, <1>4, <1>5, FirstReply DEF Held, Before
<1>7. post \in GoodPost
  BY <1>3 DEF Held, IInv, GoodOps, Op, OpsLinked, OpLinked, GoodPost
<1> HIDE DEF post
<1>8. MemMoved(1)
  <2> SUFFICES ASSUME NEW l \in Loads \ {EmptyId}
               PROVE  UniqueAt(mem', l) /\ (Has(mem', l) => Has(mem, l) \/ Taken(l, 1))
    BY DEF MemMoved
  <2>1. UniqueAt(mem, l)
    BY DEF Held, ListInv, Unique
  <2>2. post.id = l => ~Has(mem, l)
    BY <1>6 DEF Held, ListInv, Posting
  <2>3. CASE mem' = Append(mem, post)
    <3>1. /\ Has(mem', l) <=> Has(mem, l) \/ post.id = l
          /\ UniqueAt(mem', l)
      BY <1>7, <2>1, <2>2, <2>3, AppendIds DEF Held, IInv, GoodMem
    <3>2. QED
      BY <1>4, <1>5, <3>1 DEF Taken
  <2>4. CASE mem' = mem
    BY <2>1, <2>4
  <2>5. QED
    BY <1>1, <2>3, <2>4
<1>9. QED
  BY <1>1, <1>3, <1>8, TasksStay, AppStepKeeps DEF Held, AppStep

LEMMA DeleteLoadsListed ==
    ASSUME Held, NEW chosen \in SUBSET Loads, DeleteLoads(chosen)
    PROVE  ListInv'
<1>1. /\ CanStart("delete") /\ Booted /\ \A l \in chosen : Has(mem, l)
      /\ UNCHANGED <<mem, tasks, db, boot, restarts, replies>>
  BY DEF DeleteLoads, AtBoard, memory, outside
<1>2. PICK l \in chosen :
          /\ StartOp([Handler("delete", "delete", l, user) EXCEPT
                         !.chosen = chosen, !.todo = chosen \ {l}])
          /\ Call(started + 1, "deleteLoad", FreshRow(l))
  BY DEF DeleteLoads
<1> DEFINE op == [Handler("delete", "delete", l, user) EXCEPT
                     !.chosen = chosen, !.todo = chosen \ {l}]
           c == [call |-> "deleteLoad", owner |-> started + 1, load |-> FreshRow(l).id]
<1>3. /\ op.kind = "delete" /\ op.step = "delete" /\ op.load = l
      /\ op.chosen = chosen /\ op.todo = chosen \ {l}
  BY DEF Handler, NoOp
<1>4. c.call = "deleteLoad" /\ c.owner = started + 1 /\ c.load = l
  BY DEF FreshRow
<1>5. StartOp(op)
  BY <1>2
<1> HIDE DEF op, c
<1>6. /\ started + 1 \in OpIds /\ started \in Nat /\ started' = started + 1
      /\ ops'[started + 1] = op
      /\ \A o \in OpIds : o # started + 1 => ops'[o] = ops[o]
  BY <1>1, <1>5, OpIsNew DEF Held
<1>7. OpsMoved(0)
  <2>1. OpShaped(op)
    BY <1>3 DEF OpShaped
  <2>2. GoneOf(ops'[started + 1]) = {}
    <3>1. GoneOf(ops'[started + 1]) = op.chosen \ (op.todo \cup {op.load})
      BY <1>3, <1>6 DEF GoneOf
    <3>2. QED
      BY <1>3, <3>1
  <2>3. OpStarts(started + 1)
    <3>1. \A k \in ops'[started + 1].chosen : Has(mem, k)
      BY <1>1, <1>3, <1>6
    <3>2. \A k : k \notin GoneOf(ops'[started + 1])
      BY <2>2
    <3>3. QED
      BY <1>3, <1>6, <2>1, <3>1, <3>2 DEF OpStarts
  <2>4. \A o \in OpIds : OpKept(o) \/ OpStarts(o)
    BY <1>6, <2>3 DEF OpKept
  <2>5. OpStarts(started')
    BY <1>6, <2>3
  <2>6. QED
    BY <1>6, <2>4, <2>5 DEF OpsMoved
<1>8. RepliesMoved(0)
  BY <1>1, RepliesStay DEF Held
<1>9. NewCall(c, 0)
  <2>1. CallLinked(c, started', ops')
    BY <1>3, <1>4, <1>6 DEF CallLinked
  <2>2. QED
    BY <1>4, <1>6, <2>1 DEF NewCall
<1>10. PipeMoved(0)
  BY <1>2, <1>8, <1>9, OneCall DEF Held, c
<1>11. QED
  BY <1>1, <1>7, <1>8, <1>10, PlainStep DEF Held, Awake

(* The answer of deleteLoad takes the load off the board. *)
LEMMA LoadDeletedListed ==
    ASSUME Held, LoadDeleted
    PROVE  ListInv'
<1> DEFINE rep == replies[1]
           o == rep.owner
           l == rep.load
<1>1. /\ Resumed("deleteLoad") /\ UNCHANGED <<tasks, started, db, boot, restarts>>
  BY DEF LoadDeleted, outside
<1>2. /\ RepliesMoved(1) /\ Booted /\ 1 \in DOMAIN replies /\ Head(replies) = rep
      /\ rep.call = "deleteLoad" /\ o \in OpIds /\ o <= started
      /\ CallLinked([call |-> "deleteLoad", owner |-> o, load |-> l], started, ops)
  BY <1>1, TakesReply DEF Held
<1>3. /\ mem' = (IF rep.ok THEN Without(mem, l) ELSE mem)
      /\ \/ /\ ~rep.ok
            /\ ops' = [ops EXCEPT ![o].step = "aborted"]
            /\ UNCHANGED queue
         \/ /\ rep.ok /\ ops[o].todo = {}
            /\ ops' = [ops EXCEPT ![o].step = "done"]
            /\ UNCHANGED queue
         \/ /\ rep.ok
            /\ \E k \in ops[o].todo :
                 /\ ops' = [ops EXCEPT ![o].load = k, ![o].todo = @ \ {k}]
                 /\ Call(o, "deleteLoad", FreshRow(k))
  BY <1>2 DEF LoadDeleted
<1>4. /\ ops[o].kind = "delete" /\ ops[o].step = "delete" /\ ops[o].load = l
      /\ OpShaped(ops[o])
  BY <1>2 DEF CallLinked, Held, ListInv, OpsShaped
<1>5. /\ l \in ops[o].chosen /\ ops[o].todo \subseteq ops[o].chosen
      /\ ops[o].chosen \subseteq Loads
  BY <1>2, <1>4 DEF OpShaped, Held, IInv, GoodOps, Op
<1>6. /\ \A k : Has(Without(mem, l), k) => Has(mem, k)
      /\ \A k : UniqueAt(mem, k) => UniqueAt(Without(mem, l), k)
      /\ UniqueAt(mem, l) => ~Has(Without(mem, l), l)
  BY WithoutIds DEF Held, IInv, GoodMem
<1>7. ops \in [OpIds -> Op]
  BY DEF Held, IInv, GoodOps
<1> HIDE DEF rep, o, l
<1>8. MemMoved(1)
  <2> SUFFICES ASSUME NEW k \in Loads \ {EmptyId}
               PROVE  UniqueAt(mem', k) /\ (Has(mem', k) => Has(mem, k))
    BY DEF MemMoved
  <2>1. UniqueAt(mem, k)
    BY DEF Held, ListInv, Unique
  <2>2. QED
    BY <1>3, <1>6, <2>1
<1>9. rep.ok /\ l # EmptyId => ~Has(mem', l)
  <2>1. l # EmptyId => UniqueAt(mem, l)
    BY <1>5 DEF Held, ListInv, Unique
  <2>2. QED
    BY <1>3, <1>6, <2>1
<1>10. /\ \A p \in OpIds : p # o => ops'[p] = ops[p]
       /\ \/ ops'[o] = [ops[o] EXCEPT !.step = "aborted"]
          \/ rep.ok /\ ops[o].todo = {} /\ ops'[o] = [ops[o] EXCEPT !.step = "done"]
          \/ /\ rep.ok
             /\ \E k \in ops[o].todo :
                   ops'[o] = [ops[o] EXCEPT !.load = k, !.todo = @ \ {k}]
  <2>1. CASE ops' = [ops EXCEPT ![o].step = "aborted"]
    BY <1>2, <1>7, <2>1 DEF o
  <2>2. CASE rep.ok /\ ops[o].todo = {} /\ ops' = [ops EXCEPT ![o].step = "done"]
    BY <1>2, <1>7, <2>2 DEF o
  <2>3. ASSUME rep.ok, NEW k \in ops[o].todo,
               ops' = [ops EXCEPT ![o].load = k, ![o].todo = @ \ {k}]
        PROVE  /\ \A p \in OpIds : p # o => ops'[p] = ops[p]
               /\ ops'[o] = [ops[o] EXCEPT !.load = k, !.todo = @ \ {k}]
    BY <1>2, <1>7, <2>3 DEF o
  <2>4. QED
    BY <1>3, <2>1, <2>2, <2>3
<1>11. /\ ops'[o].kind = "delete" /\ ops'[o].chosen = ops[o].chosen
       /\ OpShaped(ops'[o])
       /\ \A k \in GoneOf(ops'[o]) : k \in Gone(o) \/ (rep.ok /\ k = l)
  <2> DEFINE Fine == /\ ops'[o].kind = "delete" /\ ops'[o].chosen = ops[o].chosen
                     /\ OpShaped(ops'[o])
                     /\ \A k \in GoneOf(ops'[o]) : k \in Gone(o) \/ (rep.ok /\ k = l)
  <2>1. ops[o] \in Op
    BY <1>2, <1>7 DEF o
  <2>2. Gone(o) = ops[o].chosen \ (ops[o].todo \cup {l})
    BY <1>4 DEF Gone
  <2>3. CASE ops'[o] = [ops[o] EXCEPT !.step = "aborted"]
    <3>1. /\ ops'[o].kind = "delete" /\ ops'[o].chosen = ops[o].chosen
          /\ ops'[o].todo = ops[o].todo /\ ops'[o].load = l /\ ops'[o].step = "aborted"
      BY <1>4, <2>1, <2>3 DEF Op
    <3>2. GoneOf(ops'[o]) = ops[o].chosen \ (ops[o].todo \cup {l})
      BY <3>1 DEF GoneOf
    <3>3. OpShaped(ops'[o])
      BY <1>5, <3>1 DEF OpShaped
    <3>4. QED
      BY <2>2, <3>1, <3>2, <3>3
  <2>4. CASE rep.ok /\ ops[o].todo = {} /\ ops'[o] = [ops[o] EXCEPT !.step = "done"]
    <3>1. /\ ops'[o].kind = "delete" /\ ops'[o].chosen = ops[o].chosen
          /\ ops'[o].todo = {} /\ ops'[o].load = l /\ ops'[o].step = "done"
      BY <1>4, <2>1, <2>4 DEF Op
    <3>2. GoneOf(ops'[o]) = ops[o].chosen
      BY <3>1 DEF GoneOf
    <3>3. OpShaped(ops'[o])
      BY <1>5, <3>1 DEF OpShaped
    <3>4. QED
      BY <2>2, <2>4, <3>1, <3>2, <3>3
  <2>5. ASSUME rep.ok, NEW k \in ops[o].todo,
               ops'[o] = [ops[o] EXCEPT !.load = k, !.todo = @ \ {k}]
        PROVE  Fine
    <3>1. /\ ops'[o].kind = "delete" /\ ops'[o].chosen = ops[o].chosen
          /\ ops'[o].todo = ops[o].todo \ {k} /\ ops'[o].load = k /\ ops'[o].step = "delete"
      BY <1>4, <2>1, <2>5 DEF Op
    <3>2. GoneOf(ops'[o]) = ops[o].chosen \ ((ops[o].todo \ {k}) \cup {k})
      BY <3>1 DEF GoneOf
    <3>3. OpShaped(ops'[o])
      BY <1>5, <2>5, <3>1 DEF OpShaped
    <3>4. \A m \in GoneOf(ops'[o]) : m \in Gone(o) \/ (rep.ok /\ m = l)
      BY <2>2, <2>5, <3>2
    <3>5. QED
      BY <3>1, <3>3, <3>4
  <2>6. QED
    BY <1>10, <2>3, <2>4, <2>5
<1>12. OpsMoved(1)
  <2>2. OpDeletes(o, 1)
    BY <1>2, <1>4, <1>9, <1>11 DEF OpDeletes, rep, o, l
  <2>3. \A p \in OpIds : OpKept(p) \/ OpDeletes(p, 1)
    BY <1>10, <2>2 DEF OpKept
  <2>4. QED
    BY <1>1, <2>3 DEF OpsMoved
<1>13. PipeMoved(1)
  <2>1. CASE UNCHANGED queue
    BY <1>2, <2>1, NothingCalled DEF Held
  <2>2. ASSUME NEW k \in ops[o].todo,
               ops' = [ops EXCEPT ![o].load = k, ![o].todo = @ \ {k}],
               Call(o, "deleteLoad", FreshRow(k))
        PROVE  PipeMoved(1)
    <3> DEFINE c == [call |-> "deleteLoad", owner |-> o, load |-> FreshRow(k).id]
    <3>1. c.call = "deleteLoad" /\ c.owner = o /\ c.load = k
      BY DEF FreshRow
    <3> HIDE DEF c
    <3>2. ops'[o].step = "delete" /\ ops'[o].load = k
      BY <1>2, <1>4, <1>7, <2>2 DEF o, Op
    <3>3. CallLinked(c, started', ops')
      BY <1>1, <1>2, <1>11, <3>1, <3>2 DEF CallLinked, o
    <3>4. NewCall(c, 1)
      BY <1>2, <3>1, <3>3 DEF NewCall, rep, o
    <3>5. QED
      BY <1>2, <2>2, <3>4, OneCall DEF Held, c
  <2>3. QED
    BY <1>3, <2>1, <2>2
<1>14. QED
  BY <1>1, <1>2, <1>8, <1>12, <1>13, TasksStay, AppStepKeeps DEF Held, AppStep, Awake

-----------------------------------------------------------------------------
(* The database, main() and the kill. *)

(* The row of an insert that waits belongs to a load no deletion was given; *)
(* the row a deletion removes was given to it.                             *)
LEMMA FirstCall ==
    ASSUME Held, queue # <<>>
    PROVE  /\ Len(replies) + 1 \in DOMAIN Pipe /\ Booted
           /\ Pipe[Len(replies) + 1] = [call |-> Head(queue).call, owner |-> Head(queue).owner,
                                        load |-> Head(queue).row.id]
           /\ Head(queue) \in GoodRequest
           /\ Head(queue).call = "deleteLoad" =>
                 \E o \in OpIds : Head(queue).row.id \in ops[o].chosen
           /\ Head(queue).call = "insertLoad" /\ Head(queue).row.id # EmptyId =>
                 \A o \in OpIds : Head(queue).row.id \notin ops[o].chosen
<1> DEFINE req == Head(queue)
           p == Len(replies) + 1
<1>1. req = queue[1] /\ 1 \in DOMAIN queue
  BY HeadTailProperties, LenProperties, EmptySeq DEF Held, GoodQueue
<1>2. /\ p \in DOMAIN Pipe
      /\ Pipe[p] = [call |-> req.call, owner |-> req.owner, load |-> req.row.id]
      /\ req \in GoodRequest
  <2>1. p \in DOMAIN Pipe
    BY <1>1 DEF Held, Before, PipeFacts, PipeSizes
  <2>2. Pipe[Len(replies) + 1] = [call |-> queue[1].call, owner |-> queue[1].owner,
                                  load |-> queue[1].row.id]
    BY <1>1 DEF Held, Before, PipeFacts, WaitingNext
  <2>3. QED
    BY <1>1, <2>1, <2>2 DEF Held, Before, PipeFacts, PipeTypes
<1>3. Booted
  BY DEF Held, ListInv, BootsAlone
<1> HIDE DEF p, req
<1>4. CallLinked(Pipe[p], started, ops)
  BY <1>2 DEF Held, ListInv, CallsLinked
<1>5. ASSUME req.call = "deleteLoad"
      PROVE  \E o \in OpIds : req.row.id \in ops[o].chosen
  <2>1. /\ Pipe[p].owner \in OpIds /\ ops[Pipe[p].owner].kind = "delete"
        /\ req.row.id = ops[Pipe[p].owner].load
    BY <1>2, <1>4, <1>5 DEF CallLinked
  <2>2. OpShaped(ops[Pipe[p].owner])
    BY <2>1 DEF Held, ListInv, OpsShaped
  <2>3. QED
    BY <2>1, <2>2 DEF OpShaped
<1>6. ASSUME req.call = "insertLoad", req.row.id # EmptyId
      PROVE  \A o \in OpIds : req.row.id \notin ops[o].chosen
  <2>1. Pipe[p].call = "insertLoad" /\ Pipe[p].load = req.row.id
    BY <1>2, <1>6
  <2>2. QED
    BY <1>2, <1>6, <2>1 DEF Held, ListInv, Posting
<1>7. QED
  BY <1>2, <1>3, <1>5, <1>6 DEF p, req

LEMMA ExecutedListed ==
    ASSUME Held, queue # <<>>, queue' = Tail(queue), NEW ok \in BOOLEAN, NEW rows,
           replies' = Append(replies,
               [call |-> Head(queue).call, owner |-> Head(queue).owner,
                load |-> Head(queue).row.id, ok |-> ok, rows |-> rows]),
           UNCHANGED <<mem, tasks, ops, started, boot, restarts>>,
           \/ ok /\ db' = Written(db, Head(queue)) /\ rows \in {db, <<>>}
           \/ ~ok /\ db' = db /\ rows = <<>>
    PROVE  ListInv'
<1> DEFINE req == Head(queue)
           n == Len(replies)
           r == [call |-> req.call, owner |-> req.owner, load |-> req.row.id,
                 ok |-> ok, rows |-> rows]
           row == req.row.id
<1>1. /\ n + 1 \in DOMAIN Pipe /\ Booted
      /\ Pipe[n + 1] = [call |-> req.call, owner |-> req.owner, load |-> row]
      /\ req \in GoodRequest
      /\ req.call = "deleteLoad" => \E o \in OpIds : row \in ops[o].chosen
      /\ req.call = "insertLoad" /\ row # EmptyId => \A o \in OpIds : row \notin ops[o].chosen
  BY FirstCall
<1>2. /\ r.call = req.call /\ r.owner = req.owner /\ r.load = row /\ r.ok = ok /\ r.rows = rows
      /\ replies' = Append(replies, r)
  OBVIOUS
<1> HIDE DEF r
<1>3. /\ Pipe' = Pipe /\ Len(replies') = n + 1
      /\ \A k \in DOMAIN replies : replies'[k] = replies[k]
      /\ replies'[n + 1] = r
  BY <1>2, PipeExecuted DEF Held, Before
<1>4. /\ n \in Nat /\ DOMAIN replies = 1..n /\ DOMAIN replies' = 1..(n + 1)
      /\ \A p \in DOMAIN Pipe : p \in Nat
  BY <1>3 DEF Held, Before, PipeFacts, PipeSizes
<1>5. /\ \A l \in Loads : UniqueAt(db, l)
      /\ \A l \in Loads : UniqueAt(db', l)
      /\ \A l : Has(db', l) => Has(db, l) \/ (req.call = "insertLoad" /\ l = row)
      /\ \A l : Has(db, l) => Has(db', l) \/ (req.call = "deleteLoad" /\ l = row)
      /\ ok /\ req.call = "deleteLoad" => ~Has(db', row)
  <2>1. \A l \in Loads : UniqueAt(db, l)
    BY DEF Held, ListInv, Unique
  <2>2. CASE ok /\ db' = Written(db, req)
    BY <1>1, <2>1, <2>2, WrittenIds DEF Held, IInv, GoodDb
  <2>3. CASE ~ok /\ db' = db
    BY <2>1, <2>3
  <2>4. QED
    BY <2>1, <2>2, <2>3
<1>6. \A l : Has(rows, l) => Has(db, l)
  BY EmptyIds
<1> HIDE DEF req, n, row
<1>7. \A k \in DOMAIN replies' : k \in DOMAIN replies \/ k = n + 1
  BY <1>4
<1>8. CallsLinked' /\ CallsApart' /\ TasksLinked' /\ OpsShaped'
  BY <1>3 DEF Held, ListInv, CallsLinked, CallsApart, TasksLinked, OpsShaped
<1>9. BootsAlone'
  BY <1>1 DEF BootsAlone, Booted
<1>10. Unique'
  <2> SUFFICES ASSUME NEW l \in Loads
               PROVE  /\ UniqueAt(db', l)
                      /\ \A k \in DOMAIN replies' : UniqueAt(replies'[k].rows, l)
                      /\ l # EmptyId => UniqueAt(mem', l)
    BY DEF Unique
  <2>1. /\ \A k \in DOMAIN replies : UniqueAt(replies[k].rows, l)
        /\ l # EmptyId => UniqueAt(mem, l)
    BY DEF Held, ListInv, Unique
  <2>2. UniqueAt(rows, l)
    BY <1>5, EmptyIds
  <2>3. QED
    BY <1>2, <1>3, <1>5, <1>7, <2>1, <2>2
<1>11. Posting'
  <2> SUFFICES ASSUME NEW p \in DOMAIN Pipe, Pipe[p].call = "insertLoad",
                      Pipe[p].load # EmptyId
               PROVE  /\ ~Has(mem', Pipe[p].load)
                      /\ p > n + 1 => ~Has(db', Pipe[p].load)
                      /\ \A k \in DOMAIN replies' :
                            k < p => ~Has(replies'[k].rows, Pipe[p].load)
                      /\ \A o \in OpIds : Pipe[p].load \notin ops'[o].chosen
    BY <1>3 DEF Posting
  <2> DEFINE l == Pipe[p].load
  <2>1. /\ ~Has(mem, l)
        /\ p > n => ~Has(db, l)
        /\ \A k \in DOMAIN replies : k < p => ~Has(replies[k].rows, l)
        /\ \A o \in OpIds : l \notin ops[o].chosen
    BY DEF Held, ListInv, Posting, n
  <2>2. ASSUME p > n + 1 PROVE ~Has(db', l)
    <3>1. p > n /\ p # n + 1
      BY <1>4, <2>2
    <3>2. ~(req.call = "insertLoad" /\ l = row)
      BY <1>1, <3>1 DEF Held, ListInv, CallsApart
    <3>3. QED
      BY <1>5, <2>1, <3>1, <3>2
  <2>3. ASSUME NEW k \in DOMAIN replies', k < p PROVE ~Has(replies'[k].rows, l)
    <3>1. CASE k \in DOMAIN replies
      BY <1>3, <2>1, <2>3, <3>1
    <3>2. CASE k = n + 1
      <4>1. p > n
        BY <1>4, <2>3, <3>2
      <4>2. QED
        BY <1>2, <1>3, <1>6, <2>1, <3>2, <4>1
    <3>3. QED
      BY <1>7, <3>1, <3>2
  <2>4. QED
    BY <2>1, <2>2, <2>3
<1>12. ReadOnce'
  <2> SUFFICES ASSUME NEW k \in DOMAIN replies', NEW l \in Loads \ {EmptyId},
                      Has(replies'[k].rows, l)
               PROVE  Has(db', l) \/ \E o \in OpIds : l \in ops'[o].chosen
    BY DEF ReadOnce
  <2>1. Has(db, l) \/ \E o \in OpIds : l \in ops[o].chosen
    <3>1. CASE k \in DOMAIN replies
      BY <1>3, <3>1 DEF Held, ListInv, ReadOnce
    <3>2. CASE k = n + 1
      BY <1>2, <1>3, <1>6, <3>2
    <3>3. QED
      BY <1>7, <3>1, <3>2
  <2>2. QED
    BY <1>1, <1>5, <2>1
<1>13. ASSUME NEW l, l # EmptyId, NEW o \in OpIds, l \in ops[o].chosen, ~Has(db, l)
       PROVE  ~Has(db', l)
  BY <1>1, <1>5, <1>13
<1>14. Deleting'
  <2> SUFFICES ASSUME NEW p \in DOMAIN replies', replies'[p].call = "deleteLoad",
                      replies'[p].ok, replies'[p].load # EmptyId
               PROVE  /\ ~Has(db', replies'[p].load)
                      /\ \A k \in DOMAIN replies' :
                            k > p => ~Has(replies'[k].rows, replies'[p].load)
    BY DEF Deleting
  <2>1. CASE p \in DOMAIN replies
    <3> DEFINE l == replies[p].load
    <3>1. /\ replies'[p] = replies[p] /\ ~Has(db, l)
          /\ \A k \in DOMAIN replies : k > p => ~Has(replies[k].rows, l)
      BY <1>3, <2>1 DEF Held, ListInv, Deleting
    <3>2. \E o \in OpIds : l \in ops[o].chosen
      <4>1. /\ p \in DOMAIN Pipe
            /\ Pipe[p] = [call |-> replies[p].call, owner |-> replies[p].owner,
                          load |-> replies[p].load]
        BY <2>1 DEF Held, Before, PipeFacts, PipeSizes, ExecutedFirst
      <4>2. CallLinked(Pipe[p], started, ops)
        BY <4>1 DEF Held, ListInv, CallsLinked
      <4>3. /\ Pipe[p].owner \in OpIds /\ ops[Pipe[p].owner].kind = "delete"
            /\ l = ops[Pipe[p].owner].load
        BY <3>1, <4>1, <4>2 DEF CallLinked
      <4>4. OpShaped(ops[Pipe[p].owner])
        BY <4>3 DEF Held, ListInv, OpsShaped
      <4>5. QED
        BY <4>3, <4>4 DEF OpShaped
    <3>3. ~Has(db', l)
      BY <1>13, <3>1, <3>2
    <3> HIDE DEF l
    <3>4. ASSUME NEW k \in DOMAIN replies', k > p PROVE ~Has(replies'[k].rows, l)
      <4>1. CASE k \in DOMAIN replies
        BY <1>3, <3>1, <3>4, <4>1
      <4>2. CASE k = n + 1
        BY <1>2, <1>3, <1>6, <3>1, <4>2
      <4>3. QED
        BY <1>7, <4>1, <4>2
    <3>5. QED
      BY <3>1, <3>3, <3>4 DEF l
  <2>2. CASE p = n + 1
    <3>1. ~Has(db', replies'[p].load)
      BY <1>2, <1>3, <1>5, <2>2
    <3>2. \A k \in DOMAIN replies' : ~(k > p)
      BY <1>4, <2>2
    <3>3. QED
      BY <3>1, <3>2
  <2>3. QED
    BY <1>7, <2>1, <2>2
<1>15. Deleted'
  <2> SUFFICES ASSUME NEW o \in OpIds, NEW l \in Gone(o)', l # EmptyId,
                      restarts = 0 \/ \A i \in DOMAIN Seeds : Seeds[i] # l
               PROVE  /\ ~Has(mem, l) /\ ~Has(db', l)
                      /\ \A k \in DOMAIN replies' : ~Has(replies'[k].rows, l)
    BY DEF Deleted
  <2>1. l \in Gone(o) /\ l \in ops[o].chosen
    BY DEF Gone
  <2>2. /\ ~Has(mem, l) /\ ~Has(db, l)
        /\ \A k \in DOMAIN replies : ~Has(replies[k].rows, l)
    BY <2>1 DEF Held, ListInv, Deleted
  <2>3. QED
    BY <1>2, <1>3, <1>6, <1>7, <1>13, <2>1, <2>2
<1>16. QED
  BY <1>8, <1>9, <1>10, <1>11, <1>12, <1>14, <1>15 DEF ListInv

LEMMA DatabaseListed ==
    ASSUME Held, DbExecute \/ DbFail
    PROVE  ListInv'
<1>1. CASE DbExecute
  BY <1>1, ExecutedListed DEF DbExecute, memory, outside
<1>2. CASE DbFail
  BY <1>2, ExecutedListed DEF DbFail, memory
<1>3. QED
  BY <1>1, <1>2

(* main() inserts the test loads before anything runs. *)
LEMMA InsertTestLoadListed ==
    ASSUME Held, InsertTestLoad
    PROVE  ListInv'
<1> DEFINE row == FreshRow(Seeds[boot + 1])
<1>1. /\ boot < Len(Seeds) /\ db' = Append(Without(db, row.id), row)
      /\ UNCHANGED <<mem, tasks, ops, started, queue, replies, restarts>>
  BY DEF InsertTestLoad, memory
<1>2. /\ mem = <<>> /\ queue = <<>> /\ replies = <<>>
      /\ \A o \in OpIds, l \in Loads : tasks[o][l].step = "none"
      /\ restarts = 0 => started = 0
  <2>1. ~Booted
    BY <1>1, LoadsAssumption, LenProperties DEF Booted
  <2>2. QED
    BY <2>1 DEF Held, ListInv, BootsAlone
<1>3. boot + 1 \in DOMAIN Seeds /\ row \in GoodRow /\ row.id = Seeds[boot + 1]
  <2>1. boot + 1 \in DOMAIN Seeds /\ Seeds[boot + 1] \in Loads
    BY <1>1, LoadsAssumption, LenProperties, ElementOfSeq DEF Held, IInv, GoodRest
  <2>2. QED
    BY <2>1, FreshGood DEF FreshRow
<1> HIDE DEF row
<1>4. DOMAIN Pipe = {} /\ DOMAIN Pipe' = {} /\ DOMAIN replies' = {}
  <2>1. Len(replies) = 0 /\ Len(queue) = 0
    BY <1>2, EmptySeq
  <2>2. Len(replies') = 0 /\ Len(queue') = 0
    BY <1>1, <1>2, EmptySeq
  <2>3. QED
    BY <2>1, <2>2 DEF Held, Before, PipeFacts, PipeSizes
<1>5. /\ \A l \in Loads : UniqueAt(db', l)
      /\ \A l : Has(db', l) => Has(db, l) \/ l = row.id
  <2> DEFINE w == Without(db, row.id)
  <2>1. /\ w \in Seq(GoodRow) /\ \A k \in Loads : UniqueAt(db, k)
    BY WithoutType DEF Held, IInv, GoodDb, ListInv, Unique
  <2>2. /\ \A k : Has(w, k) => Has(db, k)
        /\ \A k \in Loads : UniqueAt(w, k)
        /\ ~Has(w, row.id)
    BY <1>3, <2>1, WithoutIds DEF Held, IInv, GoodDb, GoodRow, Row
  <2> HIDE DEF w
  <2>3. /\ \A k : Has(Append(w, row), k) <=> Has(w, k) \/ row.id = k
        /\ \A k : UniqueAt(w, k) /\ (row.id = k => ~Has(w, k)) => UniqueAt(Append(w, row), k)
    BY <1>3, <2>1, AppendIds
  <2>4. db' = Append(w, row)
    BY <1>1 DEF w
  <2>5. QED
    BY <2>2, <2>3, <2>4
<1>6. CallsLinked' /\ CallsApart' /\ Posting'
  BY <1>4 DEF CallsLinked, CallsApart, Posting
<1>7. TasksLinked' /\ OpsShaped'
  BY <1>1 DEF Held, ListInv, TasksLinked, OpsShaped
<1>8. BootsAlone'
  BY <1>1, <1>2 DEF BootsAlone
<1>9. Unique'
  <2>1. \A l \in Loads : UniqueAt(mem', l)
    BY <1>1, <1>2, EmptyIds
  <2>2. QED
    BY <1>4, <1>5, <2>1 DEF Unique
<1>10. ReadOnce' /\ Deleting'
  BY <1>4 DEF ReadOnce, Deleting
<1>11. Deleted'
  <2> SUFFICES ASSUME NEW o \in OpIds, NEW l \in Gone(o)', l # EmptyId,
                      restarts = 0 \/ \A i \in DOMAIN Seeds : Seeds[i] # l
               PROVE  /\ ~Has(mem', l) /\ ~Has(db', l)
                      /\ \A k \in DOMAIN replies' : ~Has(replies'[k].rows, l)
    BY <1>1 DEF Deleted
  <2>1. l \in Gone(o) /\ l \in ops[o].chosen
    BY <1>1 DEF Gone
  <2>2. restarts # 0
    <3> SUFFICES ASSUME restarts = 0 PROVE FALSE
      OBVIOUS
    <3>1. started = 0 /\ o > started
      BY <1>2 DEF OpIds
    <3>2. ops[o].kind = "none" /\ OpShaped(ops[o])
      BY <3>1 DEF Held, ListInv, OpsShaped
    <3>3. QED
      BY <2>1, <3>2 DEF OpShaped
  <2>3. l # row.id
    BY <1>3, <2>2
  <2>4. ~Has(mem, l) /\ ~Has(db, l)
    BY <2>1 DEF Held, ListInv, Deleted
  <2>5. QED
    BY <1>1, <1>4, <1>5, <2>3, <2>4
<1>12. QED
  BY <1>6, <1>7, <1>8, <1>9, <1>10, <1>11 DEF ListInv

LEMMA RestartListed ==
    ASSUME Held, Restart
    PROVE  ListInv'
<1>1. /\ restarts' = restarts + 1 /\ mem' = <<>> /\ queue' = <<>> /\ replies' = <<>>
      /\ tasks' = [o \in OpIds |-> [l \in Loads |-> NoTask(l)]]
      /\ UNCHANGED <<started, db>>
  BY DEF Restart
<1>2. \A o \in OpIds : /\ ops'[o].kind = ops[o].kind /\ ops'[o].load = ops[o].load
                       /\ ops'[o].chosen = ops[o].chosen /\ ops'[o].todo = ops[o].todo
                       /\ \/ ops'[o].step = ops[o].step
                          \/ /\ ops[o].step \notin {"idle", "done", "aborted"}
                             /\ ops'[o].step =
                                   (IF ops[o].step \in {"read", "distances"}
                                    THEN "done" ELSE "aborted")
  <2>1. ops \in [OpIds -> Op]
    BY DEF Held, IInv, GoodOps
  <2>2. QED
    BY <2>1 DEF Restart, InFlight, Op
<1>3. DOMAIN Pipe' = {} /\ DOMAIN replies' = {}
  <2>1. Len(replies') = 0 /\ Len(queue') = 0
    BY <1>1, EmptySeq
  <2>2. QED
    BY <2>1 DEF Held, Before, PipeFacts, PipeSizes
<1>4. CallsLinked' /\ CallsApart' /\ Posting'
  BY <1>3 DEF CallsLinked, CallsApart, Posting
<1>5. \A o \in OpIds, l \in Loads : tasks'[o][l].step = "none"
  BY <1>1 DEF NoTask
<1>6. OpsShaped'
  <2> SUFFICES ASSUME NEW o \in OpIds
               PROVE  OpShaped(ops'[o]) /\ (o > started' <=> ops'[o].kind = "none")
    BY DEF OpsShaped
  <2>1. OpShaped(ops[o]) /\ (o > started <=> ops[o].kind = "none")
    BY DEF Held, ListInv, OpsShaped
  <2>2. QED
    BY <1>1, <1>2, <2>1 DEF OpShaped
<1>7. restarts' # 0
  BY <1>1 DEF Held, IInv, GoodRest
<1>8. TasksLinked' /\ BootsAlone'
  BY <1>1, <1>5, <1>7 DEF TasksLinked, BootsAlone
<1>9. Unique'
  BY <1>1, <1>3, EmptyIds DEF Unique, Held, ListInv
<1>10. ReadOnce' /\ Deleting'
  BY <1>3 DEF ReadOnce, Deleting
<1>11. Deleted'
  <2> SUFFICES ASSUME NEW o \in OpIds, NEW l \in Gone(o)', l # EmptyId,
                      \A i \in DOMAIN Seeds : Seeds[i] # l
               PROVE  ~Has(mem', l) /\ ~Has(db', l)
    BY <1>3, <1>7 DEF Deleted
  <2>1. OpShaped(ops[o])
    BY DEF Held, ListInv, OpsShaped
  <2>2. l \in ops[o].chosen
    BY <1>2 DEF Gone
  <2>3. ops[o].step \in {"delete", "done", "aborted"}
    BY <2>1, <2>2 DEF OpShaped
  <2>4. ops'[o].step = "done" => ops[o].step = "done"
    BY <1>2, <2>3
  <2>5. l \in Gone(o)
    BY <1>2, <2>4 DEF Gone
  <2>6. ~Has(db, l)
    BY <2>5 DEF Held, ListInv, Deleted
  <2>7. QED
    BY <1>1, <2>6, EmptyIds
<1>12. QED
  BY <1>4, <1>6, <1>8, <1>9, <1>10, <1>11 DEF ListInv

-----------------------------------------------------------------------------
(* The invariant. *)

LEMMA ListInit == Init => ListInv
<1> SUFFICES ASSUME Init PROVE ListInv
  OBVIOUS
<1>1. /\ mem = <<>> /\ started = 0 /\ queue = <<>> /\ replies = <<>> /\ db \in LeftBehind
      /\ tasks = [o \in OpIds |-> [l \in Loads |-> NoTask(l)]]
      /\ ops = [o \in OpIds |-> NoOp]
  BY DEF Init
<1>2. NoOp.kind = "none" /\ NoOp.step = "idle" /\ NoOp.chosen = {}
  BY DEF NoOp
<1>3. DOMAIN Pipe = {} /\ DOMAIN replies = {}
  BY <1>1, EmptySeq DEF Pipe
<1>4. CallsLinked /\ CallsApart /\ Posting /\ ReadOnce /\ Deleting
  BY <1>3 DEF CallsLinked, CallsApart, Posting, ReadOnce, Deleting
<1>5. \A o \in OpIds, l \in Loads : tasks[o][l].step = "none"
  BY <1>1 DEF NoTask
<1>6. TasksLinked /\ BootsAlone
  BY <1>1, <1>5 DEF TasksLinked, BootsAlone
<1>7. OpsShaped
  BY <1>1, <1>2 DEF OpsShaped, OpShaped, OpIds
<1>8. Unique
  BY <1>1, <1>3, EmptyIds, LeftBehindAssumption DEF Unique, UniqueAt
<1>9. Deleted
  BY <1>1, <1>2 DEF Deleted, Gone
<1>10. QED
  BY <1>4, <1>6, <1>7, <1>8, <1>9 DEF ListInv

LEMMA ListNext ==
    ASSUME IInv, IInv', ListInv, [Next]_vars
    PROVE  ListInv'
<1> USE HeldReady
<1>1. CASE InsertTestLoad
  BY <1>1, InsertTestLoadListed
<1>2. CASE DbExecute \/ DbFail
  BY <1>2, DatabaseListed
<1>3. CASE (\E u \in Users : Login(u)) \/ LoginAnswered
  BY <1>3, LoginListed, LoginAnsweredListed
<1>4. CASE Refresh \/ LoadsRead
  BY <1>4, RefreshListed, LoadsReadListed
<1>5. CASE \/ \E o \in OpIds, l \in Loads : RouteFound(o, l) \/ RouteMissing(o, l)
           \/ DistanceSaved
  BY <1>5, RouteFoundListed, RouteMissingListed, DistanceSavedListed
<1>6. CASE \/ \E l \in Loads : OpenDetails(l) \/ PostLoad(l) \/ PostReturn(l)
           \/ LoadInserted
  BY <1>6, OpenDetailsListed, PostLoadListed, PostReturnListed, LoadInsertedListed
<1>7. CASE (\E chosen \in SUBSET Loads \ {{}} : DeleteLoads(chosen)) \/ LoadDeleted
  BY <1>7, DeleteLoadsListed, LoadDeletedListed
<1>8. CASE \/ \E l \in Loads : PlaceBid(l) \/ BidByName(l)
           \/ \E l \in Loads, b \in Bidders, v \in {"accepted", "rejected", "countered"} :
                  Respond(l, b, v)
           \/ BidsWritten
  BY <1>8, AddBidListed, RespondListed, BidsWrittenListed DEF PlaceBid, BidByName
<1>9. CASE \/ \E l \in Loads, kind \in {"confirm", "decline"} : OpenDialog(l, kind)
           \/ \E o \in OpIds : CancelDialog(o) \/ Submit(o)
           \/ LoadWritten
  BY <1>9, OpenDialogListed, CancelDialogListed, SubmitListed, LoadWrittenListed
<1>10. CASE Restart
  BY <1>10, RestartListed
<1>11. CASE Logout \/ UNCHANGED vars
  <2>1. UNCHANGED <<mem, tasks, ops, started, boot, db, queue, replies, restarts>>
    BY <1>11 DEF Logout, vars, memory
  <2>2. QED
    BY <2>1, NothingMoves DEF Held
<1>12. QED
  BY <1>1, <1>2, <1>3, <1>4, <1>5, <1>6, <1>7, <1>8, <1>9, <1>10, <1>11
     DEF Next, Users

LEMMA ListInvariant == Spec => [](IInv /\ ListInv)
<1>1. Init => IInv /\ ListInv
  BY InitHolds, ListInit
<1>2. IInv /\ ListInv /\ [Next]_vars => IInv' /\ ListInv'
  BY NextKeeps, ListNext
<1>3. QED
  BY <1>1, <1>2, PTL DEF Spec

-----------------------------------------------------------------------------
(* A load is on the board once, although addLoad inserts it, lets other    *)
(* handlers fetch the row and then adds the load itself: the database      *)
(* executes the calls in the order they were made and answers in that      *)
(* order, so a fetch that reads the new row replaces the list after        *)
(* addLoad has gone on.                                                    *)
THEOREM BoardShowsLoadOnce == Spec => []NoDuplicateLoads
<1>1. IInv /\ ListInv => NoDuplicateLoads
  <2> SUFFICES ASSUME IInv, ListInv, NEW i \in DOMAIN mem, NEW j \in DOMAIN mem,
                      mem[i].id = mem[j].id, mem[i].id # EmptyId
               PROVE  i = j
    BY DEF NoDuplicateLoads
  <2>1. mem[i] \in GoodPost
    BY LenProperties, ElementOfSeq DEF IInv, GoodMem
  <2>2. mem[i].id \in Loads
    BY <2>1 DEF GoodPost, Post
  <2>3. QED
    BY <2>2 DEF ListInv, Unique, UniqueAt
<1>2. QED
  BY ListInvariant, <1>1, PTL

(* A load whose deleteLoad has returned is off the board and stays off it: *)
(* no answer of a fetch that was executed before the deletion is still on  *)
(* its way then, and no insert of the load is.  After a kill main() may    *)
(* insert a test load again; any other load stays off then too.            *)
THEOREM DeletedStaysOff == Spec => []NoGhostLoads
<1>1. ListInv => NoGhostLoads
  BY DEF ListInv, Deleted, NoGhostLoads
<1>2. QED
  BY ListInvariant, <1>1, PTL
=============================================================================
