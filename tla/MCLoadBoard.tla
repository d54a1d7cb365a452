---------------------------- MODULE MCLoadBoard ----------------------------
(* Instances of LoadBoard for TLC. *)
EXTENDS LoadBoard, TLC

CONSTANTS l1, l2, blank, c1, c2, n1

(* A row an earlier session left: posted by the broker, with these bids. *)
Left(l, bidders) ==
    [FreshRow(l) EXCEPT !.bids =
        [b \in Bidders |-> IF b \in bidders THEN "pending" ELSE "none"]]

(* Each carrier is called by his id, or by a name of his own. *)
IdAsName == [c \in Carriers |-> c]
OwnName == [c \in Carriers |-> n1]

NoSeeds == <<>>
OneSeed == <<l1>>

AllButtons == Kinds \ {"none"}
NegotiationButtons == {"login", "bid", "respond", "confirm", "decline"}
AnswerButtons == {"login", "refresh", "respond", "confirm", "decline"}
ListButtons == {"login", "refresh", "post", "delete", "bid"}
ListAndAnswerButtons == ListButtons \cup AnswerButtons

Empty == {<<>>}
OneBidOn == {<<Left(l1, {c1})>>}
TwoBidsOn == {<<Left(l1, {c1, c2})>>}
(* A return load whose new carrier was chosen in an earlier session. *)
AwaitedReturn ==
    {<<[Left(blank, {}) EXCEPT !.status = "awaiting", !.selected = c1,
           !.brokerOk = TRUE, !.bids = [NoBids EXCEPT ![c1] = "accepted"]]>>}
TwoBidsOrTwoLoads == {<<Left(l1, {c1, c2})>>, <<Left(l2, {}), Left(l1, {})>>}

(* Carriers who bid on the same loads and are called by their ids can be   *)
(* exchanged: no definition of LoadBoard tells them apart.                 *)
TheCarriers == Permutations({c1, c2})

(* What BoardOverlap.cfg explores: sessions that post, delete and bid with  *)
(* all its handlers in flight, and sessions that answer the bids of one     *)
(* load with two of them in flight; none that does both.                    *)
KindsUsed == {ops[o].kind : o \in OpIds} \ {"none"}

PostOrAnswer ==
    /\ \/ KindsUsed \subseteq ListButtons
       \/ KindsUsed \subseteq AnswerButtons /\ Len(db) = 1
    /\ Cardinality(InFlight) = 3 => KindsUsed \cap {"post", "delete", "bid"} # {}
=============================================================================
