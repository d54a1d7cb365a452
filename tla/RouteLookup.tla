----------------------------- MODULE RouteLookup -----------------------------
(***************************************************************************)
(* The distance of a load: LoadProvider.calculateDistance geocodes the two *)
(* addresses that have no coordinates yet and asks DistanceService for the *)
(* route, which tries three times and then estimates.  The details screen  *)
(* starts a lookup in every build, so several lookups of one load and of   *)
(* one LoadPost overlap.  Every request has a timeout; its answer comes    *)
(* before, or it is never seen: the future its timeout has completed takes *)
(* no other value.  A return load swaps the ends of the load it copies.    *)
(***************************************************************************)
EXTENDS Integers, Sequences

CONSTANTS
  Lookups,      \* bound: calls of calculateDistance
  Loads,
  Posts,        \* LoadPost objects
  LoadOf,       \* the load an object is of
  Addresses,
  Address,      \* the two addresses of a load
  Blank,        \* the empty address
  Stored,       \* the places in the table at the start
  Original,     \* for each return load, the load it is the return of
  GeocodeTime, RouteTime, PauseTime,   \* the delays, in ticks
  MaxRetries,   \* DistanceService._maxRetries
  Nowhere       \* no coordinates

ASSUME LoadOfAssumption == LoadOf \in [Posts -> Loads]
ASSUME PostsAssumption == Posts # {}
ASSUME TimesAssumption == GeocodeTime \in Nat /\ RouteTime \in Nat /\ PauseTime \in Nat
ASSUME RetriesAssumption == MaxRetries \in Nat \ {0}

ASSUME AddressAssumption ==
  Address \in [Loads -> [origin : Addresses, destination : Addresses]]

VARIABLES
  table,   \* the loads in the table
  posts,   \* the objects
  rows,    \* table loads
  cache,   \* LoadProvider._distanceCache
  calls,   \* the lookups
  writes   \* updates of rows not yet executed

vars == <<table, posts, rows, cache, calls, writes>>

-----------------------------------------------------------------------------

Ends == {"origin", "destination"}

(* A point is known by the address the geocoder finds there, the same each *)
(* time it is asked.                                                       *)
ASSUME NowhereAssumption == Nowhere \notin Addresses

MaybePoint == Addresses \cup {Nowhere}

(* A route, the service's estimate, calculateDistance's own and a failure. *)
Texts == {"measured", "estimate", "rough", "not found"}

Place == [origin : MaybePoint, destination : MaybePoint,
          distance : {"none", "measured", "estimate"}]

(* Where a lookup is, its local variables, the time left until the timer   *)
(* it waits for, the time since its start and the failed attempts so far.  *)
Lookup == [step : Ends \cup {"idle", "route", "pause", "save", "done"},
           post : Posts, from : MaybePoint, to : MaybePoint,
           attempt : 0 .. MaxRetries, failed : Nat, timer : Nat, age : Nat,
           text : Texts \cup {"none"}]

Write == [lookup : Lookups, load : Loads, place : Place]

Waiting(c) == c.step \in Ends \cup {"route", "pause"}

(* Each end at its own point or nowhere yet, or both at one point of the   *)
(* two: what a return load is given while only one end has been found.     *)
OwnEnds(l, place) ==
  /\ place.origin \in {Address[l].origin, Nowhere}
  /\ place.destination \in {Address[l].destination, Nowhere}

OnePoint(l, place) ==
  /\ place.origin = place.destination
  /\ place.origin \in {Address[l].origin, Address[l].destination}

Sound(l, place) == OwnEnds(l, place) \/ OnePoint(l, place)

(* The rows at the start were written by this program too.                 *)
ASSUME StoredAssumption ==
  /\ Stored \in [Loads -> Place]
  /\ \A l \in Loads : Sound(l, Stored[l]) /\ Stored[l].distance = "none"

Returns == DOMAIN Original

ASSUME OriginalAssumption ==
  /\ Original \in [Returns -> Loads]
  /\ Returns \subseteq Loads
  /\ \A r \in Returns : /\ Address[r].origin = Address[Original[r]].destination
                       /\ Address[r].destination = Address[Original[r]].origin

TypeOK ==
  /\ table \subseteq Loads
  /\ posts \in [Posts -> Place]
  /\ rows \in [Loads -> Place]
  /\ cache \in [Loads -> Texts \cup {"none"}]
  /\ calls \in [Lookups -> Lookup]
  /\ writes \in Seq(Write)

Idle == [step |-> "idle", post |-> CHOOSE p \in Posts : TRUE, from |-> Nowhere, to |-> Nowhere,
         attempt |-> 0, failed |-> 0, timer |-> 0, age |-> 0, text |-> "none"]

Init ==
  /\ table = Loads \ Returns
  /\ rows = Stored
  /\ posts = [p \in Posts |-> rows[LoadOf[p]]]
  /\ cache = [l \in Loads |-> "none"]
  /\ calls = [i \in Lookups |-> Idle]
  /\ writes = << >>

-----------------------------------------------------------------------------
(* Steps of a lookup *)

LoadOfCall(c) == LoadOf[c.post]

Ended(c, text) == [c EXCEPT !.step = "done", !.text = text, !.timer = 0, !.age = 0]

Asks(c, end) == [c EXCEPT !.step = end, !.timer = GeocodeTime]

(* Variant: the loop does not count. *)
TriesUncounted(c) == [c EXCEPT !.step = "route", !.timer = RouteTime]

Tries(c) == [c EXCEPT !.step = "route", !.timer = RouteTime, !.attempt = @ + 1]

Becomes(i, c) == calls' = [calls EXCEPT ![i] = c]

(* Variant: the lookup ends without an entry in the cache. *)
DirectionsUncached(i, c) ==
  /\ Becomes(i, IF Nowhere \in {c.from, c.to} THEN Ended(c, "not found") ELSE Tries(c))
  /\ UNCHANGED cache

(* Both ends are settled: the first attempt, unless one was not found. *)
Directions(i, c) ==
  IF Nowhere \in {c.from, c.to}
  THEN /\ Becomes(i, Ended(c, "not found"))
       /\ cache' = [cache EXCEPT ![LoadOfCall(c)] = "not found"]
  ELSE /\ Becomes(i, Tries(c))
       /\ UNCHANGED cache

(* The origin is settled, found or not; the object is read again here. *)
Destination(i, c, place) ==
  \/ /\ place.destination # Nowhere
     /\ Directions(i, [c EXCEPT !.to = place.destination])
  \/ /\ place.destination = Nowhere
     /\ Address[LoadOfCall(c)].destination = Blank
     /\ Becomes(i, Ended(c, "none"))
     /\ UNCHANGED cache
  \/ /\ place.destination = Nowhere
     /\ Address[LoadOfCall(c)].destination # Blank
     /\ Becomes(i, Asks(c, "destination"))
     /\ UNCHANGED cache

Start(i, p) ==
  /\ calls[i].step = "idle"
  /\ LoadOf[p] \in table
  /\ cache[LoadOf[p]] = "none"
  /\ LET c == [calls[i] EXCEPT !.post = p] IN
       \/ /\ posts[p].origin # Nowhere
          /\ Destination(i, [c EXCEPT !.from = posts[p].origin], posts[p])
       \/ /\ posts[p].origin = Nowhere
          /\ Address[LoadOf[p]].origin = Blank
          /\ Becomes(i, Ended(c, "none"))
          /\ UNCHANGED cache
       \/ /\ posts[p].origin = Nowhere
          /\ Address[LoadOf[p]].origin # Blank
          /\ Becomes(i, Asks(c, "origin"))
          /\ UNCHANGED cache
  /\ UNCHANGED <<table, posts, rows, writes>>

(* Variant: the object is not given the point. *)
NotedNot(place, end, point) == place

(* What _getLatLng returns goes into the object too, if it is a point. *)
Noted(place, end, point) == IF point = Nowhere THEN place ELSE [place EXCEPT ![end] = point]

OriginIs(i, point) ==
  LET c == [calls[i] EXCEPT !.from = point]
      place == Noted(posts[c.post], "origin", point)
  IN  /\ c.step = "origin"
      /\ posts' = [posts EXCEPT ![c.post] = place]
      /\ Destination(i, c, place)
      /\ UNCHANGED <<table, rows, writes>>

DestinationIs(i, point) ==
  LET c == [calls[i] EXCEPT !.to = point]
  IN  /\ c.step = "destination"
      /\ posts' = [posts EXCEPT ![c.post] = Noted(@, "destination", point)]
      /\ Directions(i, c)
      /\ UNCHANGED <<table, rows, writes>>

(* The geocoder finds the address, or an error of any kind becomes null. *)
Geocoded(i) ==
  LET l == LoadOfCall(calls[i]) IN
    \/ \E point \in {Address[l].origin, Nowhere} : OriginIs(i, point)
    \/ \E point \in {Address[l].destination, Nowhere} : DestinationIs(i, point)

(* Variant: the second request has no timeout. *)
GeocodingTimedOutOnce(i) == calls[i].timer = 0 /\ OriginIs(i, Nowhere)

GeocodingTimedOut(i) ==
  /\ calls[i].timer = 0
  /\ OriginIs(i, Nowhere) \/ DestinationIs(i, Nowhere)

-----------------------------------------------------------------------------
(* DistanceService.getRoute *)

(* copyWith: the distance of the copy is the parameter, which updateLoad's *)
(* caller leaves out, or that of the new object, which has none.           *)
Copied(place) == [place EXCEPT !.distance = "none"]

(* The text is cached and noted in the object, of which a copy is written. *)
Publish(i, c, text) ==
  /\ cache' = [cache EXCEPT ![LoadOfCall(c)] = text]
  /\ posts' = [posts EXCEPT ![c.post].distance = text]
  /\ writes' = Append(writes, [lookup |-> i, load |-> LoadOfCall(c),
                               place |-> Copied(posts[c.post])])
  /\ Becomes(i, [Ended(c, text) EXCEPT !.step = "save"])
  /\ UNCHANGED <<table, rows>>

RouteAnswered(i) ==
  /\ calls[i].step = "route"
  /\ Publish(i, calls[i], "measured")

(* Variant: a fourth attempt. *)
RetriesOnce(c) == c.attempt <= MaxRetries

(* Variant: the last attempt is not made. *)
RetriesButLast(c) == c.attempt + 1 < MaxRetries

(* attempt < _maxRetries *)
Retries(c) == c.attempt < MaxRetries

(* An exception, at the third attempt without the pause. *)
AttemptFailed(i) ==
  LET c == [calls[i] EXCEPT !.failed = @ + 1] IN
    /\ c.step = "route"
    /\ IF Retries(c)
       THEN /\ Becomes(i, [c EXCEPT !.step = "pause", !.timer = PauseTime])
            /\ UNCHANGED <<table, posts, rows, cache, writes>>
       ELSE Publish(i, c, "estimate")

RouteRefused(i) == AttemptFailed(i)

RouteTimedOut(i) == calls[i].timer = 0 /\ AttemptFailed(i)

PauseOver(i) ==
  /\ calls[i].step = "pause"
  /\ calls[i].timer = 0
  /\ Becomes(i, Tries(calls[i]))
  /\ UNCHANGED <<table, posts, rows, cache, writes>>

(* A distance that is no text: calculateDistance catches the type error    *)
(* and caches an estimate of its own, which it does not write.             *)
RouteUnusable(i) ==
  /\ calls[i].step = "route"
  /\ cache' = [cache EXCEPT ![LoadOfCall(calls[i])] = "rough"]
  /\ Becomes(i, Ended(calls[i], "rough"))
  /\ UNCHANGED <<table, posts, rows, writes>>

-----------------------------------------------------------------------------
(* Around the lookups *)

(* updateLoad rewrites the row with the copy; its failure is swallowed. *)
DbWrite ==
  /\ writes # << >>
  /\ LET w == Head(writes) IN
       /\ \/ rows' = [rows EXCEPT ![w.load] = w.place]
          \/ UNCHANGED rows
       /\ Becomes(w.lookup, [calls[w.lookup] EXCEPT !.step = "done"])
  /\ writes' = Tail(writes)
  /\ UNCHANGED <<table, posts, cache>>

(* fetchLoads makes a new object of the row; p is free when no lookup      *)
(* holds it.                                                               *)
Refetch(p) ==
  /\ LoadOf[p] \in table
  /\ \A i \in Lookups : calls[i].post = p => ~Waiting(calls[i])
  /\ posts' = [posts EXCEPT ![p] = rows[LoadOf[p]]]
  /\ UNCHANGED <<table, rows, cache, calls, writes>>

(* Variant: the copy keeps the coordinates where they are. *)
SwappedNot(place) == Copied(place)

(* copyWith takes an end that has no coordinates for one to be kept. *)
Swapped(place) ==
  [origin |-> IF place.destination # Nowhere THEN place.destination ELSE place.origin,
   destination |-> IF place.origin # Nowhere THEN place.origin ELSE place.destination,
   distance |-> "none"]

(* The Return Load button: a copy of the object with its ends swapped is   *)
(* inserted.  (That all return loads have the id '', and the second takes  *)
(* the place of the first, is LoadBoard's.)                                *)
PostReturn(r, p) ==
  /\ r \in Returns \ table
  /\ LoadOf[p] = Original[r]
  /\ LoadOf[p] \in table
  /\ table' = table \cup {r}
  /\ rows' = [rows EXCEPT ![r] = Swapped(posts[p])]
  /\ posts' = [q \in Posts |-> IF LoadOf[q] = r THEN Swapped(posts[p]) ELSE posts[q]]
  /\ UNCHANGED <<cache, calls, writes>>

(* Time passes while no timer is due. *)
Tick ==
  /\ \E i \in Lookups : Waiting(calls[i])
  /\ \A i \in Lookups : Waiting(calls[i]) => calls[i].timer > 0
  /\ calls' = [i \in Lookups |-> IF Waiting(calls[i])
                                 THEN [calls[i] EXCEPT !.timer = @ - 1, !.age = @ + 1]
                                 ELSE calls[i]]
  /\ UNCHANGED <<table, posts, rows, cache, writes>>

Expires(i) == GeocodingTimedOut(i) \/ RouteTimedOut(i) \/ PauseOver(i)

Next ==
  \/ \E i \in Lookups :
       \/ \E p \in Posts : Start(i, p)
       \/ Geocoded(i) \/ GeocodingTimedOut(i)
       \/ RouteAnswered(i) \/ RouteRefused(i) \/ RouteTimedOut(i) \/ PauseOver(i)
       \/ RouteUnusable(i)
  \/ DbWrite
  \/ \E r \in Returns, p \in Posts : PostReturn(r, p)
  \/ \E p \in Posts : Refetch(p)
  \/ Tick

Spec == Init /\ [][Next]_vars

(* The network may stay silent: only the timers and the database are fair. *)
FairSpec ==
  /\ Spec
  /\ \A i \in Lookups : WF_vars(Expires(i))
  /\ WF_vars(Tick)
  /\ WF_vars(DbWrite)

-----------------------------------------------------------------------------
(* Properties *)

(* Two addresses, three attempts and the two pauses between them. *)
Deadline == 2 * GeocodeTime + MaxRetries * RouteTime + (MaxRetries - 1) * PauseTime

(* No lookup keeps its spinner longer than that, the write of the row      *)
(* apart, whatever answers, errors and timeouts follow each other          *)
(* (getRoute of distance_service.dart, _getLatLng of load_provider.dart).  *)
EndsInTime == \A i \in Lookups : Waiting(calls[i]) => calls[i].age <= Deadline

(* A lookup that reports an estimate has made all its attempts and each of *)
(* them failed: "fallback mechanisms" (distance_service.dart:14).          *)
EstimateIsLastResort ==
  \A i \in Lookups : calls[i].text = "estimate" => calls[i].failed = MaxRetries

(* Coordinates stay with their addresses, in every object and every row,   *)
(* while lookups fill them in, copies are written back and read again and  *)
(* return loads swap them (load_provider.dart:166 and 182, load_board's    *)
(* _createReturnLoadPosting).  The one exception: a return load posted     *)
(* before both ends were found has one point at both of its ends.          *)
CoordinatesSound ==
  /\ \A p \in Posts : LoadOf[p] \in table => Sound(LoadOf[p], posts[p])
  /\ \A l \in table : Sound(l, rows[l])

(* A row is written with the two points the route was asked between, both  *)
(* of them, though it is copied from the object, which other lookups fill  *)
(* in, and not from what its own lookup remembers (load_provider.dart:217).*)
WriteMatchesRoute ==
  \A k \in DOMAIN writes :
    LET w == writes[k]
        c == calls[w.lookup]
    IN  w.place.origin = c.from /\ w.place.destination = c.to /\ Nowhere \notin {c.from, c.to}

(* "Update load in database with new coordinates and distance"             *)
(* (load_provider.dart:215): the row has the distance of its route.        *)
WriteHasDistance == \A k \in DOMAIN writes : writes[k].place.distance # "none"

Unaddressed == {l \in Loads : Blank \in {Address[l].origin, Address[l].destination}}

Abstract == INSTANCE DistanceLookup WITH
  stage <- [i \in Lookups |-> IF Waiting(calls[i]) THEN "route" ELSE calls[i].step],
  subject <- [i \in Lookups |-> LoadOfCall(calls[i])],
  cached <- {l \in Loads : cache[l] # "none"}

(* calculateDistance is what LoadBoard takes it for. *)
RefinesLookup == Abstract!Spec

(* And it ends, by its timers alone. *)
LookupsEnd == Abstract!LookupsEnd
=============================================================================
