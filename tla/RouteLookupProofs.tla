------------------------- MODULE RouteLookupProofs -------------------------
(***************************************************************************)
(* Theorems about RouteLookup for any lookups, objects, delays and number  *)
(* of attempts.  The age of a lookup is bounded through what it may still  *)
(* spend: its age and the rest of its timer together stay below a budget   *)
(* that grows with every question and every attempt.                       *)
(***************************************************************************)
EXTENDS RouteLookup, SequenceTheorems, TLAPS

(* What may be spent until the end of attempt a, and of the pause after it. *)
RouteBudget(a) == 2 * GeocodeTime + a * RouteTime + (a - 1) * PauseTime

PauseBudget(a) == 2 * GeocodeTime + a * RouteTime + a * PauseTime

PlaceOK(l, place) == place \in Place /\ Sound(l, place)

(* The points a lookup remembers are those of its object.                  *)
SamePoints(c, place) ==
  /\ c.from # Nowhere => place.origin = c.from
  /\ c.to # Nowhere => place.destination = c.to

(* A call and the object it holds. *)
CallOK(c, place) ==
  /\ c.step = "idle" => c.age = 0 /\ c.from = Nowhere /\ c.to = Nowhere
  /\ c.step \in {"idle", "origin", "destination"} => c.attempt = 0 /\ c.failed = 0
  /\ Waiting(c) => SamePoints(c, place)
  /\ c.step \in {"origin", "destination"} => OwnEnds(LoadOf[c.post], place) /\ c.to = Nowhere
  /\ c.step = "origin" => c.age + c.timer <= GeocodeTime
  /\ c.step = "destination" => c.age + c.timer <= 2 * GeocodeTime
  /\ c.step \in {"route", "pause"} => c.from # Nowhere /\ c.to # Nowhere
  /\ c.step = "route" => c.attempt = c.failed + 1 /\ c.age + c.timer <= RouteBudget(c.attempt)
  /\ c.step = "pause" =>
       /\ c.attempt = c.failed
       /\ c.attempt < MaxRetries
       /\ c.age + c.timer <= PauseBudget(c.attempt)
  /\ c.step \in {"idle", "origin", "destination", "route", "pause"} => c.text = "none"
  /\ c.text = "estimate" => c.failed = MaxRetries

CallsInv ==
  \A i \in Lookups : /\ CallOK(calls[i], posts[calls[i].post])
                     /\ Waiting(calls[i]) => LoadOf[calls[i].post] \in table

PlacesInv ==
  /\ \A p \in Posts : PlaceOK(LoadOf[p], posts[p])
  /\ \A l \in Loads : PlaceOK(l, rows[l])

(* A row to be written and the lookup that writes it. *)
WriteOK(w, c) ==
  /\ PlaceOK(w.load, w.place)
  /\ c.step \in {"save", "done"}
  /\ w.place.origin = c.from /\ w.place.destination = c.to
  /\ c.from # Nowhere /\ c.to # Nowhere

WritesInv == \A k \in 1 .. Len(writes) : WriteOK(writes[k], calls[writes[k].lookup])

IInv ==
  /\ TypeOK
  /\ CallsInv
  /\ PlacesInv
  /\ WritesInv

USE LoadOfAssumption, PostsAssumption

-----------------------------------------------------------------------------
(* Numbers and sequences *)

(* The budget grows by a pause, then by an attempt, and ends at the deadline. *)
LEMMA Budgets ==
  ASSUME NEW a \in 0 .. MaxRetries
  PROVE  /\ RouteBudget(a) \in Int /\ PauseBudget(a) \in Int /\ Deadline \in Int
         /\ PauseBudget(a) = RouteBudget(a) + PauseTime
         /\ RouteBudget(a + 1) = PauseBudget(a) + RouteTime
         /\ PauseBudget(0) = 2 * GeocodeTime
         /\ RouteBudget(a) <= Deadline
         /\ a < MaxRetries => PauseBudget(a) <= Deadline
         /\ 2 * GeocodeTime <= Deadline
<1> USE TimesAssumption, RetriesAssumption
<1>1. a \in Nat /\ MaxRetries - a \in Nat /\ MaxRetries - 1 \in Nat
  OBVIOUS
<1>2. /\ a * RouteTime \in Nat /\ a * PauseTime \in Nat /\ MaxRetries * RouteTime \in Nat
      /\ (MaxRetries - 1) * PauseTime \in Nat /\ (MaxRetries - a) * RouteTime \in Nat
      /\ (MaxRetries - a) * PauseTime \in Nat
  BY <1>1
<1>3. /\ MaxRetries * RouteTime = a * RouteTime + (MaxRetries - a) * RouteTime
      /\ MaxRetries * PauseTime = a * PauseTime + (MaxRetries - a) * PauseTime
      /\ (a - 1) * PauseTime = a * PauseTime - PauseTime
      /\ (a + 1) * RouteTime = a * RouteTime + RouteTime
      /\ (a + 1) - 1 = a
      /\ (MaxRetries - 1) * PauseTime = MaxRetries * PauseTime - PauseTime
  BY <1>1
<1>4. a < MaxRetries => (MaxRetries - a) * PauseTime >= PauseTime
  <2> SUFFICES ASSUME a < MaxRetries PROVE (MaxRetries - a) * PauseTime >= PauseTime
    OBVIOUS
  <2>1. MaxRetries - a - 1 \in Nat
    OBVIOUS
  <2>2. (MaxRetries - a - 1) * PauseTime \in Nat
    BY <2>1
  <2>3. (MaxRetries - a) * PauseTime = (MaxRetries - a - 1) * PauseTime + PauseTime
    OBVIOUS
  <2> QED  BY <2>2, <2>3
<1> QED  BY <1>1, <1>2, <1>3, <1>4 DEF RouteBudget, PauseBudget, Deadline

(* What is written after one more, and after the first has gone. *)
LEMMA Appended ==
  ASSUME NEW S, NEW s \in Seq(S), NEW e \in S
  PROVE  /\ Append(s, e) \in Seq(S)
         /\ Len(Append(s, e)) = Len(s) + 1
         /\ \A k \in 1 .. Len(s) + 1 : Append(s, e)[k] = IF k = Len(s) + 1 THEN e ELSE s[k]
BY AppendProperties

LEMMA Rest ==
  ASSUME NEW S, NEW s \in Seq(S), s # << >>
  PROVE  /\ Tail(s) \in Seq(S)
         /\ Len(Tail(s)) = Len(s) - 1
         /\ \A k \in 1 .. Len(s) - 1 : Tail(s)[k] = s[k + 1] /\ k + 1 \in 1 .. Len(s)
         /\ Head(s) = s[1]
         /\ Head(s) \in S
         /\ 1 \in 1 .. Len(s)
<1>1. Len(s) \in Nat /\ Len(s) # 0
  BY EmptySeq
<1>2. 1 \in 1 .. Len(s) /\ Head(s) = s[1] /\ Head(s) \in S
  BY <1>1
<1>3. Tail(s) \in Seq(S) /\ Len(Tail(s)) = Len(s) - 1
  BY HeadTailProperties
<1>4. \A k \in 1 .. Len(s) - 1 : Tail(s)[k] = s[k + 1] /\ k + 1 \in 1 .. Len(s)
  BY <1>1, <1>3, HeadTailProperties
<1> QED  BY <1>2, <1>3, <1>4

-----------------------------------------------------------------------------
(* One lookup goes on *)

(* A lookup that has made no attempt yet, with the ends it knows. *)
Settling(c, place) ==
  /\ c \in Lookup
  /\ c.attempt = 0 /\ c.failed = 0 /\ c.text = "none"
  /\ SamePoints(c, place)

(* With both ends it asks for the route, without one it is over. *)
LEMMA DirectionsGive ==
  ASSUME NEW i \in Lookups, NEW c, NEW place \in Place, Settling(c, place),
         c.age <= 2 * GeocodeTime, Directions(i, c)
  PROVE  \E d \in Lookup :
           /\ calls' = [calls EXCEPT ![i] = d]
           /\ d.post = c.post /\ CallOK(d, place)
           /\ \/ d.step = "route" /\ cache' = cache
              \/ /\ d.step = "done" /\ cache' = [cache EXCEPT ![LoadOf[c.post]] = "not found"]
                 /\ Nowhere \in {c.from, c.to}
<1> USE TimesAssumption, RetriesAssumption
<1>1. CASE Nowhere \in {c.from, c.to}
  <2> DEFINE d == Ended(c, "not found")
  <2>1. d \in Lookup /\ d.post = c.post /\ d.step = "done" /\ d.text = "not found"
        /\ d.from = c.from /\ d.to = c.to
    BY DEF Settling, Ended, Lookup, Texts
  <2>2. CallOK(d, place)
    <3> HIDE DEF d
    <3> QED  BY <2>1 DEF CallOK, Waiting, Ends
  <2>3. calls' = [calls EXCEPT ![i] = d] /\ cache' = [cache EXCEPT ![LoadOf[c.post]] = "not found"]
    BY <1>1 DEF Directions, Becomes, LoadOfCall
  <2> HIDE DEF d
  <2> QED  BY <1>1, <2>1, <2>2, <2>3
<1>2. CASE Nowhere \notin {c.from, c.to}
  <2> DEFINE d == Tries(c)
  <2>1. 1 \in 0 .. MaxRetries /\ c \in Lookup /\ c.attempt = 0 /\ c.failed = 0 /\ c.text = "none"
    BY DEF Settling
  <2>0. d = [c EXCEPT !.step = "route", !.timer = RouteTime, !.attempt = 1]
    BY <2>1 DEF Tries
  <2>2. /\ d \in Lookup /\ d.post = c.post /\ d.step = "route" /\ d.text = "none"
        /\ d.from = c.from /\ d.to = c.to
        /\ d.attempt = 1 /\ d.failed = 0 /\ d.timer = RouteTime /\ d.age = c.age
    <3> HIDE DEF d
    <3> QED  BY <2>0, <2>1 DEF Lookup
  <2>3. RouteBudget(1) = 2 * GeocodeTime + RouteTime
    <3>1. 0 \in 0 .. MaxRetries /\ 0 + 1 = 1
      OBVIOUS
    <3> QED  BY <3>1, Budgets
  <2>4. c.age \in Nat
    BY DEF Settling, Lookup
  <2>5. d.age + d.timer <= RouteBudget(d.attempt)
    BY <2>2, <2>3, <2>4
  <2>6. CallOK(d, place)
    <3> HIDE DEF d
    <3> QED  BY <1>2, <2>2, <2>5 DEF CallOK, Settling, SamePoints, Waiting, Ends
  <2>7. calls' = [calls EXCEPT ![i] = d] /\ cache' = cache
    BY <1>2 DEF Directions, Becomes
  <2> HIDE DEF d
  <2> QED  BY <2>2, <2>6, <2>7
<1> QED  BY <1>1, <1>2

(* A place with an end that is not found yet has its own ends. *)
LEMMA NotFoundOwn ==
  ASSUME NEW l \in Loads, NEW place, PlaceOK(l, place),
         place.origin = Nowhere \/ place.destination = Nowhere
  PROVE  OwnEnds(l, place)
BY AddressAssumption, NowhereAssumption DEF PlaceOK, Sound, OnePoint

(* What becomes of a lookup whose origin is settled. *)
LEMMA DestinationGives ==
  ASSUME NEW i \in Lookups, NEW c, NEW place, Settling(c, place), PlaceOK(LoadOf[c.post], place),
         c.to = Nowhere, c.age <= GeocodeTime, Destination(i, c, place)
  PROVE  \E d \in Lookup :
           /\ calls' = [calls EXCEPT ![i] = d]
           /\ d.post = c.post /\ CallOK(d, place)
           /\ \/ Waiting(d) /\ cache' = cache
              \/ /\ d.step = "done" /\ cache' = [cache EXCEPT ![LoadOf[c.post]] = "not found"]
                 /\ c.from = Nowhere
              \/ d.step = "done" /\ cache' = cache /\ LoadOf[c.post] \in Unaddressed
<1> USE TimesAssumption, RetriesAssumption
<1>0. /\ place \in Place /\ c \in Lookup /\ c.age \in Nat /\ LoadOf[c.post] \in Loads
  BY DEF PlaceOK, Settling, Lookup
<1>1. CASE place.destination # Nowhere /\ Directions(i, [c EXCEPT !.to = place.destination])
  <2> DEFINE e == [c EXCEPT !.to = place.destination]
  <2>1. e \in Lookup /\ e.post = c.post /\ e.from = c.from /\ e.to = place.destination /\ e.age = c.age
        /\ e.attempt = c.attempt /\ e.failed = c.failed /\ e.text = c.text
    BY <1>0 DEF Lookup, Place
  <2>2. Settling(e, place)
    <3> HIDE DEF e
    <3> QED  BY <1>1, <2>1 DEF Settling, SamePoints
  <2>3. e.age <= 2 * GeocodeTime
    BY <1>0, <2>1
  <2>4. Directions(i, e)
    BY <1>1
  <2> HIDE DEF e
  <2>5. PICK d \in Lookup :
           /\ calls' = [calls EXCEPT ![i] = d]
           /\ d.post = e.post /\ CallOK(d, place)
           /\ \/ d.step = "route" /\ cache' = cache
              \/ /\ d.step = "done" /\ cache' = [cache EXCEPT ![LoadOf[e.post]] = "not found"]
                 /\ Nowhere \in {e.from, e.to}
    BY <1>0, <2>2, <2>3, <2>4, DirectionsGive
  <2> QED  BY <1>1, <2>1, <2>5 DEF Waiting
<1>2. CASE /\ Address[LoadOfCall(c)].destination = Blank
           /\ Becomes(i, Ended(c, "none")) /\ UNCHANGED cache
  <2> DEFINE d == Ended(c, "none")
  <2>1. d \in Lookup /\ d.post = c.post /\ d.step = "done" /\ d.text = "none"
        /\ d.from = c.from /\ d.to = c.to
    BY <1>0 DEF Ended, Lookup, Texts
  <2>2. CallOK(d, place)
    <3> HIDE DEF d
    <3> QED  BY <2>1 DEF CallOK, Waiting, Ends
  <2>3. LoadOf[c.post] \in Unaddressed
    BY <1>0, <1>2 DEF Unaddressed, LoadOfCall, Lookup
  <2>4. calls' = [calls EXCEPT ![i] = d] /\ cache' = cache
    BY <1>2 DEF Becomes
  <2> HIDE DEF d
  <2> QED  BY <2>1, <2>2, <2>3, <2>4
<1>3. CASE place.destination = Nowhere /\ Becomes(i, Asks(c, "destination")) /\ UNCHANGED cache
  <2> DEFINE d == Asks(c, "destination")
  <2>1. d \in Lookup /\ d.post = c.post /\ d.step = "destination" /\ d.text = "none"
        /\ d.from = c.from /\ d.to = c.to /\ d.attempt = 0 /\ d.failed = 0
        /\ d.age = c.age /\ d.timer = GeocodeTime
    BY <1>0 DEF Asks, Lookup, Ends, Settling
  <2>2. d.age + d.timer <= 2 * GeocodeTime
    BY <1>0, <2>1
  <2>3. CallOK(d, place)
    <3> HIDE DEF d
    <3>1. OwnEnds(LoadOf[c.post], place)
      BY <1>0, <1>3, NotFoundOwn
    <3> QED  BY <2>1, <2>2, <3>1 DEF CallOK, Settling, SamePoints
  <2>4. calls' = [calls EXCEPT ![i] = d] /\ cache' = cache
    BY <1>3 DEF Becomes
  <2> HIDE DEF d
  <2> QED  BY <2>1, <2>3, <2>4 DEF Waiting, Ends
<1> QED  BY <1>1, <1>2, <1>3 DEF Destination

-----------------------------------------------------------------------------
(* What a step of one lookup does to everything *)

(* The objects keep the points they are given, and their own ends. *)
Keeps(l, old, new) ==
  /\ old.origin # Nowhere => new.origin = old.origin
  /\ old.destination # Nowhere => new.destination = old.destination
  /\ OwnEnds(l, old) => OwnEnds(l, new)

Filled ==
  /\ posts' \in [Posts -> Place]
  /\ \A p \in Posts : PlaceOK(LoadOf[p], posts'[p]) /\ Keeps(LoadOf[p], posts[p], posts'[p])

(* It starts, goes on, ends with a text or ends for want of an address. *)
Goes(c, d) ==
  \/ /\ c.step = "idle" /\ cache[LoadOf[d.post]] = "none" /\ cache' = cache
     /\ Waiting(d) \/ (d.step = "done" /\ LoadOf[d.post] \in Unaddressed)
  \/ Waiting(c) /\ Waiting(d) /\ d.post = c.post /\ cache' = cache
  \/ /\ Waiting(c) /\ d.step \in {"save", "done"} /\ d.post = c.post
     /\ \E text \in Texts : cache' = [cache EXCEPT ![LoadOf[d.post]] = text]
  \/ /\ Waiting(c) /\ d.step = "done" /\ d.post = c.post
     /\ cache' = cache /\ LoadOf[d.post] \in Unaddressed

Effect(i, d) ==
  /\ calls' = [calls EXCEPT ![i] = d]
  /\ CallOK(d, posts'[d.post])
  /\ Goes(calls[i], d)
  /\ \/ writes' = writes
     \/ /\ d.step = "save"
        /\ \E w \in Write : w.lookup = i /\ WriteOK(w, d) /\ writes' = Append(writes, w)
  /\ Filled
  /\ Waiting(d) => LoadOf[d.post] \in table
  /\ rows' = rows /\ table' = table

LEMMA NothingFilled ==
  ASSUME IInv, posts' = posts
  PROVE  Filled
BY DEF IInv, TypeOK, PlacesInv, Filled, Keeps

LEMMA OneFilled ==
  ASSUME IInv, NEW p \in Posts, NEW place \in Place, PlaceOK(LoadOf[p], place),
         posts' = [posts EXCEPT ![p] = place], Keeps(LoadOf[p], posts[p], place)
  PROVE  Filled /\ posts'[p] = place
BY DEF IInv, TypeOK, PlacesInv, Filled, Keeps

LEMMA CallFacts ==
  ASSUME IInv, NEW i \in Lookups
  PROVE  /\ calls[i] \in Lookup /\ calls[i].post \in Posts
         /\ posts[calls[i].post] \in Place /\ LoadOf[calls[i].post] \in Loads
         /\ PlaceOK(LoadOf[calls[i].post], posts[calls[i].post])
         /\ CallOK(calls[i], posts[calls[i].post])
         /\ calls[i].age \in Nat /\ calls[i].timer \in Nat /\ calls[i].failed \in Nat
         /\ Waiting(calls[i]) => LoadOf[calls[i].post] \in table
<1>1. calls[i] \in Lookup
  BY DEF IInv, TypeOK
<1>2. calls[i].post \in Posts /\ calls[i].age \in Nat /\ calls[i].timer \in Nat /\ calls[i].failed \in Nat
  BY <1>1 DEF Lookup
<1> QED  BY <1>1, <1>2 DEF IInv, TypeOK, CallsInv, PlacesInv

(* An answer of the geocoder, or none, in an object with its own ends.     *)
LEMMA NotedPlace ==
  ASSUME NEW l \in Loads, NEW place \in Place, OwnEnds(l, place), NEW end \in Ends,
         NEW point \in {Address[l][end], Nowhere}
  PROVE  LET new == Noted(place, end, point) IN
           /\ PlaceOK(l, new)
           /\ Keeps(l, place, new)
           /\ OwnEnds(l, new)
           /\ point # Nowhere => new[end] = point
<1>1. CASE point = Nowhere
  BY <1>1 DEF Noted, PlaceOK, Sound, Keeps
<1>2. CASE point # Nowhere /\ end = "origin"
  <2>1. point = Address[l].origin /\ point \in MaybePoint
    BY <1>2, AddressAssumption DEF MaybePoint
  <2> DEFINE new == [place EXCEPT !.origin = point]
  <2>2. Noted(place, end, point) = new
    BY <1>2 DEF Noted
  <2>3. new \in Place /\ new.origin = point /\ new.destination = place.destination /\ new[end] = point
    BY <1>2, <2>1 DEF Place
  <2> HIDE DEF new
  <2> QED  BY <2>1, <2>2, <2>3 DEF OwnEnds, Keeps, PlaceOK, Sound
<1>3. CASE point # Nowhere /\ end = "destination"
  <2>1. point = Address[l].destination /\ point \in MaybePoint
    BY <1>3, AddressAssumption DEF MaybePoint
  <2> DEFINE new == [place EXCEPT !.destination = point]
  <2>2. Noted(place, end, point) = new
    BY <1>3 DEF Noted
  <2>3. new \in Place /\ new.destination = point /\ new.origin = place.origin /\ new[end] = point
    BY <1>3, <2>1 DEF Place
  <2> HIDE DEF new
  <2> QED  BY <2>1, <2>2, <2>3 DEF OwnEnds, Keeps, PlaceOK, Sound
<1> QED  BY <1>1, <1>2, <1>3 DEF Ends

LEMMA StartGives ==
  ASSUME IInv, NEW i \in Lookups, NEW p \in Posts, Start(i, p)
  PROVE  \E d \in Lookup : Effect(i, d)
<1> USE TimesAssumption, RetriesAssumption
<1> DEFINE c == [calls[i] EXCEPT !.post = p]
<1>0. calls[i] \in Lookup /\ CallOK(calls[i], posts[calls[i].post]) /\ calls[i].step = "idle"
  BY CallFacts DEF Start
<1>1. /\ c \in Lookup /\ c.post = p /\ c.attempt = 0 /\ c.failed = 0 /\ c.text = "none" /\ c.age = 0
      /\ c.from = Nowhere /\ c.to = Nowhere
  BY <1>0 DEF Lookup, CallOK
<1>2. /\ PlaceOK(LoadOf[p], posts[p]) /\ posts[p] \in Place /\ LoadOf[p] \in Loads
      /\ posts' = posts /\ rows' = rows /\ writes' = writes /\ table' = table
      /\ cache[LoadOf[p]] = "none" /\ LoadOf[p] \in table
  BY DEF IInv, TypeOK, PlacesInv, Start
<1>3. Filled
  BY <1>2, NothingFilled
<1>4. CASE posts[p].origin # Nowhere /\ Destination(i, [c EXCEPT !.from = posts[p].origin], posts[p])
  <2> DEFINE e == [c EXCEPT !.from = posts[p].origin]
  <2>1. /\ e \in Lookup /\ e.post = p /\ e.attempt = 0 /\ e.failed = 0 /\ e.text = "none" /\ e.age = 0
        /\ e.from = posts[p].origin /\ e.to = Nowhere
    <3> HIDE DEF c
    <3> QED  BY <1>1, <1>2 DEF Lookup, Place
  <2>2. Destination(i, e, posts[p])
    BY <1>4
  <2> HIDE DEF e, c
  <2>3. Settling(e, posts[p])
    BY <1>2, <1>4, <2>1 DEF Settling, SamePoints
  <2>4. e.age <= GeocodeTime
    BY <2>1
  <2>5. PICK d \in Lookup :
           /\ calls' = [calls EXCEPT ![i] = d]
           /\ d.post = e.post /\ CallOK(d, posts[p])
           /\ \/ Waiting(d) /\ cache' = cache
              \/ /\ d.step = "done" /\ cache' = [cache EXCEPT ![LoadOf[e.post]] = "not found"]
                 /\ e.from = Nowhere
              \/ d.step = "done" /\ cache' = cache /\ LoadOf[e.post] \in Unaddressed
    BY <1>2, <2>1, <2>2, <2>3, <2>4, DestinationGives
  <2> QED  BY <1>0, <1>2, <1>3, <1>4, <2>1, <2>5 DEF Effect, Goes
<1>5. CASE Address[LoadOf[p]].origin = Blank /\ Becomes(i, Ended(c, "none")) /\ cache' = cache
  <2> DEFINE d == Ended(c, "none")
  <2>1. d \in Lookup /\ d.post = p /\ d.step = "done" /\ d.text = "none"
        /\ d.from = Nowhere /\ d.to = Nowhere
    <3> HIDE DEF c
    <3> QED  BY <1>1 DEF Ended, Lookup, Texts
  <2>2. CallOK(d, posts[p])
    <3> HIDE DEF d
    <3> QED  BY <2>1 DEF CallOK, Waiting, Ends
  <2>3. LoadOf[p] \in Unaddressed
    BY <1>2, <1>5 DEF Unaddressed
  <2>4. calls' = [calls EXCEPT ![i] = d]
    BY <1>5 DEF Becomes
  <2> HIDE DEF d
  <2> QED  BY <1>0, <1>2, <1>3, <1>5, <2>1, <2>2, <2>3, <2>4 DEF Effect, Goes, Waiting, Ends
<1>6. CASE posts[p].origin = Nowhere /\ Becomes(i, Asks(c, "origin")) /\ cache' = cache
  <2> DEFINE d == Asks(c, "origin")
  <2>1. /\ d \in Lookup /\ d.post = p /\ d.step = "origin" /\ d.text = "none"
        /\ d.from = Nowhere /\ d.to = Nowhere /\ d.attempt = 0 /\ d.failed = 0
        /\ d.age = 0 /\ d.timer = GeocodeTime
    <3> HIDE DEF c
    <3> QED  BY <1>1 DEF Asks, Lookup, Ends
  <2>2. CallOK(d, posts[p])
    <3> HIDE DEF d
    <3>1. OwnEnds(LoadOf[p], posts[p])
      BY <1>2, <1>6, NotFoundOwn
    <3> QED  BY <2>1, <3>1 DEF CallOK, SamePoints
  <2>3. calls' = [calls EXCEPT ![i] = d]
    BY <1>6 DEF Becomes
  <2> HIDE DEF d
  <2> QED  BY <1>0, <1>2, <1>3, <1>6, <2>1, <2>2, <2>3 DEF Effect, Goes, Waiting, Ends
<1> QED  BY <1>4, <1>5, <1>6 DEF Start

LEMMA OriginGives ==
  ASSUME IInv, NEW i \in Lookups,
         NEW point \in {Address[LoadOfCall(calls[i])].origin, Nowhere}, OriginIs(i, point)
  PROVE  \E d \in Lookup : Effect(i, d)
<1> USE TimesAssumption, RetriesAssumption
<1> DEFINE o == calls[i]
           c == [o EXCEPT !.from = point]
           place == Noted(posts[o.post], "origin", point)
<1>0. o \in Lookup /\ CallOK(o, posts[o.post]) /\ o.post \in Posts /\ LoadOf[o.post] \in Loads
      /\ PlaceOK(LoadOf[o.post], posts[o.post]) /\ o.age \in Nat /\ o.timer \in Nat
  BY CallFacts
<1>p. point \in MaybePoint /\ point \in {Address[LoadOf[o.post]].origin, Nowhere}
  BY <1>0, AddressAssumption DEF MaybePoint, LoadOfCall
<1>1. /\ c \in Lookup /\ c.post = o.post /\ c.from = point /\ c.to = o.to /\ c.age = o.age /\ c.step = o.step
      /\ c.attempt = o.attempt /\ c.failed = o.failed /\ c.text = o.text
  <2> HIDE DEF o
  <2> QED  BY <1>0, <1>p DEF Lookup
<1>2. c.step = "origin" /\ Destination(i, c, place) /\ rows' = rows /\ writes' = writes
      /\ posts' = [posts EXCEPT ![o.post] = place]
  BY <1>1 DEF OriginIs
<1>o. o.step = "origin" /\ OwnEnds(LoadOf[o.post], posts[o.post])
  BY <1>0, <1>1, <1>2 DEF CallOK
<1>3. /\ PlaceOK(LoadOf[o.post], place) /\ place \in Place
      /\ Keeps(LoadOf[o.post], posts[o.post], place) /\ OwnEnds(LoadOf[o.post], place)
      /\ point # Nowhere => place.origin = point
  BY <1>0, <1>p, <1>o, NotedPlace DEF Ends, PlaceOK
<1> HIDE DEF place
<1>4. Filled /\ posts'[o.post] = place
  BY <1>0, <1>2, <1>3, OneFilled
<1> HIDE DEF c
<1>5. o.step = "origin" /\ o.attempt = 0 /\ o.failed = 0 /\ o.text = "none" /\ o.to = Nowhere
      /\ o.age + o.timer <= GeocodeTime
  BY <1>0, <1>1, <1>2 DEF CallOK
<1>6. Settling(c, place) /\ c.to = Nowhere /\ c.age <= GeocodeTime
  BY <1>0, <1>p, <1>1, <1>3, <1>5 DEF Settling, SamePoints
<1>7. PICK d \in Lookup :
           /\ calls' = [calls EXCEPT ![i] = d]
           /\ d.post = c.post /\ CallOK(d, place)
           /\ \/ Waiting(d) /\ cache' = cache
              \/ /\ d.step = "done" /\ cache' = [cache EXCEPT ![LoadOf[c.post]] = "not found"]
                 /\ c.from = Nowhere
              \/ d.step = "done" /\ cache' = cache /\ LoadOf[c.post] \in Unaddressed
  BY <1>1, <1>2, <1>3, <1>6, DestinationGives
<1>8. Waiting(o)
  BY <1>5 DEF Waiting, Ends
<1>9. Goes(o, d)
  BY <1>1, <1>7, <1>8 DEF Goes, Texts
<1>10. LoadOf[o.post] \in table /\ table' = table
  BY <1>8, CallFacts DEF OriginIs, DestinationIs
<1> QED  BY <1>1, <1>2, <1>4, <1>7, <1>9, <1>10 DEF Effect

LEMMA DestinationIsGives ==
  ASSUME IInv, NEW i \in Lookups,
         NEW point \in {Address[LoadOfCall(calls[i])].destination, Nowhere}, DestinationIs(i, point)
  PROVE  \E d \in Lookup : Effect(i, d)
<1> USE TimesAssumption, RetriesAssumption
<1> DEFINE o == calls[i]
           c == [o EXCEPT !.to = point]
           place == Noted(posts[o.post], "destination", point)
<1>0. o \in Lookup /\ CallOK(o, posts[o.post]) /\ o.post \in Posts /\ LoadOf[o.post] \in Loads
      /\ PlaceOK(LoadOf[o.post], posts[o.post]) /\ o.age \in Nat /\ o.timer \in Nat
  BY CallFacts
<1>p. point \in MaybePoint /\ point \in {Address[LoadOf[o.post]].destination, Nowhere}
  BY <1>0, AddressAssumption DEF MaybePoint, LoadOfCall
<1>1. /\ c \in Lookup /\ c.post = o.post /\ c.to = point /\ c.from = o.from /\ c.age = o.age /\ c.step = o.step
      /\ c.attempt = o.attempt /\ c.failed = o.failed /\ c.text = o.text
  <2> HIDE DEF o
  <2> QED  BY <1>0, <1>p DEF Lookup
<1>q. posts \in [Posts -> Place]
  BY DEF IInv, TypeOK
<1>2. c.step = "destination" /\ Directions(i, c) /\ rows' = rows /\ writes' = writes
      /\ posts' = [posts EXCEPT ![o.post] = place]
  BY <1>0, <1>1, <1>q DEF DestinationIs
<1>o. o.step = "destination" /\ OwnEnds(LoadOf[o.post], posts[o.post])
  BY <1>0, <1>1, <1>2 DEF CallOK
<1>3. /\ PlaceOK(LoadOf[o.post], place) /\ place \in Place
      /\ Keeps(LoadOf[o.post], posts[o.post], place)
      /\ point # Nowhere => place.destination = point
  BY <1>0, <1>p, <1>o, NotedPlace DEF Ends, PlaceOK
<1> HIDE DEF place
<1>4. Filled /\ posts'[o.post] = place
  BY <1>0, <1>2, <1>3, OneFilled
<1> HIDE DEF c
<1>5. o.step = "destination" /\ o.attempt = 0 /\ o.failed = 0 /\ o.text = "none"
      /\ o.age + o.timer <= 2 * GeocodeTime
      /\ SamePoints(o, posts[o.post])
  BY <1>0, <1>1, <1>2 DEF CallOK, Waiting, Ends
<1>6. Settling(c, place) /\ c.age <= 2 * GeocodeTime
  BY <1>0, <1>p, <1>1, <1>3, <1>5 DEF Settling, SamePoints, Keeps
<1>7. PICK d \in Lookup :
           /\ calls' = [calls EXCEPT ![i] = d]
           /\ d.post = c.post /\ CallOK(d, place)
           /\ \/ d.step = "route" /\ cache' = cache
              \/ /\ d.step = "done" /\ cache' = [cache EXCEPT ![LoadOf[c.post]] = "not found"]
                 /\ Nowhere \in {c.from, c.to}
  BY <1>1, <1>2, <1>3, <1>6, DirectionsGive
<1>8. Waiting(o)
  BY <1>5 DEF Waiting, Ends
<1>9. Goes(o, d)
  BY <1>1, <1>7, <1>8 DEF Goes, Texts, Waiting
<1>10. LoadOf[o.post] \in table /\ table' = table
  BY <1>8, CallFacts DEF OriginIs, DestinationIs
<1> QED  BY <1>1, <1>2, <1>4, <1>7, <1>9, <1>10 DEF Effect

(* A distance is published by a lookup whose object has both ends. *)
LEMMA PublishGives ==
  ASSUME IInv, NEW i \in Lookups, NEW c \in Lookup, NEW text \in {"measured", "estimate"},
         calls[i].step = "route", c.post = calls[i].post,
         c.from = calls[i].from, c.to = calls[i].to,
         text = "estimate" => c.failed = MaxRetries, Publish(i, c, text)
  PROVE  \E d \in Lookup : Effect(i, d)
<1> DEFINE o == calls[i]
           place == [posts[o.post] EXCEPT !.distance = text]
           d == [Ended(c, text) EXCEPT !.step = "save"]
           copy == Copied(posts[o.post])
           w == [lookup |-> i, load |-> LoadOf[o.post], place |-> copy]
<1>0. o \in Lookup /\ CallOK(o, posts[o.post]) /\ o.post \in Posts /\ LoadOf[o.post] \in Loads
      /\ PlaceOK(LoadOf[o.post], posts[o.post]) /\ posts[o.post] \in Place
  BY CallFacts
<1>1. /\ o.from # Nowhere /\ o.to # Nowhere
      /\ posts[o.post].origin = o.from /\ posts[o.post].destination = o.to
  BY <1>0 DEF CallOK, SamePoints, Waiting
<1>2. /\ place \in Place /\ PlaceOK(LoadOf[o.post], place)
      /\ place.origin = posts[o.post].origin /\ place.destination = posts[o.post].destination
      /\ copy \in Place /\ PlaceOK(LoadOf[o.post], copy)
      /\ copy.origin = posts[o.post].origin /\ copy.destination = posts[o.post].destination
  <2> HIDE DEF o
  <2> QED  BY <1>0, <1>1 DEF PlaceOK, Place, Copied, Sound, OwnEnds, OnePoint
<1>k. Keeps(LoadOf[o.post], posts[o.post], place)
  <2> HIDE DEF o, place
  <2> QED  BY <1>2 DEF Keeps, OwnEnds
<1>3. posts \in [Posts -> Place]
  BY DEF IInv, TypeOK
<1>4. /\ cache' = [cache EXCEPT ![LoadOf[o.post]] = text]
      /\ posts' = [posts EXCEPT ![o.post] = place]
      /\ writes' = Append(writes, w)
      /\ calls' = [calls EXCEPT ![i] = d]
      /\ rows' = rows /\ table' = table
  BY <1>0, <1>3 DEF Publish, Becomes, LoadOfCall
<1>5. d \in Lookup /\ d.step = "save" /\ d.text = text /\ d.post = o.post /\ d.failed = c.failed
      /\ d.from = o.from /\ d.to = o.to
  BY DEF Ended, Lookup, Texts
<1>6. w \in Write /\ w.lookup = i /\ WriteOK(w, d)
  <2> HIDE DEF place, copy, d, o
  <2> QED  BY <1>0, <1>1, <1>2, <1>5 DEF Write, WriteOK
<1> HIDE DEF place, copy, d, w
<1>7. Filled /\ posts'[o.post] = place
  BY <1>0, <1>2, <1>k, <1>4, OneFilled
<1>8. CallOK(d, place) /\ ~Waiting(d)
  BY <1>5 DEF CallOK, Waiting, Ends
<1>9. Goes(o, d)
  BY <1>4, <1>5 DEF Goes, Waiting, Texts
<1> QED  BY <1>4, <1>5, <1>6, <1>7, <1>8, <1>9 DEF Effect

LEMMA AttemptFailedGives ==
  ASSUME IInv, NEW i \in Lookups, AttemptFailed(i)
  PROVE  \E d \in Lookup : Effect(i, d)
<1> USE TimesAssumption, RetriesAssumption
<1> DEFINE o == calls[i]
           c == [o EXCEPT !.failed = @ + 1]
<1>0. o \in Lookup /\ CallOK(o, posts[o.post]) /\ o.post \in Posts
      /\ o.age \in Nat /\ o.timer \in Nat /\ o.failed \in Nat /\ o.attempt \in 0 .. MaxRetries
  BY CallFacts DEF Lookup
<1>1. /\ c \in Lookup /\ c.post = o.post /\ c.to = o.to /\ c.from = o.from /\ c.age = o.age /\ c.step = o.step
      /\ c.attempt = o.attempt /\ c.failed = o.failed + 1 /\ c.text = o.text
  <2> HIDE DEF o
  <2>1. o.failed + 1 \in Nat
    BY <1>0
  <2> QED  BY <1>0, <2>1 DEF Lookup
<1>2. o.step = "route"
  BY <1>1 DEF AttemptFailed
<1>3. /\ o.attempt = o.failed + 1 /\ o.age + o.timer <= RouteBudget(o.attempt) /\ o.text = "none"
      /\ o.from # Nowhere /\ o.to # Nowhere /\ SamePoints(o, posts[o.post])
      /\ LoadOf[o.post] \in table
  BY <1>0, <1>2, CallFacts DEF CallOK, Waiting
<1>4. CASE /\ Retries(c) /\ Becomes(i, [c EXCEPT !.step = "pause", !.timer = PauseTime])
           /\ UNCHANGED <<table, posts, rows, cache, writes>>
  <2> DEFINE d == [c EXCEPT !.step = "pause", !.timer = PauseTime]
  <2>1. /\ d \in Lookup /\ d.post = o.post /\ d.to = o.to /\ d.from = o.from /\ d.age = o.age /\ d.step = "pause"
        /\ d.attempt = o.attempt /\ d.failed = o.failed + 1 /\ d.text = o.text /\ d.timer = PauseTime
    <3> HIDE DEF c
    <3> QED  BY <1>1 DEF Lookup
  <2>2. o.attempt < MaxRetries
    BY <1>1, <1>4 DEF Retries
  <2>3. PauseBudget(o.attempt) = RouteBudget(o.attempt) + PauseTime
        /\ RouteBudget(o.attempt) \in Int
    BY <1>0, Budgets
  <2>4. d.age + d.timer <= PauseBudget(d.attempt)
    BY <1>0, <1>3, <2>1, <2>3
  <2>5. calls' = [calls EXCEPT ![i] = d]
    BY <1>4 DEF Becomes
  <2> HIDE DEF d, c
  <2>6. CallOK(d, posts[o.post])
    BY <1>3, <2>1, <2>2, <2>4 DEF CallOK, SamePoints
  <2>7. Filled
    BY <1>4, NothingFilled
  <2>8. Goes(o, d)
    BY <1>2, <1>4, <2>1 DEF Goes, Waiting
  <2> QED  BY <1>3, <1>4, <2>1, <2>5, <2>6, <2>7, <2>8 DEF Effect
<1>5. CASE ~Retries(c) /\ Publish(i, c, "estimate")
  <2> HIDE DEF c
  <2>0. ~(o.attempt < MaxRetries)
    BY <1>1, <1>5 DEF Retries
  <2> HIDE DEF o
  <2>1. c.failed = MaxRetries
    BY <1>0, <1>1, <1>3, <2>0
  <2> USE DEF o
  <2> QED  BY <1>1, <1>2, <1>5, <2>1, PublishGives
<1> QED  BY <1>4, <1>5 DEF AttemptFailed

LEMMA PauseOverGives ==
  ASSUME IInv, NEW i \in Lookups, PauseOver(i)
  PROVE  \E d \in Lookup : Effect(i, d)
<1> USE TimesAssumption, RetriesAssumption
<1> DEFINE o == calls[i]
           d == Tries(o)
<1>0. o \in Lookup /\ CallOK(o, posts[o.post]) /\ o.post \in Posts
      /\ o.age \in Nat /\ o.timer \in Nat /\ o.failed \in Nat /\ o.attempt \in 0 .. MaxRetries
  BY CallFacts DEF Lookup
<1>1. o.step = "pause" /\ o.timer = 0 /\ calls' = [calls EXCEPT ![i] = d]
      /\ UNCHANGED <<table, posts, rows, cache, writes>>
  BY DEF PauseOver, Becomes
<1>2. /\ o.attempt = o.failed /\ o.attempt < MaxRetries /\ o.age + o.timer <= PauseBudget(o.attempt)
      /\ o.text = "none" /\ o.from # Nowhere /\ o.to # Nowhere /\ SamePoints(o, posts[o.post])
      /\ LoadOf[o.post] \in table
  BY <1>0, <1>1, CallFacts DEF CallOK, Waiting
<1>3. o.attempt + 1 \in 0 .. MaxRetries
  BY <1>0, <1>2
<1>4. /\ d \in Lookup /\ d.post = o.post /\ d.to = o.to /\ d.from = o.from /\ d.age = o.age /\ d.step = "route"
      /\ d.attempt = o.attempt + 1 /\ d.failed = o.failed /\ d.text = o.text /\ d.timer = RouteTime
  <2> HIDE DEF o
  <2> QED  BY <1>0, <1>3 DEF Lookup, Tries
<1>5. RouteBudget(o.attempt + 1) = PauseBudget(o.attempt) + RouteTime /\ PauseBudget(o.attempt) \in Int
  BY <1>0, Budgets
<1>6. d.age + d.timer <= RouteBudget(d.attempt)
  BY <1>0, <1>1, <1>2, <1>4, <1>5
<1> HIDE DEF d
<1>7. CallOK(d, posts[o.post])
  BY <1>2, <1>4, <1>6 DEF CallOK, SamePoints
<1>8. Filled
  BY <1>1, NothingFilled
<1>9. Goes(o, d)
  BY <1>1, <1>4 DEF Goes, Waiting
<1> QED  BY <1>1, <1>2, <1>4, <1>7, <1>8, <1>9 DEF Effect

LEMMA RouteUnusableGives ==
  ASSUME IInv, NEW i \in Lookups, RouteUnusable(i)
  PROVE  \E d \in Lookup : Effect(i, d)
<1> DEFINE o == calls[i]
           d == Ended(o, "rough")
<1>0. o \in Lookup /\ CallOK(o, posts[o.post]) /\ o.post \in Posts
  BY CallFacts
<1>1. o.step = "route" /\ calls' = [calls EXCEPT ![i] = d] /\ UNCHANGED <<table, posts, rows, writes>>
      /\ cache' = [cache EXCEPT ![LoadOf[o.post]] = "rough"]
  BY DEF RouteUnusable, Becomes, LoadOfCall
<1>2. /\ d \in Lookup /\ d.post = o.post /\ d.to = o.to /\ d.from = o.from /\ d.step = "done"
      /\ d.text = "rough"
  <2> HIDE DEF o
  <2> QED  BY <1>0 DEF Lookup, Ended, Texts
<1> HIDE DEF d
<1>3. CallOK(d, posts[o.post]) /\ ~Waiting(d)
  BY <1>2 DEF CallOK, Waiting, Ends
<1>4. Filled
  BY <1>1, NothingFilled
<1>5. Goes(o, d)
  BY <1>1, <1>2 DEF Goes, Waiting, Texts
<1> QED  BY <1>1, <1>2, <1>3, <1>4, <1>5 DEF Effect

-----------------------------------------------------------------------------
(* The invariant is kept *)

LEMMA Writers ==
  ASSUME IInv
  PROVE  \A k \in 1 .. Len(writes) : writes[k].lookup \in Lookups
<1>1. \A k \in 1 .. Len(writes) : writes[k] \in Write
  BY DEF IInv, TypeOK
<1> QED  BY <1>1 DEF Write

LEMMA EffectKeeps ==
  ASSUME IInv, NEW i \in Lookups, NEW d \in Lookup, Effect(i, d)
  PROVE  IInv'
<1>1. /\ calls' = [calls EXCEPT ![i] = d] /\ Filled /\ rows' = rows /\ table' = table
      /\ CallOK(d, posts'[d.post]) /\ Goes(calls[i], d)
      /\ Waiting(d) => LoadOf[d.post] \in table
      /\ \/ writes' = writes
         \/ /\ d.step = "save"
            /\ \E w \in Write : w.lookup = i /\ WriteOK(w, d) /\ writes' = Append(writes, w)
  BY DEF Effect
<1>2. /\ posts \in [Posts -> Place] /\ rows \in [Loads -> Place] /\ table \subseteq Loads
      /\ cache \in [Loads -> Texts \cup {"none"}]
      /\ calls \in [Lookups -> Lookup] /\ writes \in Seq(Write)
  BY DEF IInv, TypeOK
<1>3. calls' \in [Lookups -> Lookup]
  BY <1>1, <1>2
<1>4. cache' \in [Loads -> Texts \cup {"none"}]
  BY <1>1, <1>2 DEF Goes
<1>5. writes' \in Seq(Write)
  <2>1. ASSUME NEW w \in Write, writes' = Append(writes, w) PROVE writes' \in Seq(Write)
    BY <1>2, <2>1, Appended
  <2> QED  BY <1>1, <1>2, <2>1
<1>6. TypeOK'
  BY <1>1, <1>2, <1>3, <1>4, <1>5 DEF TypeOK, Filled
<1>7. CallsInv'
  <2> SUFFICES ASSUME NEW j \in Lookups
               PROVE  /\ CallOK(calls'[j], posts'[calls'[j].post])
                      /\ Waiting(calls'[j]) => LoadOf[calls'[j].post] \in table'
    BY DEF CallsInv, Waiting
  <2>1. CASE j = i
    BY <1>1, <1>2, <2>1
  <2>2. CASE j # i
    <3>1. calls'[j] = calls[j]
      BY <1>1, <1>2, <2>2
    <3>2. /\ CallOK(calls[j], posts[calls[j].post]) /\ calls[j].post \in Posts
          /\ Waiting(calls[j]) => LoadOf[calls[j].post] \in table
      BY CallFacts
    <3>3. Keeps(LoadOf[calls[j].post], posts[calls[j].post], posts'[calls[j].post])
      BY <1>1, <3>2 DEF Filled
    <3>4. CallOK(calls[j], posts'[calls[j].post])
      BY <3>2, <3>3 DEF CallOK, Keeps, SamePoints
    <3> QED  BY <1>1, <3>1, <3>2, <3>4
  <2> QED  BY <2>1, <2>2
<1>8. PlacesInv'
  BY <1>1 DEF IInv, PlacesInv, Filled
<1>9. WritesInv'
  <2>1. ASSUME NEW w, NEW j \in Lookups, WriteOK(w, calls[j]) PROVE WriteOK(w, calls'[j])
    <3>1. j # i
      BY <1>1, <2>1 DEF Goes, Waiting, Ends, WriteOK
    <3> QED  BY <1>1, <1>2, <2>1, <3>1
  <2>2. \A k \in 1 .. Len(writes) : writes[k].lookup \in Lookups
    BY Writers
  <2>3. \A k \in 1 .. Len(writes) : WriteOK(writes[k], calls'[writes[k].lookup])
    BY <2>1, <2>2 DEF IInv, WritesInv
  <2>4. CASE writes' = writes
    BY <2>3, <2>4 DEF WritesInv, WriteOK
  <2>5. ASSUME NEW w \in Write, w.lookup = i, WriteOK(w, d), writes' = Append(writes, w)
        PROVE  WritesInv'
    <3>1. /\ Len(writes') = Len(writes) + 1 /\ Len(writes) \in Nat
          /\ \A k \in 1 .. Len(writes) + 1 : writes'[k] = IF k = Len(writes) + 1 THEN w ELSE writes[k]
      BY <1>2, <2>5, Appended
    <3>2. WriteOK(w, calls'[w.lookup])
      BY <1>1, <1>2, <2>5
    <3> SUFFICES ASSUME NEW k \in 1 .. Len(writes') PROVE WriteOK(writes'[k], calls'[writes'[k].lookup])
      BY DEF WritesInv, WriteOK
    <3> QED  BY <2>3, <3>1, <3>2
  <2> QED  BY <1>1, <2>4, <2>5
<1> QED  BY <1>6, <1>7, <1>8, <1>9 DEF IInv

(* Every step of a lookup has an effect of this kind. *)
LEMMA LookupSteps ==
  ASSUME IInv, NEW i \in Lookups,
         \/ \E p \in Posts : Start(i, p)
         \/ Geocoded(i) \/ GeocodingTimedOut(i)
         \/ RouteAnswered(i) \/ RouteRefused(i) \/ RouteTimedOut(i) \/ PauseOver(i)
         \/ RouteUnusable(i)
  PROVE  \E d \in Lookup : Effect(i, d)
<1>0. calls[i] \in Lookup
  BY CallFacts
<1>2. CASE Geocoded(i)
  BY <1>2, OriginGives, DestinationIsGives DEF Geocoded
<1>3. CASE GeocodingTimedOut(i)
  BY <1>3, OriginGives, DestinationIsGives DEF GeocodingTimedOut
<1>4. CASE RouteAnswered(i)
  BY <1>0, <1>4, PublishGives DEF RouteAnswered
<1>5. CASE RouteRefused(i)
  BY <1>5, AttemptFailedGives DEF RouteRefused
<1>6. CASE RouteTimedOut(i)
  BY <1>6, AttemptFailedGives DEF RouteTimedOut
<1> QED  BY <1>2, <1>3, <1>4, <1>5, <1>6, StartGives, PauseOverGives, RouteUnusableGives

LEMMA DbWriteKeeps ==
  ASSUME IInv, DbWrite
  PROVE  IInv'
<1> DEFINE w == Head(writes)
           d == [calls[w.lookup] EXCEPT !.step = "done"]
<1>1. /\ posts \in [Posts -> Place] /\ rows \in [Loads -> Place]
      /\ calls \in [Lookups -> Lookup] /\ writes \in Seq(Write) /\ writes # << >>
  BY DEF IInv, TypeOK, DbWrite
<1>2. /\ Tail(writes) \in Seq(Write) /\ Len(Tail(writes)) = Len(writes) - 1
      /\ \A k \in 1 .. Len(writes) - 1 : Tail(writes)[k] = writes[k + 1] /\ k + 1 \in 1 .. Len(writes)
      /\ w = writes[1] /\ w \in Write /\ 1 \in 1 .. Len(writes)
  BY <1>1, Rest
<1>3. /\ calls' = [calls EXCEPT ![w.lookup] = d] /\ writes' = Tail(writes)
      /\ rows' = [rows EXCEPT ![w.load] = w.place] \/ rows' = rows
      /\ UNCHANGED <<table, posts, cache>>
  BY DEF DbWrite, Becomes
<1>4. /\ w.lookup \in Lookups /\ w.load \in Loads /\ w.place \in Place
      /\ PlaceOK(w.load, w.place) /\ calls[w.lookup].step \in {"save", "done"}
  BY <1>2 DEF IInv, WritesInv, WriteOK, Write
<1> HIDE DEF w
<1>5. calls[w.lookup] \in Lookup /\ CallOK(calls[w.lookup], posts[calls[w.lookup].post])
  BY <1>4, CallFacts
<1>6. /\ d \in Lookup /\ d.step = "done" /\ d.post = calls[w.lookup].post /\ d.text = calls[w.lookup].text
      /\ d.failed = calls[w.lookup].failed /\ d.from = calls[w.lookup].from /\ d.to = calls[w.lookup].to
  BY <1>5 DEF Lookup
<1> HIDE DEF d
<1>7. CallOK(d, posts[d.post]) /\ ~Waiting(d)
  BY <1>4, <1>5, <1>6 DEF CallOK, Waiting, Ends
<1>8. TypeOK'
  BY <1>1, <1>2, <1>3, <1>4, <1>6 DEF IInv, TypeOK
<1>9. CallsInv'
  BY <1>1, <1>3, <1>4, <1>7 DEF IInv, CallsInv, Waiting
<1>10. PlacesInv'
  BY <1>1, <1>3, <1>4 DEF IInv, PlacesInv
<1>11. WritesInv'
  <2>1. ASSUME NEW v, NEW j \in Lookups, WriteOK(v, calls[j]) PROVE WriteOK(v, calls'[j])
    <3>1. CASE j = w.lookup
      BY <1>1, <1>3, <1>6, <2>1, <3>1 DEF WriteOK
    <3>2. CASE j # w.lookup
      BY <1>1, <1>3, <2>1, <3>2
    <3> QED  BY <3>1, <3>2
  <2>2. \A k \in 1 .. Len(writes) : writes[k].lookup \in Lookups
    BY Writers
  <2>3. \A k \in 1 .. Len(writes) : WriteOK(writes[k], calls'[writes[k].lookup])
    BY <2>1, <2>2 DEF IInv, WritesInv
  <2>4. Len(writes') = Len(writes) - 1
        /\ \A k \in 1 .. Len(writes') : writes'[k] = writes[k + 1] /\ k + 1 \in 1 .. Len(writes)
    BY <1>2, <1>3
  <2> SUFFICES ASSUME NEW k \in 1 .. Len(writes') PROVE WriteOK(writes'[k], calls'[writes'[k].lookup])
    BY DEF WritesInv, WriteOK
  <2> QED  BY <2>3, <2>4
<1> QED  BY <1>8, <1>9, <1>10, <1>11 DEF IInv

(* The object that is replaced is held by no lookup that is under way. *)
LEMMA RefetchKeeps ==
  ASSUME IInv, NEW p \in Posts, Refetch(p)
  PROVE  IInv'
<1>1. /\ posts \in [Posts -> Place] /\ rows \in [Loads -> Place] /\ LoadOf[p] \in Loads
      /\ posts' = [posts EXCEPT ![p] = rows[LoadOf[p]]]
      /\ UNCHANGED <<table, rows, cache, calls, writes>>
  BY DEF IInv, TypeOK, Refetch
<1>2. TypeOK' /\ PlacesInv' /\ WritesInv'
  BY <1>1 DEF IInv, TypeOK, PlacesInv, WritesInv
<1>3. CallsInv'
  <2> SUFFICES ASSUME NEW j \in Lookups PROVE CallOK(calls[j], posts'[calls[j].post])
    BY <1>1 DEF IInv, CallsInv
  <2>1. calls[j].post \in Posts /\ CallOK(calls[j], posts[calls[j].post])
    BY CallFacts
  <2>2. CASE calls[j].post # p
    BY <1>1, <2>1, <2>2
  <2>3. CASE calls[j].post = p
    <3>1. ~Waiting(calls[j])
      BY <2>3 DEF Refetch
    <3> QED  BY <2>1, <3>1 DEF CallOK, Waiting, Ends
  <2> QED  BY <2>2, <2>3
<1> QED  BY <1>2, <1>3 DEF IInv

(* The copy with its ends swapped has its own ends, or one point at both.  *)
LEMMA SwappedSound ==
  ASSUME NEW r \in Returns, NEW place, PlaceOK(Original[r], place)
  PROVE  PlaceOK(r, Swapped(place))
<1> DEFINE new == Swapped(place)
           l == Original[r]
<1>1. /\ r \in Loads /\ l \in Loads
      /\ Address[r].origin = Address[l].destination /\ Address[r].destination = Address[l].origin
  BY OriginalAssumption
<1>2. place \in Place
  BY DEF PlaceOK
<1>3. /\ new \in Place
      /\ new.origin = IF place.destination # Nowhere THEN place.destination ELSE place.origin
      /\ new.destination = IF place.origin # Nowhere THEN place.origin ELSE place.destination
  BY <1>2 DEF Swapped, Place
<1>4. Sound(l, place)
  BY DEF PlaceOK
<1> HIDE DEF new, l
<1>5. Sound(r, new)
  BY <1>1, <1>3, <1>4 DEF Sound, OwnEnds, OnePoint
<1> QED  BY <1>3, <1>5 DEF PlaceOK, new

(* The return load has no row yet, so no lookup holds an object of it.     *)
LEMMA PostReturnKeeps ==
  ASSUME IInv, NEW r \in Returns, NEW p \in Posts, PostReturn(r, p)
  PROVE  IInv'
<1> DEFINE new == Swapped(posts[p])
<1>1. /\ posts \in [Posts -> Place] /\ rows \in [Loads -> Place] /\ table \subseteq Loads
      /\ r \in Loads /\ r \notin table /\ LoadOf[p] = Original[r]
      /\ table' = table \cup {r}
      /\ rows' = [rows EXCEPT ![r] = new]
      /\ posts' = [q \in Posts |-> IF LoadOf[q] = r THEN new ELSE posts[q]]
      /\ UNCHANGED <<cache, calls, writes>>
  BY OriginalAssumption DEF IInv, TypeOK, PostReturn
<1>2. PlaceOK(Original[r], posts[p])
  BY <1>1 DEF IInv, PlacesInv
<1>3. PlaceOK(r, new) /\ new \in Place
  BY <1>2, SwappedSound DEF PlaceOK
<1> HIDE DEF new
<1>4. TypeOK'
  BY <1>1, <1>3 DEF IInv, TypeOK
<1>5. PlacesInv'
  BY <1>1, <1>3 DEF IInv, PlacesInv
<1>6. WritesInv'
  BY <1>1 DEF IInv, WritesInv
<1>7. CallsInv'
  <2> SUFFICES ASSUME NEW j \in Lookups
               PROVE  /\ CallOK(calls[j], posts'[calls[j].post])
                      /\ Waiting(calls[j]) => LoadOf[calls[j].post] \in table'
    BY <1>1 DEF CallsInv, Waiting
  <2>1. /\ calls[j].post \in Posts /\ CallOK(calls[j], posts[calls[j].post])
        /\ Waiting(calls[j]) => LoadOf[calls[j].post] \in table
    BY CallFacts
  <2>2. CASE Waiting(calls[j])
    BY <1>1, <2>1, <2>2
  <2>3. CASE ~Waiting(calls[j])
    BY <2>1, <2>3 DEF CallOK, Waiting, Ends
  <2> QED  BY <2>2, <2>3
<1> QED  BY <1>4, <1>5, <1>6, <1>7 DEF IInv

(* Time goes from the timer to the age. *)
LEMMA TickKeeps ==
  ASSUME IInv, Tick
  PROVE  IInv'
<1>1. /\ calls \in [Lookups -> Lookup] /\ writes \in Seq(Write)
      /\ \A j \in Lookups : Waiting(calls[j]) => calls[j].timer > 0
      /\ calls' = [j \in Lookups |-> IF Waiting(calls[j])
                                     THEN [calls[j] EXCEPT !.timer = @ - 1, !.age = @ + 1]
                                     ELSE calls[j]]
      /\ UNCHANGED <<table, posts, rows, cache, writes>>
  BY DEF IInv, TypeOK, Tick
<1>2. ASSUME NEW j \in Lookups
      PROVE  /\ calls'[j] \in Lookup /\ calls'[j].step = calls[j].step
             /\ calls'[j].from = calls[j].from /\ calls'[j].to = calls[j].to
             /\ CallOK(calls'[j], posts[calls'[j].post])
             /\ Waiting(calls'[j]) => LoadOf[calls'[j].post] \in table
  <2>1. calls[j] \in Lookup /\ CallOK(calls[j], posts[calls[j].post])
        /\ calls[j].age \in Nat /\ calls[j].timer \in Nat
    BY CallFacts
  <2>0. Waiting(calls[j]) => LoadOf[calls[j].post] \in table
    BY CallFacts
  <2>2. CASE ~Waiting(calls[j])
    BY <1>1, <2>0, <2>1, <2>2
  <2>3. CASE Waiting(calls[j])
    <3>0. calls[j].timer > 0
      BY <1>1, <2>3
    <3> DEFINE c == calls[j]
               d == [c EXCEPT !.timer = @ - 1, !.age = @ + 1]
    <3>1. c.timer - 1 \in Nat /\ c.age + 1 \in Nat
      BY <2>1, <3>0
    <3>2. calls'[j] = d
      BY <1>1, <2>3
    <3>3. /\ d \in Lookup /\ d.step = c.step /\ d.post = c.post
          /\ d.attempt = c.attempt /\ d.failed = c.failed /\ d.text = c.text
          /\ d.age = c.age + 1 /\ d.timer = c.timer - 1 /\ d.from = c.from /\ d.to = c.to
      <4> HIDE DEF c
      <4> QED  BY <2>1, <3>1 DEF Lookup, c
    <3>4. d.age + d.timer = c.age + c.timer
      BY <2>1, <3>3
    <3>5. c.step # "idle"
      BY <2>3 DEF Waiting, Ends
    <3> HIDE DEF d
    <3>6. CallOK(d, posts[d.post])
      BY <2>1, <3>3, <3>4, <3>5 DEF CallOK, SamePoints, Waiting
    <3> QED  BY <2>0, <2>3, <3>2, <3>3, <3>6
  <2> QED  BY <2>2, <2>3
<1>3. TypeOK'
  <2>1. calls' \in [Lookups -> Lookup]
    BY <1>1, <1>2
  <2> QED  BY <1>1, <2>1 DEF IInv, TypeOK
<1>4. CallsInv'
  BY <1>1, <1>2 DEF CallsInv, Waiting
<1>5. PlacesInv' /\ WritesInv'
  <2>1. \A k \in 1 .. Len(writes) : writes[k].lookup \in Lookups
    BY Writers
  <2>2. PlacesInv'
    BY <1>1 DEF IInv, PlacesInv
  <2>3. ASSUME NEW k \in 1 .. Len(writes) PROVE WriteOK(writes[k], calls'[writes[k].lookup])
    <3>1. writes[k].lookup \in Lookups /\ WriteOK(writes[k], calls[writes[k].lookup])
      BY <2>1 DEF IInv, WritesInv
    <3> QED  BY <1>2, <3>1 DEF WriteOK
  <2> QED  BY <1>1, <2>2, <2>3 DEF WritesInv, WriteOK
<1> QED  BY <1>3, <1>4, <1>5 DEF IInv

LEMMA InvInit == Init => IInv
<1> SUFFICES ASSUME Init PROVE IInv
  OBVIOUS
<1>1. \A l \in Loads : PlaceOK(l, Stored[l]) /\ Stored[l] \in Place
  BY StoredAssumption DEF PlaceOK
<1>2. (CHOOSE p \in Posts : TRUE) \in Posts
  OBVIOUS
<1>3. Idle \in Lookup
  BY <1>2, RetriesAssumption DEF Idle, Lookup, MaybePoint
<1>4. ~Waiting(Idle) /\ \A place \in Place : CallOK(Idle, place)
  BY RetriesAssumption DEF CallOK, Idle, Waiting, Ends
<1>5. TypeOK
  <2>1. rows \in [Loads -> Place]
    BY StoredAssumption DEF Init
  <2>2. posts \in [Posts -> Place]
    BY <2>1 DEF Init
  <2>3. writes \in Seq(Write)
    BY DEF Init
  <2>4. calls \in [Lookups -> Lookup]
    BY <1>3 DEF Init
  <2>5. cache \in [Loads -> Texts \cup {"none"}]
    BY DEF Init
  <2>6. table \subseteq Loads
    BY DEF Init
  <2> QED  BY <2>1, <2>2, <2>3, <2>4, <2>5, <2>6 DEF TypeOK
<1>6. Idle.post \in Posts
  BY <1>3 DEF Lookup
<1>7. CallsInv
  BY <1>4, <1>5, <1>6 DEF Init, CallsInv, TypeOK
<1>8. PlacesInv
  BY <1>1 DEF Init, PlacesInv
<1>9. WritesInv
  BY DEF Init, WritesInv
<1> QED  BY <1>5, <1>7, <1>8, <1>9 DEF IInv

LEMMA InvStep == IInv /\ [Next]_vars => IInv'
<1> SUFFICES ASSUME IInv, [Next]_vars PROVE IInv'
  OBVIOUS
<1>1. CASE UNCHANGED vars
  BY <1>1 DEF vars, IInv, TypeOK, CallsInv, PlacesInv, WritesInv, Waiting
<1>2. CASE DbWrite \/ Tick \/ \E p \in Posts : Refetch(p)
  BY <1>2, DbWriteKeeps, TickKeeps, RefetchKeeps
<1>3. ASSUME NEW r \in Returns, NEW p \in Posts, PostReturn(r, p) PROVE IInv'
  BY <1>3, PostReturnKeeps
<1>4. ASSUME NEW i \in Lookups, NEW d \in Lookup, Effect(i, d) PROVE IInv'
  BY <1>4, EffectKeeps
<1> QED  BY <1>1, <1>2, <1>3, <1>4, LookupSteps DEF Next

LEMMA InvAlways == Spec => []IInv
BY InvInit, InvStep, PTL DEF Spec

-----------------------------------------------------------------------------
(* The theorems *)

(* The variables hold what their types say. *)
THEOREM LookupTypes == Spec => []TypeOK
<1>1. IInv => TypeOK
  BY DEF IInv
<1> QED  BY <1>1, InvAlways, PTL

(* No lookup waits longer than two geocoding requests, all the attempts    *)
(* and the pauses between them, whatever the network does and however      *)
(* many lookups overlap (getRoute of distance_service.dart).               *)
THEOREM LookupsEndInTime == Spec => []EndsInTime
<1>1. IInv => EndsInTime
  <2> SUFFICES ASSUME IInv, NEW i \in Lookups, Waiting(calls[i]) PROVE calls[i].age <= Deadline
    BY DEF EndsInTime
  <2> USE TimesAssumption, RetriesAssumption
  <2> DEFINE c == calls[i]
  <2>1. c \in Lookup /\ CallOK(c, posts[c.post]) /\ c.age \in Nat /\ c.timer \in Nat
        /\ c.attempt \in 0 .. MaxRetries
    BY CallFacts DEF Lookup
  <2>2. /\ RouteBudget(c.attempt) \in Int /\ PauseBudget(c.attempt) \in Int /\ Deadline \in Int
        /\ RouteBudget(c.attempt) <= Deadline
        /\ c.attempt < MaxRetries => PauseBudget(c.attempt) <= Deadline
        /\ 2 * GeocodeTime <= Deadline
    BY <2>1, Budgets
  <2>3. c.step \in {"origin", "destination", "route", "pause"}
    BY DEF Waiting, Ends
  <2>4. CASE c.step = "origin"
    <3>1. c.age + c.timer <= GeocodeTime
      BY <2>1, <2>4 DEF CallOK
    <3> QED  BY <2>1, <2>2, <3>1
  <2>5. CASE c.step = "destination"
    <3>1. c.age + c.timer <= 2 * GeocodeTime
      BY <2>1, <2>5 DEF CallOK
    <3> QED  BY <2>1, <2>2, <3>1
  <2>6. CASE c.step = "route"
    <3>1. c.age + c.timer <= RouteBudget(c.attempt)
      BY <2>1, <2>6 DEF CallOK
    <3> QED  BY <2>1, <2>2, <3>1
  <2>7. CASE c.step = "pause"
    <3>1. c.age + c.timer <= PauseBudget(c.attempt) /\ c.attempt < MaxRetries
      BY <2>1, <2>7 DEF CallOK
    <3> QED  BY <2>1, <2>2, <3>1
  <2> QED  BY <2>3, <2>4, <2>5, <2>6, <2>7
<1> QED  BY <1>1, InvAlways, PTL

(* An estimate of the service comes after all its attempts have failed     *)
(* (the loop of getRoute).                                                 *)
THEOREM EstimatesAreLast == Spec => []EstimateIsLastResort
<1>1. IInv => EstimateIsLastResort
  BY DEF IInv, CallsInv, CallOK, EstimateIsLastResort
<1> QED  BY <1>1, InvAlways, PTL

(* Coordinates stay with their addresses in the objects and the rows,      *)
(* whatever lookups, copies and return loads do, but for a return load     *)
(* that was posted with one end found (_createReturnLoadPosting).          *)
THEOREM CoordinatesStaySound == Spec => []CoordinatesSound
<1>1. IInv => CoordinatesSound
  BY DEF IInv, TypeOK, PlacesInv, PlaceOK, CoordinatesSound
<1> QED  BY <1>1, InvAlways, PTL

(* The copy of the object that calculateDistance writes has the two points *)
(* of its own route, whatever other lookups do to the object meanwhile     *)
(* (load_provider.dart:217).                                               *)
THEOREM WritesMatchRoutes == Spec => []WriteMatchesRoute
<1>1. IInv => WriteMatchesRoute
  <2> SUFFICES ASSUME IInv, NEW k \in DOMAIN writes
               PROVE  /\ writes[k].place.origin = calls[writes[k].lookup].from
                      /\ writes[k].place.destination = calls[writes[k].lookup].to
                      /\ Nowhere \notin {calls[writes[k].lookup].from, calls[writes[k].lookup].to}
    BY DEF WriteMatchesRoute
  <2>1. k \in 1 .. Len(writes)
    BY DEF IInv, TypeOK
  <2> QED  BY <2>1 DEF IInv, WritesInv, WriteOK
<1> QED  BY <1>1, InvAlways, PTL

StageOf(c) == IF Waiting(c) THEN "route" ELSE c.step

LEMMA StagesOf ==
  /\ Waiting(Idle) = FALSE
  /\ \A c : Waiting(c) => StageOf(c) = "route"
  /\ \A c : ~Waiting(c) => StageOf(c) = c.step
BY DEF Waiting, Ends, Idle, StageOf

LEMMA AbstractInit == Init => Abstract!Init
<1> SUFFICES ASSUME Init PROVE Abstract!Init
  OBVIOUS
<1>1. \A i \in Lookups : ~Waiting(calls[i]) /\ calls[i].step = "idle"
  BY StagesOf DEF Init, Idle
<1>2. \A l \in Loads : cache[l] = "none"
  BY DEF Init
<1> QED  BY <1>1, <1>2 DEF Abstract!Init

(* One effect is one abstract step, or none. *)
LEMMA EffectMaps ==
  ASSUME IInv, NEW i \in Lookups, NEW d \in Lookup, Effect(i, d)
  PROVE  Abstract!Next \/ UNCHANGED Abstract!abstract
<1> DEFINE stage == [j \in Lookups |-> IF Waiting(calls[j]) THEN "route" ELSE calls[j].step]
           subject == [j \in Lookups |-> LoadOfCall(calls[j])]
           cached == {l \in Loads : cache[l] # "none"}
           c == calls[i]
           l == LoadOf[d.post]
<1>1. /\ calls' = [calls EXCEPT ![i] = d] /\ Goes(c, d)
      /\ calls \in [Lookups -> Lookup] /\ cache \in [Loads -> Texts \cup {"none"}]
  BY DEF Effect, IInv, TypeOK
<1>2. l \in Loads /\ d.post \in Posts /\ "none" \notin Texts
  BY DEF Lookup, Texts
<1>3. stage' = [stage EXCEPT ![i] = StageOf(d)]
  BY <1>1 DEF StageOf
<1>4. subject' = [subject EXCEPT ![i] = l]
  BY <1>1 DEF LoadOfCall
<1>5. stage[i] = StageOf(c) /\ subject[i] = LoadOf[c.post]
  BY DEF StageOf, LoadOfCall
<1>6. cache' = cache => cached' = cached
  OBVIOUS
<1>7. ASSUME NEW text \in Texts, cache' = [cache EXCEPT ![l] = text] PROVE cached' = cached \cup {l}
  BY <1>1, <1>2, <1>7
<1>8. subject \in [Lookups -> Loads] /\ stage \in [Lookups -> {StageOf(e) : e \in Lookup}]
  BY <1>1 DEF StageOf, LoadOfCall, Lookup
<1>9. c.post = d.post => subject' = subject
  BY <1>4, <1>5, <1>8
<1> HIDE DEF stage, subject, cached, c, l
<1>10. CASE /\ c.step = "idle" /\ cache[l] = "none" /\ cache' = cache
            /\ Waiting(d) \/ (d.step = "done" /\ l \in Unaddressed)
  <2>1. stage[i] = "idle" /\ l \notin cached /\ cached' = cached
    BY <1>5, <1>6, <1>10 DEF StageOf, Waiting, Ends, cached
  <2>2. StageOf(d) = "route" \/ (StageOf(d) = "done" /\ l \in Unaddressed)
    BY <1>10 DEF StageOf, Waiting, Ends
  <2>3. Abstract!Start(i, l)
    BY <1>3, <1>4, <2>1, <2>2 DEF Abstract!Start, stage, subject, cached
  <2> QED  BY <1>2, <2>3 DEF Abstract!Next
<1>11. CASE Waiting(c) /\ Waiting(d) /\ d.post = c.post /\ cache' = cache
  <2>1. stage' = stage
    BY <1>3, <1>5, <1>8, <1>11, StagesOf
  <2> QED  BY <1>6, <1>9, <1>11, <2>1 DEF Abstract!abstract, stage, subject, cached
<1>12. CASE /\ Waiting(c) /\ d.step \in {"save", "done"} /\ d.post = c.post
            /\ \E text \in Texts : cache' = [cache EXCEPT ![l] = text]
  <2>1. cached' = cached \cup {subject[i]} /\ stage[i] = "route" /\ subject' = subject
    BY <1>5, <1>7, <1>9, <1>12, StagesOf DEF l
  <2>2. StageOf(d) = d.step
    BY <1>12 DEF StageOf, Waiting, Ends
  <2>3. Abstract!Found(i) \/ Abstract!Missing(i)
    BY <1>3, <1>12, <2>1, <2>2
       DEF Abstract!Found, Abstract!Missing, Abstract!Ends, stage, subject, cached
  <2> QED  BY <2>3 DEF Abstract!Next
<1>13. CASE /\ Waiting(c) /\ d.step = "done" /\ d.post = c.post
            /\ cache' = cache /\ l \in Unaddressed
  <2>1. cached' = cached /\ stage[i] = "route" /\ subject' = subject /\ subject[i] \in Unaddressed
    BY <1>5, <1>6, <1>9, <1>13, StagesOf DEF l
  <2>2. StageOf(d) = "done"
    BY <1>13 DEF StageOf, Waiting, Ends
  <2>3. Abstract!NoAddress(i)
    BY <1>3, <2>1, <2>2 DEF Abstract!NoAddress, Abstract!Ends, stage, subject, cached
  <2> QED  BY <2>3 DEF Abstract!Next
<1> QED  BY <1>1, <1>10, <1>11, <1>12, <1>13 DEF Goes, c, l

(* Steps that move no lookup are no abstract steps. *)
LEMMA Unmoved ==
  ASSUME cache' = cache,
         \A j \in Lookups : calls'[j].step = calls[j].step /\ calls'[j].post = calls[j].post
  PROVE  UNCHANGED Abstract!abstract
BY DEF Abstract!abstract, Waiting, LoadOfCall

LEMMA TickMaps ==
  ASSUME IInv, Tick
  PROVE  UNCHANGED Abstract!abstract
<1>1. /\ calls \in [Lookups -> Lookup] /\ cache' = cache
      /\ calls' = [j \in Lookups |-> IF Waiting(calls[j])
                                     THEN [calls[j] EXCEPT !.timer = @ - 1, !.age = @ + 1]
                                     ELSE calls[j]]
  BY DEF IInv, TypeOK, Tick
<1>2. ASSUME NEW j \in Lookups
      PROVE  calls'[j].step = calls[j].step /\ calls'[j].post = calls[j].post
  <2>1. calls[j] \in Lookup
    BY <1>1
  <2>2. CASE Waiting(calls[j])
    <3> DEFINE d == [calls[j] EXCEPT !.timer = @ - 1, !.age = @ + 1]
    <3>1. calls'[j] = d
      BY <1>1, <2>2
    <3>2. d.step = calls[j].step /\ d.post = calls[j].post
      BY <2>1 DEF Lookup
    <3> QED  BY <3>1, <3>2
  <2> QED  BY <1>1, <2>2
<1> QED  BY <1>1, <1>2, Unmoved

(* The write of a row ends its lookup; a second copy of the object ends    *)
(* none.                                                                   *)
LEMMA DbWriteMaps ==
  ASSUME IInv, DbWrite
  PROVE  Abstract!Next \/ UNCHANGED Abstract!abstract
<1> DEFINE stage == [j \in Lookups |-> IF Waiting(calls[j]) THEN "route" ELSE calls[j].step]
           subject == [j \in Lookups |-> LoadOfCall(calls[j])]
           cached == {l \in Loads : cache[l] # "none"}
<1>1. calls \in [Lookups -> Lookup] /\ writes \in Seq(Write) /\ writes # << >>
  BY DEF IInv, TypeOK, DbWrite
<1>2. Head(writes) = writes[1] /\ Head(writes) \in Write /\ 1 \in 1 .. Len(writes)
  BY <1>1, Rest
<1>3. PICK i \in Lookups : i = Head(writes).lookup
  BY <1>2 DEF Write
<1> DEFINE d == [calls[i] EXCEPT !.step = "done"]
<1>4. /\ calls[i].step \in {"save", "done"}
      /\ calls' = [calls EXCEPT ![i] = d] /\ cache' = cache
  BY <1>2, <1>3 DEF IInv, WritesInv, WriteOK, DbWrite, Becomes
<1>5. calls[i] \in Lookup
  BY <1>1, <1>4
<1>6. d.step = "done" /\ d.post = calls[i].post
  BY <1>5 DEF Lookup
<1> HIDE DEF d
<1>7. ~Waiting(d) /\ ~Waiting(calls[i])
  BY <1>4, <1>6 DEF Waiting, Ends
<1>8. CASE calls[i].step = "done"
  BY <1>1, <1>4, <1>6, <1>8, Unmoved
<1>9. CASE calls[i].step = "save"
  <2>1. stage' = [stage EXCEPT ![i] = "done"] /\ stage[i] = "save"
    BY <1>1, <1>4, <1>6, <1>7, <1>9
  <2>2. subject' = subject
    BY <1>1, <1>4, <1>6 DEF LoadOfCall
  <2>3. cached' = cached
    BY <1>4
  <2>4. Abstract!Saved(i)
    BY <2>1, <2>2, <2>3 DEF Abstract!Saved
  <2> QED  BY <2>4 DEF Abstract!Next
<1> QED  BY <1>4, <1>8, <1>9

LEMMA AbstractStep ==
  IInv /\ [Next]_vars => Abstract!Next \/ UNCHANGED Abstract!abstract
<1> SUFFICES ASSUME IInv, [Next]_vars PROVE Abstract!Next \/ UNCHANGED Abstract!abstract
  OBVIOUS
<1>1. CASE UNCHANGED vars
  BY <1>1, Unmoved DEF vars
<1>2. CASE \E p \in Posts : Refetch(p)
  BY <1>2, Unmoved DEF Refetch
<1>3. CASE DbWrite \/ Tick
  BY <1>3, DbWriteMaps, TickMaps
<1>4. ASSUME NEW r \in Returns, NEW p \in Posts, PostReturn(r, p) PROVE UNCHANGED Abstract!abstract
  BY <1>4, Unmoved DEF PostReturn
<1>5. ASSUME NEW i \in Lookups, NEW d \in Lookup, Effect(i, d)
      PROVE  Abstract!Next \/ UNCHANGED Abstract!abstract
  BY <1>5, EffectMaps
<1> QED  BY <1>1, <1>2, <1>3, <1>4, <1>5, LookupSteps DEF Next

(* calculateDistance with its timers, retries and overlapping lookups is   *)
(* the lookup that LoadBoard is written against.                           *)
THEOREM LookupsRefine == Spec => RefinesLookup
BY AbstractInit, AbstractStep, InvAlways, PTL DEF Spec, RefinesLookup, Abstract!Spec
=============================================================================
