--------------------------- MODULE LiveViewProofs ---------------------------
(***************************************************************************)
(* What TLAPS proves about LiveView, for any number of requests, sources,  *)
(* bags and peers: the picture of a camera is that of its row, no bag of   *)
(* the simulated conveyor is forgotten, and the line has no more live      *)
(* peers than its maximum.                                                 *)
(***************************************************************************)
EXTENDS LiveView, FiniteSetTheorems, TLAPS

\* A request that is past the dictionaries has what it took from them.
Placed(s) ==
  /\ slot[s].at = "commit" => slot[s].kind = "source"
  /\ slot[s].at = "connect" => slot[s].kind = "source" /\ slot[s].obj # None
  /\ slot[s].at = "put" => slot[s].obj = s
  /\ slot[s].at = "watch" => slot[s].obj # None
  /\ slot[s].at \in {"take", "render"} => renderer # None
  /\ slot[s].at \in {"frame", "filter", "pass"} => slot[s].obj # None
  /\ slot[s].at = "pass" => slot[s].bag # 0

PlaceInv == TypeOK /\ \A s \in Slots : Placed(s)

\* A change of the source that is past the row and not yet at the feed.
Changing(s) == slot[s].kind = "source" /\ slot[s].at \in {"look", "put", "connect"}

\* Whoever constructs the feed does it alone and for the source of the row.
Puts(s) ==
  slot[s].at = "put" =>
    /\ feed = None /\ slot[s].source = row
    /\ \A o \in Slots \ {s} : slot[o].at \notin {"put", "connect"}

\* Who has the feed of the camera has the one that is registered, and a change
\* that is past the row knows the row.
FeedOf(s) ==
  /\ Puts(s)
  /\ Changing(s) => slot[s].source = row
  /\ slot[s].at \in {"connect", "watch"} => slot[s].obj = feed

\* The feed shows the row unless a change is on its way to it.
Shown == (feed # None /\ \A s \in Slots : ~Changing(s)) => feeds[feed] \in {row, None}

FeedInv == ~raced => Shown /\ \A s \in Slots : FeedOf(s)

\* A live connection is in the table, or is the one that is being evicted, for
\* which there is room in the table then.
PeerInv ==
  /\ \A p \in Peers : Live(p) => p \in peers \/ \E s \in Slots : slot[s].at = "evict" /\ slot[s].peer = p
  /\ Cardinality(peers) <= MaxPeers
  /\ \A s \in Slots : slot[s].at \in {"evict", "add"} => Cardinality(peers) < MaxPeers

-----------------------------------------------------------------------------
(* Requests *)

LEMMA ConstantsAre ==
  /\ None \notin Sources /\ None \notin Slots /\ None \notin Peers /\ Slots \cap Peers = {}
  /\ MaxBags \in Nat /\ MaxPeers \in Nat \ {0} /\ MaxMade \in Nat
BY NoneAssumption, HoldersAssumption, BoundsAssumption

\* The requests are what they were, but for one.
Moved(s) == slot' \in [Slots -> Requests] /\ \A o \in Slots \ {s} : slot'[o] = slot[o]

\* What a step without a payload leaves of its request.
Same(s) ==
  /\ slot'[s].kind = slot[s].kind /\ slot'[s].obj = slot[s].obj /\ slot'[s].source = slot[s].source
  /\ slot'[s].knows = slot[s].knows /\ slot'[s].bag = slot[s].bag
  /\ slot'[s].kept = slot[s].kept /\ slot'[s].peer = slot[s].peer

LEMMA FreeIs ==
  /\ Free \in Requests /\ Free.at = "free" /\ Free.obj = None /\ Free.peer = None
BY ConstantsAre DEF Free, Requests, Steps

LEMMA Replaced ==
  ASSUME slot \in [Slots -> Requests], NEW s \in Slots, NEW r \in Requests, slot' = [slot EXCEPT ![s] = r]
  PROVE  Moved(s) /\ slot'[s] = r
BY DEF Moved

LEMMA GoesIs ==
  ASSUME slot \in [Slots -> Requests], NEW s \in Slots, NEW step \in Steps, Goes(s, step)
  PROVE  Moved(s) /\ slot'[s].at = step /\ Same(s)
<1> DEFINE r == [slot[s] EXCEPT !.at = step]
<1>1. slot[s] \in Requests
  OBVIOUS
<1>2. /\ r \in Requests /\ r.at = step /\ r.kind = slot[s].kind /\ r.obj = slot[s].obj
      /\ r.source = slot[s].source /\ r.knows = slot[s].knows /\ r.bag = slot[s].bag
      /\ r.kept = slot[s].kept /\ r.peer = slot[s].peer
  BY <1>1 DEF Requests
<1>3. slot' = [slot EXCEPT ![s] = r]
  BY DEF Goes
<1> HIDE DEF r
<1> QED
  BY <1>2, <1>3, Replaced DEF Same

LEMMA EndsIs ==
  ASSUME slot \in [Slots -> Requests], NEW s \in Slots, Ends(s)
  PROVE  Moved(s) /\ slot'[s].at = "free"
BY FreeIs, Replaced DEF Ends

LEMMA ArriveIs ==
  ASSUME slot \in [Slots -> Requests], NEW s \in Slots, NEW kind \in Kinds,
         NEW c \in Sources \cup {None}, NEW step \in Steps, Arrive(s, kind, c, step)
  PROVE  /\ Moved(s) /\ slot[s].at = "free" /\ slot'[s].at = step
         /\ slot'[s].kind = kind /\ slot'[s].source = c /\ slot'[s].obj = None
<1> DEFINE r == [Free EXCEPT !.kind = kind, !.source = c, !.at = step]
<1>1. r \in Requests /\ r.at = step /\ r.kind = kind /\ r.source = c /\ r.obj = None
  BY FreeIs DEF Requests
<1>2. slot' = [slot EXCEPT ![s] = r] /\ slot[s].at = "free"
  BY DEF Arrive
<1> HIDE DEF r
<1> QED
  BY <1>1, <1>2, Replaced

\* What the other steps do to their request.
LEMMA LookFeedIs ==
  ASSUME TypeOK, NEW s \in Slots, LookFeed(s)
  PROVE  /\ Moved(s) /\ slot'[s].kind = slot[s].kind
         /\ feed # None => /\ slot'[s].at = IF slot[s].kind = "source" THEN "connect" ELSE "watch"
                           /\ slot'[s].obj = feed /\ slot'[s].source = slot[s].source
         /\ feed = None => /\ slot'[s].at = "put" /\ slot'[s].obj = s
                           /\ slot'[s].source = IF slot[s].kind = "source" THEN slot[s].source ELSE row
<1> DEFINE step == IF slot[s].kind = "source" THEN "connect" ELSE "watch"
           c == IF slot[s].kind = "source" THEN slot[s].source ELSE row
           r == [slot[s] EXCEPT !.at = step, !.obj = feed]
           w == [slot[s] EXCEPT !.at = "put", !.obj = s, !.source = c]
<1>1. slot \in [Slots -> Requests] /\ slot[s] \in Requests /\ feed \in Slots \cup {None} /\ row \in Sources \cup {None}
  BY DEF TypeOK
<1>2. step \in Steps /\ c \in Sources \cup {None} /\ "put" \in Steps
  BY <1>1 DEF Steps, Requests
<1>3. CASE feed # None
  <2>1. slot' = [slot EXCEPT ![s] = r]
    BY <1>3 DEF LookFeed
  <2> HIDE DEF step, c
  <2>2. r \in Requests /\ r.at = step /\ r.obj = feed /\ r.source = slot[s].source /\ r.kind = slot[s].kind
    BY <1>1, <1>2 DEF Requests
  <2> HIDE DEF r
  <2> QED
    BY <1>1, <1>3, <2>1, <2>2, Replaced DEF step
<1>4. CASE feed = None
  <2>1. slot' = [slot EXCEPT ![s] = w]
    BY <1>4 DEF LookFeed
  <2> HIDE DEF step, c
  <2>2. w \in Requests /\ w.at = "put" /\ w.obj = s /\ w.source = c /\ w.kind = slot[s].kind
    BY <1>1, <1>2 DEF Requests
  <2> HIDE DEF w
  <2> QED
    BY <1>1, <1>4, <2>1, <2>2, Replaced DEF c
<1> QED
  BY <1>3, <1>4

LEMMA TakeRendererIs ==
  ASSUME TypeOK, NEW s \in Slots, TakeRenderer(s)
  PROVE  Moved(s) /\ slot'[s].at = "frame" /\ slot'[s].obj = renderer
<1> DEFINE r == [slot[s] EXCEPT !.at = "frame", !.obj = renderer]
<1>1. slot \in [Slots -> Requests] /\ slot[s] \in Requests /\ renderer \in Slots \cup {None}
  BY DEF TypeOK
<1>2. slot' = [slot EXCEPT ![s] = r]
  BY DEF TakeRenderer
<1>3. r \in Requests /\ r.at = "frame" /\ r.obj = renderer
  BY <1>1 DEF Requests, Steps
<1> HIDE DEF r
<1> QED
  BY <1>1, <1>2, <1>3, Replaced

LEMMA LookUpSessionIs ==
  ASSUME TypeOK, NEW s \in Slots, LookUpSession(s)
  PROVE  Moved(s) /\ slot'[s].at = "frame" /\ slot'[s].obj = slot[s].obj
<1>1. slot \in [Slots -> Requests] /\ slot[s] \in Requests /\ active \in BOOLEAN /\ slot[s].at = "frame"
  BY DEF TypeOK, LookUpSession
<1>2. PICK known \in BOOLEAN : slot' = [slot EXCEPT ![s] = [slot[s] EXCEPT !.knows = known]]
  BY <1>1 DEF LookUpSession
<1> DEFINE r == [slot[s] EXCEPT !.knows = known]
<1>3. r \in Requests /\ r.at = "frame" /\ r.obj = slot[s].obj
  BY <1>1 DEF Requests
<1> HIDE DEF r
<1> QED
  BY <1>1, <1>2, <1>3, Replaced DEF r

LEMMA SeeBagIs ==
  ASSUME TypeOK, NEW s \in Slots, SeeBag(s), slot[s].obj \in Slots
  PROVE  Moved(s) /\ slot'[s].at = "pass" /\ slot'[s].obj = slot[s].obj /\ slot'[s].bag \in 1..MaxBags
<1>1. slot \in [Slots -> Requests] /\ slot[s] \in Requests /\ views[slot[s].obj].coming \subseteq 1..MaxBags
  BY DEF TypeOK, Views
<1>2. PICK b \in 1..MaxBags : slot' = [slot EXCEPT ![s] = [slot[s] EXCEPT !.at = "pass", !.bag = b]]
  BY <1>1 DEF SeeBag
<1> DEFINE r == [slot[s] EXCEPT !.at = "pass", !.bag = b]
<1>3. b \in 0..MaxBags
  BY ConstantsAre
<1>4. r \in Requests /\ r.at = "pass" /\ r.obj = slot[s].obj /\ r.bag = b
  BY <1>1, <1>3 DEF Requests, Steps
<1> HIDE DEF r
<1> QED
  BY <1>1, <1>2, <1>4, Replaced DEF r

LEMMA PassBagIs ==
  ASSUME TypeOK, NEW s \in Slots, PassBag(s)
  PROVE  Moved(s) /\ slot'[s].at = "frame" /\ slot'[s].obj = slot[s].obj
<1> DEFINE r == [slot[s] EXCEPT !.at = "frame", !.bag = 0]
<1>1. slot \in [Slots -> Requests] /\ slot[s] \in Requests
  BY DEF TypeOK
<1>2. slot' = [slot EXCEPT ![s] = r]
  BY DEF PassBag
<1>3. 0 \in 0..MaxBags
  BY ConstantsAre
<1>4. r \in Requests /\ r.at = "frame" /\ r.obj = slot[s].obj
  BY <1>1, <1>3 DEF Requests, Steps
<1> HIDE DEF r
<1> QED
  BY <1>1, <1>2, <1>4, Replaced

LEMMA NextFrameIs ==
  ASSUME TypeOK, NEW s \in Slots, NextFrame(s)
  PROVE  Moved(s) /\ slot'[s].at = "find"
<1> DEFINE r == [slot[s] EXCEPT !.at = "find", !.obj = None]
<1>1. slot \in [Slots -> Requests] /\ slot[s] \in Requests
  BY DEF TypeOK
<1>2. slot' = [slot EXCEPT ![s] = r]
  BY DEF NextFrame
<1>3. r \in Requests /\ r.at = "find"
  BY <1>1 DEF Requests, Steps
<1> HIDE DEF r
<1> QED
  BY <1>1, <1>2, <1>3, Replaced

\* A frame of the conveyor: a bag may enter it, and the bags in the picture
\* are put into a new list.
LEMMA DrawConveyorIs ==
  ASSUME TypeOK, NEW s \in Slots, DrawConveyor(s), slot[s].obj \in Slots
  PROVE  /\ Moved(s) /\ slot'[s].at = "filter" /\ slot'[s].obj = slot[s].obj
         /\ views' \in [Slots -> Views]
         /\ \A o \in Slots : \A b \in 1..MaxBags :
              /\ b <= views'[o].next => b <= views[o].next \/ b \in views'[o].coming
              /\ b \in views[o].coming => b \in views'[o].coming
<1> DEFINE v == views[slot[s].obj]
<1>1. /\ slot \in [Slots -> Requests] /\ slot[s] \in Requests /\ views \in [Slots -> Views]
      /\ v \in Views /\ v.next \in Nat /\ v.coming \subseteq 1..MaxBags
  BY DEF TypeOK, Views
<1> HIDE DEF v
<1>2. PICK n \in {v.next, v.next + 1} \cap 0..MaxBags :
        /\ views' = [views EXCEPT ![slot[s].obj] = [v EXCEPT !.next = n, !.coming = v.coming \cup (v.next + 1)..n]]
        /\ slot' = [slot EXCEPT ![s] = [slot[s] EXCEPT !.at = "filter", !.kept = v.coming \cup (v.next + 1)..n]]
  BY DEF DrawConveyor, v
<1> DEFINE now == v.coming \cup (v.next + 1)..n
           w == [v EXCEPT !.next = n, !.coming = now]
           r == [slot[s] EXCEPT !.at = "filter", !.kept = now]
<1>3. now \subseteq 1..MaxBags /\ \A b \in 1..MaxBags : b <= n => b <= v.next \/ b \in now
  BY <1>1
<1> HIDE DEF now
<1>4. w \in Views /\ w.next = n /\ w.coming = now
  BY <1>1, <1>3, ConstantsAre DEF Views
<1>5. r \in Requests /\ r.at = "filter" /\ r.obj = slot[s].obj
  BY <1>1, <1>3 DEF Requests, Steps
<1>6. views' = [views EXCEPT ![slot[s].obj] = w] /\ slot' = [slot EXCEPT ![s] = r]
  BY <1>2 DEF now
<1> HIDE DEF w, r
<1>7. /\ views' \in [Slots -> Views] /\ views'[slot[s].obj] = w
      /\ \A o \in Slots : o # slot[s].obj => views'[o] = views[o]
  BY <1>1, <1>4, <1>6
<1>8. v.coming \subseteq now /\ v = views[slot[s].obj]
  BY DEF now, v
<1> QED
  BY <1>1, <1>3, <1>4, <1>5, <1>6, <1>7, <1>8, Replaced

\* The new list replaces the old one; what was put there meanwhile is missed.
LEMMA FilterBagsIs ==
  ASSUME TypeOK, NEW s \in Slots, FilterBags(s), slot[s].obj \in Slots
  PROVE  /\ Moved(s) /\ slot'[s].at = "frame" /\ slot'[s].obj = slot[s].obj
         /\ views' \in [Slots -> Views] /\ missed' \subseteq 1..MaxBags
         /\ \A o \in Slots : /\ views'[o].next = views[o].next
                             /\ \A b \in views[o].coming : b \in views'[o].coming \cup missed'
<1> DEFINE v == views[slot[s].obj]
           w == [v EXCEPT !.coming = v.coming \cap slot[s].kept]
           r == [slot[s] EXCEPT !.at = "frame", !.kept = {}]
<1>1. /\ slot \in [Slots -> Requests] /\ slot[s] \in Requests /\ views \in [Slots -> Views]
      /\ v \in Views /\ missed \subseteq 1..MaxBags
  BY DEF TypeOK
<1>2. views' = [views EXCEPT ![slot[s].obj] = w] /\ slot' = [slot EXCEPT ![s] = r]
  BY DEF FilterBags
<1>3. missed' = missed \cup (v.coming \ slot[s].kept) /\ v = views[slot[s].obj]
  BY DEF FilterBags
<1> HIDE DEF v
<1>4. w \in Views /\ w.next = v.next /\ w.coming = v.coming \cap slot[s].kept
  BY <1>1 DEF Views
<1>5. r \in Requests /\ r.at = "frame" /\ r.obj = slot[s].obj
  BY <1>1 DEF Requests, Steps
<1>6. missed' \subseteq 1..MaxBags
  BY <1>1, <1>3 DEF Views
<1> HIDE DEF w, r
<1>7. /\ views' \in [Slots -> Views] /\ views'[slot[s].obj] = w
      /\ \A o \in Slots : o # slot[s].obj => views'[o] = views[o]
  BY <1>1, <1>2, <1>4
<1> QED
  BY <1>1, <1>2, <1>3, <1>4, <1>5, <1>6, <1>7, Replaced

LEMMA BagLeaves ==
  ASSUME TypeOK, NEW s \in Slots, PassBag(s), slot[s].obj \in Slots, slot[s].bag \in 1..MaxBags
  PROVE  /\ views' \in [Slots -> Views] /\ ledger' \subseteq 1..MaxBags /\ missed' \subseteq 1..MaxBags
         /\ ledger \subseteq ledger' /\ missed \subseteq missed'
         /\ \A o \in Slots : /\ views'[o].next = views[o].next
                             /\ \A b \in views[o].coming : b \in views'[o].coming \cup ledger' \cup missed'
<1> DEFINE v == views[slot[s].obj]
           w == [v EXCEPT !.coming = v.coming \ {slot[s].bag}]
<1>1. /\ views \in [Slots -> Views] /\ v \in Views
      /\ missed \subseteq 1..MaxBags /\ ledger \subseteq 1..MaxBags
  BY DEF TypeOK
<1>2. views' = [views EXCEPT ![slot[s].obj] = w]
  BY DEF PassBag
<1>3. \/ ledger' = ledger \cup {slot[s].bag} /\ missed' = missed
      \/ ledger' = ledger /\ missed' = missed \cup {slot[s].bag}
  BY DEF PassBag
<1>4. v = views[slot[s].obj]
  OBVIOUS
<1> HIDE DEF v
<1>5. w \in Views /\ w.next = v.next /\ w.coming = v.coming \ {slot[s].bag}
  BY <1>1 DEF Views
<1> HIDE DEF w
<1>6. /\ views' \in [Slots -> Views] /\ views'[slot[s].obj] = w
      /\ \A o \in Slots : o # slot[s].obj => views'[o] = views[o]
  BY <1>1, <1>2, <1>5
<1>7. /\ ledger' \subseteq 1..MaxBags /\ missed' \subseteq 1..MaxBags
      /\ ledger \subseteq ledger' /\ missed \subseteq missed' /\ slot[s].bag \in ledger' \cup missed'
  BY <1>1, <1>3
<1> QED
  BY <1>4, <1>5, <1>6, <1>7

LEMMA AdmitIs ==
  ASSUME TypeOK, NEW s \in Slots, Admit(s)
  PROVE  /\ Moved(s) /\ lock' = s /\ slot[s].at = "lock" /\ lock = None
         /\ \/ /\ slot'[s].at = "evict" /\ slot'[s].peer \in peers /\ peers' = peers \ {slot'[s].peer}
            \/ slot'[s].at = "add" /\ peers' = peers /\ ~ (Cardinality(peers) >= MaxPeers)
<1>1. /\ slot \in [Slots -> Requests] /\ slot[s] \in Requests /\ peers \subseteq Peers
      /\ slot[s].at = "lock" /\ lock = None /\ lock' = s
  BY DEF TypeOK, Admit
<1>2. CASE Cardinality(peers) >= MaxPeers
  <2>1. PICK p \in peers : /\ peers' = peers \ {p}
                           /\ slot' = [slot EXCEPT ![s] = [slot[s] EXCEPT !.at = "evict", !.peer = p]]
    BY <1>2 DEF Admit
  <2> DEFINE r == [slot[s] EXCEPT !.at = "evict", !.peer = p]
  <2>2. r \in Requests /\ r.at = "evict" /\ r.peer = p
    BY <1>1 DEF Requests, Steps
  <2>3. slot' = [slot EXCEPT ![s] = r]
    BY <2>1
  <2> HIDE DEF r
  <2>4. Moved(s) /\ slot'[s] = r
    BY <1>1, <2>2, <2>3, Replaced
  <2> QED
    BY <1>1, <2>1, <2>2, <2>4
<1>3. CASE ~ (Cardinality(peers) >= MaxPeers)
  <2>1. Goes(s, "add") /\ peers' = peers /\ "add" \in Steps
    BY <1>3 DEF Admit, Steps
  <2>2. Moved(s) /\ slot'[s].at = "add"
    BY <1>1, <2>1, GoesIs
  <2> QED
    BY <1>1, <1>3, <2>1, <2>2
<1> QED
  BY <1>2, <1>3

LEMMA EvictIs ==
  ASSUME TypeOK, NEW s \in Slots, Evict(s)
  PROVE  Moved(s) /\ slot[s].at = "evict" /\ slot'[s].at = "add"
<1> DEFINE r == [slot[s] EXCEPT !.at = "add", !.peer = None]
<1>1. slot \in [Slots -> Requests] /\ slot[s] \in Requests
  BY DEF TypeOK
<1>2. slot' = [slot EXCEPT ![s] = r] /\ slot[s].at = "evict"
  BY DEF Evict
<1>3. r \in Requests /\ r.at = "add"
  BY <1>1 DEF Requests, Steps
<1> HIDE DEF r
<1> QED
  BY <1>1, <1>2, <1>3, Replaced

LEMMA AddPeerIs ==
  ASSUME TypeOK, NEW s \in Slots, AddPeer(s)
  PROVE  /\ Moved(s) /\ slot[s].at = "add" /\ slot'[s].at = "negotiate" /\ lock' = None
         /\ \E p \in Peers : /\ conn[p] = "none" /\ conn' = [conn EXCEPT ![p] = "new"]
                             /\ peers' = peers \cup {p}
<1>1. slot \in [Slots -> Requests] /\ slot[s] \in Requests /\ slot[s].at = "add" /\ lock' = None
  BY DEF TypeOK, AddPeer
<1>2. PICK p \in Peers : /\ conn[p] = "none" /\ conn' = [conn EXCEPT ![p] = "new"]
                         /\ peers' = peers \cup {p}
                         /\ slot' = [slot EXCEPT ![s] = [slot[s] EXCEPT !.at = "negotiate", !.peer = p]]
  BY DEF AddPeer
<1> DEFINE r == [slot[s] EXCEPT !.at = "negotiate", !.peer = p]
<1>3. r \in Requests /\ r.at = "negotiate"
  BY <1>1 DEF Requests, Steps
<1>4. slot' = [slot EXCEPT ![s] = r]
  BY <1>2
<1> HIDE DEF r
<1>5. Moved(s) /\ slot'[s].at = "negotiate"
  BY <1>1, <1>3, <1>4, Replaced
<1> QED
  BY <1>1, <1>2, <1>5

-----------------------------------------------------------------------------
(* Types and places *)

\* What is known of a step of a request that has nothing to do with the lock:
\* it leaves its own request in place, and the renderer where it is.
Tidy(s) ==
  /\ Moved(s) /\ Placed(s)' /\ lock' = lock
  /\ renderer # None => renderer' # None
  /\ slot[s].at \notin {"evict", "add"} /\ slot'[s].at \notin {"evict", "add"}

Arrivals(s) ==
  \/ ViewFeed(s) \/ ViewLine(s) \/ Offer(s)
  \/ \E c \in Sources \cup {None} : ChangeSource(s, c) \/ ChangeLine(s, c)

LEMMA ArrivalsAre ==
  ASSUME PlaceInv, NEW s \in Slots, Arrivals(s)
  PROVE  /\ Tidy(s) /\ slot[s].at = "free"
         /\ \/ slot'[s].kind = "source" /\ slot'[s].at = "commit"
            \/ slot'[s].kind # "source" /\ slot'[s].at \in {"look", "find", "lock"}
         /\ UNCHANGED <<mix, live, belt, webrtc, raced>>
<1>1. slot \in [Slots -> Requests]
  BY DEF PlaceInv, TypeOK
<1>2. {"commit", "look", "find", "lock"} \subseteq Steps /\ Kinds \subseteq Kinds
  BY DEF Steps
<1>3. PICK kind \in Kinds, c \in Sources \cup {None}, step \in {"commit", "look", "find", "lock"} :
        /\ Arrive(s, kind, c, step) /\ UNCHANGED <<mix, live, belt, webrtc, raced>>
        /\ kind = "source" <=> step = "commit"
  BY DEF Arrivals, ViewFeed, ViewLine, Offer, ChangeSource, ChangeLine, Kinds
<1>4. /\ Moved(s) /\ slot[s].at = "free" /\ slot'[s].at = step /\ slot'[s].kind = kind
  BY <1>1, <1>2, <1>3, ArriveIs
<1> QED
  BY <1>3, <1>4 DEF Tidy, Placed, belt, webrtc

LEMMA FeedStepsAre ==
  ASSUME PlaceInv, NEW s \in Slots, FeedSteps(s)
  PROVE  Tidy(s) /\ UNCHANGED <<mix, belt, webrtc>>
<1>0. /\ TypeOK /\ slot \in [Slots -> Requests] /\ Placed(s) /\ s # None
      /\ {"look", "put", "connect", "watch", "find"} \subseteq Steps
  BY ConstantsAre DEF PlaceInv, TypeOK, Steps
<1>1. CASE CommitSource(s)
  <2>1. Moved(s) /\ slot'[s].at = "look" /\ Same(s)
    BY <1>0, <1>1, GoesIs DEF CommitSource
  <2> QED
    BY <1>1, <2>1 DEF CommitSource, Tidy, Placed, belt, webrtc
<1>2. CASE LookFeed(s)
  BY <1>0, <1>2, LookFeedIs DEF LookFeed, Tidy, Placed, belt, webrtc
<1>3. CASE PutFeed(s)
  <2> DEFINE step == IF slot[s].kind = "source" THEN "connect" ELSE "watch"
  <2>1. Moved(s) /\ slot'[s].at = step /\ Same(s)
    BY <1>0, <1>3, GoesIs DEF PutFeed
  <2> QED
    BY <1>0, <1>3, <2>1 DEF PutFeed, Tidy, Placed, belt, webrtc, Same
<1>4. CASE ConnectFeed(s)
  <2>1. Moved(s) /\ slot'[s].at = "find"
    BY <1>0, <1>4, GoesIs DEF ConnectFeed
  <2> QED
    BY <1>4, <2>1 DEF ConnectFeed, Tidy, Placed, belt, webrtc
<1>5. CASE LeaveFeed(s)
  <2>1. Moved(s) /\ slot'[s].at = "free"
    BY <1>0, <1>5, EndsIs DEF LeaveFeed
  <2> QED
    BY <1>5, <2>1 DEF LeaveFeed, Tidy, Placed, belt, webrtc
<1> QED
  BY <1>1, <1>2, <1>3, <1>4, <1>5 DEF FeedSteps

LEMMA RendererStepsAre ==
  ASSUME PlaceInv, NEW s \in Slots, RendererSteps(s)
  PROVE  /\ Tidy(s) /\ UNCHANGED <<mix, live, active, ledger, manual, missed, webrtc, raced>>
         /\ ~ (slot[s].at \in {"look", "put", "connect", "watch"})
         /\ ~ (slot'[s].at \in {"look", "put", "connect", "watch"})
<1>0. /\ TypeOK /\ slot \in [Slots -> Requests] /\ Placed(s) /\ s # None
      /\ {"make", "render", "take", "frame", "find"} \subseteq Steps
  BY ConstantsAre DEF PlaceInv, TypeOK, Steps
<1>1. CASE FindRenderer(s)
  <2> DEFINE step == IF renderer = None THEN "make" ELSE IF slot[s].kind \in {"source", "line"} THEN "render" ELSE "take"
  <2>1. step \in Steps
    BY <1>0
  <2>2. Moved(s) /\ slot'[s].at = step
    BY <1>0, <1>1, <2>1, GoesIs DEF FindRenderer
  <2> QED
    BY <1>1, <2>2 DEF FindRenderer, Tidy, Placed, belt, webrtc
<1>2. CASE MakeRenderer(s)
  <2> DEFINE step == IF slot[s].kind \in {"source", "line"} THEN "render" ELSE "take"
  <2>1. Moved(s) /\ slot'[s].at = step
    BY <1>0, <1>2, GoesIs DEF MakeRenderer
  <2> QED
    BY <1>0, <1>2, <2>1 DEF MakeRenderer, Tidy, Placed, webrtc
<1>3. CASE TakeRenderer(s)
  BY <1>0, <1>3, TakeRendererIs DEF TakeRenderer, Tidy, Placed, belt, webrtc
<1>4. CASE SetRenderer(s)
  <2>1. Moved(s) /\ slot'[s].at = "free"
    BY <1>0, <1>4, EndsIs DEF SetRenderer
  <2> QED
    BY <1>4, <2>1 DEF SetRenderer, Tidy, Placed, webrtc
<1>5. CASE NextFrame(s)
  BY <1>0, <1>5, NextFrameIs DEF NextFrame, Tidy, Placed, belt, webrtc
<1>6. CASE LeaveRenderer(s)
  <2>1. Moved(s) /\ slot'[s].at = "free"
    BY <1>0, <1>6, EndsIs DEF LeaveRenderer
  <2> QED
    BY <1>6, <2>1 DEF LeaveRenderer, Tidy, Placed, belt, webrtc
<1> QED
  BY <1>1, <1>2, <1>3, <1>4, <1>5, <1>6 DEF RendererSteps

LEMMA BeltStepsAre ==
  ASSUME PlaceInv, NEW s \in Slots, BeltSteps(s)
  PROVE  /\ Tidy(s) /\ UNCHANGED <<mix, live, renderer, active, manual, webrtc, raced>>
         /\ slot[s].obj \in Slots /\ slot[s].at \in {"frame", "filter", "pass"}
         /\ slot'[s].at \in {"frame", "filter", "pass"}
<1>0. /\ TypeOK /\ slot \in [Slots -> Requests] /\ Placed(s) /\ slot[s] \in Requests
  BY DEF PlaceInv, TypeOK
<1>1. slot[s].at \in {"frame", "filter", "pass"}
  BY DEF BeltSteps, LookUpSession, DrawConveyor, FilterBags, SeeBag, PassBag
<1>2. slot[s].obj \in Slots /\ slot[s].obj # None
  BY <1>0, <1>1 DEF Placed, Requests
<1>3. CASE LookUpSession(s)
  BY <1>0, <1>2, <1>3, LookUpSessionIs DEF LookUpSession, Tidy, Placed, belt, webrtc
<1>4. CASE DrawConveyor(s)
  BY <1>0, <1>2, <1>4, DrawConveyorIs DEF DrawConveyor, Tidy, Placed, webrtc
<1>5. CASE FilterBags(s)
  BY <1>0, <1>2, <1>5, FilterBagsIs DEF FilterBags, Tidy, Placed, webrtc
<1>6. CASE SeeBag(s)
  <2>1. \A b \in 1..MaxBags : b # 0
    OBVIOUS
  <2> QED
    BY <1>0, <1>2, <1>6, <2>1, SeeBagIs DEF SeeBag, Tidy, Placed, belt, webrtc
<1>7. CASE PassBag(s)
  BY <1>0, <1>2, <1>7, PassBagIs DEF PassBag, Tidy, Placed, webrtc
<1> QED
  BY <1>1, <1>2, <1>3, <1>4, <1>5, <1>6, <1>7 DEF BeltSteps

\* The types of all that is not a request.
TablesOK ==
  /\ mix \in Mixes /\ row \in Sources \cup {None}
  /\ feed \in Slots \cup {None} /\ feeds \in [Slots -> Sources \cup {None}]
  /\ renderer \in Slots \cup {None} /\ views \in [Slots -> Views]
  /\ active \in BOOLEAN
  /\ ledger \subseteq 1..MaxBags /\ manual \subseteq 1..MaxBags /\ missed \subseteq 1..MaxBags
  /\ peers \subseteq Peers
  /\ conn \in [Peers -> {"none", "new", "open", "failed", "closed"}]
  /\ lock \in Slots \cup Peers \cup {None}
  /\ raced \in BOOLEAN

LEMMA TidyKeeps ==
  ASSUME PlaceInv, NEW s \in Slots, Tidy(s), TablesOK'
  PROVE  PlaceInv'
<1>1. /\ slot' \in [Slots -> Requests] /\ \A o \in Slots \ {s} : slot'[o] = slot[o]
      /\ \A o \in Slots : slot[o].at \in {"evict", "add"} <=> lock = o
      /\ \A o \in Slots : Placed(o)
  BY DEF PlaceInv, TypeOK, Tidy, Moved
<1>2. \A o \in Slots : slot'[o].at \in {"evict", "add"} <=> lock' = o
  BY <1>1 DEF Tidy
<1>3. \A o \in Slots : Placed(o)'
  BY <1>1 DEF Tidy, Placed
<1> QED
  BY <1>1, <1>2, <1>3 DEF PlaceInv, TypeOK, TablesOK

LEMMA TablesAre == PlaceInv => TablesOK
BY DEF PlaceInv, TypeOK, TablesOK

LEMMA FeedStepsKeep ==
  ASSUME PlaceInv, NEW s \in Slots, FeedSteps(s)
  PROVE  PlaceInv'
<1>1. Tidy(s) /\ UNCHANGED <<mix, belt, webrtc>> /\ TablesOK
  BY FeedStepsAre, TablesAre
<1>2. slot[s].source \in Sources \cup {None} /\ row \in Sources \cup {None} /\ raced \in BOOLEAN
  BY DEF PlaceInv, TypeOK, Requests
<1>3. row' \in Sources \cup {None} /\ feed' \in Slots \cup {None} /\ raced' \in BOOLEAN
  BY <1>1, <1>2 DEF FeedSteps, CommitSource, LookFeed, PutFeed, ConnectFeed, LeaveFeed, live, TablesOK
<1>4. feeds' \in [Slots -> Sources \cup {None}]
  <2>1. CASE PutFeed(s)
    <3>1. PICK c \in {None, slot[s].source} : feeds' = [feeds EXCEPT ![s] = c]
      BY <2>1 DEF PutFeed
    <3> QED
      BY <1>1, <1>2, <3>1 DEF TablesOK
  <2>2. CASE ConnectFeed(s)
    <3>1. PICK c \in {None, slot[s].source} : feeds' = [feeds EXCEPT ![slot[s].obj] = c]
      BY <2>2 DEF ConnectFeed
    <3> QED
      BY <1>1, <1>2, <3>1 DEF TablesOK
  <2>3. CASE CommitSource(s) \/ LookFeed(s) \/ LeaveFeed(s)
    BY <1>1, <2>3 DEF CommitSource, LookFeed, LeaveFeed, live, TablesOK
  <2> QED
    BY <2>1, <2>2, <2>3 DEF FeedSteps
<1>5. TablesOK'
  BY <1>1, <1>3, <1>4 DEF TablesOK, belt, webrtc
<1> QED
  BY <1>1, <1>5, TidyKeeps

\* Whoever has a renderer may set its source.
LEMMA SetRendererIs ==
  ASSUME TypeOK, NEW s \in Slots, SetRenderer(s), renderer \in Slots
  PROVE  /\ views' \in [Slots -> Views]
         /\ \A o \in Slots : views'[o].next = views[o].next /\ views'[o].coming = views[o].coming
<1>1. views \in [Slots -> Views] /\ slot[s].source \in Sources \cup {None} /\ views[renderer] \in Views
  BY DEF TypeOK, Requests
<1>2. PICK c \in {None, slot[s].source} : views' = [views EXCEPT ![renderer] = [views[renderer] EXCEPT !.cap = c]]
  BY DEF SetRenderer
<1> DEFINE w == [views[renderer] EXCEPT !.cap = c]
<1>3. w \in Views /\ w.next = views[renderer].next /\ w.coming = views[renderer].coming
  BY <1>1, <1>2 DEF Views
<1>4. views' = [views EXCEPT ![renderer] = w]
  BY <1>2
<1> HIDE DEF w
<1> QED
  BY <1>1, <1>3, <1>4

LEMMA RendererStepsKeep ==
  ASSUME PlaceInv, NEW s \in Slots, RendererSteps(s)
  PROVE  /\ PlaceInv'
         /\ \A o \in Slots : views'[o].next = views[o].next /\ views'[o].coming = views[o].coming
<1>1. Tidy(s) /\ UNCHANGED <<mix, live, active, ledger, manual, missed, webrtc, raced>> /\ TablesOK
  BY RendererStepsAre, TablesAre
<1>2. renderer' \in Slots \cup {None}
  BY <1>1 DEF RendererSteps, FindRenderer, MakeRenderer, TakeRenderer, SetRenderer, NextFrame, LeaveRenderer, belt, TablesOK
<1>3. /\ views' \in [Slots -> Views]
      /\ \A o \in Slots : views'[o].next = views[o].next /\ views'[o].coming = views[o].coming
  <2>1. CASE SetRenderer(s)
    <3>1. renderer \in Slots /\ TypeOK
      BY <1>1, <2>1 DEF PlaceInv, Placed, SetRenderer, TablesOK
    <3> QED
      BY <2>1, <3>1, SetRendererIs
  <2>2. CASE ~ SetRenderer(s)
    <3>1. views' = views
      BY <2>2 DEF RendererSteps, FindRenderer, MakeRenderer, TakeRenderer, NextFrame, LeaveRenderer, belt
    <3> QED
      BY <1>1, <3>1 DEF TablesOK
  <2> QED
    BY <2>1, <2>2
<1>4. TablesOK'
  BY <1>1, <1>2, <1>3 DEF TablesOK, live, webrtc
<1> QED
  BY <1>1, <1>3, <1>4, TidyKeeps

LEMMA BeltStepsKeep ==
  ASSUME PlaceInv, NEW s \in Slots, BeltSteps(s)
  PROVE  /\ PlaceInv' /\ ledger \subseteq ledger' /\ missed \subseteq missed'
         /\ \A o \in Slots : \A b \in 1..MaxBags :
              /\ b <= views'[o].next => b <= views[o].next \/ b \in views'[o].coming
              /\ b \in views[o].coming => b \in views'[o].coming \cup ledger' \cup missed'
<1>1. /\ Tidy(s) /\ UNCHANGED <<mix, live, renderer, active, manual, webrtc, raced>> /\ TablesOK
      /\ slot[s].obj \in Slots /\ TypeOK
  BY BeltStepsAre, TablesAre DEF PlaceInv
<1>2. /\ views' \in [Slots -> Views] /\ ledger' \subseteq 1..MaxBags /\ missed' \subseteq 1..MaxBags
      /\ ledger \subseteq ledger' /\ missed \subseteq missed'
      /\ \A o \in Slots : \A b \in 1..MaxBags :
           /\ b <= views'[o].next => b <= views[o].next \/ b \in views'[o].coming
           /\ b \in views[o].coming => b \in views'[o].coming \cup ledger' \cup missed'
  <2>1. CASE LookUpSession(s) \/ SeeBag(s)
    BY <1>1, <2>1 DEF LookUpSession, SeeBag, belt, TablesOK
  <2>2. CASE DrawConveyor(s)
    <3>1. ledger' = ledger /\ missed' = missed
      BY <2>2 DEF DrawConveyor
    <3> QED
      BY <1>1, <2>2, <3>1, DrawConveyorIs DEF TablesOK
  <2>3. CASE FilterBags(s)
    <3>1. ledger' = ledger /\ missed \subseteq missed'
      BY <2>3 DEF FilterBags
    <3> QED
      BY <1>1, <2>3, <3>1, FilterBagsIs DEF TablesOK
  <2>4. CASE PassBag(s)
    <3>1. slot[s].bag \in 1..MaxBags
      <4>1. slot[s].bag \in 0..MaxBags /\ slot[s].bag # 0
        BY <1>1, <2>4 DEF PassBag, PlaceInv, Placed, TypeOK, Requests
      <4> QED
        BY <4>1, ConstantsAre
    <3> QED
      BY <1>1, <2>4, <3>1, BagLeaves
  <2> QED
    BY <2>1, <2>2, <2>3, <2>4 DEF BeltSteps
<1>3. TablesOK'
  BY <1>1, <1>2 DEF TablesOK, live, webrtc
<1> QED
  BY <1>1, <1>2, <1>3, TidyKeeps

\* Steps under the lock, or to it.
LEMMA PeerStepsKeep ==
  ASSUME PlaceInv, NEW s \in Slots, PeerSteps(s)
  PROVE  /\ PlaceInv' /\ Moved(s) /\ UNCHANGED <<mix, live, belt, raced>>
         /\ slot[s].at \notin {"look", "put", "connect", "watch"}
         /\ slot'[s].at \notin {"look", "put", "connect", "watch"}
<1>0. /\ TypeOK /\ TablesOK /\ slot \in [Slots -> Requests] /\ slot[s] \in Requests
      /\ s # None /\ \A o \in Slots : slot[o].at \in {"evict", "add"} <=> lock = o
      /\ \A o \in Slots : Placed(o)
  BY ConstantsAre, TablesAre DEF PlaceInv, TypeOK
<1>1. UNCHANGED <<mix, live, belt, raced>>
  BY DEF PeerSteps, Offer, Admit, Evict, AddPeer, Negotiate
\* The lock goes to the request, or stays with it, or is free again.
<1>2. ASSUME Moved(s), Placed(s)', TablesOK',
             \/ lock = None /\ lock' = s /\ slot'[s].at \in {"evict", "add"}
             \/ lock = s /\ lock' = s /\ slot'[s].at \in {"evict", "add"}
             \/ lock = s /\ lock' = None /\ slot'[s].at \notin {"evict", "add"}
      PROVE  PlaceInv'
  <2>1. slot' \in [Slots -> Requests] /\ \A o \in Slots \ {s} : slot'[o] = slot[o]
    BY <1>2 DEF Moved
  <2>2. \A o \in Slots : slot'[o].at \in {"evict", "add"} <=> lock' = o
    BY <1>0, <1>2, <2>1, ConstantsAre
  <2>3. \A o \in Slots : Placed(o)'
    BY <1>0, <1>1, <1>2, <2>1 DEF Placed, belt
  <2> QED
    BY <1>2, <2>1, <2>2, <2>3 DEF PlaceInv, TypeOK, TablesOK
<1>3. CASE Offer(s)
  <2>1. Tidy(s) /\ slot[s].at = "free" /\ slot'[s].at = "lock"
    <3>1. "lock" \in Steps /\ "offer" \in Kinds /\ None \in Sources \cup {None}
      BY DEF Steps, Kinds
    <3>2. Moved(s) /\ slot[s].at = "free" /\ slot'[s].at = "lock"
      BY <1>0, <1>3, <3>1, ArriveIs DEF Offer
    <3> QED
      BY <1>3, <3>2 DEF Offer, Tidy, Placed, belt, webrtc
  <2>2. TablesOK'
    BY <1>0, <1>3 DEF Offer, TablesOK, live, belt, webrtc
  <2> QED
    BY <1>1, <2>1, <2>2, TidyKeeps DEF Tidy
<1>4. CASE Admit(s)
  <2>1. Moved(s) /\ lock' = s /\ lock = None /\ slot[s].at = "lock" /\ slot'[s].at \in {"evict", "add"} /\ peers' \subseteq peers
    BY <1>0, <1>4, AdmitIs
  <2>2. TablesOK'
    BY <1>0, <1>1, <1>4, <2>1 DEF Admit, TablesOK, live, belt
  <2>3. Placed(s)'
    BY <2>1 DEF Placed
  <2> QED
    BY <1>1, <1>2, <2>1, <2>2, <2>3
<1>5. CASE Evict(s)
  <2>1. Moved(s) /\ slot[s].at = "evict" /\ slot'[s].at = "add"
    BY <1>0, <1>5, EvictIs
  <2>2. TablesOK'
    <3>1. conn' = [conn EXCEPT ![slot[s].peer] = "closed"] /\ peers' = peers /\ lock' = lock
      BY <1>5 DEF Evict
    <3> QED
      BY <1>0, <1>1, <3>1 DEF TablesOK, live, belt
  <2>3. Placed(s)'
    BY <2>1 DEF Placed
  <2>4. lock = s /\ lock' = s
    BY <1>0, <1>5, <2>1 DEF Evict
  <2> QED
    BY <1>1, <1>2, <2>1, <2>2, <2>3, <2>4
<1>6. CASE AddPeer(s)
  <2>1. Moved(s) /\ slot[s].at = "add" /\ slot'[s].at = "negotiate" /\ lock' = None
    BY <1>0, <1>6, AddPeerIs
  <2>2. TablesOK'
    <3>1. PICK p \in Peers : conn' = [conn EXCEPT ![p] = "new"] /\ peers' = peers \cup {p}
      BY <1>0, <1>6, AddPeerIs
    <3> QED
      BY <1>0, <1>1, <2>1, <3>1 DEF TablesOK, live, belt
  <2>3. Placed(s)'
    BY <2>1 DEF Placed
  <2>4. lock = s
    BY <1>0, <2>1
  <2> QED
    BY <1>1, <1>2, <2>1, <2>2, <2>3, <2>4
<1>7. CASE Negotiate(s)
  <2>1. Moved(s) /\ slot'[s].at = "free" /\ slot[s].at = "negotiate"
    BY <1>0, <1>7, EndsIs DEF Negotiate
  <2>2. Tidy(s)
    BY <1>1, <1>7, <2>1 DEF Negotiate, Tidy, Placed, belt
  <2>3. TablesOK'
    <3>1. conn' = conn \/ conn' = [conn EXCEPT ![slot[s].peer] = "open"]
      BY <1>7 DEF Negotiate
    <3>2. peers' = peers /\ lock' = lock
      BY <1>7 DEF Negotiate
    <3> QED
      BY <1>0, <1>1, <3>1, <3>2 DEF TablesOK, live, belt
  <2> QED
    BY <1>1, <2>1, <2>2, <2>3, TidyKeeps
<1> QED
  BY <1>3, <1>4, <1>5, <1>6, <1>7 DEF PeerSteps

\* Steps of no request.
Outside ==
  \/ \E c \in Sources : QuickSettings(c)
  \/ SimulateBag \/ Session
  \/ \E p \in Peers : PeerFails(p) \/ DropPeer(p) \/ ClosePeer(p)
  \/ UNCHANGED vars

LEMMA SimulateBagIs ==
  ASSUME TypeOK, SimulateBag
  PROVE  /\ views' \in [Slots -> Views] /\ manual' \subseteq 1..MaxBags
         /\ \A o \in Slots : \A b \in 1..MaxBags :
              /\ b <= views'[o].next => b <= views[o].next \/ b \in views'[o].coming
              /\ b \in views[o].coming => b \in views'[o].coming
<1> DEFINE v == views[renderer]
           n == v.next + 1
           w == [v EXCEPT !.next = n, !.coming = v.coming \cup {n}]
<1>1. renderer \in Slots /\ views \in [Slots -> Views] /\ v \in Views /\ manual \subseteq 1..MaxBags
  BY DEF TypeOK, SimulateBag
<1>2. v.next \in 0..MaxBags /\ v.next < MaxBags /\ v.next \in Nat
  BY <1>1 DEF Views, SimulateBag
<1>3. views' = [views EXCEPT ![renderer] = w] /\ manual' = manual \cup {n}
  BY DEF SimulateBag
<1>4. v = views[renderer]
  OBVIOUS
<1>5. n \in 1..MaxBags /\ n \in 0..MaxBags /\ \A b \in 1..MaxBags : b <= n => b <= v.next \/ b = n
  BY <1>2, ConstantsAre
<1> HIDE DEF v, n
<1>6. w \in Views /\ w.next = n /\ w.coming = v.coming \cup {n}
  BY <1>1, <1>5 DEF Views
<1> HIDE DEF w
<1>7. /\ views' \in [Slots -> Views] /\ views'[renderer] = w
      /\ \A o \in Slots : o # renderer => views'[o] = views[o]
  BY <1>1, <1>3, <1>6
<1> QED
  BY <1>1, <1>3, <1>4, <1>5, <1>6, <1>7

LEMMA OutsideKeeps ==
  ASSUME PlaceInv, Outside
  PROVE  /\ PlaceInv' /\ UNCHANGED <<slot, feed, feeds, ledger, missed>>
         /\ (row' = row /\ raced' = raced) \/ raced'
         /\ \A o \in Slots : \A b \in 1..MaxBags :
              /\ b <= views'[o].next => b <= views[o].next \/ b \in views'[o].coming
              /\ b \in views[o].coming => b \in views'[o].coming
<1>0. TypeOK /\ TablesOK /\ slot \in [Slots -> Requests]
  BY TablesAre DEF PlaceInv, TypeOK
<1>1. UNCHANGED <<slot, feed, feeds, renderer, ledger, missed, mix>> /\ ((row' = row /\ raced' = raced) \/ raced')
  BY DEF Outside, QuickSettings, SimulateBag, Session, PeerFails, DropPeer, ClosePeer, vars, live, belt, webrtc
<1>2. /\ views' \in [Slots -> Views] /\ manual' \subseteq 1..MaxBags
      /\ \A o \in Slots : \A b \in 1..MaxBags :
           /\ b <= views'[o].next => b <= views[o].next \/ b \in views'[o].coming
           /\ b \in views[o].coming => b \in views'[o].coming
  <2>1. CASE SimulateBag
    BY <1>0, <2>1, SimulateBagIs
  <2>2. CASE ~ SimulateBag
    <3>1. views' = views /\ manual' = manual
      BY <2>2 DEF Outside, QuickSettings, Session, PeerFails, DropPeer, ClosePeer, vars, belt
    <3> QED
      BY <1>0, <3>1 DEF TablesOK
  <2> QED
    BY <2>1, <2>2
<1>3. row' \in Sources \cup {None} /\ raced' \in BOOLEAN /\ active' \in BOOLEAN
  BY <1>0 DEF Outside, QuickSettings, SimulateBag, Session, PeerFails, DropPeer, ClosePeer, vars, live, belt, webrtc, TablesOK
<1>4. /\ peers' \subseteq Peers
      /\ conn' \in [Peers -> {"none", "new", "open", "failed", "closed"}]
      /\ lock' \in Slots \cup Peers \cup {None}
      /\ \A o \in Slots : lock' = o <=> lock = o
  <2>1. CASE \E p \in Peers : PeerFails(p) \/ DropPeer(p) \/ ClosePeer(p)
    <3>1. PICK p \in Peers : PeerFails(p) \/ DropPeer(p) \/ ClosePeer(p)
      BY <2>1
    <3>2. \/ lock' = lock /\ peers' = peers /\ conn' = [conn EXCEPT ![p] = "failed"]
          \/ lock = None /\ lock' = p /\ peers' = peers \ {p} /\ conn' = conn
          \/ lock = p /\ lock' = None /\ peers' = peers /\ conn' = [conn EXCEPT ![p] = "closed"]
      BY <3>1 DEF PeerFails, DropPeer, ClosePeer
    <3>3. \A o \in Slots : o # p /\ o # None
      BY ConstantsAre
    <3> QED
      BY <1>0, <3>2, <3>3 DEF TablesOK
  <2>2. CASE ~ \E p \in Peers : PeerFails(p) \/ DropPeer(p) \/ ClosePeer(p)
    <3>1. UNCHANGED <<peers, conn, lock>>
      BY <2>2 DEF Outside, QuickSettings, SimulateBag, Session, vars, webrtc
    <3> QED
      BY <1>0, <3>1 DEF TablesOK
  <2> QED
    BY <2>1, <2>2
<1>5. \A o \in Slots : Placed(o)'
  BY <1>1 DEF PlaceInv, Placed
<1>6. \A o \in Slots : slot'[o].at \in {"evict", "add"} <=> lock' = o
  BY <1>0, <1>1, <1>4 DEF TypeOK
<1>7. PlaceInv'
  BY <1>0, <1>1, <1>2, <1>3, <1>4, <1>5, <1>6 DEF PlaceInv, TypeOK, TablesOK
<1> QED
  BY <1>1, <1>2, <1>7

\* Who does a step.
LEMMA NextIs ==
  ASSUME [Next]_vars
  PROVE  \/ Outside
         \/ \E s \in Slots : Arrivals(s) \/ FeedSteps(s) \/ RendererSteps(s) \/ BeltSteps(s) \/ PeerSteps(s)
BY DEF Next, Outside, Arrivals

LEMMA ArrivalsKeep ==
  ASSUME PlaceInv, NEW s \in Slots, Arrivals(s)
  PROVE  PlaceInv'
<1>1. Tidy(s) /\ UNCHANGED <<mix, live, belt, webrtc, raced>> /\ TablesOK
  BY ArrivalsAre, TablesAre
<1>2. TablesOK'
  BY <1>1 DEF TablesOK, live, belt, webrtc
<1> QED
  BY <1>1, <1>2, TidyKeeps

LEMMA PlaceInvInit == Init => PlaceInv
<1> SUFFICES ASSUME Init PROVE PlaceInv
  OBVIOUS
<1>1. View \in Views
  BY ConstantsAre DEF View, Views
<1>2. slot \in [Slots -> Requests] /\ \A s \in Slots : slot[s] = Free
  BY FreeIs DEF Init
<1>3. views \in [Slots -> Views] /\ feeds \in [Slots -> Sources \cup {None}]
  BY <1>1 DEF Init
<1>4. \A s \in Slots : slot[s].at = "free" /\ lock # s
  BY <1>2, FreeIs, ConstantsAre DEF Init
<1>5. conn \in [Peers -> {"none", "new", "open", "failed", "closed"}]
  BY DEF Init
<1>6. \A s \in Slots : Placed(s)
  BY <1>4 DEF Placed
<1> QED
  BY <1>2, <1>3, <1>4, <1>5, <1>6 DEF Init, PlaceInv, TypeOK

LEMMA PlaceInvNext == PlaceInv /\ [Next]_vars => PlaceInv'
BY NextIs, ArrivalsKeep, FeedStepsKeep, RendererStepsKeep, BeltStepsKeep, PeerStepsKeep, OutsideKeeps

\* Every request, feed and renderer is of its type, a request that is past a
\* dictionary has what it took from it, and the lock is with the request that is
\* under it and with no other (camera_feed.py, webrtc_stream.py handle_offer).
THEOREM LiveViewTypes == Spec => []TypeOK
<1>1. PlaceInv => TypeOK
  BY DEF PlaceInv
<1> QED
  BY <1>1, PlaceInvInit, PlaceInvNext, PTL DEF Spec

-----------------------------------------------------------------------------
(* The conveyor *)

\* No step takes a bag off the conveyor without a trace.
LEMMA BagsGoOn ==
  ASSUME PlaceInv, [Next]_vars
  PROVE  /\ ledger \subseteq ledger' /\ missed \subseteq missed'
         /\ \A o \in Slots : \A b \in 1..MaxBags :
              /\ b <= views'[o].next => b <= views[o].next \/ b \in views'[o].coming
              /\ b \in views[o].coming => b \in views'[o].coming \cup ledger' \cup missed'
<1>1. CASE Outside
  BY <1>1, OutsideKeeps
<1>2. ASSUME NEW s \in Slots, Arrivals(s) \/ FeedSteps(s) \/ PeerSteps(s)
      PROVE  UNCHANGED belt
  BY <1>2, ArrivalsAre, FeedStepsAre, PeerStepsKeep
<1>3. ASSUME NEW s \in Slots, RendererSteps(s)
      PROVE  /\ UNCHANGED <<ledger, missed>>
             /\ \A o \in Slots : views'[o].next = views[o].next /\ views'[o].coming = views[o].coming
  BY <1>3, RendererStepsAre, RendererStepsKeep
<1>4. ASSUME NEW s \in Slots, BeltSteps(s)
      PROVE  /\ ledger \subseteq ledger' /\ missed \subseteq missed'
             /\ \A o \in Slots : \A b \in 1..MaxBags :
                  /\ b <= views'[o].next => b <= views[o].next \/ b \in views'[o].coming
                  /\ b \in views[o].coming => b \in views'[o].coming \cup ledger' \cup missed'
  BY <1>4, BeltStepsKeep
<1> QED
  BY <1>1, <1>2, <1>3, <1>4, NextIs DEF belt

\* A bag that left the simulated conveyor is in the ledger, or was missed where no
\* session was known, the database failed or a list was replaced, however many
\* streams look at the conveyor at a time and whichever renderer they hold
\* (stream_renderer.py generate_conveyor_frame, _process_simulated_frame).
THEOREM BagsAreRecorded == Spec => []PassedIsRecorded
<1>1. Init => PassedIsRecorded
  <2> SUFFICES ASSUME Init PROVE PassedIsRecorded
    OBVIOUS
  <2>1. \A s \in Slots : views[s].next = 0
    BY DEF Init, View
  <2> QED
    BY <2>1 DEF PassedIsRecorded
<1>2. ASSUME PlaceInv, PassedIsRecorded, [Next]_vars, PlaceInv'
      PROVE  PassedIsRecorded'
  <2> SUFFICES ASSUME NEW s \in Slots, NEW b \in 1..views'[s].next
               PROVE  b \in views'[s].coming \cup ledger' \cup missed'
    BY DEF PassedIsRecorded
  <2>1. views'[s].next \in 0..MaxBags /\ views[s].next \in 0..MaxBags
    BY <1>2 DEF PlaceInv, TypeOK, Views
  <2>2. b \in 1..MaxBags /\ b <= views'[s].next
    BY <2>1, ConstantsAre
  <2>3. CASE b <= views[s].next
    <3>1. b \in 1..views[s].next
      BY <2>1, <2>2, <2>3
    <3>2. b \in views[s].coming \cup ledger \cup missed
      BY <1>2, <3>1 DEF PassedIsRecorded
    <3> QED
      BY <1>2, <2>2, <3>2, BagsGoOn
  <2>4. CASE ~ (b <= views[s].next)
    BY <1>2, <2>2, <2>4, BagsGoOn
  <2> QED
    BY <2>3, <2>4
<1> QED
  BY <1>1, <1>2, PlaceInvInit, PlaceInvNext, PTL DEF Spec

-----------------------------------------------------------------------------
(* The feed *)

\* A step that has nothing to do with the feed.
LEMMA OtherStepsKeepFeed ==
  ASSUME PlaceInv, FeedInv, NEW s \in Slots, Moved(s), UNCHANGED <<live, raced>>,
         slot[s].at \notin {"look", "put", "connect"},
         slot'[s].at \notin {"put", "connect", "watch"},
         slot'[s].at = "look" => slot'[s].kind # "source"
  PROVE  FeedInv'
<1>1. /\ raced' = raced /\ row' = row /\ feed' = feed /\ feeds' = feeds
      /\ \A o \in Slots \ {s} : slot'[o] = slot[o]
  BY DEF live, Moved
<1>2. ~ Changing(s) /\ ~ Changing(s)'
  BY DEF Changing
<1>3. \A o \in Slots : Changing(o)' <=> Changing(o)
  BY <1>1, <1>2 DEF Changing
<1>4. ASSUME ~raced', NEW o \in Slots PROVE FeedOf(o)'
  <2>1. FeedOf(o)
    BY <1>1, <1>4 DEF FeedInv
  <2>2. CASE o = s
    BY <1>2, <2>2 DEF FeedOf, Puts
  <2>3. CASE o # s
    <3>1. Puts(o)'
      BY <1>1, <2>1, <2>3 DEF FeedOf, Puts
    <3> QED
      BY <1>1, <1>3, <2>1, <2>3, <3>1 DEF FeedOf
  <2> QED
    BY <2>2, <2>3
<1>5. ASSUME ~raced' PROVE Shown'
  BY <1>1, <1>3, <1>5 DEF FeedInv, Shown
<1> QED
  BY <1>4, <1>5 DEF FeedInv

LEMMA CommitSourceKeepsFeed ==
  ASSUME PlaceInv, FeedInv, NEW s \in Slots, CommitSource(s)
  PROVE  FeedInv'
<1>0. slot \in [Slots -> Requests] /\ "look" \in Steps
  BY DEF PlaceInv, TypeOK, Steps
<1>1. /\ Moved(s) /\ slot'[s].at = "look" /\ Same(s) /\ slot[s].at = "commit"
      /\ row' = slot[s].source /\ feed' = feed /\ feeds' = feeds /\ raced' = (raced \/ Others(s))
  BY <1>0, GoesIs DEF CommitSource
<1>2. slot'[s].kind = "source"
  BY <1>1 DEF PlaceInv, Placed, Same
<1>3. ASSUME ~raced', NEW o \in Slots PROVE FeedOf(o)'
  <2>1. FeedOf(o) /\ ~Others(s)
    BY <1>1, <1>3 DEF FeedInv
  <2>2. CASE o = s
    BY <1>1, <2>2 DEF FeedOf, Puts, Same
  <2>3. CASE o # s
    <3>1. slot'[o] = slot[o] /\ slot[o].at \notin {"look", "put", "connect"}
      BY <1>1, <2>1, <2>3 DEF Others, Moved
    <3> QED
      BY <1>1, <2>1, <3>1 DEF FeedOf, Puts, Changing
  <2> QED
    BY <2>2, <2>3
<1>4. Shown'
  BY <1>1, <1>2 DEF Shown, Changing
<1> QED
  BY <1>3, <1>4 DEF FeedInv

LEMMA LookFeedKeepsFeed ==
  ASSUME PlaceInv, FeedInv, NEW s \in Slots, LookFeed(s)
  PROVE  FeedInv'
<1>0. /\ slot[s].at = "look" /\ row' = row /\ feed' = feed /\ feeds' = feeds
      /\ raced' = (raced \/ (feed = None /\ Others(s)))
      /\ \A o \in Slots \ {s} : slot'[o] = slot[o]
  BY LookFeedIs DEF PlaceInv, LookFeed, live, Moved
<1> SUFFICES ASSUME ~raced' PROVE Shown' /\ \A o \in Slots : FeedOf(o)'
  BY DEF FeedInv
<1>1. /\ Shown /\ \A o \in Slots : FeedOf(o)
      /\ slot'[s].kind = slot[s].kind
      /\ slot[s].kind = "source" => slot[s].source = row
  BY <1>0, LookFeedIs DEF FeedInv, PlaceInv, FeedOf, Changing
<1>2. CASE feed # None
  <2>1. /\ slot'[s].at = IF slot[s].kind = "source" THEN "connect" ELSE "watch"
        /\ slot'[s].obj = feed /\ slot'[s].source = slot[s].source
    BY <1>2, LookFeedIs DEF PlaceInv
  <2>2. \A o \in Slots : Changing(o)' <=> Changing(o)
    BY <1>0, <1>1, <2>1 DEF Changing
  <2>3. Shown'
    BY <1>0, <1>1, <2>2 DEF Shown
  <2>4. ASSUME NEW o \in Slots PROVE FeedOf(o)'
    <3>1. CASE o = s
      BY <1>0, <1>1, <2>1, <3>1 DEF FeedOf, Puts, Changing
    <3>2. CASE o # s
      BY <1>0, <1>1, <1>2, <3>2 DEF FeedOf, Puts, Changing
    <3> QED
      BY <3>1, <3>2
  <2> QED
    BY <2>3, <2>4
<1>3. CASE feed = None
  <2>1. /\ slot'[s].at = "put" /\ slot'[s].obj = s
        /\ slot'[s].source = IF slot[s].kind = "source" THEN slot[s].source ELSE row
    BY <1>3, LookFeedIs DEF PlaceInv
  <2>2. \A o \in Slots \ {s} : slot[o].at \notin {"look", "put", "connect"}
    BY <1>0, <1>3 DEF Others
  <2>3. Shown'
    BY <1>0, <1>3 DEF Shown
  <2>4. ASSUME NEW o \in Slots PROVE FeedOf(o)'
    <3>1. CASE o = s
      BY <1>0, <1>1, <1>3, <2>1, <2>2, <3>1 DEF FeedOf, Puts, Changing
    <3>2. CASE o # s
      BY <1>0, <1>1, <2>2, <3>2 DEF FeedOf, Puts, Changing
    <3> QED
      BY <3>1, <3>2
  <2> QED
    BY <2>3, <2>4
<1> QED
  BY <1>2, <1>3

LEMMA PutFeedKeepsFeed ==
  ASSUME PlaceInv, FeedInv, NEW s \in Slots, PutFeed(s)
  PROVE  FeedInv'
<1>0. /\ slot \in [Slots -> Requests] /\ feeds \in [Slots -> Sources \cup {None}]
      /\ {"connect", "watch"} \subseteq Steps /\ slot[s].obj = s
  BY DEF PlaceInv, TypeOK, Steps, Placed, PutFeed
<1>1. Moved(s) /\ slot'[s].at \in {"connect", "watch"} /\ Same(s)
  <2> DEFINE step == IF slot[s].kind = "source" THEN "connect" ELSE "watch"
  <2>1. step \in Steps /\ step \in {"connect", "watch"} /\ Goes(s, step)
    BY <1>0 DEF PutFeed
  <2> HIDE DEF step
  <2> QED
    BY <1>0, <2>1, GoesIs
<1>2. /\ slot[s].at = "put" /\ row' = row /\ feed' = s /\ raced' = raced
      /\ feeds'[s] \in {None, slot[s].source}
      /\ \A o \in Slots \ {s} : slot'[o] = slot[o]
  BY <1>0, <1>1 DEF PutFeed, Moved
<1> SUFFICES ASSUME ~raced' PROVE Shown' /\ \A o \in Slots : FeedOf(o)'
  BY DEF FeedInv
<1>3. /\ \A o \in Slots : FeedOf(o)
      /\ feed = None /\ slot[s].source = row
      /\ \A o \in Slots \ {s} : slot[o].at \notin {"put", "connect"}
  BY <1>2 DEF FeedInv, FeedOf, Puts
<1>4. \A o \in Slots \ {s} : slot[o].at # "watch"
  BY <1>3 DEF FeedOf, PlaceInv, Placed
<1>5. Shown'
  BY <1>2, <1>3 DEF Shown
<1>6. ASSUME NEW o \in Slots PROVE FeedOf(o)'
  <2>1. CASE o = s
    BY <1>0, <1>1, <1>2, <1>3, <2>1 DEF FeedOf, Puts, Same
  <2>2. CASE o # s
    BY <1>2, <1>3, <1>4, <2>2 DEF FeedOf, Puts, Changing
  <2> QED
    BY <2>1, <2>2
<1> QED
  BY <1>5, <1>6

LEMMA ConnectFeedKeepsFeed ==
  ASSUME PlaceInv, FeedInv, NEW s \in Slots, ConnectFeed(s)
  PROVE  FeedInv'
<1>0. /\ slot \in [Slots -> Requests] /\ feeds \in [Slots -> Sources \cup {None}] /\ "find" \in Steps
      /\ slot[s].kind = "source" /\ slot[s].obj # None /\ slot[s].obj \in Slots \cup {None}
  BY DEF PlaceInv, TypeOK, Steps, Placed, ConnectFeed, Requests
<1>1. Moved(s) /\ slot'[s].at = "find" /\ slot[s].at = "connect"
  BY <1>0, GoesIs DEF ConnectFeed
<1>2. /\ row' = row /\ feed' = feed /\ raced' = raced
      /\ feeds'[slot[s].obj] \in {None, slot[s].source}
      /\ \A o \in Slots \ {s} : slot'[o] = slot[o]
  BY <1>0, <1>1 DEF ConnectFeed, Moved
<1> SUFFICES ASSUME ~raced' PROVE Shown' /\ \A o \in Slots : FeedOf(o)'
  BY DEF FeedInv
<1>3. /\ \A o \in Slots : FeedOf(o)
      /\ slot[s].source = row /\ slot[s].obj = feed
  BY <1>0, <1>1, <1>2 DEF FeedInv, FeedOf, Changing
<1>4. Shown'
  BY <1>2, <1>3 DEF Shown
<1>5. ASSUME NEW o \in Slots PROVE FeedOf(o)'
  <2>1. CASE o = s
    BY <1>1, <2>1 DEF FeedOf, Puts, Changing
  <2>2. CASE o # s
    BY <1>1, <1>2, <1>3, <2>2 DEF FeedOf, Puts, Changing
  <2> QED
    BY <2>1, <2>2
<1> QED
  BY <1>4, <1>5

LEMMA FeedStepsKeepFeed ==
  ASSUME PlaceInv, FeedInv, NEW s \in Slots, FeedSteps(s)
  PROVE  FeedInv'
<1>1. CASE LeaveFeed(s)
  <2>1. slot \in [Slots -> Requests]
    BY DEF PlaceInv, TypeOK
  <2>2. Moved(s) /\ slot'[s].at = "free" /\ slot[s].at = "watch" /\ UNCHANGED <<live, raced>>
    BY <1>1, <2>1, EndsIs DEF LeaveFeed
  <2> QED
    BY <2>2, OtherStepsKeepFeed
<1> QED
  BY <1>1, CommitSourceKeepsFeed, LookFeedKeepsFeed, PutFeedKeepsFeed, ConnectFeedKeepsFeed DEF FeedSteps

LEMMA FeedInvNext == PlaceInv /\ FeedInv /\ [Next]_vars => FeedInv'
<1> SUFFICES ASSUME PlaceInv, FeedInv, [Next]_vars PROVE FeedInv'
  OBVIOUS
<1>1. CASE Outside
  <2>1. UNCHANGED <<slot, feed, feeds>> /\ ((row' = row /\ raced' = raced) \/ raced')
    BY <1>1, OutsideKeeps
  <2> QED
    BY <2>1 DEF FeedInv, Shown, FeedOf, Puts, Changing
<1>2. ASSUME NEW s \in Slots, Arrivals(s) PROVE FeedInv'
  <2>1. /\ Moved(s) /\ UNCHANGED <<live, raced>> /\ slot[s].at = "free"
        /\ slot'[s].at \notin {"put", "connect", "watch"}
        /\ slot'[s].at = "look" => slot'[s].kind # "source"
    BY <1>2, ArrivalsAre DEF Tidy
  <2> QED
    BY <2>1, OtherStepsKeepFeed
<1>3. ASSUME NEW s \in Slots, RendererSteps(s) \/ BeltSteps(s) \/ PeerSteps(s) PROVE FeedInv'
  <2>1. /\ Moved(s) /\ UNCHANGED <<live, raced>>
        /\ slot[s].at \notin {"look", "put", "connect", "watch"}
        /\ slot'[s].at \notin {"look", "put", "connect", "watch"}
    BY <1>3, RendererStepsAre, BeltStepsAre, PeerStepsKeep DEF Tidy
  <2> QED
    BY <2>1, OtherStepsKeepFeed
<1> QED
  BY <1>1, <1>2, <1>3, NextIs, FeedStepsKeepFeed

\* Between requests a viewer of the feed sees what the row names, or a
\* placeholder, in however many requests the feed is looked up, constructed,
\* registered and reconnected, as long as no two of them overlap where the code
\* takes no lock (camera_feed.py get_or_create_camera_feed).
THEOREM PicturesFollow == Spec => []PictureFollowsRow
<1>1. Init => FeedInv
  <2> SUFFICES ASSUME Init PROVE FeedInv
    OBVIOUS
  <2>1. feed = None /\ \A s \in Slots : slot[s].at = "free"
    BY FreeIs DEF Init
  <2> QED
    BY <2>1 DEF FeedInv, Shown, FeedOf, Puts, Changing
<1>2. ASSUME PlaceInv, FeedInv PROVE PictureFollowsRow
  <2> SUFFICES ASSUME ~raced, NEW s \in Slots, slot[s].at = "watch", ~Others(s)
               PROVE  Pictures(s) \subseteq {row, None}
    BY DEF PictureFollowsRow
  <2>1. Shown /\ slot[s].obj = feed /\ feed # None
    BY <1>2 DEF FeedInv, FeedOf, PlaceInv, Placed
  <2>2. \A o \in Slots : ~Changing(o)
    BY DEF Others, Changing
  <2> QED
    BY <2>1, <2>2 DEF Shown, Pictures
<1> QED
  BY <1>1, <1>2, PlaceInvInit, PlaceInvNext, FeedInvNext, PTL DEF Spec

-----------------------------------------------------------------------------
(* The peers *)

LEMMA PeersAreFinite ==
  ASSUME TypeOK
  PROVE  IsFiniteSet(peers) /\ IsFiniteSet(Peers) /\ Cardinality(peers) \in Nat
<1>1. IsFiniteSet(Peers)
  BY ConstantsAre, FS_Interval DEF Peers
<1>2. peers \subseteq Peers
  BY DEF TypeOK
<1> QED
  BY <1>1, <1>2, FS_Subset, FS_CardinalityType

\* One request is under the lock.
LEMMA OneUnderLock ==
  ASSUME TypeOK, NEW s \in Slots, slot[s].at \in {"evict", "add"} \/ lock = None
  PROVE  \A o \in Slots \ {s} : slot[o].at \notin {"evict", "add"}
<1>1. \A o \in Slots : slot[o].at \in {"evict", "add"} => lock = o
  BY DEF TypeOK
<1> QED
  BY <1>1, ConstantsAre

LEMMA OutsideKeepsPeers ==
  ASSUME PlaceInv, PeerInv, Outside
  PROVE  PeerInv'
<1>0. slot' = slot /\ TypeOK /\ conn \in [Peers -> {"none", "new", "open", "failed", "closed"}]
  BY OutsideKeeps DEF PlaceInv, TypeOK
<1>1. CASE \E p \in Peers : PeerFails(p) \/ ClosePeer(p)
  <2>1. /\ peers' = peers
        /\ \A p \in Peers : Live(p)' => Live(p)
    BY <1>0, <1>1 DEF PeerFails, ClosePeer, Live
  <2> QED
    BY <1>0, <2>1 DEF PeerInv
<1>2. ASSUME NEW p \in Peers, DropPeer(p) PROVE PeerInv'
  <2>1. conn' = conn /\ peers' = peers \ {p} /\ ~ Live(p) /\ lock = None
    BY <1>2 DEF DropPeer, Live
  <2>2. Cardinality(peers') <= Cardinality(peers) /\ Cardinality(peers') \in Nat /\ Cardinality(peers) <= MaxPeers
    BY <1>0, <2>1, PeersAreFinite, FS_Subset, FS_CardinalityType DEF PeerInv
  <2>3. \A s \in Slots : slot[s].at \notin {"evict", "add"}
    BY <1>0, <2>1, ConstantsAre DEF TypeOK
  <2>4. \A q \in Peers : Live(q)' => Live(q) /\ q \in peers'
    BY <2>1, <2>3 DEF PeerInv, Live
  <2>5. Cardinality(peers') <= MaxPeers
    BY <1>0, <2>2, PeersAreFinite, ConstantsAre
  <2> QED
    BY <1>0, <2>3, <2>4, <2>5 DEF PeerInv
<1>3. CASE UNCHANGED <<peers, conn>>
  BY <1>0, <1>3 DEF PeerInv, Live
<1> QED
  BY <1>1, <1>2, <1>3 DEF Outside, QuickSettings, SimulateBag, Session, vars, webrtc

\* A request that has nothing to do with the lock.
LEMMA TidyKeepsPeers ==
  ASSUME PeerInv, NEW s \in Slots, Tidy(s), UNCHANGED webrtc
  PROVE  PeerInv'
<1>1. /\ peers' = peers /\ conn' = conn
      /\ \A o \in Slots \ {s} : slot'[o] = slot[o]
      /\ slot[s].at \notin {"evict", "add"} /\ slot'[s].at \notin {"evict", "add"}
  BY DEF webrtc, Tidy, Moved
<1>2. \A o \in Slots : /\ slot'[o].at \in {"evict", "add"} <=> slot[o].at \in {"evict", "add"}
                       /\ slot[o].at = "evict" => slot'[o] = slot[o]
  BY <1>1
<1> QED
  BY <1>1, <1>2 DEF PeerInv, Live

LEMMA AdmitKeepsPeers ==
  ASSUME PlaceInv, PeerInv, NEW s \in Slots, Admit(s)
  PROVE  PeerInv'
<1>1. TypeOK /\ conn' = conn /\ \A o \in Slots \ {s} : slot'[o] = slot[o]
  BY AdmitIs DEF PlaceInv, Admit, Moved
<1>2. lock = None /\ slot[s].at = "lock"
  BY <1>1, AdmitIs
<1>3. \A o \in Slots : slot[o].at \notin {"evict", "add"}
  BY <1>1, <1>2, OneUnderLock
<1>4. \A p \in Peers : Live(p)' => p \in peers
  BY <1>1, <1>3 DEF PeerInv, Live
<1>5. CASE slot'[s].at = "evict" /\ slot'[s].peer \in peers /\ peers' = peers \ {slot'[s].peer}
  <2>1. Cardinality(peers') = Cardinality(peers) - 1
    BY <1>1, <1>5, PeersAreFinite, FS_RemoveElement
  <2>2. Cardinality(peers') < MaxPeers /\ Cardinality(peers') <= MaxPeers
    BY <1>1, <2>1, PeersAreFinite, ConstantsAre DEF PeerInv
  <2>3. \A p \in Peers : Live(p)' => p \in peers' \/ (slot'[s].at = "evict" /\ slot'[s].peer = p)
    BY <1>4, <1>5
  <2> QED
    BY <2>2, <2>3 DEF PeerInv
<1>6. CASE slot'[s].at = "add" /\ peers' = peers /\ ~ (Cardinality(peers) >= MaxPeers)
  <2>1. Cardinality(peers') < MaxPeers /\ Cardinality(peers') <= MaxPeers
    BY <1>1, <1>6, PeersAreFinite, ConstantsAre
  <2> QED
    BY <1>4, <1>6, <2>1 DEF PeerInv
<1> QED
  BY <1>1, <1>5, <1>6, AdmitIs

LEMMA EvictKeepsPeers ==
  ASSUME PlaceInv, PeerInv, NEW s \in Slots, Evict(s)
  PROVE  PeerInv'
<1>1. /\ TypeOK /\ peers' = peers /\ slot[s].at = "evict" /\ slot'[s].at = "add"
      /\ \A o \in Slots \ {s} : slot'[o] = slot[o]
  BY EvictIs DEF PlaceInv, Evict, Moved
<1>2. \A o \in Slots \ {s} : slot[o].at \notin {"evict", "add"}
  BY <1>1, OneUnderLock
<1>3. conn \in [Peers -> {"none", "new", "open", "failed", "closed"}] /\ conn' = [conn EXCEPT ![slot[s].peer] = "closed"]
  BY <1>1 DEF TypeOK, Evict
<1>4. \A p \in Peers : Live(p)' => Live(p) /\ p # slot[s].peer
  BY <1>3 DEF Live
<1>5. \A p \in Peers : Live(p)' => p \in peers'
  BY <1>1, <1>2, <1>4 DEF PeerInv
<1>6. Cardinality(peers) < MaxPeers /\ Cardinality(peers) <= MaxPeers
  BY <1>1 DEF PeerInv
<1> QED
  BY <1>1, <1>2, <1>5, <1>6 DEF PeerInv

LEMMA AddPeerKeepsPeers ==
  ASSUME PlaceInv, PeerInv, NEW s \in Slots, AddPeer(s)
  PROVE  PeerInv'
<1>1. /\ TypeOK /\ slot[s].at = "add" /\ slot'[s].at = "negotiate"
      /\ \A o \in Slots \ {s} : slot'[o] = slot[o]
  BY AddPeerIs DEF PlaceInv, Moved
<1>2. \A o \in Slots \ {s} : slot[o].at \notin {"evict", "add"}
  BY <1>1, OneUnderLock
<1>3. PICK p \in Peers : conn' = [conn EXCEPT ![p] = "new"] /\ peers' = peers \cup {p}
  BY <1>1, AddPeerIs
<1>4. conn \in [Peers -> {"none", "new", "open", "failed", "closed"}]
  BY <1>1 DEF TypeOK
<1>5. \A q \in Peers : Live(q)' => q \in peers'
  BY <1>1, <1>2, <1>3, <1>4 DEF PeerInv, Live
<1>6. Cardinality(peers') = Cardinality(peers) \/ Cardinality(peers') = Cardinality(peers) + 1
  BY <1>1, <1>3, PeersAreFinite, FS_AddElement
<1>7. Cardinality(peers') <= MaxPeers
  BY <1>1, <1>6, PeersAreFinite, ConstantsAre DEF PeerInv
<1> QED
  BY <1>1, <1>2, <1>5, <1>7 DEF PeerInv

LEMMA NegotiateKeepsPeers ==
  ASSUME PlaceInv, PeerInv, NEW s \in Slots, Negotiate(s)
  PROVE  PeerInv'
<1>1. /\ slot \in [Slots -> Requests] /\ conn \in [Peers -> {"none", "new", "open", "failed", "closed"}]
      /\ peers' = peers /\ slot[s].at = "negotiate"
  BY DEF PlaceInv, TypeOK, Negotiate
<1>2. slot'[s].at = "free" /\ \A o \in Slots \ {s} : slot'[o] = slot[o]
  BY <1>1, EndsIs DEF Negotiate, Moved
<1>3. \A p \in Peers : Live(p)' => Live(p)
  BY <1>1 DEF Negotiate, Live
<1>4. \A o \in Slots : slot'[o].at \in {"evict", "add"} => slot'[o] = slot[o]
  BY <1>2
<1>5. \A o \in Slots : slot[o].at = "evict" => slot'[o] = slot[o]
  BY <1>1, <1>2
<1> QED
  BY <1>1, <1>3, <1>4, <1>5 DEF PeerInv

LEMMA PeerInvNext == PlaceInv /\ PeerInv /\ [Next]_vars => PeerInv'
<1> SUFFICES ASSUME PlaceInv, PeerInv, [Next]_vars PROVE PeerInv'
  OBVIOUS
<1>1. ASSUME NEW s \in Slots, Arrivals(s) \/ FeedSteps(s) \/ RendererSteps(s) \/ BeltSteps(s)
      PROVE  Tidy(s) /\ UNCHANGED webrtc
  BY <1>1, ArrivalsAre, FeedStepsAre, RendererStepsAre, BeltStepsAre
<1>2. ASSUME NEW s \in Slots, PeerSteps(s) PROVE PeerInv'
  <2>1. CASE Offer(s)
    BY <1>1, <2>1, TidyKeepsPeers DEF Arrivals
  <2> QED
    BY <1>2, <2>1, AdmitKeepsPeers, EvictKeepsPeers, AddPeerKeepsPeers, NegotiateKeepsPeers DEF PeerSteps
<1> QED
  BY <1>1, <1>2, NextIs, OutsideKeepsPeers, TidyKeepsPeers

\* The line has at most as many live connections as its maximum, in whatever
\* order offers, evictions that are awaited under the lock, and failures overlap,
\* for any maximum (webrtc_stream.py handle_offer, close_pc).
THEOREM PeersBounded == Spec => []PeersAreBounded
<1>1. Init => PeerInv
  <2> SUFFICES ASSUME Init PROVE PeerInv
    OBVIOUS
  <2>1. /\ peers = {} /\ \A s \in Slots : slot[s].at = "free"
        /\ \A p \in Peers : ~ Live(p)
    BY FreeIs DEF Init, Live
  <2>2. Cardinality(peers) <= MaxPeers
    BY <2>1, FS_EmptySet, ConstantsAre
  <2> QED
    BY <2>1, <2>2 DEF PeerInv
<1>2. ASSUME PlaceInv, PeerInv PROVE PeersAreBounded
  <2> DEFINE L == {p \in Peers : Live(p)}
  <2>0. TypeOK
    BY <1>2 DEF PlaceInv
  <2>1. CASE \E s \in Slots : slot[s].at = "evict"
    <3>1. PICK s \in Slots : slot[s].at = "evict"
      BY <2>1
    <3> DEFINE all == peers \cup {slot[s].peer}
    <3>2. L \subseteq all
      BY <1>2, <2>0, <3>1, OneUnderLock DEF PeerInv
    <3>3. IsFiniteSet(all) /\ (Cardinality(all) = Cardinality(peers) \/ Cardinality(all) = Cardinality(peers) + 1)
      BY <2>0, PeersAreFinite, FS_AddElement
    <3>4. Cardinality(peers) < MaxPeers
      BY <1>2, <3>1 DEF PeerInv
    <3>5. Cardinality(L) <= Cardinality(all) /\ Cardinality(L) \in Nat
      BY <3>2, <3>3, FS_Subset, FS_CardinalityType
    <3> HIDE DEF L, all
    <3>6. Cardinality(L) <= MaxPeers
      BY <2>0, <3>3, <3>4, <3>5, PeersAreFinite, ConstantsAre
    <3> QED
      BY <3>6 DEF L, PeersAreBounded
  <2>2. CASE ~ \E s \in Slots : slot[s].at = "evict"
    <3>1. L \subseteq peers
      BY <1>2, <2>2 DEF PeerInv
    <3>2. Cardinality(L) <= Cardinality(peers) /\ Cardinality(L) \in Nat
      BY <2>0, <3>1, PeersAreFinite, FS_Subset, FS_CardinalityType
    <3> HIDE DEF L
    <3>3. Cardinality(L) <= MaxPeers
      BY <1>2, <2>0, <3>2, PeersAreFinite, ConstantsAre DEF PeerInv
    <3> QED
      BY <3>3 DEF L, PeersAreBounded
  <2> QED
    BY <2>1, <2>2
<1> QED
  BY <1>1, <1>2, PlaceInvInit, PlaceInvNext, PeerInvNext, PTL DEF Spec
=============================================================================
