--------------------------- MODULE CountingProofs ---------------------------
(***************************************************************************)
(* What TLAPS proves about Counting, for every set of positions and lines, *)
(* every target and register, and any number of bags: a bag's crossings    *)
(* add up to its change of side, the engine counts the bags that changed,  *)
(* its count is the sum over all bags even when the line was moved over    *)
(* one, the ledger's total follows the engine, and the PLC is shown that   *)
(* total.                                                                  *)
(***************************************************************************)
EXTENDS Counting, FiniteSetTheorems, WellFoundedInduction, TLAPS

\* The gate remembers the side on which a bag was measured last, as long as it
\* remembers a zone at all; what it measures later starts from there, and in the
\* worker, whose line stays where it is, even when the memory was dropped.
GateInv ==
  /\ TypeOK
  /\ \A i \in Ids : /\ tracks[i].state = "none" => tracks[i] = NoTrack
                    /\ tracks[i].zone # "none" => tracks[i].last = Side(tracks[i].zone)
  /\ ~displaced => \A i \in Ids : tracks[i].net = tracks[i].last - tracks[i].first
  /\ host = "worker" =>
       /\ line = DefaultLine /\ ~displaced
       /\ \A i \in Ids : tracks[i].state \in Known => tracks[i].last = Side(ZoneOf(tracks[i].pos))

\* Until a fault excuses the session, its rows are crossings that this process
\* gave: none has a sequence number that its track has not reached yet.
LedgerInv ==
  /\ IsFiniteSet(ledger)
  /\ \A row \in ledger : row.session # 0 /\ row.session <= opened
  /\ session # 0 /\ ~excused =>
       \A row \in ledger : row.session = session => row.seq <= tracks[row.track].seq
  /\ LedgerFollowsEngine

-----------------------------------------------------------------------------
(* The gate's operators *)

LEMMA ConstantsAre ==
  /\ 0 \in Positions /\ Positions \subseteq Int /\ Lines \subseteq Int /\ DefaultLine \in Lines
  /\ Offset \in Nat /\ MaxTimeLost \in Nat /\ MaxTracks \in Nat /\ MaxNew \in Nat
  /\ Target \in Nat \ {0} /\ Word \in Nat \ {0}
BY PositionsAssumption, OffsetAssumption, TimeLostAssumption, BoundsAssumption

\* Every position is in a zone, and in one behind the line just if it is behind it.
LEMMA ZoneIs ==
  ASSUME line \in Int, NEW p \in Int
  PROVE  ZoneOf(p) \in Zones /\ Side(ZoneOf(p)) = IF p > line THEN 1 ELSE 0
<1>1. Boundaries.pre = line - Offset /\ Boundaries.post = line + Offset /\ Offset \in Nat
  BY ConstantsAre DEF Boundaries
<1> HIDE DEF Boundaries
<1>2. CASE p < Boundaries.pre
  <2>1. ZoneOf(p) = "PRE_APPROACH" /\ ~ (p > line)
    BY <1>1, <1>2 DEF ZoneOf
  <2> QED
    BY <2>1 DEF Zones, Side
<1>3. CASE p >= Boundaries.pre /\ p <= line
  <2>1. ZoneOf(p) = "PRE" /\ ~ (p > line)
    BY <1>1, <1>3 DEF ZoneOf
  <2> QED
    BY <2>1 DEF Zones, Side
<1>4. CASE p > line /\ p <= Boundaries.post
  <2>1. ZoneOf(p) = "POST" /\ p > line
    BY <1>1, <1>4 DEF ZoneOf
  <2> QED
    BY <2>1 DEF Zones, Side
<1>5. CASE p > Boundaries.post
  <2>1. ZoneOf(p) = "POST_DEPART" /\ p > line
    BY <1>1, <1>5 DEF ZoneOf
  <2> QED
    BY <2>1 DEF Zones, Side
<1> QED
  BY <1>1, <1>2, <1>3, <1>4, <1>5

LEMMA TrackFields ==
  ASSUME TypeOK, NEW i \in Ids
  PROVE  /\ tracks[i] \in Tracks /\ tracks \in [Ids -> Tracks]
         /\ tracks[i].pos \in Positions /\ tracks[i].pos \in Int /\ tracks[i].seq \in Nat
         /\ tracks[i].time \in 0..MaxTimeLost
         /\ tracks[i].first \in 0..1 /\ tracks[i].last \in 0..1 /\ tracks[i].net \in Int
         /\ tracks[i].zone \in Zones \cup {"none"}
         /\ tracks[i].state \in {"none", "pruned"} \cup Known
         /\ line \in Int /\ line \in Lines
<1>1. tracks[i] \in Tracks /\ tracks \in [Ids -> Tracks] /\ line \in Lines
  BY DEF TypeOK
<1>2. tracks[i].pos \in Positions /\ line \in Int /\ tracks[i].pos \in Int
  BY <1>1, ConstantsAre DEF Tracks
<1> QED
  BY <1>1, <1>2 DEF Tracks

\* A measurement changes the side by one at most.
LEMMA DirectionIs ==
  ASSUME TypeOK, NEW i \in Ids, NEW p \in Positions
  PROVE  /\ Direction(tracks[i], p) \in {-1, 0, 1} /\ Abs(Direction(tracks[i], p)) \in Nat
         /\ Direction(tracks[i], p) # 0 => Abs(Direction(tracks[i], p)) = 1
         /\ Side(ZoneOf(p)) \in 0..1 /\ ZoneOf(p) \in Zones /\ ZoneOf(p) # "none"
<1>1. ZoneOf(p) \in Zones /\ ZoneOf(p) # "none" /\ Side(ZoneOf(p)) \in 0..1
  <2>1. p \in Int /\ line \in Int
    BY ConstantsAre, TrackFields
  <2>2. ZoneOf(p) \in Zones
    BY <2>1, ZoneIs
  <2> QED
    BY <2>2 DEF Zones, Side
<1>2. Side(PrevZone(tracks[i])) \in 0..1
  BY DEF Side
<1>3. Direction(tracks[i], p) \in {-1, 0, 1}
  BY <1>1, <1>2 DEF Direction
<1> HIDE DEF Direction
<1> QED
  BY <1>1, <1>3 DEF Abs

\* The three ways in which a track comes out of a frame.
LEMMA MatchedIs ==
  ASSUME TypeOK, NEW i \in Ids, NEW p \in Positions
  PROVE  /\ Matched(tracks[i], p) \in Tracks
         /\ Matched(tracks[i], p).state = "confirmed" /\ Matched(tracks[i], p).pos = p
         /\ Matched(tracks[i], p).zone = ZoneOf(p) /\ Matched(tracks[i], p).last = Side(ZoneOf(p))
         /\ Matched(tracks[i], p).first = tracks[i].first
         /\ Matched(tracks[i], p).net = tracks[i].net + Direction(tracks[i], p)
         /\ Matched(tracks[i], p).seq = tracks[i].seq + Abs(Direction(tracks[i], p))
<1>1. tracks[i] \in Tracks /\ tracks[i].seq \in Nat /\ tracks[i].net \in Int
  BY TrackFields
<1>2. /\ Direction(tracks[i], p) \in Int /\ Abs(Direction(tracks[i], p)) \in Nat
      /\ Side(ZoneOf(p)) \in 0..1 /\ ZoneOf(p) \in Zones
  BY DirectionIs
<1>3. 0 \in 0..MaxTimeLost
  BY ConstantsAre
<1> DEFINE d == Direction(tracks[i], p)
           a == Abs(Direction(tracks[i], p))
           z == ZoneOf(p)
           s == Side(ZoneOf(p))
<1>4. Matched(tracks[i], p) =
        [tracks[i] EXCEPT !.state = "confirmed", !.pos = p, !.time = 0, !.zone = z,
                          !.seq = tracks[i].seq + a, !.net = tracks[i].net + d, !.last = s]
  BY DEF Matched
<1> HIDE DEF d, a, z, s
<1>5. tracks[i].seq + a \in Nat /\ tracks[i].net + d \in Int /\ s \in 0..1 /\ z \in Zones
  BY <1>1, <1>2 DEF d, a, z, s
<1>6. Matched(tracks[i], p) =
        [state |-> "confirmed", pos |-> p, time |-> 0, zone |-> z, seq |-> tracks[i].seq + a,
         first |-> tracks[i].first, last |-> s, net |-> tracks[i].net + d]
  BY <1>1, <1>4 DEF Tracks
<1>7. tracks[i].first \in 0..1
  BY <1>1 DEF Tracks
<1>8. Matched(tracks[i], p) \in Tracks
  BY <1>3, <1>5, <1>6, <1>7 DEF Tracks, Known
<1> QED
  BY <1>6, <1>8 DEF d, a, z, s

LEMMA MissedIs ==
  ASSUME TypeOK, NEW i \in Ids
  PROVE  /\ Missed(tracks[i]) \in Tracks
         /\ Missed(tracks[i]).state \in {"pruned", "lost"}
         /\ Missed(tracks[i]).state = "lost" => Missed(tracks[i]).pos = tracks[i].pos
         /\ Missed(tracks[i]).zone = "none" /\ Missed(tracks[i]).last = tracks[i].last
         /\ Missed(tracks[i]).first = tracks[i].first /\ Missed(tracks[i]).net = tracks[i].net
         /\ Missed(tracks[i]).seq = tracks[i].seq
<1>1. tracks[i] \in Tracks /\ tracks[i].time \in 0..MaxTimeLost
  BY TrackFields
<1>2. Aged(tracks[i]) = [tracks[i] EXCEPT !.time = tracks[i].time + 1]
  BY DEF Aged
<1>3. Aged(tracks[i]).time = tracks[i].time + 1 /\ MaxTimeLost \in Nat /\ 0 \in Positions
  BY <1>1, <1>2, ConstantsAre DEF Tracks
<1>4. CASE Aged(tracks[i]).time > MaxTimeLost
  <2>1. Missed(tracks[i]) = [tracks[i] EXCEPT !.state = "pruned", !.pos = 0, !.time = 0, !.zone = "none"]
    BY <1>4 DEF Missed
  <2>2. Missed(tracks[i]) =
          [state |-> "pruned", pos |-> 0, time |-> 0, zone |-> "none", seq |-> tracks[i].seq,
           first |-> tracks[i].first, last |-> tracks[i].last, net |-> tracks[i].net]
    BY <1>1, <2>1 DEF Tracks
  <2> QED
    BY <1>1, <1>3, <2>2 DEF Tracks
<1>5. CASE ~ (Aged(tracks[i]).time > MaxTimeLost)
  <2>1. Missed(tracks[i]) = [[tracks[i] EXCEPT !.time = tracks[i].time + 1] EXCEPT !.state = "lost", !.zone = "none"]
    BY <1>2, <1>5 DEF Missed
  <2>2. Missed(tracks[i]) =
          [state |-> "lost", pos |-> tracks[i].pos, time |-> tracks[i].time + 1, zone |-> "none",
           seq |-> tracks[i].seq, first |-> tracks[i].first, last |-> tracks[i].last, net |-> tracks[i].net]
    BY <1>1, <2>1 DEF Tracks
  <2>3. tracks[i].time + 1 \in 0..MaxTimeLost
    BY <1>1, <1>3, <1>5
  <2> QED
    BY <1>1, <2>2, <2>3 DEF Tracks, Known
<1> QED
  BY <1>4, <1>5

LEMMA CreatedIs ==
  ASSUME TypeOK, NEW i \in Ids, NEW p \in Positions
  PROVE  /\ Created(p) \in Tracks /\ Created(p).state = "tentative" /\ Created(p).pos = p
         /\ Created(p).zone = ZoneOf(p) /\ Created(p).first = Side(ZoneOf(p))
         /\ Created(p).last = Side(ZoneOf(p)) /\ Created(p).net = 0 /\ Created(p).seq = 0
<1>1. Side(ZoneOf(p)) \in 0..1 /\ ZoneOf(p) \in Zones
  BY DirectionIs
<1> DEFINE z == ZoneOf(p)
           s == Side(ZoneOf(p))
<1>a. Created(p) = [NoTrack EXCEPT !.state = "tentative", !.pos = p, !.zone = z, !.first = s, !.last = s]
  BY DEF Created
<1> HIDE DEF z, s
<1>2. Created(p) = [state |-> "tentative", pos |-> p, time |-> 0, zone |-> z, seq |-> 0,
                    first |-> s, last |-> s, net |-> 0]
  BY <1>a DEF NoTrack
<1>3. Created(p) \in Tracks
  BY <1>1, <1>2, ConstantsAre DEF Tracks, Known, z, s
<1> QED
  BY <1>2, <1>3 DEF z, s

-----------------------------------------------------------------------------
(* A frame *)

\* What the detector gives: positions of known tracks, and n new detections.
Given(at, new, n) ==
  /\ DOMAIN at \subseteq Ids /\ \A i \in DOMAIN at : at[i] \in Positions /\ tracks[i].state \in Known
  /\ n \in Nat /\ named + n <= MaxTracks
  /\ DOMAIN new = 1..n /\ \A k \in 1..n : new[k] \in Positions

LEMMA FrameIsGiven ==
  ASSUME TypeOK, NEW f \in Frames
  PROVE  \E n \in 0..MaxNew : Given(f[1], f[2], n)
<1> DEFINE known == {i \in Ids : tracks[i].state \in Known}
           fresh == {n \in 0..MaxNew : given + named + n <= MaxTracks}
           ats == UNION {[ids -> Positions] : ids \in SUBSET known}
           news == UNION {[1..n -> Positions] : n \in fresh}
<1>1. f[1] \in ats /\ f[2] \in news
  BY DEF Frames
<1>2. PICK ids \in SUBSET known : f[1] \in [ids -> Positions]
  BY <1>1
<1>3. PICK n \in fresh : f[2] \in [1..n -> Positions]
  BY <1>1
<1>4. n \in 0..MaxNew /\ n \in Nat /\ named + n <= MaxTracks
  BY <1>3, ConstantsAre DEF TypeOK
<1>5. DOMAIN f[1] \subseteq Ids /\ \A i \in DOMAIN f[1] : f[1][i] \in Positions /\ tracks[i].state \in Known
  BY <1>2
<1> QED
  BY <1>3, <1>4, <1>5 DEF Given

\* What a frame does to each track.
LEMMA TrackedIs ==
  ASSUME TypeOK, NEW at, NEW new, NEW n, Given(at, new, n), tracks' = Tracked(at, new), NEW i \in Ids
  PROVE  /\ i \in DOMAIN at => tracks'[i] = Matched(tracks[i], at[i]) /\ i <= named
         /\ i \notin DOMAIN at /\ tracks[i].state \in Known => tracks'[i] = Missed(tracks[i]) /\ i <= named
         /\ i \notin DOMAIN at /\ tracks[i].state \notin Known =>
              \/ i - named \in 1..n /\ tracks'[i] = Created(new[i - named]) /\ tracks[i].state = "none"
              \/ i - named \notin 1..n /\ tracks'[i] = tracks[i]
<1>1. tracks'[i] = IF i \in DOMAIN at THEN Matched(tracks[i], at[i])
                   ELSE IF tracks[i].state \in Known THEN Missed(tracks[i])
                   ELSE IF i - named \in DOMAIN new THEN Created(new[i - named])
                   ELSE tracks[i]
  BY DEF Tracked
<1>2. named \in Nat /\ i \in Nat /\ (tracks[i].state = "none" <=> i > named)
  BY ConstantsAre DEF TypeOK, Ids
<1>3. tracks[i].state \in Known => i <= named
  BY <1>2 DEF Known
<1>4. DOMAIN new = 1..n /\ n \in Nat
  BY DEF Given
<1>5. i - named \in 1..n => tracks[i].state = "none"
  BY <1>2, <1>4
<1>6. i \in DOMAIN at => tracks[i].state \in Known
  BY DEF Given
<1> QED
  BY <1>1, <1>3, <1>4, <1>5, <1>6

LEMMA FrameTypes ==
  ASSUME TypeOK, NEW at, NEW new, NEW n, Given(at, new, n), Process(at, new)
  PROVE  /\ tracks' \in [Ids -> Tracks] /\ named' = named + n /\ named' \in 0..MaxTracks
         /\ \A i \in Ids : /\ tracks'[i].state = "none" <=> i > named'
                           /\ tracks'[i].zone # "none" <=> tracks'[i].state \in Active
         /\ running' \in Int
<1>1. tracks' = Tracked(at, new) /\ named' = named + Cardinality(DOMAIN new) /\ running' = running + Net(at)
  BY DEF Process
<1>2. n \in Nat /\ named + n <= MaxTracks /\ DOMAIN new = 1..n /\ named \in Nat
  BY ConstantsAre DEF Given, TypeOK
<1>3. Cardinality(1..n) = n
  BY <1>2, FS_Interval
<1>4. named' = named + n /\ named' \in 0..MaxTracks
  BY <1>1, <1>2, <1>3, ConstantsAre
<1>5. running' \in Int
  <2>1. DOMAIN at \subseteq 1..MaxTracks /\ IsFiniteSet(1..MaxTracks)
    BY FS_Interval, ConstantsAre DEF Given, Ids
  <2>2. /\ IsFiniteSet({i \in DOMAIN at : Direction(tracks[i], at[i]) = 1})
        /\ IsFiniteSet({i \in DOMAIN at : Direction(tracks[i], at[i]) = -1})
    BY <2>1, FS_Subset
  <2>3. Net(at) \in Int
    BY <2>2, FS_CardinalityType DEF Net
  <2> QED
    BY <1>1, <2>3 DEF TypeOK
<1>6. ASSUME NEW i \in Ids
      PROVE  /\ tracks'[i] \in Tracks
             /\ tracks'[i].state = "none" <=> i > named'
             /\ tracks'[i].zone # "none" <=> tracks'[i].state \in Active
  <2>0. i \in Nat /\ (tracks[i].state = "none" <=> i > named) /\ (tracks[i].zone # "none" <=> tracks[i].state \in Active)
    BY ConstantsAre DEF TypeOK, Ids
  <2>1. CASE i \in DOMAIN at
    <3>1. tracks'[i] = Matched(tracks[i], at[i]) /\ i <= named /\ at[i] \in Positions
      BY <1>1, <2>1, TrackedIs DEF Given
    <3>2. /\ Matched(tracks[i], at[i]) \in Tracks /\ Matched(tracks[i], at[i]).state = "confirmed"
          /\ Matched(tracks[i], at[i]).zone # "none"
      BY <3>1, MatchedIs, DirectionIs
    <3> QED
      BY <1>2, <1>4, <2>0, <3>1, <3>2 DEF Active
  <2>2. CASE i \notin DOMAIN at /\ tracks[i].state \in Known
    <3>1. tracks'[i] = Missed(tracks[i]) /\ i <= named
      BY <1>1, <2>2, TrackedIs
    <3>2. /\ Missed(tracks[i]) \in Tracks /\ Missed(tracks[i]).state \in {"pruned", "lost"}
          /\ Missed(tracks[i]).zone = "none"
      BY MissedIs
    <3> QED
      BY <1>2, <1>4, <2>0, <3>1, <3>2 DEF Active
  <2>3. CASE i \notin DOMAIN at /\ tracks[i].state \notin Known /\ i - named \in 1..n
    <3>1. tracks'[i] = Created(new[i - named]) /\ new[i - named] \in Positions
      BY <1>1, <2>3, TrackedIs DEF Given
    <3>2. /\ Created(new[i - named]) \in Tracks /\ Created(new[i - named]).state = "tentative"
          /\ Created(new[i - named]).zone # "none"
      BY <3>1, CreatedIs, DirectionIs
    <3> QED
      BY <1>2, <1>4, <2>0, <2>3, <3>1, <3>2 DEF Active
  <2>4. CASE i \notin DOMAIN at /\ tracks[i].state \notin Known /\ i - named \notin 1..n
    <3>1. tracks'[i] = tracks[i]
      BY <1>1, <2>4, TrackedIs
    <3>2. i > named' <=> i > named
      BY <1>2, <1>4, <2>0, <2>4
    <3> QED
      BY <2>0, <3>1, <3>2, TrackFields
  <2> QED
    BY <2>1, <2>2, <2>3, <2>4
<1>7. tracks' \in [Ids -> Tracks]
  <2>1. DOMAIN tracks' = Ids /\ tracks' = [i \in Ids |-> tracks'[i]]
    BY <1>1 DEF Tracked
  <2> QED
    BY <1>6, <2>1
<1> QED
  BY <1>4, <1>5, <1>6, <1>7

\* What a frame does to the sides and the count of each bag.
LEMMA FrameGate ==
  ASSUME GateInv, NEW at, NEW new, NEW n, Given(at, new, n), Process(at, new), UNCHANGED <<host, line>>
  PROVE  /\ \A i \in Ids : /\ tracks'[i].state = "none" => tracks'[i] = NoTrack
                           /\ tracks'[i].zone # "none" => tracks'[i].last = Side(tracks'[i].zone)
         /\ ~displaced' => \A i \in Ids : tracks'[i].net = tracks'[i].last - tracks'[i].first
         /\ host' = "worker" =>
              /\ line' = DefaultLine /\ ~displaced'
              /\ (\A i \in Ids : tracks[i].state \in Known => tracks[i].last = Side(ZoneOf(tracks[i].pos)))'
<1> USE DEF GateInv
<1>1. tracks' = Tracked(at, new) /\ displaced' = (displaced \/ PassedOver(at))
  BY DEF Process
<1>a. /\ \A i \in DOMAIN at : i \in Ids /\ at[i] \in Positions /\ tracks[i].state \in Known
      /\ \A k \in 1..n : new[k] \in Positions
  BY DEF Given
\* The previous side is the last one, unless the line passed over the bag.
<1>3. ASSUME NEW i \in DOMAIN at, ~ PassedOver(at)
      PROVE  Side(PrevZone(tracks[i])) = tracks[i].last
  <2>1. CASE tracks[i].zone # "none"
    BY <1>a, <2>1 DEF PrevZone
  <2>2. CASE tracks[i].zone = "none"
    BY <1>3, <2>2 DEF PrevZone, PassedOver
  <2> QED
    BY <2>1, <2>2
<1>4. ASSUME NEW i \in Ids
      PROVE  /\ tracks'[i].state = "none" => tracks'[i] = NoTrack
             /\ tracks'[i].zone # "none" => tracks'[i].last = Side(tracks'[i].zone)
             /\ ~displaced' => tracks'[i].net = tracks'[i].last - tracks'[i].first
             /\ host = "worker" /\ tracks'[i].state \in Known => tracks'[i].last = Side(ZoneOf(tracks'[i].pos))
  <2>0. tracks[i].net \in Int /\ tracks[i].first \in Int /\ tracks[i].last \in Int
    BY TrackFields
  <2>1. CASE i \in DOMAIN at
    <3> DEFINE m == Matched(tracks[i], at[i])
    <3>1. tracks'[i] = m
      BY <1>1, <2>1, TrackedIs
    <3>2. /\ m.state = "confirmed" /\ m.pos = at[i] /\ m.zone = ZoneOf(at[i])
          /\ m.last = Side(ZoneOf(at[i])) /\ m.first = tracks[i].first
          /\ m.net = tracks[i].net + Direction(tracks[i], at[i])
      BY <1>a, <2>1, MatchedIs
    <3>3. ~displaced' => m.net = m.last - m.first
      <4> SUFFICES ASSUME ~displaced' PROVE m.net = m.last - m.first
        OBVIOUS
      <4>1. ~ displaced /\ ~ PassedOver(at)
        BY <1>1
      <4>2. Direction(tracks[i], at[i]) = Side(ZoneOf(at[i])) - tracks[i].last
        BY <1>3, <2>1, <4>1 DEF Direction
      <4>3. tracks[i].net = tracks[i].last - tracks[i].first
        BY <4>1
      <4>4. Side(ZoneOf(at[i])) \in Int
        BY DEF Side
      <4> QED
        BY <2>0, <3>2, <4>2, <4>3, <4>4
    <3> HIDE DEF m
    <3> QED
      BY <3>1, <3>2, <3>3
  <2>2. CASE i \notin DOMAIN at /\ tracks[i].state \in Known
    <3>1. tracks'[i] = Missed(tracks[i])
      BY <1>1, <2>2, TrackedIs
    <3>2. /\ Missed(tracks[i]).state \in {"pruned", "lost"}
          /\ Missed(tracks[i]).state = "lost" => Missed(tracks[i]).pos = tracks[i].pos
          /\ Missed(tracks[i]).zone = "none" /\ Missed(tracks[i]).last = tracks[i].last
          /\ Missed(tracks[i]).first = tracks[i].first /\ Missed(tracks[i]).net = tracks[i].net
      BY MissedIs
    <3>3. host = "worker" => tracks[i].last = Side(ZoneOf(tracks[i].pos))
      BY <2>2
    <3>4. Missed(tracks[i]).state \in Known => Missed(tracks[i]).state = "lost"
      BY <3>2 DEF Known
    <3>5. displaced => displaced'
      BY <1>1
    <3> QED
      BY <3>1, <3>2, <3>3, <3>4, <3>5
  <2>3. CASE i \notin DOMAIN at /\ tracks[i].state \notin Known /\ i - named \in 1..n
    <3> DEFINE c == Created(new[i - named])
    <3>1. tracks'[i] = c
      BY <1>1, <2>3, TrackedIs
    <3>2. /\ c.state = "tentative" /\ c.pos = new[i - named]
          /\ c.zone = ZoneOf(new[i - named]) /\ c.first = Side(ZoneOf(new[i - named]))
          /\ c.last = Side(ZoneOf(new[i - named])) /\ c.net = 0
      BY <1>a, <2>3, CreatedIs
    <3>3. Side(ZoneOf(new[i - named])) \in Int
      BY DEF Side
    <3> HIDE DEF c
    <3>4. c.net = c.last - c.first
      BY <3>2, <3>3
    <3> QED
      BY <3>1, <3>2, <3>4
  <2>4. CASE i \notin DOMAIN at /\ tracks[i].state \notin Known /\ i - named \notin 1..n
    <3>1. tracks'[i] = tracks[i]
      BY <1>1, <2>4, TrackedIs
    <3> QED
      BY <1>1, <2>4, <3>1
  <2> QED
    BY <2>1, <2>2, <2>3, <2>4
\* The line of the worker never moves, so that it passes over nothing.
<1>5. host = "worker" => ~ PassedOver(at)
  BY <1>a DEF PassedOver
<1>6. host = "worker" =>
        (\A i \in Ids : tracks[i].state \in Known => tracks[i].last = Side(ZoneOf(tracks[i].pos)))'
  BY <1>4 DEF ZoneOf, Boundaries
<1> QED
  BY <1>1, <1>4, <1>5, <1>6

\* The rows of a frame: one for each crossing that was reached.
LEMMA RowIs ==
  ASSUME TypeOK, NEW at, NEW new, NEW n, Given(at, new, n), NEW i \in Crossing(at)
  PROVE  /\ i \in DOMAIN at /\ i \in Ids
         /\ Row(i, at[i]) \in Rows /\ Row(i, at[i]).session = session /\ Row(i, at[i]).track = i
         /\ Row(i, at[i]).dir = Direction(tracks[i], at[i])
         /\ Row(i, at[i]).seq = tracks[i].seq + 1
<1>1. i \in DOMAIN at /\ i \in Ids /\ at[i] \in Positions /\ Direction(tracks[i], at[i]) # 0
  BY DEF Crossing, Given
<1>2. /\ Direction(tracks[i], at[i]) \in {-1, 1} /\ Abs(Direction(tracks[i], at[i])) = 1
  BY <1>1, DirectionIs
<1>3. Matched(tracks[i], at[i]).seq = tracks[i].seq + 1 /\ tracks[i].seq \in Nat
  BY <1>1, <1>2, MatchedIs, TrackFields
<1> DEFINE d == Direction(tracks[i], at[i])
           q == Matched(tracks[i], at[i]).seq
<1>4. Row(i, at[i]) = [session |-> session, epoch |-> epoch, track |-> i, seq |-> q, dir |-> d]
  BY DEF Row
<1>5. q \in Nat /\ d \in {-1, 1} /\ q = tracks[i].seq + 1
  BY <1>2, <1>3
<1> HIDE DEF q, d
<1>6. session \in Nat /\ epoch \in Nat
  BY DEF TypeOK
<1> QED
  BY <1>1, <1>4, <1>5, <1>6 DEF Rows, d

LEMMA RecordTypes ==
  ASSUME TypeOK, NEW at, NEW new, NEW n, Given(at, new, n), NEW reached \in SUBSET Crossing(at), Record(at, reached)
  PROVE  ledger' \subseteq Rows /\ refused' \in BOOLEAN /\ excused' \in BOOLEAN
<1>1. \A i \in reached : Row(i, at[i]) \in Rows
  BY RowIs
<1>2. ledger' \subseteq ledger \cup {Row(i, at[i]) : i \in reached}
  BY DEF Record
<1>3. refused' \in BOOLEAN /\ excused' \in BOOLEAN
  BY DEF Record
<1> QED
  BY <1>1, <1>2, <1>3 DEF TypeOK

LEMMA WorkerFrameIs ==
  ASSUME TypeOK, WorkerFrame
  PROVE  \E f \in Frames, n \in Nat :
           /\ Given(f[1], f[2], n) /\ Process(f[1], f[2])
           /\ session = 0 => UNCHANGED <<ledger, refused, excused, plc>>
           /\ session # 0 => \E reached \in SUBSET Crossing(f[1]) : Record(f[1], reached)
           /\ session # 0 => \E link \in {"down", "half", "up"} : Actuate(link)
<1>1. PICK f \in Frames :
        /\ Process(f[1], f[2])
        /\ IF session # 0
             THEN /\ \E reached \in SUBSET Crossing(f[1]) : Record(f[1], reached)
                  /\ \E link \in {"down", "half", "up"} : Actuate(link)
             ELSE UNCHANGED <<ledger, refused, excused, plc>>
  BY Zenon DEF WorkerFrame
<1>2. PICK n \in 0..MaxNew : Given(f[1], f[2], n)
  BY FrameIsGiven
<1> QED
  BY <1>1, <1>2, ConstantsAre

LEMMA RendererFrameIs ==
  ASSUME TypeOK, RendererFrame
  PROVE  \E f \in Frames, n \in Nat :
           /\ Given(f[1], f[2], n) /\ Process(f[1], f[2])
           /\ \/ session # 0 /\ \E reached \in SUBSET Crossing(f[1]) : Record(f[1], reached)
              \/ /\ excused' = (excused \/ Crossing(f[1]) # {})
                 /\ UNCHANGED <<ledger, refused>>
<1>1. PICK f \in Frames : \E knows \in BOOLEAN :
       /\ Process(f[1], f[2])
       /\ IF session # 0 /\ knows
            THEN \E reached \in SUBSET Crossing(f[1]) : Record(f[1], reached)
            ELSE /\ excused' = (excused \/ Crossing(f[1]) # {})
                 /\ UNCHANGED <<ledger, refused>>
  BY Zenon DEF RendererFrame
<1>2. PICK n \in 0..MaxNew : Given(f[1], f[2], n)
  BY FrameIsGiven
<1> QED
  BY <1>1, <1>2, ConstantsAre

LEMMA Remainder ==
  ASSUME NEW r \in Int, NEW w \in Nat \ {0}
  PROVE  r % w \in 0..w - 1
OBVIOUS

LEMMA ActuateIs ==
  ASSUME TypeOK, running' \in Int, NEW link, Actuate(link)
  PROVE  register' \in 0..Word - 1 /\ conveyor' \in BOOLEAN
<1>1. register \in 0..Word - 1 /\ conveyor \in BOOLEAN /\ Word \in Nat \ {0}
  BY ConstantsAre DEF TypeOK
<1>2. running' % Word \in 0..Word - 1
  BY <1>1, Remainder
<1>3. register' \in 0..Word - 1
  BY <1>1, <1>2 DEF Actuate
<1>4. conveyor' \in BOOLEAN
  BY <1>1 DEF Actuate
<1> QED
  BY <1>3, <1>4

LEMMA FramesKeepTypes ==
  ASSUME TypeOK, WorkerFrame \/ RendererFrame
  PROVE  TypeOK'
<1>1. UNCHANGED <<host, line, epoch, session, opened, target, given, spent, begun>>
  BY DEF WorkerFrame, RendererFrame
<1>2. /\ tracks' \in [Ids -> Tracks] /\ named' \in 0..MaxTracks /\ running' \in Int
      /\ \A i \in Ids : /\ tracks'[i].state = "none" <=> i > named'
                        /\ tracks'[i].zone # "none" <=> tracks'[i].state \in Active
      /\ displaced' \in BOOLEAN
  <2>1. PICK f \in Frames, n \in Nat : Given(f[1], f[2], n) /\ Process(f[1], f[2])
    BY WorkerFrameIs, RendererFrameIs
  <2>2. displaced' \in BOOLEAN
    BY <2>1 DEF Process
  <2> QED
    BY <2>1, <2>2, FrameTypes
<1>3. ledger' \subseteq Rows /\ refused' \in BOOLEAN /\ excused' \in BOOLEAN
  <2>1. PICK f \in Frames, n \in Nat :
          /\ Given(f[1], f[2], n)
          /\ \/ \E reached \in SUBSET Crossing(f[1]) : Record(f[1], reached)
             \/ UNCHANGED <<ledger, refused>> /\ excused' \in BOOLEAN
    <3>1. CASE WorkerFrame
      BY <3>1, WorkerFrameIs DEF TypeOK
    <3>2. CASE RendererFrame
      BY <3>2, RendererFrameIs DEF TypeOK
    <3> QED
      BY <3>1, <3>2
  <2> QED
    BY <2>1, RecordTypes DEF TypeOK
<1>4. register' \in 0..Word - 1 /\ conveyor' \in BOOLEAN
  <2>1. CASE WorkerFrame
    <3>1. UNCHANGED plc \/ \E link : Actuate(link)
      BY <2>1, WorkerFrameIs
    <3> QED
      BY <1>2, <3>1, ActuateIs DEF plc, TypeOK
  <2>2. CASE RendererFrame
    BY <2>2 DEF RendererFrame, plc, TypeOK
  <2> QED
    BY <2>1, <2>2
<1> QED
  BY <1>1, <1>2, <1>3, <1>4 DEF TypeOK

-----------------------------------------------------------------------------
(* Types and sides *)

\* Every track of a new tracker is as it should be.
LEMMA NoTracksAre ==
  /\ NoTracks \in [Ids -> Tracks]
  /\ \A i \in Ids : NoTracks[i] = NoTrack
  /\ NoTrack.state = "none" /\ NoTrack.zone = "none" /\ NoTrack.seq = 0
  /\ NoTrack.net = NoTrack.last - NoTrack.first
<1>1. NoTrack \in Tracks
  BY ConstantsAre DEF NoTrack, Tracks
<1>2. NoTrack.state = "none" /\ NoTrack.zone = "none" /\ NoTrack.seq = 0
  BY DEF NoTrack
<1>3. NoTrack.net = NoTrack.last - NoTrack.first
  BY DEF NoTrack
<1> QED
  BY <1>1, <1>2, <1>3 DEF NoTracks

LEMMA NewEngine ==
  ASSUME tracks = NoTracks, named = 0
  PROVE  /\ tracks \in [Ids -> Tracks]
         /\ \A i \in Ids : /\ tracks[i].state = "none" <=> i > named
                           /\ tracks[i].zone # "none" <=> tracks[i].state \in Active
                           /\ tracks[i] = NoTrack /\ tracks[i].zone = "none" /\ tracks[i].state \notin Known
                           /\ tracks[i].net = tracks[i].last - tracks[i].first
<1>1. \A i \in Ids : i > named
  BY ConstantsAre DEF Ids
<1> QED
  BY <1>1, NoTracksAre DEF Active, Known

LEMMA GateInvInit == Init => GateInv
<1> SUFFICES ASSUME Init PROVE GateInv
  OBVIOUS
<1>1. tracks = NoTracks /\ named = 0
  BY DEF Init
<1>2. 0 \in 0..Word - 1 /\ 0 \in 0..MaxTracks /\ DefaultLine \in Lines
  BY ConstantsAre
<1>3. TypeOK
  <2>1. conveyor \in BOOLEAN /\ refused \in BOOLEAN /\ excused \in BOOLEAN /\ displaced \in BOOLEAN
    BY DEF Init
  <2>2. /\ host \in {"worker", "renderer"} /\ named \in 0..MaxTracks /\ running \in Int /\ line \in Lines
        /\ epoch \in Nat /\ opened \in Nat /\ session \in {0, opened} /\ target \in {0, Target}
        /\ ledger \subseteq Rows /\ register \in 0..Word - 1 /\ given \in Nat /\ begun \in Int
    BY <1>2 DEF Init
  <2> QED
    BY <1>1, <2>1, <2>2, NewEngine DEF TypeOK
<1> QED
  BY <1>1, <1>3, NewEngine DEF Init, GateInv

LEMMA GateInvNext == GateInv /\ [Next]_vars => GateInv'
<1> SUFFICES ASSUME GateInv, [Next]_vars
             PROVE  GateInv'
  OBVIOUS
<1>0. TypeOK
  BY DEF GateInv
<1>1. CASE WorkerFrame \/ RendererFrame
  <2>1. PICK f \in Frames, n \in Nat : Given(f[1], f[2], n) /\ Process(f[1], f[2])
    BY <1>0, <1>1, WorkerFrameIs, RendererFrameIs
  <2>2. UNCHANGED <<host, line>>
    BY <1>1 DEF WorkerFrame, RendererFrame
  <2>3. TypeOK'
    BY <1>0, <1>1, FramesKeepTypes
  <2> QED
    BY <2>1, <2>2, <2>3, FrameGate DEF GateInv
<1>2. CASE MoveLine
  <2>1. UNCHANGED <<host, engine, displaced>> /\ host = "renderer" /\ line' \in Lines
    BY <1>2 DEF MoveLine, history
  <2>2. TypeOK'
    BY <1>0, <1>2 DEF MoveLine, TypeOK, engine, plc, history
  <2> QED
    BY <2>1, <2>2 DEF GateInv, engine
<1>3. CASE NewEpoch \/ OpenSession \/ SetTarget \/ CloseSession \/ StartConveyor
  <2>1. UNCHANGED <<host, engine, line, displaced>>
    BY <1>3 DEF NewEpoch, OpenSession, SetTarget, CloseSession, StartConveyor, history
  <2>2. TypeOK'
    <3>1. CASE NewEpoch
      BY <1>0, <3>1 DEF NewEpoch, TypeOK, engine, plc, history
    <3>2. CASE OpenSession
      BY <1>0, <3>2 DEF OpenSession, TypeOK, engine, plc
    <3>3. CASE SetTarget
      BY <1>0, <3>3 DEF SetTarget, TypeOK, engine, plc, history
    <3>4. CASE CloseSession
      <4>1. refused' \in BOOLEAN /\ excused' \in BOOLEAN
        BY <3>4 DEF CloseSession
      <4>2. UNCHANGED <<host, engine, line, epoch, opened, ledger, plc, given, displaced>>
        BY <3>4 DEF CloseSession
      <4>3. session' \in {0, opened'} /\ target' \in {0, Target} /\ begun' \in Int
        BY <3>4 DEF CloseSession
      <4> QED
        BY <1>0, <4>1, <4>2, <4>3 DEF TypeOK, engine, plc
    <3>5. CASE StartConveyor
      BY <1>0, <3>5 DEF StartConveyor, TypeOK, engine, history
    <3> QED
      BY <1>3, <3>1, <3>2, <3>3, <3>4, <3>5
  <2> QED
    BY <2>1, <2>2 DEF GateInv, engine, ZoneOf, Boundaries
<1>4. CASE Restart
  <2>1. /\ tracks' = NoTracks /\ named' = 0 /\ running' = 0 /\ line' = DefaultLine /\ displaced' = FALSE
        /\ UNCHANGED <<host, epoch, session, opened, target, ledger, plc, begun, refused>>
        /\ given' = given + named /\ excused' \in BOOLEAN
    BY <1>4 DEF Restart
  <2>2. /\ tracks' \in [Ids -> Tracks]
        /\ \A i \in Ids : /\ tracks'[i].state = "none" <=> i > named'
                          /\ tracks'[i].zone # "none" <=> tracks'[i].state \in Active
                          /\ tracks'[i] = NoTrack /\ tracks'[i].zone = "none" /\ tracks'[i].state \notin Known
                          /\ tracks'[i].net = tracks'[i].last - tracks'[i].first
    <3> DEFINE t == tracks'
    <3>1. \A i \in Ids : i > named'
      BY <2>1, ConstantsAre DEF Ids
    <3> QED
      BY <2>1, <3>1, NoTracksAre DEF Active, Known
  <2>3. given' \in Nat /\ named' \in 0..MaxTracks /\ line' \in Lines
    BY <1>0, <2>1, ConstantsAre DEF TypeOK
  <2>4. TypeOK'
    <3>1. displaced' \in BOOLEAN
      BY <2>1
    <3>2. running' \in Int
      BY <2>1
    <3> QED
      BY <1>0, <2>1, <2>2, <2>3, <3>1, <3>2 DEF TypeOK, plc
  <2> QED
    BY <2>1, <2>2, <2>4 DEF GateInv
<1>5. CASE UNCHANGED vars
  <2>1. UNCHANGED <<host, engine, line, displaced>>
    BY <1>5 DEF vars, history
  <2>2. TypeOK'
    BY <1>0, <1>5 DEF vars, TypeOK, engine, plc, history
  <2> QED
    BY <2>1, <2>2 DEF GateInv, engine, ZoneOf, Boundaries
<1> QED
  BY <1>1, <1>2, <1>3, <1>4, <1>5 DEF Next

LEMMA GateInvAlways == Spec => []GateInv
BY GateInvInit, GateInvNext, PTL DEF Spec

\* Every frame leaves tracks, rows and registers of the right kind, and the gate
\* remembers a zone for the active tracks and for no other
\* (ConveyorByteTracker.update, GateStateMachine.process_tracks).
THEOREM CountingTypes == Spec => []TypeOK
<1>1. GateInv => TypeOK
  BY DEF GateInv
<1> QED
  BY <1>1, GateInvAlways, PTL

\* A bag's crossings add up to its change of side, wherever it starts, however
\* it jitters, and through loss and recovery, unless the line is moved over it;
\* in the worker that never happens (GateStateMachine.process_tracks).
THEOREM BagsCountOnce == Spec => []NetIsChangeOfSide
<1>1. GateInv => NetIsChangeOfSide
  BY DEF GateInv, NetIsChangeOfSide
<1> QED
  BY <1>1, GateInvAlways, PTL

-----------------------------------------------------------------------------
(* The ledger *)

\* Sequence numbers of a track only grow.
LEMMA SeqGrows ==
  ASSUME GateInv, NEW at, NEW new, NEW n, Given(at, new, n), Process(at, new), NEW i \in Ids
  PROVE  tracks'[i].seq \in Nat /\ tracks'[i].seq >= tracks[i].seq
<1>0. TypeOK /\ tracks' = Tracked(at, new)
  BY DEF GateInv, Process
<1>1. tracks[i].seq \in Nat
  BY <1>0, TrackFields
<1>2. CASE i \in DOMAIN at
  <2>1. at[i] \in Positions
    BY <1>2 DEF Given
  <2>2. tracks'[i].seq = tracks[i].seq + Abs(Direction(tracks[i], at[i]))
    BY <1>0, <1>2, <2>1, TrackedIs, MatchedIs
  <2> QED
    BY <1>0, <1>1, <2>1, <2>2, DirectionIs
<1>3. CASE i \notin DOMAIN at /\ tracks[i].state \in Known
  <2>1. tracks'[i].seq = tracks[i].seq
    BY <1>0, <1>3, TrackedIs, MissedIs
  <2> QED
    BY <1>1, <2>1
<1>4. CASE i \notin DOMAIN at /\ tracks[i].state \notin Known /\ i - named \in 1..n
  <2>1. tracks'[i] = Created(new[i - named]) /\ tracks[i].state = "none" /\ new[i - named] \in Positions
    BY <1>0, <1>4, TrackedIs DEF Given
  <2>2. tracks'[i].seq = 0
    BY <1>0, <2>1, CreatedIs
  <2>3. tracks[i].seq = 0
    BY <2>1, NoTracksAre DEF GateInv
  <2> QED
    BY <2>2, <2>3
<1>5. CASE i \notin DOMAIN at /\ tracks[i].state \notin Known /\ i - named \notin 1..n
  <2>1. tracks'[i] = tracks[i]
    BY <1>0, <1>5, TrackedIs
  <2> QED
    BY <1>1, <2>1
<1> QED
  BY <1>2, <1>3, <1>4, <1>5

\* The rows of the session, and the crossings of a frame, by direction.
RowsOf(s, d)   == {row \in ledger : row.session = s /\ row.dir = d}
Turning(at, d) == {i \in DOMAIN at : Direction(tracks[i], at[i]) = d}

LEMMA TotalIs ==
  ASSUME NEW s
  PROVE  Total(s) = Cardinality(RowsOf(s, 1)) - Cardinality(RowsOf(s, -1))
BY DEF Total, RowsOf

LEMMA CrossingsAreFinite ==
  ASSUME TypeOK, NEW at, NEW new, NEW n, Given(at, new, n)
  PROVE  /\ IsFiniteSet(Crossing(at))
         /\ \A d \in {-1, 1} : /\ IsFiniteSet(Turning(at, d)) /\ Cardinality(Turning(at, d)) \in Nat
                              /\ Turning(at, d) = {i \in Crossing(at) : Direction(tracks[i], at[i]) = d}
         /\ Net(at) = Cardinality(Turning(at, 1)) - Cardinality(Turning(at, -1))
<1>1. DOMAIN at \subseteq 1..MaxTracks /\ IsFiniteSet(1..MaxTracks)
  BY FS_Interval, ConstantsAre DEF Given, Ids
<1>2. Crossing(at) \subseteq DOMAIN at /\ \A d : Turning(at, d) \subseteq DOMAIN at
  BY DEF Crossing, Turning
<1>3. IsFiniteSet(Crossing(at)) /\ \A d : IsFiniteSet(Turning(at, d)) /\ Cardinality(Turning(at, d)) \in Nat
  <2>1. IsFiniteSet(DOMAIN at)
    BY <1>1, FS_Subset
  <2> QED
    BY <1>2, <2>1, FS_Subset, FS_CardinalityType
<1>4. \A d \in {-1, 1} : Turning(at, d) = {i \in Crossing(at) : Direction(tracks[i], at[i]) = d}
  BY DEF Crossing, Turning
<1>5. Net(at) = Cardinality(Turning(at, 1)) - Cardinality(Turning(at, -1))
  BY DEF Net, Turning
<1> QED
  BY <1>3, <1>4, <1>5

\* A frame adds as many rows of a direction as bags crossed in it, when each
\* crossing gives a row and no row is there already.
LEMMA RowsAdd ==
  ASSUME TypeOK, IsFiniteSet(ledger), NEW at, NEW new, NEW n, Given(at, new, n),
         ledger' = ledger \cup {Row(i, at[i]) : i \in Crossing(at)},
         \A i \in Crossing(at) : Row(i, at[i]) \notin ledger,
         NEW d \in {-1, 1}
  PROVE  LET after == {row \in ledger' : row.session = session /\ row.dir = d}
         IN  Cardinality(after) = Cardinality(RowsOf(session, d)) + Cardinality(Turning(at, d))
<1> DEFINE C == Turning(at, d)
           R == {Row(i, at[i]) : i \in C}
           f == [i \in C |-> Row(i, at[i])]
           after == {row \in ledger' : row.session = session /\ row.dir = d}
<1>1. C = {i \in Crossing(at) : Direction(tracks[i], at[i]) = d} /\ IsFiniteSet(C)
  BY CrossingsAreFinite
<1>2. \A i \in Crossing(at) : /\ Row(i, at[i]).session = session /\ Row(i, at[i]).track = i
                             /\ Row(i, at[i]).dir = Direction(tracks[i], at[i])
  BY RowIs
<1>3. after = RowsOf(session, d) \cup R
  BY <1>1, <1>2 DEF RowsOf
<1>4. RowsOf(session, d) \cap R = {}
  BY <1>1 DEF RowsOf
<1>5. IsFiniteSet(RowsOf(session, d))
  <2>1. RowsOf(session, d) \in SUBSET ledger
    BY DEF RowsOf
  <2> QED
    BY <2>1, FS_Subset
<1>6. IsFiniteSet(R) /\ Cardinality(R) = Cardinality(C)
  <2>1. f \in [C -> R] /\ \A r \in R : \E i \in C : f[i] = r
    OBVIOUS
  <2>2. \A i, j \in C : f[i] = f[j] => i = j
    BY <1>1, <1>2
  <2>3. f \in Surjection(C, R) /\ f \in Injection(C, R)
    BY <2>1, <2>2 DEF Surjection, Injection, IsInjective
  <2> HIDE DEF f, R, C
  <2> QED
    BY <1>1, <2>3, FS_Surjection
<1> HIDE DEF C, R, f
<1> DEFINE Q == RowsOf(session, d)
<1> HIDE DEF Q
<1>7. Cardinality(after) = Cardinality(Q) + Cardinality(R) - Cardinality({})
  <2>1. after = Q \cup R /\ Q \cap R = {} /\ IsFiniteSet(Q) /\ IsFiniteSet(R)
    BY <1>3, <1>4, <1>5, <1>6 DEF Q
  <2>2. Cardinality(Q \cup R) = Cardinality(Q) + Cardinality(R) - Cardinality(Q \cap R)
    BY <2>1, FS_Union
  <2> HIDE DEF after
  <2> QED
    BY <2>1, <2>2
<1>8. Cardinality({}) = 0 /\ Cardinality(RowsOf(session, d)) \in Nat /\ Cardinality(R) \in Nat
  BY <1>5, <1>6, FS_EmptySet, FS_CardinalityType
<1> QED
  BY <1>6, <1>7, <1>8 DEF C, Q

\* No crossing of a session that no fault excuses is refused as a duplicate.
LEMMA RowsAreNew ==
  ASSUME GateInv, LedgerInv, session # 0, ~excused, NEW at, NEW new, NEW n, Given(at, new, n), NEW i \in Crossing(at)
  PROVE  Key(Row(i, at[i])) \notin Keys /\ Row(i, at[i]) \notin ledger
<1>0. TypeOK
  BY DEF GateInv
<1> DEFINE row == Row(i, at[i])
<1>1. /\ i \in Ids /\ row \in Rows /\ row.session = session /\ row.track = i
      /\ row.seq = tracks[i].seq + 1
  BY <1>0, RowIs
<1>2. tracks[i].seq \in Nat
  BY <1>0, <1>1, TrackFields
<1> HIDE DEF row
<1>3. ASSUME NEW old \in ledger, Key(old) = Key(row)
      PROVE  FALSE
  <2>1. old.session = session /\ old.track = i /\ old.seq = tracks[i].seq + 1
    <3>1. /\ Key(old).session = old.session /\ Key(old).track = old.track /\ Key(old).seq = old.seq
          /\ Key(row).session = row.session /\ Key(row).track = row.track /\ Key(row).seq = row.seq
      BY DEF Key
    <3> QED
      BY <1>1, <1>3, <3>1
  <2>2. old.seq <= tracks[old.track].seq
    BY <2>1 DEF LedgerInv
  <2> QED
    BY <1>2, <2>1, <2>2
<1>4. Key(row) \notin Keys
  BY <1>3 DEF Keys
<1>5. row \notin ledger
  BY <1>3
<1> QED
  BY <1>4, <1>5 DEF row

\* A frame whose crossings are recorded.
LEMMA FrameIsRecorded ==
  ASSUME GateInv, LedgerInv, NEW at, NEW new, NEW n, Given(at, new, n), Process(at, new),
         session # 0, UNCHANGED <<session, opened, begun>>,
         NEW reached \in SUBSET Crossing(at), Record(at, reached)
  PROVE  LedgerInv'
<1>0. TypeOK /\ IsFiniteSet(ledger) /\ session <= opened
  BY DEF GateInv, LedgerInv, TypeOK
<1> DEFINE rows == {Row(i, at[i]) : i \in reached}
           fresh == {row \in rows : Key(row) \notin Keys}
<1>1. /\ ledger' = ledger \cup fresh /\ excused' = (excused \/ reached # Crossing(at))
      /\ tracks' = Tracked(at, new) /\ running' = running + Net(at)
  BY DEF Record, Process
<1>2. \A row \in rows : \E i \in Crossing(at) :
        /\ row = Row(i, at[i]) /\ i \in Ids /\ i \in DOMAIN at /\ row.session = session /\ row.track = i
        /\ row.seq = Matched(tracks[i], at[i]).seq
  BY <1>0, RowIs DEF Row
<1>3. IsFiniteSet(ledger')
  <2>1. IsFiniteSet(rows)
    <3> DEFINE f == [i \in reached |-> Row(i, at[i])]
    <3>1. f \in Surjection(reached, rows)
      BY DEF Surjection
    <3>2. IsFiniteSet(reached)
      BY <1>0, CrossingsAreFinite, FS_Subset
    <3> HIDE DEF f, rows
    <3> QED
      BY <3>1, <3>2, FS_Surjection
  <2>2. IsFiniteSet(fresh)
    <3>1. fresh \in SUBSET rows
      OBVIOUS
    <3> HIDE DEF fresh, rows
    <3> QED
      BY <2>1, <3>1, FS_Subset
  <2> HIDE DEF fresh, rows
  <2> QED
    BY <1>0, <1>1, <2>2, FS_Union
<1>4. \A row \in ledger' : row.session # 0 /\ row.session <= opened'
  <2>1. \A row \in ledger : row.session # 0 /\ row.session <= opened
    BY DEF LedgerInv
  <2> QED
    BY <1>0, <1>1, <1>2, <2>1
<1>5. ASSUME ~excused'
      PROVE  /\ (\A row \in ledger : row.session = session => row.seq <= tracks[row.track].seq)'
             /\ Total(session)' = (running - begun)'
  <2>1. ~excused /\ reached = Crossing(at)
    BY <1>1, <1>5
  <2>2. \A i \in Crossing(at) : Key(Row(i, at[i])) \notin Keys /\ Row(i, at[i]) \notin ledger
    BY <2>1, RowsAreNew
  <2>3. ledger' = ledger \cup {Row(i, at[i]) : i \in Crossing(at)}
    BY <1>1, <2>1, <2>2
  <2>4. ASSUME NEW row \in ledger', row.session = session
        PROVE  row.seq <= tracks'[row.track].seq
    <3>1. CASE row \in ledger
      <4>1. row.seq <= tracks[row.track].seq /\ row.track \in Ids /\ row.seq \in Nat
        BY <1>0, <2>1, <2>4, <3>1 DEF LedgerInv, TypeOK, Rows
      <4>2. tracks'[row.track].seq \in Nat /\ tracks'[row.track].seq >= tracks[row.track].seq
        BY <4>1, SeqGrows
      <4>3. tracks[row.track].seq \in Nat
        BY <1>0, <4>1, TrackFields
      <4> QED
        BY <4>1, <4>2, <4>3
    <3>2. CASE row \in rows
      <4>1. PICK i \in Crossing(at) :
              /\ i \in Ids /\ i \in DOMAIN at /\ row.track = i /\ row.seq = Matched(tracks[i], at[i]).seq
        BY <1>2, <3>2
      <4>2. tracks'[i] = Matched(tracks[i], at[i])
        BY <1>0, <1>1, <4>1, TrackedIs
      <4>3. tracks'[i].seq \in Nat
        BY <4>1, SeqGrows
      <4> QED
        BY <4>1, <4>2, <4>3
    <3> QED
      BY <2>1, <2>3, <3>1, <3>2
  <2>5. Total(session)' = (running - begun)'
    <3> DEFINE After(d) == Cardinality({row \in ledger' : row.session = session /\ row.dir = d})
               Before(d) == Cardinality(RowsOf(session, d))
               Turn(d) == Cardinality(Turning(at, d))
    <3>1. \A d \in {-1, 1} : After(d) = Before(d) + Turn(d)
      BY <1>0, <2>2, <2>3, RowsAdd
    <3>2. Total(session)' = After(1) - After(-1)
      BY DEF Total
    <3>3. Total(session) = Before(1) - Before(-1) /\ Total(session) = running - begun
      BY <2>1, TotalIs DEF LedgerInv, LedgerFollowsEngine
    <3>4. Net(at) = Turn(1) - Turn(-1) /\ \A d \in {-1, 1} : Turn(d) \in Nat
      BY <1>0, CrossingsAreFinite
    <3>5. \A d \in {-1, 1} : Before(d) \in Nat
      <4>1. \A d : RowsOf(session, d) \in SUBSET ledger
        BY DEF RowsOf
      <4> QED
        BY <1>0, <4>1, FS_Subset, FS_CardinalityType
    <3> HIDE DEF After, Before, Turn
    <3>6. After(1) = Before(1) + Turn(1) /\ After(-1) = Before(-1) + Turn(-1)
      BY <3>1
    <3>7. Turn(1) \in Nat /\ Turn(-1) \in Nat /\ Before(1) \in Nat /\ Before(-1) \in Nat
      BY <3>4, <3>5
    <3>8. running \in Int /\ begun \in Int /\ begun' = begun /\ running' = running + (Turn(1) - Turn(-1))
      BY <1>0, <1>1, <3>4 DEF TypeOK
    <3>9. After(1) - After(-1) = running' - begun'
      BY <3>3, <3>6, <3>7, <3>8
    <3> QED
      BY <3>2, <3>9
  <2> QED
    BY <2>4, <2>5
<1> HIDE DEF rows, fresh
<1> QED
  BY <1>3, <1>4, <1>5 DEF LedgerInv, LedgerFollowsEngine

\* A frame that is recorded in no session, or for a viewer that does not know it.
LEMMA FrameIsDropped ==
  ASSUME GateInv, LedgerInv, NEW at, NEW new, NEW n, Given(at, new, n), Process(at, new),
         UNCHANGED <<session, opened, begun, ledger>>,
         session = 0 \/ excused' = (excused \/ Crossing(at) # {})
  PROVE  LedgerInv'
<1>0. TypeOK /\ running' = running + Net(at)
  BY DEF GateInv, Process
<1>1. IsFiniteSet(ledger') /\ \A row \in ledger' : row.session # 0 /\ row.session <= opened'
  BY DEF LedgerInv
<1>2. ASSUME session' # 0, ~excused'
      PROVE  /\ (\A row \in ledger : row.session = session => row.seq <= tracks[row.track].seq)'
             /\ Total(session)' = (running - begun)'
  <2>1. session # 0 /\ ~excused /\ Crossing(at) = {}
    BY <1>2
  <2>2. Net(at) = 0
    <3>1. \A d \in {-1, 1} : Turning(at, d) = {}
      BY <1>0, <2>1, CrossingsAreFinite
    <3>2. Cardinality({}) = 0
      BY FS_EmptySet
    <3> QED
      BY <1>0, <3>1, <3>2, CrossingsAreFinite
  <2>3. Total(session)' = (running - begun)'
    <3>1. Total(session)' = Total(session)
      BY DEF Total
    <3>2. Total(session) = running - begun /\ running' = running
      BY <1>0, <2>1, <2>2 DEF LedgerInv, LedgerFollowsEngine, TypeOK
    <3> QED
      BY <3>1, <3>2
  <2>4. ASSUME NEW row \in ledger', row.session = session
        PROVE  row.seq <= tracks'[row.track].seq
    <3>1. row.seq <= tracks[row.track].seq /\ row.track \in Ids /\ row.seq \in Nat
      BY <1>0, <2>1, <2>4 DEF LedgerInv, TypeOK, Rows
    <3>2. tracks'[row.track].seq \in Nat /\ tracks'[row.track].seq >= tracks[row.track].seq
      BY <3>1, SeqGrows
    <3>3. tracks[row.track].seq \in Nat
      BY <1>0, <3>1, TrackFields
    <3> QED
      BY <3>1, <3>2, <3>3
  <2> QED
    BY <2>3, <2>4
<1> QED
  BY <1>1, <1>2 DEF LedgerInv, LedgerFollowsEngine

LEMMA LedgerInvInit == Init => LedgerInv
<1> SUFFICES ASSUME Init PROVE LedgerInv
  OBVIOUS
<1>1. IsFiniteSet(ledger) /\ ledger = {} /\ session = 0
  BY FS_EmptySet DEF Init
<1> QED
  BY <1>1 DEF LedgerInv, LedgerFollowsEngine

LEMMA LedgerInvNext == GateInv /\ LedgerInv /\ [Next]_vars => LedgerInv'
<1> SUFFICES ASSUME GateInv, LedgerInv, [Next]_vars
             PROVE  LedgerInv'
  OBVIOUS
<1>0. TypeOK
  BY DEF GateInv
<1>1. CASE WorkerFrame
  <2>1. UNCHANGED <<session, opened, begun>>
    BY <1>1 DEF WorkerFrame
  <2>2. PICK f \in Frames, n \in Nat :
          /\ Given(f[1], f[2], n) /\ Process(f[1], f[2])
          /\ session = 0 => UNCHANGED <<ledger, refused, excused, plc>>
          /\ session # 0 => \E reached \in SUBSET Crossing(f[1]) : Record(f[1], reached)
    BY <1>0, <1>1, WorkerFrameIs
  <2>3. CASE session = 0
    BY <2>1, <2>2, <2>3, FrameIsDropped
  <2>4. CASE session # 0
    <3>1. PICK reached \in SUBSET Crossing(f[1]) : Record(f[1], reached)
      BY <2>2, <2>4
    <3> QED
      BY <2>1, <2>2, <2>4, <3>1, FrameIsRecorded
  <2> QED
    BY <2>3, <2>4
<1>2. CASE RendererFrame
  <2>1. UNCHANGED <<session, opened, begun>>
    BY <1>2 DEF RendererFrame
  <2>2. PICK f \in Frames, n \in Nat :
          /\ Given(f[1], f[2], n) /\ Process(f[1], f[2])
          /\ \/ session # 0 /\ \E reached \in SUBSET Crossing(f[1]) : Record(f[1], reached)
             \/ /\ excused' = (excused \/ Crossing(f[1]) # {})
                /\ UNCHANGED <<ledger, refused>>
    BY <1>0, <1>2, RendererFrameIs
  <2>3. CASE ledger' = ledger /\ excused' = (excused \/ Crossing(f[1]) # {})
    BY <2>1, <2>2, <2>3, FrameIsDropped
  <2>4. CASE session # 0 /\ \E reached \in SUBSET Crossing(f[1]) : Record(f[1], reached)
    <3>1. PICK reached \in SUBSET Crossing(f[1]) : Record(f[1], reached)
      BY <2>4
    <3> QED
      BY <2>1, <2>2, <2>4, <3>1, FrameIsRecorded
  <2> QED
    BY <2>2, <2>3, <2>4
<1>3. CASE OpenSession
  <2>1. /\ session' = opened + 1 /\ opened' = opened + 1 /\ begun' = running
        /\ UNCHANGED <<engine, ledger>>
    BY <1>3 DEF OpenSession
  <2>2. opened \in Nat /\ running \in Int
    BY <1>0 DEF TypeOK
  <2>3. \A row \in ledger' : /\ row.session # 0 /\ row.session <= opened' /\ row.session # session'
                            /\ row.session \in Nat
    BY <1>0, <2>1, <2>2 DEF LedgerInv, TypeOK, Rows
  <2>4. Total(session)' = 0
    <3>1. Total(session)' = Cardinality({}) - Cardinality({})
      <4>1. \A d : {row \in ledger' : row.session = session' /\ row.dir = d} = {}
        BY <2>3
      <4> QED
        BY <4>1 DEF Total
    <3> QED
      BY <3>1, FS_EmptySet
  <2>5. running' - begun' = 0
    BY <2>1, <2>2 DEF engine
  <2> QED
    BY <2>1, <2>3, <2>4, <2>5 DEF LedgerInv, LedgerFollowsEngine
<1>4. CASE CloseSession
  <2>1. session' = 0 /\ UNCHANGED <<opened, ledger>>
    BY <1>4 DEF CloseSession
  <2> QED
    BY <2>1 DEF LedgerInv, LedgerFollowsEngine
<1>5. CASE Restart
  <2>1. excused' = (session # 0) /\ UNCHANGED <<session, opened, ledger>>
    BY <1>5 DEF Restart
  <2> QED
    BY <2>1 DEF LedgerInv, LedgerFollowsEngine
<1>6. CASE MoveLine \/ NewEpoch \/ SetTarget \/ StartConveyor \/ UNCHANGED vars
  <2>1. UNCHANGED <<engine, session, opened, ledger, begun, excused>>
    BY <1>6 DEF MoveLine, NewEpoch, SetTarget, StartConveyor, vars, history
  <2> QED
    BY <2>1 DEF LedgerInv, LedgerFollowsEngine, Total, engine
<1> QED
  BY <1>1, <1>2, <1>3, <1>4, <1>5, <1>6 DEF Next

\* The ledger's total of a session is what the engine counted since it began:
\* of a crossing that is recorded, none is refused as the duplicate of another,
\* whatever number the stream epoch has and however often a bag turns back,
\* until the process is restarted, the database fails or a viewer that does not
\* know the session takes a frame (LedgerRepository.record_event,
\* CountingEventHandler.handle_frame_output).
THEOREM LedgerFollows == Spec => []LedgerFollowsEngine
<1>1. LedgerInv => LedgerFollowsEngine
  BY DEF LedgerInv
<1>2. Init => GateInv /\ LedgerInv
  BY GateInvInit, LedgerInvInit
<1>3. GateInv /\ LedgerInv /\ [Next]_vars => (GateInv /\ LedgerInv)'
  BY GateInvNext, LedgerInvNext
<1> QED
  BY <1>1, <1>2, <1>3, PTL DEF Spec

\* A worker that had counted nothing before the session shows the PLC the
\* session's total in the ledger, and stops the belt only when that total has
\* reached the target (InferenceWorker.run_step).
THEOREM PlcShows == Spec => PlcFollowsSession
<1> DEFINE Shown ==
      (session # 0 /\ begun = 0 /\ ~excused') =>
        /\ register' # register => register' = Total(session)' % Word
        /\ (conveyor /\ ~conveyor') => Total(session)' >= target
<1>1. ASSUME GateInv, LedgerInv, [Next]_vars, LedgerInv'
      PROVE  [Shown]_vars
  <2> SUFFICES ASSUME session # 0, begun = 0, ~excused'
               PROVE  /\ register' # register => register' = Total(session)' % Word
                      /\ (conveyor /\ ~conveyor') => Total(session)' >= target
    OBVIOUS
  <2>0. TypeOK
    BY <1>1 DEF GateInv
  <2>1. CASE WorkerFrame
    <3>1. session' # 0 /\ begun' = 0
      BY <2>1 DEF WorkerFrame
    <3>2. Total(session)' = running' - begun'
      BY <1>1, <3>1 DEF LedgerInv, LedgerFollowsEngine
    <3>3. PICK f \in Frames, n \in Nat :
            /\ Given(f[1], f[2], n) /\ Process(f[1], f[2])
            /\ session # 0 => \E link \in {"down", "half", "up"} : Actuate(link)
      BY <2>0, <2>1, WorkerFrameIs
    <3>4. running' \in Int
      BY <2>0, <3>3, FrameTypes
    <3>5. Total(session)' = running'
      <4>1. running' - begun' = running'
        <5>1. \A r \in Int : \A b : b = 0 => r - b = r
          OBVIOUS
        <5> QED
          BY <3>1, <3>4, <5>1
      <4> QED
        BY <3>2, <4>1
    <3>6. PICK link \in {"down", "half", "up"} : Actuate(link)
      BY <3>3
    <3> QED
      BY <3>5, <3>6 DEF Actuate
  <2>2. CASE RendererFrame \/ MoveLine \/ NewEpoch \/ OpenSession \/ SetTarget \/ CloseSession
             \/ Restart \/ UNCHANGED vars
    <3>1. UNCHANGED plc
      BY <2>2 DEF RendererFrame, MoveLine, NewEpoch, OpenSession, SetTarget, CloseSession, Restart, vars
    <3> QED
      BY <3>1 DEF plc
  <2>3. CASE StartConveyor
    BY <2>3 DEF StartConveyor
  <2> QED
    BY <1>1, <2>1, <2>2, <2>3 DEF Next
<1>2. Init => GateInv /\ LedgerInv
  BY GateInvInit, LedgerInvInit
<1>3. GateInv /\ LedgerInv /\ [Next]_vars => (GateInv /\ LedgerInv)'
  BY GateInvNext, LedgerInvNext
<1>4. Spec => [][Shown]_vars
  BY <1>1, <1>2, <1>3, PTL DEF Spec
<1> QED
  BY <1>4 DEF PlcFollowsSession

-----------------------------------------------------------------------------
(* The count *)

\* The bags that were measured behind the line at first, and those at last.
Began  == {i \in Ids : tracks[i].first = 1}
Behind == {i \in Ids : tracks[i].last = 1}

\* The count is the number of bags that came over the line, less those that
\* went back over it, however often any of them turned; it is that in the worker
\* always (NetIsChangeOfSide).
CountIsOfBags ==
  ~displaced => running = Cardinality({i \in Ids : tracks[i].first = 0 /\ tracks[i].last = 1})
                          - Cardinality({i \in Ids : tracks[i].first = 1 /\ tracks[i].last = 0})

\* The same count by the side alone, which a frame changes one bag at a time.
CountInv == ~displaced => running = Cardinality(Behind) - Cardinality(Began)

LEMMA IdsAreFinite ==
  ASSUME NEW S \in SUBSET Ids
  PROVE  IsFiniteSet(S) /\ Cardinality(S) \in Nat
<1>1. IsFiniteSet(Ids)
  BY ConstantsAre, FS_Interval DEF Ids
<1> QED
  BY <1>1, FS_Subset, FS_CardinalityType

LEMMA UnionOfDisjoint ==
  ASSUME NEW S \in SUBSET Ids, NEW T \in SUBSET Ids, S \cap T = {}
  PROVE  Cardinality(S \cup T) = Cardinality(S) + Cardinality(T)
<1>1. IsFiniteSet(S) /\ IsFiniteSet(T) /\ Cardinality(S) \in Nat /\ Cardinality(T) \in Nat
  BY IdsAreFinite
<1>2. Cardinality(S \cup T) = Cardinality(S) + Cardinality(T) - Cardinality(S \cap T)
  BY <1>1, FS_Union
<1>3. Cardinality(S \cap T) = 0
  BY FS_EmptySet
<1> DEFINE both == Cardinality(S \cup T)
<1>4. both = Cardinality(S) + Cardinality(T) - 0
  BY <1>2, <1>3
<1> HIDE DEF both
<1> QED
  BY <1>1, <1>4 DEF both

\* What both sets have in common does not count.
LEMMA DifferenceOfCards ==
  ASSUME NEW S \in SUBSET Ids, NEW T \in SUBSET Ids
  PROVE  Cardinality(S) - Cardinality(T) = Cardinality(S \ T) - Cardinality(T \ S)
<1>1. /\ S \ T \in SUBSET Ids /\ T \ S \in SUBSET Ids /\ S \cap T \in SUBSET Ids
      /\ (S \ T) \cap (S \cap T) = {} /\ (T \ S) \cap (S \cap T) = {}
      /\ S = (S \ T) \cup (S \cap T) /\ T = (T \ S) \cup (S \cap T)
  OBVIOUS
<1>2. Cardinality(S) = Cardinality(S \ T) + Cardinality(S \cap T)
  BY <1>1, UnionOfDisjoint
<1>3. Cardinality(T) = Cardinality(T \ S) + Cardinality(S \cap T)
  BY <1>1, UnionOfDisjoint
<1>4. Cardinality(S \ T) \in Nat /\ Cardinality(T \ S) \in Nat /\ Cardinality(S \cap T) \in Nat
  BY <1>1, IdsAreFinite
<1> QED
  BY <1>2, <1>3, <1>4

\* Unless the line passed over a bag, it turns just if its side changes.
LEMMA TurnIsChange ==
  ASSUME GateInv, NEW at, NEW new, NEW n, Given(at, new, n), ~ PassedOver(at), NEW i \in DOMAIN at
  PROVE  /\ Direction(tracks[i], at[i]) = Side(ZoneOf(at[i])) - tracks[i].last
         /\ Side(ZoneOf(at[i])) \in 0..1 /\ tracks[i].last \in 0..1
<1>1. TypeOK /\ i \in Ids /\ at[i] \in Positions
  BY DEF GateInv, Given
<1>2. Side(PrevZone(tracks[i])) = tracks[i].last
  <2>1. CASE tracks[i].zone # "none"
    BY <1>1, <2>1 DEF PrevZone, GateInv
  <2>2. CASE tracks[i].zone = "none"
    BY <2>2 DEF PrevZone, PassedOver
  <2> QED
    BY <2>1, <2>2
<1> QED
  BY <1>1, <1>2, DirectionIs, TrackFields DEF Direction

\* A frame moves the bags that turn over the line, and adds to both sets the new
\* bags that it finds behind it.
LEMMA FrameSides ==
  ASSUME GateInv, NEW at, NEW new, NEW n, Given(at, new, n), Process(at, new), ~displaced'
  PROVE  \E fresh \in SUBSET Ids :
           /\ Began' = Began \cup fresh
           /\ Behind' = (Behind \ Turning(at, -1)) \cup (Turning(at, 1) \cup fresh)
           /\ fresh \cap Began = {} /\ fresh \cap Behind = {} /\ fresh \cap Turning(at, 1) = {}
           /\ Turning(at, 1) \cap Behind = {} /\ Turning(at, -1) \subseteq Behind
           /\ Turning(at, 1) \subseteq Ids
<1>0. TypeOK /\ tracks' = Tracked(at, new) /\ ~ PassedOver(at)
  BY DEF GateInv, Process
<1> DEFINE Fresh(i) == i \notin DOMAIN at /\ tracks[i].state \notin Known /\ i - named \in 1..n
           fresh == {i \in Ids : Fresh(i) /\ tracks'[i].first = 1}
<1>1. DOMAIN at \subseteq Ids
  BY DEF Given
<1>2. ASSUME NEW i \in DOMAIN at
      PROVE  /\ i \in Ids /\ ~ Fresh(i)
             /\ tracks'[i].first = tracks[i].first
             /\ i \in Turning(at, 1) <=> tracks[i].last = 0 /\ tracks'[i].last = 1
             /\ i \in Turning(at, -1) <=> tracks[i].last = 1 /\ tracks'[i].last = 0
             /\ tracks[i].last \in 0..1 /\ tracks'[i].last \in 0..1
  <2>1. at[i] \in Positions /\ i \in Ids
    BY DEF Given
  <2>2. tracks'[i].first = tracks[i].first /\ tracks'[i].last = Side(ZoneOf(at[i]))
    BY <1>0, <2>1, TrackedIs, MatchedIs
  <2>3. /\ Direction(tracks[i], at[i]) = tracks'[i].last - tracks[i].last
        /\ tracks'[i].last \in 0..1 /\ tracks[i].last \in 0..1
    BY <1>0, <2>2, TurnIsChange
  <2>4. /\ i \in Turning(at, 1) <=> Direction(tracks[i], at[i]) = 1
        /\ i \in Turning(at, -1) <=> Direction(tracks[i], at[i]) = -1
    BY DEF Turning
  <2> QED
    BY <2>1, <2>2, <2>3, <2>4
<1>3. ASSUME NEW i \in Ids, i \notin DOMAIN at, ~ Fresh(i)
      PROVE  tracks'[i].first = tracks[i].first /\ tracks'[i].last = tracks[i].last
  <2>1. CASE tracks[i].state \in Known
    BY <1>0, <1>3, <2>1, TrackedIs, MissedIs
  <2>2. CASE tracks[i].state \notin Known
    BY <1>0, <1>3, <2>2, TrackedIs
  <2> QED
    BY <2>1, <2>2
<1>4. ASSUME NEW i \in Ids, Fresh(i)
      PROVE  tracks'[i].last = tracks'[i].first /\ tracks[i].first = 0 /\ tracks[i].last = 0
  <2>1. tracks'[i] = Created(new[i - named]) /\ tracks[i].state = "none" /\ new[i - named] \in Positions
    BY <1>0, <1>4, TrackedIs DEF Given
  <2>2. tracks'[i].last = tracks'[i].first
    BY <1>0, <2>1, CreatedIs
  <2>3. tracks[i] = NoTrack
    BY <2>1 DEF GateInv
  <2> QED
    BY <2>2, <2>3 DEF NoTrack
<1>5. \A d : Turning(at, d) \subseteq DOMAIN at
  BY DEF Turning
<1> HIDE DEF Fresh
<1>6. Began' = Began \cup fresh
  BY <1>2, <1>3, <1>4 DEF Began
<1>7. Behind' = (Behind \ Turning(at, -1)) \cup (Turning(at, 1) \cup fresh)
  <2>1. ASSUME NEW i \in Ids
        PROVE  i \in Behind' <=> i \in (Behind \ Turning(at, -1)) \cup (Turning(at, 1) \cup fresh)
    <3>1. CASE i \in DOMAIN at
      BY <1>2, <3>1 DEF Behind
    <3>2. CASE i \notin DOMAIN at /\ ~ Fresh(i)
      BY <1>3, <1>5, <3>2 DEF Behind
    <3>3. CASE i \notin DOMAIN at /\ Fresh(i)
      BY <1>4, <1>5, <3>3 DEF Behind
    <3> QED
      BY <3>1, <3>2, <3>3
  <2>2. Behind' \subseteq Ids /\ Behind \subseteq Ids /\ fresh \subseteq Ids /\ Turning(at, 1) \subseteq Ids
    BY <1>1, <1>5 DEF Behind
  <2> HIDE DEF fresh
  <2> QED
    BY <2>1, <2>2
<1>8. /\ fresh \cap Began = {} /\ fresh \cap Behind = {} /\ fresh \cap Turning(at, 1) = {}
      /\ Turning(at, 1) \cap Behind = {} /\ Turning(at, -1) \subseteq Behind
      /\ Turning(at, 1) \subseteq Ids
  BY <1>1, <1>2, <1>4, <1>5 DEF Began, Behind
<1>9. fresh \in SUBSET Ids
  OBVIOUS
<1> HIDE DEF fresh
<1> QED
  BY <1>6, <1>7, <1>8, <1>9

LEMMA FrameCounts ==
  ASSUME GateInv, CountInv, NEW at, NEW new, NEW n, Given(at, new, n), Process(at, new)
  PROVE  CountInv'
<1> SUFFICES ASSUME ~displaced' PROVE running' = Cardinality(Behind') - Cardinality(Began')
  BY DEF CountInv
<1>0. /\ TypeOK /\ running \in Int /\ running' = running + Net(at)
      /\ running = Cardinality(Behind) - Cardinality(Began)
  BY DEF GateInv, TypeOK, Process, CountInv
<1> DEFINE over == Turning(at, 1)
           back == Turning(at, -1)
<1>1. PICK fresh \in SUBSET Ids :
        /\ Began' = Began \cup fresh
        /\ Behind' = (Behind \ back) \cup (over \cup fresh)
        /\ fresh \cap Began = {} /\ fresh \cap Behind = {} /\ fresh \cap over = {}
        /\ over \cap Behind = {} /\ back \subseteq Behind
        /\ over \subseteq Ids
  BY FrameSides
<1>2. Net(at) = Cardinality(over) - Cardinality(back)
  BY <1>0, CrossingsAreFinite
<1> HIDE DEF over, back
<1>3. Behind \in SUBSET Ids /\ Began \in SUBSET Ids /\ back \in SUBSET Ids /\ over \in SUBSET Ids
  BY <1>1 DEF Behind, Began
<1>4. Cardinality(Began') = Cardinality(Began) + Cardinality(fresh)
  BY <1>1, <1>3, UnionOfDisjoint
<1>5. Cardinality(Behind) = Cardinality(Behind \ back) + Cardinality(back)
  <2>1. Behind = (Behind \ back) \cup back /\ (Behind \ back) \cap back = {} /\ Behind \ back \in SUBSET Ids
    BY <1>1, <1>3
  <2> QED
    BY <1>3, <2>1, UnionOfDisjoint
<1>6. Cardinality(over \cup fresh) = Cardinality(over) + Cardinality(fresh)
  BY <1>1, <1>3, UnionOfDisjoint
<1>7. Cardinality(Behind') = Cardinality(Behind \ back) + Cardinality(over \cup fresh)
  <2>1. (Behind \ back) \cap (over \cup fresh) = {} /\ Behind \ back \in SUBSET Ids /\ over \cup fresh \in SUBSET Ids
    BY <1>1, <1>3
  <2> QED
    BY <1>1, <2>1, UnionOfDisjoint
<1>8. /\ Cardinality(Behind \ back) \in Nat /\ Cardinality(back) \in Nat /\ Cardinality(over) \in Nat
      /\ Cardinality(fresh) \in Nat /\ Cardinality(Began) \in Nat
  BY <1>3, IdsAreFinite
<1> QED
  BY <1>0, <1>2, <1>4, <1>5, <1>6, <1>7, <1>8

LEMMA NoBagCounts ==
  ASSUME tracks = NoTracks
  PROVE  Cardinality(Behind) = 0 /\ Cardinality(Began) = 0
<1>1. \A i \in Ids : tracks[i].first = 0 /\ tracks[i].last = 0
  BY NoTracksAre DEF NoTrack
<1>2. Behind = {} /\ Began = {}
  BY <1>1 DEF Behind, Began
<1> QED
  BY <1>2, FS_EmptySet

LEMMA CountInvNext == GateInv /\ CountInv /\ [Next]_vars => CountInv'
<1> SUFFICES ASSUME GateInv, CountInv, [Next]_vars
             PROVE  CountInv'
  OBVIOUS
<1>1. CASE WorkerFrame \/ RendererFrame
  <2>1. TypeOK
    BY DEF GateInv
  <2>2. PICK f \in Frames, n \in Nat : Given(f[1], f[2], n) /\ Process(f[1], f[2])
    BY <1>1, <2>1, WorkerFrameIs, RendererFrameIs
  <2> QED
    BY <2>2, FrameCounts
<1>2. CASE Restart
  <2>1. tracks' = NoTracks /\ running' = 0
    BY <1>2 DEF Restart
  <2>2. \A i \in Ids : tracks'[i].first = 0 /\ tracks'[i].last = 0
    BY <2>1, NoTracksAre DEF NoTrack
  <2>3. Behind' = {} /\ Began' = {}
    BY <2>2 DEF Behind, Began
  <2>4. Cardinality({}) = 0
    BY FS_EmptySet
  <2> QED
    BY <2>1, <2>3, <2>4 DEF CountInv
<1>3. CASE MoveLine \/ NewEpoch \/ OpenSession \/ SetTarget \/ CloseSession \/ StartConveyor \/ UNCHANGED vars
  <2>1. UNCHANGED <<engine, displaced>>
    BY <1>3 DEF MoveLine, NewEpoch, OpenSession, SetTarget, CloseSession, StartConveyor, vars, history
  <2> QED
    BY <2>1 DEF CountInv, Behind, Began, engine
<1> QED
  BY <1>1, <1>2, <1>3 DEF Next

\* The engine counts bags and not crossings: its count is the number of those
\* that came over the line less the number of those that went back over it, and
\* a bag that is lost, pruned or split from another keeps its part of it, unless
\* the line was moved over one that was lost (CountingEngine.process_frame).
THEOREM CountsBags == Spec => []CountIsOfBags
<1>1. Init => CountInv
  <2> SUFFICES ASSUME Init PROVE CountInv
    OBVIOUS
  <2>1. tracks = NoTracks /\ running = 0
    BY DEF Init
  <2> QED
    BY <2>1, NoBagCounts DEF CountInv
<1>2. GateInv /\ CountInv => CountIsOfBags
  <2> SUFFICES ASSUME GateInv, CountInv PROVE CountIsOfBags
    OBVIOUS
  <2>1. \A i \in Ids : tracks[i].first \in 0..1 /\ tracks[i].last \in 0..1
    BY TrackFields DEF GateInv
  <2>2. /\ {i \in Ids : tracks[i].first = 0 /\ tracks[i].last = 1} = Behind \ Began
        /\ {i \in Ids : tracks[i].first = 1 /\ tracks[i].last = 0} = Began \ Behind
    BY <2>1 DEF Behind, Began
  <2>3. Behind \in SUBSET Ids /\ Began \in SUBSET Ids
    BY DEF Behind, Began
  <2>4. Cardinality(Behind) - Cardinality(Began) = Cardinality(Behind \ Began) - Cardinality(Began \ Behind)
    BY <2>3, DifferenceOfCards
  <2> QED
    BY <2>2, <2>4 DEF CountIsOfBags, CountInv
<1> QED
  BY <1>1, <1>2, CountInvNext, GateInvInit, GateInvNext, PTL DEF Spec

-----------------------------------------------------------------------------
(* The sum over all bags *)

Chosen(s) == CHOOSE x \in s : TRUE

\* The sums of the bags of a table "t", set by set: the recursion that the fold
\* of CountIsSumOfBags runs through.
Summed(g, t, s) == IF s = {} THEN 0 ELSE t[Chosen(s)].net + g[s \ {Chosen(s)}]

IsSum(g, t) == g = [s \in SUBSET Ids |-> Summed(g, t, s)]
Sums(t) == CHOOSE g : IsSum(g, t)

\* The count is the sum of the crossings of all bags, even when the line was
\* moved over one.
SumInv == running = Sums(tracks)[Ids]

LEMMA LeastIs ==
  ASSUME NEW T, T \subseteq Nat, T # {}
  PROVE  \E x \in T : \A y \in T : x <= y
<1> DEFINE R == OpToRel(<, Nat)
<1>1. IsWellFoundedOn(R, Nat)
  BY NatLessThanWellFounded
<1>2. \A x, y \in Nat : x < y => <<x, y>> \in R
  BY DEF OpToRel
<1> HIDE DEF R
<1>3. PICK x \in T : \A y \in T : ~ (<<y, x>> \in R)
  BY <1>1, WFMin, Zenon
<1>4. ASSUME NEW y \in T PROVE x <= y
  <2>1. x \in Nat /\ y \in Nat
    OBVIOUS
  <2>2. ~ (<<y, x>> \in R)
    BY <1>3
  <2>3. ~ (y < x)
    BY <1>2, <2>1, <2>2, Zenon
  <2> QED
    BY <2>1, <2>3
<1> QED
  BY <1>4

LEMMA SetIs ==
  ASSUME NEW s \in SUBSET Ids
  PROVE  /\ Cardinality(s) \in Nat /\ IsFiniteSet(s) /\ Cardinality(s) <= Cardinality(Ids)
         /\ Cardinality(s) = 0 => s = {}
         /\ s # {} => /\ Chosen(s) \in s /\ Chosen(s) \in Ids /\ s \ {Chosen(s)} \in SUBSET Ids
                      /\ Cardinality(s \ {Chosen(s)}) = Cardinality(s) - 1
<1>1. IsFiniteSet(s) /\ Cardinality(s) \in Nat /\ IsFiniteSet(Ids)
  BY IdsAreFinite
<1>2. Cardinality(s) <= Cardinality(Ids)
  BY <1>1, FS_Subset
<1>3. Cardinality(s) = 0 => s = {}
  BY <1>1, FS_EmptySet
<1>4. ASSUME s # {}
      PROVE  /\ Chosen(s) \in s /\ Chosen(s) \in Ids /\ s \ {Chosen(s)} \in SUBSET Ids
             /\ Cardinality(s \ {Chosen(s)}) = Cardinality(s) - 1
  <2>1. Chosen(s) \in s
    BY <1>4 DEF Chosen
  <2> DEFINE x == Chosen(s)
  <2> HIDE DEF x
  <2>2. x \in s
    BY <2>1 DEF x
  <2>3. Cardinality(s \ {x}) = Cardinality(s) - 1
    BY <1>1, <2>2, FS_RemoveElement
  <2> QED
    BY <2>2, <2>3 DEF x
<1> QED
  BY <1>1, <1>2, <1>3, <1>4

\* There are such sums: those of the sets of n bags give those of the sets of
\* one bag more, and no set has more bags than there are.
LEMMA SumsExist ==
  ASSUME NEW t
  PROVE  IsSum(Sums(t), t)
<1> DEFINE Small(n) == {s \in SUBSET Ids : Cardinality(s) <= n}
           UpTo(g, n) == g = [s \in Small(n) |-> Summed(g, t, s)]
           Bad == {n \in Nat : \A g : ~ UpTo(g, n)}
<1>1. \E g : UpTo(g, 0)
  <2>1. ASSUME NEW s \in Small(0) PROVE s = {}
    <3>1. s \in SUBSET Ids /\ Cardinality(s) <= 0
      OBVIOUS
    <3>2. Cardinality(s) \in Nat /\ (Cardinality(s) = 0 => s = {})
      BY <3>1, SetIs
    <3> QED
      BY <3>1, <3>2
  <2> DEFINE g == [s \in Small(0) |-> 0]
  <2>2. \A s \in Small(0) : Summed(g, t, s) = 0
    BY <2>1 DEF Summed
  <2>3. [s \in Small(0) |-> Summed(g, t, s)] = g
    <3> HIDE DEF Small
    <3> QED
      BY <2>2
  <2>4. UpTo(g, 0)
    BY <2>3
  <2> HIDE DEF UpTo, g
  <2> QED
    BY <2>4
<1>2. ASSUME NEW n \in Nat, NEW g, UpTo(g, n)
      PROVE  \E h : UpTo(h, n + 1)
  <2> DEFINE h == [s \in Small(n + 1) |-> Summed(g, t, s)]
  <2>1. \A s \in Small(n) : s \in Small(n + 1) /\ h[s] = g[s]
    <3>1. ASSUME NEW s \in Small(n) PROVE s \in Small(n + 1) /\ h[s] = g[s]
      <4>1. s \in Small(n + 1)
        <5>1. s \in SUBSET Ids /\ Cardinality(s) <= n
          OBVIOUS
        <5>2. Cardinality(s) \in Nat
          BY <5>1, SetIs
        <5>3. Cardinality(s) <= n + 1
          BY <5>1, <5>2
        <5> QED
          BY <5>1, <5>3
      <4>2. g[s] = Summed(g, t, s)
        <5>1. g = [r \in Small(n) |-> Summed(g, t, r)]
          BY <1>2
        <5> HIDE DEF Small
        <5> QED
          BY <5>1
      <4> QED
        BY <4>1, <4>2
    <3> QED
      BY <3>1
  <2>2. ASSUME NEW s \in Small(n + 1) PROVE Summed(h, t, s) = Summed(g, t, s)
    <3>1. CASE s = {}
      BY <3>1 DEF Summed
    <3>2. CASE s # {}
      <4>1. s \ {Chosen(s)} \in Small(n)
        BY <3>2, SetIs
      <4>2. h[s \ {Chosen(s)}] = g[s \ {Chosen(s)}]
        BY <2>1, <4>1
      <4> HIDE DEF h
      <4> QED
        BY <3>2, <4>2 DEF Summed
    <3> QED
      BY <3>1, <3>2
  <2>3. UpTo(h, n + 1)
    BY <2>2
  <2> HIDE DEF h, UpTo
  <2> QED
    BY <2>3
<1>3. Bad = {}
  <2> SUFFICES ASSUME Bad # {} PROVE FALSE
    OBVIOUS
  <2>1. PICK n \in Bad : \A m \in Bad : n <= m
    <3>1. Bad \subseteq Nat
      OBVIOUS
    <3> HIDE DEF Bad
    <3> QED
      BY <3>1, LeastIs
  <2>2. n \in Nat /\ n # 0
    BY <1>1
  <2>3. n - 1 \in Nat /\ n - 1 \notin Bad
    <3> HIDE DEF Bad
    <3> QED
      BY <2>1, <2>2
  <2> HIDE DEF UpTo
  <2>4. PICK g : UpTo(g, n - 1)
    BY <2>3
  <2>5. \E h : UpTo(h, n - 1 + 1)
    BY <1>2, <2>3, <2>4
  <2>6. n - 1 + 1 = n
    BY <2>2
  <2> QED
    BY <2>1, <2>5, <2>6
<1> DEFINE all == Cardinality(Ids)
<1>4. all \in Nat /\ Small(all) = SUBSET Ids
  BY SetIs
<1>5. \E g : UpTo(g, all)
  <2> HIDE DEF UpTo, all
  <2> QED
    BY <1>3, <1>4
<1>6. \E g : IsSum(g, t)
  BY <1>4, <1>5 DEF IsSum
<1> QED
  BY <1>6 DEF Sums

LEMMA SumsAre ==
  ASSUME NEW t, NEW s \in SUBSET Ids
  PROVE  /\ s = {} => Sums(t)[s] = 0
         /\ s # {} => Sums(t)[s] = t[Chosen(s)].net + Sums(t)[s \ {Chosen(s)}]
<1> DEFINE g == Sums(t)
<1>1. g = [r \in SUBSET Ids |-> Summed(g, t, r)]
  BY SumsExist DEF IsSum
<1> HIDE DEF g
<1>2. g[s] = Summed(g, t, s)
  BY <1>1
<1> QED
  BY <1>2 DEF Summed, g

\* What is added to the bags is added to their sum.
LEMMA SumsMove ==
  ASSUME NEW t, NEW u, NEW over \in SUBSET Ids, NEW back \in SUBSET Ids, over \cap back = {},
         \A i \in Ids : t[i].net \in Int,
         \A i \in Ids : u[i].net = t[i].net + (IF i \in over THEN 1 ELSE IF i \in back THEN -1 ELSE 0)
  PROVE  /\ Sums(t)[Ids] \in Int
         /\ Sums(u)[Ids] = Sums(t)[Ids] + (Cardinality(over) - Cardinality(back))
<1> DEFINE Add(s) == Cardinality(s \cap over) - Cardinality(s \cap back)
           Good(s) == Sums(t)[s] \in Int /\ Sums(u)[s] = Sums(t)[s] + Add(s)
           Bad == {n \in Nat : \E s \in SUBSET Ids : Cardinality(s) = n /\ ~ Good(s)}
<1>1. Good({})
  <2>1. Sums(t)[{}] = 0 /\ Sums(u)[{}] = 0
    BY SumsAre
  <2>2. {} \cap over = {} /\ {} \cap back = {}
    OBVIOUS
  <2>3. Add({}) = 0
    BY <2>2, FS_EmptySet
  <2> HIDE DEF Add
  <2> QED
    BY <2>1, <2>3
<1>2. ASSUME NEW s \in SUBSET Ids, s # {}, Good(s \ {Chosen(s)})
      PROVE  Good(s)
  <2> DEFINE x == Chosen(s)
             r == s \ {x}
  <2>1. x \in s /\ x \in Ids /\ r \in SUBSET Ids
    BY <1>2, SetIs
  <2>2. Sums(t)[s] = t[x].net + Sums(t)[r] /\ Sums(u)[s] = u[x].net + Sums(u)[r]
    BY <1>2, SumsAre
  <2> HIDE DEF x
  <2>3. ASSUME NEW T \in SUBSET Ids
        PROVE  /\ Cardinality(r \cap T) \in Nat
               /\ Cardinality(s \cap T) = Cardinality(r \cap T) + (IF x \in T THEN 1 ELSE 0)
    <3>1. s \cap T \in SUBSET Ids /\ r \cap T \in SUBSET Ids /\ r \cap T = (s \cap T) \ {x}
      OBVIOUS
    <3>2. /\ IsFiniteSet(s \cap T) /\ Cardinality(s \cap T) \in Nat /\ Cardinality(r \cap T) \in Nat
      BY <3>1, IdsAreFinite
    <3>3. Cardinality(r \cap T) = IF x \in s \cap T THEN Cardinality(s \cap T) - 1 ELSE Cardinality(s \cap T)
      BY <3>1, <3>2, FS_RemoveElement
    <3> QED
      BY <2>1, <3>2, <3>3
  <2>4. /\ Cardinality(s \cap over) = Cardinality(r \cap over) + (IF x \in over THEN 1 ELSE 0)
        /\ Cardinality(s \cap back) = Cardinality(r \cap back) + (IF x \in back THEN 1 ELSE 0)
        /\ Cardinality(r \cap over) \in Nat /\ Cardinality(r \cap back) \in Nat
    BY <2>3
  <2>5. Sums(t)[r] \in Int /\ Sums(u)[r] = Sums(t)[r] + Add(r)
    BY <1>2 DEF x
  <2>6. t[x].net \in Int /\ u[x].net = t[x].net + (IF x \in over THEN 1 ELSE IF x \in back THEN -1 ELSE 0)
    BY <2>1
  <2>7. ~ (x \in over /\ x \in back)
    OBVIOUS
  <2> HIDE DEF r
  <2> QED
    BY <2>2, <2>4, <2>5, <2>6, <2>7
<1>3. Bad = {}
  <2> SUFFICES ASSUME Bad # {} PROVE FALSE
    OBVIOUS
  <2>1. PICK n \in Bad : \A m \in Bad : n <= m
    <3>1. Bad \subseteq Nat
      OBVIOUS
    <3> HIDE DEF Bad
    <3> QED
      BY <3>1, LeastIs
  <2> HIDE DEF Good
  <2>2. PICK s \in SUBSET Ids : Cardinality(s) = n /\ ~ Good(s) /\ n \in Nat
    BY <2>1
  <2>3. s # {}
    BY <1>1, <2>2
  <2>4. /\ s \ {Chosen(s)} \in SUBSET Ids /\ ~ Good(s \ {Chosen(s)})
        /\ Cardinality(s \ {Chosen(s)}) = n - 1 /\ n - 1 \in Nat
    BY <1>2, <2>2, <2>3, SetIs
  <2>5. n - 1 \in Bad
    BY <2>4
  <2> HIDE DEF Bad
  <2> QED
    BY <2>1, <2>2, <2>5
<1>4. Good(Ids)
  <2> HIDE DEF Good
  <2>1. Cardinality(Ids) \in Nat /\ Ids \in SUBSET Ids
    BY SetIs
  <2> QED
    BY <1>3, <2>1
<1>5. Ids \cap over = over /\ Ids \cap back = back
  OBVIOUS
<1> QED
  BY <1>4, <1>5

\* A frame adds its turns to the bags that turn, and to the count.
LEMMA FrameSums ==
  ASSUME GateInv, SumInv, NEW at, NEW new, NEW n, Given(at, new, n), Process(at, new)
  PROVE  SumInv'
<1>0. TypeOK /\ tracks' = Tracked(at, new) /\ running' = running + Net(at)
  BY DEF GateInv, Process
<1> DEFINE over == Turning(at, 1)
           back == Turning(at, -1)
<1>1. over \in SUBSET Ids /\ back \in SUBSET Ids /\ over \cap back = {}
  BY DEF Given, Turning
<1>2. ASSUME NEW i \in Ids
      PROVE  tracks'[i].net = tracks[i].net + (IF i \in over THEN 1 ELSE IF i \in back THEN -1 ELSE 0)
  <2>1. tracks[i].net \in Int
    BY <1>0, TrackFields
  <2>2. CASE i \in DOMAIN at
    <3>1. at[i] \in Positions
      BY <2>2 DEF Given
    <3>2. tracks'[i].net = tracks[i].net + Direction(tracks[i], at[i])
      BY <1>0, <2>2, <3>1, TrackedIs, MatchedIs
    <3>3. Direction(tracks[i], at[i]) \in {-1, 0, 1}
      BY <1>0, <3>1, DirectionIs
    <3>4. /\ i \in over <=> Direction(tracks[i], at[i]) = 1
          /\ i \in back <=> Direction(tracks[i], at[i]) = -1
      BY <2>2 DEF Turning
    <3> HIDE DEF over, back
    <3> QED
      BY <3>2, <3>3, <3>4
  <2>3. CASE i \notin DOMAIN at
    <3>1. i \notin over /\ i \notin back
      BY <2>3 DEF Turning
    <3>2. tracks'[i].net = tracks[i].net
      <4>1. CASE tracks[i].state \in Known
        BY <1>0, <2>3, <4>1, TrackedIs, MissedIs
      <4>2. CASE tracks[i].state \notin Known /\ tracks'[i] = tracks[i]
        BY <4>2
      <4>3. CASE tracks[i].state \notin Known /\ tracks'[i] # tracks[i]
        <5>1. i - named \in 1..n /\ tracks'[i] = Created(new[i - named]) /\ tracks[i].state = "none"
          BY <1>0, <2>3, <4>3, TrackedIs
        <5>2. new[i - named] \in Positions
          BY <5>1 DEF Given
        <5>3. tracks'[i].net = 0
          BY <1>0, <5>1, <5>2, CreatedIs
        <5>4. tracks[i] = NoTrack
          BY <5>1 DEF GateInv
        <5> QED
          BY <5>3, <5>4 DEF NoTrack
      <4> QED
        BY <4>1, <4>2, <4>3
    <3> HIDE DEF over, back
    <3> QED
      BY <2>1, <3>1, <3>2
  <2> QED
    BY <2>2, <2>3
<1>3. \A i \in Ids : tracks[i].net \in Int
  BY <1>0, TrackFields
<1>4. Net(at) = Cardinality(over) - Cardinality(back)
  BY <1>0, CrossingsAreFinite
<1> HIDE DEF over, back
<1>5. Sums(tracks')[Ids] = Sums(tracks)[Ids] + (Cardinality(over) - Cardinality(back))
  BY <1>1, <1>2, <1>3, SumsMove
<1> QED
  BY <1>0, <1>4, <1>5 DEF SumInv

\* An engine that has seen no bag has counted nothing.
LEMMA NoBagSums == Sums(NoTracks)[Ids] = 0
<1> DEFINE Bad == {n \in Nat : \E s \in SUBSET Ids : Cardinality(s) = n /\ Sums(NoTracks)[s] # 0}
<1>1. Bad = {}
  <2> SUFFICES ASSUME Bad # {} PROVE FALSE
    OBVIOUS
  <2>1. PICK n \in Bad : \A m \in Bad : n <= m
    <3>1. Bad \subseteq Nat
      OBVIOUS
    <3> HIDE DEF Bad
    <3> QED
      BY <3>1, LeastIs
  <2>2. PICK s \in SUBSET Ids : Cardinality(s) = n /\ Sums(NoTracks)[s] # 0 /\ n \in Nat
    BY <2>1
  <2>3. s # {}
    BY <2>2, SumsAre
  <2> DEFINE r == s \ {Chosen(s)}
  <2>4. r \in SUBSET Ids /\ Chosen(s) \in Ids /\ Cardinality(r) = n - 1 /\ n - 1 \in Nat
    BY <2>2, <2>3, SetIs
  <2>5. NoTracks[Chosen(s)].net = 0
    BY <2>4, NoTracksAre DEF NoTrack
  <2>6. Sums(NoTracks)[s] = 0 + Sums(NoTracks)[r]
    BY <2>3, <2>5, SumsAre
  <2> HIDE DEF r
  <2>7. Sums(NoTracks)[r] # 0
    BY <2>2, <2>6
  <2>8. n - 1 \in Bad
    BY <2>4, <2>7
  <2> HIDE DEF Bad
  <2> QED
    BY <2>1, <2>2, <2>8
<1>2. Cardinality(Ids) \in Nat /\ Ids \in SUBSET Ids
  BY SetIs
<1> QED
  BY <1>1, <1>2

LEMMA SumInvNext == GateInv /\ SumInv /\ [Next]_vars => SumInv'
<1> SUFFICES ASSUME GateInv, SumInv, [Next]_vars
             PROVE  SumInv'
  OBVIOUS
<1>1. CASE WorkerFrame \/ RendererFrame
  <2>1. TypeOK
    BY DEF GateInv
  <2>2. PICK f \in Frames, n \in Nat : Given(f[1], f[2], n) /\ Process(f[1], f[2])
    BY <1>1, <2>1, WorkerFrameIs, RendererFrameIs
  <2> QED
    BY <2>2, FrameSums
<1>2. CASE Restart
  <2>1. tracks' = NoTracks /\ running' = 0
    BY <1>2 DEF Restart
  <2> QED
    BY <2>1, NoBagSums DEF SumInv
<1>3. CASE MoveLine \/ NewEpoch \/ OpenSession \/ SetTarget \/ CloseSession \/ StartConveyor \/ UNCHANGED vars
  <2>1. UNCHANGED engine
    BY <1>3 DEF MoveLine, NewEpoch, OpenSession, SetTarget, CloseSession, StartConveyor, vars
  <2> QED
    BY <2>1 DEF SumInv, engine
<1> QED
  BY <1>1, <1>2, <1>3 DEF Next

\* The count of the engine is the sum of the crossings of all bags it ever saw,
\* those that are lost or pruned and those that the line was moved over included,
\* for any number of them (CountingEngine.process_frame).
THEOREM CountsSum == Spec => []CountIsSumOfBags
<1>1. Init => SumInv
  <2> SUFFICES ASSUME Init PROVE SumInv
    OBVIOUS
  <2>1. tracks = NoTracks /\ running = 0
    BY DEF Init
  <2> QED
    BY <2>1, NoBagSums DEF SumInv
<1>2. SumInv => CountIsSumOfBags
  BY DEF SumInv, CountIsSumOfBags, MapThenSumSet, MapThenFoldSet, Sums, IsSum, Summed, Chosen
<1> QED
  BY <1>1, <1>2, SumInvNext, GateInvInit, GateInvNext, PTL DEF Spec
=============================================================================
