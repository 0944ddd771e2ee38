------------------------------ MODULE LiveView ------------------------------
(***************************************************************************)
(* The live pictures of the API process: the feed of a camera, the         *)
(* renderer of its line with the simulated conveyor, and the WebRTC peers  *)
(* of the line.  Feeds and renderers are made on first use, by a look in a *)
(* dictionary, a slow construction and a write to the dictionary; requests *)
(* run on threads, so others come in between, and nothing is locked but    *)
(* the table of peers.                                                     *)
(*                                                                         *)
(* A request is a slot with the step it is at.  A feed or a renderer is    *)
(* named by the slot that constructed it: no slot constructs two, for the  *)
(* dictionary is never emptied.  One camera, of role counting, one line    *)
(* and one session.                                                        *)
(***************************************************************************)
EXTENDS Integers, FiniteSets

CONSTANTS
  Slots,      \* requests in progress at a time
  Mixes,      \* bound: sets of kinds of request that come in one behaviour
  Sources,    \* camera sources that an engineer configures
  MaxBags,    \* bound: bags that a conveyor is given
  MaxMade,    \* bound: peer connections that are made
  MaxPeers,   \* max_peers_per_line
  None

Kinds == {"source", "quick", "feed", "line", "stream", "socket", "track", "simulate", "offer", "session"}

Peers == 1..MaxMade

ASSUME NoneAssumption  == None \notin Sources /\ None \notin Slots /\ None \notin Peers
ASSUME HoldersAssumption == Slots \cap Peers = {}
ASSUME MixesAssumption == Mixes \subseteq SUBSET Kinds
ASSUME BoundsAssumption == MaxBags \in Nat /\ MaxPeers \in Nat \ {0} /\ MaxMade \in Nat

VARIABLES
  mix,       \* the kinds of request of this behaviour
  row,       \* the source in the camera table
  feed,      \* _camera_feeds: the slot that constructed the feed, or None
  feeds,     \* the source that each feed captures, or None
  renderer,  \* _renderers: the slot that constructed the renderer, or None
  views,     \* each renderer: its capture and its conveyor
  active,    \* there is an active session
  ledger,    \* ids of the bags that the conveyor counted
  manual,    \* bags that operators counted by hand and put on the conveyor
  slot,      \* what each request is at
  peers,     \* pcs_by_line of the line (active_pcs holds the same)
  conn,      \* state of each peer connection, in the order they are made
  lock,      \* holder of the manager's lock: a slot, a peer or None
  raced,     \* history: requests overlapped where they could disagree, or
             \* quick settings changed the row behind the feed
  missed     \* history: bags that passed where no session was known or the
             \* database failed, or that fell off a list that was replaced

live  == <<row, feed, feeds>>
belt  == <<renderer, views, active, ledger, manual, missed>>
webrtc == <<peers, conn, lock>>
vars  == <<mix, live, belt, slot, webrtc, raced>>

Free == [kind |-> None, at |-> "free", obj |-> None, source |-> None, knows |-> FALSE,
         bag |-> 0, kept |-> {}, peer |-> None]
View == [cap |-> None, next |-> 0, coming |-> {}]

Init ==
  /\ mix \in Mixes
  /\ row \in Sources \cup {None}
  /\ feed = None /\ feeds = [s \in Slots |-> None]
  /\ renderer = None /\ views = [s \in Slots |-> View]
  /\ active = FALSE /\ ledger = {} /\ manual = {}
  /\ slot = [s \in Slots |-> Free]
  /\ peers = {} /\ conn = [p \in Peers |-> "none"] /\ lock = None
  /\ raced = FALSE /\ missed = {}

Goes(s, step) == slot' = [slot EXCEPT ![s].at = step]
Ends(s)       == slot' = [slot EXCEPT ![s] = Free]

\* Other requests that change the camera or construct its feed.
Others(s) == \E o \in Slots \ {s} : slot[o].at \in {"commit", "look", "put", "connect", "render"}

\* A request arrives.
Arrive(s, kind, source, step) ==
  /\ kind \in mix /\ slot[s].at = "free"
  /\ slot' = [slot EXCEPT ![s] = [Free EXCEPT !.kind = kind, !.source = source, !.at = step]]

-----------------------------------------------------------------------------
(* The feed of a camera.                                                   *)

\* The source of the camera is changed, by its row ...
ChangeSource(s, c) ==
  /\ Arrive(s, "source", c, "commit")
  /\ UNCHANGED <<mix, live, belt, webrtc, raced>>

\* ... or only in the renderer of the line, to an uploaded video, another
\* camera or the simulated conveyor.
ChangeLine(s, c) ==
  /\ Arrive(s, "line", c, "find")
  /\ UNCHANGED <<mix, live, belt, webrtc, raced>>

ViewFeed(s) ==
  /\ Arrive(s, "feed", None, "look")
  /\ UNCHANGED <<mix, live, belt, webrtc, raced>>

\* A viewer of the line: an MJPEG stream, a WebSocket or a WebRTC track.
ViewLine(s) ==
  /\ \E kind \in {"stream", "socket", "track"} : Arrive(s, kind, None, "find")
  /\ UNCHANGED <<mix, live, belt, webrtc, raced>>

\* Bug: the source is resolved from the row as it was.
CommitSourceLate(s) ==
  /\ slot[s].at = "commit"
  /\ row' = slot[s].source
  /\ slot' = [slot EXCEPT ![s].at = "look", ![s].source = row]
  /\ raced' = (raced \/ Others(s))
  /\ UNCHANGED <<mix, feed, feeds, belt, webrtc>>

\* set_camera_feed_source: the row first, then the feed, then the renderer.
CommitSource(s) ==
  /\ slot[s].at = "commit"
  /\ row' = slot[s].source
  /\ Goes(s, "look")
  /\ raced' = (raced \/ Others(s))
  /\ UNCHANGED <<mix, feed, feeds, belt, webrtc>>

\* Quick settings change the row and tell nobody.
QuickSettings(c) ==
  /\ "quick" \in mix
  /\ row' = c
  /\ raced' = TRUE
  /\ UNCHANGED <<mix, feed, feeds, belt, slot, webrtc>>

\* get_or_create_camera_feed: the registered feed or, if there is none, a
\* new one for the source that the row has now.
LookFeed(s) ==
  /\ slot[s].at = "look"
  /\ IF feed # None
     THEN slot' = [slot EXCEPT ![s].at = IF slot[s].kind = "source" THEN "connect" ELSE "watch",
                               ![s].obj = feed]
     ELSE slot' = [slot EXCEPT ![s].at = "put", ![s].obj = s,
                               ![s].source = IF slot[s].kind = "source" THEN @ ELSE row]
  /\ raced' = (raced \/ (feed = None /\ Others(s)))
  /\ UNCHANGED <<mix, live, belt, webrtc>>

\* The new feed is connected if its camera is enabled and can be reached, and
\* registered in any case, over one that was registered meanwhile.
PutFeed(s) ==
  /\ slot[s].at = "put"
  /\ feeds' \in {[feeds EXCEPT ![s] = c] : c \in {None, slot[s].source}}
  /\ feed' = s
  /\ Goes(s, IF slot[s].kind = "source" THEN "connect" ELSE "watch")
  /\ UNCHANGED <<mix, row, belt, webrtc, raced>>

\* CameraFeed.connect: the old capture is released, whether or not the new
\* one opens.  The request goes on to the renderer of the line.
ConnectFeed(s) ==
  /\ slot[s].at = "connect"
  /\ feeds' \in {[feeds EXCEPT ![slot[s].obj] = c] : c \in {None, slot[s].source}}
  /\ Goes(s, "find")
  /\ UNCHANGED <<mix, row, feed, belt, webrtc, raced>>

\* read_jpeg: a frame of what the feed captures, or a placeholder.
Pictures(s) == {feeds[slot[s].obj], None}

\* A viewer of the feed reads pictures until it leaves.
LeaveFeed(s) ==
  /\ slot[s].at = "watch"
  /\ Ends(s)
  /\ UNCHANGED <<mix, live, belt, webrtc, raced>>

-----------------------------------------------------------------------------
(* The renderer of the line.                                               *)

\* WebSockets and WebRTC tracks run on the thread of the event loop: none
\* runs in the middle of another.
HasThread(s) ==
  slot[s].kind \in {"socket", "track"} =>
    \A o \in Slots \ {s} : ~(slot[o].kind \in {"socket", "track"} /\ slot[o].at \in {"make", "take", "filter", "pass"})

\* "if line_id not in _renderers": a new renderer is constructed ...
FindRenderer(s) ==
  /\ slot[s].at = "find"
  /\ Goes(s, IF renderer = None THEN "make" ELSE IF slot[s].kind \in {"source", "line"} THEN "render" ELSE "take")
  /\ UNCHANGED <<mix, live, belt, webrtc, raced>>

\* ... and registered, over one that was registered meanwhile.  It has the
\* simulated conveyor; the bags it starts with come through DrawConveyor.
MakeRenderer(s) ==
  /\ slot[s].at = "make"
  /\ renderer' = s
  /\ Goes(s, IF slot[s].kind \in {"source", "line"} THEN "render" ELSE "take")
  /\ UNCHANGED <<mix, live, views, active, ledger, manual, missed, webrtc, raced>>

\* A viewer keeps the renderer that it takes from the dictionary.
TakeRenderer(s) ==
  /\ slot[s].at = "take"
  /\ slot' = [slot EXCEPT ![s].at = "frame", ![s].obj = renderer]
  /\ UNCHANGED <<mix, live, belt, webrtc, raced>>

\* set_camera_source: the old capture is released, the new one opens or not;
\* without a source the conveyor is simulated.
SetRenderer(s) ==
  /\ slot[s].at = "render"
  /\ views' \in {[views EXCEPT ![renderer].cap = c] : c \in {None, slot[s].source}}
  /\ Ends(s)
  /\ UNCHANGED <<mix, live, renderer, active, ledger, manual, missed, webrtc, raced>>

\* Once a second the generator of an MJPEG stream looks up the session, and
\* knows none if that fails; the WebSocket and the WebRTC track never do.
LookUpSession(s) ==
  /\ slot[s].at = "frame" /\ slot[s].kind = "stream"
  /\ \E known \in {active, FALSE} \ {slot[s].knows} : slot' = [slot EXCEPT ![s].knows = known]
  /\ UNCHANGED <<mix, live, belt, webrtc, raced>>

\* process_and_annotate_frame: without a capture the frame is the conveyor's.
Simulates(s) == views[slot[s].obj].cap = None

\* generate_conveyor_frame: a bag may enter the simulated conveyor, and the
\* bags that are still in the picture are put into a new list, ...
DrawConveyor(s) ==
  LET v == views[slot[s].obj]
  IN  /\ slot[s].at = "frame" /\ Simulates(s)
      /\ \E n \in {v.next, v.next + 1} \cap 0..MaxBags :
           LET now == v.coming \cup (v.next + 1)..n
           IN  /\ views' = [views EXCEPT ![slot[s].obj] = [v EXCEPT !.next = n, !.coming = now]]
               /\ slot' = [slot EXCEPT ![s].at = "filter", ![s].kept = now]
      /\ UNCHANGED <<mix, live, renderer, active, ledger, manual, missed, webrtc, raced>>

\* ... which replaces the old one, where others may have put a bag meanwhile.
FilterBags(s) ==
  LET coming == views[slot[s].obj].coming
  IN  /\ slot[s].at = "filter"
      /\ views' = [views EXCEPT ![slot[s].obj].coming = @ \cap slot[s].kept]
      /\ missed' = missed \cup (coming \ slot[s].kept)
      /\ slot' = [slot EXCEPT ![s].at = "frame", ![s].kept = {}]
      /\ UNCHANGED <<mix, live, renderer, active, ledger, manual, webrtc, raced>>

\* A frame finds a bag behind the gate that is not marked as passed ...
SeeBag(s) ==
  /\ slot[s].at = "frame" /\ Simulates(s)
  /\ \E b \in views[slot[s].obj].coming :
       slot' = [slot EXCEPT ![s].at = "pass", ![s].bag = b]
  /\ UNCHANGED <<mix, live, belt, webrtc, raced>>

\* Bug: the bags of one conveyor share an id.
PassBagNumberless(s) ==
  /\ slot[s].at = "pass"
  /\ views' = [views EXCEPT ![slot[s].obj].coming = @ \ {slot[s].bag}]
  /\ \E stored \in BOOLEAN :
       IF slot[s].knows /\ stored
       THEN ledger' = ledger \cup {1} /\ missed' = missed
       ELSE ledger' = ledger /\ missed' = missed \cup {slot[s].bag}
  /\ slot' = [slot EXCEPT ![s].at = "frame", ![s].bag = 0]
  /\ UNCHANGED <<mix, live, renderer, active, manual, webrtc, raced>>

\* ... marks it and counts it if the stream knows a session and the
\* database takes the row; the ids of all renderers start alike, and a row
\* whose key is there is not written again.
PassBag(s) ==
  /\ slot[s].at = "pass"
  /\ views' = [views EXCEPT ![slot[s].obj].coming = @ \ {slot[s].bag}]
  /\ \E stored \in BOOLEAN :
       IF slot[s].knows /\ stored
       THEN ledger' = ledger \cup {slot[s].bag} /\ missed' = missed
       ELSE ledger' = ledger /\ missed' = missed \cup {slot[s].bag}
  /\ slot' = [slot EXCEPT ![s].at = "frame", ![s].bag = 0]
  /\ UNCHANGED <<mix, live, renderer, active, manual, webrtc, raced>>

\* A track takes its renderer from the dictionary for every frame.
NextFrame(s) ==
  /\ slot[s].at = "frame" /\ slot[s].kind = "track"
  /\ slot' = [slot EXCEPT ![s].at = "find", ![s].obj = None]
  /\ UNCHANGED <<mix, live, belt, webrtc, raced>>

LeaveRenderer(s) ==
  /\ slot[s].at = "frame"
  /\ Ends(s)
  /\ UNCHANGED <<mix, live, belt, webrtc, raced>>

\* simulate_bag with a defect or a merge: the crossing is in the ledger, and
\* a bag that looks like it is put on the conveyor.
SimulateBag ==
  /\ "simulate" \in mix /\ active /\ renderer # None /\ views[renderer].next < MaxBags
  /\ LET b == views[renderer].next + 1
     IN  /\ views' = [views EXCEPT ![renderer].next = b, ![renderer].coming = @ \cup {b}]
         /\ manual' = manual \cup {b}
  /\ UNCHANGED <<mix, live, renderer, active, ledger, missed, slot, webrtc, raced>>

\* The session is opened, or paused or closed.
Session ==
  /\ "session" \in mix
  /\ active' = ~active
  /\ UNCHANGED <<mix, live, renderer, views, ledger, manual, missed, slot, webrtc, raced>>

-----------------------------------------------------------------------------
(* The WebRTC peers of the line.                                           *)

Live(p) == conn[p] \in {"new", "open"}

Offer(s) ==
  /\ Arrive(s, "offer", None, "lock")
  /\ UNCHANGED <<mix, live, belt, webrtc, raced>>

\* Bug: the table is changed without the lock.
AdmitUnlocked(s) ==
  /\ slot[s].at = "lock"
  /\ IF Cardinality(peers) >= MaxPeers
     THEN \E p \in peers :
            /\ peers' = peers \ {p}
            /\ slot' = [slot EXCEPT ![s].at = "evict", ![s].peer = p]
     ELSE Goes(s, "add") /\ peers' = peers
  /\ UNCHANGED <<mix, live, belt, conn, lock, raced>>

\* Under the lock, a full table gives up a peer, any one: a set has no
\* order.  Closing it is awaited with the lock held.
Admit(s) ==
  /\ slot[s].at = "lock" /\ lock = None
  /\ IF Cardinality(peers) >= MaxPeers
     THEN \E p \in peers :
            /\ peers' = peers \ {p}
            /\ slot' = [slot EXCEPT ![s].at = "evict", ![s].peer = p]
     ELSE Goes(s, "add") /\ peers' = peers
  /\ lock' = s
  /\ UNCHANGED <<mix, live, belt, conn, raced>>

Evict(s) ==
  /\ slot[s].at = "evict"
  /\ conn' = [conn EXCEPT ![slot[s].peer] = "closed"]
  /\ slot' = [slot EXCEPT ![s].at = "add", ![s].peer = None]
  /\ UNCHANGED <<mix, live, belt, peers, lock, raced>>

\* The new connection is registered and the lock released.
AddPeer(s) ==
  /\ slot[s].at = "add"
  /\ \E p \in Peers :
       /\ conn[p] = "none" /\ \A o \in 1..(p - 1) : conn[o] # "none"
       /\ conn' = [conn EXCEPT ![p] = "new"]
       /\ peers' = peers \cup {p}
       /\ slot' = [slot EXCEPT ![s].at = "negotiate", ![s].peer = p]
  /\ lock' = None
  /\ UNCHANGED <<mix, live, belt, raced>>

\* The answer to the offer; it fails on a bad offer and on a connection that
\* was closed meanwhile.  A connection that failed here stays registered.
Negotiate(s) ==
  /\ slot[s].at = "negotiate"
  /\ conn' \in {conn} \cup (IF conn[slot[s].peer] = "new" THEN {[conn EXCEPT ![slot[s].peer] = "open"]} ELSE {})
  /\ Ends(s)
  /\ UNCHANGED <<mix, live, belt, peers, lock, raced>>

\* The browser goes away, and the handler of the state change waits for the
\* lock.  The handler of a connection that was evicted finds nothing to do.
PeerFails(p) ==
  /\ conn[p] = "open"
  /\ conn' = [conn EXCEPT ![p] = "failed"]
  /\ UNCHANGED <<mix, live, belt, slot, peers, lock, raced>>

\* close_pc takes the lock ...
DropPeer(p) ==
  /\ conn[p] = "failed" /\ lock = None
  /\ peers' = peers \ {p}
  /\ lock' = p
  /\ UNCHANGED <<mix, live, belt, slot, conn, raced>>

\* ... and gives it back when the connection is closed.
ClosePeer(p) ==
  /\ lock = p
  /\ conn' = [conn EXCEPT ![p] = "closed"]
  /\ lock' = None
  /\ UNCHANGED <<mix, live, belt, slot, peers, raced>>

-----------------------------------------------------------------------------
FeedSteps(s)     == CommitSource(s) \/ LookFeed(s) \/ PutFeed(s) \/ ConnectFeed(s) \/ LeaveFeed(s)
RendererSteps(s) == FindRenderer(s) \/ MakeRenderer(s) \/ TakeRenderer(s) \/ SetRenderer(s)
                    \/ NextFrame(s) \/ LeaveRenderer(s)
BeltSteps(s)     == LookUpSession(s) \/ DrawConveyor(s) \/ FilterBags(s) \/ SeeBag(s) \/ PassBag(s)
PeerSteps(s)     == Offer(s) \/ Admit(s) \/ Evict(s) \/ AddPeer(s) \/ Negotiate(s)

Next ==
  \/ \E s \in Slots : \E c \in Sources \cup {None} : ChangeSource(s, c) \/ ChangeLine(s, c)
  \/ \E s \in Slots : ViewFeed(s) \/ ViewLine(s) \/ FeedSteps(s) \/ PeerSteps(s)
  \/ \E s \in Slots : HasThread(s) /\ (RendererSteps(s) \/ BeltSteps(s))
  \/ \E c \in Sources : QuickSettings(c)
  \/ SimulateBag \/ Session
  \/ \E p \in Peers : PeerFails(p) \/ DropPeer(p) \/ ClosePeer(p)

Spec == Init /\ [][Next]_vars

-----------------------------------------------------------------------------
(* Properties.                                                             *)

Steps == {"free", "commit", "look", "put", "connect", "watch", "find", "make", "take", "render",
          "frame", "filter", "pass", "lock", "evict", "add", "negotiate"}

Requests == [kind : Kinds \cup {None}, at : Steps, obj : Slots \cup {None}, source : Sources \cup {None},
             knows : BOOLEAN, bag : 0..MaxBags, kept : SUBSET (1..MaxBags), peer : Peers \cup {None}]

Views == [cap : Sources \cup {None}, next : 0..MaxBags, coming : SUBSET (1..MaxBags)]

\* Types; whoever is under the lock holds it, and the lock is not held by
\* anybody else.
TypeOK ==
  /\ mix \in Mixes /\ row \in Sources \cup {None}
  /\ feed \in Slots \cup {None} /\ feeds \in [Slots -> Sources \cup {None}]
  /\ renderer \in Slots \cup {None} /\ views \in [Slots -> Views]
  /\ active \in BOOLEAN
  /\ ledger \subseteq 1..MaxBags /\ manual \subseteq 1..MaxBags /\ missed \subseteq 1..MaxBags
  /\ slot \in [Slots -> Requests]
  /\ peers \subseteq Peers
  /\ conn \in [Peers -> {"none", "new", "open", "failed", "closed"}]
  /\ lock \in Slots \cup Peers \cup {None}
  /\ \A s \in Slots : slot[s].at \in {"evict", "add"} <=> lock = s
  /\ raced \in BOOLEAN

\* Between requests a viewer sees the camera that the table names, or a
\* placeholder, although its feed was made by one request and is reconnected
\* by others, which change the row first.  Two first requests at a time, two
\* changes at a time and quick settings break it
\* (camera_feed.py get_or_create_camera_feed, routes.py set_camera_feed_source).
PictureFollowsRow ==
  ~raced => \A s \in Slots :
              slot[s].at = "watch" /\ ~Others(s) => Pictures(s) \subseteq {row, None}

\* A bag that left the simulated conveyor is in the ledger although several
\* streams look at it at the same time and may all find it unmarked, unless
\* one that knew no session marked it or the database failed
\* (stream_renderer.py _process_simulated_frame).
PassedIsRecorded ==
  \A s \in Slots : \A b \in 1..views[s].next :
    b \in views[s].coming \cup ledger \cup missed

\* The line has no more live connections than its maximum, those that are
\* being evicted included, in whatever order offers, evictions and failures
\* overlap (webrtc_stream.py handle_offer, close_pc).
PeersAreBounded == Cardinality({p \in Peers : Live(p)}) <= MaxPeers

-----------------------------------------------------------------------------
(* What the documentation says and the code does not do.                   *)

\* "Also reflect this manual trigger on the live MJPEG demo feed"
\* (routes.py:1719): the reflection is not counted once more.
ReflectionIsNotCounted == manual \cap ledger = {}

\* "Evict oldest peer connection" (webrtc_stream.py:112).
OldestIsEvicted ==
  [][ \A s \in Slots : slot[s].at = "lock" /\ slot'[s].at = "evict" =>
        \A o \in peers : o >= slot'[s].peer ]_vars
=============================================================================
