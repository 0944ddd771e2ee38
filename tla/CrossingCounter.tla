--------------------------- MODULE CrossingCounter ---------------------------
(***************************************************************************)
(* What the counting core promises, whatever its processes do to each      *)
(* other: a crossing is counted at most once per session and never taken   *)
(* back, and the total a session shows, although it may lag behind, is one *)
(* the session really had, or one an engineer decided.                     *)
(***************************************************************************)
EXTENDS Integers

CONSTANTS Sessions, Keys, Directions

VARIABLES
  counted,   \* counted[s]: the crossings counted into session s
  net,       \* net[s]: forward minus backward crossings of s
  known,     \* known[s]: every value the count of s ever had or was decided to have
  shown      \* shown[s]: the total on display

Init ==
  /\ counted = [s \in Sessions |-> {}]
  /\ net     = [s \in Sessions |-> 0]
  /\ known   = [s \in Sessions |-> {0}]
  /\ shown   = [s \in Sessions |-> 0]

\* A crossing is counted, for the first and only time.
Count(s, k, d) ==
  /\ k \notin counted[s]
  /\ counted' = [counted EXCEPT ![s] = @ \cup {k}]
  /\ net'     = [net EXCEPT ![s] = @ + d]
  /\ known'   = [known EXCEPT ![s] = @ \cup {net[s] + d}]
  /\ UNCHANGED shown

\* The display is refreshed, perhaps with a count that is no longer current.
Show(s) ==
  /\ \E n \in known[s] : shown' = [shown EXCEPT ![s] = n]
  /\ UNCHANGED <<counted, net, known>>

\* An engineer decides what the total is.
Decide(s) ==
  /\ shown'[s] \in Int
  /\ shown' = [shown EXCEPT ![s] = shown'[s]]
  /\ known' = [known EXCEPT ![s] = @ \cup {shown'[s]}]
  /\ UNCHANGED <<counted, net>>

Next ==
  \E s \in Sessions :
    \/ \E k \in Keys, d \in Directions : Count(s, k, d)
    \/ Show(s)
    \/ Decide(s)

Spec == Init /\ [][Next]_<<counted, net, known, shown>>
=============================================================================
