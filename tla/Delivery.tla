------------------------------ MODULE Delivery ------------------------------
(***************************************************************************)
(* What a transactional outbox promises to whoever reads the entries and   *)
(* the ERP's documents: documents of an entry are posted only while the    *)
(* entry is open, at most Limit of them, and an entry that was delivered   *)
(* or handed over to a human is settled for good.                          *)
(***************************************************************************)
EXTENDS Naturals

CONSTANTS
  Entries,   \* outbox entries
  Limit      \* how often the ERP may be given one entry

VARIABLES
  phase,     \* phase[e]: where entry e is
  docs       \* docs[e]: documents of e in the ERP

Phases  == {"absent", "open", "delivered", "handed_over"}
Settled == {"delivered", "handed_over"}

Init ==
  /\ phase = [e \in Entries |-> "absent"]
  /\ docs  = [e \in Entries |-> 0]

Enqueue(e) ==
  /\ phase[e] = "absent"
  /\ phase' = [phase EXCEPT ![e] = "open"]
  /\ UNCHANGED docs

Post(e) ==
  /\ phase[e] = "open" /\ docs[e] < Limit
  /\ docs' = [docs EXCEPT ![e] = @ + 1]
  /\ UNCHANGED phase

Settle(e) ==
  /\ phase[e] = "open"
  /\ \E p \in Settled : phase' = [phase EXCEPT ![e] = p]
  /\ UNCHANGED docs

Next == \E e \in Entries : Enqueue(e) \/ Post(e) \/ Settle(e)

Spec == Init /\ [][Next]_<<phase, docs>>
=============================================================================
