------------------------------ MODULE Delivery ------------------------------
(***************************************************************************)
(* What the coalescer promises about an update from the pending slot to    *)
(* Discord, without the pulses, timers, limiter and clock it takes to keep *)
(* the promise.  An update leaves the slot only for a newer one or into    *)
(* the hands of one sender; it leaves the hands only by being displayed,   *)
(* or when there is no connection; and only what was displayed is          *)
(* remembered for the hash gate.                                           *)
(***************************************************************************)
CONSTANTS
  Activities,  \* contents of the presence
  Callbacks,   \* goroutines that may carry an update
  Nil          \* no activity

VARIABLES
  pending,     \* the pending slot
  hands,       \* per goroutine: Nil, or the update it carries and how far it is
  lastSent,    \* the content that the hash gate compares with
  link,        \* the IPC connection: "none" yet, "up", or "broken"
  shown        \* what Discord displays

deliveryVars == <<pending, hands, lastSent, link, shown>>

Carries(c, step) == hands[c] # Nil /\ hands[c].at = step

Offer(a) ==
  /\ pending' = a
  /\ UNCHANGED <<hands, lastSent, link, shown>>

Take(c) ==
  /\ pending # Nil /\ hands[c] = Nil
  /\ hands' = [hands EXCEPT ![c] = [at |-> "send", a |-> pending]]
  /\ pending' = Nil
  /\ UNCHANGED <<lastSent, link, shown>>

Display(c) ==
  /\ Carries(c, "send") /\ link = "up"
  /\ shown' = hands[c].a
  /\ hands' = [hands EXCEPT ![c] = [at |-> "hash", a |-> hands[c].a]]
  /\ UNCHANGED <<pending, lastSent, link>>

Lose(c) ==
  /\ Carries(c, "send") /\ link # "up"
  /\ hands' = [hands EXCEPT ![c] = Nil]
  /\ UNCHANGED <<pending, lastSent, link, shown>>

Remember(c) ==
  /\ Carries(c, "hash")
  /\ lastSent' = hands[c].a
  /\ hands' = [hands EXCEPT ![c] = Nil]
  /\ UNCHANGED <<pending, link, shown>>

\* Discord comes, or goes and takes what it displays along.
LinkChanges ==
  /\ \/ link = "none" /\ link' = "up" /\ UNCHANGED shown
     \/ link = "up" /\ link' = "broken" /\ shown' = Nil
  /\ UNCHANGED <<pending, hands, lastSent>>

Carry(c) == Display(c) \/ Lose(c) \/ Remember(c)

DeliveryInit ==
  /\ pending = Nil /\ lastSent = Nil /\ shown = Nil
  /\ hands = [c \in Callbacks |-> Nil]
  /\ link \in {"none", "up"}

DeliveryNext ==
  \/ \E a \in Activities : Offer(a)
  \/ \E c \in Callbacks : Take(c) \/ Carry(c)
  \/ LinkChanges

DeliverySafety == DeliveryInit /\ [][DeliveryNext]_deliveryVars

\* Whoever carries an update gets rid of it.
DeliverySpec ==
  /\ DeliverySafety
  /\ \A c \in Callbacks : WF_deliveryVars(Carry(c))
=============================================================================
