--------------------------- MODULE CoalescerProofs ---------------------------
(***************************************************************************)
(* For every set of activities, every delay, rate and burst, and any       *)
(* number of callback goroutines: the coalescer is well typed, never       *)
(* strands a pending update and implements Delivery.                       *)
(* As long as callbacks are prompt, Discord is sent no more than the token *)
(* bucket allows, and the content hash the gate compares with is that of   *)
(* what Discord shows; however late they are, it is sent no more than one  *)
(* update beyond that for each of them.                                    *)
(***************************************************************************)
EXTENDS Coalescer, FiniteSetTheorems, TLAPS

Content == Activities \cup {Nil}

\* The callbacks part of the type invariant.
Loaded(r) == (r # Nil /\ r.at \notin {"resolve", "swap"}) => r.a # Nil

StepInv == CoalescerTypeOK /\ PendingHasFlush

-----------------------------------------------------------------------------
\* Moving one goroutine leaves the others where they are.
LEMMA Moves ==
  ASSUME CoalescerTypeOK, NEW c \in Callbacks, NEW r,
         callbacks' = [callbacks EXCEPT ![c] = r]
  PROVE  /\ callbacks'[c] = r
         /\ \A d \in Callbacks \ {c} : callbacks'[d] = callbacks[d]
BY DEF CoalescerTypeOK

\* A goroutine that goes to a step with an activity is a callback there.
LEMMA Goes ==
  ASSUME CoalescerTypeOK, NEW c \in Callbacks, NEW step \in Steps, NEW a \in Content,
         step \notin {"resolve", "swap"} => a # Nil, Goto(c, step, a)
  PROVE  /\ callbacks' \in [Callbacks -> Callback \cup {Nil}]
         /\ \A d \in Callbacks : Loaded(callbacks'[d])
         /\ \A s : At(c, s)' <=> s = step
         /\ callbacks'[c].a = a
         /\ \A d \in Callbacks \ {c} : callbacks'[d] = callbacks[d]
<1> DEFINE r == [at |-> step, a |-> a]
<1>1. r \in Callback /\ r.at = step /\ r.a = a /\ r # Nil
  BY CoalescerAssumption DEF Callback, Content
<1>2. callbacks' = [callbacks EXCEPT ![c] = r]
  BY DEF Goto
<1> HIDE DEF r
<1>3. /\ callbacks'[c] = r
      /\ \A d \in Callbacks \ {c} : callbacks'[d] = callbacks[d]
  BY <1>2, Moves
<1>4. callbacks' \in [Callbacks -> Callback \cup {Nil}]
  BY <1>1, <1>2 DEF CoalescerTypeOK, Callback, Content
<1>5. QED BY <1>1, <1>3, <1>4 DEF CoalescerTypeOK, Loaded, At

\* A goroutine that returns is free.
LEMMA Returns ==
  ASSUME CoalescerTypeOK, NEW c \in Callbacks, Return(c)
  PROVE  /\ callbacks' \in [Callbacks -> Callback \cup {Nil}]
         /\ \A d \in Callbacks : Loaded(callbacks'[d])
         /\ \A s : ~At(c, s)'
         /\ \A d \in Callbacks \ {c} : callbacks'[d] = callbacks[d]
<1>1. callbacks' = [callbacks EXCEPT ![c] = Nil]
  BY DEF Return
<1>2. /\ callbacks'[c] = Nil
      /\ \A d \in Callbacks \ {c} : callbacks'[d] = callbacks[d]
  BY <1>1, Moves
<1>3. callbacks' \in [Callbacks -> Callback \cup {Nil}]
  BY <1>1 DEF CoalescerTypeOK, Callback, Content
<1>4. QED BY <1>2, <1>3 DEF CoalescerTypeOK, Loaded, At

-----------------------------------------------------------------------------
\* The callbacks part of the type invariant, which the actions keep by the
\* lemmas above; the rest of the state is typed action by action.
CallbacksTyped ==
  /\ callbacks \in [Callbacks -> Callback \cup {Nil}]
  /\ \A c \in Callbacks : Loaded(callbacks[c])

RestTyped ==
  /\ wanted \in Content /\ signal \in BOOLEAN
  /\ debounce \in Off .. Debounce
  /\ credit \in Int /\ credit <= Capacity
  /\ flush = Off \/ flush \in Nat
  /\ pending \in Content /\ lastSent \in Content
  /\ link \in {"none", "up", "broken"}
  /\ shown \in Content /\ meter \in Nat

LEMMA TypeSplits ==
  /\ CoalescerTypeOK <=> RestTyped /\ CallbacksTyped
  /\ CoalescerTypeOK' <=> RestTyped' /\ CallbacksTyped'
BY DEF CoalescerTypeOK, RestTyped, CallbacksTyped, Loaded, Content

\* The bucket holds at least one token.
LEMMA CapacityHolds == Capacity \in Nat /\ Interval \in Nat /\ Interval > 0 /\ Capacity >= Interval
BY CoalescerAssumption DEF Capacity

\* Where a callback goes with each of its steps.
LEMMA RunMoves ==
  ASSUME CoalescerTypeOK, NEW c \in Callbacks, Fire(c) \/ Run(c)
  PROVE  /\ CallbacksTyped'
         /\ \A d \in Callbacks \ {c} : callbacks'[d] = callbacks[d]
<1> USE DEF Content
<1>1. \A step : At(c, step) => callbacks[c] \in Callback /\ callbacks[c].at = step
  BY DEF CoalescerTypeOK, At
<1>2. \A step \in Steps \ {"resolve", "swap"} :
        At(c, step) => callbacks[c].a \in Activities
  BY <1>1 DEF CoalescerTypeOK, Callback, At
<1>3. CASE Return(c)
  BY <1>3, Returns DEF CallbacksTyped
<1>4. ASSUME NEW step \in Steps, NEW a \in Content,
             step \notin {"resolve", "swap"} => a # Nil, Goto(c, step, a)
      PROVE  CallbacksTyped' /\ \A d \in Callbacks \ {c} : callbacks'[d] = callbacks[d]
  BY <1>4, Goes DEF CallbacksTyped
<1>5. CASE Fire(c)
  BY <1>4, <1>5 DEF Fire, DebounceFires, FlushFires, Steps
<1>6. CASE Resolve(c)
  BY <1>3, <1>4, <1>6 DEF Resolve, Steps, CoalescerTypeOK
<1>7. CASE HashGate(c) \/ StorePending(c) \/ Schedule(c) \/ SetActivity(c) \/ StoreHash(c)
  BY <1>2, <1>3, <1>4, <1>7, CoalescerAssumption
     DEF HashGate, StorePending, Schedule, SetActivity, StoreHash, Step, Steps
<1>8. CASE SwapPending(c)
  BY <1>3, <1>4, <1>8 DEF SwapPending, Steps, CoalescerTypeOK
<1>9. QED BY <1>5, <1>6, <1>7, <1>8 DEF Run

\* A callback keeps the rest of the state typed, too.
LEMMA RunTyped ==
  ASSUME CoalescerTypeOK, NEW c \in Callbacks, Fire(c) \/ Run(c)
  PROVE  CoalescerTypeOK'
<1>1. CallbacksTyped'
  BY RunMoves
<1> SUFFICES RestTyped'
  BY <1>1, TypeSplits
<1>2. \A step \in Steps : At(c, step) => callbacks[c].a \in Content
  BY DEF CoalescerTypeOK, Callback, At, Content
<1>3. RestTyped
  BY TypeSplits
<1>4. CASE DebounceFires(c) \/ FlushFires(c)
  BY <1>3, <1>4, CoalescerAssumption
     DEF DebounceFires, FlushFires, RestTyped, discord, Off
<1>5. CASE Resolve(c) \/ HashGate(c)
  BY <1>3, <1>5 DEF Resolve, HashGate, RestTyped, timers, discord
<1>6. CASE StorePending(c) \/ SwapPending(c) \/ StoreHash(c)
  BY <1>2, <1>3, <1>6
     DEF StorePending, SwapPending, StoreHash, RestTyped, timers, discord, Steps, Content
<1>7. CASE Schedule(c)
  BY <1>3, <1>7, CapacityHolds DEF Schedule, RestTyped, discord, Off
<1>8. CASE SetActivity(c)
  BY <1>2, <1>3, <1>8, CapacityHolds DEF SetActivity, RestTyped, timers, Steps
<1>9. QED BY <1>4, <1>5, <1>6, <1>7, <1>8 DEF Fire, Run

\* The steps that are no callback's leave the callbacks alone.
Elsewhere == RegistryChange \/ OnSignal \/ TimePasses \/ Connect \/ Disconnect

LEMMA ElsewhereTyped ==
  ASSUME CoalescerTypeOK, Elsewhere \/ UNCHANGED coalescerVars
  PROVE  CoalescerTypeOK' /\ callbacks' = callbacks
<1>1. callbacks' = callbacks
  BY DEF Elsewhere, RegistryChange, OnSignal, TimePasses, Connect, Disconnect, coalescerVars
<1>2. RestTyped /\ CallbacksTyped'
  BY <1>1, TypeSplits DEF CallbacksTyped
<1> SUFFICES RestTyped'
  BY <1>1, <1>2, TypeSplits
<1>3. CASE RegistryChange \/ UNCHANGED coalescerVars
  BY <1>2, <1>3 DEF RegistryChange, RestTyped, coalescerVars, timers, discord, Content
<1>4. CASE OnSignal
  <2>1. Debounce \in Off .. Debounce
    BY CoalescerAssumption DEF Off
  <2>2. QED BY <1>2, <1>4, <2>1 DEF OnSignal, RestTyped, discord
<1>5. CASE TimePasses
  <2>1. credit' \in Int /\ credit' <= Capacity
    BY <1>2, <1>5, CapacityHolds DEF TimePasses, RestTyped
  <2>2. debounce' \in Off .. Debounce
    BY <1>2, <1>5, CoalescerAssumption DEF TimePasses, Sooner, RestTyped, Off
  <2>3. (flush' = Off \/ flush' \in Nat) /\ meter' \in Nat
    BY <1>2, <1>5 DEF TimePasses, Sooner, RestTyped, Off
  <2>4. QED BY <1>2, <1>5, <2>1, <2>2, <2>3 DEF TimePasses, RestTyped
<1>6. CASE Connect
  BY <1>2, <1>6 DEF Connect, RestTyped, timers
<1>7. CASE Disconnect
  BY <1>2, <1>7 DEF Disconnect, RestTyped, timers, Content
<1>8. QED BY <1>3, <1>4, <1>5, <1>6, <1>7 DEF Elsewhere

\* Every step keeps the types.
LEMMA TypeStep == CoalescerTypeOK /\ [Next]_coalescerVars => CoalescerTypeOK'
BY RunTyped, ElsewhereTyped DEF Next, Elsewhere

LEMMA TypeStart == Init => CoalescerTypeOK
<1> SUFFICES ASSUME Init PROVE CoalescerTypeOK
  OBVIOUS
<1>1. RestTyped
  <2>1. Off \in Off .. Debounce
    BY CoalescerAssumption DEF Off
  <2>2. Capacity \in Int /\ Capacity <= Capacity
    BY CapacityHolds
  <2>3. QED BY <2>1, <2>2 DEF Init, RestTyped, Content
<1>2. CallbacksTyped
  BY DEF Init, CallbacksTyped, Loaded
<1>3. QED BY <1>1, <1>2, TypeSplits

\* The coalescer is well typed, and no callback carries the nil of an empty
\* registry past the resolver.
THEOREM CoalescerTyped == Spec => []CoalescerTypeOK
BY TypeStart, TypeStep, PTL DEF Spec

-----------------------------------------------------------------------------
\* Some callback is about to book a flush or to carry one out.
Flushes == \E c \in Callbacks : At(c, "book") \/ At(c, "swap")

\* No step strands a pending update.
LEMMA PendingStep ==
  ASSUME CoalescerTypeOK, PendingHasFlush, [Next]_coalescerVars
  PROVE  PendingHasFlush'
<1> USE DEF Flushes
<1>0. PendingHasFlush <=> (pending # Nil => flush # Off \/ Flushes)
  BY DEF PendingHasFlush
<1>1. PendingHasFlush' <=> (pending' # Nil => flush' # Off \/ Flushes')
  BY DEF PendingHasFlush
<1>2. CASE Elsewhere \/ UNCHANGED coalescerVars
  <2>1. callbacks' = callbacks
    BY <1>2, ElsewhereTyped
  <2>2. pending' = pending /\ (flush # Off => flush' # Off)
    BY <1>2, CoalescerAssumption
       DEF Elsewhere, RegistryChange, OnSignal, TimePasses, Connect, Disconnect,
           coalescerVars, timers, Sooner, Off, CoalescerTypeOK
  <2>3. QED BY <2>1, <2>2, <1>0, <1>1 DEF At
<1>3. ASSUME NEW c \in Callbacks, Fire(c) \/ Run(c)
      PROVE  PendingHasFlush'
  <2>1. \A d \in Callbacks \ {c} : callbacks'[d] = callbacks[d]
    BY <1>3, RunMoves
  <2>2. \A d \in Callbacks \ {c} : \A step : At(d, step) => At(d, step)'
    BY <2>1 DEF At
  <2>3. CASE DebounceFires(c)
    BY <2>2, <2>3, <1>0, <1>1 DEF DebounceFires, At
  <2>4. CASE FlushFires(c)
    <3>1. At(c, "swap")'
      BY <2>4, Goes DEF FlushFires, Steps, Content
    <3>2. QED BY <3>1, <1>1
  <2>5. CASE StorePending(c)
    <3>1. callbacks[c].a \in Activities
      BY <2>5 DEF StorePending, At, CoalescerTypeOK, Callback
    <3>2. At(c, "book")'
      BY <2>5, <3>1, Goes, CoalescerAssumption DEF StorePending, Step, Steps, Content
    <3>3. QED BY <3>2, <1>1
  <2>6. CASE Schedule(c)
    <3>1. callbacks[c].a \in Content
      BY <2>6 DEF Schedule, At, CoalescerTypeOK, Callback, Content
    <3>2. CASE Step(c, "swap")
      BY <3>1, <3>2, <1>1, Goes DEF Step, Steps
    <3>3. CASE ~Step(c, "swap")
      <4>1. flush' # Off
        BY <2>6, <3>3, CoalescerAssumption DEF Schedule, CoalescerTypeOK, Off
      <4>2. QED BY <4>1, <1>1
    <3>4. QED BY <3>2, <3>3
  <2>7. CASE SwapPending(c)
    BY <2>7, <1>1 DEF SwapPending
  <2>8. CASE Resolve(c) \/ HashGate(c) \/ SetActivity(c) \/ StoreHash(c)
    <3>1. ~At(c, "book") /\ ~At(c, "swap")
      BY <2>8 DEF Resolve, HashGate, SetActivity, StoreHash, At
    <3>2. pending' = pending /\ flush' = flush
      BY <2>8 DEF Resolve, HashGate, SetActivity, StoreHash, timers
    <3>3. QED BY <2>2, <3>1, <3>2, <1>0, <1>1
  <2>9. QED BY <1>3, <2>3, <2>4, <2>5, <2>6, <2>7, <2>8 DEF Fire, Run
<1>4. QED BY <1>2, <1>3 DEF Next, Elsewhere

\* "Never discarded": a pending update always has a flush coming.
THEOREM CoalescerStrandsNothing == Spec => []PendingHasFlush
<1>1. Init => PendingHasFlush
  BY DEF Init, PendingHasFlush
<1>2. QED BY <1>1, PendingStep, CoalescerTyped, PTL DEF Spec

-----------------------------------------------------------------------------
\* What a callback carries after it went to a step, or returned.
LEMMA CarriedGoes ==
  ASSUME CoalescerTypeOK, NEW c \in Callbacks, NEW step \in Steps, NEW a \in Content,
         step \notin {"resolve", "swap"} => a # Nil, Goto(c, step, a)
  PROVE  Carried' = [Carried EXCEPT ![c] =
           IF step \in {"send", "hash"} THEN [at |-> step, a |-> a] ELSE Nil]
<1>1. callbacks'[c] = [at |-> step, a |-> a]
  BY Moves DEF Goto
<1>2. \A d \in Callbacks \ {c} : callbacks'[d] = callbacks[d]
  BY Goes
<1>3. \A s : At(c, s)' <=> s = step
  BY Goes
<1>4. \A d \in Callbacks \ {c} : \A s : At(d, s)' <=> At(d, s)
  BY <1>2 DEF At
<1>5. QED BY <1>1, <1>2, <1>3, <1>4 DEF Carried

LEMMA CarriedReturns ==
  ASSUME CoalescerTypeOK, NEW c \in Callbacks, Return(c)
  PROVE  Carried' = [Carried EXCEPT ![c] = Nil]
<1>1. \A d \in Callbacks \ {c} : callbacks'[d] = callbacks[d]
  BY Returns
<1>2. \A s : ~At(c, s)'
  BY Returns
<1>3. \A d \in Callbacks \ {c} : \A s : At(d, s)' <=> At(d, s)
  BY <1>1 DEF At
<1>4. QED BY <1>1, <1>2, <1>3 DEF Carried

\* A callback at another step carries nothing.
LEMMA CarriesNothing ==
  ASSUME NEW c \in Callbacks, ~At(c, "send"), ~At(c, "hash")
  PROVE  Carried[c] = Nil /\ [Carried EXCEPT ![c] = Nil] = Carried
BY DEF Carried

\* Each step of a callback is a step of Delivery, or none.
LEMMA RunDelivers ==
  ASSUME CoalescerTypeOK, NEW c \in Callbacks, Fire(c) \/ Run(c)
  PROVE  [Delivered!DeliveryNext]_(Delivered!deliveryVars)
<1> USE DEF Delivered!deliveryVars
<1>1. \A step : At(c, step) => callbacks[c] \in Callback /\ callbacks[c].at = step
  BY DEF CoalescerTypeOK, At
<1>2. \A step \in Steps \ {"resolve", "swap"} :
        At(c, step) => callbacks[c].a \in Activities
  BY <1>1 DEF CoalescerTypeOK, Callback, At
<1>3. \A step \in {"send", "hash"} :
        At(c, step) => Carried[c] = [at |-> step, a |-> callbacks[c].a] /\ Carried[c] # Nil
  BY <1>1, CoalescerAssumption DEF Carried, Callback, Content, At
<1>4. CASE DebounceFires(c) \/ FlushFires(c)
  <2>1. Carried' = [Carried EXCEPT ![c] = Nil]
    BY <1>4, CarriedGoes DEF DebounceFires, FlushFires, Steps, Content
  <2>2. ~At(c, "send") /\ ~At(c, "hash")
    BY <1>4 DEF DebounceFires, FlushFires, At
  <2>3. QED BY <1>4, <2>1, <2>2, CarriesNothing DEF DebounceFires, FlushFires, discord
<1>5. CASE Resolve(c) \/ HashGate(c) \/ Schedule(c)
  <2>1. ~At(c, "send") /\ ~At(c, "hash")
    BY <1>5 DEF Resolve, HashGate, Schedule, At
  <2>2. Carried' = [Carried EXCEPT ![c] = Nil]
    <3>1. CASE Return(c)
      BY <3>1, CarriedReturns
    <3>2. CASE Resolve(c) /\ ~Return(c)
      BY <3>2, CarriedGoes DEF Resolve, Steps, Content, CoalescerTypeOK
    <3>3. CASE (HashGate(c) \/ Schedule(c)) /\ ~Return(c)
      <4>1. callbacks[c].a \in Activities
        BY <3>3, <1>2 DEF HashGate, Schedule, Steps
      <4>2. QED BY <3>3, <4>1, CarriedGoes, CoalescerAssumption
                DEF HashGate, Schedule, Step, Steps, Content
    <3>4. QED BY <1>5, <3>1, <3>2, <3>3
  <2>3. QED BY <1>5, <2>1, <2>2, CarriesNothing DEF Resolve, HashGate, Schedule, discord
<1>6. CASE StorePending(c)
  <2>1. callbacks[c].a \in Activities
    BY <1>2, <1>6 DEF StorePending, Steps
  <2>2. Carried' = [Carried EXCEPT ![c] = Nil]
    BY <1>6, <2>1, CarriedGoes, CoalescerAssumption DEF StorePending, Step, Steps, Content
  <2>3. Carried' = Carried
    BY <1>6, <1>1, <2>2, CarriesNothing DEF StorePending, At
  <2>4. Delivered!Offer(callbacks[c].a)
    BY <1>6, <2>3 DEF StorePending, discord, Delivered!Offer
  <2>5. QED BY <2>1, <2>4 DEF Delivered!DeliveryNext
<1>7. CASE SwapPending(c)
  <2>1. Carried[c] = Nil /\ [Carried EXCEPT ![c] = Nil] = Carried
    BY <1>7, <1>1, CarriesNothing DEF SwapPending, At
  <2>2. CASE pending = Nil
    BY <1>7, <2>1, <2>2, CarriedReturns DEF SwapPending, discord
  <2>3. CASE pending # Nil
    <3>1. Carried' = [Carried EXCEPT ![c] = [at |-> "send", a |-> pending]]
      BY <1>7, <2>3, CarriedGoes DEF SwapPending, Steps, Content, CoalescerTypeOK
    <3>2. Delivered!Take(c)
      BY <1>7, <2>1, <2>3, <3>1 DEF SwapPending, discord, Delivered!Take
    <3>3. QED BY <3>2 DEF Delivered!DeliveryNext
  <2>4. QED BY <2>2, <2>3
<1>8. CASE SetActivity(c)
  <2>1. callbacks[c].a \in Activities /\ Carried[c] = [at |-> "send", a |-> callbacks[c].a]
        /\ Carried[c] # Nil
    BY <1>2, <1>3, <1>8 DEF SetActivity, Steps
  <2>2. CASE link = "up"
    <3>1. Carried' = [Carried EXCEPT ![c] = [at |-> "hash", a |-> callbacks[c].a]]
      BY <1>8, <2>1, <2>2, CarriedGoes, CoalescerAssumption
         DEF SetActivity, Step, Steps, Content
    <3>2. Delivered!Display(c)
      BY <1>8, <2>1, <2>2, <3>1
         DEF SetActivity, Delivered!Display, Delivered!Carries
    <3>3. QED BY <3>2 DEF Delivered!DeliveryNext, Delivered!Carry
  <2>3. CASE link # "up"
    <3>1. Delivered!Lose(c)
      BY <1>8, <2>1, <2>3, CarriedReturns
         DEF SetActivity, Delivered!Lose, Delivered!Carries
    <3>2. QED BY <3>1 DEF Delivered!DeliveryNext, Delivered!Carry
  <2>4. QED BY <2>2, <2>3
<1>9. CASE StoreHash(c)
  <2>1. Carried[c] = [at |-> "hash", a |-> callbacks[c].a] /\ Carried[c] # Nil
    BY <1>3, <1>9 DEF StoreHash
  <2>2. Delivered!Remember(c)
    BY <1>9, <2>1, CarriedReturns
       DEF StoreHash, discord, Delivered!Remember, Delivered!Carries
  <2>3. QED BY <2>2 DEF Delivered!DeliveryNext, Delivered!Carry
<1>10. QED BY <1>4, <1>5, <1>6, <1>7, <1>8, <1>9 DEF Fire, Run

\* The other steps change nothing that Delivery sees, or are changes of the link.
LEMMA ElsewhereDelivers ==
  ASSUME CoalescerTypeOK, Elsewhere \/ UNCHANGED coalescerVars
  PROVE  [Delivered!DeliveryNext]_(Delivered!deliveryVars)
<1>1. callbacks' = callbacks
  BY ElsewhereTyped
<1>2. Carried' = Carried
  BY <1>1 DEF Carried, At
<1>3. CASE Connect \/ Disconnect
  BY <1>2, <1>3 DEF Connect, Disconnect, Delivered!LinkChanges, Delivered!DeliveryNext
<1>4. CASE RegistryChange \/ OnSignal \/ TimePasses \/ UNCHANGED coalescerVars
  BY <1>2, <1>4 DEF RegistryChange, OnSignal, TimePasses, coalescerVars, discord,
     Delivered!deliveryVars
<1>5. QED BY <1>3, <1>4 DEF Elsewhere

\* The coalescer's way from the slot to Discord is that of Delivery, for any
\* delays, bookings and number of callbacks.
THEOREM CoalescerDelivers == Spec => Delivered!DeliverySafety
<1>1. Init => Delivered!DeliveryInit
  BY CoalescerAssumption DEF Init, Delivered!DeliveryInit, Carried, At
<1>2. CoalescerTypeOK /\ [Next]_coalescerVars => [Delivered!DeliveryNext]_(Delivered!deliveryVars)
  BY RunDelivers, ElsewhereDelivers DEF Next, Elsewhere
<1>3. QED BY <1>1, <1>2, CoalescerTyped, PTL DEF Spec, Delivered!DeliverySafety

-----------------------------------------------------------------------------
(***************************************************************************)
(* The rate limit.  The argument counts tokens: those in the bucket, plus  *)
(* one for a booked flush, plus one for a flush being carried out, never   *)
(* exceed what is left of Discord's allowance.  It needs that at most one  *)
(* callback flushes at a time, and so that a booking made while one does   *)
(* so finds the bucket empty.                                              *)
(***************************************************************************)
Resolvers == {c \in Callbacks : \E s \in {"resolve", "gate", "store", "book"} : At(c, s)}
Flushers  == {c \in Callbacks : \E s \in {"swap", "send", "hash"} : At(c, s)}
Claimants == {c \in Callbacks : At(c, "swap") \/ At(c, "send")}

Booked  == IF flush # Off THEN Interval ELSE 0
Claimed == IF Claimants # {} THEN Interval ELSE 0

OneResolver == \A c, d \in Resolvers : c = d
OneFlusher  == \A c, d \in Flushers : c = d

\* A timer that is due has been waiting for the callbacks of the last tick.
DueTimersAlone ==
  /\ debounce = 0 => Resolvers = {}
  /\ flush = 0 => Flushers = {}

BookedAhead == flush # Off => credit + flush = 0

\* The flush that is carried out has been paid for, and as long as the other
\* timer's callback may still book in the same tick, nothing is left.
FlusherPaid ==
  Flushers # {} =>
    /\ credit + Booked >= 0
    /\ (debounce = 0 \/ Resolvers # {}) => flush = Off /\ credit = 0

Budget == meter <= Capacity /\ meter + credit + Booked + Claimed <= Capacity

PromptInv ==
  /\ OneResolver /\ OneFlusher /\ DueTimersAlone
  /\ BookedAhead /\ FlusherPaid /\ Budget

-----------------------------------------------------------------------------
\* How a goroutine that goes to a step changes its role.
LEMMA RolesGo ==
  ASSUME CoalescerTypeOK, NEW c \in Callbacks, NEW step \in Steps, NEW a \in Content,
         step \notin {"resolve", "swap"} => a # Nil, Goto(c, step, a)
  PROVE  /\ Resolvers' = IF step \in {"resolve", "gate", "store", "book"}
                           THEN Resolvers \cup {c} ELSE Resolvers \ {c}
         /\ Flushers' = IF step \in {"swap", "send", "hash"}
                          THEN Flushers \cup {c} ELSE Flushers \ {c}
         /\ Claimants' = IF step \in {"swap", "send"}
                           THEN Claimants \cup {c} ELSE Claimants \ {c}
<1>1. (\A s : At(c, s)' <=> s = step) /\ \A d \in Callbacks \ {c} : callbacks'[d] = callbacks[d]
  BY Goes
<1>2. \A d \in Callbacks \ {c} : \A s : At(d, s)' <=> At(d, s)
  BY <1>1 DEF At
<1>3. QED BY <1>1, <1>2 DEF Resolvers, Flushers, Claimants

\* How a goroutine that returns gives up its role.
LEMMA RolesReturn ==
  ASSUME CoalescerTypeOK, NEW c \in Callbacks, Return(c)
  PROVE  /\ Resolvers' = Resolvers \ {c}
         /\ Flushers' = Flushers \ {c}
         /\ Claimants' = Claimants \ {c}
<1>1. (\A s : ~At(c, s)') /\ \A d \in Callbacks \ {c} : callbacks'[d] = callbacks[d]
  BY Returns
<1>2. \A d \in Callbacks \ {c} : \A s : At(d, s)' <=> At(d, s)
  BY <1>1 DEF At
<1>3. QED BY <1>1, <1>2 DEF Resolvers, Flushers, Claimants

\* The role of a goroutine at a step.
LEMMA RoleAt ==
  ASSUME CoalescerTypeOK, NEW c \in Callbacks
  PROVE  /\ callbacks[c] = Nil => c \notin Resolvers \cup Flushers \cup Claimants
         /\ At(c, "resolve") \/ At(c, "gate") \/ At(c, "store") \/ At(c, "book") =>
              c \in Resolvers /\ c \notin Flushers \cup Claimants
         /\ At(c, "swap") \/ At(c, "send") =>
              c \in Flushers \cap Claimants /\ c \notin Resolvers
         /\ At(c, "hash") => c \in Flushers /\ c \notin Resolvers \cup Claimants
         /\ Claimants \subseteq Flushers
BY DEF At, Resolvers, Flushers, Claimants

\* Without a step of a callback, the roles stay.
LEMMA RolesStay ==
  ASSUME callbacks' = callbacks
  PROVE  Resolvers' = Resolvers /\ Flushers' = Flushers /\ Claimants' = Claimants
BY DEF Resolvers, Flushers, Claimants, At

-----------------------------------------------------------------------------
\* The facts about numbers that the steps below need.
LEMMA Numbers ==
  ASSUME CoalescerTypeOK
  PROVE  /\ Interval \in Nat /\ Interval > 0 /\ Capacity \in Nat /\ Capacity >= Interval
         /\ credit \in Int /\ meter \in Nat /\ credit <= Capacity
         /\ Off = -1 /\ (flush = Off \/ flush \in Nat)
         /\ debounce \in Int /\ Debounce \in Nat /\ Debounce # 0
BY CapacityHolds, CoalescerAssumption DEF CoalescerTypeOK, Off

\* Steps that touch no timer, no tokens and no callbacks.
LEMMA BystandersKeep ==
  ASSUME CoalescerTypeOK, PromptInv,
         RegistryChange \/ OnSignal \/ Connect \/ Disconnect \/ UNCHANGED coalescerVars
  PROVE  PromptInv'
<1>1. UNCHANGED <<flush, credit, callbacks, meter>> /\ (debounce' = debounce \/ debounce' = Debounce)
  BY DEF RegistryChange, OnSignal, Connect, Disconnect, coalescerVars, timers, discord
<1>2. Resolvers' = Resolvers /\ Flushers' = Flushers /\ Claimants' = Claimants
  BY <1>1, RolesStay
<1>3. debounce' = 0 => debounce = 0
  BY <1>1, Numbers
<1>4. QED BY <1>1, <1>2, <1>3
          DEF PromptInv, OneResolver, OneFlusher, DueTimersAlone, BookedAhead,
              FlusherPaid, Budget, Booked, Claimed

\* When time passes no callback runs, so a full bucket has no flush booked.
LEMMA TickKeeps ==
  ASSUME CoalescerTypeOK, PromptInv, TimePasses, ~SlowCallbacks
  PROVE  PromptInv'
<1>1. /\ callbacks' = callbacks /\ debounce # 0 /\ flush # 0
      /\ \A c \in Callbacks : callbacks[c] = Nil
  BY DEF TimePasses
<1>2. /\ Resolvers = {} /\ Flushers = {} /\ Claimants = {}
      /\ Resolvers' = {} /\ Flushers' = {} /\ Claimants' = {}
  BY <1>1, RolesStay DEF Resolvers, Flushers, Claimants, At
<1>3. /\ flush' = IF flush > 0 THEN flush - 1 ELSE flush
      /\ credit' = IF credit < Capacity THEN credit + 1 ELSE credit
      /\ meter' = IF meter > 0 THEN meter - 1 ELSE meter
  BY DEF TimePasses, Sooner
<1>4. (flush' # Off <=> flush # Off) /\ BookedAhead'
  BY <1>1, <1>3, Numbers DEF PromptInv, BookedAhead
<1>5. Budget'
  BY <1>1, <1>2, <1>3, <1>4, Numbers DEF PromptInv, Budget, BookedAhead, Booked, Claimed
<1>6. QED BY <1>2, <1>4, <1>5 DEF PromptInv, OneResolver, OneFlusher, DueTimersAlone, FlusherPaid

\* The debounce timer fires when no other callback resolves.
LEMMA DebounceKeeps ==
  ASSUME CoalescerTypeOK, PromptInv, NEW c \in Callbacks, DebounceFires(c)
  PROVE  PromptInv'
<1>1. /\ Resolvers' = Resolvers \cup {c} /\ Flushers' = Flushers /\ Claimants' = Claimants
      /\ Resolvers = {}
  <2>1. Goto(c, "resolve", Nil) /\ debounce = 0
    BY DEF DebounceFires
  <2>2. c \notin Flushers \cup Claimants
    BY RoleAt DEF DebounceFires
  <2>3. QED BY <2>1, <2>2, RolesGo DEF Steps, Content, PromptInv, DueTimersAlone
<1>2. debounce = 0 /\ debounce' = Off /\ UNCHANGED <<flush, credit, meter>>
  BY DEF DebounceFires, discord
<1>3. debounce' # 0
  BY <1>2, Numbers
<1>4. QED BY <1>1, <1>2, <1>3
          DEF PromptInv, OneResolver, OneFlusher, DueTimersAlone, BookedAhead,
              FlusherPaid, Budget, Booked, Claimed

\* The flush timer fires when no other callback flushes; it takes the token
\* that was booked for it.
LEMMA FlushFiresKeeps ==
  ASSUME CoalescerTypeOK, PromptInv, NEW c \in Callbacks, FlushFires(c)
  PROVE  PromptInv'
<1>1. flush = 0 /\ flush' = Off /\ UNCHANGED <<debounce, credit, meter>>
  BY DEF FlushFires, discord
<1>2. /\ Resolvers' = Resolvers /\ Flushers' = {c} /\ Claimants' = {c}
      /\ Flushers = {} /\ Claimants = {}
  <2>1. Goto(c, "swap", Nil) /\ c \notin Resolvers
    BY RoleAt DEF FlushFires
  <2>2. Flushers = {} /\ Claimants = {}
    BY <1>1, RoleAt DEF PromptInv, DueTimersAlone, Claimants, Flushers
  <2>3. QED BY <2>1, <2>2, RolesGo DEF Steps, Content
<1>3. credit = 0
  <2>1. flush # Off
    BY <1>1, Numbers
  <2>2. credit + flush = 0
    BY <2>1 DEF PromptInv, BookedAhead
  <2>3. QED BY <1>1, <2>2, Numbers
<1>4. Budget'
  BY <1>1, <1>2, <1>3, Numbers DEF PromptInv, Budget, Booked, Claimed
<1>5. FlusherPaid'
  BY <1>1, <1>2, <1>3, Numbers DEF FlusherPaid, Booked
<1>6. QED BY <1>1, <1>2, <1>4, <1>5, Numbers
          DEF PromptInv, OneResolver, OneFlusher, DueTimersAlone, BookedAhead

\* The steps of a callback before it books touch nothing that counts.
LEMMA ResolverKeeps ==
  ASSUME CoalescerTypeOK, PromptInv, NEW c \in Callbacks,
         Resolve(c) \/ HashGate(c) \/ StorePending(c)
  PROVE  PromptInv'
<1>1. UNCHANGED <<debounce, flush, credit, meter>>
  BY DEF Resolve, HashGate, StorePending, timers, discord
<1>2. c \in Resolvers /\ c \notin Flushers \cup Claimants
  BY RoleAt DEF Resolve, HashGate, StorePending
<1>3. Resolvers' \subseteq Resolvers /\ Flushers' = Flushers /\ Claimants' = Claimants
  <2>1. CASE Return(c)
    BY <1>2, <2>1, RolesReturn
  <2>2. ASSUME NEW step \in {"gate", "store", "book"}, NEW a \in Activities, Goto(c, step, a)
        PROVE  Resolvers' \subseteq Resolvers /\ Flushers' = Flushers /\ Claimants' = Claimants
    <3>1. /\ Resolvers' = Resolvers \cup {c} /\ Flushers' = Flushers \ {c}
          /\ Claimants' = Claimants \ {c}
      BY <2>2, RolesGo, CoalescerAssumption DEF Steps, Content
    <3>2. QED BY <1>2, <3>1
  <2>3. HashGate(c) \/ StorePending(c) => callbacks[c].a \in Activities
    BY DEF HashGate, StorePending, At, CoalescerTypeOK, Callback
  <2>4. Resolve(c) => Return(c) \/ (wanted \in Activities /\ Goto(c, "gate", wanted))
    BY DEF Resolve, CoalescerTypeOK
  <2>5. QED BY <2>1, <2>2, <2>3, <2>4 DEF HashGate, StorePending, Step
<1>4. QED BY <1>1, <1>3
          DEF PromptInv, OneResolver, OneFlusher, DueTimersAlone, BookedAhead,
              FlusherPaid, Budget, Booked, Claimed

\* A booking either pays for a flush at once, which no other callback is at, or
\* books ahead; the token of a flush it replaces is lost.
LEMMA ScheduleKeeps ==
  ASSUME CoalescerTypeOK, PromptInv, NEW c \in Callbacks, Schedule(c)
  PROVE  PromptInv'
<1>1. c \in Resolvers /\ c \notin Flushers \cup Claimants /\ Claimants \subseteq Flushers
  BY RoleAt DEF Schedule
<1>2. debounce # 0 /\ Resolvers \ {c} = {}
  BY <1>1 DEF PromptInv, DueTimersAlone, OneResolver
<1>3. credit' = credit - Interval /\ UNCHANGED <<debounce, meter>>
  BY DEF Schedule, discord
<1>4. Flushers # {} => flush = Off /\ credit = 0
  BY <1>1 DEF PromptInv, FlusherPaid
<1>5. CASE credit' >= 0
  <2>1. Flushers = {} /\ Claimants = {}
    BY <1>1, <1>3, <1>4, <1>5, Numbers
  <2>2. flush' = Off /\ Goto(c, "swap", callbacks[c].a)
    BY <1>5 DEF Schedule, Step
  <2>3. callbacks[c].a \in Content
    BY DEF Schedule, At, CoalescerTypeOK, Callback, Content
  <2>4. Resolvers' = {} /\ Flushers' = {c} /\ Claimants' = {c}
    <3>1. /\ Resolvers' = Resolvers \ {c} /\ Flushers' = Flushers \cup {c}
          /\ Claimants' = Claimants \cup {c}
      BY <2>2, <2>3, RolesGo DEF Steps
    <3>2. QED BY <1>2, <2>1, <3>1
  <2>5. Budget'
    BY <1>3, <2>1, <2>2, <2>4, Numbers DEF PromptInv, Budget, Booked, Claimed
  <2>6. FlusherPaid'
    BY <1>2, <1>3, <1>5, <2>2, <2>4, Numbers DEF FlusherPaid, Booked
  <2>7. QED BY <1>2, <1>3, <2>2, <2>4, <2>5, <2>6, Numbers
            DEF PromptInv, OneResolver, OneFlusher, DueTimersAlone, BookedAhead
<1>6. CASE ~(credit' >= 0)
  <2>1. flush' = -credit' /\ Return(c)
    BY <1>6 DEF Schedule
  <2>2. Resolvers' = {} /\ Flushers' = Flushers /\ Claimants' = Claimants
    BY <1>1, <1>2, <2>1, RolesReturn
  <2>3. flush' \in Nat /\ flush' # Off /\ flush' # 0 /\ credit' + flush' = 0
    BY <1>3, <1>6, <2>1, Numbers
  <2>4. Budget'
    BY <1>3, <2>2, <2>3, Numbers DEF PromptInv, Budget, Booked, Claimed
  <2>5. FlusherPaid'
    BY <1>2, <1>3, <1>4, <2>2, <2>3, Numbers DEF FlusherPaid, Booked
  <2>6. QED BY <1>2, <1>3, <2>2, <2>3, <2>4, <2>5
            DEF PromptInv, OneResolver, OneFlusher, DueTimersAlone, BookedAhead
<1>7. QED BY <1>5, <1>6

\* The one callback that flushes spends its token, or lets it go.
LEMMA FlusherKeeps ==
  ASSUME CoalescerTypeOK, PromptInv, NEW c \in Callbacks,
         SwapPending(c) \/ SetActivity(c) \/ StoreHash(c)
  PROVE  PromptInv'
<1>1. UNCHANGED <<debounce, flush, credit>>
  BY DEF SwapPending, SetActivity, StoreHash, timers
<1>2. c \in Flushers /\ c \notin Resolvers /\ Claimants \subseteq Flushers
  BY RoleAt DEF SwapPending, SetActivity, StoreHash
<1>3. \A d \in Flushers : d = c
  BY <1>2 DEF PromptInv, OneFlusher
<1>4. callbacks[c].a \in Content /\ (At(c, "send") => callbacks[c].a # Nil)
  BY DEF SwapPending, SetActivity, StoreHash, At, CoalescerTypeOK, Callback, Content
<1>5. /\ Resolvers' = Resolvers /\ Flushers' \subseteq Flushers
      /\ Claimants' = {} \/ (Claimants' = {c} /\ Claimants = {c} /\ meter' = meter)
      /\ meter' = meter \/ (meter' = meter + Interval /\ Claimants = {c} /\ Claimants' = {})
  <2>1. CASE Return(c)
    <3>1. /\ Resolvers' = Resolvers \ {c} /\ Flushers' = Flushers \ {c}
          /\ Claimants' = Claimants \ {c}
      BY <2>1, RolesReturn
    <3>2. meter' = meter \/ (SetActivity(c) /\ link = "up")
      BY DEF SwapPending, SetActivity, StoreHash, discord
    <3>3. SetActivity(c) /\ link = "up" => c \in Claimants /\ meter' = meter + Interval
      BY RoleAt DEF SetActivity
    <3>4. QED BY <1>2, <1>3, <3>1, <3>2, <3>3
  <2>2. CASE SwapPending(c) /\ pending # Nil
    <3>1. Goto(c, "send", pending) /\ meter' = meter /\ c \in Claimants /\ pending \in Content
      BY <2>2, RoleAt DEF SwapPending, discord, CoalescerTypeOK, Content
    <3>2. /\ Resolvers' = Resolvers \ {c} /\ Flushers' = Flushers \cup {c}
          /\ Claimants' = Claimants \cup {c}
      BY <2>2, <3>1, RolesGo DEF Steps
    <3>3. QED BY <1>2, <1>3, <3>1, <3>2
  <2>3. CASE SetActivity(c) /\ link = "up"
    <3>1. Goto(c, "hash", callbacks[c].a) /\ meter' = meter + Interval /\ c \in Claimants
      BY <2>3, RoleAt DEF SetActivity, Step
    <3>2. callbacks[c].a # Nil
      BY <1>4, <2>3 DEF SetActivity
    <3>3. /\ Resolvers' = Resolvers \ {c} /\ Flushers' = Flushers \cup {c}
          /\ Claimants' = Claimants \ {c}
      BY <1>4, <3>1, <3>2, RolesGo DEF Steps
    <3>4. QED BY <1>2, <1>3, <3>1, <3>3
  <2>4. QED BY <2>1, <2>2, <2>3 DEF SwapPending, SetActivity, StoreHash
<1>6. Budget'
  <2>1. /\ meter <= Capacity /\ meter + credit + Booked + Claimed <= Capacity
        /\ credit + Booked >= 0
    BY <1>2 DEF PromptInv, Budget, FlusherPaid
  <2>2. Booked' = Booked /\ Booked \in Int /\ credit' = credit
    BY <1>1, Numbers DEF Booked
  <2>3. CASE Claimants' = {} /\ meter' = meter
    <3>1. Claimed' = 0 /\ Claimed >= 0 /\ Claimed \in Int
      BY <2>3, Numbers DEF Claimed
    <3>2. QED BY <2>1, <2>2, <2>3, <3>1, Numbers DEF Budget
  <2>4. CASE Claimants' = {} /\ meter' = meter + Interval /\ Claimants = {c}
    <3>1. Claimed' = 0 /\ Claimed = Interval
      BY <2>4 DEF Claimed
    <3>2. QED BY <2>1, <2>2, <2>4, <3>1, Numbers DEF Budget
  <2>5. CASE Claimants' = {c} /\ Claimants = {c} /\ meter' = meter
    <3>1. Claimed' = Claimed
      BY <2>5 DEF Claimed
    <3>2. QED BY <2>1, <2>2, <2>5, <3>1, Numbers DEF Budget
  <2>6. QED BY <1>5, <2>3, <2>4, <2>5
<1>7. QED BY <1>1, <1>5, <1>6
          DEF PromptInv, OneResolver, OneFlusher, DueTimersAlone, BookedAhead,
              FlusherPaid, Booked

\* Prompt callbacks keep the budget.
LEMMA PromptStep ==
  ASSUME ~SlowCallbacks, CoalescerTypeOK, PromptInv, [Next]_coalescerVars
  PROVE  PromptInv'
<1>1. ASSUME NEW c \in Callbacks, Fire(c) \/ Run(c)
      PROVE  PromptInv'
  BY <1>1, DebounceKeeps, FlushFiresKeeps, ResolverKeeps, ScheduleKeeps, FlusherKeeps
     DEF Fire, Run
<1>2. QED BY <1>1, BystandersKeep, TickKeeps DEF Next

LEMMA PromptStart == Init => PromptInv
<1> SUFFICES ASSUME Init PROVE PromptInv
  OBVIOUS
<1>1. CoalescerTypeOK
  BY TypeStart
<1>2. Resolvers = {} /\ Flushers = {} /\ Claimants = {}
  BY DEF Init, Resolvers, Flushers, Claimants, At
<1>3. flush = Off /\ credit = Capacity /\ meter = 0
  BY DEF Init
<1>4. QED BY <1>1, <1>2, <1>3, Numbers
          DEF PromptInv, OneResolver, OneFlusher, DueTimersAlone, BookedAhead,
              FlusherPaid, Budget, Booked, Claimed

\* With prompt callbacks, Discord never sees more than Burst updates at once
\* and one more per Interval.
THEOREM CoalescerKeepsRateLimit ==
  ASSUME ~SlowCallbacks PROVE Spec => []WithinRateLimit
<1>1. Init => CoalescerTypeOK /\ PromptInv
  BY TypeStart, PromptStart
<1>2. CoalescerTypeOK /\ PromptInv /\ [Next]_coalescerVars => (CoalescerTypeOK /\ PromptInv)'
  BY TypeStep, PromptStep
<1>3. PromptInv => WithinRateLimit
  BY DEF PromptInv, Budget, WithinRateLimit
<1>4. QED BY <1>1, <1>2, <1>3, PTL DEF Spec

-----------------------------------------------------------------------------
\* What the hash gate knows: the callback that has sent an update stores its
\* hash before another update is sent.
HashInv ==
  link # "broken" =>
    /\ \A c \in Callbacks : At(c, "hash") => callbacks[c].a = shown
    /\ (\A c \in Callbacks : ~At(c, "hash")) => lastSent = shown

\* A step that sends nothing and stores no hash.
LEMMA SilentKeeps ==
  ASSUME HashInv, UNCHANGED <<lastSent, shown>>, link' = "broken" \/ link # "broken",
         NEW c, ~At(c, "hash"), ~At(c, "hash")',
         \A d \in Callbacks \ {c} : callbacks'[d] = callbacks[d]
  PROVE  HashInv'
<1>1. \A d \in Callbacks : At(d, "hash")' <=> At(d, "hash")
  BY DEF At
<1>2. \A d \in Callbacks : At(d, "hash")' => callbacks'[d] = callbacks[d]
  OBVIOUS
<1>3. QED BY <1>1, <1>2 DEF HashInv

LEMMA HashStep ==
  ASSUME CoalescerTypeOK, PromptInv, HashInv, [Next]_coalescerVars
  PROVE  HashInv'
<1>1. CASE Elsewhere \/ UNCHANGED coalescerVars
  <2>1. callbacks' = callbacks /\ lastSent' = lastSent
    BY <1>1, ElsewhereTyped
       DEF Elsewhere, RegistryChange, OnSignal, TimePasses, Connect, Disconnect, coalescerVars
  <2>2. link' = "broken" \/ (link # "broken" /\ shown' = shown) \/ (link = "broken" /\ link' = link)
    BY <1>1 DEF Elsewhere, RegistryChange, OnSignal, TimePasses, Connect, Disconnect,
               coalescerVars, discord
  <2>3. QED BY <2>1, <2>2 DEF HashInv, At
<1>2. ASSUME NEW c \in Callbacks, Fire(c) \/ Run(c)
      PROVE  HashInv'
  <2>1. link' = link
    BY <1>2 DEF Fire, Run, DebounceFires, FlushFires, Resolve, HashGate, StorePending,
               Schedule, SwapPending, SetActivity, StoreHash, discord
  <2> SUFFICES ASSUME link # "broken" PROVE HashInv'
    BY <2>1 DEF HashInv
  <2>2. \A d \in Callbacks \ {c} : callbacks'[d] = callbacks[d]
    BY <1>2, RunMoves
  <2>3. CASE SetActivity(c) /\ link = "up"
    <3>1. shown' = callbacks[c].a /\ Goto(c, "hash", callbacks[c].a)
          /\ callbacks[c].a \in Content /\ callbacks[c].a # Nil
      BY <2>3 DEF SetActivity, Step, At, CoalescerTypeOK, Callback, Content
    <3>2. At(c, "hash")' /\ callbacks'[c].a = shown'
      BY <3>1, Goes DEF Steps
    <3>3. \A d \in Callbacks \ {c} : ~At(d, "hash")
      BY <2>3 DEF PromptInv, OneFlusher, Flushers, SetActivity
    <3>4. \A d \in Callbacks \ {c} : ~At(d, "hash")'
      BY <2>2, <3>3 DEF At
    <3>5. QED BY <3>2, <3>4 DEF HashInv
  <2>4. CASE StoreHash(c)
    <3>1. lastSent' = callbacks[c].a /\ shown' = shown /\ callbacks[c].a = shown
      BY <2>4 DEF StoreHash, HashInv, discord
    <3>2. \A d \in Callbacks \ {c} : ~At(d, "hash")
      BY <2>4 DEF PromptInv, OneFlusher, Flushers, StoreHash
    <3>3. ~At(c, "hash")'
      BY <2>4, Returns DEF StoreHash
    <3>4. \A d \in Callbacks : ~At(d, "hash")'
      BY <2>2, <3>2, <3>3 DEF At
    <3>5. QED BY <3>1, <3>4 DEF HashInv
  <2>5. ASSUME ~At(c, "hash"), UNCHANGED <<lastSent, shown>>,
               Return(c) \/ \E step \in Steps \ {"hash"}, a \in Content :
                              /\ step \notin {"resolve", "swap"} => a # Nil
                              /\ Goto(c, step, a)
        PROVE  HashInv'
    <3>1. ~At(c, "hash")'
      BY <2>5, Returns, Goes
    <3>2. QED BY <2>2, <2>5, <3>1, SilentKeeps
  <2>6. \A step \in Steps \ {"resolve", "swap"} : At(c, step) => callbacks[c].a \in Activities
    BY DEF CoalescerTypeOK, Callback, At
  <2>7. CASE Fire(c)
    BY <2>5, <2>7 DEF Fire, DebounceFires, FlushFires, discord, Steps, Content, At
  <2>8. CASE Resolve(c) \/ HashGate(c) \/ StorePending(c)
    <3>1. ~At(c, "hash") /\ UNCHANGED <<lastSent, shown>>
      BY <2>8 DEF Resolve, HashGate, StorePending, discord, At
    <3>2. \/ Return(c)
          \/ \E step \in {"gate", "store", "book"}, a \in Activities : Goto(c, step, a)
      BY <2>6, <2>8 DEF Resolve, HashGate, StorePending, Step, Steps, CoalescerTypeOK
    <3>3. QED BY <2>5, <3>1, <3>2, CoalescerAssumption DEF Steps, Content
  <2>9. CASE Schedule(c) \/ SwapPending(c) \/ (SetActivity(c) /\ link # "up")
    <3>1. ~At(c, "hash") /\ UNCHANGED <<lastSent, shown>>
      BY <2>9 DEF Schedule, SwapPending, SetActivity, discord, At
    <3>2. Return(c) \/ \E step \in {"swap", "send"}, a \in Activities : Goto(c, step, a)
      BY <2>6, <2>9 DEF Schedule, SwapPending, SetActivity, Step, Steps, CoalescerTypeOK
    <3>3. QED BY <2>5, <3>1, <3>2, CoalescerAssumption DEF Steps, Content
  <2>10. QED BY <1>2, <2>3, <2>4, <2>7, <2>8, <2>9 DEF Run
<1>3. QED BY <1>1, <1>2 DEF Next, Elsewhere

\* With prompt callbacks, the hash gate compares with what Discord shows.
THEOREM CoalescerHashMatchesShown ==
  ASSUME ~SlowCallbacks PROVE Spec => []HashMatchesShown
<1> DEFINE I == CoalescerTypeOK /\ PromptInv /\ HashInv
<1>1. Init => I
  BY TypeStart, PromptStart DEF Init, HashInv, At
<1>2. I /\ [Next]_coalescerVars => I'
  BY TypeStep, PromptStep, HashStep
<1>3. I => HashMatchesShown
  BY DEF HashInv, HashMatchesShown
<1>4. QED BY <1>1, <1>2, <1>3, PTL DEF Spec

-----------------------------------------------------------------------------
(***************************************************************************)
(* The rate with callbacks that may be late.  A token that has been taken  *)
(* out of the bucket and not yet been used is held by a callback, or by a  *)
(* flush timer that is due.  While it is held, Discord forgets updates and *)
(* the bucket fills up again, so Discord may see one update more for each  *)
(* token that can be held.  It sees no more than that, and a timer does    *)
(* not count besides the callbacks: while a flush is booked, one of them   *)
(* at least has nothing in hand.                                           *)
(***************************************************************************)
Due  == IF flush = 0 THEN 1 ELSE 0
Held == Cardinality(Claimants) + Due

\* Room for what could be held and is not.
Room == Interval * (Cardinality(Callbacks) - Held)

InBucket == IF credit > 0 THEN credit ELSE 0

\* A timer that is not due waits for the bucket to be filled to zero, and who
\* armed it has nothing in hand.
FlushWaits ==
  /\ flush > 0 => credit + flush = 0
  /\ flush # Off => Cardinality(Claimants) < Cardinality(Callbacks)

\* When the timer gets due, Discord has forgotten as much as it had to wait for.
LateBudget ==
  /\ meter + InBucket <= Capacity + Room
  /\ flush > 0 => meter - flush + Interval <= Capacity + Room

LateInv == FlushWaits /\ LateBudget

\* However late timers and callbacks are, Discord sees one update beyond its
\* limit for each callback that can be under way, and no more.
WithinLateLimit == meter <= Capacity + Interval * Cardinality(Callbacks)

-----------------------------------------------------------------------------
LEMMA SomeCallbacks ==
  ASSUME IsFiniteSet(Callbacks), NEW S \in SUBSET Callbacks
  PROVE  /\ IsFiniteSet(S)
         /\ Cardinality(S) \in Nat /\ Cardinality(Callbacks) \in Nat
         /\ Cardinality(S) <= Cardinality(Callbacks)
         /\ \A c \in Callbacks \ S : Cardinality(S) < Cardinality(Callbacks)
<1>1. /\ IsFiniteSet(S)
      /\ Cardinality(S) <= Cardinality(Callbacks)
      /\ Cardinality(Callbacks) = Cardinality(S) => Callbacks = S
  BY FS_Subset
<1>2. Cardinality(S) \in Nat /\ Cardinality(Callbacks) \in Nat
  BY <1>1, FS_CardinalityType
<1>3. ASSUME NEW c \in Callbacks \ S
      PROVE  Cardinality(S) < Cardinality(Callbacks)
  BY <1>1, <1>2
<1> QED BY <1>1, <1>2, <1>3

LEMMA Multiples ==
  ASSUME NEW k \in Nat, NEW i \in Nat
  PROVE  /\ i * k \in Nat
         /\ i * (k + 1) = i * k + i
BY SMT

LEMMA LargerMultiple ==
  ASSUME NEW k \in Nat, NEW j \in Nat, NEW i \in Nat, j <= k
  PROVE  i * j <= i * k
BY SMT

\* No more is held than there are callbacks, before a step and after it.
LEMMA HeldCounts ==
  ASSUME IsFiniteSet(Callbacks), FlushWaits, FlushWaits'
  PROVE  /\ Cardinality(Callbacks) \in Nat
         /\ Held \in Nat /\ Held <= Cardinality(Callbacks)
         /\ Held' \in Nat /\ Held' <= Cardinality(Callbacks)
<1>1. Claimants \in SUBSET Callbacks /\ Claimants' \in SUBSET Callbacks
  BY DEF Claimants
<1>2. Off = -1
  BY DEF Off
<1>3. Held \in Nat /\ Held <= Cardinality(Callbacks) /\ Cardinality(Callbacks) \in Nat
  BY <1>1, <1>2, SomeCallbacks DEF FlushWaits, Held, Due
<1>4. Held' \in Nat /\ Held' <= Cardinality(Callbacks)
  BY <1>1, <1>2, SomeCallbacks DEF FlushWaits, Held, Due
<1> QED BY <1>3, <1>4

\* One token more in hand takes one interval of room, one token less gives it back.
LEMMA RoomMoves ==
  ASSUME CoalescerTypeOK, IsFiniteSet(Callbacks), FlushWaits, FlushWaits'
  PROVE  /\ Room \in Nat /\ Room' \in Nat
         /\ Held' = Held => Room' = Room
         /\ Held' = Held + 1 => Room' = Room - Interval
         /\ Held' = Held - 1 => Room' = Room + Interval
<1> DEFINE n == Cardinality(Callbacks)
           m == n - Held
           k == n - Held'
<1>1. m \in Nat /\ k \in Nat /\ n \in Nat /\ Held \in Nat /\ Held' \in Nat
  BY HeldCounts
<1>2. Room = Interval * m /\ Room' = Interval * k /\ Interval \in Nat
  BY Numbers DEF Room
<1>3. /\ Held' = Held => k = m
      /\ Held' = Held + 1 => m = k + 1
      /\ Held' = Held - 1 => k = m + 1
  BY <1>1
<1>4. m \in Nat /\ k \in Nat
  BY <1>1
<1> HIDE DEF n, m, k
<1>5. /\ Interval * m \in Nat /\ Interval * k \in Nat
      /\ Interval * (m + 1) = Interval * m + Interval
      /\ Interval * (k + 1) = Interval * k + Interval
  BY <1>2, <1>4, Multiples
<1> QED BY <1>2, <1>3, <1>5

-----------------------------------------------------------------------------
\* What FlushWaits and LateBudget need of a step that changes what is held.
LEMMA OneMore ==
  ASSUME IsFiniteSet(Callbacks), NEW c \in Callbacks
  PROVE  /\ (Claimants' = Claimants \cup {c} /\ c \notin Claimants) =>
              Cardinality(Claimants') = Cardinality(Claimants) + 1
         /\ (Claimants' = Claimants \ {c} /\ c \in Claimants) =>
              Cardinality(Claimants') = Cardinality(Claimants) - 1
<1>1. Claimants \in SUBSET Callbacks
  BY DEF Claimants
<1>2. IsFiniteSet(Claimants)
  BY <1>1, SomeCallbacks
<1> QED BY <1>2, FS_AddElement, FS_RemoveElement

LEMMA BystandersKeepLate ==
  ASSUME CoalescerTypeOK, IsFiniteSet(Callbacks), LateInv,
         UNCHANGED <<flush, credit, meter>>, Claimants' = Claimants
  PROVE  LateInv'
<1>1. Held' = Held /\ FlushWaits'
  BY DEF LateInv, FlushWaits, Held, Due
<1>2. Room' = Room
  BY <1>1 DEF Room
<1> QED BY <1>1, <1>2 DEF LateInv, LateBudget, InBucket

LEMMA TickKeepsLate ==
  ASSUME CoalescerTypeOK, IsFiniteSet(Callbacks), LateInv, TimePasses
  PROVE  LateInv'
<1>1. /\ flush' = IF flush > 0 THEN flush - 1 ELSE flush
      /\ credit' = IF credit < Capacity THEN credit + 1 ELSE credit
      /\ meter' = IF meter > 0 THEN meter - 1 ELSE meter
      /\ Claimants' = Claimants
  BY RolesStay DEF TimePasses, Sooner
<1>2. FlushWaits'
  BY <1>1, Numbers DEF LateInv, FlushWaits
<1>3. Claimants \in SUBSET Callbacks
  BY DEF Claimants
<1>4. Cardinality(Claimants) \in Nat
  BY <1>3, SomeCallbacks
<1>5. CASE flush = 1
  <2>1. Held' = Held + 1 /\ flush' = 0 /\ credit' = 0
    BY <1>1, <1>4, <1>5, Numbers DEF Held, Due, LateInv, FlushWaits
  <2>2. Room' = Room - Interval /\ Room' \in Nat
    BY <2>1, <1>2, RoomMoves DEF LateInv
  <2>3. meter' <= Capacity + Room'
    <3>1. meter - 1 + Interval <= Capacity + Room
      BY <1>5 DEF LateInv, LateBudget
    <3>2. Room \in Int
      BY <1>2, RoomMoves DEF LateInv
    <3>3. meter > 0 => meter' = meter - 1
      BY <1>1
    <3>4. ~(meter > 0) => meter' = 0
      BY <1>1, Numbers
    <3> QED BY <2>2, <3>1, <3>2, <3>3, <3>4, Numbers
  <2>4. meter' \in Int /\ InBucket' = 0
    BY <1>1, <2>1, Numbers DEF InBucket
  <2>5. LateBudget'
    BY <2>1, <2>2, <2>3, <2>4, Numbers DEF LateBudget
  <2> QED BY <1>2, <2>5 DEF LateInv
<1>6. CASE flush # 1
  <2>1. Held' = Held
    BY <1>1, <1>6, Numbers DEF Held, Due
  <2>2. Room' = Room /\ Room' \in Nat
    BY <2>1, <1>2, RoomMoves DEF LateInv
  <2>3. meter' + InBucket' <= Capacity + Room'
    BY <1>1, <2>2, Numbers DEF LateInv, LateBudget, InBucket
  <2>4. flush' > 0 => meter' - flush' + Interval <= Capacity + Room'
    BY <1>1, <2>2, Numbers DEF LateInv, LateBudget
  <2> QED BY <1>2, <2>3, <2>4 DEF LateInv, LateBudget
<1> QED BY <1>5, <1>6

\* The due timer hands its token to its callback.
LEMMA FlushFiresKeepsLate ==
  ASSUME CoalescerTypeOK, IsFiniteSet(Callbacks), LateInv, NEW c \in Callbacks, FlushFires(c)
  PROVE  LateInv'
<1>1. flush = 0 /\ flush' = Off /\ UNCHANGED <<credit, meter>>
  BY DEF FlushFires, discord
<1>2. Claimants' = Claimants \cup {c} /\ c \notin Claimants
  <2>1. Goto(c, "swap", Nil) /\ c \notin Claimants
    BY RoleAt DEF FlushFires
  <2> QED BY <2>1, RolesGo DEF Steps, Content
<1>3. FlushWaits'
  BY <1>1, Numbers DEF FlushWaits
<1>4. Held' = Held
  <2>1. Cardinality(Claimants') = Cardinality(Claimants) + 1
    BY <1>2, OneMore
  <2>2. Cardinality(Claimants) \in Nat
    BY SomeCallbacks DEF Claimants
  <2> QED BY <1>1, <2>1, <2>2, Numbers DEF Held, Due
<1>5. Room' = Room
  BY <1>4 DEF Room
<1> QED BY <1>1, <1>3, <1>5, Numbers DEF LateInv, LateBudget, InBucket

LEMMA ScheduleKeepsLate ==
  ASSUME CoalescerTypeOK, IsFiniteSet(Callbacks), LateInv, NEW c \in Callbacks, Schedule(c)
  PROVE  LateInv'
<1>1. credit' = credit - Interval /\ meter' = meter /\ c \notin Claimants
  BY RoleAt DEF Schedule, discord
<1>2. /\ Cardinality(Claimants) \in Nat
      /\ Cardinality(Claimants) < Cardinality(Callbacks)
      /\ Cardinality(Callbacks) \in Nat
  <2>1. Claimants \in SUBSET Callbacks
    BY DEF Claimants
  <2> QED BY <1>1, <2>1, SomeCallbacks
<1>3. CASE credit' >= 0
  <2>1. flush' = Off /\ Goto(c, "swap", callbacks[c].a) /\ callbacks[c].a \in Content
    BY <1>3 DEF Schedule, Step, At, CoalescerTypeOK, Callback, Content
  <2>2. Claimants' = Claimants \cup {c}
    BY <2>1, RolesGo DEF Steps
  <2>3. Cardinality(Claimants') = Cardinality(Claimants) + 1
    BY <1>1, <2>2, OneMore
  <2>4. FlushWaits'
    BY <2>1, Numbers DEF FlushWaits
  <2>5. Held' = Held + 1 \/ Held' = Held
    BY <1>2, <2>1, <2>3, Numbers DEF Held, Due
  <2>6. Room \in Nat /\ (Room' = Room - Interval \/ Room' = Room)
    BY <2>4, <2>5, RoomMoves DEF LateInv
  <2>7. InBucket = credit /\ InBucket' = credit - Interval
    BY <1>1, <1>3, Numbers DEF InBucket
  <2>8. meter' + InBucket' <= Capacity + Room'
    BY <1>1, <2>6, <2>7, Numbers DEF LateInv, LateBudget
  <2> QED BY <2>1, <2>4, <2>8, Numbers DEF LateInv, LateBudget
<1>4. CASE ~(credit' >= 0)
  <2>1. flush' = -credit' /\ Claimants' = Claimants
    BY <1>1, <1>4, RolesReturn DEF Schedule
  <2>2. flush' > 0 /\ flush' \in Nat /\ credit' + flush' = 0
    BY <1>1, <1>4, <2>1, Numbers
  <2>3. FlushWaits'
    BY <1>2, <2>1, <2>2 DEF FlushWaits
  <2>4. Held' = Held \/ Held' = Held - 1
    BY <1>2, <2>1, <2>2, Numbers DEF Held, Due
  <2>5. Room \in Nat /\ (Room' = Room \/ Room' = Room + Interval)
    BY <2>3, <2>4, RoomMoves DEF LateInv
  <2>6. InBucket' = 0
    BY <1>1, <1>4, Numbers DEF InBucket
  <2>7. meter' - flush' + Interval <= Capacity + Room'
    BY <1>1, <2>1, <2>5, Numbers DEF LateInv, LateBudget, InBucket
  <2>8. meter' + InBucket' <= Capacity + Room'
    BY <1>1, <2>5, <2>6, Numbers DEF LateInv, LateBudget, InBucket
  <2> QED BY <2>3, <2>7, <2>8 DEF LateInv, LateBudget
<1> QED BY <1>3, <1>4

\* A token that was in hand is used, and makes room, or is let go.
LEMMA FlusherKeepsLate ==
  ASSUME CoalescerTypeOK, IsFiniteSet(Callbacks), LateInv, NEW c \in Callbacks,
         SwapPending(c) \/ SetActivity(c) \/ StoreHash(c)
  PROVE  LateInv'
<1>1. UNCHANGED <<flush, credit>>
  BY DEF SwapPending, SetActivity, StoreHash, timers
<1>2. callbacks[c].a \in Content /\ (At(c, "send") => callbacks[c].a # Nil)
  BY DEF SwapPending, SetActivity, StoreHash, At, CoalescerTypeOK, Callback, Content
<1>3. \/ Claimants' = Claimants /\ meter' = meter
      \/ /\ Claimants' = Claimants \ {c} /\ c \in Claimants
         /\ meter' \in {meter, meter + Interval}
  <2>1. CASE SwapPending(c)
    <3>1. meter' = meter /\ c \in Claimants /\ pending \in Content
      BY <2>1, RoleAt DEF SwapPending, discord, CoalescerTypeOK, Content
    <3>2. CASE pending = Nil
      BY <2>1, <3>1, <3>2, RolesReturn DEF SwapPending
    <3>3. CASE pending # Nil
      <4>1. Goto(c, "send", pending)
        BY <2>1, <3>3 DEF SwapPending
      <4>2. Claimants' = Claimants \cup {c}
        BY <3>1, <3>3, <4>1, RolesGo DEF Steps
      <4> QED BY <3>1, <4>2
    <3> QED BY <3>2, <3>3
  <2>2. CASE SetActivity(c)
    <3>1. c \in Claimants /\ callbacks[c].a # Nil
      BY <2>2, <1>2, RoleAt DEF SetActivity
    <3>2. CASE link = "up"
      <4>1. Goto(c, "hash", callbacks[c].a) /\ meter' = meter + Interval
        BY <2>2, <3>2 DEF SetActivity, Step
      <4>2. Claimants' = Claimants \ {c}
        BY <1>2, <3>1, <4>1, RolesGo DEF Steps
      <4> QED BY <3>1, <4>1, <4>2
    <3>3. CASE link # "up"
      <4>1. Return(c) /\ meter' = meter
        BY <2>2, <3>3 DEF SetActivity
      <4> QED BY <3>1, <4>1, RolesReturn
    <3> QED BY <3>2, <3>3
  <2>3. CASE StoreHash(c)
    <3>1. Return(c) /\ meter' = meter /\ c \notin Claimants
      BY <2>3, RoleAt DEF StoreHash, discord
    <3>2. Claimants' = Claimants \ {c}
      BY <3>1, RolesReturn
    <3> QED BY <3>1, <3>2
  <2> QED BY <2>1, <2>2, <2>3
<1>4. CASE Claimants' = Claimants /\ meter' = meter
  BY <1>1, <1>4, BystandersKeepLate
<1>5. CASE /\ Claimants' = Claimants \ {c} /\ c \in Claimants
           /\ meter' \in {meter, meter + Interval}
  <2>1. Cardinality(Claimants') = Cardinality(Claimants) - 1
    BY <1>5, OneMore
  <2>2. Cardinality(Claimants) \in Nat /\ Cardinality(Callbacks) \in Nat
    BY SomeCallbacks DEF Claimants
  <2>3. FlushWaits' /\ Held' = Held - 1
    BY <1>1, <2>1, <2>2, Numbers DEF LateInv, FlushWaits, Held, Due
  <2>4. Room' = Room + Interval /\ Room \in Nat
    BY <2>3, RoomMoves DEF LateInv
  <2> QED BY <1>1, <1>5, <2>3, <2>4, Numbers DEF LateInv, LateBudget, InBucket
<1> QED BY <1>3, <1>4, <1>5

LEMMA LateStep ==
  ASSUME CoalescerTypeOK, IsFiniteSet(Callbacks), LateInv, [Next]_coalescerVars
  PROVE  LateInv'
<1>1. CASE RegistryChange \/ OnSignal \/ Connect \/ Disconnect \/ UNCHANGED coalescerVars
  <2>1. UNCHANGED <<flush, credit, callbacks, meter>>
    BY <1>1 DEF RegistryChange, OnSignal, Connect, Disconnect, coalescerVars, timers, discord
  <2> QED BY <2>1, RolesStay, BystandersKeepLate
<1>2. ASSUME NEW c \in Callbacks,
             DebounceFires(c) \/ Resolve(c) \/ HashGate(c) \/ StorePending(c)
      PROVE  LateInv'
  <2>1. UNCHANGED <<flush, credit, meter>>
    BY <1>2 DEF DebounceFires, Resolve, HashGate, StorePending, timers, discord
  <2>2. c \notin Claimants
    BY <1>2, RoleAt DEF DebounceFires, Resolve, HashGate, StorePending
  <2>3. \/ Return(c)
        \/ \E step \in {"resolve", "gate", "store", "book"}, a \in Content :
             (step # "resolve" => a # Nil) /\ Goto(c, step, a)
    BY <1>2 DEF DebounceFires, Resolve, HashGate, StorePending, Step, At, Content,
                CoalescerTypeOK, Callback
  <2>4. Claimants' = Claimants \ {c}
    BY <2>3, RolesReturn, RolesGo DEF Steps
  <2> QED BY <2>1, <2>2, <2>4, BystandersKeepLate
<1> QED BY <1>1, <1>2, TickKeepsLate, FlushFiresKeepsLate, ScheduleKeepsLate, FlusherKeepsLate
        DEF Next, Fire, Run

\* Whatever is late, Discord sees at most one update beyond Burst at once and one
\* more per Interval for each callback that can be under way.
THEOREM CoalescerBoundsLateness ==
  ASSUME IsFiniteSet(Callbacks) PROVE Spec => []WithinLateLimit
<1>1. Init => CoalescerTypeOK /\ LateInv
  <2> SUFFICES ASSUME Init PROVE LateInv
    BY TypeStart
  <2>1. CoalescerTypeOK /\ flush = Off /\ credit = Capacity /\ meter = 0 /\ Claimants = {}
    BY TypeStart DEF Init, Claimants, At
  <2>2. FlushWaits
    BY <2>1, Numbers DEF FlushWaits
  <2>3. Held = 0
    BY <2>1, FS_EmptySet, Numbers DEF Held, Due
  <2>4. Room \in Nat
    <3> DEFINE n == Cardinality(Callbacks)
    <3>1. n \in Nat /\ n - Held = n
      BY <2>3, FS_CardinalityType
    <3> HIDE DEF n
    <3>2. Interval * n \in Nat
      BY <3>1, Multiples, CapacityHolds
    <3> QED BY <3>1, <3>2 DEF Room, n
  <2> QED BY <2>1, <2>2, <2>4, Numbers DEF LateInv, LateBudget, InBucket
<1>2. CoalescerTypeOK /\ LateInv /\ [Next]_coalescerVars => (CoalescerTypeOK /\ LateInv)'
  BY TypeStep, LateStep
<1>3. CoalescerTypeOK /\ LateInv => WithinLateLimit
  <2> SUFFICES ASSUME CoalescerTypeOK, LateInv PROVE WithinLateLimit
    OBVIOUS
  <2> DEFINE n == Cardinality(Callbacks)
  <2>1. n \in Nat /\ Held \in Nat /\ Held <= n
    <3>1. Claimants \in SUBSET Callbacks
      BY DEF Claimants
    <3> QED BY <3>1, SomeCallbacks, Numbers DEF LateInv, FlushWaits, Held, Due
  <2> HIDE DEF n
  <2>2. n - Held \in Nat /\ n - Held <= n
    BY <2>1
  <2>3. Interval * (n - Held) \in Nat /\ Interval * n \in Nat
    BY <2>1, <2>2, Multiples, Numbers
  <2>4. Interval * (n - Held) <= Interval * n
    BY <2>1, <2>2, LargerMultiple, Numbers
  <2>5. Room = Interval * (n - Held)
    BY DEF Room, n
  <2>6. meter + InBucket <= Capacity + Room
    BY DEF LateInv, LateBudget
  <2>7. InBucket \in Nat
    BY Numbers DEF InBucket
  <2>8. meter <= Capacity + Interval * n
    BY <2>3, <2>4, <2>5, <2>6, <2>7, Numbers
  <2> QED BY <2>8 DEF WithinLateLimit, n
<1> QED BY <1>1, <1>2, <1>3, PTL DEF Spec
=============================================================================
