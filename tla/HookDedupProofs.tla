--------------------------- MODULE HookDedupProofs ---------------------------
(***************************************************************************)
(* For any contents, any number of concurrent requests and any TTL, the    *)
(* deduplication drops no event that was not let through before.  What an  *)
(* entry says is never younger than the last request let through, whatever *)
(* order stores and evictions come in; so the entry that condemns a        *)
(* duplicate has a twin at least as young.                                 *)
(***************************************************************************)
EXTENDS HookDedup, TLAPS

\* The request of a goroutine, and what the steps make of it.
LEMMA RequestTyped ==
  ASSUME DedupTypeOK, NEW r \in Requests, requests[r] # Nil
  PROVE  requests[r] \in Request
BY DEF DedupTypeOK

LEMMA Bounds == MaxDelay \in Nat /\ TTL \in Nat /\ Oldest \in Nat /\ MaxDelay < Oldest /\ TTL + MaxDelay < Oldest
BY DedupAssumption DEF Oldest

\* A request that has its time is as young as the clock lets it be.
LEMMA AgeInRange == \A a \in 0 .. MaxDelay : a \in Ages
BY Bounds DEF Ages

\* A step of time leaves the order of ages as it is.
LEMMA OlderKeepsOrder ==
  ASSUME NEW a \in Ages, NEW b \in Ages, a <= b
  PROVE  Older(a) \in Ages /\ Older(b) \in Ages /\ Older(a) <= Older(b)
<1>1. Nil \notin Ages
  BY DedupAssumption DEF Ages
<1>2. QED BY <1>1, Bounds DEF Ages, Older

LEMMA OlderTyped == \A a \in Ages \cup {Nil} : Older(a) \in Ages \cup {Nil} /\ (a = Nil <=> Older(a) = Nil)
<1>1. Nil \notin Ages /\ Nil \notin Int
  BY DedupAssumption DEF Ages
<1>2. QED BY <1>1, Bounds DEF Ages, Older

LEMMA StoreTyped ==
  ASSUME DedupTypeOK, NEW r \in Requests, Store(r)
  PROVE  DedupTypeOK'
<1> DEFINE k == requests[r].key
           a == requests[r].age
           twin == IF served[k] # Nil /\ served[k] < a THEN served[k] ELSE a
<1>1. k \in Keys /\ a \in Ages /\ a \in Int
  BY RequestTyped, AgeInRange, Bounds DEF Store, At, Request, Ages
<1>2. seen' = [seen EXCEPT ![k] = a] /\ served' = [served EXCEPT ![k] = twin]
  BY DEF Store
<1>3. requests' = [requests EXCEPT ![r] = Nil] /\ cleaner' = cleaner
  BY DEF Store, Return
<1>4. Nil \notin Ages
  BY DedupAssumption DEF Ages
<1>5. twin \in Ages /\ twin <= a
  BY <1>1, <1>4 DEF DedupTypeOK, Ages
<1> HIDE DEF k, a, twin
<1>6. QED BY <1>1, <1>2, <1>3, <1>4, <1>5 DEF DedupTypeOK

LEMMA CleanupTyped ==
  ASSUME DedupTypeOK, Cleanup
  PROVE  DedupTypeOK'
<1>1. CASE CleanupTick
  <2>1. cleaner' \in Cleaner
    BY <1>1, Bounds DEF CleanupTick, Cleaner
  <2>2. QED BY <1>1, <2>1 DEF CleanupTick, DedupTypeOK
<1>2. CASE Inspect
  <2>1. PICK k \in cleaner.left : cleaner' = [cleaner EXCEPT
                     !.left = @ \ {k},
                     !.victim = IF seen[k] # Nil /\ seen[k] - cleaner.age > TTL
                                THEN k ELSE Nil]
    BY <1>2 DEF Inspect
  <2>2. cleaner \in Cleaner
    BY <1>2 DEF Inspect, DedupTypeOK
  <2>3. cleaner' \in Cleaner
    BY <2>1, <2>2 DEF Cleaner
  <2>4. QED BY <1>2, <2>3 DEF Inspect, DedupTypeOK
<1>3. CASE Evict
  <2>1. cleaner \in Cleaner /\ cleaner' \in Cleaner /\ cleaner.victim \in Keys
    BY <1>3 DEF Evict, Cleaner, DedupTypeOK
  <2>2. QED BY <1>3, <2>1 DEF Evict, DedupTypeOK
<1>4. CASE CleanupDone
  BY <1>4 DEF CleanupDone, DedupTypeOK
<1>5. QED BY <1>1, <1>2, <1>3, <1>4 DEF Cleanup

LEMMA TimeTyped ==
  ASSUME DedupTypeOK, TimePasses
  PROVE  DedupTypeOK'
<1>1. requests' \in [Requests -> Request \cup {Nil}]
  <2>1. ASSUME NEW r \in Requests, requests[r] # Nil
        PROVE  [requests[r] EXCEPT !.age = @ + 1] \in Request
    <3>1. requests[r] \in Request /\ requests[r].age < MaxDelay
      BY <2>1, RequestTyped DEF TimePasses
    <3>2. requests[r].age + 1 \in 0 .. MaxDelay
      BY <3>1, Bounds DEF Request
    <3>3. QED BY <3>1, <3>2 DEF Request
  <2>2. QED BY <2>1 DEF TimePasses
<1>2. cleaner' \in Cleaner \cup {Nil}
  <2>1. ASSUME cleaner # Nil
        PROVE  [cleaner EXCEPT !.age = @ + 1] \in Cleaner
    <3>1. cleaner \in Cleaner /\ cleaner.age < MaxDelay
      BY <2>1 DEF TimePasses, DedupTypeOK
    <3>2. cleaner.age + 1 \in 0 .. MaxDelay
      BY <3>1, Bounds DEF Cleaner
    <3>3. QED BY <3>1, <3>2 DEF Cleaner
  <2>2. QED BY <2>1 DEF TimePasses
<1>3. \A k \in Keys : seen'[k] = Older(seen[k]) /\ served'[k] = Older(served[k])
  BY DEF TimePasses
<1>4. seen' \in [Keys -> Ages \cup {Nil}] /\ served' \in [Keys -> Ages \cup {Nil}]
  BY OlderTyped DEF TimePasses, DedupTypeOK
<1>5. ASSUME NEW k \in Keys, seen'[k] # Nil
      PROVE  served'[k] # Nil /\ served'[k] <= seen'[k]
  <2>1. seen[k] # Nil /\ seen[k] \in Ages /\ served[k] \in Ages /\ served[k] # Nil
        /\ served[k] <= seen[k]
    BY <1>3, <1>5, OlderTyped DEF DedupTypeOK
  <2>2. QED BY <1>3, <2>1, OlderKeepsOrder, OlderTyped
<1>6. QED BY <1>1, <1>2, <1>4, <1>5 DEF DedupTypeOK

LEMMA DedupStep == DedupTypeOK /\ [DedupNext]_dedupVars => DedupTypeOK'
<1> SUFFICES ASSUME DedupTypeOK, [DedupNext]_dedupVars PROVE DedupTypeOK'
  OBVIOUS
<1>1. ASSUME NEW r \in Requests, Arrive(r)
      PROVE  DedupTypeOK'
  <2>1. PICK k \in Keys : requests' = [requests EXCEPT ![r] = [at |-> "load", key |-> k, age |-> 0]]
    BY <1>1 DEF Arrive
  <2>2. [at |-> "load", key |-> k, age |-> 0] \in Request
    BY Bounds DEF Request
  <2>3. QED BY <1>1, <2>1, <2>2 DEF Arrive, DedupTypeOK
<1>2. ASSUME NEW r \in Requests, Drop(r)
      PROVE  DedupTypeOK'
  BY <1>2 DEF Drop, Return, DedupTypeOK
<1>3. ASSUME NEW r \in Requests, Pass(r)
      PROVE  DedupTypeOK'
  <2>1. requests[r] \in Request
    BY <1>3, RequestTyped DEF Pass, At
  <2>2. [requests[r] EXCEPT !.at = "store"] \in Request
    BY <2>1 DEF Request
  <2>3. requests' = [requests EXCEPT ![r] = [requests[r] EXCEPT !.at = "store"]]
    BY <1>3 DEF Pass, Goto, DedupTypeOK
  <2>4. QED BY <1>3, <2>2, <2>3 DEF Pass, DedupTypeOK
<1>4. CASE UNCHANGED dedupVars
  BY <1>4 DEF dedupVars, DedupTypeOK
<1>5. QED BY <1>1, <1>2, <1>3, <1>4, StoreTyped, CleanupTyped, TimeTyped DEF DedupNext, Serve

\* Entries are never younger than the last request let through, for any contents,
\* requests and delays.
THEOREM DedupTyped == DedupSpec => []DedupTypeOK
<1>1. DedupInit => DedupTypeOK
  BY DEF DedupInit, DedupTypeOK
<1>2. QED BY <1>1, DedupStep, PTL DEF DedupSpec

\* A request that leaves without having been let through is a duplicate.
LEMMA OnlyDuplicatesLeave ==
  ASSUME DedupTypeOK, DedupNext, NEW r \in Requests, At(r, "load"), requests'[r] = Nil
  PROVE  Duplicate(r)
<1>1. requests[r] \in Request /\ requests[r].at = "load" /\ requests[r] # Nil
  BY RequestTyped DEF At
<1>2. ASSUME NEW s \in Requests, Arrive(s) PROVE s # r /\ requests'[r] = requests[r]
  BY <1>1, <1>2 DEF Arrive, DedupTypeOK
<1>3. ASSUME NEW s \in Requests, Store(s) PROVE s # r /\ requests'[r] = requests[r]
  BY <1>1, <1>3 DEF Store, At, Return, DedupTypeOK
<1>4. ASSUME NEW s \in Requests, Pass(s) PROVE requests'[r] # Nil
  <2>1. requests[s] \in Request
    BY <1>4, RequestTyped DEF Pass, At
  <2>2. requests'[r] \in Request
    BY <1>1, <1>4, <2>1 DEF Pass, Goto, DedupTypeOK, Request
  <2>3. QED BY <2>2, DedupAssumption
<1>5. ASSUME NEW s \in Requests, Drop(s), s # r PROVE requests'[r] = requests[r]
  BY <1>5 DEF Drop, Return, DedupTypeOK
<1>6. CASE TimePasses
  <2>1. requests'[r] = [requests[r] EXCEPT !.age = @ + 1] /\ requests[r].age < MaxDelay
    BY <1>1, <1>6 DEF TimePasses
  <2>2. requests'[r] \in Request
    BY <1>1, <2>1, Bounds DEF Request
  <2>3. QED BY <2>2, DedupAssumption
<1>7. CASE Cleanup
  BY <1>1, <1>7 DEF Cleanup, CleanupTick, Inspect, Evict, CleanupDone
<1>8. QED BY <1>1, <1>2, <1>3, <1>4, <1>5, <1>6, <1>7 DEF DedupNext, Serve, Drop

\* No event is lost: what is dropped has a twin that was let through.
THEOREM DedupLosesNoEvent == DedupSpec => DropHasTwin
<1>1. ASSUME DedupTypeOK, [DedupNext]_dedupVars,
             NEW r \in Requests, At(r, "load"), requests'[r] = Nil
      PROVE  /\ served[requests[r].key] # Nil
             /\ served[requests[r].key] - requests[r].age < TTL
  <2>1. requests[r] \in Request
    BY <1>1, RequestTyped DEF At
  <2>2. DedupNext
    BY <1>1 DEF dedupVars, At
  <2>3. seen[requests[r].key] # Nil /\ seen[requests[r].key] - requests[r].age < TTL
    BY <1>1, <2>2, OnlyDuplicatesLeave DEF Duplicate
  <2>4. /\ requests[r].key \in Keys /\ requests[r].age \in Int
        /\ seen[requests[r].key] \in Int
        /\ served[requests[r].key] \in Int /\ served[requests[r].key] # Nil
        /\ served[requests[r].key] <= seen[requests[r].key]
    BY <1>1, <2>1, <2>3 DEF DedupTypeOK, Request, Ages
  <2>5. QED BY <2>3, <2>4, Bounds
<1>2. DedupTypeOK /\ [DedupNext]_dedupVars =>
        [\A r \in Requests :
           (At(r, "load") /\ requests'[r] = Nil) =>
             LET twin == served[requests[r].key]
             IN  twin # Nil /\ twin - requests[r].age < TTL]_dedupVars
  BY <1>1
<1>3. QED BY <1>2, DedupTyped, PTL DEF DedupSpec, DropHasTwin
=============================================================================
