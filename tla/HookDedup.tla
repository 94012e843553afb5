------------------------------ MODULE HookDedup ------------------------------
(***************************************************************************)
(* The middleware that filters duplicate hooks (server/hook_dedup.go).     *)
(* Requests run in goroutines of their own: each reads the clock, looks    *)
(* its key up, stores its time under the key and goes on to the handler.   *)
(* A cleanup goroutine looks at each entry and then deletes it by key.     *)
(* The map is a sync.Map: single loads, stores and deletes are atomic, and *)
(* nothing else is.                                                        *)
(*                                                                         *)
(* A key stands for (route, session_id, tool_name, body).  Points in time  *)
(* are kept as ages in ticks, distinguished up to the oldest that matters. *)
(***************************************************************************)
EXTENDS Integers

CONSTANTS
  Keys,       \* the contents that requests to /hooks/ can have
  Requests,   \* bound: goroutines that serve requests at one time
  TTL,        \* hookDedupTTL in ticks
  MaxDelay,   \* bound: ticks a goroutine takes for its few steps
  Nil         \* no entry, no request

Oldest == TTL + MaxDelay + 1
Ages   == 0 .. Oldest
Request == [at : {"load", "store"}, key : Keys, age : 0 .. MaxDelay]
Cleaner == [left : SUBSET Keys, victim : Keys \cup {Nil}, age : 0 .. MaxDelay]

ASSUME DedupAssumption ==
  /\ TTL \in Nat \ {0}
  /\ MaxDelay \in Nat
  /\ Nil \notin Keys \cup Request \cup Cleaner \cup Int

VARIABLES
  seen,      \* per key: Nil, or the age of the time stored for it
  requests,  \* per goroutine: Nil, or its step, its key and the age of its now
  cleaner,   \* Nil, or what the cleanup has left to look at and found
  served     \* per key: Nil, or the age of the youngest request let through

dedupVars == <<seen, requests, cleaner, served>>

At(r, step) == requests[r] # Nil /\ requests[r].at = step
Goto(r, step) == requests' = [requests EXCEPT ![r].at = step]
Return(r) == requests' = [requests EXCEPT ![r] = Nil]

\* A request is younger than TTL with respect to the one stored before.
Duplicate(r) ==
  LET k == requests[r].key
  IN  seen[k] # Nil /\ seen[k] - requests[r].age < TTL

-----------------------------------------------------------------------------
\* The body is read and hashed, and then the clock is read.
Arrive(r) ==
  /\ requests[r] = Nil
  /\ \E k \in Keys : requests' = [requests EXCEPT ![r] = [at |-> "load", key |-> k, age |-> 0]]
  /\ UNCHANGED <<seen, cleaner, served>>

\* Mutant of Drop: a duplicate renews the entry.
DropAndRenew(r) ==
  /\ At(r, "load") /\ Duplicate(r)
  /\ seen' = [seen EXCEPT ![requests[r].key] = requests[r].age]
  /\ Return(r)
  /\ UNCHANGED <<cleaner, served>>

Drop(r) ==
  /\ At(r, "load") /\ Duplicate(r)
  /\ Return(r)
  /\ UNCHANGED <<seen, cleaner, served>>

Pass(r) ==
  /\ At(r, "load") /\ ~Duplicate(r)
  /\ Goto(r, "store")
  /\ UNCHANGED <<seen, cleaner, served>>

\* Mutant of Store: the entry holds the time at which it expires.
StoreExpiry(r) ==
  /\ At(r, "store")
  /\ LET req == requests[r]
     IN  /\ seen' = [seen EXCEPT ![req.key] = req.age - TTL]
         /\ served' = [served EXCEPT ![req.key] =
                         IF @ # Nil /\ @ < req.age THEN @ ELSE req.age]
  /\ Return(r)
  /\ UNCHANGED cleaner

Store(r) ==
  /\ At(r, "store")
  /\ LET req == requests[r]
     IN  /\ seen' = [seen EXCEPT ![req.key] = req.age]
         /\ served' = [served EXCEPT ![req.key] =
                         IF @ # Nil /\ @ < req.age THEN @ ELSE req.age]
  /\ Return(r)
  /\ UNCHANGED cleaner

-----------------------------------------------------------------------------
CleanupTick ==
  /\ cleaner = Nil
  /\ cleaner' = [left |-> {k \in Keys : seen[k] # Nil}, victim |-> Nil, age |-> 0]
  /\ UNCHANGED <<seen, requests, served>>

\* Mutant of Inspect: the walk over the map ends at the first young entry.
InspectUntilYoung ==
  /\ cleaner # Nil /\ cleaner.victim = Nil
  /\ \E k \in cleaner.left :
       LET old == seen[k] # Nil /\ seen[k] - cleaner.age > TTL
       IN  cleaner' = [cleaner EXCEPT !.left = IF old THEN @ \ {k} ELSE {},
                                      !.victim = IF old THEN k ELSE Nil]
  /\ UNCHANGED <<seen, requests, served>>

Inspect ==
  /\ cleaner # Nil /\ cleaner.victim = Nil
  /\ \E k \in cleaner.left :
       cleaner' = [cleaner EXCEPT
                     !.left = @ \ {k},
                     !.victim = IF seen[k] # Nil /\ seen[k] - cleaner.age > TTL
                                THEN k ELSE Nil]
  /\ UNCHANGED <<seen, requests, served>>

\* Whatever is stored under the key by now goes.
Evict ==
  /\ cleaner # Nil /\ cleaner.victim # Nil
  /\ seen' = [seen EXCEPT ![cleaner.victim] = Nil]
  /\ cleaner' = [cleaner EXCEPT !.victim = Nil]
  /\ UNCHANGED <<requests, served>>

CleanupDone ==
  /\ cleaner # Nil /\ cleaner.victim = Nil /\ cleaner.left = {}
  /\ cleaner' = Nil
  /\ UNCHANGED <<seen, requests, served>>

Older(age) == IF age = Nil \/ age = Oldest THEN age ELSE age + 1

TimePasses ==
  /\ \A r \in Requests : requests[r] # Nil => requests[r].age < MaxDelay
  /\ cleaner # Nil => cleaner.age < MaxDelay
  /\ seen' = [k \in Keys |-> Older(seen[k])]
  /\ served' = [k \in Keys |-> Older(served[k])]
  /\ requests' = [r \in Requests |->
                    IF requests[r] = Nil THEN Nil ELSE [requests[r] EXCEPT !.age = @ + 1]]
  /\ cleaner' = IF cleaner = Nil THEN Nil ELSE [cleaner EXCEPT !.age = @ + 1]

DedupInit ==
  /\ seen = [k \in Keys |-> Nil]
  /\ requests = [r \in Requests |-> Nil]
  /\ cleaner = Nil
  /\ served = [k \in Keys |-> Nil]

Serve(r) == Drop(r) \/ Pass(r) \/ Store(r)
Cleanup  == CleanupTick \/ Inspect \/ Evict \/ CleanupDone

DedupNext ==
  \/ \E r \in Requests : Arrive(r) \/ Serve(r)
  \/ Cleanup
  \/ TimePasses

DedupSpec == DedupInit /\ [][DedupNext]_dedupVars

\* Goroutines run, the ticker of the cleanup fires, time passes.
DedupFairSpec ==
  /\ DedupSpec
  /\ \A r \in Requests : WF_dedupVars(Serve(r))
  /\ WF_dedupVars(Cleanup) /\ WF_dedupVars(TimePasses)

-----------------------------------------------------------------------------
\* Entries, requests and the cleanup are in range, and an entry is never younger
\* than the last request let through with its content.
DedupTypeOK ==
  /\ seen \in [Keys -> Ages \cup {Nil}]
  /\ requests \in [Requests -> Request \cup {Nil}]
  /\ cleaner \in Cleaner \cup {Nil}
  /\ served \in [Keys -> Ages \cup {Nil}]
  /\ \A k \in Keys : seen[k] # Nil => served[k] # Nil /\ served[k] <= seen[k]

\* No event is lost: a request is dropped only if one with the same content was
\* let through to the handler, and less than TTL before it.  A steady stream of
\* equal hooks is thinned out, never silenced (hook_dedup.go:164-174).
DropHasTwin ==
  [][\A r \in Requests :
       (At(r, "load") /\ requests'[r] = Nil) =>
         LET twin == served[requests[r].key]
         IN  twin # Nil /\ twin - requests[r].age < TTL]_dedupVars

\* The map does not grow for ever: each entry is evicted or renewed in the end
\* (hook_dedup.go:31-34).
EntriesLeave ==
  \A k \in Keys : seen[k] # Nil ~> (seen[k] = Nil \/ seen[k] <= MaxDelay)
=============================================================================
