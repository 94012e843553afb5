------------------------------ MODULE Coalescer ------------------------------
(***************************************************************************)
(* The presence coalescer (coalescer/coalescer.go): between the registry,  *)
(* which pulses updateChan on every change, and the Discord client.  Run   *)
(* restarts a debounce timer on every pulse; the timer's callback resolves *)
(* the presence, gates it by content hash, stores it in the pending slot   *)
(* and books a token of the rate limiter; the token's own timer flushes    *)
(* the slot.  Timer callbacks are goroutines of their own.                 *)
(*                                                                         *)
(* An activity is its user-visible content, which HashActivity is taken to *)
(* tell apart.  Time is in ticks; the limiter's tokens are kept in ticks   *)
(* of refill, negative when tokens are booked ahead of time.  The counters *)
(* behind the summary log are left out.                                    *)
(***************************************************************************)
EXTENDS Integers

CONSTANTS
  Activities,     \* contents that ResolvePresence may return
  Debounce,       \* DebounceDelay in ticks
  Interval,       \* DiscordRateInterval in ticks
  Burst,          \* DiscordRateBurst
  Callbacks,      \* bound: goroutines that run timer callbacks at one time
  MaxDebt,        \* bound: no new session changes with this many ticks booked ahead
  SlowCallbacks,  \* may a callback or a due timer be late by a tick or more?
  MayDisconnect,  \* may Discord be absent at first, and go away?
  Nil             \* no activity

Off == -1
Capacity == Burst * Interval
Steps == {"resolve", "gate", "store", "book", "swap", "send", "hash"}
Callback == [at : Steps, a : Activities \cup {Nil}]

ASSUME CoalescerAssumption ==
  /\ Nil \notin Activities \cup Callback
  /\ Debounce \in Nat \ {0} /\ Interval \in Nat \ {0}
  /\ Burst \in Nat \ {0} /\ MaxDebt \in Nat
  /\ SlowCallbacks \in BOOLEAN /\ MayDisconnect \in BOOLEAN

VARIABLES
  wanted,     \* what ResolvePresence returns for the registry as it is
  signal,     \* updateChan (capacity 1) is full
  debounce,   \* ticks left on the debounce timer
  flush,      \* ticks left on the flush timer
  credit,     \* the limiter's tokens, in ticks
  pending,    \* the pending slot
  lastSent,   \* the content whose hash is in lastSentHash
  callbacks,  \* per goroutine: Nil, or the step it is at and its activity
  link,       \* the IPC connection: "none" yet, "up", or "broken"
  shown,      \* what Discord displays
  meter       \* the recent updates as Discord's rate limit counts them, in ticks

timers == <<debounce, flush>>
discord == <<link, shown, meter>>
coalescerVars ==
  <<wanted, signal, timers, credit, pending, lastSent, callbacks, discord>>

At(c, step) == callbacks[c] # Nil /\ callbacks[c].at = step
Goto(c, step, a) == callbacks' = [callbacks EXCEPT ![c] = [at |-> step, a |-> a]]
Return(c) == callbacks' = [callbacks EXCEPT ![c] = Nil]
Step(c, step) == Goto(c, step, callbacks[c].a)

-----------------------------------------------------------------------------
\* A session changes, and with it the presence or not; the registry pulses.
RegistryChange ==
  /\ credit > -MaxDebt
  /\ wanted' \in Activities \cup {Nil}
  /\ signal' = TRUE
  /\ UNCHANGED <<timers, credit, pending, lastSent, callbacks, discord>>

\* The timer that runs is replaced: every pulse starts the delay anew.
OnSignal ==
  /\ signal
  /\ signal' = FALSE
  /\ debounce' = Debounce
  /\ UNCHANGED <<wanted, flush, credit, pending, lastSent, callbacks, discord>>

DebounceFires(c) ==
  /\ debounce = 0
  /\ callbacks[c] = Nil
  /\ debounce' = Off
  /\ Goto(c, "resolve", Nil)
  /\ UNCHANGED <<wanted, signal, flush, credit, pending, lastSent, discord>>

(* resolveAndEnqueue: nothing happens when there is no session.            *)
\* Mutant of Resolve: the case of no session is not told apart.
ResolveAnyway(c) ==
  /\ At(c, "resolve")
  /\ Goto(c, "gate", wanted)
  /\ UNCHANGED <<wanted, signal, timers, credit, pending, lastSent, discord>>

Resolve(c) ==
  /\ At(c, "resolve")
  /\ IF wanted = Nil THEN Return(c) ELSE Goto(c, "gate", wanted)
  /\ UNCHANGED <<wanted, signal, timers, credit, pending, lastSent, discord>>

HashGate(c) ==
  /\ At(c, "gate")
  /\ IF callbacks[c].a = lastSent THEN Return(c) ELSE Step(c, "store")
  /\ UNCHANGED <<wanted, signal, timers, credit, pending, lastSent, discord>>

StorePending(c) ==
  /\ At(c, "store")
  /\ pending' = callbacks[c].a
  /\ Step(c, "book")
  /\ UNCHANGED <<wanted, signal, timers, credit, lastSent, discord>>

\* Mutant of Schedule: the flush that was booked before is stopped although
\* the limiter has no token for a new one.
ScheduleOrDrop(c) ==
  /\ At(c, "book")
  /\ IF credit >= Interval
       THEN credit' = credit - Interval /\ Step(c, "swap")
       ELSE UNCHANGED credit /\ Return(c)
  /\ flush' = Off
  /\ UNCHANGED <<wanted, signal, debounce, pending, lastSent, discord>>

\* Mutant of Schedule: a delayed flush waits for a token without booking it.
ScheduleUnbooked(c) ==
  /\ At(c, "book")
  /\ IF credit >= Interval
       THEN credit' = credit - Interval /\ flush' = Off /\ Step(c, "swap")
       ELSE flush' = Interval - credit /\ UNCHANGED credit /\ Return(c)
  /\ UNCHANGED <<wanted, signal, debounce, pending, lastSent, discord>>

\* The flush that was booked before is stopped, but its token is not given back.
Schedule(c) ==
  /\ At(c, "book")
  /\ credit' = credit - Interval
  /\ IF credit' >= 0
       THEN flush' = Off /\ Step(c, "swap")
       ELSE flush' = -credit' /\ Return(c)
  /\ UNCHANGED <<wanted, signal, debounce, pending, lastSent, discord>>

(* flushPending, inline or as the callback of the flush timer.             *)
FlushFires(c) ==
  /\ flush = 0
  /\ callbacks[c] = Nil
  /\ flush' = Off
  /\ Goto(c, "swap", Nil)
  /\ UNCHANGED <<wanted, signal, debounce, credit, pending, lastSent, discord>>

\* Mutant of SwapPending: the slot is read and not emptied.
LoadPending(c) ==
  /\ At(c, "swap")
  /\ IF pending = Nil THEN Return(c) ELSE Goto(c, "send", pending)
  /\ UNCHANGED <<wanted, signal, timers, credit, pending, lastSent, discord>>

SwapPending(c) ==
  /\ At(c, "swap")
  /\ IF pending = Nil THEN Return(c) ELSE Goto(c, "send", pending)
  /\ pending' = Nil
  /\ UNCHANGED <<wanted, signal, timers, credit, lastSent, discord>>

\* Mutant of SetActivity: the hash is stored although the update failed.
SetActivityOrNot(c) ==
  /\ At(c, "send")
  /\ Step(c, "hash")
  /\ IF link = "up"
       THEN shown' = callbacks[c].a /\ meter' = meter + Interval
       ELSE UNCHANGED <<shown, meter>>
  /\ UNCHANGED <<wanted, signal, timers, credit, pending, lastSent, link>>

\* discord.Client.SetActivity; an update that fails is not tried again.
SetActivity(c) ==
  /\ At(c, "send")
  /\ IF link = "up"
       THEN /\ shown' = callbacks[c].a
            /\ meter' = meter + Interval
            /\ Step(c, "hash")
       ELSE /\ Return(c)
            /\ UNCHANGED <<shown, meter>>
  /\ UNCHANGED <<wanted, signal, timers, credit, pending, lastSent, link>>

StoreHash(c) ==
  /\ At(c, "hash")
  /\ lastSent' = callbacks[c].a
  /\ Return(c)
  /\ UNCHANGED <<wanted, signal, timers, credit, pending, discord>>

-----------------------------------------------------------------------------
\* discordConnectionLoop connects once and then waits for the shutdown.
Connect ==
  /\ link = "none"
  /\ link' = "up"
  /\ UNCHANGED <<wanted, signal, timers, credit, pending, lastSent, callbacks, shown, meter>>

\* Discord goes away and takes the presence along.
Disconnect ==
  /\ MayDisconnect /\ link = "up"
  /\ link' = "broken"
  /\ shown' = Nil
  /\ UNCHANGED <<wanted, signal, timers, credit, pending, lastSent, callbacks, meter>>

Sooner(t) == IF t > 0 THEN t - 1 ELSE t

\* A tick is long for a callback, unless SlowCallbacks: none runs across it.
TimePasses ==
  /\ SlowCallbacks \/ (0 \notin {debounce, flush} /\ \A c \in Callbacks : callbacks[c] = Nil)
  /\ debounce' = Sooner(debounce)
  /\ flush' = Sooner(flush)
  /\ credit' = IF credit < Capacity THEN credit + 1 ELSE credit
  /\ meter' = Sooner(meter)
  /\ UNCHANGED <<wanted, signal, pending, lastSent, callbacks, link, shown>>

Init ==
  /\ wanted = Nil /\ signal = FALSE
  /\ debounce = Off /\ flush = Off
  /\ credit = Capacity
  /\ pending = Nil /\ lastSent = Nil
  /\ callbacks = [c \in Callbacks |-> Nil]
  /\ link = IF MayDisconnect THEN "none" ELSE "up"
  /\ shown = Nil /\ meter = 0

Fire(c) == DebounceFires(c) \/ FlushFires(c)
Run(c) ==
  \/ Resolve(c) \/ HashGate(c) \/ StorePending(c) \/ Schedule(c)
  \/ SwapPending(c) \/ SetActivity(c) \/ StoreHash(c)

Next ==
  \/ RegistryChange \/ OnSignal \/ TimePasses \/ Connect \/ Disconnect
  \/ \E c \in Callbacks : Fire(c) \/ Run(c)

Spec == Init /\ [][Next]_coalescerVars

\* Goroutines run, timers fire, time passes.
FairSpec ==
  /\ Spec
  /\ WF_coalescerVars(OnSignal) /\ WF_coalescerVars(TimePasses)
  /\ \A c \in Callbacks : WF_coalescerVars(Fire(c)) /\ WF_coalescerVars(Run(c))

-----------------------------------------------------------------------------
\* Each part is in its range; a callback past the resolver carries an activity
\* (nothing dereferences the nil of an empty registry).
CoalescerTypeOK ==
  /\ wanted \in Activities \cup {Nil} /\ signal \in BOOLEAN
  /\ debounce \in Off .. Debounce
  /\ credit \in Int /\ credit <= Capacity
  /\ flush = Off \/ flush \in Nat
  /\ pending \in Activities \cup {Nil} /\ lastSent \in Activities \cup {Nil}
  /\ callbacks \in [Callbacks -> Callback \cup {Nil}]
  /\ \A c \in Callbacks :
       (callbacks[c] # Nil /\ callbacks[c].at \notin {"resolve", "swap"}) =>
         callbacks[c].a # Nil
  /\ link \in {"none", "up", "broken"}
  /\ shown \in Activities \cup {Nil} /\ meter \in Nat

\* "Never discarded" (coalescer.go:4-5): whenever an update waits in the slot,
\* a flush is booked, or a callback is about to book or to carry one out.
PendingHasFlush ==
  pending # Nil => (flush # Off \/ \E c \in Callbacks : At(c, "book") \/ At(c, "swap"))

\* However bursts of hooks, debounce and bookings fall, Discord never sees more
\* than Burst updates at once and one more per Interval (coalescer.go:31-40).
WithinRateLimit == meter <= Capacity

\* Between flushes the hash gate compares with what Discord was last sent: an
\* update that it skips is one the user can see already (coalescer.go:215-218).
HashMatchesShown ==
  (link # "broken" /\ ~\E c \in Callbacks : At(c, "hash")) => lastSent = shown

\* Once the pulses stop, the pending update is flushed.
PendingDrains == pending # Nil ~> (pending = Nil \/ signal)

(* The updates that callbacks carry, as the abstract Delivery sees them.     *)
Carried ==
  [c \in Callbacks |-> IF At(c, "send") \/ At(c, "hash") THEN callbacks[c] ELSE Nil]

Delivered == INSTANCE Delivery WITH hands <- Carried

\* Whatever timers, bookings and overlapping callbacks do, an update leaves the
\* slot only for a newer one or to be sent once, is given up only without a
\* connection, and what was sent is what the hash gate is told (coalescer.go
\* 3-5 and 199-219): the coalescer implements Delivery.
ImplementsDelivery == Delivered!DeliverySpec

\* "updates queued during a rate-limit cooldown are flushed exactly once when
\* the limiter permits - never discarded" (coalescer.go:3-5).
PendingIsFlushed == pending # Nil ~> pending = Nil
=============================================================================
