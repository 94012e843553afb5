-------------------------- MODULE PresencePipeline --------------------------
(***************************************************************************)
(* Everybody who writes to Discord, together: the coalescer, the demo      *)
(* preview of POST /preview (server.go), the connection loop and the       *)
(* shutdown sequence (main.go), over the client (discord/client.go), which *)
(* has no lock.                                                            *)
(*                                                                         *)
(* Time is left out: a timer that runs may fire at any later step.  Of the *)
(* coalescer that leaves the armed debounce, the booked flush and the      *)
(* choice of the limiter between flushing at once and booking.  One        *)
(* callback of the coalescer runs at a time; Coalescer has their overlap.  *)
(*                                                                         *)
(* Discord is external.  It serves a connection whose first frame is the   *)
(* handshake, closes any other, and shows nothing of a client that is gone.*)
(***************************************************************************)
EXTENDS Naturals

CONSTANTS
  Activities,  \* contents that ResolvePresence may return
  Previews,    \* requests to POST /preview, and what they show
  MinDelay, MaxDelay,  \* the backoff between attempts to connect
  Nil          \* no activity, no preview

Callback == [at : {"store", "send"}, a : Activities]
             \cup [at : {"resolve", "swap"}, a : {Nil}]

ASSUME PipelineAssumption ==
  /\ Nil \notin Activities \cup Previews \cup Callback
  /\ Activities \cap Previews = {}
  /\ Previews \subseteq Nat
  /\ MinDelay \in Nat \ {0} /\ MaxDelay \in Nat /\ MinDelay <= MaxDelay

VARIABLES
  wanted,        \* what ResolvePresence returns for the registry as it is
  signal,        \* updateChan (capacity 1) is full
  due, booked,   \* the debounce timer, the flush timer is armed
  callback,      \* Nil, or the step of the coalescer's callback and its activity
  pending,       \* the coalescer's slot
  lastSent,      \* the content whose hash is in lastSentHash
  requests,      \* per preview request: "new", "sending", "done"
  timer,         \* its timer: "none", "runs", "ending", "reset", "over"
  previewState,  \* the preview of Server.previewState
  conn,          \* c.conn: "none", "fresh" until the handshake, "up", "dead"
  loop,          \* discordConnectionLoop: "dial", "greet", "wait", "done"
  delay,         \* Backoff.current
  ctx,           \* the context is cancelled
  run,           \* Coalescer.Run goes on
  main,          \* main: "live", then the next step of the shutdown, "gone"
  shown,         \* what Discord displays
  early,         \* history: a frame was written before the handshake
  overtaken,     \* history: a preview came while the timer of another was ending
  straggled      \* history: the coalescer or a preview was at work after Shutdown

coalescer == <<due, booked, callback, pending, lastSent>>
preview   == <<requests, timer, previewState, overtaken>>
discord   == <<conn, shown, early>>
dialing   == <<loop, delay>>
ending    == <<ctx, run, main, straggled>>
vars == <<wanted, signal, coalescer, preview, discord, dialing, ending>>

At(step) == callback # Nil /\ callback.at = step

\* Client.SetActivity writes a frame on any connection it can see.  Discord
\* drops a connection on which it comes before the handshake.
Writable == conn \in {"fresh", "up"}
Frame(a) ==
  /\ conn' = IF conn = "fresh" THEN "dead" ELSE conn
  /\ shown' = IF conn = "up" THEN a ELSE shown
  /\ early' = (early \/ conn = "fresh")

\* main has called Shutdown: whoever sends from now on is a straggler.
Halted == main # "live"

-----------------------------------------------------------------------------
\* A session changes; the registry pulses.
RegistryChange ==
  /\ wanted' \in Activities \cup {Nil}
  /\ signal' = TRUE
  /\ UNCHANGED <<coalescer, preview, discord, dialing, ending>>

\* Coalescer.Run goes on taking pulses until it has seen the context.
OnSignal ==
  /\ run /\ signal
  /\ signal' = FALSE
  /\ due' = TRUE
  /\ straggled' = (straggled \/ Halted)
  /\ UNCHANGED <<wanted, booked, callback, pending, lastSent, preview, discord,
                 dialing, ctx, run, main>>

DebounceFires ==
  /\ due /\ callback = Nil
  /\ due' = FALSE
  /\ callback' = [at |-> "resolve", a |-> Nil]
  /\ UNCHANGED <<wanted, signal, booked, pending, lastSent, preview, discord, dialing, ending>>

FlushFires ==
  /\ booked /\ callback = Nil
  /\ booked' = FALSE
  /\ callback' = [at |-> "swap", a |-> Nil]
  /\ UNCHANGED <<wanted, signal, due, pending, lastSent, preview, discord, dialing, ending>>

\* resolveAndEnqueue returns without a session, and at the hash gate.
Resolve ==
  /\ At("resolve")
  /\ callback' = IF wanted \in {Nil, lastSent} THEN Nil ELSE [at |-> "store", a |-> wanted]
  /\ UNCHANGED <<wanted, signal, due, booked, pending, lastSent, preview, discord, dialing, ending>>

\* The limiter has a token now, or books one; the booking before is stopped.
Enqueue ==
  /\ At("store")
  /\ pending' = callback.a
  /\ \/ booked' = FALSE /\ callback' = [at |-> "swap", a |-> Nil]
     \/ booked' = TRUE /\ callback' = Nil
  /\ UNCHANGED <<wanted, signal, due, lastSent, preview, discord, dialing, ending>>

SwapPending ==
  /\ At("swap")
  /\ callback' = IF pending = Nil THEN Nil ELSE [at |-> "send", a |-> pending]
  /\ pending' = Nil
  /\ UNCHANGED <<wanted, signal, due, booked, lastSent, preview, discord, dialing, ending>>

\* Mutant of SendPending: the hash is stored although the frame failed.
SendAndRemember ==
  /\ At("send")
  /\ callback' = Nil
  /\ Frame(callback.a)
  /\ lastSent' = callback.a
  /\ UNCHANGED <<wanted, signal, due, booked, pending, preview, dialing, ending>>

\* The hash is stored when the frame could be written.
SendPending ==
  /\ At("send")
  /\ callback' = Nil
  /\ Frame(callback.a)
  /\ lastSent' = IF Writable THEN callback.a ELSE lastSent
  /\ UNCHANGED <<wanted, signal, due, booked, pending, preview, dialing, ending>>

-----------------------------------------------------------------------------
\* Mutant of PostPreview: the timer of the preview before runs on.
PostBeside(p) ==
  /\ requests[p] = "new" /\ \A q \in Previews : q < p => requests[q] # "new"
  /\ requests' = [requests EXCEPT ![p] = "sending"]
  /\ timer' = [timer EXCEPT ![p] = "runs"]
  /\ previewState' = p
  /\ overtaken' = (overtaken \/ \E q \in Previews : timer[q] = "ending")
  /\ UNCHANGED <<wanted, signal, coalescer, discord, dialing, ending>>

(* handlePostPreview: under previewMu the old timer is stopped and a new   *)
(* one started; the activity is sent after the unlock.                     *)
PostPreview(p) ==
  /\ requests[p] = "new" /\ \A q \in Previews : q < p => requests[q] # "new"
  /\ requests' = [requests EXCEPT ![p] = "sending"]
  /\ timer' = [q \in Previews |->
                 IF q = p THEN "runs"
                 ELSE IF q = previewState /\ timer[q] = "runs" THEN "over"
                 ELSE timer[q]]
  /\ previewState' = p
  /\ overtaken' = (overtaken \/ \E q \in Previews : timer[q] = "ending")
  /\ UNCHANGED <<wanted, signal, coalescer, discord, dialing, ending>>

ShowPreview(p) ==
  /\ requests[p] = "sending"
  /\ requests' = [requests EXCEPT ![p] = "done"]
  /\ Frame(p)
  /\ straggled' = (straggled \/ Halted)
  /\ UNCHANGED <<wanted, signal, coalescer, timer, previewState, overtaken, dialing,
                 ctx, run, main>>

\* The timer fires.  A preview lasts five seconds at least; no handler takes
\* that long from its unlock to its frame.
PreviewExpires(p) ==
  /\ timer[p] = "runs"
  /\ \A q \in Previews : requests[q] # "sending"
  /\ timer' = [timer EXCEPT ![p] = "ending"]
  /\ UNCHANGED <<wanted, signal, coalescer, requests, previewState, overtaken, discord,
                 dialing, ending>>

\* Its callback resets previewState, whichever preview that holds by now.
ResetPreview(p) ==
  /\ timer[p] = "ending"
  /\ timer' = [timer EXCEPT ![p] = "reset"]
  /\ previewState' = Nil
  /\ UNCHANGED <<wanted, signal, coalescer, requests, overtaken, discord, dialing, ending>>

\* Mutant of EndPreview: nobody is told.
EndUnnoticed(p) ==
  /\ timer[p] = "reset"
  /\ timer' = [timer EXCEPT ![p] = "over"]
  /\ UNCHANGED <<wanted, signal, coalescer, requests, previewState, overtaken, discord, dialing,
                 ending>>

\* onPreviewEnd: a non-blocking pulse.
EndPreview(p) ==
  /\ timer[p] = "reset"
  /\ timer' = [timer EXCEPT ![p] = "over"]
  /\ signal' = TRUE
  /\ UNCHANGED <<wanted, coalescer, requests, previewState, overtaken, discord, dialing, ending>>

-----------------------------------------------------------------------------
(* discordConnectionLoop and Client.Connect.                               *)
\* Mutant of Longer: the delay has no limit.
TwiceAsLong(d) == 2 * d

Longer(d) == IF 2 * d > MaxDelay THEN MaxDelay ELSE 2 * d

DialFails ==
  /\ loop = "dial" /\ ~ctx
  /\ delay' = Longer(delay)
  /\ UNCHANGED <<wanted, signal, coalescer, preview, discord, loop, ending>>

\* c.conn is replaced before the handshake is sent on it.
Dial ==
  /\ loop = "dial" /\ ~ctx
  /\ conn' = "fresh"
  /\ loop' = "greet"
  /\ UNCHANGED <<wanted, signal, coalescer, preview, shown, early, delay, ending>>

Greet ==
  /\ loop = "greet" /\ conn = "fresh"
  /\ conn' = "up"
  /\ loop' = "wait"
  /\ delay' = MinDelay
  /\ UNCHANGED <<wanted, signal, coalescer, preview, shown, early, ending>>

\* Mutant of GreetFails: the loop takes a failed handshake for the end.
GreetFailsForGood ==
  /\ loop = "greet"
  /\ conn' = "dead"
  /\ loop' = "done"
  /\ UNCHANGED <<wanted, signal, coalescer, preview, shown, early, delay, ending>>

\* The handshake or its answer fails; c.conn keeps the closed connection.
GreetFails ==
  /\ loop = "greet"
  /\ conn' = "dead"
  /\ loop' = "dial"
  /\ delay' = Longer(delay)
  /\ UNCHANGED <<wanted, signal, coalescer, preview, shown, early, ending>>

\* Once connected the loop waits for the context, whatever the connection does.
LoopEnds ==
  /\ ctx /\ loop \in {"dial", "wait"}
  /\ loop' = "done"
  /\ UNCHANGED <<wanted, signal, coalescer, preview, discord, delay, ending>>

\* Discord closes the connection.
Disconnect ==
  /\ Writable
  /\ conn' = "dead"
  /\ shown' = Nil
  /\ UNCHANGED <<wanted, signal, coalescer, preview, early, dialing, ending>>

-----------------------------------------------------------------------------
\* The auto-exit, or a server that cannot start.
CancelContext ==
  /\ ~ctx /\ main = "live"
  /\ ctx' = TRUE
  /\ UNCHANGED <<wanted, signal, coalescer, preview, discord, dialing, run, main, straggled>>

\* Mutant of Shutdown: the debounce timer runs on.
ShutdownFlushOnly ==
  pending' = Nil /\ booked' = FALSE /\ UNCHANGED <<due, callback, lastSent>>

(* Coalescer.Shutdown, by Run when the context ends and by main, empties   *)
(* the slot and stops the timers.  A callback under way is not waited for. *)
Shutdown == pending' = Nil /\ due' = FALSE /\ booked' = FALSE /\ UNCHANGED <<callback, lastSent>>

RunEnds ==
  /\ run /\ ctx
  /\ run' = FALSE
  /\ Shutdown
  /\ UNCHANGED <<wanted, signal, preview, discord, dialing, ctx, main, straggled>>

\* main is woken by a signal or by the end of the context.
HaltCoalescer ==
  /\ main = "live"
  /\ main' = "clear"
  /\ Shutdown
  /\ straggled' = (callback # Nil)
  /\ UNCHANGED <<wanted, signal, preview, discord, dialing, ctx, run>>

ClearActivity ==
  /\ main = "clear"
  /\ main' = "close"
  /\ Frame(Nil)
  /\ UNCHANGED <<wanted, signal, coalescer, preview, dialing, ctx, run, straggled>>

\* Close, cancel, and main returns: every goroutine ends with it.
CloseClient ==
  /\ main = "close"
  /\ main' = "gone"
  /\ ctx' = TRUE
  /\ conn' = IF Writable THEN "dead" ELSE conn
  /\ shown' = Nil
  /\ UNCHANGED <<wanted, signal, coalescer, preview, early, dialing, run, straggled>>

-----------------------------------------------------------------------------
Init ==
  /\ wanted = Nil /\ signal = FALSE
  /\ due = FALSE /\ booked = FALSE /\ callback = Nil
  /\ pending = Nil /\ lastSent = Nil
  /\ requests = [p \in Previews |-> "new"] /\ timer = [p \in Previews |-> "none"]
  /\ previewState = Nil /\ overtaken = FALSE
  /\ conn = "none" /\ loop = "dial" /\ delay = MinDelay
  /\ ctx = FALSE /\ run = TRUE /\ main = "live" /\ straggled = FALSE
  /\ shown = Nil /\ early = FALSE

Run == OnSignal \/ RunEnds
Call == DebounceFires \/ FlushFires \/ Resolve \/ Enqueue \/ SwapPending \/ SendPending

Preview(p) ==
  \/ PostPreview(p) \/ ShowPreview(p)
  \/ PreviewExpires(p) \/ ResetPreview(p) \/ EndPreview(p)

Loop == DialFails \/ Dial \/ Greet \/ GreetFails \/ LoopEnds
Main == HaltCoalescer \/ ClearActivity \/ CloseClient

Next ==
  /\ main # "gone"
  /\ \/ RegistryChange \/ Run \/ Call
     \/ \E p \in Previews : Preview(p)
     \/ Loop \/ Disconnect
     \/ CancelContext \/ Main

Spec == Init /\ [][Next]_vars

\* Goroutines run and timers fire.  Discord is there and answers: it does not
\* happen for ever that a handshake fails or a frame comes before it.
FairSpec ==
  /\ Spec
  /\ WF_vars(main # "gone" /\ Dial) /\ SF_vars(main # "gone" /\ Greet)
  /\ WF_vars(main # "gone" /\ GreetFails)

-----------------------------------------------------------------------------
\* Each part is in its range; the backoff keeps to its limits.
PipelineTypeOK ==
  /\ wanted \in Activities \cup {Nil} /\ signal \in BOOLEAN
  /\ due \in BOOLEAN /\ booked \in BOOLEAN
  /\ callback \in Callback \cup {Nil}
  /\ pending \in Activities \cup {Nil} /\ lastSent \in Activities \cup {Nil}
  /\ requests \in [Previews -> {"new", "sending", "done"}]
  /\ timer \in [Previews -> {"none", "runs", "ending", "reset", "over"}]
  /\ previewState \in Previews \cup {Nil}
  /\ conn \in {"none", "fresh", "up", "dead"} /\ loop \in {"dial", "greet", "wait", "done"}
  /\ delay \in MinDelay .. MaxDelay
  /\ ctx \in BOOLEAN /\ run \in BOOLEAN /\ straggled \in BOOLEAN
  /\ main \in {"live", "clear", "close", "gone"}
  /\ shown \in Activities \cup Previews \cup {Nil}
  /\ early \in BOOLEAN /\ overtaken \in BOOLEAN

\* "Posting a new preview cancels any existing preview timer" (server.go:1159):
\* a timer that runs is that of the preview the server knows of, so that the
\* next request can stop it.  Up to the first preview that comes while another
\* one's callback waits for the lock: that callback resets the newer one's state.
TimerIsKnown ==
  ~overtaken => \A p \in Previews : timer[p] = "runs" => previewState = p

\* What Discord shows is what the hash gate compares with, or a preview: nobody
\* else's writing, no failed one and no lost connection makes the gate hold back
\* what cannot be seen (coalescer.go:215-218).  Up to a frame that was written
\* before the handshake, which succeeds for the client and is dropped.
GateKnowsShown ==
  (conn = "up" /\ ~early /\ main # "close") => shown \in {lastSent} \cup Previews

\* No pulse, timer, callback or request is left to act.
Quiet ==
  /\ ~signal /\ ~due /\ ~booked /\ callback = Nil
  /\ \A p \in Previews : requests[p] # "sending" /\ timer[p] \in {"none", "over"}

\* A preview that is over gives way to the presence, whatever was sent, skipped
\* or lost in the meantime: when all is quiet it is only still displayed if there
\* is no session, or the gate takes the presence for the one displayed.
PreviewGivesWay ==
  (Quiet /\ run /\ main = "live" /\ shown \in Previews) => wanted \in {Nil, lastSent}

\* "so no new SetActivity from the Coalescer can race with the clear"
\* (coalescer.go:249-250): after the clearing frame Discord shows nothing, unless
\* a callback was under way at Shutdown, Run took a pulse after it, or a preview
\* was sent after it.
ClearIsLast == (main = "close" /\ ~straggled) => shown = Nil

\* While Discord is there, the loop connects in the end: no failed attempt, and
\* no frame that comes before the handshake, stops it (main.go:483-510).
DiscordIsFound == <>(loop = "wait" \/ ctx)

\* "connectionLoop in main.go will detect disconnect and reconnect"
\* (coalescer.go:209-211).
Reconnects == (conn = "dead") ~> (conn = "up" \/ ctx \/ main # "live")
=============================================================================
