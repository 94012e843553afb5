----------------------- MODULE PresencePipelineProofs -----------------------
(***************************************************************************)
(* For every set of activities, every number of previews and every backoff *)
(* delay: what the connection loop, the coalescer, the preview timers and  *)
(* the shutdown sequence may rely on about each other.                     *)
(***************************************************************************)
EXTENDS PresencePipeline, TLAPS

\* As long as none was overtaken, no timer runs beside one that is ending.
TimersExclude ==
  ~overtaken => \A p, q \in Previews : timer[p] = "ending" => timer[q] # "runs"

\* Discord shows nothing of a client that is not connected, and the loop, which
\* never dials again, connects it once.
ShownWhenUp ==
  /\ conn # "up" => shown = Nil
  /\ conn = "fresh" => loop = "greet"
  /\ conn = "up" => loop \in {"wait", "done"}

\* Before it has connected, the gate knows of nothing, unless of an early frame.
NothingSentYet == (~early /\ loop \in {"dial", "greet"}) => lastSent = Nil

\* A preview that is about to be shown has a timer, or was replaced by one that has.
SendingHasTimer ==
  (\E p \in Previews : requests[p] = "sending") => \E p \in Previews : timer[p] = "runs"

\* A flush is booked or under way, never both, and finds the slot full, until
\* Shutdown.
FlushHasWork ==
  /\ At("swap") => ~booked
  /\ (run /\ main = "live") => (booked \/ At("swap") => pending # Nil)

\* After Shutdown nothing of the coalescer is left, without stragglers.
HaltedIsIdle == (Halted /\ ~straggled) => ~due /\ ~booked /\ callback = Nil

PipelineInv ==
  /\ PipelineTypeOK
  /\ TimerIsKnown /\ TimersExclude
  /\ ShownWhenUp /\ NothingSentYet /\ GateKnowsShown
  /\ SendingHasTimer /\ FlushHasWork /\ PreviewGivesWay
  /\ HaltedIsIdle /\ ClearIsLast

Others == RegistryChange \/ Run \/ Call \/ Loop \/ Disconnect \/ CancelContext \/ Main

-----------------------------------------------------------------------------
\* What a step of Next is.
LEMMA StepsOfNext ==
  ASSUME [Next]_vars
  PROVE  Others \/ UNCHANGED vars \/ \E p \in Previews : Preview(p)
BY DEF Next, Others

\* What a frame does: it reaches Discord on a connection that is up, and ends one
\* that is fresh.
LEMMA FrameEffect ==
  ASSUME PipelineTypeOK, ShownWhenUp, NEW a, Frame(a)
  PROVE  /\ conn' \in {"none", "up", "dead"} /\ (conn' = "up" <=> conn = "up")
         /\ shown' = IF conn = "up" THEN a ELSE Nil
         /\ early' \in BOOLEAN /\ (early' <=> early \/ conn = "fresh")
BY DEF PipelineTypeOK, ShownWhenUp, Frame

LEMMA CallbackFields ==
  ASSUME NEW c \in Callback
  PROVE  /\ c.at \in {"store", "send", "resolve", "swap"}
         /\ c.at \in {"store", "send"} => c.a \in Activities
BY DEF Callback

LEMMA CallbackMade ==
  /\ [at |-> "resolve", a |-> Nil] \in Callback /\ [at |-> "swap", a |-> Nil] \in Callback
  /\ \A a \in Activities : [at |-> "store", a |-> a] \in Callback
                           /\ [at |-> "send", a |-> a] \in Callback
  /\ Nil \notin Callback
BY PipelineAssumption DEF Callback

LEMMA LongerInRange ==
  \A d \in MinDelay .. MaxDelay : Longer(d) \in MinDelay .. MaxDelay
BY PipelineAssumption DEF Longer

-----------------------------------------------------------------------------
(* The type invariant, by the groups of variables that are left unchanged  *)
(* together.                                                               *)
CoalescerTyped ==
  /\ due \in BOOLEAN /\ booked \in BOOLEAN
  /\ callback \in Callback \cup {Nil}
  /\ pending \in Activities \cup {Nil} /\ lastSent \in Activities \cup {Nil}

PreviewTyped ==
  /\ requests \in [Previews -> {"new", "sending", "done"}]
  /\ timer \in [Previews -> {"none", "runs", "ending", "reset", "over"}]
  /\ previewState \in Previews \cup {Nil} /\ overtaken \in BOOLEAN

DiscordTyped ==
  /\ conn \in {"none", "fresh", "up", "dead"}
  /\ shown \in Activities \cup Previews \cup {Nil} /\ early \in BOOLEAN

DialingTyped == loop \in {"dial", "greet", "wait", "done"} /\ delay \in MinDelay .. MaxDelay

EndingTyped ==
  /\ ctx \in BOOLEAN /\ run \in BOOLEAN /\ straggled \in BOOLEAN
  /\ main \in {"live", "clear", "close", "gone"}

SignalTyped == wanted \in Activities \cup {Nil} /\ signal \in BOOLEAN

Typed ==
  CoalescerTyped /\ PreviewTyped /\ DiscordTyped /\ DialingTyped /\ EndingTyped /\ SignalTyped

LEMMA TypeSplits == PipelineTypeOK <=> Typed
BY DEF PipelineTypeOK, Typed, CoalescerTyped, PreviewTyped, DiscordTyped, DialingTyped,
       EndingTyped, SignalTyped

LEMMA TypedUndisturbed ==
  /\ CoalescerTyped /\ UNCHANGED coalescer => CoalescerTyped'
  /\ PreviewTyped /\ UNCHANGED preview => PreviewTyped'
  /\ DiscordTyped /\ UNCHANGED discord => DiscordTyped'
  /\ DialingTyped /\ UNCHANGED dialing => DialingTyped'
  /\ EndingTyped /\ UNCHANGED ending => EndingTyped'
  /\ SignalTyped /\ UNCHANGED <<wanted, signal>> => SignalTyped'
<1>1. CoalescerTyped /\ UNCHANGED coalescer => CoalescerTyped'
  BY DEF CoalescerTyped, coalescer
<1>2. PreviewTyped /\ UNCHANGED preview => PreviewTyped'
  BY DEF PreviewTyped, preview
<1>3. DiscordTyped /\ UNCHANGED discord => DiscordTyped'
  BY DEF DiscordTyped, discord
<1>4. DialingTyped /\ UNCHANGED dialing => DialingTyped'
  BY DEF DialingTyped, dialing
<1>5. EndingTyped /\ UNCHANGED ending => EndingTyped'
  BY DEF EndingTyped, ending
<1>6. SignalTyped /\ UNCHANGED <<wanted, signal>> => SignalTyped'
  BY DEF SignalTyped
<1>7. QED BY <1>1, <1>2, <1>3, <1>4, <1>5, <1>6

\* A frame leaves the connection in range.
LEMMA FrameTyped ==
  ASSUME PipelineTypeOK, ShownWhenUp, NEW a \in Activities \cup Previews \cup {Nil}, Frame(a)
  PROVE  DiscordTyped'
BY FrameEffect DEF DiscordTyped

\* The steps of the connection loop, of the shutdown and of Discord keep to the ranges.
LEMMA OthersTyped ==
  ASSUME PipelineTypeOK, ShownWhenUp, Others
  PROVE  Typed'
<1>0. Typed
  BY TypeSplits
<1> USE TypedUndisturbed DEF Typed
<1>1. CASE RegistryChange
  <2>1. SignalTyped'
    BY <1>1 DEF RegistryChange, SignalTyped
  <2>2. QED BY <1>0, <1>1, <2>1 DEF RegistryChange
<1>2. CASE OnSignal
  <2>1. UNCHANGED <<preview, discord, dialing>> /\ SignalTyped' /\ CoalescerTyped'
    BY <1>0, <1>2 DEF OnSignal, SignalTyped, CoalescerTyped
  <2>2. straggled' \in BOOLEAN
    BY <1>2 DEF OnSignal
  <2>3. EndingTyped'
    BY <1>0, <1>2, <2>2 DEF OnSignal, EndingTyped
  <2>4. QED BY <1>0, <2>1, <2>3
<1>3. CASE RunEnds \/ HaltCoalescer
  <2>1. UNCHANGED <<wanted, signal, preview, discord, dialing>>
    BY <1>3 DEF RunEnds, HaltCoalescer
  <2>2. CoalescerTyped'
    BY <1>0, <1>3 DEF RunEnds, HaltCoalescer, Shutdown, CoalescerTyped
  <2>3. straggled' \in BOOLEAN
    BY <1>0, <1>3 DEF RunEnds, HaltCoalescer, EndingTyped
  <2>4. EndingTyped'
    BY <1>0, <1>3, <2>3 DEF RunEnds, HaltCoalescer, EndingTyped
  <2>5. QED BY <1>0, <2>1, <2>2, <2>4
<1>4. CASE DebounceFires \/ FlushFires \/ Resolve \/ Enqueue \/ SwapPending
  <2>1. UNCHANGED <<wanted, signal, preview, discord, dialing, ending>>
    BY <1>4 DEF DebounceFires, FlushFires, Resolve, Enqueue, SwapPending
  <2>2. callback' \in Callback \cup {Nil} /\ pending' \in Activities \cup {Nil}
    BY <1>0, <1>4, CallbackMade, CallbackFields
       DEF DebounceFires, FlushFires, Resolve, Enqueue, SwapPending, At, CoalescerTyped, SignalTyped
  <2>3. due' \in BOOLEAN /\ booked' \in BOOLEAN /\ lastSent' = lastSent
    BY <1>0, <1>4 DEF DebounceFires, FlushFires, Resolve, Enqueue, SwapPending, CoalescerTyped
  <2>4. CoalescerTyped'
    BY <1>0, <2>2, <2>3 DEF CoalescerTyped
  <2>5. QED BY <1>0, <2>1, <2>4
<1>5. CASE SendPending
  <2>1. callback.a \in Activities
    BY <1>0, <1>5, CallbackFields DEF SendPending, At, CoalescerTyped
  <2>2. DiscordTyped'
    BY <1>5, <2>1, FrameTyped DEF SendPending
  <2>3. CoalescerTyped'
    BY <1>0, <1>5, <2>1 DEF SendPending, CoalescerTyped
  <2>4. QED BY <1>0, <1>5, <2>2, <2>3 DEF SendPending
<1>6. CASE Loop
  <2>1. UNCHANGED <<wanted, signal, coalescer, preview, ending, shown, early>>
    BY <1>6 DEF Loop, DialFails, Dial, Greet, GreetFails, LoopEnds, discord
  <2>2. conn' \in {"none", "fresh", "up", "dead"} /\ DialingTyped'
    BY <1>0, <1>6, LongerInRange, PipelineAssumption
       DEF Loop, DialFails, Dial, Greet, GreetFails, LoopEnds, discord, DialingTyped, DiscordTyped
  <2>3. QED BY <1>0, <2>1, <2>2 DEF DiscordTyped
<1>7. CASE Disconnect
  <2>1. DiscordTyped'
    BY <1>0, <1>7 DEF Disconnect, DiscordTyped
  <2>2. QED BY <1>0, <1>7, <2>1 DEF Disconnect
<1>8. CASE CancelContext
  <2>1. EndingTyped'
    BY <1>0, <1>8 DEF CancelContext, EndingTyped
  <2>2. QED BY <1>0, <1>8, <2>1 DEF CancelContext
<1>9. CASE ClearActivity
  <2>1. DiscordTyped'
    BY <1>9, FrameTyped DEF ClearActivity
  <2>2. EndingTyped'
    BY <1>0, <1>9 DEF ClearActivity, EndingTyped
  <2>3. QED BY <1>0, <1>9, <2>1, <2>2 DEF ClearActivity
<1>10. CASE CloseClient
  <2>1. DiscordTyped' /\ EndingTyped'
    BY <1>0, <1>10 DEF CloseClient, DiscordTyped, EndingTyped
  <2>2. QED BY <1>0, <1>10, <2>1 DEF CloseClient
<1>11. QED BY <1>1, <1>2, <1>3, <1>4, <1>5, <1>6, <1>7, <1>8, <1>9, <1>10
           DEF Others, Run, Call, Main

\* So do those of a preview.
LEMMA PreviewStepTyped ==
  ASSUME PipelineTypeOK, ShownWhenUp, NEW p \in Previews, Preview(p)
  PROVE  Typed'
<1>0. Typed
  BY TypeSplits
<1> USE TypedUndisturbed DEF Typed
<1>1. CASE PostPreview(p)
  <2>1. overtaken' \in BOOLEAN
    BY <1>1 DEF PostPreview
  <2>2. timer' \in [Previews -> {"none", "runs", "ending", "reset", "over"}]
    BY <1>0, <1>1 DEF PostPreview, PreviewTyped
  <2>3. PreviewTyped'
    BY <1>0, <1>1, <2>1, <2>2 DEF PostPreview, PreviewTyped
  <2>4. QED BY <1>0, <1>1, <2>3 DEF PostPreview
<1>2. CASE ShowPreview(p)
  <2>1. straggled' \in BOOLEAN
    BY <1>2 DEF ShowPreview
  <2>2. EndingTyped'
    BY <1>0, <1>2, <2>1 DEF ShowPreview, EndingTyped
  <2>3. PreviewTyped'
    BY <1>0, <1>2 DEF ShowPreview, PreviewTyped
  <2>4. DiscordTyped'
    BY <1>2, FrameTyped DEF ShowPreview
  <2>5. QED BY <1>0, <1>2, <2>2, <2>3, <2>4 DEF ShowPreview
<1>3. CASE PreviewExpires(p) \/ ResetPreview(p) \/ EndPreview(p)
  <2>1. PreviewTyped'
    BY <1>0, <1>3 DEF PreviewExpires, ResetPreview, EndPreview, PreviewTyped
  <2>2. SignalTyped'
    BY <1>0, <1>3 DEF PreviewExpires, ResetPreview, EndPreview, SignalTyped
  <2>3. QED BY <1>0, <1>3, <2>1, <2>2 DEF PreviewExpires, ResetPreview, EndPreview
<1>4. QED BY <1>1, <1>2, <1>3 DEF Preview

LEMMA TypeStep ==
  ASSUME PipelineTypeOK, ShownWhenUp, [Next]_vars
  PROVE  PipelineTypeOK'
<1>1. CASE UNCHANGED vars
  BY <1>1 DEF PipelineTypeOK, vars, coalescer, preview, discord, dialing, ending
<1>2. Typed' => PipelineTypeOK'
  BY TypeSplits, PTL
<1>3. QED BY <1>1, <1>2, StepsOfNext, OthersTyped, PreviewStepTyped

-----------------------------------------------------------------------------
\* Only a request and its timer touch what the server knows of previews.
LEMMA PreviewUntouched ==
  ASSUME Others \/ UNCHANGED vars
  PROVE  UNCHANGED preview
<1>1. CASE RegistryChange \/ Disconnect \/ CancelContext \/ UNCHANGED vars
  BY <1>1 DEF RegistryChange, Disconnect, CancelContext, vars
<1>2. CASE Run \/ Call
  BY <1>2 DEF Run, Call, OnSignal, RunEnds, DebounceFires, FlushFires, Resolve, Enqueue,
              SwapPending, SendPending
<1>3. CASE Loop \/ Main
  BY <1>3 DEF Loop, DialFails, Dial, Greet, GreetFails, LoopEnds, Main, HaltCoalescer,
              ClearActivity, CloseClient
<1>4. QED BY <1>1, <1>2, <1>3 DEF Others

PreviewInv == TimerIsKnown /\ TimersExclude /\ SendingHasTimer

\* A preview stops the timer of the one before, unless that is ending already, and
\* none ends before the requests have shown theirs.
LEMMA PreviewsKeep ==
  ASSUME PipelineTypeOK, PreviewInv, [Next]_vars
  PROVE  PreviewInv'
<1> USE DEF PreviewInv
<1>1. CASE UNCHANGED preview
  BY <1>1 DEF preview, TimerIsKnown, TimersExclude, SendingHasTimer
<1>2. ASSUME NEW p \in Previews, Preview(p)
      PROVE  PreviewInv'
  <2>0. /\ timer \in [Previews -> {"none", "runs", "ending", "reset", "over"}]
        /\ requests \in [Previews -> {"new", "sending", "done"}]
    BY DEF PipelineTypeOK
  <2>1. CASE PostPreview(p)
    <3>1. timer'[p] = "runs" /\ previewState' = p
      BY <2>1 DEF PostPreview
    <3>2. \A q \in Previews \ {p} :
            timer'[q] = IF q = previewState /\ timer[q] = "runs" THEN "over" ELSE timer[q]
      BY <2>1 DEF PostPreview
    <3>3. ~overtaken' => ~overtaken /\ \A q \in Previews : timer[q] # "ending"
      BY <2>1 DEF PostPreview
    <3>4. ~overtaken' => \A q \in Previews \ {p} : timer'[q] \notin {"runs", "ending"}
      BY <3>2, <3>3 DEF TimerIsKnown
    <3>5. QED BY <3>1, <3>4 DEF TimerIsKnown, TimersExclude, SendingHasTimer
  <2>2. CASE ShowPreview(p)
    <3>1. UNCHANGED <<timer, previewState, overtaken>>
      BY <2>2 DEF ShowPreview
    <3>2. \A q \in Previews : requests'[q] = "sending" => requests[q] = "sending"
      BY <2>0, <2>2 DEF ShowPreview
    <3>3. QED BY <3>1, <3>2 DEF TimerIsKnown, TimersExclude, SendingHasTimer
  <2>3. CASE PreviewExpires(p)
    <3>1. /\ timer[p] = "runs" /\ \A q \in Previews : requests[q] # "sending"
          /\ UNCHANGED <<requests, previewState, overtaken>>
      BY <2>3 DEF PreviewExpires
    <3>2. \A q \in Previews : timer'[q] = IF q = p THEN "ending" ELSE timer[q]
      BY <2>0, <2>3 DEF PreviewExpires
    <3>3. ~overtaken => \A q \in Previews : timer'[q] # "runs"
      BY <3>1, <3>2 DEF TimerIsKnown
    <3>4. QED BY <3>1, <3>3 DEF TimerIsKnown, TimersExclude, SendingHasTimer
  <2>4. CASE ResetPreview(p)
    <3>1. timer[p] = "ending" /\ UNCHANGED <<requests, overtaken>>
      BY <2>4 DEF ResetPreview
    <3>2. \A q \in Previews : timer'[q] = IF q = p THEN "reset" ELSE timer[q]
      BY <2>0, <2>4 DEF ResetPreview
    <3>3. ~overtaken => \A q \in Previews : timer'[q] # "runs"
      BY <3>1, <3>2 DEF TimersExclude
    <3>4. SendingHasTimer'
      BY <3>1, <3>2 DEF SendingHasTimer
    <3>5. QED BY <3>1, <3>3, <3>4 DEF TimerIsKnown, TimersExclude
  <2>5. CASE EndPreview(p)
    <3>1. timer[p] = "reset" /\ UNCHANGED <<requests, previewState, overtaken>>
      BY <2>5 DEF EndPreview
    <3>2. \A q \in Previews : timer'[q] = IF q = p THEN "over" ELSE timer[q]
      BY <2>0, <2>5 DEF EndPreview
    <3>3. QED BY <3>1, <3>2 DEF TimerIsKnown, TimersExclude, SendingHasTimer
  <2>6. QED BY <1>2, <2>1, <2>2, <2>3, <2>4, <2>5 DEF Preview
<1>3. QED BY <1>1, <1>2, StepsOfNext, PreviewUntouched

-----------------------------------------------------------------------------
Writers == SendPending \/ ClearActivity \/ \E p \in Previews : ShowPreview(p)

\* The connection is left alone but by frames, by the loop, by Discord and at the end.
LEMMA ConnUntouched ==
  ASSUME [Next]_vars, ~Writers, ~Loop, ~Disconnect, ~CloseClient
  PROVE  UNCHANGED <<discord, dialing, lastSent>> /\ (main' = "close" <=> main = "close")
<1>1. CASE RegistryChange \/ CancelContext \/ UNCHANGED vars
  BY <1>1 DEF RegistryChange, CancelContext, vars, coalescer, ending
<1>2. CASE Run
  BY <1>2 DEF Run, OnSignal, RunEnds, Shutdown
<1>3. CASE Call
  BY <1>3 DEF Call, Writers, DebounceFires, FlushFires, Resolve, Enqueue, SwapPending, ending
<1>4. CASE Main
  BY <1>4 DEF Main, Writers, HaltCoalescer, Shutdown
<1>5. CASE \E p \in Previews : Preview(p)
  BY <1>5 DEF Preview, Writers, PostPreview, PreviewExpires, ResetPreview, EndPreview,
              coalescer, ending
<1>6. QED BY <1>1, <1>2, <1>3, <1>4, <1>5, StepsOfNext DEF Others

ConnInv == ShownWhenUp /\ NothingSentYet /\ GateKnowsShown

\* Whoever writes, and whatever becomes of the connection, the gate knows of it.
LEMMA ConnKeeps ==
  ASSUME PipelineTypeOK, ConnInv, [Next]_vars
  PROVE  ConnInv'
<1> USE DEF ConnInv
<1>1. CASE ~Writers /\ ~Loop /\ ~Disconnect /\ ~CloseClient
  BY <1>1, ConnUntouched DEF discord, dialing, ShownWhenUp, NothingSentYet, GateKnowsShown
<1>2. ASSUME NEW a \in Activities \cup Previews \cup {Nil}, Frame(a), loop' = loop,
             \/ lastSent' = (IF Writable THEN a ELSE lastSent)
             \/ lastSent' = lastSent /\ (a \in Previews \/ main' = "close")
      PROVE  ConnInv'
  <2>1. /\ conn' \in {"none", "up", "dead"} /\ (conn' = "up" <=> conn = "up")
        /\ shown' = IF conn = "up" THEN a ELSE Nil
        /\ ~early' => ~early /\ conn # "fresh"
    BY <1>2, FrameEffect
  <2>2. ShownWhenUp'
    BY <1>2, <2>1 DEF ShownWhenUp
  <2>3. NothingSentYet'
    BY <1>2, <2>1 DEF NothingSentYet, ShownWhenUp, Writable
  <2>4. GateKnowsShown'
    BY <1>2, <2>1 DEF GateKnowsShown, Writable
  <2>5. QED BY <2>2, <2>3, <2>4
<1>3. CASE SendPending
  <2>1. callback.a \in Activities
    BY <1>3, CallbackFields DEF SendPending, At, PipelineTypeOK
  <2>2. QED BY <1>2, <1>3, <2>1 DEF SendPending, dialing
<1>4. CASE ClearActivity
  <2>1. Frame(Nil) /\ loop' = loop /\ lastSent' = lastSent /\ main' = "close"
    BY <1>4 DEF ClearActivity, dialing, coalescer
  <2>2. QED BY <1>2, <2>1
<1>5. ASSUME NEW p \in Previews, ShowPreview(p)
      PROVE  ConnInv'
  <2>1. Frame(p) /\ loop' = loop /\ lastSent' = lastSent
    BY <1>5 DEF ShowPreview, dialing, coalescer
  <2>2. QED BY <1>2, <2>1
<1>6. CASE Loop
  <2>1. UNCHANGED <<lastSent, shown, early, main>>
    BY <1>6 DEF Loop, DialFails, Dial, Greet, GreetFails, LoopEnds, coalescer, discord, ending
  <2>2. ShownWhenUp' /\ NothingSentYet'
    BY <1>6, <2>1 DEF Loop, DialFails, Dial, Greet, GreetFails, LoopEnds, discord, PipelineTypeOK,
                      ShownWhenUp, NothingSentYet
  <2>3. GateKnowsShown'
    BY <1>6, <2>1 DEF Loop, DialFails, Dial, Greet, GreetFails, LoopEnds, discord,
                      ShownWhenUp, NothingSentYet, GateKnowsShown
  <2>4. QED BY <2>2, <2>3
<1>7. CASE Disconnect \/ CloseClient
  <2>1. conn' # "up" /\ conn' # "fresh" /\ shown' = Nil /\ UNCHANGED <<lastSent, early, loop>>
    BY <1>7 DEF Disconnect, CloseClient, Writable, coalescer, dialing
  <2>2. QED BY <2>1 DEF ShownWhenUp, NothingSentYet, GateKnowsShown
<1>8. QED BY <1>1, <1>3, <1>4, <1>5, <1>6, <1>7 DEF Writers

-----------------------------------------------------------------------------
\* A flush finds its update in the slot as long as nobody has called Shutdown.
LEMMA FlushKeepsWork ==
  ASSUME PipelineTypeOK, FlushHasWork, [Next]_vars
  PROVE  FlushHasWork'
<1> USE DEF FlushHasWork
<1>1. CASE RegistryChange \/ Disconnect \/ CancelContext \/ UNCHANGED vars
  BY <1>1 DEF RegistryChange, Disconnect, CancelContext, vars, coalescer, ending, At
<1>2. CASE Loop
  BY <1>2 DEF Loop, DialFails, Dial, Greet, GreetFails, LoopEnds, coalescer, ending, At
<1>3. CASE Main \/ RunEnds
  BY <1>3 DEF Main, HaltCoalescer, ClearActivity, CloseClient, RunEnds, Shutdown, coalescer, At
<1>4. CASE OnSignal
  BY <1>4 DEF OnSignal, At
<1>5. CASE Enqueue
  <2>1. pending' # Nil
    BY <1>5, CallbackFields, PipelineAssumption DEF Enqueue, At, PipelineTypeOK
  <2>2. At("swap")' => ~booked'
    BY <1>5 DEF Enqueue, At
  <2>3. QED BY <2>1, <2>2
<1>6. CASE DebounceFires \/ Resolve \/ SwapPending \/ SendPending
  <2>1. ~At("swap")' /\ UNCHANGED <<booked, run, main>>
    BY <1>6 DEF DebounceFires, Resolve, SwapPending, SendPending, ending, At
  <2>2. booked => pending' = pending
    BY <1>6 DEF DebounceFires, Resolve, SwapPending, SendPending
  <2>3. QED BY <2>1, <2>2
<1>7. CASE FlushFires
  BY <1>7 DEF FlushFires, ending
<1>8. ASSUME NEW p \in Previews, Preview(p)
      PROVE  FlushHasWork'
  BY <1>8 DEF Preview, PostPreview, ShowPreview, PreviewExpires, ResetPreview, EndPreview,
              coalescer, ending, At
<1>9. QED BY <1>1, <1>2, <1>3, <1>4, <1>5, <1>6, <1>7, <1>8, StepsOfNext
          DEF Others, Run, Call

\* A preview is followed by the presence: what ends its display, the timer, the
\* pulse, the debounce, the callback or the booked flush, is always on its way.
LEMMA PreviewGivesWayStep ==
  ASSUME PipelineTypeOK, ShownWhenUp, SendingHasTimer, FlushHasWork, PreviewGivesWay,
         [Next]_vars
  PROVE  PreviewGivesWay'
<1>0. SUFFICES ASSUME Quiet', run', main' = "live", shown' \in Previews
               PROVE  (wanted \in {Nil, lastSent})'
  BY DEF PreviewGivesWay
<1>1. timer \in [Previews -> {"none", "runs", "ending", "reset", "over"}]
  BY DEF PipelineTypeOK
<1>2. CASE RegistryChange \/ OnSignal \/ DebounceFires \/ FlushFires
  BY <1>0, <1>2, CallbackMade DEF RegistryChange, OnSignal, DebounceFires, FlushFires, Quiet
<1>3. CASE RunEnds \/ Main \/ Disconnect
  BY <1>0, <1>3, PipelineAssumption
     DEF RunEnds, Main, HaltCoalescer, ClearActivity, CloseClient, Disconnect
<1>4. CASE Resolve
  BY <1>0, <1>4, CallbackMade DEF Resolve, Quiet, PipelineTypeOK
<1>5. CASE Enqueue
  BY <1>0, <1>5, CallbackMade DEF Enqueue, Quiet
<1>6. CASE SwapPending
  <2>1. pending # Nil
    BY <1>0, <1>6 DEF SwapPending, FlushHasWork, ending
  <2>2. QED BY <1>0, <1>6, <2>1, CallbackMade DEF SwapPending, Quiet, PipelineTypeOK
<1>7. CASE SendPending
  <2>1. callback.a \in Activities
    BY <1>7, CallbackFields DEF SendPending, At, PipelineTypeOK
  <2>2. shown' \in Activities \cup {Nil}
    BY <1>7, <2>1, FrameEffect DEF SendPending
  <2>3. QED BY <1>0, <2>2, PipelineAssumption
<1>8. CASE Loop \/ CancelContext \/ UNCHANGED vars
  <2>1. UNCHANGED <<wanted, signal, coalescer, preview, run, main, shown>>
    BY <1>8 DEF Loop, DialFails, Dial, Greet, GreetFails, LoopEnds, CancelContext, vars,
                discord, ending
  <2>2. Quiet
    BY <1>0, <2>1 DEF Quiet, coalescer, preview
  <2>3. QED BY <1>0, <2>1, <2>2 DEF PreviewGivesWay, coalescer
<1>9. ASSUME NEW p \in Previews, Preview(p)
      PROVE  (wanted \in {Nil, lastSent})'
  <2>1. CASE PostPreview(p)
    <3>1. timer'[p] = "runs"
      BY <2>1 DEF PostPreview
    <3>2. QED BY <1>0, <3>1 DEF Quiet
  <2>2. CASE ShowPreview(p)
    <3>1. \E q \in Previews : timer'[q] = "runs"
      BY <2>2 DEF ShowPreview, SendingHasTimer
    <3>2. QED BY <1>0, <3>1 DEF Quiet
  <2>3. CASE PreviewExpires(p)
    <3>1. timer'[p] = "ending"
      BY <1>1, <2>3 DEF PreviewExpires
    <3>2. QED BY <1>0, <3>1 DEF Quiet
  <2>4. CASE ResetPreview(p)
    <3>1. timer'[p] = "reset"
      BY <1>1, <2>4 DEF ResetPreview
    <3>2. QED BY <1>0, <3>1 DEF Quiet
  <2>5. CASE EndPreview(p)
    BY <1>0, <2>5 DEF EndPreview, Quiet
  <2>6. QED BY <1>9, <2>1, <2>2, <2>3, <2>4, <2>5 DEF Preview
<1>10. QED BY <1>2, <1>3, <1>4, <1>5, <1>6, <1>7, <1>8, <1>9, StepsOfNext
           DEF Others, Run, Call

-----------------------------------------------------------------------------
EndInv == HaltedIsIdle /\ ClearIsLast

\* After Shutdown, and without stragglers, nobody writes but main.
LEMMA EndKeeps ==
  ASSUME PipelineTypeOK, ShownWhenUp, EndInv, [Next]_vars
  PROVE  EndInv'
<1> USE DEF EndInv
<1>1. CASE RegistryChange \/ CancelContext \/ UNCHANGED vars
  BY <1>1 DEF RegistryChange, CancelContext, vars, coalescer, discord, ending, Halted,
              HaltedIsIdle, ClearIsLast
<1>2. CASE OnSignal
  <2>1. straggled' <=> straggled \/ Halted
    BY <1>2 DEF OnSignal, PipelineTypeOK
  <2>2. QED BY <1>2, <2>1 DEF OnSignal, discord, Halted, HaltedIsIdle, ClearIsLast
<1>3. CASE RunEnds
  BY <1>3 DEF RunEnds, Shutdown, discord, Halted, HaltedIsIdle, ClearIsLast
<1>4. CASE Call
  <2>1. UNCHANGED <<main, straggled>> /\ ~(Halted /\ ~straggled)
    BY <1>4 DEF Call, DebounceFires, FlushFires, Resolve, Enqueue, SwapPending, SendPending,
                ending, HaltedIsIdle, At
  <2>2. QED BY <2>1 DEF Halted, HaltedIsIdle, ClearIsLast
<1>5. CASE Loop \/ Disconnect
  <2>1. UNCHANGED <<coalescer, main, straggled>> /\ shown' \in {shown, Nil}
    BY <1>5 DEF Loop, DialFails, Dial, Greet, GreetFails, LoopEnds, Disconnect, discord, ending
  <2>2. QED BY <2>1 DEF coalescer, Halted, HaltedIsIdle, ClearIsLast
<1>6. CASE HaltCoalescer
  <2>1. straggled' <=> callback # Nil
    BY <1>6 DEF HaltCoalescer
  <2>2. QED BY <1>6, <2>1 DEF HaltCoalescer, Shutdown, Halted, HaltedIsIdle, ClearIsLast
<1>7. CASE ClearActivity
  <2>1. shown' = Nil
    BY <1>7, FrameEffect DEF ClearActivity
  <2>2. QED BY <1>7, <2>1 DEF ClearActivity, coalescer, Halted, HaltedIsIdle, ClearIsLast
<1>8. CASE CloseClient
  BY <1>8 DEF CloseClient, coalescer, Halted, HaltedIsIdle, ClearIsLast
<1>9. ASSUME NEW p \in Previews, Preview(p)
      PROVE  EndInv'
  <2>1. CASE ShowPreview(p)
    <3>1. straggled' <=> straggled \/ Halted
      BY <2>1 DEF ShowPreview, PipelineTypeOK
    <3>2. QED BY <2>1, <3>1 DEF ShowPreview, coalescer, Halted, HaltedIsIdle, ClearIsLast
  <2>2. CASE ~ShowPreview(p)
    BY <1>9, <2>2 DEF Preview, PostPreview, PreviewExpires, ResetPreview, EndPreview, coalescer,
                      discord, ending, Halted, HaltedIsIdle, ClearIsLast
  <2>3. QED BY <2>1, <2>2
<1>10. QED BY <1>1, <1>2, <1>3, <1>4, <1>5, <1>6, <1>7, <1>8, <1>9, StepsOfNext
           DEF Others, Run, Main

-----------------------------------------------------------------------------
LEMMA PipelineStart == Init => PipelineInv
<1> SUFFICES ASSUME Init PROVE PipelineInv
  OBVIOUS
<1>1. delay \in MinDelay .. MaxDelay
  BY PipelineAssumption DEF Init
<1>2. PipelineTypeOK
  BY <1>1 DEF Init, PipelineTypeOK
<1>3. \A p \in Previews : timer[p] = "none" /\ requests[p] = "new"
  BY DEF Init
<1>4. TimerIsKnown /\ TimersExclude /\ SendingHasTimer
  BY <1>3 DEF TimerIsKnown, TimersExclude, SendingHasTimer
<1>5. ShownWhenUp /\ NothingSentYet /\ GateKnowsShown /\ FlushHasWork /\ HaltedIsIdle
  BY DEF Init, ShownWhenUp, NothingSentYet, GateKnowsShown, FlushHasWork, At, HaltedIsIdle, Halted
<1>6. PreviewGivesWay /\ ClearIsLast
  BY DEF Init, PreviewGivesWay, ClearIsLast
<1>7. QED BY <1>2, <1>4, <1>5, <1>6 DEF PipelineInv

LEMMA PipelineStep == PipelineInv /\ [Next]_vars => PipelineInv'
BY TypeStep, PreviewsKeep, ConnKeeps, FlushKeepsWork, PreviewGivesWayStep, EndKeeps
   DEF PipelineInv, PreviewInv, ConnInv, EndInv

\* The invariant holds in every state the daemon can reach.
THEOREM PipelineInvariant == Spec => []PipelineInv
BY PipelineStart, PipelineStep, PTL DEF Spec

\* Every part is in its range, and the backoff keeps to its limits however often
\* connecting fails.
THEOREM PipelineTyped == Spec => []PipelineTypeOK
<1>1. PipelineInv => PipelineTypeOK
  BY DEF PipelineInv
<1>2. QED BY <1>1, PipelineInvariant, PTL

\* A preview's timer that runs is the one the next request stops, for any number
\* of previews.
THEOREM PipelineKnowsTimer == Spec => []TimerIsKnown
<1>1. PipelineInv => TimerIsKnown
  BY DEF PipelineInv
<1>2. QED BY <1>1, PipelineInvariant, PTL

\* The hash gate compares with what Discord shows, whoever else writes and
\* however often connecting fails.
THEOREM PipelineGateKnows == Spec => []GateKnowsShown
<1>1. PipelineInv => GateKnowsShown
  BY DEF PipelineInv
<1>2. QED BY <1>1, PipelineInvariant, PTL

\* No preview that is over stays displayed in place of the presence.
THEOREM PipelinePreviewGivesWay == Spec => []PreviewGivesWay
<1>1. PipelineInv => PreviewGivesWay
  BY DEF PipelineInv
<1>2. QED BY <1>1, PipelineInvariant, PTL

\* Nothing follows the clearing frame but what straggles.
THEOREM PipelineClearIsLast == Spec => []ClearIsLast
<1>1. PipelineInv => ClearIsLast
  BY DEF PipelineInv
<1>2. QED BY <1>1, PipelineInvariant, PTL
=============================================================================
