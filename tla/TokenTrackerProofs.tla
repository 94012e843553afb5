-------------------------- MODULE TokenTrackerProofs --------------------------
(***************************************************************************)
(* What an update does to the counts of a session, whatever hooks overlap: *)
(* a reset that is noticed loses nothing, and the sum drops exactly when   *)
(* one is missed.  As long as no hooks have overlapped, no count exceeds   *)
(* what was spent, and the registry has the counts in the end.             *)
(***************************************************************************)
EXTENDS TokenTracker, TLAPS

\* Each step, for the proofs that split on all of them.
WorkerStep(w) ==
  \/ ThrottleCheck(w) \/ ThrottleStore(w) \/ ReadUnthrottled(w)
  \/ ParseTranscript(w) \/ ParseFails(w) \/ UpdateTokens(w)
  \/ GetState(w) \/ UpdateAnalytics(w)

LEMMA StepsOfNext ==
  TrackerNext <=> \/ Append \/ Compact \/ TimePasses
                  \/ \E w \in Workers : WorkerStep(w)
BY Zenon DEF TrackerNext, Hook, Read, Sync, WorkerStep

-----------------------------------------------------------------------------
\* Breakdowns are added and compared kind by kind.
LEMMA Breakdowns ==
  /\ Zero \in Breakdown /\ \A kind \in Kinds : Zero[kind] = 0
  /\ Nil \notin Breakdown
  /\ \A entry \in Entry : OrZero(entry) \in Breakdown
  /\ \A a, b \in Breakdown :
       /\ EffectiveTotal(a, b) \in Breakdown
       /\ \A kind \in Kinds : EffectiveTotal(a, b)[kind] = a[kind] + b[kind]
  /\ {"Input", "Output"} \subseteq Kinds
<1>1. Zero \in Breakdown /\ \A kind \in Kinds : Zero[kind] = 0
  BY DEF Zero, Breakdown
<1>2. \A entry \in Entry : OrZero(entry) \in Breakdown
  BY <1>1 DEF OrZero, Entry
<1>3. ASSUME NEW a \in Breakdown, NEW b \in Breakdown
      PROVE  /\ EffectiveTotal(a, b) \in Breakdown
             /\ \A kind \in Kinds : EffectiveTotal(a, b)[kind] = a[kind] + b[kind]
  BY <1>3 DEF EffectiveTotal, Breakdown
<1> QED BY <1>1, <1>2, <1>3, TrackerAssumption DEF Kinds

\* The sum of the counts of a breakdown is positive unless all are zero.
LEMMA Sums ==
  ASSUME NEW b \in Breakdown
  PROVE  Total(b) \in Nat /\ (Total(b) > 0 <=> \E kind \in Kinds : b[kind] > 0)
<1>1. \A kind \in Kinds : b[kind] \in Nat
  BY DEF Breakdown
<1>2. Total(b) \in Nat /\ \A kind \in Kinds : Total(b) >= b[kind]
  BY <1>1 DEF Total, Kinds
<1>3. (\A kind \in Kinds : b[kind] = 0) => Total(b) = 0
  BY DEF Total, Kinds
<1> QED BY <1>1, <1>2, <1>3

\* A reset is noticed by the input count, and then everything stored is taken.
LEMMA Baselines ==
  ASSUME NEW stored \in Breakdown, NEW current \in Breakdown
  PROVE  ComputeBaseline(stored, current) =
           IF current["Input"] < stored["Input"] THEN stored ELSE Zero
<1>1. current["Input"] \in Nat /\ stored["Input"] \in Nat
  BY Breakdowns DEF Breakdown
<1> QED BY <1>1 DEF ComputeBaseline

\* A worker that goes on to a step carries well-typed figures.
LEMMA CarryTyped ==
  ASSUME TrackerTypeOK, NEW w \in Workers,
         NEW step \in Steps, NEW t \in Entry, NEW b \in Breakdown,
         step = "update" => t # Nil,
         Carry(w, step, t, b)
  PROVE  /\ workers' \in [Workers -> Worker \cup {Nil}] /\ overlap' \in BOOLEAN
         /\ \A u \in Workers : At(u, "update")' => workers'[u].tokens # Nil
<1> DEFINE new == [at |-> step, tokens |-> t, baseline |-> b]
<1>1. new \in Worker
  BY DEF Worker
<1>2. workers' = [workers EXCEPT ![w] = new]
  BY DEF Carry
<1>3. workers' \in [Workers -> Worker \cup {Nil}] /\ overlap' \in BOOLEAN
  BY <1>1, <1>2 DEF TrackerTypeOK, Carry
<1>4. ASSUME NEW u \in Workers, At(u, "update")'
      PROVE  workers'[u].tokens # Nil
  <2>1. CASE u = w
    BY <2>1, <1>2, <1>4 DEF At, TrackerTypeOK
  <2>2. CASE u # w
    BY <2>2, <1>2, <1>4 DEF At, TrackerTypeOK
  <2> QED BY <2>1, <2>2
<1> QED BY <1>3, <1>4

LEMMA ReturnTyped ==
  ASSUME TrackerTypeOK, NEW w \in Workers, Return(w)
  PROVE  /\ workers' \in [Workers -> Worker \cup {Nil}] /\ overlap' \in BOOLEAN
         /\ \A u \in Workers : At(u, "update")' => workers'[u].tokens # Nil
BY DEF TrackerTypeOK, Return, At

\* What a worker carries is typed.
LEMMA CarriedTyped ==
  ASSUME TrackerTypeOK, NEW w \in Workers, NEW step, At(w, step)
  PROVE  /\ workers[w].tokens \in Entry /\ workers[w].baseline \in Breakdown
         /\ step = "update" => workers[w].tokens \in Breakdown
BY DEF TrackerTypeOK, At, Worker, Entry

\* What an update does: if the input count has shrunk, what was stored joins the
\* baseline.
LEMMA UpdateEffect ==
  ASSUME TrackerTypeOK, NEW w \in Workers, UpdateTokens(w)
  PROVE  /\ workers[w].tokens \in Breakdown /\ tokens' = workers[w].tokens
         /\ baseline' = IF workers[w].tokens["Input"] < OrZero(tokens)["Input"]
                        THEN EffectiveTotal(baseline, OrZero(tokens)) ELSE baseline
<1> DEFINE read == workers[w].tokens
<1> DEFINE lost == IF tokens = Nil THEN Zero ELSE ComputeBaseline(tokens, read)
<1>1. read \in Breakdown /\ tokens' = read
  BY CarriedTyped DEF UpdateTokens
<1>2. baseline' = IF Total(lost) > 0 THEN EffectiveTotal(baseline, lost) ELSE baseline
  BY DEF UpdateTokens
<1>3. read["Input"] \in Nat /\ OrZero(tokens) \in Breakdown /\ OrZero(tokens)["Input"] \in Nat
  BY <1>1, Breakdowns DEF Breakdown, TrackerTypeOK
<1>4. lost = IF read["Input"] < OrZero(tokens)["Input"] THEN OrZero(tokens) ELSE Zero
  <2>1. CASE tokens = Nil
    BY <2>1, <1>3, Breakdowns DEF OrZero
  <2>2. CASE tokens # Nil
    BY <2>2, <1>1, <1>3, Baselines DEF OrZero
  <2> QED BY <2>1, <2>2
<1> HIDE DEF read, lost
<1>5. CASE read["Input"] < OrZero(tokens)["Input"]
  <2>1. Total(lost) > 0
    BY <1>3, <1>4, <1>5, Sums, Breakdowns
  <2> QED BY <2>1, <1>1, <1>2, <1>4, <1>5 DEF read
<1>6. CASE ~(read["Input"] < OrZero(tokens)["Input"])
  <2>1. ~(Total(lost) > 0)
    BY <1>4, <1>6, Sums, Breakdowns
  <2> QED BY <2>1, <1>1, <1>2, <1>6 DEF read
<1> QED BY <1>5, <1>6

\* The figures keep their types, and no update is made without an entry, for any
\* messages and any number of hooks that read at the same time.
THEOREM TrackerTyped == TrackerSpec => []TrackerTypeOK
<1>1. TrackerInit => TrackerTypeOK
  <2> SUFFICES ASSUME TrackerInit PROVE TrackerTypeOK
    OBVIOUS
  <2>1. workers \in [Workers -> Worker \cup {Nil}] /\ overlap \in BOOLEAN
    BY DEF TrackerInit
  <2>2. \A w \in Workers : ~At(w, "update")
    BY DEF TrackerInit, At
  <2>3. Within(OrZero(file), spent)
    BY Breakdowns DEF TrackerInit, Within, OrZero
  <2> QED BY <2>1, <2>2, <2>3, Breakdowns, TrackerAssumption DEF TrackerInit, TrackerTypeOK, Entry
<1>2. TrackerTypeOK /\ [TrackerNext]_trackerVars => TrackerTypeOK'
  <2> SUFFICES ASSUME TrackerTypeOK, [TrackerNext]_trackerVars
               PROVE  TrackerTypeOK'
    OBVIOUS
  <2> USE TrackerAssumption
  <2>1. CASE Append
    <3>1. PICK usage \in Usages : /\ spent' = EffectiveTotal(spent, usage)
                                  /\ file' = EffectiveTotal(OrZero(file), usage)
      BY <2>1 DEF Append
    <3>2. usage \in Breakdown /\ OrZero(file) \in Breakdown /\ spent \in Breakdown
      BY Breakdowns DEF TrackerTypeOK
    <3>3. file' \in Breakdown /\ spent' \in Breakdown /\ OrZero(file') = file'
      BY <3>1, <3>2, Breakdowns DEF OrZero
    <3>4. Within(OrZero(file'), spent')
      BY <3>1, <3>2, <3>3, Breakdowns DEF Within, TrackerTypeOK, Breakdown
    <3> QED BY <3>3, <3>4, <2>1 DEF Append, tracker, work, TrackerTypeOK, At, Entry
  <2>2. CASE Compact
    <3>1. file' \in Entry /\ OrZero(file') = Zero
      BY <2>2, Breakdowns DEF Compact, OrZero, Entry
    <3>2. Within(OrZero(file'), spent')
      BY <2>2, <3>1, Breakdowns DEF Compact, Within, TrackerTypeOK, Breakdown
    <3> QED BY <3>1, <3>2, <2>2 DEF Compact, tracker, work, TrackerTypeOK, At
  <2>3. CASE TimePasses
    BY <2>3 DEF TimePasses, Older, tracker, work, TrackerTypeOK, At
  <2>4. ASSUME NEW w \in Workers, ThrottleCheck(w)
        PROVE  TrackerTypeOK'
    <3>1. Carry(w, "store", Nil, Zero)
      BY <2>4 DEF ThrottleCheck, Goto
    <3> QED BY <3>1, <2>4, CarryTyped, Breakdowns
               DEF ThrottleCheck, tracker, TrackerTypeOK, Steps, Entry
  <2>5. ASSUME NEW w \in Workers, ThrottleStore(w)
        PROVE  TrackerTypeOK'
    <3>1. Carry(w, "parse", Nil, Zero)
      BY <2>5 DEF ThrottleStore, Goto
    <3>2. lastRead' \in 0 .. Throttle
      BY <2>5 DEF ThrottleStore
    <3> QED BY <3>1, <3>2, <2>5, CarryTyped, Breakdowns
               DEF ThrottleStore, tracker, TrackerTypeOK, Steps, Entry
  <2>6. ASSUME NEW w \in Workers, ReadUnthrottled(w)
        PROVE  TrackerTypeOK'
    <3>1. Carry(w, "parse", Nil, Zero)
      BY <2>6 DEF ReadUnthrottled, Goto
    <3> QED BY <3>1, <2>6, CarryTyped, Breakdowns
               DEF ReadUnthrottled, tracker, TrackerTypeOK, Steps, Entry
  <2>7. ASSUME NEW w \in Workers, ParseTranscript(w)
        PROVE  TrackerTypeOK'
    <3>1. CASE Carry(w, "state", Nil, Zero)
      BY <3>1, <2>7, CarryTyped, Breakdowns
         DEF ParseTranscript, tracker, TrackerTypeOK, Steps, Entry
    <3>2. CASE file # Nil /\ Carry(w, "update", file, Zero)
      BY <3>2, <2>7, CarryTyped, Breakdowns
         DEF ParseTranscript, tracker, TrackerTypeOK, Steps
    <3> QED BY <3>1, <3>2, <2>7 DEF ParseTranscript, Goto
  <2>8. ASSUME NEW w \in Workers, ParseFails(w)
        PROVE  TrackerTypeOK'
    <3>1. CASE Return(w)
      BY <3>1, <2>8, ReturnTyped DEF ParseFails, tracker, TrackerTypeOK
    <3>2. CASE Carry(w, "state", Nil, Zero)
      BY <3>2, <2>8, CarryTyped, Breakdowns DEF ParseFails, tracker, TrackerTypeOK, Steps, Entry
    <3> QED BY <3>1, <3>2, <2>8 DEF ParseFails, Goto
  <2>9. ASSUME NEW w \in Workers, UpdateTokens(w)
        PROVE  TrackerTypeOK'
    <3>1. Carry(w, "state", Nil, Zero)
      BY <2>9 DEF UpdateTokens, Goto
    <3>2. tokens' \in Entry /\ baseline' \in Breakdown
      BY <2>9, UpdateEffect, Breakdowns DEF TrackerTypeOK, Entry
    <3> QED BY <3>1, <3>2, <2>9, CarryTyped, Breakdowns
               DEF UpdateTokens, TrackerTypeOK, Steps, Entry
  <2>10. ASSUME NEW w \in Workers, GetState(w)
         PROVE  TrackerTypeOK'
    <3>1. Carry(w, "sync", tokens, baseline)
      BY <2>10 DEF GetState
    <3> QED BY <3>1, <2>10, CarryTyped DEF GetState, tracker, TrackerTypeOK, Steps
  <2>11. ASSUME NEW w \in Workers, UpdateAnalytics(w)
         PROVE  TrackerTypeOK'
    <3>1. Return(w)
      BY <2>11 DEF UpdateAnalytics
    <3>2. shown' \in [tokens : Entry, baseline : Breakdown]
      BY <2>11, CarriedTyped DEF UpdateAnalytics, TrackerTypeOK
    <3> QED BY <3>1, <3>2, <2>11, ReturnTyped DEF UpdateAnalytics, tracker, TrackerTypeOK
  <2>12. CASE UNCHANGED trackerVars
    BY <2>12 DEF trackerVars, tracker, work, TrackerTypeOK, At
  <2> QED
    BY <2>1, <2>2, <2>3, <2>4, <2>5, <2>6, <2>7, <2>8, <2>9, <2>10, <2>11, <2>12,
       StepsOfNext DEF WorkerStep
<1> QED BY <1>1, <1>2, PTL DEF TrackerSpec

-----------------------------------------------------------------------------
\* What an update does to the counts that are shown.
LEMMA UpdateOfEffective ==
  ASSUME TrackerTypeOK, NEW w \in Workers, UpdateTokens(w)
  PROVE  LET read == workers[w].tokens
             old  == OrZero(tokens)
         IN  /\ read \in Breakdown /\ old \in Breakdown
             /\ \A kind \in Kinds :
                  /\ Effective[kind] = old[kind] + baseline[kind]
                  /\ Effective'[kind] =
                       read[kind] + IF read["Input"] < old["Input"]
                                    THEN baseline[kind] + old[kind] ELSE baseline[kind]
<1> DEFINE read == workers[w].tokens
<1> DEFINE old == OrZero(tokens)
<1>1. /\ read \in Breakdown /\ old \in Breakdown /\ baseline \in Breakdown
      /\ OrZero(tokens') = read
  BY UpdateEffect, Breakdowns DEF OrZero, TrackerTypeOK
<1>2. baseline' = IF read["Input"] < old["Input"] THEN EffectiveTotal(baseline, old) ELSE baseline
  BY UpdateEffect
<1>3. Effective = EffectiveTotal(old, baseline) /\ Effective' = EffectiveTotal(read, baseline')
  BY <1>1 DEF Effective
<1> HIDE DEF read, old
<1>4. baseline' \in Breakdown
  BY <1>1, <1>2, Breakdowns
<1>5. ASSUME NEW kind \in Kinds
      PROVE  /\ Effective[kind] = old[kind] + baseline[kind]
             /\ Effective'[kind] =
                  read[kind] + IF read["Input"] < old["Input"]
                               THEN baseline[kind] + old[kind] ELSE baseline[kind]
  BY <1>1, <1>2, <1>3, <1>4, Breakdowns
<1> QED BY <1>1, <1>5 DEF read, old

\* However many hooks read the transcript at once and whenever it is compacted,
\* the input count never goes down, and no other count does at an update that
\* notices a reset (compaction.go:41-53, tracker.go:149-157).
THEOREM ResetsAreBanked == TrackerSpec => NoticedResetsLoseNothing
<1>1. TrackerTypeOK /\ [TrackerNext]_trackerVars =>
        [\A kind \in Kinds :
           Effective'[kind] >= Effective[kind] \/ (kind # "Input" /\ baseline' = baseline)]_trackerVars
  <2> DEFINE Keeps == \A kind \in Kinds : \/ Effective'[kind] >= Effective[kind]
                                          \/ kind # "Input" /\ baseline' = baseline
  <2> SUFFICES ASSUME TrackerTypeOK, TrackerNext
               PROVE  Keeps
    BY Zenon
  <2>1. CASE UNCHANGED tracker
    <3>1. Effective' = Effective /\ Effective \in Breakdown
      BY <2>1, Breakdowns DEF tracker, Effective, TrackerTypeOK
    <3> QED BY <3>1 DEF Breakdown
  <2>2. ASSUME NEW w \in Workers, UpdateTokens(w)
        PROVE  Keeps
    <3> DEFINE read == workers[w].tokens
    <3> DEFINE old == OrZero(tokens)
    <3>1. /\ read \in Breakdown /\ old \in Breakdown
          /\ \A kind \in Kinds :
               /\ Effective[kind] = old[kind] + baseline[kind]
               /\ Effective'[kind] =
                    read[kind] + IF read["Input"] < old["Input"]
                                 THEN baseline[kind] + old[kind] ELSE baseline[kind]
      BY <2>2, UpdateOfEffective
    <3>2. ~(read["Input"] < old["Input"]) => baseline' = baseline
      BY <2>2, UpdateEffect
    <3> HIDE DEF read, old
    <3>3. \A kind \in Kinds : read[kind] \in Nat /\ old[kind] \in Nat /\ baseline[kind] \in Nat
      BY <3>1 DEF Breakdown, TrackerTypeOK
    <3>4. SUFFICES ASSUME NEW kind \in Kinds
                   PROVE  \/ Effective'[kind] >= Effective[kind]
                          \/ kind # "Input" /\ baseline' = baseline
      OBVIOUS
    <3>5. CASE read["Input"] < old["Input"]
      BY <3>5, <3>1, <3>3
    <3>6. CASE ~(read["Input"] < old["Input"])
      BY <3>6, <3>1, <3>2, <3>3
    <3> QED BY <3>5, <3>6
  <2> QED
    BY <2>1, <2>2, StepsOfNext
       DEF WorkerStep, Append, Compact, TimePasses, ThrottleCheck, ThrottleStore,
           ReadUnthrottled, ParseTranscript, ParseFails, GetState, UpdateAnalytics
<1> QED BY <1>1, TrackerTyped, PTL DEF TrackerSpec, NoticedResetsLoseNothing

\* Fewer tokens are read than are stored, and the input count does not show it.
MissesReset(w) ==
  /\ UpdateTokens(w)
  /\ Total(workers[w].tokens) < Total(OrZero(tokens))
  /\ workers[w].tokens["Input"] >= OrZero(tokens)["Input"]

LEMMA UpdateOfSum ==
  ASSUME TrackerTypeOK, NEW w \in Workers, UpdateTokens(w)
  PROVE  Total(Effective') < Total(Effective) <=> MissesReset(w)
<1> DEFINE read == workers[w].tokens
<1> DEFINE old == OrZero(tokens)
<1>1. /\ read \in Breakdown /\ old \in Breakdown
      /\ \A kind \in Kinds :
           /\ Effective[kind] = old[kind] + baseline[kind]
           /\ Effective'[kind] = read[kind] + IF read["Input"] < old["Input"]
                                              THEN baseline[kind] + old[kind] ELSE baseline[kind]
  BY UpdateOfEffective
<1> HIDE DEF read, old
<1>2. \A kind \in Kinds : read[kind] \in Nat /\ old[kind] \in Nat /\ baseline[kind] \in Nat
  BY <1>1 DEF Breakdown, TrackerTypeOK
<1>3. {"Input", "Output", "CacheRead", "CacheWrite"} = Kinds
  BY DEF Kinds
<1>4. CASE read["Input"] < old["Input"]
  <2>1. ~(Total(Effective') < Total(Effective))
    BY <1>1, <1>2, <1>3, <1>4 DEF Total
  <2> QED BY <2>1, <1>2, <1>3, <1>4 DEF read, old, MissesReset
<1>5. CASE ~(read["Input"] < old["Input"])
  <2>1. Total(Effective') < Total(Effective) <=> Total(read) < Total(old)
    BY <1>1, <1>2, <1>3, <1>5 DEF Total
  <2> QED BY <2>1, <1>2, <1>3, <1>5 DEF read, old, MissesReset
<1> QED BY <1>4, <1>5

\* The sum of the counts that are shown drops in a step exactly when that is an
\* update that misses a reset: ComputeBaseline takes no baseline there, and
\* UpdateTokens overwrites all four counts (compaction.go:45-53, tracker.go:149-157).
THEOREM DropsAreMissedResets ==
  TrackerSpec =>
    [][Total(Effective') < Total(Effective) <=> \E w \in Workers : MissesReset(w)]_trackerVars
<1>1. TrackerTypeOK /\ [TrackerNext]_trackerVars =>
        [Total(Effective') < Total(Effective) <=>
           \E w \in Workers : MissesReset(w)]_trackerVars
  <2> SUFFICES ASSUME TrackerTypeOK, TrackerNext
               PROVE  Total(Effective') < Total(Effective) <=>
                        \E w \in Workers : MissesReset(w)
    BY Zenon
  <2>1. ASSUME NEW w \in Workers, UpdateTokens(w)
        PROVE  Total(Effective') < Total(Effective) <=>
                 \E u \in Workers : MissesReset(u)
    <3>1. ASSUME NEW u \in Workers, MissesReset(u)
          PROVE  Total(Effective') < Total(Effective)
      BY <3>1, UpdateOfSum DEF MissesReset
    <3> QED BY <3>1, <2>1, UpdateOfSum
  <2>2. CASE \A w \in Workers : ~UpdateTokens(w)
    <3>1. UNCHANGED tracker
      BY <2>2, StepsOfNext
         DEF WorkerStep, Append, Compact, TimePasses, ThrottleCheck, ThrottleStore,
             ReadUnthrottled, ParseTranscript, ParseFails, GetState, UpdateAnalytics
    <3>2. Total(Effective) \in Nat /\ Effective' = Effective
      BY <3>1, Breakdowns, Sums DEF tracker, Effective, TrackerTypeOK
    <3> QED BY <3>2, <2>2 DEF MissesReset
  <2> QED BY <2>1, <2>2
<1> QED BY <1>1, TrackerTyped, PTL DEF TrackerSpec

-----------------------------------------------------------------------------
\* At most one hook is at work.
Alone == \A v, w \in Workers : workers[v] # Nil /\ workers[w] # Nil => v = w

Stored == OrZero(tokens)
InFile == OrZero(file)

\* What compactions have taken from the transcript.
Lost == [kind \in Kinds |-> spent[kind] - InFile[kind]]

\* The baseline stands for tokens that are lost.  What is stored is still in the
\* transcript, or it stands for lost tokens, too, and for others.
LedgerOf(base, stored, inFile, lost) ==
  /\ Within(base, lost)
  /\ Within(stored, inFile) \/ Within(EffectiveTotal(stored, base), lost)

\* The same of what was read and is about to be stored, next to what is stored:
\* nothing was reset since that was stored; or it was, before the read; or it
\* was before and after the read, and the two stand for different tokens.
ReadOf(read, base, stored, inFile, lost) ==
  \/ /\ Within(stored, read)
     /\ Within(read, inFile) \/ Within(EffectiveTotal(read, base), lost)
  \/ Within(EffectiveTotal(stored, base), lost) /\ Within(read, inFile)
  \/ Within(EffectiveTotal(read, EffectiveTotal(stored, base)), lost)

Ledger == LedgerOf(baseline, Stored, InFile, Lost)
InFlight ==
  \A w \in Workers : At(w, "update") =>
    ReadOf(workers[w].tokens, baseline, Stored, InFile, Lost)

\* The registry has the figures of the tracker, or a sync is on its way to them.
Copied ==
  /\ \A w \in Workers : At(w, "sync") =>
       workers[w].tokens = tokens /\ workers[w].baseline = baseline
  /\ \/ shown = [tokens |-> tokens, baseline |-> baseline]
     \/ \E w \in Workers : At(w, "state") \/ At(w, "sync")
  /\ tokens = Nil => shown.tokens = Nil
  /\ baseline = Zero => shown.baseline = Zero
  /\ Within(EffectiveTotal(OrZero(shown.tokens), shown.baseline), spent)

LEMMA Figures ==
  ASSUME TrackerTypeOK
  PROVE  /\ Stored \in Breakdown /\ InFile \in Breakdown /\ Lost \in Breakdown
         /\ \A kind \in Kinds : Lost[kind] + InFile[kind] = spent[kind]
<1>1. Stored \in Breakdown /\ InFile \in Breakdown /\ spent \in Breakdown
  BY Breakdowns DEF TrackerTypeOK, Stored, InFile
<1>2. ASSUME NEW kind \in Kinds
      PROVE  spent[kind] - InFile[kind] \in Nat /\ spent[kind] \in Nat /\ InFile[kind] \in Nat
  BY <1>1 DEF TrackerTypeOK, Within, InFile, Breakdown
<1>3. Lost \in Breakdown
  BY <1>2 DEF Lost, Breakdown
<1> QED BY <1>1, <1>2, <1>3 DEF Lost

\* A message only adds to the transcript.
LEMMA LedgerWhenAppended ==
  ASSUME NEW b \in Breakdown, NEW s \in Breakdown, NEW f \in Breakdown, NEW l \in Breakdown,
         NEW used \in Breakdown
  PROVE  /\ LedgerOf(b, s, f, l) => LedgerOf(b, s, EffectiveTotal(f, used), l)
         /\ \A r \in Breakdown :
              ReadOf(r, b, s, f, l) => ReadOf(r, b, s, EffectiveTotal(f, used), l)
<1>1. \A a \in Breakdown : Within(a, f) => Within(a, EffectiveTotal(f, used))
  BY Breakdowns DEF Within, Breakdown
<1> QED BY <1>1 DEF LedgerOf, ReadOf

\* A compaction adds all that is in the transcript to what is lost.
LEMMA LedgerWhenCompacted ==
  ASSUME NEW b \in Breakdown, NEW s \in Breakdown, NEW f \in Breakdown, NEW l \in Breakdown
  PROVE  /\ LedgerOf(b, s, f, l) => LedgerOf(b, s, Zero, EffectiveTotal(l, f))
         /\ \A r \in Breakdown :
              LedgerOf(b, s, f, l) /\ ReadOf(r, b, s, f, l) =>
                ReadOf(r, b, s, Zero, EffectiveTotal(l, f))
<1>1. ASSUME NEW a \in Breakdown, Within(a, l)
      PROVE  Within(a, EffectiveTotal(l, f))
  BY <1>1, Breakdowns DEF Within, Breakdown
<1>2. ASSUME NEW a \in Breakdown, NEW c \in Breakdown, Within(a, f), Within(c, l)
      PROVE  Within(EffectiveTotal(a, c), EffectiveTotal(l, f))
  BY <1>2, Breakdowns DEF Within, Breakdown
<1>3. /\ EffectiveTotal(s, b) \in Breakdown
      /\ \A r \in Breakdown : /\ EffectiveTotal(r, b) \in Breakdown
                              /\ EffectiveTotal(r, EffectiveTotal(s, b)) \in Breakdown
  BY Breakdowns
<1>4. LedgerOf(b, s, f, l) => LedgerOf(b, s, Zero, EffectiveTotal(l, f))
  BY <1>1, <1>2, <1>3 DEF LedgerOf
<1>5. ASSUME NEW r \in Breakdown, ReadOf(r, b, s, f, l), Within(b, l)
      PROVE  ReadOf(r, b, s, Zero, EffectiveTotal(l, f))
  BY <1>5, <1>1, <1>2, <1>3 DEF ReadOf
<1> QED BY <1>4, <1>5 DEF LedgerOf

\* A read of the transcript is in order.
LEMMA LedgerWhenRead ==
  ASSUME NEW b \in Breakdown, NEW s \in Breakdown, NEW f \in Breakdown, NEW l \in Breakdown,
         LedgerOf(b, s, f, l)
  PROVE  ReadOf(f, b, s, f, l)
<1>1. Within(f, f)
  BY DEF Within, Breakdown
<1> QED BY <1>1 DEF LedgerOf, ReadOf

\* An update stores what was read, and takes a baseline if the input count shows
\* that what was stored is lost.
LEMMA LedgerWhenUpdated ==
  ASSUME NEW b \in Breakdown, NEW s \in Breakdown, NEW f \in Breakdown, NEW l \in Breakdown,
         NEW r \in Breakdown, LedgerOf(b, s, f, l), ReadOf(r, b, s, f, l)
  PROVE  LedgerOf(IF r["Input"] < s["Input"] THEN EffectiveTotal(b, s) ELSE b, r, f, l)
<1>1. EffectiveTotal(b, s) = EffectiveTotal(s, b)
  BY DEF EffectiveTotal, Breakdown
<1>2. /\ EffectiveTotal(s, b) \in Breakdown /\ EffectiveTotal(r, b) \in Breakdown
      /\ EffectiveTotal(r, EffectiveTotal(s, b)) \in Breakdown
  BY Breakdowns
<1>3. Within(EffectiveTotal(r, EffectiveTotal(s, b)), l) =>
        Within(EffectiveTotal(s, b), l) /\ Within(EffectiveTotal(r, b), l)
  BY <1>2, Breakdowns DEF Within, Breakdown
<1>4. r["Input"] < s["Input"] => ~Within(s, r)
  BY Breakdowns DEF Within, Breakdown
<1>5. CASE r["Input"] < s["Input"]
  BY <1>1, <1>3, <1>4, <1>5 DEF LedgerOf, ReadOf
<1>6. CASE ~(r["Input"] < s["Input"])
  BY <1>3, <1>6 DEF LedgerOf, ReadOf
<1> QED BY <1>5, <1>6

\* The accounts stay right when the workers that are about to update are those
\* of before and the tracker is left alone.
LEMMA AccountsUndisturbed ==
  ASSUME TrackerTypeOK, Ledger, InFlight, UNCHANGED <<file, spent, tracker>>,
         \A w \in Workers : At(w, "update")' =>
           At(w, "update") /\ workers'[w].tokens = workers[w].tokens
  PROVE  Ledger' /\ InFlight'
<1>1. Lost' = Lost /\ Stored' = Stored /\ InFile' = InFile /\ baseline' = baseline
  BY DEF tracker, Lost, Stored, InFile
<1> QED BY <1>1 DEF Ledger, InFlight

LEMMA GotoElsewhere ==
  ASSUME TrackerTypeOK, NEW w \in Workers, NEW step, step # "update",
         NEW t, NEW b, Carry(w, step, t, b) \/ Return(w)
  PROVE  \A u \in Workers : At(u, "update")' =>
           At(u, "update") /\ workers'[u].tokens = workers[u].tokens
<1> SUFFICES ASSUME NEW u \in Workers, At(u, "update")'
             PROVE  At(u, "update") /\ workers'[u].tokens = workers[u].tokens
  OBVIOUS
<1>1. CASE u = w
  BY <1>1 DEF TrackerTypeOK, Carry, Return, At
<1>2. CASE u # w
  BY <1>2 DEF TrackerTypeOK, Carry, Return, At
<1> QED BY <1>1, <1>2

LEMMA AppendKeepsAccounts ==
  ASSUME TrackerTypeOK, Ledger, InFlight, Append
  PROVE  Ledger' /\ InFlight'
<1>1. PICK used \in Usages : /\ spent' = EffectiveTotal(spent, used)
                             /\ file' = EffectiveTotal(InFile, used)
  BY DEF Append, InFile
<1>2. /\ used \in Breakdown /\ baseline \in Breakdown /\ spent \in Breakdown
      /\ Stored \in Breakdown /\ InFile \in Breakdown /\ Lost \in Breakdown
  BY Figures, TrackerAssumption DEF TrackerTypeOK
<1>3. InFile' = EffectiveTotal(InFile, used)
  BY <1>1, <1>2, Breakdowns DEF InFile, OrZero
<1>4. Lost' = Lost
  <2>1. ASSUME NEW kind \in Kinds
        PROVE  spent'[kind] - InFile'[kind] = spent[kind] - InFile[kind]
    BY <1>1, <1>2, <1>3, Breakdowns DEF Breakdown
  <2> QED BY <2>1 DEF Lost
<1>5. Stored' = Stored /\ baseline' = baseline
  BY DEF Append, tracker, Stored
<1>6. Ledger'
  BY <1>2, <1>3, <1>4, <1>5, LedgerWhenAppended DEF Ledger
<1>7. ASSUME NEW w \in Workers, At(w, "update")'
      PROVE  ReadOf(workers[w].tokens, baseline, Stored, InFile, Lost)'
  <2>1. At(w, "update") /\ workers' = workers
    BY <1>7 DEF Append, work, At
  <2>2. workers[w].tokens \in Breakdown
    BY <2>1, CarriedTyped
  <2> QED BY <2>1, <2>2, <1>2, <1>3, <1>4, <1>5, LedgerWhenAppended DEF InFlight
<1> QED BY <1>6, <1>7 DEF InFlight

LEMMA CompactKeepsAccounts ==
  ASSUME TrackerTypeOK, Ledger, InFlight, Compact
  PROVE  Ledger' /\ InFlight'
<1>1. /\ baseline \in Breakdown /\ spent \in Breakdown
      /\ Stored \in Breakdown /\ InFile \in Breakdown /\ Lost \in Breakdown
  BY Figures DEF TrackerTypeOK
<1>2. InFile' = Zero
  BY DEF Compact, InFile, OrZero
<1>3. Lost' = EffectiveTotal(Lost, InFile)
  <2>1. ASSUME NEW kind \in Kinds
        PROVE  spent'[kind] - InFile'[kind] = Lost[kind] + InFile[kind]
    BY <1>1, <1>2, Figures, Breakdowns DEF Breakdown, Compact
  <2> QED BY <2>1 DEF Lost, EffectiveTotal
<1>4. Stored' = Stored /\ baseline' = baseline
  BY DEF Compact, tracker, Stored
<1>5. Ledger'
  BY <1>1, <1>2, <1>3, <1>4, LedgerWhenCompacted DEF Ledger
<1>6. ASSUME NEW w \in Workers, At(w, "update")'
      PROVE  ReadOf(workers[w].tokens, baseline, Stored, InFile, Lost)'
  <2>1. At(w, "update") /\ workers' = workers
    BY <1>6 DEF Compact, work, At
  <2>2. workers[w].tokens \in Breakdown
    BY <2>1, CarriedTyped
  <2> QED BY <2>1, <2>2, <1>1, <1>2, <1>3, <1>4, LedgerWhenCompacted DEF InFlight, Ledger
<1> QED BY <1>5, <1>6 DEF InFlight

LEMMA ParseKeepsAccounts ==
  ASSUME TrackerTypeOK, Ledger, InFlight, NEW w \in Workers, ParseTranscript(w)
  PROVE  Ledger' /\ InFlight'
<1>1. CASE file = Nil
  BY <1>1, GotoElsewhere, AccountsUndisturbed DEF ParseTranscript, Goto
<1>2. CASE file # Nil
  <2>1. Carry(w, "update", InFile, Zero)
    BY <1>2 DEF ParseTranscript, InFile, OrZero
  <2>2. Lost' = Lost /\ Stored' = Stored /\ InFile' = InFile /\ baseline' = baseline
    BY DEF ParseTranscript, tracker, Lost, Stored, InFile
  <2>3. Ledger'
    BY <2>2 DEF Ledger
  <2>4. ASSUME NEW u \in Workers, At(u, "update")'
        PROVE  ReadOf(workers[u].tokens, baseline, Stored, InFile, Lost)'
    <3>1. CASE u = w
      <4>1. workers'[u].tokens = InFile
        BY <3>1, <2>1 DEF Carry, TrackerTypeOK
      <4>2. ReadOf(InFile, baseline, Stored, InFile, Lost)
        BY Figures, LedgerWhenRead DEF Ledger, TrackerTypeOK
      <4> QED BY <4>1, <4>2, <2>2
    <3>2. CASE u # w
      <4>1. At(u, "update") /\ workers'[u].tokens = workers[u].tokens
        BY <3>2, <2>1, <2>4 DEF Carry, At, TrackerTypeOK
      <4> QED BY <4>1, <2>2 DEF InFlight
    <3> QED BY <3>1, <3>2
  <2> QED BY <2>3, <2>4 DEF InFlight
<1> QED BY <1>1, <1>2

LEMMA UpdateKeepsAccounts ==
  ASSUME TrackerTypeOK, Ledger, InFlight, Alone,
         NEW w \in Workers, UpdateTokens(w)
  PROVE  Ledger' /\ InFlight'
<1> DEFINE read == workers[w].tokens
<1>1. /\ read \in Breakdown /\ tokens' = read
      /\ baseline' = IF read["Input"] < Stored["Input"] THEN EffectiveTotal(baseline, Stored)
                     ELSE baseline
  BY UpdateEffect DEF Stored
<1>2. Stored' = read /\ InFile' = InFile /\ Lost' = Lost
  BY <1>1, Breakdowns DEF UpdateTokens, Stored, OrZero, InFile, Lost
<1>3. ReadOf(read, baseline, Stored, InFile, Lost)
  BY DEF InFlight, UpdateTokens
<1> HIDE DEF read
<1>4. Ledger'
  <2>1. /\ baseline \in Breakdown /\ Stored \in Breakdown /\ InFile \in Breakdown
        /\ Lost \in Breakdown
    BY Figures DEF TrackerTypeOK
  <2>2. LedgerOf(IF read["Input"] < Stored["Input"] THEN EffectiveTotal(baseline, Stored)
                 ELSE baseline, read, InFile, Lost)
    BY <2>1, <1>1, <1>3, LedgerWhenUpdated DEF Ledger
  <2> QED BY <2>2, <1>1, <1>2 DEF Ledger
<1>5. \A u \in Workers : ~At(u, "update")'
  BY DEF Alone, UpdateTokens, Goto, Carry, At, TrackerTypeOK
<1> QED BY <1>4, <1>5 DEF InFlight

LEMMA StepKeepsAccounts ==
  ASSUME TrackerTypeOK, Ledger, InFlight, Alone, [TrackerNext]_trackerVars
  PROVE  Ledger' /\ InFlight'
<1>1. CASE UNCHANGED trackerVars
  BY <1>1, AccountsUndisturbed DEF trackerVars, work, At
<1>2. CASE TimePasses
  BY <1>2, AccountsUndisturbed DEF TimePasses, work, At
<1>3. ASSUME NEW w \in Workers,
             \/ ThrottleCheck(w) \/ ThrottleStore(w) \/ ReadUnthrottled(w)
             \/ ParseFails(w) \/ GetState(w) \/ UpdateAnalytics(w)
      PROVE  Ledger' /\ InFlight'
  <2>1. \E step \in Steps : \E t, b : step # "update" /\ (Carry(w, step, t, b) \/ Return(w))
    BY <1>3 DEF ThrottleCheck, ThrottleStore, ReadUnthrottled, ParseFails, GetState,
                UpdateAnalytics, Goto, Steps
  <2>2. UNCHANGED <<file, spent, tracker>>
    BY <1>3 DEF ThrottleCheck, ThrottleStore, ReadUnthrottled, ParseFails, GetState,
                UpdateAnalytics
  <2> QED BY <2>1, <2>2, GotoElsewhere, AccountsUndisturbed
<1> QED
  BY <1>1, <1>2, <1>3, AppendKeepsAccounts, CompactKeepsAccounts, ParseKeepsAccounts,
     UpdateKeepsAccounts, StepsOfNext DEF WorkerStep

\* The copy stays right when the worker that steps does not come from or go to
\* a step of the sync, and the figures stay or the session spends more.
LEMMA CopyUndisturbed ==
  ASSUME TrackerTypeOK, Copied, UNCHANGED <<tracker, shown>>,
         spent' \in Breakdown, Within(spent, spent'),
         \A w \in Workers : \A step \in {"state", "sync"} :
           At(w, step)' <=> At(w, step),
         \A w \in Workers : At(w, "sync") => workers'[w] = workers[w]
  PROVE  Copied'
<1> DEFINE copy == EffectiveTotal(OrZero(shown.tokens), shown.baseline)
<1>1. copy \in Breakdown /\ spent \in Breakdown /\ copy' = copy
  BY Breakdowns DEF TrackerTypeOK
<1>2. Within(copy, spent)
  BY DEF Copied
<1> HIDE DEF copy
<1>3. Within(copy, spent')
  BY <1>1, <1>2 DEF Within, Breakdown
<1>4. Within(copy, spent)'
  BY <1>1, <1>3
<1> QED BY <1>4 DEF Copied, tracker, copy

\* A worker that carries figures to a step, and is alone there, is where it went.
LEMMA CarryArrives ==
  ASSUME TrackerTypeOK, Alone', NEW w \in Workers,
         NEW step \in Steps, NEW t \in Entry, NEW b \in Breakdown, Carry(w, step, t, b)
  PROVE  /\ At(w, step)'
         /\ \A u \in Workers : workers'[u] # Nil => /\ workers'[u].at = step
                                                    /\ workers'[u].tokens = t
                                                    /\ workers'[u].baseline = b
<1>1. workers'[w] = [at |-> step, tokens |-> t, baseline |-> b]
  BY DEF Carry, TrackerTypeOK
<1>2. workers'[w] # Nil
  BY <1>1, TrackerAssumption DEF Worker
<1>3. \A u \in Workers : workers'[u] # Nil => u = w
  BY <1>2 DEF Alone
<1> QED BY <1>1, <1>2, <1>3 DEF At

\* Neither an append nor a compaction takes back what was spent.
LEMMA SpentGrows ==
  ASSUME TrackerTypeOK, Append \/ Compact \/ TimePasses
  PROVE  spent' \in Breakdown /\ Within(spent, spent')
<1>1. spent \in Breakdown /\ Usages \subseteq Breakdown
  BY TrackerAssumption DEF TrackerTypeOK
<1>2. CASE Append
  BY <1>1, <1>2, Breakdowns DEF Append, Within, Breakdown
<1>3. CASE Compact \/ TimePasses
  BY <1>1, <1>3 DEF Compact, TimePasses, Within, Breakdown
<1> QED BY <1>2, <1>3

\* The accounts bound what is shown by what was spent.
LEMMA LedgerBounds ==
  ASSUME TrackerTypeOK, Ledger
  PROVE  Within(Effective, spent)
<1>1. /\ baseline \in Breakdown /\ spent \in Breakdown /\ Stored \in Breakdown
      /\ InFile \in Breakdown /\ Lost \in Breakdown
  BY Figures DEF TrackerTypeOK
<1>2. Effective = EffectiveTotal(Stored, baseline) /\ Effective \in Breakdown
  BY <1>1, Breakdowns DEF Effective, Stored
<1>3. ASSUME NEW kind \in Kinds
      PROVE  Effective[kind] <= spent[kind]
  <2>1. /\ Effective[kind] = Stored[kind] + baseline[kind]
        /\ Lost[kind] + InFile[kind] = spent[kind]
    BY <1>1, <1>2, Breakdowns, Figures
  <2>2. /\ baseline[kind] \in Nat /\ spent[kind] \in Nat /\ Stored[kind] \in Nat
        /\ InFile[kind] \in Nat /\ Lost[kind] \in Nat
    BY <1>1 DEF Breakdown
  <2>3. /\ baseline[kind] <= Lost[kind]
        /\ Stored[kind] <= InFile[kind] \/ Effective[kind] <= Lost[kind]
    BY <1>2 DEF Ledger, LedgerOf, Within
  <2> QED BY <2>1, <2>2, <2>3
<1> QED BY <1>3 DEF Within

LEMMA StepKeepsCopy ==
  ASSUME TrackerTypeOK, Ledger, Copied, Alone, Alone', [TrackerNext]_trackerVars
  PROVE  Copied'
<1>1. CASE UNCHANGED trackerVars
  BY <1>1, CopyUndisturbed DEF trackerVars, Within, Breakdown, work, At, TrackerTypeOK
<1>2. CASE Append \/ Compact \/ TimePasses
  BY <1>2, SpentGrows, CopyUndisturbed DEF Append, Compact, TimePasses, work, At, TrackerTypeOK
<1>3. ASSUME NEW w \in Workers,
             \/ ThrottleCheck(w) \/ ThrottleStore(w) \/ ReadUnthrottled(w)
             \/ (ParseTranscript(w) /\ file # Nil) \/ (ParseFails(w) /\ Return(w))
      PROVE  Copied'
  <2>1. /\ ~At(w, "state") /\ ~At(w, "sync")
        /\ \A u \in Workers : u # w => workers'[u] = workers[u]
        /\ \/ workers'[w] = Nil
           \/ /\ workers'[w] \in Worker
              /\ workers'[w].at \in {"store", "parse", "update"}
    <3>1. /\ Nil \in Entry /\ Zero \in Breakdown /\ file \in Entry
          /\ {"store", "parse", "update"} \subseteq Steps
      BY Breakdowns DEF Entry, TrackerTypeOK, Steps
    <3>2. \/ \E step \in {"store", "parse", "update"} : \E t \in Entry : Carry(w, step, t, Zero)
          \/ Return(w)
      BY <1>3, <3>1 DEF ThrottleCheck, ThrottleStore, ReadUnthrottled, ParseTranscript,
                        ParseFails, Goto
    <3>3. ~At(w, "state") /\ ~At(w, "sync")
      BY <1>3 DEF ThrottleCheck, ThrottleStore, ReadUnthrottled, ParseTranscript, ParseFails, At
    <3> QED BY <3>1, <3>2, <3>3 DEF Carry, Return, TrackerTypeOK, Worker
  <2>2. \A u \in Workers : u # w => workers[u] = Nil
    <3>1. CASE workers[w] # Nil
      BY <3>1 DEF Alone
    <3>2. CASE workers[w] = Nil
      <4>1. \E step \in Steps : Carry(w, step, Nil, Zero)
        BY <3>2, <1>3 DEF ThrottleCheck, ThrottleStore, ReadUnthrottled, ParseTranscript,
                          ParseFails, Goto, At, Steps
      <4>2. workers'[w] \in Worker
        BY <4>1, Breakdowns DEF Carry, TrackerTypeOK, Worker, Entry
      <4>3. workers'[w] # Nil
        BY <4>2, TrackerAssumption
      <4> QED BY <4>3, <2>1 DEF Alone
    <3> QED BY <3>1, <3>2
  <2>3. \A u \in Workers : /\ ~At(u, "state") /\ ~At(u, "sync")
                           /\ ~At(u, "state")' /\ ~At(u, "sync")'
    BY <2>1, <2>2 DEF At
  <2>4. UNCHANGED <<spent, tracker, shown>>
    BY <1>3 DEF ThrottleCheck, ThrottleStore, ReadUnthrottled, ParseTranscript, ParseFails
  <2> QED BY <2>4, <2>3, CopyUndisturbed DEF TrackerTypeOK, Within, Breakdown
<1>4. ASSUME NEW w \in Workers,
             \/ (ParseTranscript(w) /\ file = Nil)
             \/ (ParseFails(w) /\ Goto(w, "state"))
      PROVE  Copied'
  <2>1. At(w, "state")' /\ \A u \in Workers : ~At(u, "sync")'
    <3>1. Carry(w, "state", Nil, Zero)
      BY <1>4 DEF ParseTranscript, ParseFails, Goto
    <3> QED BY <3>1, CarryArrives, Breakdowns DEF At, Steps, Entry
  <2>2. UNCHANGED <<spent, tracker, shown>>
    BY <1>4 DEF ParseTranscript, ParseFails
  <2> QED BY <2>1, <2>2 DEF Copied, tracker
<1>5. ASSUME NEW w \in Workers, UpdateTokens(w)
      PROVE  Copied'
  <2>1. At(w, "state")' /\ \A u \in Workers : ~At(u, "sync")'
    <3>1. Carry(w, "state", Nil, Zero)
      BY <1>5 DEF UpdateTokens, Goto
    <3> QED BY <3>1, CarryArrives, Breakdowns DEF At, Steps, Entry
  <2>2. UNCHANGED <<spent, shown>>
    BY <1>5 DEF UpdateTokens
  <2>3. tokens' # Nil
    BY <1>5, UpdateEffect, Breakdowns
  <2>4. baseline' = Zero => baseline = Zero
    <3>1. baseline \in Breakdown /\ OrZero(tokens) \in Breakdown
      BY Breakdowns DEF TrackerTypeOK
    <3>2. EffectiveTotal(baseline, OrZero(tokens)) = Zero => baseline = Zero
      BY <3>1, Breakdowns DEF Breakdown
    <3> QED BY <3>2, <1>5, UpdateEffect
  <2> QED BY <2>1, <2>2, <2>3, <2>4 DEF Copied
<1>6. ASSUME NEW w \in Workers, GetState(w)
      PROVE  Copied'
  <2>1. /\ At(w, "sync")'
        /\ \A u \in Workers : workers'[u] # Nil =>
             workers'[u].tokens = tokens /\ workers'[u].baseline = baseline
    <3>1. Carry(w, "sync", tokens, baseline)
      BY <1>6 DEF GetState
    <3> QED BY <3>1, CarryArrives, Breakdowns DEF TrackerTypeOK, Steps
  <2>2. UNCHANGED <<spent, tracker, shown>>
    BY <1>6 DEF GetState
  <2> QED BY <2>1, <2>2 DEF Copied, tracker, At
<1>7. ASSUME NEW w \in Workers, UpdateAnalytics(w)
      PROVE  Copied'
  <2>1. workers[w].tokens = tokens /\ workers[w].baseline = baseline
    BY <1>7 DEF Copied, UpdateAnalytics
  <2>2. shown' = [tokens |-> tokens, baseline |-> baseline]
    BY <1>7, <2>1 DEF UpdateAnalytics, Copied
  <2>3. \A u \in Workers : ~At(u, "sync")'
    BY <1>7 DEF Alone, UpdateAnalytics, Return, At, TrackerTypeOK
  <2>4. UNCHANGED <<spent, tracker>>
    BY <1>7 DEF UpdateAnalytics
  <2>5. Within(EffectiveTotal(OrZero(shown.tokens), shown.baseline), spent)'
    BY <2>2, <2>4, LedgerBounds DEF tracker, Effective
  <2> QED BY <2>2, <2>3, <2>4, <2>5 DEF Copied, tracker
<1> QED
  BY <1>1, <1>2, <1>3, <1>4, <1>5, <1>6, <1>7, StepsOfNext
     DEF WorkerStep, ParseTranscript, ParseFails

\* Hooks that are at work at the same time have overlapped.
LEMMA AloneUnlessOverlap ==
  ASSUME TrackerTypeOK, Alone, ~overlap', [TrackerNext]_trackerVars
  PROVE  Alone'
<1>1. CASE UNCHANGED workers
  BY <1>1 DEF Alone
<1>2. ASSUME NEW w \in Workers, NEW step, NEW t, NEW b, Carry(w, step, t, b)
      PROVE  Alone'
  BY <1>2 DEF Carry, Alone, TrackerTypeOK
<1>3. ASSUME NEW w \in Workers, Return(w)
      PROVE  Alone'
  BY <1>3 DEF Return, Alone, TrackerTypeOK
<1>4. ASSUME NEW w \in Workers, WorkerStep(w)
      PROVE  Return(w) \/ \E step \in Steps : \E t, b : Carry(w, step, t, b)
  BY <1>4 DEF WorkerStep, ThrottleCheck, ThrottleStore, ReadUnthrottled, ParseTranscript,
              ParseFails, UpdateTokens, GetState, UpdateAnalytics, Goto, Steps
<1>5. Append \/ Compact \/ TimePasses \/ UNCHANGED trackerVars => UNCHANGED workers
  BY DEF Append, Compact, TimePasses, trackerVars, work
<1> QED BY <1>1, <1>2, <1>3, <1>4, <1>5, StepsOfNext

LEMMA OverlapStays ==
  ASSUME TrackerTypeOK, overlap, [TrackerNext]_trackerVars
  PROVE  overlap'
BY StepsOfNext
   DEF WorkerStep, ThrottleCheck, ThrottleStore, ReadUnthrottled, ParseTranscript, ParseFails,
       UpdateTokens, GetState, UpdateAnalytics, Append, Compact, TimePasses, Goto, Carry,
       Return, trackerVars, work

Accounts == Alone /\ Ledger /\ InFlight /\ Copied

LEMMA AccountsHold == TrackerSpec => [](TrackerTypeOK /\ (~overlap => Accounts))
<1>1. TrackerInit => Accounts
  <2> SUFFICES ASSUME TrackerInit
               PROVE  Accounts
    OBVIOUS
  <2>1. \A w \in Workers : workers[w] = Nil
    BY DEF TrackerInit
  <2>2. spent = Zero /\ InFile = Zero /\ Stored = Zero /\ baseline = Zero
    BY DEF TrackerInit, InFile, Stored, OrZero
  <2>3. Lost = Zero
    BY <2>2, Breakdowns DEF Lost, Zero
  <2>4. Within(Zero, Zero) /\ EffectiveTotal(Zero, Zero) = Zero
    BY Breakdowns DEF Within, EffectiveTotal, Zero
  <2>5. Ledger
    BY <2>2, <2>3, <2>4 DEF Ledger, LedgerOf
  <2>6. Copied
    BY <2>1, <2>2, <2>4 DEF TrackerInit, Copied, At, OrZero
  <2> QED BY <2>1, <2>5, <2>6 DEF Accounts, Alone, InFlight, At
<1>2. TrackerTypeOK /\ (~overlap => Accounts) /\ [TrackerNext]_trackerVars
      => (~overlap => Accounts)'
  <2> SUFFICES ASSUME TrackerTypeOK, ~overlap => Accounts, [TrackerNext]_trackerVars, ~overlap'
               PROVE  Accounts'
    BY Zenon
  <2>1. Accounts
    BY OverlapStays
  <2>2. Alone'
    BY <2>1, AloneUnlessOverlap DEF Accounts
  <2> QED BY <2>1, <2>2, StepKeepsAccounts, StepKeepsCopy DEF Accounts
<1> QED BY <1>1, <1>2, TrackerTyped, PTL DEF TrackerSpec

\* As long as no two hooks were at work at the same time, neither the tracker nor
\* the registry claims tokens of any kind that were not spent, for all messages and
\* every order of appends, compactions and reads, noticed or not
\* (compaction.go:41-64, tracker.go:141-159).
THEOREM TotalIsNoOvercount == TrackerSpec => []NeverOvercounts
<1>1. TrackerTypeOK /\ (~overlap => Accounts) => NeverOvercounts
  BY LedgerBounds DEF NeverOvercounts, Accounts, Copied
<1> QED BY <1>1, AccountsHold, PTL

\* Under the same condition the registry has the figures of the tracker whenever
\* no hook is at work (main.go:547-582).
THEOREM RegistryShowsLatest == TrackerSpec => []ShowsLatest
<1>1. TrackerTypeOK /\ (~overlap => Accounts) => ShowsLatest
  BY DEF ShowsLatest, Accounts, Copied, At
<1> QED BY <1>1, AccountsHold, PTL
=============================================================================
