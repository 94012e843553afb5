----------------------------- MODULE TokenTracker -----------------------------
(***************************************************************************)
(* The token counts of one session and one model: the transcript that      *)
(* Claude Code writes, the analytics tracker with its compaction baselines *)
(* (analytics/tracker.go, compaction.go), the background reads that the    *)
(* hooks start (server/server.go), and the copy of the result in the       *)
(* session registry (main.go, syncAnalyticsToRegistry).                    *)
(*                                                                         *)
(* A worker is the goroutine of a hook and the background goroutine that   *)
(* it starts.  A token breakdown has four counts: all are stored, added    *)
(* and shown, but the input count alone tells that they have been reset.   *)
(* UpdateTokens and GetState hold the tracker's mutex and are one action.  *)
(***************************************************************************)
EXTENDS Integers

CONSTANTS
  Workers,    \* goroutines that may read the transcript at one time
  Throttle,   \* postToolUseThrottleInterval in ticks
  Usages,     \* what a message may have used
  MaxTokens,  \* bound: tokens of one kind that are spent
  Nil         \* no worker, no entry for the model, no read yet

Kinds     == {"Input", "Output", "CacheRead", "CacheWrite"}
Breakdown == [Kinds -> Nat]
Zero      == [kind \in Kinds |-> 0]

Steps  == {"store", "parse", "update", "state", "sync"}
Entry  == Breakdown \cup {Nil}
Worker == [at : Steps, tokens : Entry, baseline : Breakdown]

ASSUME TrackerAssumption ==
  /\ Throttle \in Nat \ {0}
  /\ Usages \subseteq Breakdown
  /\ MaxTokens \in Nat
  /\ Nil \notin Worker \cup Breakdown \cup Int

VARIABLES
  file,      \* what the model's messages in the transcript add up to; Nil without any
  spent,     \* the tokens the session has used
  tokens,    \* Tracker: tokens[model], or Nil
  baseline,  \* Tracker: baselines[model]; Zero stands for no entry
  shown,     \* the registry's copy of both
  lastRead,  \* lastTranscriptRead: Nil, or its age up to Throttle
  workers,   \* per worker: Nil, or its step and the figures it carries
  overlap    \* have two workers ever been at work at the same time?

tracker == <<tokens, baseline>>
work    == <<workers, overlap>>
trackerVars == <<file, spent, tracker, shown, lastRead, work>>

At(w, step) == workers[w] # Nil /\ workers[w].at = step
Carry(w, step, t, b) ==
  /\ workers' = [workers EXCEPT ![w] = [at |-> step, tokens |-> t, baseline |-> b]]
  /\ overlap' = (overlap \/ \E v \in Workers \ {w} : workers[v] # Nil)
Goto(w, step) == Carry(w, step, Nil, Zero)
Return(w) == workers' = [workers EXCEPT ![w] = Nil] /\ UNCHANGED overlap

EffectiveTotal(current, base) == [kind \in Kinds |-> current[kind] + base[kind]]

\* Mutant of ComputeBaseline: counts that stay the same are taken for a reset.
ComputeBaselineTwice(stored, current) ==
  IF current["Input"] <= stored["Input"] THEN stored ELSE Zero

\* What was stored is lost from the transcript when its input count is below it.
ComputeBaseline(stored, current) ==
  IF (stored["Input"] # 0 \/ stored["Output"] # 0) /\ current["Input"] < stored["Input"]
  THEN stored ELSE Zero

Total(b) == b["Input"] + b["Output"] + b["CacheRead"] + b["CacheWrite"]

OrZero(entry) == IF entry = Nil THEN Zero ELSE entry
Effective == EffectiveTotal(OrZero(tokens), baseline)

-----------------------------------------------------------------------------
\* Claude Code appends an assistant message, with its usage.
Append ==
  \E usage \in Usages :
    /\ spent' = EffectiveTotal(spent, usage)
    /\ \A kind \in Kinds : spent'[kind] <= MaxTokens
    /\ file' = EffectiveTotal(OrZero(file), usage)
    /\ UNCHANGED <<tracker, shown, lastRead, work>>

\* A compaction resets the counts in the transcript; the summary it leaves may be
\* a message of the model.
Compact ==
  /\ file # Nil
  /\ file' \in {Nil, Zero}
  /\ UNCHANGED <<spent, tracker, shown, lastRead, work>>

\* post-tool-use reads the transcript if the last read is long enough ago.
ThrottleCheck(w) ==
  /\ workers[w] = Nil
  /\ lastRead = Nil \/ lastRead = Throttle
  /\ Goto(w, "store")
  /\ UNCHANGED <<file, spent, tracker, shown, lastRead>>

ThrottleStore(w) ==
  /\ At(w, "store")
  /\ lastRead' = 0
  /\ Goto(w, "parse")
  /\ UNCHANGED <<file, spent, tracker, shown>>

\* pre-compact and session-end read the transcript without throttling.
ReadUnthrottled(w) ==
  /\ workers[w] = Nil
  /\ Goto(w, "parse")
  /\ UNCHANGED <<file, spent, tracker, shown, lastRead>>

\* Mutant of ParseTranscript: the model has an entry without a message, too.
ParseEmpty(w) ==
  /\ At(w, "parse")
  /\ Carry(w, "update", file, Zero)
  /\ UNCHANGED <<file, spent, tracker, shown, lastRead>>

\* A model without a message in the transcript is not updated.
ParseTranscript(w) ==
  /\ At(w, "parse")
  /\ IF file = Nil THEN Goto(w, "state") ELSE Carry(w, "update", file, Zero)
  /\ UNCHANGED <<file, spent, tracker, shown, lastRead>>

\* The transcript cannot be read; session-end alone goes on to the sync.
ParseFails(w) ==
  /\ At(w, "parse")
  /\ Return(w) \/ Goto(w, "state")
  /\ UNCHANGED <<file, spent, tracker, shown, lastRead>>

\* Mutant of UpdateTokens: a new baseline replaces the one before.
UpdateTokensAfresh(w) ==
  /\ At(w, "update")
  /\ baseline' = IF tokens # Nil /\ workers[w].tokens["Input"] < tokens["Input"]
                 THEN tokens ELSE baseline
  /\ tokens' = workers[w].tokens
  /\ Goto(w, "state")
  /\ UNCHANGED <<file, spent, shown, lastRead>>

\* Counts that were reset join the baseline; all four are overwritten.
UpdateTokens(w) ==
  /\ At(w, "update")
  /\ LET lost == IF tokens = Nil THEN Zero ELSE ComputeBaseline(tokens, workers[w].tokens)
     IN  baseline' = IF Total(lost) > 0 THEN EffectiveTotal(baseline, lost) ELSE baseline
  /\ tokens' = workers[w].tokens
  /\ Goto(w, "state")
  /\ UNCHANGED <<file, spent, shown, lastRead>>

\* Mutant of GetState: the baselines are left out.
GetStateWithoutBaselines(w) ==
  /\ At(w, "state")
  /\ Carry(w, "sync", tokens, Zero)
  /\ UNCHANGED <<file, spent, tracker, shown, lastRead>>

GetState(w) ==
  /\ At(w, "state")
  /\ Carry(w, "sync", tokens, baseline)
  /\ UNCHANGED <<file, spent, tracker, shown, lastRead>>

\* Tokens and baselines are stored separately, and each only if there are any.
UpdateAnalytics(w) ==
  /\ At(w, "sync")
  /\ shown' = [tokens   |-> IF workers[w].tokens = Nil THEN shown.tokens
                            ELSE workers[w].tokens,
               baseline |-> IF workers[w].baseline = Zero THEN shown.baseline
                            ELSE workers[w].baseline]
  /\ Return(w)
  /\ UNCHANGED <<file, spent, tracker, lastRead>>

Older(age) == IF age = Nil \/ age = Throttle THEN age ELSE age + 1

\* A hook checks and stores the time of its read within one tick.
TimePasses ==
  /\ \A w \in Workers : ~At(w, "store")
  /\ lastRead' = Older(lastRead)
  /\ UNCHANGED <<file, spent, tracker, shown, work>>

TrackerInit ==
  /\ file = Nil /\ spent = Zero
  /\ tokens = Nil /\ baseline = Zero
  /\ shown = [tokens |-> Nil, baseline |-> Zero]
  /\ lastRead = Nil
  /\ workers = [w \in Workers |-> Nil]
  /\ overlap = FALSE

Hook(w) == ThrottleCheck(w) \/ ThrottleStore(w) \/ ReadUnthrottled(w)
Read(w) == ParseTranscript(w) \/ ParseFails(w) \/ UpdateTokens(w)
Sync(w) == GetState(w) \/ UpdateAnalytics(w)

TrackerNext ==
  \/ Append \/ Compact \/ TimePasses
  \/ \E w \in Workers : Hook(w) \/ Read(w) \/ Sync(w)

TrackerSpec == TrackerInit /\ [][TrackerNext]_trackerVars

-----------------------------------------------------------------------------
\* a <= b in every count.
Within(a, b) == \A kind \in Kinds : a[kind] <= b[kind]

\* The figures are breakdowns, and an update is only made with an entry.
TrackerTypeOK ==
  /\ file \in Entry /\ spent \in Breakdown /\ Within(OrZero(file), spent)
  /\ tokens \in Entry /\ baseline \in Breakdown
  /\ shown \in [tokens : Entry, baseline : Breakdown]
  /\ lastRead \in 0 .. Throttle \cup {Nil}
  /\ workers \in [Workers -> Worker \cup {Nil}] /\ overlap \in BOOLEAN
  /\ \A w \in Workers : At(w, "update") => workers[w].tokens # Nil

\* However reads and compactions overlap, the input count of the session never
\* goes down, and when it is noticed that the counts were reset no other count
\* does: what the reset took away, the baseline has (compaction.go:41-53,
\* tracker.go:149-157).  A reset that is not noticed takes the other counts away.
NoticedResetsLoseNothing ==
  [][\A kind \in Kinds :
       Effective'[kind] >= Effective[kind] \/ (kind # "Input" /\ baseline' = baseline)]_trackerVars

\* As long as no two hooks were at work at the same time, neither the tracker nor
\* the registry claims tokens of any kind that were not spent, for every order of
\* appends, compactions and reads, noticed or not (compaction.go:41-64).
NeverOvercounts ==
  ~overlap => /\ Within(Effective, spent)
              /\ Within(EffectiveTotal(OrZero(shown.tokens), shown.baseline), spent)

\* Under the same condition, when no hook is at work, the registry has the
\* figures of the tracker: the sync "pushes the tracker state ... so the
\* presence resolver can render the latest analytics" (main.go:255-260).
ShowsLatest ==
  (~overlap /\ \A w \in Workers : workers[w] = Nil) =>
    shown = [tokens |-> tokens, baseline |-> baseline]
=============================================================================
