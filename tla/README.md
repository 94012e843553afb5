# Formal models of dsrcode

dsrcode is a daemon that shows Claude Code sessions as Discord Rich Presence.
Claude Code sends it HTTP hooks; it keeps a registry of sessions, reads
transcripts for token counts, resolves a presence from both, and sends it to the
local Discord client at a limited rate. It ends itself a grace period after the
last session has left.

This directory holds TLA+ models of the daemon's concurrent core, TLC runs that
check them on small instances, and TLAPS proofs that hold for every value of the
constants. `PROJECT.json` relates every definition to the lines it models and
lists runs, mutants, findings, hazards and theorems.

## 1. Inventory

| Component | Source | State | Operations | What makes it correct |
|---|---|---|---|---|
| Session registry | `session/registry.go`, `source.go`, `types.go` | map from ID to session, under one mutex | start (with dedup by rank and PID, upgrade by re-keying), update, touch, transition to idle, end, remove by source | one entry per window; a session of higher rank is never replaced by one of lower rank; an upgrade keeps history |
| Hook handlers | `server/server.go` | none of their own; each request is a goroutine that makes several registry calls | 14 routes below `/hooks/`, `/statusline` | a hook is applied to its own session as it is, not as it was at an earlier call |
| Stale checker | `session/stale.go` | a snapshot of the registry | remove silent or dead sessions, turn others idle | removes every silent session, and only silent ones |
| Auto-exit loop | `main.go` 383-484 | grace timer, its context, `abortFn` | count sessions on a pulse, arm, abort, exit | ends after the last session, never with a session |
| Presence coalescer | `coalescer/coalescer.go` | debounce and flush timers, pending slot, token bucket, hash of the last update | debounce, resolve, gate, store, book, flush | Discord's rate is kept; nothing pending is stranded; Discord settles on the latest presence |
| Discord client, connection loop | `discord/*.go`, `main.go` 486-522 | connection, backoff | connect, handshake, send, close | a frame is written whole, after the handshake |
| Hook dedup | `server/hook_dedup.go` | map from content to time (a `sync.Map`) | look up, store, evict | drops only repetitions; does not grow for ever |
| Token analytics | `analytics/tracker.go`, `compaction.go`, `transcript.go` | counts and compaction baselines per session and model | read a transcript, update, sync into the registry | no count is above what was spent; a reset that is noticed loses nothing |
| Subagent tree | `analytics/subagent.go` | tree of spawned agents | spawn, four strategies of completion | a stop completes the agent that stopped |
| Preview | `server/server.go` 1156-1210 | preview state and timer | show for a while, restore | the normal presence comes back; a new preview replaces the one before |
| Configuration | `config/*.go`, `main.go` | configuration and preset, each under a lock | `POST /config`, file watcher | configuration and preset agree |
| Presence resolver | `resolver/*.go` | none | a pure function of sessions, preset and detail level | the choice of the session does not depend on the order of the map |
| Launcher scripts | `scripts/start.*`, `stop.*` | reference count or PID files | start, count, stop the daemon | one daemon while sessions exist |
| Persistence, pricing, presets, i18n, logging, skills | the rest | files and tables | - | - |

How they interact:

- **Hooks to registry.** Handlers call registry methods; the mutex is released
  between calls. Three handlers go on in a background goroutine.
- **Registry to the rest.** `onChange` (`main.go` 138-147) makes a non-blocking
  send on two channels of capacity 1, `updateChan` for the coalescer and
  `autoExitChan` for the auto-exit loop; pulses that find a channel full are
  dropped.
- **Coalescer to Discord.** Timer callbacks resolve the presence from a copy of
  the registry and call `SetActivity`; the preview handler and the shutdown
  sequence call it directly, too.
- **Tracker to registry.** After a transcript read, a snapshot of the tracker is
  copied into the session's entry.
- **Auto-exit to all.** `cancel()` ends `main`'s wait and every goroutine.

Hard behaviour: checks and acts that are separated by an unlock (handlers, stale
checker, dedup, throttle, sync); timer callbacks that `Stop` does not stop once
they have started (coalescer, grace timer, preview); pulses that coalesce;
reads that overtake each other; a limiter whose reservations are not taken
back. The hazards are listed with their lines in `PROJECT.json`.

## 2. Modules

| Module | Models | Extends | Runs | Proofs |
|---|---|---|---|---|
| `SessionRegistry` | the registry, a method per action, with both channels | | `MCSessionRegistry` | `SessionRegistryProofs` |
| `Resolver` | which sessions and data make the presence, as operators over the registry | `SessionRegistry` | `MCSessionRegistry` | `RegistryClientsProofs` |
| `HookHandlers` | handlers as sequences of registry calls, the stale checker on its snapshot | `SessionRegistry`, which it implements | `MCHookHandlers`, `FindSecondWindow` | `RegistryClientsProofs` |
| `AutoExit` | auto-exit loop and grace timer over the registry | `SessionRegistry` | `MCAutoExit` | `RegistryClientsProofs` |
| `Delivery` | what the coalescer promises about an update from the slot to Discord, without timers and limiter | | (by `MCCoalescer`) | (by `CoalescerProofs`) |
| `Coalescer` | debounce, gate, slot, limiter, flush, and a client that comes and goes | implements `Delivery` | `MCCoalescer`, `FindStarvedFlush` | `CoalescerProofs` |
| `HookDedup` | the dedup middleware and its eviction walk | | `MCHookDedup` | `HookDedupProofs` |
| `TokenTracker` | transcript, tracker, baselines, throttle, sync | | `MCTokenTracker` | `TokenTrackerProofs` |
| `Subagents` | the tree of agents, the two hooks that spawn, the four strategies of completion | | `MCSubagents` | `SubagentsProofs` |
| `PresencePipeline` | everybody who writes to Discord: coalescer, previews, connection loop, shutdown, over the client | | `MCPresencePipeline`, `FindNoReconnect` | `PresencePipelineProofs` |
| `ConfigReload` | configuration and preset, the file watcher and `POST /config` | | `MCConfigReload` | `ConfigReloadProofs` |

`MC*.tla` gives the constants of a module their values for TLC. A definition that
is introduced as a *mutant* is a plausible bug: put in the place of the
definition it is a mutant of, it makes the property fail that `PROJECT.json`
names, which shows that the property depends on the code.

### SessionRegistry

`sessions` is the map, `signals` the set of channels that hold a pulse. Every
method holds the mutex from beginning to end and is one action, its call of
`onChange` included. `StartSession` keeps the loop over the map: `Decisive` is
the set of entries at which the loop may end, in any order, as Go's map
iteration has none. A session has the fields that decide something; activity
counters are one sum (`acts`), the other data (transcript path, status line,
analytics) is a set of what is known. `LastActivityAt` is an age. An ID is a
Claude UUID or the synthetic ID of a project (`MayCarry`).

### Resolver

Operators on the registry's state, named like the functions they are.
`Snapshots` has the sessions in every order, as `GetAllSessions` copies a Go map, and
`Presences` is the set of activities that `ResolvePresence` may return for one state.
An activity is the data its texts are made of: project, icon, known values,
windows per project, sums. Wording, its rotation with the clock, buttons and start time are
left out, and so are the differences between the minimal, standard and verbose
levels, which word the same data; the private level hides it and is kept.

### HookHandlers

A handler that makes several registry calls is at one of them (`calls`); each
call is an action, and any other goroutine may act between two. A handler with
one call is one action. `HookLookup`, `HookStart`, `HookUpdate` and
`HookTranscript` are `handleHook`; `PostToolUse*`, `CwdChanged*` and
`SessionEnd*` their handlers. `SyncAnalytics` is what a background read does to
the registry in the end. `CheckSnapshot` is `GetAllSessions` with the decision
on each copy, and `CheckRemove` and `CheckIdle` act on the decisions later, one
session at a time. `ImplementsRegistry` states that all this uses the registry
as `RegistrySpec` allows.

### AutoExit

The loop is at one of its steps; `armed` is `abortFn # nil`, `timer` the time
left, `fired` a callback that has started and not looked at the grace context,
`exiting` one that has looked and not cancelled, `ended` the daemon's context.
The registry's methods are the environment: any of them may be called at any
time (`OtherGoroutines`).

### Coalescer

`Run` takes a pulse and restarts the debounce timer (`OnSignal`). A timer that
is due starts a callback, a goroutine of its own, with steps where it touches
shared state: resolve, gate, store, book, swap, send, hash. To book is one step:
`Stop`, `Reserve` and the new timer (`coalescer.go` 182-195). Two bookings that overlap may
leave a second timer in the code, which is not modelled: its flush takes what is in the slot,
or finds it empty. The limiter is
`golang.org/x/time/rate` as it is used: `credit` is its bucket in ticks, may be
negative, and is not given back when a booking's timer is stopped. `meter` is
what Discord counts, independently of the limiter. `RegistryChange` changes
what the resolver returns and pulses. Changes of preset, detail level or time
that alter the presence without a pulse are left out, and so are the counters
of the summary log.

`Delivery` is the abstract specification of the way from the slot to Discord:
an update is offered, taken by one sender, displayed or lost for want of a
connection, and remembered for the gate only once it was displayed. `Carried` maps a callback
to what it has in hand, `Delivered` instantiates `Delivery` with it, and
`ImplementsDelivery` states that the coalescer implements it, with the fairness that who
carries an update gets rid of it. The text "flushed exactly once" (`coalescer.go` 3-5)
is that refinement; that the flush also happens is `PendingDrains`.

### HookDedup

Each request is a goroutine: it reads the clock, loads, and stores; the walk of
the cleanup looks at an entry and deletes by key. Times are kept as ages;
beyond `Oldest` they make no difference. `served` is the age of the youngest
request let through, and belongs to no code: properties compare with it.
Requests that bypass the middleware are left out, and the 64-bit hash is taken
to be free of collisions.

### TokenTracker

One session, one model; a breakdown has the four counts of `TokenBreakdown`. The
input count alone decides about baselines (`ComputeBaseline`), and an update
overwrites all four (`UpdateTokens`). `file` is what a read of the transcript adds
up to, or `Nil` if it has no message of the model, `spent` what was really used:
Claude Code adds a message with any of the `Usages` to both (`Append`), and a
compaction resets `file` (`Compact`), which is what `compaction.go` 41-44 says of it,
with or without a message of the model in what it leaves. These two
are external. A worker is a hook with its background goroutine: throttle, read,
update, snapshot, sync. `overlap` is true once two workers have been at work at
the same time, and belongs to no code: `NeverOvercounts` and `ShowsLatest` hold
up to that point, `NoticedResetsLoseNothing` always. `Effective` is what the
tracker has of a session, tokens with baselines, as the cost is computed from it.
The session stays registered; what happens to an ended one is
in `HookHandlers`.

### Subagents

`agents` is the tree of one session, in the order of arrival. An agent is
reported by the hook of the Agent tool (`AgentTool`, under an ID that the daemon
invents and no stop carries), by subagent-start (`SubagentStart`, with the
agent's own ID but without a description), or by both: `installed` says which
are configured. `Match` is `RecordSubagentComplete`: ID, description, type and age,
the first strategy that finds a working entry decides, and each takes the first
entry that fits. Requests are sent in order and handled in any, may be lost
(`Lose`), and may have a twin, as `hooks.json` and the settings that `start.sh` 480-495
writes both install subagent-stop and the dedup may let both through. `handled`
and `disturbed` belong to no code: the properties hold until a hook is handled
twice or a stop before its spawns.

### PresencePipeline

Beside the coalescer stand the previews, the connection loop and the shutdown.
Time is left out: a timer that is armed may fire at any later step, which
includes every order the clock allows but one, that a preview's timer fires
before its handler has sent the activity (at least 5 s; `PreviewExpires` has the guard, which
waits for every handler that is sending: with three previews or more it also excludes
that a timer nobody can stop fires just then). Of
the coalescer the module keeps what matters to the others: the armed debounce,
the booked flush, one callback at a time, the slot and the hash. The limiter is a
choice between flushing and booking; the overlap of callbacks is in `Coalescer`.

A preview request is "new", "sending" after the unlock, then "done"; its timer runs, is
"ending" when its callback waits for `previewMu`, "reset" when `previewState` is
nil again, and "over" after the pulse. The connection is "fresh" from `c.conn =
conn` (`client.go` 60) to the handshake: any writer may send on it, and Discord, which is
external, then closes it. `main` goes through `Shutdown`, the clearing frame and
`Close` as separate steps, and every other goroutine may act in between.
`early`, `overtaken` and `straggled` belong to no code and name the conditions under
which the properties hold.

### ConfigReload

A configuration is preset, language and detail level, the fields that are read after
the start. `Apply` puts a layer over another; `LoadConfig` is the chain at the start,
`Layered` that of a reload, which has no flags. A file is one of `Contents`, a
layer with some fields left out, or `Broken`: half written, missing or no JSON. An edit
makes an event, events start the debounce timer anew, and a timer that fires is a callback of
its own (`reloads`), of which two may be under way: read, compare, install
the preset, store the configuration. The comparison reads `cfg` without its lock: while
another goroutine is about to write it, either outcome is possible. `POST /config` goes
through the same steps (`posts`). `writer` and `overlap` belong to no code.

## 3. Runs and bounds

| Run | Instance | Why it is enough |
|---|---|---|
| `MCSessionRegistry` | two projects, each with a JSONL and an HTTP ID, two Claude IDs, PIDs 0, 1, 2, one kind of data, no activity counts, timeouts at once | properties relate two sessions of one project, or the sessions of two; all three ranks, unknown and known PIDs, three-step upgrade chains, a single and a multiple presence occur |
| `MCHookHandlers` | an HTTP and a Claude ID, one PID, two handlers, stale checker, one tick to be removed, none to turn idle, one activity counted | every pair of handlers, each at any call, with the checker between: a third handler adds no new pair of a check and an act. More windows and PIDs are in `MCSessionRegistry`, and by `HandlersInherit` what it shows of them carries over |
| `MCAutoExit` | an HTTP and two Claude IDs, two PIDs, grace period of two ticks | the period can be re-armed, aborted midway, and fire against an arrival |
| `MCCoalescer` | two activities, two callbacks at a time, burst 2, interval 3, debounce 1 | a change and its reversal, overlapping callbacks, full and indebted bucket, a client that is late or goes away |
| `MCHookDedup` | two contents, two requests, TTL 2, delays of a tick | equal and different contents, and the walk between any two steps |
| `MCTokenTracker` | two workers, up to 3 tokens of a kind, messages with input alone, with more output than input, and without either, throttle 2 | any order of two reads, several compactions; a message after a compaction may have the input and not the output of what is stored, so that the reset is not noticed |
| `MCSubagents` | three agents, two of one type, one described by the name of a type, three spawns | every strategy decides in some state, and each has a wrong entry to find: of the same type, of the same text, or older |
| `MCPresencePipeline` | two activities, two previews, delays 1 and 2 | a preview that replaces another, a change and its reversal, a delay at its limit, every interleaving with disconnections and the shutdown |
| `MCConfigReload` | two presets and a misspelt one, a translated, another and an unknown language, an unknown detail level, a `-preset` flag, two reloads, one request, two edits | a reload that overlaps another or a request, a break and its repair, an edit before the watcher is there; the flag differs from every file that does not name it |

`MCSessionRegistry`, `MCTokenTracker` and `MCSubagents` check safety only, the first two
with symmetry, of the Claude IDs and the projects, and of the workers; the others check liveness, too,
under the fairness of section 4. `MCSubagents` allows deadlock, as the session ends
with the last hook of its last agent, and so do `MCPresencePipeline`, as `main` returns, and
`MCConfigReload`, as edits are bounded.
The `Find*` runs use the same instances, with a second window in
`FindSecondWindow`.

Bounds that are not in the code: `MaxActs` (larger counts are not told apart),
`MaxDebt` (no new change with so many ticks booked ahead), `MaxDelay` (how
slow a goroutine may be), `MaxTokens` (of a kind), `MaxSpawns` (requests that report a spawn), `MaxEdits`, and the numbers of goroutines
(`Handlers`, `Callbacks`, `Requests`, `Workers`, `Reloads`, `Posts`). The code has no bound on goroutines;
the proofs hold for every number of them.

Ticks stand for different times in different modules; what matters is the order
of the constants. A debounce of 100 ms and an interval of 4 s are 1 and 3 ticks.

### What the passing runs show

- **Registry.** Two entries of one project are always two Claude windows with
  different known PIDs (`SeparateWindows`); no session is registered below a
  higher-ranked one of its project (`NoDowngrade`); key and source agree
  (`KeysMatchSources`); an upgrade keeps counters, data and activity clock
  (`UpgradeKeepsHistory`). Whatever order the map is read in, the resolver takes an
  active session if there is one and of those the one used last (`ShowsMostRecent`), and
  a step that changes what would be shown leaves a pulse (`ChangeIsPulsed`), except
  `Touch`, which moves a clock in silence.
- **Handlers.** However they interleave, they stay within the registry's
  specification (`ImplementsRegistry`), and a session that nothing is heard from
  leaves (`SilentSessionsLeave`).
- **Auto-exit.** A session that arrives while the exit is armed is noticed
  although pulses coalesce (`ArrivalIsSeen`), and the daemon ends after the last
  session (`DaemonEnds`).
- **Coalescer.** Whatever is pending has a flush booked or under way
  (`PendingHasFlush`); Discord's rate is kept (`WithinRateLimit`); the hash gate
  compares with what Discord shows (`HashMatchesShown`); when pulses stop, the
  slot is drained (`PendingDrains`); every update that leaves the slot goes through
  one sender and is given up only without a connection (`ImplementsDelivery`).
- **Dedup.** A request is dropped only if one like it was let through within the
  TTL before (`DropHasTwin`); entries leave (`EntriesLeave`).
- **Tracker.** Whatever overlaps, the input count never goes down, and no other count
  does when it is noticed that the transcript was reset (`NoticedResetsLoseNothing`);
  until two hooks overlap, no count exceeds what was spent, whether resets are noticed or
  not, and the registry has the figures (`NeverOvercounts`, `ShowsLatest`). A reset
  that is not noticed loses tokens (below).
- **Subagents.** Up to the first twin or overtaken spawn, a stop completes the
  entry with its agent's ID, never another's (`StopsCompleteTheirOwn`), and
  each stop completes exactly one entry (`StopsBalance`).
- **Everybody who writes to Discord.** What is shown is what the hash gate knows, or a
  preview (`GateKnowsShown`, up to a frame before the handshake); a preview gives
  way unless there is nothing to show or the gate takes it for shown
  (`PreviewGivesWay`); a preview's timer can be stopped by the next one
  (`TimerIsKnown`, up to a request that comes while a timer is ending); nothing
  is shown after the clearing frame but by a straggler (`ClearIsLast`); the loop
  connects in the end (`DiscordIsFound`).
- **Configuration.** Until two writers overlap, the preset is that of the configuration
  (`PresetMatchesConfig`) and a watcher at rest has applied the last usable file
  (`SettlesOnFile`); every save that makes an event is applied in the end, overlap or not
  (`SaveIsApplied`).

### Where code and text disagree

Each `Find*` run checks one sentence of a comment or the changelog and ends with a
behaviour that contradicts it. `PROJECT.json` quotes each sentence.

| Run | What happens |
|---|---|
| `FindSecondWindow` | all hooks report the daemon's parent as PID, so that a second window of a project is never registered |
| `FindStarvedFlush` | a steady stream of changes postpones the flush for ever |
| `FindNoReconnect` | a connection that breaks is not made again: the loop waits for the shutdown once it is connected (`main.go` 516-520) |

Others that the models have as behaviours, without a run of their own:

- the grace callback looks at its context and not at the count, and the loop may not have
  taken an arrival's pulse yet: the daemon exits with a session (`main.go` 451-461);
- a change and its reversal within a cooldown: the gate skips the reversal, and the change,
  pending, is flushed and stays (`coalescer.go` 167-171; `CHANGELOG.md` 54);
- a reset is noticed by the input count alone: with 1 input and 2 output tokens stored, a
  compaction, and a message with 1 input and no output token before the next read, there is
  no baseline, all four counts are overwritten, and their sum drops (`compaction.go` 45-53;
  `tracker.go` 149-157). `CHANGELOG.md` 128 says "Token counts no longer drop after
  context compaction", and `compaction.go` 56 "This recovers the true total". Exactly when
  it happens is `DropsAreMissedResets` (section 5);
- the baselines enter the cost alone: the token counts that the presence and `/status` show are
  without them, and drop at each compaction, noticed or not (`resolver.go` 126-127 and 282-283;
  `server.go` 1352);
- two reads of a transcript that update out of order are taken for a compaction, and
  tokens are counted twice (`tracker.go` 150-155; `compaction.go` 56);
- a preview that has expired stays on Discord when there is no session, or when the presence has not
  changed since the coalescer last sent it (`server.go` 1158; `coalescer.go` 157 and 167);
- the callback of an old preview's timer may reset the state of the new preview, whose timer then
  cannot be stopped (`server.go` 1184 and 1192-1195);
- a callback that is under way at `Shutdown`, a pulse that `Run` takes after it, or a preview may send
  after the clearing frame (`coalescer.go` 249-250; `main.go` 369-372);
- a frame that is written before the handshake succeeds for the client and is dropped by Discord
  with the connection (`client.go` 60 and 83; `coalescer.go` 215-218);
- a reload puts aside the command-line flags (`config.go` 208-212; `watcher.go` 85-88), never
  updates the grace period that `config.go` 34 calls hot-reloadable, and does not pulse: the
  presence changes with the next hook (`main.go` 333-339);
- an edit between `LoadConfig` and `WatchConfig` is not noticed (`main.go` 88 and 312);
- of two reloads under way the one that read the older file may write last (`watcher.go` 77-88);
- the stale checker removes by ID what it found silent on a copy, and may remove a
  session that was heard from, or re-created, since (`stale.go` 11, 34 and 66);
- an agent that both the Agent tool's hook and subagent-start report has two entries,
  and its one stop completes one of them: the other stays working until a stop
  without a better match falls back to it (`server.go` 448-477 and 885-899;
  `tracker.go` 134);
- two first hooks of a session with different PIDs: the second start replaces the
  entry (`registry.go` 90-94 and 114; `registry.go` 39 speaks of the existing session);
- "Back to work" may replace an activity that is not the error overlay any more
  (`server.go` 651-664);
- a cwd-changed hook counts an activity (`server.go` 986-987 and 1022);
- nothing clears the presence after the last session while the daemon runs on
  (`coalescer.go` 155-157; `resolver.go` 29);
- an update that failed before Discord was connected is not sent again, as no pulse
  follows a connection (`coalescer.go` 210-211; `main.go` 511-519);
- two debounce callbacks may use limiter and flush timer at the same time
  (`coalescer.go` 61-62 and 145);
- two equal hooks at the same time both get through the dedup (`hook_dedup.go`
  51-52, 173 and 183), and both pass the throttle (`server.go` 231-232, 612 and 620);
- of two syncs, the one with the older snapshot may write last (`main.go` 548 and 581).

## 4. Fairness

- Handlers and callbacks that have started run on: goroutines are scheduled, and
  no lock is held across a blocking call. Weak fairness per goroutine.
- Timers fire and tickers tick: weak fairness of time and of each timer.
- Nothing obliges a client to send a hook, or Discord to be there: no fairness
  for the environment.

`SilentSessionsLeave` needs the stale checker to take snapshots and act on them.
`DaemonEnds` needs the loop, the timer and its callback. `DiscordIsFound` needs a loop that dials and a
Discord that is there: weak fairness of `Dial` and `GreetFails`, and strong fairness of
`Greet`, as a frame before the handshake may disable it time and again. `SaveIsApplied`
needs the watch loop, its timer and the callbacks it starts. `ImplementsDelivery` has the
fairness of `DeliverySpec` from that of the callbacks. `PendingDrains` and
`FindStarvedFlush` need timers and callbacks; the counterexample of the latter
is a fair behaviour.

## 5. Proofs

All theorems hold for every value of the constants that meets the module's named
assumption, thus for any number of sessions, goroutines and ticks.

| Theorem | Statement | Argument |
|---|---|---|
| `RegistryTyped`, `RegistryKeys` | types; keys match sources | inductive as they stand, one step per method |
| `RegistrySeparatesWindows` | `SeparateWindows` | inductive together with `KeysMatchSources`: an upgrade puts the new entry where the old one was, and only the key's source tells that the new one is a Claude session |
| `RegistryNeverDowngrades`, `RegistryUpgradeKeepsHistory` | the two action properties | from `KeysMatchSources` and the choice of `Decisive` |
| `HandlersTyped` | types of requests under way | each call of a request keeps what its lookup established |
| `HandlersImplementRegistry` | handlers refine the registry | each action is one registry call, or leaves it alone |
| `HandlersSeparateWindows`, `HandlersInherit` | the registry's and the resolver's properties for the interleaved handlers | by the refinement |
| `AutoExitImplementsRegistry` | the auto-exit loop refines the registry | it takes pulses and counts |
| `ResolverIsPulsed` | `ChangeIsPulsed` | case by case: a method pulses, or all it changes is a clock, or nothing |
| `ResolverShowsMostRecent` | `ShowsMostRecent`, for any set of IDs | the loop over the snapshot is a chain of best sessions (`IsLoop`); that each beats all sessions before it is an induction over the length of the chain, done with a smallest counterexample (`AllNumbers`). A snapshot has every session because the map is finite (`FinitelyMany`, inductive: a method adds one entry at most) |
| `AutoExitTyped`, `AutoExitSeesArrivals` | no stray timer; arrivals are noticed | strengthened by `ZeroIsCurrent`: when the loop is about to arm on a count of zero and a session is registered, its pulse is in the channel |
| `CoalescerTyped`, `CoalescerStrandsNothing` | types; nothing pending is stranded | the slot is filled only by a callback that goes on to book, and a booking replaces a booking |
| `CoalescerKeepsRateLimit`, `CoalescerHashMatchesShown` | with `~SlowCallbacks`, the rate and the gate | every update that is sent has a token of its own: tokens booked, under way and seen by Discord are counted together; prompt callbacks make the steps of one flush happen within a tick and one at a time |
| `CoalescerBoundsLateness` | slow callbacks, too: Discord sees at most one update per callback beyond its rate, `meter <= Capacity + Interval * Cardinality(Callbacks)` | `LateBudget`: each update that is held (by a callback past its booking, or by a timer that is due) accounts for one interval of the bound, and the meter and the bucket fit in the rest. `FlushWaits`: a timer waits for the bucket to reach zero, so that Discord has forgotten as much when it is due, and its owner has let go by then. The bound is sharp: TLC finds a behaviour that reaches it with two callbacks, and none beyond |
| `CoalescerDelivers` | the coalescer implements the safety part of `Delivery` | a callback carries an update exactly between swap and hash; every step is a step of `Delivery` on what is carried, or a stutter |
| `DedupTyped`, `DedupLosesNoEvent` | entries are never younger than what was served; drops have a twin | the first is the invariant that carries the second |
| `TrackerTyped`, `ResetsAreBanked` | types; a reset that is noticed loses no count, and the input count never goes down | only an update changes the counts; when the input count shrinks it moves all that was stored to the baseline, otherwise the input count has not shrunk (`UpdateEffect`, `UpdateOfEffective`) |
| `DropsAreMissedResets` | the sum of the four counts drops in a step exactly when that is an update with fewer tokens than are stored and no lower input count | the same, summed up: where the promise of the changelog fails, and that it fails nowhere else |
| `SubagentsTyped`, `StopsMatchExactly` | types; until a twin or an overtaken spawn, an entry with an agent's ID is completed when that agent has stopped, and not before | when a stop is handled for the first time and after its spawns, and subagent-start is installed, the entry with its ID is there (`Reported`), is the only one (`ReportedOnce`) and is working, so that the exact match finds it and nothing else; when subagent-start is not installed no entry has an ID (`AsInstalled`) |
| `StopsAreCounted` | until then, as many entries are completed as agents have stopped | a stop must find a working entry: each agent whose spawn was handled has brought one (`EntryForEach`), there is always a hook that reports agents (`SpawnInstalled`), and fewer have stopped than were reported. The last strategy finds the oldest entry only if no two read the clock at the same time (`Timed`, `ReadOnce`) |
| `TotalIsNoOvercount`, `RegistryShowsLatest` | while no two hooks overlap, no count is above what was spent, and the registry has them | `Alone`: at most one worker is at work; `Ledger`: the baseline stands for tokens that compactions took from the transcript, and what is stored is still in the transcript or stands for others of these; `InFlight`: the same for what was read and is about to be stored, next to what is stored. The four counts are compared one by one (`Within`), but reset together; a reset that is not noticed only leaves tokens out. `Copied`: the registry equals the tracker but for a sync under way |
| `PipelineTyped` | types of everybody who writes to Discord | with `ShownWhenUp` (below): a frame before the handshake finds the loop about to greet |
| `PipelineKnowsTimer` | `TimerIsKnown` | with `TimersExclude`: unless a request has come while a timer was ending, none runs beside it |
| `PipelineGateKnows` | `GateKnowsShown` | `ShownWhenUp`: Discord shows nothing of a client that is not connected, and the loop connects it once; `NothingSentYet`: before that the gate knows of nothing, unless a frame was early, so that a connection starts with gate and screen agreed |
| `PipelinePreviewGivesWay` | `PreviewGivesWay` | `SendingHasTimer`: a preview about to be shown has a timer that will end it or one after it; `FlushHasWork`: a flush is booked or under way, never both, and finds the slot full, so that what it shows is newer than the preview |
| `PipelineClearIsLast` | `ClearIsLast` | `HaltedIsIdle`: after `Shutdown` and without stragglers no timer, booking or callback is left that could write |
| `ConfigTyped` | types, and what each writer carries | with `InstallLoads`, only a preset that can be loaded gets as far as being installed, and `WatcherFirst`, nothing of the watcher precedes it |
| `ConfigKeepsPreset` | `PresetMatchesConfig` | `Alone`: at most one writer is at work; `PresetAgrees`: between its two writes the preset is that of what it is about to store, otherwise that of the configuration |
| `ConfigSettlesOnFile` | `SettlesOnFile` | `FileAgrees`: unless an event or the debounce is still to come, what a callback carries or the last one wrote is the file as it is |

What they assume of the constants are facts of the code or of the encoding: timeouts and
counts are numbers, `Nil` is not among the values it stands beside, `onChange` pulses
`update` and `exit`. `CoalescerBoundsLateness` also has `IsFiniteSet(Callbacks)`, without
which its bound is no number.

The two theorems about the rate and the gate assume that callbacks are prompt
(`~SlowCallbacks`), as the runs do; `CoalescerTyped`, `CoalescerStrandsNothing`, `CoalescerDelivers` and
`CoalescerBoundsLateness` hold for slow ones, too. The last one is without a run of its own:
slow callbacks multiply the states (1.2 million with two activities and two callbacks, interval 2,
burst 1, where its invariant was checked first). When reads overlap, the counts may exceed
what was spent (section 3).

Every invariant and every action property that a passing run checks is thus a theorem.
Model-checked only is liveness (`SilentSessionsLeave`, `DaemonEnds`, `PendingDrains`,
`EntriesLeave`, `DiscordIsFound`, `SaveIsApplied`, and the fairness of `ImplementsDelivery`),
as fairness and `ENABLED` are out of the prover's reach. So are the induction theorems of the library,
which take an operator; an induction over numbers can still be done on the set of the numbers that
fail, which is how the resolver's loop is proved. Its sums over the sessions of a project, and
what `ParseTranscript` adds up, are not. No module has `RECURSIVE` operators.

## 6. Not modelled, and the plan

The order is that of importance for the user's view of the system; all of these are
done.

1. `SessionRegistry`, 2. `HookHandlers`, 3. `AutoExit`, 4. `Coalescer`,
5. `HookDedup`, 6. `TokenTracker`, 7. `Subagents`, 8. `PresencePipeline`, which has the
connection loop, too, 9. `Delivery`, 10. `ConfigReload`, 11. `Resolver`.

Left to do: what the resolver shows of several windows of a project (its sums), and
the converse of the exit, that the daemon ends itself only after a full grace period without an
abort.

Not modelled, and why:

- **Launcher scripts.** They count references and write PID files. What they count
  depends on the host: whether `$PPID` is the Claude window or a shell that
  lives for one hook, and which events run the script. Nothing in the
  repository settles that, and a model would be of a guess.
- **Persistence.** The daemon writes the analytics files after each event and never reads them:
  `LoadSession` is called by tests only. A crash in the middle of a write has no reader.
- **Tracker.** Tool counts and the set of compactions only grow under the tracker's mutex and are copied
  with the rest of the snapshot; several models of one session are updated one by one, each as the one here.
- **Rest.** Rendering of text in resolver and presets, pricing, logging, release tooling
  and skills keep no state that others depend on.
