---------------------------- MODULE ConfigReload ----------------------------
(***************************************************************************)
(* The configuration at run time: the file watcher (config/watcher.go) and *)
(* POST /config (server.go) both load a preset and then write preset and   *)
(* configuration, in main.go, each under a lock of its own.                *)
(*                                                                         *)
(* A configuration is its preset name, language and detail level: port,    *)
(* addresses and intervals are read once at the start and never again, and *)
(* log level and features have no effect on the presence.  A preset is the *)
(* name and language it was loaded for.                                    *)
(***************************************************************************)
EXTENDS Naturals

CONSTANTS
  Known,       \* presets that are embedded
  Names,       \* preset names that a file or a request may have
  Langs,       \* languages that a file may have
  Translated,  \* languages of the embedded presets
  Levels,      \* detail levels, "minimal" among them
  Details,     \* detail levels that a file may name
  Contents,    \* what files say, of all they could say
  Broken,      \* a file that is missing, truncated or no JSON
  Default,     \* config.Defaults()
  Env,         \* CC_DISCORD_PRESET, CC_DISCORD_LANG, CC_DISCORD_DISPLAY_DETAIL
  FlagPreset,  \* -preset
  Posts,       \* bound: requests to POST /config at one time
  Reloads,     \* bound: reload callbacks at one time
  MaxEdits,    \* bound: edits of the file
  Unset,       \* a field that is left out
  Nil          \* no callback, no handler

Settings == [preset : Names, lang : Langs, detail : Levels]
Preset   == [name : Known, lang : Translated]

\* A layer of the configuration leaves out some of the fields.
Layer == [preset : Names \cup {Unset}, lang : Langs \cup {Unset},
          detail : Details \cup {Unset}]

\* What a reload callback and a handler hold between two steps.
Callback == [at : {"read"}] \cup [at : {"compare", "install", "configure"}, new : Settings]
Request  == [at : {"install", "configure"}, new : [preset : Known, lang : Langs]]

ASSUME ConfigAssumption ==
  /\ Known \subseteq Names /\ "minimal" \in Levels
  /\ "en" \in Translated /\ Translated \subseteq Langs
  /\ Default \in Settings
  /\ Contents \subseteq Layer /\ Broken \notin Contents
  /\ Env \in Layer /\ FlagPreset \in Names \cup {Unset}
  /\ Unset \notin Names \cup Langs \cup Details
  /\ Nil \notin Callback \cup Request
  /\ MaxEdits \in Nat

VARIABLES
  file,       \* the config file
  edits,      \* how often it was edited
  watching,   \* the watcher is installed
  event,      \* events of the file wait in watcher.Events
  debounce,   \* the watcher's timer runs
  reloads,    \* per callback: Nil, or its step, the new configuration and preset
  posts,      \* per handler: the same
  cfg,        \* cfg.Preset, cfg.Lang, cfg.DisplayDetail
  current,    \* currentPreset
  writer,     \* history: who wrote cfg last, "start", "file" or "post"
  overlap     \* history: two of them have been at work at the same time

store == <<cfg, current, writer>>
watcher == <<watching, event, debounce>>
configVars == <<file, edits, watcher, reloads, posts, store, overlap>>

Or(value, otherwise) == IF value = Unset THEN otherwise ELSE value

-----------------------------------------------------------------------------
\* LoadPresetWithLang fails for a name that is not embedded, and falls back to
\* English for a language that the preset does not have.
Loads(name) == name \in Known
LoadPreset(name, lang) ==
  [name |-> name, lang |-> IF lang \in Translated THEN lang ELSE "en"]

\* Mutant of ParseDisplayDetail: the name is taken as it is.
TakeDetail(name) == name

\* ParseDisplayDetail: an unknown name is the minimal level.
ParseDisplayDetail(name) == IF name \in Levels THEN name ELSE "minimal"

\* applyFileConfig and applyEnvVars: what a layer sets replaces what was there.
Apply(layer, config) ==
  [preset |-> Or(layer.preset, config.preset),
   lang   |-> Or(layer.lang, config.lang),
   detail |-> IF layer.detail = Unset THEN config.detail
              ELSE ParseDisplayDetail(layer.detail)]

Layered(contents) == Apply(Env, Apply(contents, Default))

\* LoadConfig, at the start: a broken file is left out, and the flag comes last.
LoadConfig(contents) ==
  LET layered == IF contents = Broken THEN Apply(Env, Default) ELSE Layered(contents)
  IN  [layered EXCEPT !.preset = Or(FlagPreset, @)]

Busy == (\E r \in Reloads : reloads[r] # Nil) \/ (\E h \in Posts : posts[h] # Nil)
Enter == overlap' = (overlap \/ Busy)

ReloadAt(r, step) == reloads[r] # Nil /\ reloads[r].at = step
PostAt(h, step)   == posts[h] # Nil /\ posts[h].at = step

-----------------------------------------------------------------------------
\* Someone saves the file, or has it half written when a write is notified.
Edit(contents) ==
  /\ edits < MaxEdits /\ contents # file
  /\ edits' = edits + 1
  /\ file' = contents
  /\ event' = (event \/ watching)
  /\ UNCHANGED <<watching, debounce, reloads, posts, store, overlap>>

\* The file is removed, of which the watch loop takes no notice.
Remove ==
  /\ edits < MaxEdits /\ file # Broken
  /\ edits' = edits + 1
  /\ file' = Broken
  /\ UNCHANGED <<watcher, reloads, posts, store, overlap>>

\* WatchConfig runs long after LoadConfig: an edit in between makes no event.
WatchConfig ==
  /\ ~watching
  /\ watching' = TRUE
  /\ UNCHANGED <<file, edits, event, debounce, reloads, posts, store, overlap>>

\* Mutant of OnEvent: events are dropped while a reload is under way.
OnEventWhenIdle ==
  /\ event
  /\ event' = FALSE
  /\ debounce' = (debounce \/ \A r \in Reloads : reloads[r] = Nil)
  /\ UNCHANGED <<file, edits, watching, reloads, posts, store, overlap>>

\* runWatchLoop: every event starts the timer anew.
OnEvent ==
  /\ event
  /\ event' = FALSE
  /\ debounce' = TRUE
  /\ UNCHANGED <<file, edits, watching, reloads, posts, store, overlap>>

TimerFires(r) ==
  /\ debounce /\ reloads[r] = Nil
  /\ debounce' = FALSE
  /\ reloads' = [reloads EXCEPT ![r] = [at |-> "read"]]
  /\ Enter
  /\ UNCHANGED <<file, edits, watching, event, posts, store>>

\* LoadConfigFile: a file that cannot be read or parsed ends the callback.
ReadFile(r) ==
  /\ ReloadAt(r, "read")
  /\ reloads' = [reloads EXCEPT ![r] =
                   IF file = Broken THEN Nil ELSE [at |-> "compare", new |-> Layered(file)]]
  /\ UNCHANGED <<file, edits, watcher, posts, store, overlap>>

\* Mutant of Differs: only the name is compared.
DiffersInName(new) == new.preset # cfg.preset

Differs(new) == new.preset # cfg.preset \/ new.lang # cfg.lang

\* onReload compares without the lock: while another one is writing cfg, strings
\* may be read torn, and the comparison may have either result.
Compare(r) ==
  LET new == reloads[r].new
  IN  /\ ReloadAt(r, "compare")
      /\ \E changed \in BOOLEAN :
           /\ \/ changed = Differs(new)
              \/ \E h \in Posts : PostAt(h, "configure")
              \/ \E other \in Reloads \ {r} : ReloadAt(other, "configure")
           /\ reloads' = [reloads EXCEPT ![r] =
                 IF ~changed THEN [at |-> "configure", new |-> new]
                 ELSE IF Loads(new.preset) THEN [at |-> "install", new |-> new]
                 ELSE Nil]
      /\ UNCHANGED <<file, edits, watcher, posts, store, overlap>>

ReloadPreset(r) ==
  /\ ReloadAt(r, "install")
  /\ current' = LoadPreset(reloads[r].new.preset, reloads[r].new.lang)
  /\ reloads' = [reloads EXCEPT ![r].at = "configure"]
  /\ UNCHANGED <<file, edits, watcher, posts, cfg, writer, overlap>>

ReloadConfig(r) ==
  /\ ReloadAt(r, "configure")
  /\ cfg' = reloads[r].new
  /\ writer' = "file"
  /\ reloads' = [reloads EXCEPT ![r] = Nil]
  /\ UNCHANGED <<file, edits, watcher, posts, current, overlap>>

-----------------------------------------------------------------------------
(* handleConfigUpdate lets languages "en" and "de" through, and onConfig   *)
(* fills in what the request leaves out from cfg.                          *)
PostConfig(h, preset, lang) ==
  /\ posts[h] = Nil
  /\ ~(preset = Unset /\ lang = Unset)
  /\ LET new == [preset |-> Or(preset, cfg.preset), lang |-> Or(lang, cfg.lang)]
     IN  posts' = [posts EXCEPT ![h] =
                     IF Loads(new.preset) THEN [at |-> "install", new |-> new] ELSE Nil]
  /\ Enter
  /\ UNCHANGED <<file, edits, watcher, reloads, store>>

PostPreset(h) ==
  /\ PostAt(h, "install")
  /\ current' = LoadPreset(posts[h].new.preset, posts[h].new.lang)
  /\ posts' = [posts EXCEPT ![h].at = "configure"]
  /\ UNCHANGED <<file, edits, watcher, reloads, cfg, writer, overlap>>

PostSettings(h) ==
  /\ PostAt(h, "configure")
  /\ cfg' = [cfg EXCEPT !.preset = posts[h].new.preset, !.lang = posts[h].new.lang]
  /\ writer' = "post"
  /\ posts' = [posts EXCEPT ![h] = Nil]
  /\ UNCHANGED <<file, edits, watcher, reloads, current, overlap>>

-----------------------------------------------------------------------------
\* The daemon has started, so that MustLoadPresetWithLang has not panicked.
Init ==
  /\ file \in Contents \cup {Broken} /\ edits = 0
  /\ cfg = LoadConfig(file) /\ Loads(cfg.preset)
  /\ current = LoadPreset(cfg.preset, cfg.lang)
  /\ watching = FALSE /\ event = FALSE /\ debounce = FALSE
  /\ reloads = [r \in Reloads |-> Nil] /\ posts = [h \in Posts |-> Nil]
  /\ writer = "start" /\ overlap = FALSE

Reload(r) == ReadFile(r) \/ Compare(r) \/ ReloadPreset(r) \/ ReloadConfig(r)

Post(h) ==
  \/ \E preset \in Names \cup {Unset}, lang \in Translated \cup {Unset} :
       PostConfig(h, preset, lang)
  \/ PostPreset(h) \/ PostSettings(h)

Next ==
  \/ \E contents \in Contents \cup {Broken} : Edit(contents)
  \/ Remove
  \/ WatchConfig \/ OnEvent
  \/ \E r \in Reloads : TimerFires(r) \/ Reload(r)
  \/ \E h \in Posts : Post(h)

Spec == Init /\ [][Next]_configVars

\* The watch loop and the callbacks run, and timers fire.
FairSpec ==
  /\ Spec
  /\ WF_configVars(OnEvent) /\ WF_configVars(\E r \in Reloads : TimerFires(r))
  /\ \A r \in Reloads : WF_configVars(Reload(r))

-----------------------------------------------------------------------------
\* Every writer holds what its step needs.
ConfigTypeOK ==
  /\ file \in Contents \cup {Broken} /\ edits \in 0 .. MaxEdits
  /\ watching \in BOOLEAN /\ event \in BOOLEAN /\ debounce \in BOOLEAN
  /\ reloads \in [Reloads -> Callback \cup {Nil}]
  /\ posts \in [Posts -> Request \cup {Nil}]
  /\ cfg \in Settings /\ current \in Preset
  /\ writer \in {"start", "file", "post"} /\ overlap \in BOOLEAN

\* The presence speaks the preset and language that /status reports: whatever
\* sequence of edits and requests, currentPreset is the preset of cfg, and one
\* that exists.  Up to the first two writers at one time, as preset and
\* configuration are written in two critical sections (main.go:186-193, 328-338).
PresetMatchesConfig ==
  (~overlap /\ ~Busy) =>
    Loads(cfg.preset) /\ current = LoadPreset(cfg.preset, cfg.lang)

Usable(contents) == contents # Broken /\ Loads(Layered(contents).preset)

\* However saves and half-written states follow each other, the last one that
\* can be used is not lost between event, debounce and reload: when the watcher
\* is at rest and was the last to write, the configuration is that of the file.
SettlesOnFile ==
  (~overlap /\ ~Busy /\ ~event /\ ~debounce /\ writer = "file" /\ Usable(file)) =>
    cfg = Layered(file)

\* Every save that the watcher gets an event for is applied in the end, unless
\* the file becomes unusable first.
SaveIsApplied ==
  (event /\ Usable(file)) ~> (~Usable(file) \/ cfg = Layered(file))
=============================================================================
