------------------------- MODULE ConfigReloadProofs -------------------------
(***************************************************************************)
(* For every set of presets, languages, writers and files: two writers     *)
(* that do not overlap leave preset and configuration in agreement, and    *)
(* the watcher settles on the file.  Both rest on what a writer carries    *)
(* from one step to the next.                                              *)
(***************************************************************************)
EXTENDS ConfigReload, TLAPS

\* Only a configuration whose preset can be loaded gets as far as "install".
InstallLoads == \A r \in Reloads : ReloadAt(r, "install") => Loads(reloads[r].new.preset)

\* Without the watcher there is no event, no timer and no callback.
WatcherFirst ==
  ~watching => ~event /\ ~debounce /\ writer # "file" /\ \A r \in Reloads : reloads[r] = Nil

\* At most one writer is at work.
Alone ==
  /\ \A r, s \in Reloads : reloads[r] # Nil /\ reloads[s] # Nil => r = s
  /\ \A g, h \in Posts : posts[g] # Nil /\ posts[h] # Nil => g = h
  /\ \A r \in Reloads, h \in Posts : reloads[r] = Nil \/ posts[h] = Nil

Holds(new) == Loads(new.preset) /\ current = LoadPreset(new.preset, new.lang)

Writing == \/ \E r \in Reloads : ReloadAt(r, "install") \/ ReloadAt(r, "configure")
           \/ \E h \in Posts : posts[h] # Nil

\* The preset is that of the configuration, or of the one about to be written.
PresetAgrees ==
  /\ ~Writing => Holds(cfg)
  /\ \A r \in Reloads : ReloadAt(r, "configure") => Holds(reloads[r].new)
  /\ \A h \in Posts : PostAt(h, "configure") => Holds(posts[h].new)

\* Unless something is still to come, what is carried or was written is the file.
FileAgrees ==
  (~event /\ ~debounce /\ Usable(file)) =>
    /\ (writer = "file" /\ \A r \in Reloads : reloads[r] = Nil) => cfg = Layered(file)
    /\ \A r \in Reloads : (reloads[r] # Nil /\ ~ReloadAt(r, "read")) =>
                            reloads[r].new = Layered(file)

Ranges == ConfigTypeOK /\ InstallLoads /\ WatcherFirst
Agreement == Alone /\ PresetAgrees /\ FileAgrees

ConfigInv == Ranges /\ (~overlap => Agreement)

-----------------------------------------------------------------------------
\* A layer on top of a configuration is a configuration.
LEMMA ApplyTyped ==
  ASSUME NEW layer \in Layer, NEW config \in Settings
  PROVE  Apply(layer, config) \in Settings
<1>1. Or(layer.preset, config.preset) \in Names /\ Or(layer.lang, config.lang) \in Langs
  BY DEF Or, Layer, Settings
<1>2. (IF layer.detail = Unset THEN config.detail ELSE ParseDisplayDetail(layer.detail)) \in Levels
  BY ConfigAssumption DEF ParseDisplayDetail, Settings
<1>3. QED BY <1>1, <1>2 DEF Apply, Settings

LEMMA LayeredTyped == \A contents \in Contents : Layered(contents) \in Settings
BY ApplyTyped, ConfigAssumption DEF Layered

LEMMA LoadConfigTyped ==
  \A contents \in Contents \cup {Broken} : LoadConfig(contents) \in Settings
<1> SUFFICES ASSUME NEW contents \in Contents \cup {Broken}
             PROVE  LoadConfig(contents) \in Settings
  OBVIOUS
<1> DEFINE layered == IF contents = Broken THEN Apply(Env, Default) ELSE Layered(contents)
<1>1. layered \in Settings
  BY ApplyTyped, LayeredTyped, ConfigAssumption
<1>2. Or(FlagPreset, layered.preset) \in Names
  BY <1>1, ConfigAssumption DEF Or, Settings
<1> HIDE DEF layered
<1>3. [layered EXCEPT !.preset = Or(FlagPreset, @)] \in Settings
  BY <1>1, <1>2 DEF Settings
<1>4. QED BY <1>3 DEF LoadConfig, layered

LEMMA LoadPresetTyped == \A name \in Known : \A lang : LoadPreset(name, lang) \in Preset
BY ConfigAssumption DEF LoadPreset, Preset

\* What a callback that is past reading the file carries, and a handler.
LEMMA CallbackFields ==
  ASSUME NEW c \in Callback
  PROVE  /\ c.at \in {"read", "compare", "install", "configure"}
         /\ c.at # "read" => /\ c.new \in Settings
                             /\ c = [at |-> c.at, new |-> c.new]
BY DEF Callback

LEMMA CallbackMade ==
  /\ [at |-> "read"] \in Callback
  /\ \A at \in {"compare", "install", "configure"}, new \in Settings :
       [at |-> at, new |-> new] \in Callback
BY DEF Callback

-----------------------------------------------------------------------------
\* What happens to the file and to the watcher's events keeps everything in range.
LEMMA EventsInRange ==
  ASSUME Ranges,
         \/ \E contents \in Contents \cup {Broken} : Edit(contents)
         \/ Remove \/ WatchConfig \/ OnEvent \/ UNCHANGED configVars
  PROVE  Ranges'
<1>1. /\ UNCHANGED <<reloads, posts, store, overlap>>
      /\ file' \in Contents \cup {Broken} /\ edits' \in 0 .. MaxEdits
      /\ watching' \in BOOLEAN /\ event' \in BOOLEAN /\ debounce' \in BOOLEAN
  <2> USE DEF Ranges, ConfigTypeOK
  <2>1. ASSUME NEW contents \in Contents \cup {Broken}, Edit(contents)
        PROVE  /\ UNCHANGED <<reloads, posts, store, overlap, watching, debounce>>
               /\ file' \in Contents \cup {Broken} /\ edits' \in 0 .. MaxEdits
               /\ event' \in BOOLEAN
    <3>1. edits' \in 0 .. MaxEdits
      BY <2>1, ConfigAssumption DEF Edit
    <3>2. event' \in BOOLEAN
      BY <2>1 DEF Edit
    <3>3. QED BY <2>1, <3>1, <3>2 DEF Edit
  <2>2. CASE Remove
    <3>1. edits' \in 0 .. MaxEdits
      BY <2>2, ConfigAssumption DEF Remove
    <3>2. QED BY <2>2, <3>1 DEF Remove, watcher
  <2>3. CASE WatchConfig \/ OnEvent \/ UNCHANGED configVars
    BY <2>3 DEF WatchConfig, OnEvent, configVars, watcher
  <2>4. QED BY <2>1, <2>2, <2>3
<1>2. ConfigTypeOK' /\ InstallLoads'
  BY <1>1 DEF Ranges, ConfigTypeOK, InstallLoads, ReloadAt, store
<1>3. WatcherFirst'
  BY <1>1 DEF Ranges, ConfigTypeOK, WatcherFirst, store, Edit, Remove, WatchConfig,
              OnEvent, configVars, watcher
<1>4. QED BY <1>2, <1>3 DEF Ranges

\* A callback that goes on, or ends, keeps everything in range.
LEMMA ReloadInRange ==
  ASSUME Ranges, NEW r \in Reloads, TimerFires(r) \/ Reload(r)
  PROVE  Ranges'
<1> USE DEF Ranges
<1>1. reloads[r] # Nil => reloads[r] \in Callback
  BY DEF ConfigTypeOK
<1>2. UNCHANGED <<file, edits, posts, watching, event>> /\ overlap' \in BOOLEAN /\ watching
  BY DEF ConfigTypeOK, WatcherFirst, TimerFires, Reload, ReadFile, Compare, ReloadPreset,
         ReloadConfig, watcher, Enter, ReloadAt, Busy
<1>3. debounce' \in BOOLEAN /\ cfg' \in Settings /\ writer' \in {"start", "file", "post"}
  BY <1>1, CallbackFields
     DEF ConfigTypeOK, TimerFires, Reload, ReadFile, Compare, ReloadPreset, ReloadConfig,
         watcher, store, ReloadAt
<1>4. current' \in Preset
  <2>1. CASE ReloadPreset(r)
    BY <2>1, LoadPresetTyped DEF InstallLoads, ReloadPreset, Loads
  <2>2. CASE ~ReloadPreset(r)
    BY <2>2 DEF ConfigTypeOK, TimerFires, Reload, ReadFile, Compare, ReloadConfig, store
  <2>3. QED BY <2>1, <2>2
<1>5. /\ reloads' = [reloads EXCEPT ![r] = reloads'[r]]
      /\ reloads'[r] \in Callback \cup {Nil}
      /\ (reloads'[r] # Nil /\ reloads'[r].at = "install") => Loads(reloads'[r].new.preset)
  <2>0. \A c : reloads' = [reloads EXCEPT ![r] = c] => /\ reloads'[r] = c
                                                     /\ reloads' = [reloads EXCEPT ![r] = reloads'[r]]
    BY DEF ConfigTypeOK
  <2>1. CASE TimerFires(r)
    <3>1. reloads' = [reloads EXCEPT ![r] = [at |-> "read"]]
      BY <2>1 DEF TimerFires
    <3>2. QED BY <2>0, <3>1, CallbackMade
  <2>2. CASE ReadFile(r)
    <3>1. file # Broken => [at |-> "compare", new |-> Layered(file)] \in Callback
      BY LayeredTyped, CallbackMade DEF ConfigTypeOK
    <3>2. reloads'[r] \in {Nil, [at |-> "compare", new |-> Layered(file)]}
      BY <2>0, <2>2 DEF ReadFile
    <3>3. file = Broken => reloads'[r] = Nil
      BY <2>0, <2>2 DEF ReadFile
    <3>4. QED BY <2>0, <2>2, <3>1, <3>2, <3>3 DEF ReadFile
  <2>3. CASE Compare(r)
    <3> DEFINE new == reloads[r].new
    <3>1. new \in Settings
      BY <1>1, <2>3, CallbackFields DEF Compare, ReloadAt
    <3>2. /\ [at |-> "configure", new |-> new] \in Callback
          /\ [at |-> "install", new |-> new] \in Callback
      BY <3>1, CallbackMade
    <3>3. PICK changed \in BOOLEAN :
            reloads' = [reloads EXCEPT ![r] =
                          IF ~changed THEN [at |-> "configure", new |-> new]
                          ELSE IF Loads(new.preset) THEN [at |-> "install", new |-> new]
                          ELSE Nil]
      BY <2>3 DEF Compare
    <3> HIDE DEF new
    <3>4. reloads'[r] = IF ~changed THEN [at |-> "configure", new |-> new]
                        ELSE IF Loads(new.preset) THEN [at |-> "install", new |-> new]
                        ELSE Nil
      BY <2>0, <3>3
    <3>5. QED BY <2>0, <3>2, <3>3, <3>4
  <2>4. CASE ReloadPreset(r)
    <3>1. [reloads[r] EXCEPT !.at = "configure"] = [at |-> "configure", new |-> reloads[r].new]
      BY <1>1, <2>4, CallbackFields DEF ReloadPreset, ReloadAt
    <3>2. reloads' = [reloads EXCEPT ![r] = [at |-> "configure", new |-> reloads[r].new]]
      BY <2>4, <3>1 DEF ReloadPreset
    <3>3. reloads[r].new \in Settings
      BY <1>1, <2>4, CallbackFields DEF ReloadPreset, ReloadAt
    <3>4. QED BY <2>0, <3>2, <3>3, CallbackMade
  <2>5. CASE ReloadConfig(r)
    BY <2>0, <2>5 DEF ReloadConfig
  <2>6. QED BY <2>1, <2>2, <2>3, <2>4, <2>5 DEF Reload
<1>6. ConfigTypeOK'
  BY <1>2, <1>3, <1>4, <1>5 DEF ConfigTypeOK
<1>7. \A s \in Reloads : reloads'[s] = IF s = r THEN reloads'[r] ELSE reloads[s]
  BY <1>5 DEF ConfigTypeOK
<1>8. InstallLoads'
  BY <1>5, <1>7 DEF InstallLoads, ReloadAt, Loads
<1>9. QED BY <1>2, <1>6, <1>8 DEF WatcherFirst

\* So does a handler.
LEMMA PostInRange ==
  ASSUME Ranges, NEW h \in Posts, Post(h)
  PROVE  Ranges'
<1> USE DEF Ranges
<1>1. posts[h] # Nil =>
        /\ posts[h].at \in {"install", "configure"}
        /\ posts[h].new.preset \in Known /\ posts[h].new.lang \in Langs
        /\ posts[h] = [at |-> posts[h].at, new |-> posts[h].new]
        /\ posts[h].new \in [preset : Known, lang : Langs]
  BY DEF ConfigTypeOK, Request
<1>2. UNCHANGED <<file, edits, watcher, reloads>> /\ overlap' \in BOOLEAN
  BY DEF ConfigTypeOK, Post, PostConfig, PostPreset, PostSettings, Enter, Busy
<1>3. cfg' \in Settings /\ writer' \in {writer, "post"}
  BY <1>1, ConfigAssumption
     DEF ConfigTypeOK, Post, PostConfig, PostPreset, PostSettings, PostAt, store, Settings
<1>4. current' \in Preset
  BY <1>1, LoadPresetTyped DEF ConfigTypeOK, Post, PostConfig, PostPreset, PostSettings, PostAt, store
<1>5. posts' \in [Posts -> Request \cup {Nil}]
  <2>1. ASSUME NEW preset \in Names \cup {Unset}, NEW lang \in Translated \cup {Unset},
               PostConfig(h, preset, lang)
        PROVE  posts' \in [Posts -> Request \cup {Nil}]
    <3> DEFINE new == [preset |-> Or(preset, cfg.preset), lang |-> Or(lang, cfg.lang)]
    <3>1. Or(lang, cfg.lang) \in Langs
      BY ConfigAssumption DEF ConfigTypeOK, Settings, Or
    <3>2. Loads(new.preset) => [at |-> "install", new |-> new] \in Request
      BY <3>1 DEF Request, Loads
    <3> HIDE DEF new
    <3>3. posts' = [posts EXCEPT ![h] = IF Loads(new.preset)
                                        THEN [at |-> "install", new |-> new] ELSE Nil]
      BY <2>1 DEF PostConfig, new
    <3>4. QED BY <3>2, <3>3 DEF ConfigTypeOK
  <2>2. CASE PostPreset(h)
    <3>1. [posts[h] EXCEPT !.at = "configure"] \in Request
      BY <1>1, <2>2 DEF PostPreset, PostAt, Request
    <3>2. QED BY <2>2, <3>1 DEF PostPreset, ConfigTypeOK
  <2>3. CASE PostSettings(h)
    BY <2>3 DEF PostSettings, ConfigTypeOK
  <2>4. QED BY <2>1, <2>2, <2>3 DEF Post
<1>6. ConfigTypeOK'
  BY <1>2, <1>3, <1>4, <1>5 DEF ConfigTypeOK, watcher
<1>7. QED BY <1>2, <1>3, <1>6 DEF WatcherFirst, InstallLoads, ReloadAt, watcher

-----------------------------------------------------------------------------
\* An event of the file, and the watcher's step on it, disturb no agreement.
LEMMA EventsAgree ==
  ASSUME ConfigInv, ~overlap,
         \/ \E contents \in Contents \cup {Broken} : Edit(contents)
         \/ Remove \/ WatchConfig \/ OnEvent \/ UNCHANGED configVars
  PROVE  Agreement'
<1>1. UNCHANGED <<reloads, posts, cfg, current, writer>> /\ Agreement
  BY DEF ConfigInv, Agreement, Edit, Remove, WatchConfig, OnEvent, configVars, store
<1>2. Alone' /\ PresetAgrees'
  BY <1>1 DEF Agreement, Alone, PresetAgrees, Writing, Holds, ReloadAt, PostAt
<1>3. FileAgrees'
  <2>1. CASE \E contents \in Contents \cup {Broken} : Edit(contents)
    <3>1. watching => event'
      BY <2>1 DEF Edit
    <3>2. ~watching => writer' # "file" /\ \A r \in Reloads : reloads'[r] = Nil
      BY <1>1 DEF ConfigInv, Ranges, WatcherFirst
    <3>3. QED BY <3>1, <3>2 DEF FileAgrees
  <2>2. CASE Remove
    BY <2>2 DEF Remove, FileAgrees, Usable
  <2>3. CASE OnEvent
    BY <2>3 DEF OnEvent, FileAgrees
  <2>4. CASE WatchConfig \/ UNCHANGED configVars
    BY <1>1, <2>4 DEF WatchConfig, configVars, watcher, Agreement, FileAgrees, ReloadAt
  <2>5. QED BY <2>1, <2>2, <2>3, <2>4
<1>4. QED BY <1>2, <1>3 DEF Agreement

\* A callback that works alone writes a preset and a configuration that agree,
\* and those of the file as it is unless there is still an event to come.
LEMMA ReloadAgrees ==
  ASSUME ConfigInv, NEW r \in Reloads, TimerFires(r) \/ Reload(r), ~overlap'
  PROVE  Agreement'
<1>1. ~overlap /\ Agreement
  <2>1. Enter \/ overlap' = overlap
    BY DEF TimerFires, Reload, ReadFile, Compare, ReloadPreset, ReloadConfig
  <2>2. ~overlap
    BY <2>1 DEF Enter
  <2>3. QED BY <2>2 DEF ConfigInv, Agreement
<1>2. /\ \A s \in Reloads \ {r} : reloads[s] = Nil
      /\ \A h \in Posts : posts[h] = Nil
  <2>1. CASE TimerFires(r)
    BY <2>1 DEF TimerFires, Enter, Busy
  <2>2. CASE Reload(r)
    <3>1. reloads[r] # Nil
      BY <2>2 DEF Reload, ReadFile, Compare, ReloadPreset, ReloadConfig, ReloadAt
    <3>2. QED BY <1>1, <3>1 DEF Agreement, Alone
  <2>3. QED BY <2>1, <2>2
<1>3. reloads \in [Reloads -> Callback \cup {Nil}]
  BY DEF ConfigInv, Ranges, ConfigTypeOK
<1>4. \A c : reloads' = [reloads EXCEPT ![r] = c] =>
               reloads'[r] = c /\ \A s \in Reloads \ {r} : reloads'[s] = reloads[s]
  BY <1>3
<1>5. UNCHANGED <<file, event, posts>>
  BY DEF TimerFires, Reload, ReadFile, Compare, ReloadPreset, ReloadConfig, watcher
<1>6. \A s \in Reloads \ {r} : reloads'[s] = Nil
  BY <1>2, <1>4 DEF TimerFires, Reload, ReadFile, Compare, ReloadPreset, ReloadConfig
<1>7. Alone'
  BY <1>2, <1>5, <1>6 DEF Alone
<1>8. /\ Writing <=> ReloadAt(r, "install") \/ ReloadAt(r, "configure")
      /\ Writing' <=> ReloadAt(r, "install")' \/ ReloadAt(r, "configure")'
  BY <1>2, <1>5, <1>6 DEF Writing, ReloadAt
<1>9. /\ reloads[r] # Nil => reloads[r] \in Callback
      /\ Nil \notin Callback
  BY <1>3, ConfigAssumption
<1>10. SUFFICES /\ ~Writing' => Holds(cfg)'
                /\ ReloadAt(r, "configure")' => Holds(reloads[r].new)'
                /\ FileAgrees'
  BY <1>2, <1>5, <1>6, <1>7 DEF Agreement, PresetAgrees, ReloadAt, PostAt
<1>11. SUFFICES /\ ~Writing' => Holds(cfg)'
                /\ ReloadAt(r, "configure")' => Holds(reloads[r].new)'
                /\ (~event' /\ ~debounce' /\ Usable(file)) =>
                     /\ (writer' = "file" /\ reloads'[r] = Nil) => cfg' = Layered(file)
                     /\ (reloads'[r] # Nil /\ ~ReloadAt(r, "read")') =>
                          reloads'[r].new = Layered(file)
  BY <1>5, <1>6 DEF FileAgrees
<1>12. CASE TimerFires(r)
  <2>1. reloads'[r] = [at |-> "read"] /\ reloads'[r] # Nil
    BY <1>4, <1>9, <1>12, CallbackMade DEF TimerFires
  <2>2. UNCHANGED <<cfg, current>> /\ ~Writing
    BY <1>8, <1>12 DEF TimerFires, store, ReloadAt
  <2>3. QED BY <1>1, <1>8, <2>1, <2>2 DEF Agreement, PresetAgrees, Holds, ReloadAt
<1>13. CASE ReadFile(r)
  <2>1. /\ file = Broken => reloads'[r] = Nil
        /\ file # Broken => reloads'[r] = [at |-> "compare", new |-> Layered(file)]
    BY <1>4, <1>13 DEF ReadFile
  <2>2. UNCHANGED <<cfg, current>> /\ ~Writing
    BY <1>8, <1>13 DEF ReadFile, store, ReloadAt
  <2>3. file # Broken => reloads'[r] # Nil
    BY <1>9, <2>1, LayeredTyped, CallbackMade DEF ConfigInv, Ranges, ConfigTypeOK
  <2>4. ~ReloadAt(r, "configure")'
    BY <2>1 DEF ReloadAt
  <2>5. ~Writing' => Holds(cfg)'
    BY <1>1, <2>2 DEF Agreement, PresetAgrees, Holds
  <2>6. QED BY <1>5, <2>1, <2>3, <2>4, <2>5 DEF Usable
<1>14. CASE Compare(r)
  <2> DEFINE new == reloads[r].new
  <2>1. UNCHANGED <<cfg, current, writer, event, debounce>> /\ ~Writing /\ ReloadAt(r, "compare")
    BY <1>8, <1>14 DEF Compare, store, watcher, ReloadAt
  <2>2. reloads'[r] = IF ~Differs(new) THEN [at |-> "configure", new |-> new]
                      ELSE IF Loads(new.preset) THEN [at |-> "install", new |-> new]
                      ELSE Nil
    BY <1>2, <1>4, <1>14 DEF Compare, ReloadAt, PostAt
  <2>3. Holds(cfg) /\ (~Differs(new) => Holds(new))
    BY <1>1, <2>1 DEF Agreement, PresetAgrees, Holds, Differs
  <2>4. (~event /\ ~debounce /\ Usable(file)) => new = Layered(file) /\ Loads(new.preset)
    BY <1>1, <2>1 DEF Agreement, FileAgrees, ReloadAt, Usable
  <2> HIDE DEF new
  <2>5. ReloadAt(r, "configure")' => Holds(reloads[r].new)'
    BY <2>1, <2>2, <2>3 DEF ReloadAt, Holds
  <2>6. ~Writing' => Holds(cfg)'
    BY <2>1, <2>3 DEF Holds
  <2>7. (~event /\ ~debounce /\ Usable(file)) =>
          reloads'[r] # Nil /\ reloads'[r].new = Layered(file)
    <3>1. new \in Settings
      BY <1>9, <2>1, CallbackFields DEF ReloadAt, new
    <3>2. /\ [at |-> "configure", new |-> new] \in Callback
          /\ [at |-> "install", new |-> new] \in Callback
      BY <3>1, CallbackMade
    <3>3. QED BY <1>9, <2>2, <2>4, <3>2
  <2>8. QED BY <2>1, <2>5, <2>6, <2>7
<1>15. CASE ReloadPreset(r)
  <2>1. UNCHANGED <<cfg, writer, event, debounce>> /\ ReloadAt(r, "install")
    BY <1>15 DEF ReloadPreset, watcher
  <2>2. reloads'[r] = [at |-> "configure", new |-> reloads[r].new]
    <3>1. reloads[r] = [at |-> "install", new |-> reloads[r].new]
      BY <1>9, <2>1, CallbackFields DEF ReloadAt
    <3>2. [reloads[r] EXCEPT !.at = "configure"] = [at |-> "configure", new |-> reloads[r].new]
      BY <3>1
    <3>3. reloads' = [reloads EXCEPT ![r] = [reloads[r] EXCEPT !.at = "configure"]]
      BY <1>15 DEF ReloadPreset
    <3>4. QED BY <1>4, <3>2, <3>3
  <2>3. Holds(reloads[r].new)'
    BY <1>15, <2>1, <2>2 DEF ReloadPreset, Holds, ConfigInv, Ranges, InstallLoads
  <2>4. reloads'[r] # Nil
    BY <1>9, <2>1, <2>2, CallbackMade, CallbackFields DEF ReloadAt
  <2>5. QED BY <1>1, <1>8, <2>1, <2>2, <2>3, <2>4 DEF Agreement, FileAgrees, ReloadAt
<1>16. CASE ReloadConfig(r)
  <2>1. /\ UNCHANGED <<current, event, debounce>> /\ ReloadAt(r, "configure")
        /\ cfg' = reloads[r].new /\ reloads'[r] = Nil
    BY <1>4, <1>16 DEF ReloadConfig, watcher
  <2>2. QED BY <1>1, <2>1 DEF Agreement, PresetAgrees, FileAgrees, Holds, ReloadAt
<1>17. QED BY <1>12, <1>13, <1>14, <1>15, <1>16 DEF Reload

\* So does a handler, and the file has no say in what it writes.
LEMMA PostAgrees ==
  ASSUME ConfigInv, NEW h \in Posts, Post(h), ~overlap'
  PROVE  Agreement'
<1>1. ~overlap /\ Agreement
  <2>1. Enter \/ overlap' = overlap
    BY DEF Post, PostConfig, PostPreset, PostSettings
  <2>2. ~overlap
    BY <2>1 DEF Enter
  <2>3. QED BY <2>2 DEF ConfigInv, Agreement
<1>2. /\ \A g \in Posts \ {h} : posts[g] = Nil
      /\ \A r \in Reloads : reloads[r] = Nil
  <2>1. CASE posts[h] # Nil
    BY <1>1, <2>1 DEF Agreement, Alone
  <2>2. CASE posts[h] = Nil
    BY <1>1, <2>2 DEF Post, PostConfig, PostPreset, PostSettings, PostAt, Enter, Busy
  <2>3. QED BY <2>1, <2>2
<1>3. posts \in [Posts -> Request \cup {Nil}] /\ Nil \notin Request
  BY ConfigAssumption DEF ConfigInv, Ranges, ConfigTypeOK
<1>4. \A c : posts' = [posts EXCEPT ![h] = c] =>
               posts'[h] = c /\ \A g \in Posts \ {h} : posts'[g] = posts[g]
  BY <1>3
<1>5. UNCHANGED <<file, event, debounce, reloads>>
  BY DEF Post, PostConfig, PostPreset, PostSettings, watcher
<1>6. \A g \in Posts \ {h} : posts'[g] = Nil
  BY <1>2, <1>4 DEF Post, PostConfig, PostPreset, PostSettings
<1>7. Alone'
  BY <1>2, <1>5, <1>6 DEF Alone
<1>8. /\ Writing <=> posts[h] # Nil
      /\ Writing' <=> posts'[h] # Nil
  BY <1>2, <1>5, <1>6 DEF Writing, ReloadAt
<1>9. (UNCHANGED <<cfg, writer>> \/ writer' = "post") /\ \A r \in Reloads : reloads'[r] = Nil
  BY <1>2, <1>5 DEF Post, PostConfig, PostPreset, PostSettings, store
<1>10. FileAgrees'
  BY <1>1, <1>2, <1>5, <1>9 DEF Agreement, FileAgrees
<1>11. SUFFICES /\ posts'[h] = Nil => Holds(cfg)'
                /\ PostAt(h, "configure")' => Holds(posts[h].new)'
  BY <1>2, <1>5, <1>6, <1>7, <1>8, <1>10 DEF Agreement, PresetAgrees, ReloadAt, PostAt
<1>12. ASSUME NEW preset \in Names \cup {Unset}, NEW lang \in Translated \cup {Unset},
              PostConfig(h, preset, lang)
       PROVE  /\ posts'[h] = Nil => Holds(cfg)'
              /\ PostAt(h, "configure")' => Holds(posts[h].new)'
  <2>1. UNCHANGED <<cfg, current>> /\ ~Writing
    BY <1>8, <1>12 DEF PostConfig, store
  <2>2. Holds(cfg)'
    BY <1>1, <2>1 DEF Agreement, PresetAgrees, Holds
  <2> DEFINE new == [preset |-> Or(preset, cfg.preset), lang |-> Or(lang, cfg.lang)]
  <2> HIDE DEF new
  <2>3. posts' = [posts EXCEPT ![h] =
                    IF Loads(new.preset) THEN [at |-> "install", new |-> new] ELSE Nil]
    BY <1>12 DEF PostConfig, new
  <2>4. posts'[h] \in {Nil, [at |-> "install", new |-> new]}
    BY <1>4, <2>3
  <2>5. QED BY <2>2, <2>4 DEF PostAt
<1>13. CASE PostPreset(h)
  <2>1. posts[h] \in Request /\ posts' = [posts EXCEPT ![h] = [posts[h] EXCEPT !.at = "configure"]]
    BY <1>3, <1>13 DEF PostPreset, PostAt
  <2>2. posts'[h] = [at |-> "configure", new |-> posts[h].new] /\ posts'[h] \in Request
    <3>1. [posts[h] EXCEPT !.at = "configure"] = [at |-> "configure", new |-> posts[h].new]
      BY <2>1 DEF Request
    <3>2. [at |-> "configure", new |-> posts[h].new] \in Request
      BY <2>1 DEF Request
    <3>3. QED BY <1>4, <2>1, <3>1, <3>2
  <2>3. Loads(posts[h].new.preset)
    BY <2>1 DEF Request, Loads
  <2>4. QED BY <1>3, <1>13, <2>2, <2>3 DEF PostPreset, Holds
<1>14. CASE PostSettings(h)
  <2>1. posts'[h] = Nil /\ UNCHANGED current /\ PostAt(h, "configure")
    BY <1>4, <1>14 DEF PostSettings
  <2>2. cfg'.preset = posts[h].new.preset /\ cfg'.lang = posts[h].new.lang
    BY <1>14 DEF PostSettings, ConfigInv, Ranges, ConfigTypeOK, Settings
  <2>3. QED BY <1>1, <2>1, <2>2 DEF Agreement, PresetAgrees, Holds, PostAt
<1>15. QED BY <1>12, <1>13, <1>14 DEF Post

-----------------------------------------------------------------------------
LEMMA ConfigStep == ConfigInv /\ [Next]_configVars => ConfigInv'
<1> SUFFICES ASSUME ConfigInv, [Next]_configVars PROVE ConfigInv'
  OBVIOUS
<1>1. Ranges
  BY DEF ConfigInv
<1>2. SUFFICES Ranges' /\ (~overlap' => Agreement')
  BY DEF ConfigInv
<1>3. CASE \/ \E contents \in Contents \cup {Broken} : Edit(contents)
           \/ Remove \/ WatchConfig \/ OnEvent \/ UNCHANGED configVars
  <2>1. overlap' = overlap
    BY <1>3 DEF Edit, Remove, WatchConfig, OnEvent, configVars
  <2>2. QED BY <1>1, <1>3, <2>1, EventsInRange, EventsAgree
<1>4. ASSUME NEW r \in Reloads, TimerFires(r) \/ Reload(r)
      PROVE  Ranges' /\ (~overlap' => Agreement')
  BY <1>1, <1>4, ReloadInRange, ReloadAgrees
<1>5. ASSUME NEW h \in Posts, Post(h)
      PROVE  Ranges' /\ (~overlap' => Agreement')
  BY <1>1, <1>5, PostInRange, PostAgrees
<1>6. QED BY <1>3, <1>4, <1>5 DEF Next

LEMMA ConfigStart == Init => ConfigInv
<1> SUFFICES ASSUME Init PROVE ConfigInv
  OBVIOUS
<1>1. cfg \in Settings /\ current \in Preset
  BY LoadConfigTyped, LoadPresetTyped DEF Init, Loads
<1>2. /\ reloads \in [Reloads -> Callback \cup {Nil}]
      /\ posts \in [Posts -> Request \cup {Nil}]
      /\ \A r \in Reloads : reloads[r] = Nil
      /\ \A h \in Posts : posts[h] = Nil
  BY DEF Init
<1>3. edits \in 0 .. MaxEdits
  BY ConfigAssumption DEF Init
<1>4. ConfigTypeOK
  BY <1>1, <1>2, <1>3 DEF Init, ConfigTypeOK
<1>5. InstallLoads /\ WatcherFirst
  BY <1>2 DEF Init, InstallLoads, WatcherFirst, ReloadAt
<1>6. Alone /\ PresetAgrees /\ FileAgrees
  BY <1>2 DEF Init, Alone, PresetAgrees, Holds, FileAgrees, ReloadAt, PostAt
<1>7. QED BY <1>4, <1>5, <1>6 DEF ConfigInv, Ranges, Agreement

\* The invariant holds in every state the daemon can reach.
THEOREM ConfigInvariant == Spec => []ConfigInv
BY ConfigStart, ConfigStep, PTL DEF Spec

\* The file, the watcher, the writers and what they write stay in range.
THEOREM ConfigTyped == Spec => []ConfigTypeOK
<1>1. ConfigInv => ConfigTypeOK
  BY DEF ConfigInv, Ranges
<1>2. QED BY <1>1, ConfigInvariant, PTL

\* Until two writers overlap, whatever sequence of edits and requests came, the
\* preset in use is the one that the configuration names.
THEOREM ConfigKeepsPreset == Spec => []PresetMatchesConfig
<1>1. ConfigInv => PresetMatchesConfig
  BY DEF ConfigInv, Agreement, PresetMatchesConfig, PresetAgrees, Writing, Holds, Busy, ReloadAt
<1>2. QED BY <1>1, ConfigInvariant, PTL

\* Until two writers overlap, a watcher at rest has applied the last usable save.
THEOREM ConfigSettlesOnFile == Spec => []SettlesOnFile
<1>1. ConfigInv => SettlesOnFile
  BY DEF ConfigInv, Agreement, SettlesOnFile, FileAgrees, Busy
<1>2. QED BY <1>1, ConfigInvariant, PTL
=============================================================================
