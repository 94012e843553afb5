SPECIFICATION FairSpec
CONSTANTS
  minimal = minimal
  hacker = hacker
  typo = typo
  Unset = Unset
  Nil = Nil
  Broken = Broken
  Known = {minimal, hacker}
  Names = {minimal, hacker, typo}
  Langs = {"en", "de", "fr"}
  Translated = {"en", "de"}
  Levels = {"minimal", "verbose"}
  Details = {"minimal", "verbose", "loud"}
  Contents <- MCContents
  Default <- MCDefault
  Env <- MCEnv
  FlagPreset = hacker
  Posts = {h1}
  Reloads = {r1, r2}
  MaxEdits = 2
INVARIANTS
  ConfigTypeOK
  PresetMatchesConfig
  SettlesOnFile
PROPERTIES
  SaveIsApplied
CHECK_DEADLOCK FALSE
