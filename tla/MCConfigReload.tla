-------------------------- MODULE MCConfigReload --------------------------
(* Two presets and a misspelt one, a language without translation, a       *)
(* misspelt detail level, and a -preset flag.                              *)
EXTENDS ConfigReload

CONSTANTS minimal, hacker, typo

MCDefault  == [preset |-> minimal, lang |-> "en", detail |-> "minimal"]
MCEnv      == [preset |-> Unset, lang |-> Unset, detail |-> Unset]
MCContents ==
  {[preset |-> hacker,  lang |-> Unset, detail |-> "verbose"],
   [preset |-> hacker,  lang |-> "de",  detail |-> Unset],
   [preset |-> Unset,   lang |-> "fr",  detail |-> "loud"],
   [preset |-> minimal, lang |-> "en",  detail |-> "verbose"],
   [preset |-> typo,    lang |-> "de",  detail |-> Unset]}
=============================================================================
