SPECIFICATION Spec
CONSTANTS
  Inputs <- inputs
  Years <- years
  LanguageOf <- languageOf
  Commands = {"/restart", "/language"}
  Panels = {p}
  MaxEvents = 1
INVARIANTS DoneIffComplete CompleteProfile
PROPERTIES CountsCorrectAnswers OnlyForward
