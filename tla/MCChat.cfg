SPECIFICATION FairSpec
CONSTANTS
  Catalog <- SomeCommands
  Texts <- SomeTexts
  Longer <- OneKeyMore
  Plain <- SomePlain
  Intents <- SomeIntents
  MaxSessions = 2
  MaxForeign = 1
  Nothing = Nothing
INVARIANTS HeldIsCurrent PromptIsQuiet
PROPERTY CommandReturns
CHECK_DEADLOCK FALSE
