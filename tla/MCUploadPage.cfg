SPECIFICATION FairSpec
CONSTANTS
  s1 = s1  s2 = s2
  Slugs <- TwoSlugs
  Secret = Secret  Key = Key  None = None
  Selections <- SomeFiles
  Envs <- SomeEnvs
  Tomls <- SomeTomls
  Origins <- SomeOrigins
CHECK_DEADLOCK FALSE
INVARIANTS
  TypeOK
  ShowsOwnOutcome
  LinksLeadBack
  SettingsHold
PROPERTIES
  ButtonReturns
