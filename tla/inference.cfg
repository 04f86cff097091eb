SPECIFICATION FairSpec
CONSTANTS
  RuleFiles = {"first", "second"}
  NoRules = "none"
  DefaultRules = "builtin"
  Rules <- RulesOf
  Normal = "NORMAL"
  Lower <- LowerCase
  Prompts <- SomePrompts
  MailboxSize = 1
  LogSize = 1
  MaxTasks = 2
  MaxEdits = 2
  MaxAsks = 1
INVARIANTS
  OneNodePerTick
  StaleOnlyByOverlap
PROPERTIES
  InferenceRecorded
CHECK_DEADLOCK FALSE
