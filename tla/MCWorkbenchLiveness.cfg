SPECIFICATION FairSpec
CONSTANTS
  UserDialogs = {"ImportPaths"}
  StartupJournals = {{}}
  Contents = {"ListA"}
  MaxRevision = 0
  MaxPromptId = 1
  MaxLost = 1
  PreferencesPolled = TRUE
PROPERTIES CompletionHandled CloseCompletes
