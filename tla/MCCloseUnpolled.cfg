SPECIFICATION FairSpec
CONSTANTS
  UserDialogs = {}
  StartupJournals = {{}}
  Contents = {"ListA"}
  MaxRevision = 0
  MaxPromptId = 1
  MaxLost = 0
  PreferencesPolled = FALSE
PROPERTIES CloseCompletes
