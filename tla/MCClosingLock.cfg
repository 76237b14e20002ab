SPECIFICATION Spec
CONSTANTS
  UserDialogs = {"Prompt", "AddFiles", "ImportNames", "ImportPaths", "Details", "Export", "Discard"}
  StartupJournals = {{}}
  Contents = {"ListA", "ListB"}
  MaxRevision = 2
  MaxPromptId = 2
  MaxLost = 0
  PreferencesPolled = TRUE
INVARIANTS ClosingStaysLocked
