SPECIFICATION Spec
CONSTANTS
  UserDialogs = {"Prompt", "AddFiles", "ImportNames", "ImportPaths", "Details", "Export", "Discard"}
  StartupJournals = {{}, {"Active"}, {"Staged"}, {"Blocked"}}
  Contents = {"ListA", "ListB"}
  MaxRevision = 2
  MaxPromptId = 2
  MaxLost = 0
  PreferencesPolled = TRUE
INVARIANT OwnersConsistent
PROPERTY EffectsMeetTheirList
