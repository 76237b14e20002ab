\* One kind of file in each behaviour.
SPECIFICATION Spec
CONSTANTS
  Ordinary = {"Columns"}
  Value = {"V0", "V1"}
  Default = "V0"
  Choices = {"English"}
  SettingsGenerations = 2
  SettingsFaults = 1
  SettingsCrashes = 1
  Languages = {"System", "Korean", "English"}
  LanguageGenerations = 1
  LanguageCrashes = 2
  Processes = {p1, p2}
  Outsider = outsider
  Nobody = nobody
  MaxForeign = 2
  Path = {place1, place2}
  Dir = {folder1, folder2, folder3}
  Attempts = 2
  MaxMoves = 3
CHECK_DEADLOCK FALSE
INVARIANTS
  PreferencesDurable
  StartupExclusive
  EvidenceKept
  ExportWhole
PROPERTIES
  StateSteps
