SPECIFICATION Spec
CONSTANTS
  Commons = commons
  Drawer = drawer
  Folder = "vault"
  Absent = Absent
  Files <- SomeFiles
  Texts <- SomeTexts
  Works <- SomeWorks
  MaxEpoch = 1
INVARIANTS SettledAsTexts NothingWrittenIsLost ConflictsAreReal KeysOnlyHelp SidesAlike
CHECK_DEADLOCK FALSE
