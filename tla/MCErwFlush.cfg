SPECIFICATION MCSpec
CONSTANTS
  CommandLines <- MCCommandLines
  Files <- MCFiles
  MaxFiles = 2
  MaxActions = 3
INVARIANTS EditorsLoaded NoLostEdits TablesAgree LdconfigFindsStrings AllDone
PROPERTIES Finished
