SPECIFICATION ProcessSpec
CONSTANTS
  Views = {"requests", "locks"}
  Figures = {"x", "y"}
  Tabs = {t1, t2}
  Keys = {"SQLTOP_CONN", "SQLTOP_CONN_PROD", "PROD"}
  Mentioning = {"SQLTOP_CONN", "SQLTOP_CONN_PROD"}
  Values = {"", "old", "theirs", "mine", "yours"}
  Typed = {"mine", "yours"}
  None = None
  Other = Other
  MaxStarts = 2
  MaxPosts = 2
  Catalogue <- MCCatalogue
  Groups <- MCGroups
  Files <- MCFiles
  Posts <- MCPosts
  Setups <- MCSetups
INVARIANTS
  NoSaveIsUndone
  OneLogin
  SavedIsRead
PROPERTY
  ArrivalsAreServed
CHECK_DEADLOCK FALSE
