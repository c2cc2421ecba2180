SPECIFICATION LogSpec
CONSTANTS
  Threads = {main, u1}
  Loader = main
  NoThread = nobody
  Names = {"root", "a"}
  RootName = "root"
  Docs <- MCDocs
  UserLevels = {2}
  MaxLoggers = 3
  Known = {"m"}
  Unknown = {"x"}
  Other = {"-"}
  MaxLen = 6
INVARIANTS
  SameLogger NoHalfConfigured RemovedSilent Applied CrashOnlyOnBadDoc
  ThrowsIfUnreadable NothingDropped
PROPERTY
  LoopsAdvance
