SPECIFICATION Spec
CONSTANTS
  Images = {1, 2, 3}
  Aliases = {"a", "b"}
  InDir = {"a", "b"}
  Users = {"u"}
  Keep = 2
  MaxPrunes = 2
  MaxSwaps = 2
  MaxOpens = 1
  Docs = {1, 2}
  Titles = {"letter"}
  TitleOf <- MCTitleOf
  Runs = {"r"}
  MaxVersion = 2
  MaxStarts = 3
  Vols = {"home", "nas"}
  Workers = {"w"}
  MaxPages = 2
  Attached = {"nas"}
  MaxOutages = 2
  Machines = {1, 2, 3}
  KindOf <- MCKindOf
  Disks = {1, 2, 3, 4}
  HostOf <- MCHostOf
  Structural = {2}
  MaxGathers = 2
  TreeFiles = {"f"}
  NestedFiles = {"g"}
  Procs = {1, 2, 3}
  Foreign = {3}
  Running = {1}
  ColdAfter = 2
  AtimeLag = 2
  MaxTick = 3
  MaxDoings = 2
  Marks <- MCMarks
  RecipeKinds = {"python", "conda"}
  RootLevel = 2
  MaxMarks = 1
  MaxMoves = 1
  Resources = {"home"}
  Terms <- MCTerms
  Policies <- MCPolicies
  MaxInode = 3
  MaxApplied = 2
  MaxTampering = 2
  MaxChanges = 2
  Launches = 3
  BindHost <- MCBind
  Stops = {"s"}
  Listed = {1, 2, 3, 4}
  Facts <- MCFacts
  ClassOf <- MCClassOf
  Tables <- MCTables
  Skews = {0, 1}
  MaxNow = 2
  MaxTouches = 3
  Found = {1, 2, 3}
  Tops = {1, 2, 3}
  Under <- MCUnder
  Texts = {"a", "b", "c"}
  SizeOf <- MCSizeOf
  MaxRewrites = 1
  Children = 2
  Nodes = {"x", "y"}
  ChildOf <- MCChildOf
  DeepNodes = {"y"}
  MinFiles = 1
  MinAge = 1
  MaxClock = 2
  MaxStirs = 2
INVARIANTS TypeOK KeepsEnough IndexIsTrue FiledIsRecoverable StatusIsHonest FullIsNeverGreen PagesAgree MovableIsCold HolderIsSeen RecipeIsTrue ReadyIsApplied ServerIsKnown CoveredIsProven FindingIsTrue StakeCoversFinding OfferedIsLeftAlone
PROPERTIES LiveIsRemovedOnlyInWindow OnlyDirectCallsHang
CHECK_DEADLOCK FALSE
