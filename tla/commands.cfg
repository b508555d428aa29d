SPECIFICATION Spec
CONSTANTS
  Parts = {"definition", "library", "selectors", "flash", "recipe", "can", "dbc"}
  Definitions <- SomeDefinitions
  Devices <- SomeDevices
  EnvLibs <- EnvLibraries
  Ifaces = {"vcan0", "vcan1"}
  Strangers <- SomeStrangers
  MaxStarts = 4
  Loadable <- SomeLibraries
  MaxCapacity = 8
  BusCapacity = 4
  TxCapacity = 2
  MaxFrames = 16
  Instances = {"a", "b", "c"}
  Envs = {"lab", "rig"}
  Members <- SomeMembers
  Recipes <- SomeRecipes
  Steps <- SomeSteps
  MaxOthers = 3
  Signals <- SomeSignals
  Selectors <- SomeSelectors
  Raws <- SomeRaws
  Catalog <- SomeCatalog
  EnvSelectors <- SomeEnvSelectors
  MaxSelectors = 3
  Loads <- SomeLoads
  Top = 15
  LinearUnit = 4
  SegmentUnit = 2
  BusMembers = {classic, modern}
  FdMembers = {modern}
  BusFrames <- SomeFrames
  ToolFrames <- SomeToolFrames
  MaxSent = 2
  DbcFiles <- SomeFiles
  DbcValues <- SomeValues
  Width = 4
  Weight <- SomeWeights
  Bits = 16
  MaxBytes = 3
  Classic = 2
  MaxEncodes = 3
INVARIANTS
  
  LibraryWhole
  SelectorsExact
  BytesExact
  CanReadAsSent
  RecipeKept
  RecipeUnrolled
PROPERTIES
  RecipeSteps
  CommandsEnd
