SPECIFICATION ControlSpec
CONSTANTS
  a1 = a1  a2 = a2  b1 = b1  b2 = b2  x1 = x1  x2 = x2  x3 = x3  t1 = t1
  NodeId = {x1}  Device = {x2}  PairCode = {x3}  Socket = {a1, a2}  Handler = {b1, b2}
  Unheld = Unheld  NoSocket = NoSocket
  Provider = {x1, x2}  ToolName = {t1}  Contract <- SomeContracts  Setter = {x3}
  NoContract = NoContract  Nobody = Nobody
  Client = {a1, a2}  Grant = {b1, b2}
  CodeLife = 1  AccessLife = 1  RefreshLife = 2  ClientIdle = 3  ClientLimit = 1
  MaxTime = 5  MaxRotations = 2
  Session = {a1, a2}  Visit = {b1, b2}
  IdleWindow = 2  AbsoluteWindow = 3  Pause = 1  LastHour = 3  MaxPassword = 1
  Token = {a1, a2, x3}  NoToken = NoToken
  Note = {x1, x2}  Text = {x1, x2}  Marked = {x2}  Key = {a1, a2}  Nothing = Nothing  MaxCreated = 1
  File = {x1, x3}  PrivatePath = {x3}  RuntimePath = {}  Recorder = {a1, a2}
  BulkFiles = 1  MaxContent = 2
  TVersion = {1, 2, 3}  Body = {a1, a2}  Indexer = {b1, b2}
  Doc = {x1, x2}  TextOf <- SomeTexts  Prefix <- SomePrefixes  EModel = {b1, b2}
  Reindexer = {x1}  Searcher = {x2}
  Operation = {a1, a2, x3}  Wish = {b1, b2}  MaxApplied = 2  MaxRevision = 4
  Editor = {a1, a2}  Interval = {1, 2}  MaxSaves = 2  MaxNow = 3
  SNode = {a1, a2}  Ref = {b1, b2}  MaxProposals = 1
  Dir = x1  MdFile = x2  Hidden = x3  Word = {t1}  NoWord = NoWord  MaxSegments = 2  MaxNotes = 2
  MaxSearchResults = 2  DefaultResults = 1
  BatchTexts = 2  MaxDim = 2  NoNumber = NoNumber
  Slot = {a1, a2}  DRevision = {b1, b2}  DCall = {x1, x2}  NoDelivery = NoDelivery
  FleetNode = {x1, x2}  FleetWorkers = 1  NoEntryYet = NoEntryYet
  Download = {a1, a2}  ArtifactContent = {b1, b2}  ProxyBytes = 2  ChunkBytes = 1
  ChunkRequests = 2  NodeDownloads = 1  LastStep = 1  NoContent = NoContent
  Process = {a1, a2}  Browser = {b1, b2}  SecretName = {x1, x2}  Peer = {t1}  MaxUpdates = 2
  SettingsInput <- SomeInputs  Ambient <- SomeAmbients
  NoKey = NoKey  NoSecret = NoSecret  NoPeer = NoPeer  NoRequest = NoRequest
INVARIANTS
  ControlTypeOK ConnectionsAreCurrent CatalogIsTrue AccessEnds FilesSurvive VersionsAreComplete
  PublishIsAtomic ScoresAreTrue AppliedOnce StageIsSafe ConsumedWasAcked AnswersAreHonest
PROPERTY PruningSparesLive
SYMMETRY Symmetry
CHECK_DEADLOCK FALSE
