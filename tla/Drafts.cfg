\* Two transfers of a file, two local files, three saves of a generated preview, two
\* calls of the player.
SPECIFICATION Spec
CONSTANTS
  \* UploadTransfers
  Files = {f1}
  Transfers = {a, b}
  ChunkCount = 2
  MaxSends = 1
  NoTransfer = NoTransfer
  \* UploadForm
  LocalFiles = {a, b}
  PackageIds = {p, q}
  SaveRequests = {r1, r2}
  MaxStems = 1
  MaxTracks = 1
  NoPackage = NoPackage
  \* GenerationDrafts
  Previews = {g1}
  Saves = {a, b, c}
  MaxRequests = 2
  MaxWindows = 1
  Nothing = Nothing
  \* AudioTools
  MaxOutput = 3
  OutputLimit = 2
  \* TechnicalMeasurement
  MeasuredRevisions = {a, b}
  MeasuringWorkers = {a, b}
  MaxMeasurements = 3
  \* MetadataAnalysis
  AnalysisWorkers = {a, b}
  ModelCount = 2
  MaxPasses = 3
  \* StorageSwitch
  StoredMasters = {a, b}
  \* Player
  PlayedTracks = {a, b}
  PageLength = 2
  Plays = {p, q}
  NoTrack = NoTrack
INVARIANTS
  TypeOK
  CompletionIsAgreed
  AvailableAudioIsStored
  SavesAreOneBatch
  PreviewIsSavedOnceAndWhole
  ResolvedCallIsWhole
  LastPassIssuesStand
  SuggestionsAreOfOneResult
  MovedAudioOpens
  PlayerTellsWhatSounds
CONSTRAINT Bounded
SYMMETRY Symmetry
\* A producer may leave the page for good.
CHECK_DEADLOCK FALSE
