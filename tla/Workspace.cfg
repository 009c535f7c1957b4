\* Two of everything that races: Tracks, people, connections, workers.
SPECIFICATION Spec
CONSTANTS
  \* DemandSheet
  Songs = {a, b}
  Terms = {promo, calm}
  Formats = {promo}
  Tempos = {90}
  MaxTarget = 2
  MaxReferences = 1
  MaxRequirements = 2
  MaxSelections = 1
  MaxBriefs = 2
  \* TeamAccess
  Members = {a, b}
  Free = Free
  \* CatalogSearch
  SearchTracks = {a, b}
  Indexers = {i1, i2}
  Visitors = {v1}
  PageSize = 1
  MaxPage = 2
  \* CopyrightWorkflow
  Tracks = {song}
  Builders = {a, b}
  Observers = {ada}
  MaxBuilds = 1
  MaxBuildAttempts = 2
  MaxRounds = 2
  MaxBatches = 1
  Nobody = Nobody
  \* MediaDelivery
  MediaWorkers = {a, b}
  MaxPackages = 1
  MaxDeliveryJobs = 2
  MaxMediaAttempts = 2
  \* EmbeddingQueue
  EmbeddedTracks = {song}
  EmbeddingWorkers = {a, b}
  MaxTexts = 3
  NoWorker = NoWorker
INVARIANTS
  TypeOK
  AcceptedAnswersBrief
  ReadyCanBeFulfilled
  OfferedArtifactExists
  ReadyMediaIsStored
  StaleVectorsAreNoticed
PROPERTIES
  AnAdminRemains
  WithdrawnTracksAreNotShown
  SettledWorkStays
CONSTRAINT Bounded
SYMMETRY Symmetry
\* A job whose attempts are spent, and work that waits for a person, may wait for ever.
CHECK_DEADLOCK FALSE
