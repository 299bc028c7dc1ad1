SPECIFICATION Spec
CONSTANTS
  Stride = 3
  MinTransitions = 6
  MinFrames = 6
  TagThreshold <- MCTagThreshold
  MaxTagFrames = 16
  CueGuard = 1
  ActionWindow = 2
  RestWindow = 2
  EventConsistency <- MCEventConsistency
  SegmentStability <- MCSegmentStability
  FlagStability <- MCFlagStability
  MinSamples = 4
  MaxChangedBytes = 2
  ManyChangePenalty <- MCManyChangePenalty
  MinSpearman <- MCMinSpearman
  MaxSlopePairs = 40
  MaxStateSpread <- MCMaxStateSpread
  MinReturnScore <- MCMinReturnScore
  MaxBytes = 3
  ScanFrames = 2
  SegmentFrames = 8
  MinActivity <- MCMinActivity
  MergeRatio <- MCMergeRatio
  GroupJaccard <- MCGroupJaccard
  HubConditional <- MCHubConditional
  HubMinDegree = 2
  DiscoveryFrames = 8
  DiscoveryDistinct = 4
  JitterReference <- MCJitterReference
  MinPairs = 8
  CorrelationDistinct = 2
  MinAbsRho <- MCMinAbsRho
  MaxCandidates = 12
  SynonymStep = 1
  SynonymOverlap = 5
  SynonymThreshold <- MCSynonymThreshold
  NoiseFailRate <- MCNoiseFailRate
  Alpha <- MCAlpha
  RestBefore = 2
  Sanitize <- MCSanitize
  Filler <- MCFiller
  NoText = NoText
  Recordings <- MCRecordings
  Projects <- MCProjects
  Questions <- MCQuestions
  Runs <- MCRuns
  FieldRuns <- MCFieldRuns
  Labels = {"named"}
  DependenceFrames = 12
  AutoSamples = 8
  AutoMin = 2
  AutoMax = 4
  Rolling <- MCRolling
  Copies <- MCCopies
  Pad = 1
  Seconds = 18
  Shown = 5
  Nothing = Nothing
  FrameName <- MCFrameName
  MaxAsked = 2
  MaxKept = 2
  MaxRow = 1
INVARIANTS
  ReadersAgree
  RollingNeverSurfaces
  PackedAgrees
  CopyIsFound
PROPERTIES
  DbcKeepsMeaning
CHECK_DEADLOCK FALSE
