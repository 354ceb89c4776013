SPECIFICATION Spec
CONSTANTS
  Gap = Gap
  Invalid = Invalid
  NoWindow = NoWindow
  Absent = Absent
  Null = Null
  NaN = NaN
  Wrong = Wrong
  Unset = Unset
  FloorRate = 20
  PeriodNum = 3
  PeriodDen = 2
  RowsPerRead = 3
  EnvelopeJobs <- MCEnvelopeJobs
  PreviewJobs <- MCPreviewJobs
  SelectionJobs <- MCSelectionJobs
  GatorJobs <- MCGatorJobs
  IdeJobs <- MCIdeJobs
  ConfigJobs <- MCConfigJobs
  MessageJobs <- MCMessageJobs
  StorageJobs <- MCStorageJobs
  AttachJobs <- MCAttachJobs
  PrepareJobs <- MCPrepareJobs
  WindowsJobs <- MCWindowsJobs
INVARIANTS
  EnvelopeIsFaithful
  ReadingsAreSound
  DocumentIsExported
  RecordingIsExported
  ConfigurationIsSound
  ExitIsTruthful
  OutputIsAsRequired
  PreparedRecorderIsUsed
CHECK_DEADLOCK FALSE
