SPECIFICATION Spec
CONSTANTS
    MaxRuns = 1
    MaxRecordings = 2
PROPERTY MountedRecordingIsFound
