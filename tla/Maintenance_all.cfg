SPECIFICATION Spec
CONSTANTS
    Keep = 2
    LastDay = 4
    MaxFailures = 2
    MaxFlips = 2
INVARIANTS FilesAccountedFor BackupOrCause
PROPERTY LastingChangeTold
