SPECIFICATION CheckpointSpec
CONSTANT FindBound = 4
INVARIANT NeverTruncated
PROPERTIES ResumeLosesNothingSaved SavesNeverRegress
