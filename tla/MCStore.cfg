SPECIFICATION Spec
CONSTANTS
  CrashWindows <- AnyWindow
  TornAppends = TRUE
  Separators = TRUE
  Reuse = {"run"}
  MaxEvents = 4
  MaxKept = 1
INVARIANTS TypeOK NoEventLost ResumableUnlessUnread UniqueSequences
CHECK_DEADLOCK FALSE
