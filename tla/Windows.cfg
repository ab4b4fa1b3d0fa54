SPECIFICATION Spec
CONSTANTS
  Instants <- MCInstants
  MaxMonth = 40
  MaxDelay = 3601
INVARIANTS TypeOK BucketIsWindowStart TTLOutlivesWindow ResetEndsWindow ThursdayWeeksAreLegacyWeeks
