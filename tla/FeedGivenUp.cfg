SPECIFICATION Spec
CONSTANTS
  Tokens = {t1}
  MaxSubscriptions = 1
  BatchSize = 1
  MaxAttempts = 2
  MaxConnects = 3
INVARIANTS
  GivenUpMeansDown
