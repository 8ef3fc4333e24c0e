SPECIFICATION BookSpec
CONSTANTS
  yes = yes
  no = no
  Unsure = Unsure
  Tokens <- MCTokens
  Levels <- MCLevels
  Forms <- MCForms
  Limits <- MCLimits
  MaxSize = 1
  MaxWire = 1
  MaxTasks = 2
INVARIANTS
  SyncedBookIsReal
PROPERTIES
  CachesAreReplicas
  LostBooksComeBack
CHECK_DEADLOCK TRUE
