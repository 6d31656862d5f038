CONSTANTS
  Kinds <- ListKinds
  Data <- ListData
  Index <- Indexes
  MaxObj = 3
  MaxSize = 1
SPECIFICATION Spec
INVARIANTS
  ListsWellLinked
  TablesAgree
PROPERTIES
  ListsAreDeques
  HashesAreMaps
  ListTblKeeps
CHECK_DEADLOCK FALSE
