SPECIFICATION Spec
CONSTANTS
  TableNames = {"a", "b", "c", "d"}
  NULL = NULL
  Sessions = {1, 2}
  Scenarios <- Core
INVARIANTS TypeOK KeysHold ReferencesHold RowsValid IdentityDistinct ReferencedByAgrees StoredSyntaxResolves DeleteMeansClosure UpdateFollows OnConflictYields
PROPERTIES StatementsEnd
CHECK_DEADLOCK FALSE
