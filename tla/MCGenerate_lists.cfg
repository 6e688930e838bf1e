SPECIFICATION Spec
CONSTANTS
  Databases <- MCDatabases
  Spare <- MCSpare
  NewName <- MCNewName
  Filters <- MCFilters
  MaxOthers = 1
  MaxFailures = 1
INVARIANTS
  TypescriptResolves ColumnTypesRight RelationshipsExact EmbedsDeclared ThrowsOnlyIf
  InsertsAgree DeclaredOnce OptionalArgs ReferencesResolve
CHECK_DEADLOCK FALSE
