SPECIFICATION InputSpec
CONSTANTS
  Tree <- MCTree
  TempNames <- MCTempNames
  Entries <- MCEntries
  Arguments <- MCArguments
  Extensions <- MCExtensions
  MaxEntries = 3
  MaxSize = 4
  RarBuilt = TRUE
INVARIANT DirectoriesOwned
INVARIANT CollectionIsPerArgument
