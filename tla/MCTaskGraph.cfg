SPECIFICATION FairSpec
CONSTANTS
  MaxNodes = 5
  MaxStatic = 2
  MaxContinues = 1
  NoNode = NoNode
  t1 = t1
  Token <- MCToken
  Expansions <- MCExpansions
INVARIANTS
  TypeOK
  UnresolvedExact
  DependenciesFirst
  FailureReachesDependents
  ParentAfterChildren
PROPERTIES
  TerminalIsFinal
  ReadyIsDispatched
  BatchResolves
