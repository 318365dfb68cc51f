SPECIFICATION Spec
CONSTANTS
  Values = {1, 2, 3, 4, 5, 6}
  Capacity = 5
  Place <- MCPlace
  NoValue = NoValue
INVARIANTS TypeOK NoDuplicates HeapOrdered RootIsWorst
PROPERTY RefinesWorstFirst
