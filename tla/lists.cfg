CONSTANTS
  n1 = n1
  n2 = n2
  n3 = n3
  Nodes <- ThreeNodes
  NULL = NULL
  Deadlines <- ThreeDeadlines
  LowestPriority = 3
SPECIFICATION Spec
INVARIANTS TypeOK Represents Sorted UpdateCorrect
SYMMETRY Symmetry
