CONSTANTS
  NULL = NULL
  HalfA = {a1, a2, a3, a4}
  HalfB = {b1, b2, b3, b4}
  Nodes <- AllNodes
SPECIFICATION Spec
SYMMETRY NodeSymmetry
INVARIANTS TypeOK RedBlack TraversalInOrder
PROPERTY ImplementsOrderedList
