SPECIFICATION Spec
CONSTANTS
    Node = {n1, n2, n3, n4, n5, n6, n7}
    Key <- Keys
    InitSize = 2
    NULL = NULL
SYMMETRY Symmetry
INVARIANTS TypeOK HeapOrder IndexInv
PROPERTY ImplementsBag
