SPECIFICATION Spec
CONSTANT N = 4
INVARIANTS FreeListExact
PROPERTY ImplementsBlockPool
