SPECIFICATION Spec
CONSTANTS
    NPages = 7
    Reserved = {0}
    PageSize = 2
    MaxSize = 3
    WordSize = 16
    Words = {1}
INVARIANTS
    MetadataIntact
    BlocksDisjoint
    BitmapExact
PROPERTY ImplementsHeap
