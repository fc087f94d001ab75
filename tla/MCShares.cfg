CONSTANTS
    Junk = Junk
SPECIFICATION MCSpec
INVARIANTS
    ProductsShared
    CoordinateShared
    TablesShared
    HashShared
PROPERTIES
    BothReturn
