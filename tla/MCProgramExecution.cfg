CONSTANTS
    IntMin <- MCIntMin
    IntMax <- MCIntMax
    Doubles <- MCDoubles
    ZeroDouble <- MCZeroDouble
    DoubleLess <- MCDoubleLess
    DoubleEqual <- MCDoubleEqual
    DoubleOp <- MCDoubleOp
    ToDouble <- MCToDouble
    Rounded <- MCRounded
    Strings <- MCStrings
    Text <- MCText
    Programs <- MCPrograms
    Storages <- MCStorages
SPECIFICATION Spec
INVARIANTS TypesAreStatic
