CONSTANTS
    DataTypes <- ContextTypes
    FunctionIds <- ContextIds
    Functions <- MCFunctions
    Variables <- MCVariables
    OutOfRange <- MCOutOfRange
    Inputs <- MCInputs
    IntMin <- MCIntMin
    IntMax <- MCIntMax
    Doubles <- MCDoubles
    ZeroDouble <- MCZeroDouble
    DoubleLess <- MCDoubleLess
    DoubleEqual <- MCDoubleEqual
    DoubleOp <- MCDoubleOp
    ToDouble <- MCToDouble
    Rounded <- MCRounded
    Strings <- MCStrings
    Text <- MCText
    Parsed <- MCParsed
    Extract <- MCExtract
    EmptyString <- MCEmptyString
    Words <- MCWords
CONSTRAINT ShortOutput
SPECIFICATION MCFairSpec
INVARIANTS SystemTypeOK OnlyTrapsCrash
PROPERTIES ExecutesTheText ProgramEnds
