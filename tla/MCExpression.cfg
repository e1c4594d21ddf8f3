CONSTANTS
    DataTypes <- ContextTypes
    FunctionIds <- ContextIds
    Functions <- MCFunctions
    Variables <- MCVariables
    OutOfRange <- MCOutOfRange
    Inputs <- MCInputs
    IntMin <- MCIntMin
    IntMax <- MCIntMax
    Doubles <- MCDoubles
    ZeroDouble <- MCZeroDouble
    DoubleLess <- MCDoubleLess
    DoubleEqual <- MCDoubleEqual
    DoubleOp <- MCDoubleOp
    ToDouble <- MCToDouble
    Rounded <- MCRounded
    Strings <- MCStrings
    Text <- MCText
    Parsed <- MCParsed
    Samples <- MCSamples
SPECIFICATION ExprSpec
PROPERTY EvaluatesTheMeaning
