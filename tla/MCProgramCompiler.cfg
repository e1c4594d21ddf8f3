CONSTANTS
    DataTypes <- ContextTypes
    FunctionIds <- ContextIds
    Functions <- MCFunctions
    Variables <- MCVariables
    OutOfRange <- MCOutOfRange
    Inputs <- MCInputs
SPECIFICATION FairProgramSpec
INVARIANTS PositionInBounds NoExceptionEscapes NodesFormTree CompilesTheProgram
PROPERTY CompileReturns
