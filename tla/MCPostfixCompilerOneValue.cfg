CONSTANTS
    DataTypes <- ContextTypes
    FunctionIds <- MCFunctionIds
    Functions <- MCFunctions
    Variables <- MCVariables
    OutOfRange <- MCOutOfRange
    Inputs <- MCParenthesized
SPECIFICATION Spec
INVARIANT LeavesOneValue
