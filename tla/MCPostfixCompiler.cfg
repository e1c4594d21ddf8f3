CONSTANTS
    DataTypes <- ContextTypes
    FunctionIds <- MCFunctionIds
    Functions <- MCFunctions
    Variables <- MCVariables
    OutOfRange <- MCOutOfRange
    Inputs <- MCInputs
SPECIFICATION FairSpec
INVARIANTS TypeOK NoInternalError CompilesTheGrammar TypesMirrorCode IInv
PROPERTY Terminates

