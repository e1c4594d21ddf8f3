CONSTANTS
    DataTypes <- ContextTypes
    FunctionIds <- ContextIds
    Storages <- MCStorages
    Queries <- MCQueries
    INT_MAX = 3
SPECIFICATION Spec
INVARIANTS FindsTheBest OrderDoesNotMatter
