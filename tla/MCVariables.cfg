CONSTANTS
    Contexts <- MCContexts
    Names <- MCNames
    Literal <- MCLiteral
    DataTypes <- MCDataTypes
    Kinds <- MCKinds
    Payloads <- MCPayloads
    MaxTypes = 2
    MaxEntries = 2
    MaxLiterals = 2
    MaxTogether = 2
    MaxThings = 5
    c1 = c1
    c2 = c2
    v = v
    w = w
CONSTRAINTS FewVariables FewLiterals FewThings FewFailures Related
SYMMETRY Symmetry
VIEW View
SPECIFICATION StorageSpec
INVARIANTS StorageTypeOK EntriesAgree
PROPERTY IsAStore
CHECK_DEADLOCK FALSE
