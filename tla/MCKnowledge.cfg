SPECIFICATION KnowledgeSpec
CONSTANTS
    BlankNodes = {"_l1", "_l2", "_r", "_s", "_n", "_b"}
    LiteralKey <- MCLiteralKey
    InvalidLiterals = {"bad"}
    AnnotationProperties = {"label"}
    Datatypes = {"string"}
    Tasks <- MCTasks
    LiteralInfo <- MCLiteralInfo
    IriText <- MCIriText
    LowerCase <- MCLowerCase
    Digits = {"1"}
    Letters = {"a", "b", "A"}
    Spaces = {}
    MaxDepth = 6
    Validations <- MCValidations
\* A request ends.
CHECK_DEADLOCK FALSE
INVARIANTS
    ReasonerExact
    ValidationExact
