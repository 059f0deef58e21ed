SPECIFICATION ParsersSpec
CONSTANTS
    Sources <- MCSources
    Written <- MCWritten
\* A text is read once.
CHECK_DEADLOCK FALSE
INVARIANTS
    ParsedAsWritten
    FormatsExact
