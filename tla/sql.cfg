\* Statements over a small catalog: what a query returns and what an insert stores.
SPECIFICATION Spec
CONSTANTS
    TextOrder <- TextOrderVal
    Spelling <- SpellingVal
    DecimalForm <- DecimalFormVal
    LowerCase <- LowerCaseVal
    Elements <- ElementsVal
    CreateTables <- SqlTables
    Inserts <- SqlInserts
    Selects <- SqlSelects
    MaxRows = 4
    InsertResult <- InsertRows
    SelectResult <- SelectRows
    ExplainResult <- ExplainPlans
INVARIANTS
    TypeOK
    JoinAnswers
    GroupAnswers
    WindowAnswers
    OptimizedIsEquivalent
PROPERTIES
    InsertIsReadBack
    InsertIsRead
CHECK_DEADLOCK FALSE
