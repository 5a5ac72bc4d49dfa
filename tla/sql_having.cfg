\* The groups of HAVING COUNT(*) > 1.
SPECIFICATION Spec
CONSTANTS
    TextOrder <- TextOrderVal
    Spelling <- SpellingVal
    DecimalForm <- DecimalFormVal
    LowerCase <- LowerCaseVal
    Elements <- ElementsVal
    CreateTables <- HavingTables
    Inserts <- HavingInserts
    Selects <- HavingSelects
    MaxRows = 4
    InsertResult <- InsertRows
    SelectResult <- SelectRows
    ExplainResult <- ExplainPlans
INVARIANT HavingKeepsGroups
CHECK_DEADLOCK FALSE
