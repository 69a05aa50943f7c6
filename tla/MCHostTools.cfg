CONSTANTS
    Machines <- MCMachines
    Recipes <- MCRecipes
    Bases = {1, 2}
    Answers <- MCAnswers
    Components <- MCComponents
    Selections <- MCSelections
    MaxBuilds = 2
SPECIFICATION ToolsSpec
INVARIANTS
    ToolsTypeOK
    SummaryIsRight
    CapsuleIsOfThisBuild
    CapsuleIsWellFormed
\* The builds are used up, or the script has ended.
CHECK_DEADLOCK FALSE
