SPECIFICATION LineSpec
CONSTANTS
    Files <- MCFiles
    Contents <- MCContents
    Private <- MCPrivate
    Ignored <- MCIgnored
    Policies <- MCPolicies
    Destinations <- MCDestinations
    MaxMoves = 1
    MaxCalls = 3
    MaxTokens = 4
    MaxCost = 3
    Costs <- MCCosts
    MaxAsked = 5
    MaxReports = 2
    Recipes <- MCRecipes
    TaskPolicies <- MCTaskPolicies
    Machines <- MCMachines
INVARIANT SameScriptSameRule
CHECK_DEADLOCK FALSE
