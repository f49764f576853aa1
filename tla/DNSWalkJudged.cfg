SPECIFICATION Spec
CONSTANTS
    RuleLists <- RaceLists
    Tags = {"a", "b"}
INVARIANTS JudgedWithResponse
