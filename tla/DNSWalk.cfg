SPECIFICATION FairSpec
CONSTANTS
    RuleLists <- ShortLists
    Tags = {"a", "b"}
INVARIANTS LawfulResult OptionsInOrder
PROPERTIES HeldQueries WalkEnds
