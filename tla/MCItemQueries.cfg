CONSTANTS
    NameTexts <- MCNameTexts
    Searches <- MCSearches
    Qualities = {4}
    MaxLimit = 2
    MaxItems = 3
    MaxInteger = 3
    MaxPublications = 1
    Null = Null
SPECIFICATION Spec
INVARIANTS EachMatchOnce SearchIsSubstring 
CHECK_DEADLOCK FALSE
