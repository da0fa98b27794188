CONSTANTS
    HALF_BITS = 2
    LONG_BITS = 8
    Factors <- MCFactors
    Formats <- MCFormats
    StringFormats <- MCStringFormats
    Texts <- MCTexts
    Words <- MCWords
    Hierarchies <- MCHierarchies
    Arrays <- MCArrays
    ArrayClasses <- MCArrayClasses
    Programs <- MCPrograms
    Stacks <- MCStacks
    Exception <- MCException
    ThreadStacks <- MCThreadStacks
    Requests <- MCRequests
    Known <- MCKnown
    BYTE = 2
    Size = 8
    ARRAY = 2
    Zone = 8
SPECIFICATION MCSpec
INVARIANTS LibraryRight RuntimeRight
PROPERTY AccessesRight
CHECK_DEADLOCK FALSE
