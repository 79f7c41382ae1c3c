SPECIFICATION NvsSpec
CONSTANTS
    n1 = n1
    n2 = n2
    Names = {n1}
    NsOf <- MCNsOf
    ValsOf <- TwoTypes
    PageCount = 3
    ENTRY_COUNT = 4
    WordEntries = 2
    MaxSeq = 3
INVARIANTS
    NoDuplicates
VIEW nvsView
