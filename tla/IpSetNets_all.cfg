SPECIFICATION NetsSpec
INVARIANT LongestMatch
CONSTANTS
    HOST_MASK = 3
    Net <- MCNetAll
