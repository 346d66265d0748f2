CONSTANTS
    a = a  b = b  c = c  d = d  e5 = e5  NULL = NULL  r = r  Dumper = Dumper
    Elem = {a, b, c, d}
    jhash2 <- MCHash
    Group <- MCGroup
    MULTI = FALSE
    AHASH_INIT_SIZE = 1
    AHASH_LIMIT = 4
    BITS_MOD = 4
    InitBits = 1
    maxelem = 4
    MsgCap = 2
    Reader = {}
SPECIFICATION FairSpec
INVARIANT CountExact
PROPERTIES ImplementsIpSet UserReturns ListEnds
