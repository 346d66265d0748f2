CONSTANTS
    a = a  b = b  c = c  d = d  e5 = e5  NULL = NULL  r = r  Dumper = Dumper
    Elem = {a, b, c, d, e5}
    jhash2 <- MCHashList
    Group <- MCGroup
    MULTI = FALSE
    AHASH_INIT_SIZE = 1
    AHASH_LIMIT = 4
    BITS_MOD = 3
    InitBits = 1
    maxelem = 5
    MsgCap = 3
    Reader = {}
SPECIFICATION Spec
INVARIANT ListComplete
SYMMETRY MCListSymmetry
