CONSTANTS
    a = a  b = b  c = c  d = d  e5 = e5  NULL = NULL  r = r  Dumper = Dumper
    Elem = {a, b, c, d, e5}
    jhash2 <- MCHashMulti
    Group <- MCGroupMulti
    MULTI = TRUE
    AHASH_INIT_SIZE = 1
    AHASH_LIMIT = 4
    BITS_MOD = 4
    InitBits = 0
    maxelem = 5
    MsgCap = 3
    Reader = {r}
SPECIFICATION Spec
INVARIANTS ReaderView CopyFits
SYMMETRY MCSymmetry
