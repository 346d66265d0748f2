CONSTANTS
    a = a
    b = b
    c = c
    \* the sequence lock
    Writer = {p1, p2}
    Reader = {r1}
    Word = {lo, hi}
    Fenced = Fenced
    Val = {zero, one}
    InitVal = zero
    W = 4
    NULL = NULL
    \* the lists
    BlNode = {a, b, c}
    BlWriter = {v, w}
    BlReader = {r}
    BlNull = BlNull
    BlPoison = BlPoison
    BlHead = BlHead
    RlNode = {a, b, c}
    RlReader = {r}
    RlRing = {l1, l2}
    RlHash = {h1}
    RlNull = RlNull
    RlPoison = RlPoison
    KlNode = {a, b, c}
    KlList = {l1, l2}
    KlHash = {h1, h2}
    KlQueue = {q1, q2}
    KlNull = KlNull
    KlPoison = KlPoison
    \* the sound buffers
    PiFrame = 2
    PiHw = 4
    PiQueue = 3
    PiSw = 6
    PiBoundary = 12
    \* the sets of networks
    HOST_MASK = 4
    Net <- MCNet
SPECIFICATION StructuresSpec
SYMMETRY StructuresSymmetry
INVARIANTS
    StructuresTypeOK
    ConsistentRead BarrierHolds
    BlMutex BlReaderSafe BlSeesAll
    RlReaderSafe RlSeesAll
    KlLinked
    PiInStep PiCopySafe
    BookKeeping LongestMatch
