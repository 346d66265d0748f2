CONSTANTS
    Writer = {p1, p2}
    Reader = {r1}
    Word = {lo}
    Fenced = Fenced
    Val = {zero}
    InitVal = zero
    W = 4
    NULL = NULL
    LgCpus = 2
    LgNone = LgNone
    TxCpu = {c1, c2}
    TxW = 8
    TxMaxLimit = 1
    TxRing = 1
    TxBacklog = 1
    WqTask = {t1, t2}
    WqWaker = {w1}
    WqItems = 1
    WqKind = {"event", "exclusive", "locked"}
SPECIFICATION WaitingSpec
PROPERTIES
    WritersEnter RetriesEnd LgWaitersEnter PacketsLeave SleepersWake
