CONSTANTS
    W = 4
    Size = 2
    OneLock = FALSE
    Id = {x, y}
    x = x
    y = y
    z = z
    NULL = NULL
    LgCpus = 3
    LgNone = LgNone
    TxCpu = {c1, c2}
    TxW = 8
    TxMaxLimit = 2
    TxRing = 2
    TxBacklog = 2
    WqTask = {t1, t2}
    WqWaker = {w1}
    WqItems = 2
    WqKind = {"event", "timeout", "interruptible", "killable",
              "interruptible_timeout", "exclusive", "locked", "exclusive_locked"}
SPECIFICATION QueuesSpec
SYMMETRY MCSymmetry
INVARIANTS
    QueuesTypeOK
    SlotDiscipline AnsweredOnce
    LgExclusion LgBalanced
    TxNoStall
    WqNoLostWakeup
