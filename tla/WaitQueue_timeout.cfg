\* Two tasks that wait with a timeout, and one that adds items.
SPECIFICATION WqSpec
CONSTANTS
    WqTask = {a, b}
    WqWaker = {w}
    WqKind = {"timeout", "interruptible_timeout"}
    WqItems = 1
INVARIANT WqTimeoutMeansFalse
