\* Two workers and three concurrent pushes: enough for two workers to wait,
\* one to be notified, and the third push to overtake both.
CONSTANTS
    w1 = w1
    w2 = w2
    t1 = t1
    t2 = t2
    t3 = t3
    None = None
    Workers <- MCWorkers
    Tasks <- MCTasks
SPECIFICATION FairSpec
PROPERTIES
    ImplementsTaskPool
    QueuedIsRun
    StopReturns
CHECK_DEADLOCK FALSE
