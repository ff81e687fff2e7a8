SPECIFICATION Spec
CONSTANTS
    main = main
    helper = helper
    worker1 = worker1
    worker2 = worker2
    cb1 = cb1
    cb2 = cb2
    Info = Info
    None = None
    Quiet = Quiet
    Setters = {main, helper}
    Loggers = {worker1}
    Callbacks = {cb1, cb2}
    Levels = {Quiet, Info}
    MaxSets = 2
    MaxFragments = 2
INVARIANT LastCallWins
CHECK_DEADLOCK FALSE
