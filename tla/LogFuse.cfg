SPECIFICATION Spec
CONSTANTS
    main = main
    helper = helper
    worker1 = worker1
    worker2 = worker2
    cb1 = cb1
    cb2 = cb2
    Info = Info
    None = None
    Quiet = Quiet
    Setters = {main}
    Loggers = {worker1}
    Callbacks = {cb1, cb2}
    Levels = {Quiet, Info}
    MaxSets = 3
    MaxFragments = 3
INVARIANT SwitchNeverFuses
CHECK_DEADLOCK FALSE
