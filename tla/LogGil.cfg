SPECIFICATION PyFairSpec
CONSTANTS
    main = main
    worker = worker
    handler1 = handler1
    Info = Info
    None = None
    Quiet = Quiet
    Setters = {main}
    Loggers = {worker}
    Callbacks = {handler1}
    Levels = {Quiet}
    MaxSets = 2
    MaxFragments = 2
PROPERTY SetLogCallsReturn
CHECK_DEADLOCK FALSE
