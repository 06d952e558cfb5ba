SPECIFICATION FairSpec
CONSTANTS
    MaxTid = 5
    MaxSteps = 1
INVARIANTS TypeOK BlocksAccounted CurrentIsRunning ContextsIntact NoThreadLost
PROPERTIES ImplementsRoundRobin NoStarvation
