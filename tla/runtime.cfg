SPECIFICATION Spec
CONSTANTS
    t1 = t1
    q1 = q1
    q2 = q2
    c1 = c1
    e1 = e1
    Main = Main
    Runners <- OneRunner
    Requests <- Requests2
    Addressed <- Probe
    Coros <- OneCoro
    Emissions <- OneEmission
    Policies <- MixedPolicies
    Listen = Listen
    Signals = Signals
    NoJob = NoJob
    NoThread = NoThread
    NoCaller = NoCaller
    MaxRounds = 2
    MaxEvents = 1
CHECK_DEADLOCK FALSE
INVARIANT TypeOK
INVARIANT NeverStuck
INVARIANT SlotsInTurn
INVARIANT CallerKeepsBytes
PROPERTY WaitsEnd
