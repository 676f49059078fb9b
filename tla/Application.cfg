CONSTANTS
    Scopes = {access, other}
    Required = {access}
    Probes = {database, redis}
    access = access
    other = other
    database = database
    redis = redis
SPECIFICATION AppFairSpec
INVARIANTS OneResponse LogTellsStatus ErrorsSurface UnauthorisedLearnsNothing SessionClosed
INVARIANTS ClientsReleased ProductionProtected ClientsOutliveRequests
INVARIANTS NoProbeOutlivesRun ReadyTellsServices
PROPERTIES RequestEnded ApplicationStops
CHECK_DEADLOCK FALSE
