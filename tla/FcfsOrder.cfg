\* Three clients, two calls each (Malloc adds no stream work): who is served before whom.
SPECIFICATION FcfsSpec
CONSTANTS
    NumClients = 3
    PolicyName = "fcfs"
    Threshold = 2
    Ring = 2
    MaxOps = 2
    Kinds = {"Malloc"}
    Failures = FALSE
INVARIANTS
    OvertakenAtMostOnce
