\* More unfinished stream operations than completion events.
SPECIFICATION Spec
CONSTANTS
    NumClients = 1
    PolicyName = "fcfs"
    Threshold = 2
    Ring = 2
    MaxOps = 4
    Kinds <- LaunchOnly
    Failures = FALSE
INVARIANTS
    CountsEverything
