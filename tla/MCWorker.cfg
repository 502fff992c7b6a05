\* Three collaborative filtering models, so that there is an older one to go
\* back to, and one failed pull, pass or crash.
CONSTANTS
    MaxId = 3
    UseCTR = FALSE
    MaxFailures = 1
SPECIFICATION MCSpec
PROPERTIES
    NeverBackwards
    ModelsReachWorker
