\* Six runs: an engagement can be settled with the file of another application,
\* and a settlement repeated.
SPECIFICATION FairSpec
CONSTANTS
    owner = owner
    tenant = tenant
    Keys <- MC_Keys
    Script <- MC_Cycle
    MaxRuns = 6
    MaxFaults = 1
INVARIANTS FilesHold EffectsAreOwn
PROPERTIES RunsEnd
CHECK_DEADLOCK FALSE
