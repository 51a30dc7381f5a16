CONSTANTS
    NULL = NULL
    Envs <- MCEnvs
    KnownTypes <- Types
    Special = 4
    Tasks = {t1, t2}
    MaxWorkers = 3
SPECIFICATION FairSpec
INVARIANTS
    PrivateTasks
    LocaleQueries
PROPERTY
    EveryTaskTaken
