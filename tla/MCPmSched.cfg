CONSTANTS
    Agents = {a1, a2}
    Contexts = {s1, s2, s3}
    None = None
SPECIFICATION FairSpec
INVARIANTS QueuesConsistent SleepersOffQueue StacksNotShared
PROPERTIES WakeupRestoresClass QueuedAgentsRun QuitEndsMain
CHECK_DEADLOCK FALSE
