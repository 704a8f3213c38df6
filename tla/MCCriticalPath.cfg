CONSTANTS
    Tasks <- MCTasks
    Durations = {1, 2}
SPECIFICATION Spec
INVARIANTS PathIsLongest CriticalIsOnLongest FirstUnfinishedIsReady
PROPERTIES EndNeverGrows
\* A graph whose tasks are all Done stays so.
CHECK_DEADLOCK FALSE
