CONSTANTS
    worker = worker
    reaper = reaper
    health = health
    Tasks = {worker, reaper, health}
    Pollers = {worker}
    MayHang <- MCMayHang
SPECIFICATION ProcLive
CHECK_DEADLOCK FALSE
INVARIANTS ShutdownAfterTasks DeathIsReported
PROPERTIES ShutdownIsReached
