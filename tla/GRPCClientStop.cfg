\* GRPCClient::Stop while tasks are in line.
CONSTANTS
    ServerTypes <- AllTypes
    MaxTasks = 1
SPECIFICATION Spec
INVARIANT StopLetsTasksRun
