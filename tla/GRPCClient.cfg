\* Two server tasks; any RPC fails at any time; Stop, or only the destructor.
CONSTANTS
    ServerTypes <- AllTypes
    MaxTasks = 2
SPECIFICATION Spec
INVARIANT PollChains
PROPERTIES TasksFetched DestroyReturns
