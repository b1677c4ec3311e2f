\* One parent, its children one after the other, all signals and faults, with a
\* configuration of two uuids to choose from.
CONSTANTS
    UUIDs = {u1, u2}
    NoUUID = NoUUID
SPECIFICATION Spec
INVARIANTS NullOnlyInShutdown RunsOnSavedConfig
PROPERTIES UuidStable Recovers StopHonoured
