\* Two processes at a time, three in all, with three files of a header and a record.
CONSTANTS
    Processes = {p1, p2}
    m_maxFileSize = 1
    m_lastFileNumber = 2
    MaxRecords = 5
    MaxStarts = 3
SPECIFICATION Spec
INVARIANT KeptIsSuffix
CHECK_DEADLOCK FALSE
