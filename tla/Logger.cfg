\* A worker, the alert handler and a generator; every record but the first rolls the file.
CONSTANTS
    worker = worker
    handler = handler
    generator = generator
    Workers = {worker}
    Handlers = {handler}
    Generators = {generator}
    LOG_LEVEL = 4
    m_maxFileSize = 0
    MaxRecords <- Records
SPECIFICATION Spec
INVARIANTS OnlyUnjoinedTouch EveryRecordOnce
CHECK_DEADLOCK FALSE
