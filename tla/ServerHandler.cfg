\* Two daemons and the one torrent they come to share.
CONSTANTS
    Daemons = {1, 2}
    MaxTorrents = 2
    MaxFaults = 1
SPECIFICATION Spec
INVARIANTS LocksDoNotCross NothingStranded TwoReportTasks GeneratedIsPassedOn
