\* A generated torrent and a download, of one name or of two; or two threads that
\* generate one torrent.
CONSTANTS
    g1 = g1
    g2 = g2
    Ids = {1, 2}
    Generated = {1}
    Names = {"a", "b"}
    Generators = {g1, g2}
    Loads <- OneThreadOrTwo
    Levels = 2
    Pieces = 2
    MaxAlerts = 2
SPECIFICATION Spec
INVARIANTS GeneratedHasLink AlertsFindTheirTorrent OneWriterIsSafe FolderRaceOnly
PROPERTIES GeneratedIsFinal GenerationEnds DownloadEnds
