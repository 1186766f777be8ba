CONSTANTS
    Logs = {l1, l2}
SPECIFICATION FairSpec
PROPERTY LogsReachFile
