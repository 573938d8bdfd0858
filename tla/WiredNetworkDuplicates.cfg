CONSTANTS
    a = a
    b = b
    nofile = nofile
    noname = noname
    Names <- MCNames
    FileSuffixes <- MCFileSuffixes
    NoFile <- nofile
    NoName <- noname
    MaxOps <- MCMaxOps
SPECIFICATION Spec
INVARIANT NetworkNamesUnique
\* network_init may fail and network_exit ends the daemon
CHECK_DEADLOCK FALSE
