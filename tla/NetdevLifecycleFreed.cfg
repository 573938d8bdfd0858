CONSTANT Ifaces <- MCIfaces
CONSTANT Name <- MCName
CONSTANT Patterns <- MCPatterns
CONSTANT Fnmatch <- MCFnmatch
CONSTANT NoFilter = NoFilter
CONSTANT whitelist_filter <- MCWhitelist
CONSTANT blacklist_filter = NoFilter
CONSTANT MaxEvents <- MCMaxEvents
SPECIFICATION Spec
INVARIANT NoCallbackOnFreedNetdev
CHECK_DEADLOCK FALSE
