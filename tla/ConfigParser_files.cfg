SPECIFICATION Spec
CONSTANTS
  Spelling <- MCSpelling
  BadPatterns <- MCBadPatterns
  Urls <- MCUrls
  Names = {"listen", "root", "add_root", "access_log", "proxy_path", "count_workflows"}
  Heads <- MCHeads
  Values = {"on", "ip"}
  Entries <- MCEntries
  MaxBlocks = 3
  MaxItems = 3
INVARIANTS
  TypeOK
  NestingIsKept
  SettingsAreTheLastGiven
  LocationsAreAsWritten
  LocationsCanBeServed
  UpstreamsAreAsWritten
CHECK_DEADLOCK FALSE
