SPECIFICATION Spec
CONSTANTS
  Spelling <- MCSpelling
  BadPatterns <- MCBadPatterns
  Urls <- MCUrls
  Configs <- MCConfigs
  Listed <- MCListed
  MaxListed = 3
  Lines <- MCLines
  Replies <- MCReplies
  FileSystems <- MCFileSystems
  types <- MCtypes
  LowerCase <- MCLowerCase
  MaxLines = 4
  MaxReplyLines = 4
  MaxChanges = 2
INVARIANTS
  TypeOK
  LocationIsTheFirstFit
  AnswersTheFirstRequest
  HeaderGoesWithTheFile
  RepliesAreKept
CHECK_DEADLOCK FALSE
