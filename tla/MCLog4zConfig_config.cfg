SPECIFICATION FairSpec
CONSTANTS
  Keys <- KeyOrder
  MAIN = "Main"
  LoggerMax = 2
  Texts = {"name", "path"}
  Flags = {"enable", "outfile"}
  Default <- Defaults
  LevelOf <- Words
  NoLimit = 999
  Configs <- Files
  Sum <- Sums
  NOFILE = NOFILE
  MaxEdits = 2
INVARIANTS
  TypeOK
  InForce
PROPERTIES
  FileIsFollowed
CHECK_DEADLOCK FALSE
