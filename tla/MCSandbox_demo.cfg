SPECIFICATION Spec
CONSTANTS
  ls = ls
  cat = cat
  rm = rm
  awk = awk
  sudo = sudo
  none_text = none_text
  long_text = long_text
  Missing = Missing
  NoArgv = NoArgv
  FsWriteRequiresApproval = TRUE
  ShellAllow = {ls, rm, awk}
  ShellRequireApproval = {cat}
  ShellDeny = {rm, sudo}
  Commands = {ls, cat, rm, awk, sudo}
  Installed = {ls, cat, rm}
  ExtraCommands = {sudo}
  Root <- MCRoot
  Paths <- MCPaths
  Absolute <- MCAbsolute
  Resolve <- MCResolve
  Links <- MCLinks
  Here <- MCHere
  NonePath <- MCNone
  Texts = {none_text, long_text}
  TooLong = {long_text}
  NoneText = none_text
  InitDirs <- MCDirs
  InitFiles <- MCFiles
  MaxChunks = 2
INVARIANTS
  TypeOK
  Confined
PROPERTIES
  StartsPermitted
  NoSilentLoss
  WritesApproved
CHECK_DEADLOCK FALSE
