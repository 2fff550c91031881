SPECIFICATION Spec
CONSTANTS
  LastBuild = 2
  Emitting = {0, 1, 2}
  Registering = {0}
  Posting = {0}
  Main = main
  icon = icon
  Names = {main, icon}
  Index = index
  Hash <- MCHash
  Pages = {p1, p2}
INVARIANTS
  TypeOK
  ShellComplete
  PagesKeepFiles
PROPERTIES
  NeverOlder
SYMMETRY Symmetry
