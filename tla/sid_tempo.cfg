CONSTANTS
  None = None
  CodeTempos = TRUE
  Files <- MCFiles
SPECIFICATION SongSpec
INVARIANTS
  ReadsExport
