CONSTANTS
  None = None
  CodeTempos = FALSE
  Files <- MCFiles
SPECIFICATION SongSpec
INVARIANTS
  TypeOK
  Playable
  ReadsExport
  FindsFirst
  ReadsBuild
  ReadsSong
  ViewWhole
