SPECIFICATION Spec
CONSTANTS
  Names <- NamesApart
  Contents <- SmallContents
  Archived <- NameOfArchive
  OlderArchives <- Older
  OlderDumps <- OlderFiles
  Base = 2
  chunk_size = 2
  IntMax = 23
INVARIANTS ReadsBack
PROPERTIES Ends
CHECK_DEADLOCK FALSE
