\* Two invocations in a row, with outputs that cannot be written or fill the disk.
CONSTANTS
  Files <- MCFiles
  Sources <- MCSources
  Runtime <- MCRuntime
  Contents <- MCContents
  Arguments <- MCArguments
  Absent = Absent
  Main = "Main"
  DiskFills = TRUE
  MaxRuns = 2
SPECIFICATION FairSpec
INVARIANTS TypeOK ExitCodeIsFirstFailure OnlyTheOutputIsTouched OutputIsProgram
PROPERTIES Terminates
CHECK_DEADLOCK FALSE
