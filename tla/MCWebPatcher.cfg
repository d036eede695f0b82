CONSTANTS
  Files <- SomeFiles
  NoFile = NoFile
  MaxClicks = 2
SPECIFICATION Spec
PROPERTIES
  KeepsJobs
  RunsEnd
