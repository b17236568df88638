CONSTANTS
  Threads = {h, a}
  Owner = h
  Pages = {0, 1, 3}
  PAGE_SIZE = 3
  Contents <- MCContents
  Names = {1, 2}
  Roots <- MCRoots
  LogEntries <- MCLogEntries
  IntHalf = 8
  MaxFaults = 1
  MaxLog = 4
SPECIFICATION MCSpec
INVARIANTS PagesIntact ReadsLastWrite LogGrowsAtEnd HeaderIsMap
PROPERTIES CallsReturn
