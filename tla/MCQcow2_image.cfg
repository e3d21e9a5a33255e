SPECIFICATION Spec
CONSTANTS
  HostClusters = 6
  Name = {n1}
  n1 = n1
  Value = {0, 1, 2}
  Zero = 0
  Junk = 9
  Writes <- SomeWrites
  Discards = {1}
  Backing <- BackingFile
INVARIANTS RefcountsExact CopiedIsExclusive
 
VIEW Distinct
