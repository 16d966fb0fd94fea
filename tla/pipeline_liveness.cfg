SPECIFICATION FairSpec
CONSTANTS
  r1 = r1
  r2 = r2
  c1 = c1
  c2 = c2
  z1 = z1
  z2 = z2
  launcher = launcher
  linux = linux
  darwin = darwin
  None = None
  Runners = {r1, r2}
  Commits = {c1, c2}
  Compressors = {z1}
  Packages = {launcher, linux}
  Root = launcher
  Position <- ManifestOrder
  Assets = {"archive"}
  MaxFaults = 1
  MaxDeletes = 0
INVARIANTS OneRecordPerTag
PROPERTIES PartialIsCompleted
