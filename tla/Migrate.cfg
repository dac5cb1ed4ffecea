SPECIFICATION JobLiveSpec
CONSTANTS
  Runner = {"old", "new", "other"}
  Version = {1, 2, 3, 4}
  files <- Releases
  has_down = {3, 4}
  Contract = {"v1", "v2"}
  schemas <- Contracts
  LegacyVersions = {1, 2, 3}
  MaxRuns = 4
  MaxAborts = 1
INVARIANTS RecordedIsApplied ExitMeansMigrated AppliedOnce
PROPERTY ContendedIsApplied
