SPECIFICATION FairSpec
CONSTANTS
  d1 = d1
  d2 = d2
  w1 = w1
  NoWallpaper = NoWallpaper
  Requests = {r1, r2}
  Displays = {d1, d2}
  Managed = {d1}
  Playlisted = {d2}
  WallpaperOf <- Remembered
  Scenarios <- AllScenarios
  QueueCap = 1
  MaxChanges = 2
CHECK_DEADLOCK FALSE
INVARIANTS
  ChangesAreKept
  RecalledOnce
PROPERTIES
  ChangesAreSaved
  DisplaysAreRecalled
  PlaylistsAreRestored
  LockIsFollowed
