\* Two pictures per pass, so that the second finds the first in the buffer.
SPECIFICATION FairSpec
CONSTANTS
  Cameras <- CamerasUsed
  MaxHeight <- Heights
  SnapshotCount = 2
  Jpegs <- JpegsUsed
  Leftovers = {0, 217, 255}
INVARIANTS
  SavedIsFrame NoBadAccess CleanSwitch
PROPERTY
  CameraEnds
