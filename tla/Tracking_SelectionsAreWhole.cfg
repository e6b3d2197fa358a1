SPECIFICATION TrackingSpec
CONSTANTS
  None = None
  Covered = {1, 2}
  Listings = {}
  Admins = {q1, q2}
  StartedStates = {1}
  CompletedStates = {2}
PROPERTY SelectionsAreWhole
CHECK_DEADLOCK FALSE
