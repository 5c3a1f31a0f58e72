\* Two seedings, an import of the first one's file, and two visitors' requests.
CONSTANTS
  xia = xia  tao = tao  trip = trip
  None = None
  Names = {xia, tao}
  Titles = {trip}
  Seedings = 2
  Visits = 2
  Comments <- MCComments
  Likes <- MCLikes
  Follows = 1
SPECIFICATION Spec
SYMMETRY Symmetry
INVARIANTS SeededLikesAddUp WholeUnlessImportRaced
CHECK_DEADLOCK FALSE
