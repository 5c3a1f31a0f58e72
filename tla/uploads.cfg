\* Two calls that write, read or edit a post while its image is uploaded.
CONSTANTS
  upload = upload  card = card  media = media  c1 = c1  c2 = c2  c3 = c3
  None = None
  Segments = {upload, card, media}
  Keys = {upload}
  Cards = {card}
  Files <- MCFiles
  Bucket = media
  Base <- MCBase
  Bodies <- MCBodies
  Calls = {c1, c2, c3}
  MaxPuts = 2
SPECIFICATION Spec
SYMMETRY Symmetry
INVARIANTS SizeWrongNeedsPut ViewsAddUp
PROPERTIES MeantObjectIsRead
CHECK_DEADLOCK FALSE
