SPECIFICATION Spec
CONSTANTS
  text = text
  image = image
  h1 = h1
  h2 = h2
  Path = {text, image}
  Hunk = {h1, h2}
  Value = {0, 1, 2}
  Theirs = {0, 1}
  Ours = {0, 2}
  Mode = Mode
  Regular = 0
  Executable = 1
  Opaque = {image}
  Changing <- MCChanging
  Editing <- MCEditing
  First <- MCFirst
  Absent = Absent
  Marked = Marked
  None = None
  MaxReleases = 2
  MaxEdits = 1
  MaxStash = 1
  Switching = FALSE
INVARIANT SyncIsCommitted
CHECK_DEADLOCK FALSE
