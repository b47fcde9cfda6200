SPECIFICATION UpkeepSpec
CONSTANTS
  text = text
  image = image
  h1 = h1
  h2 = h2
  Path = {text, image}
  Hunk = {h1, h2}
  Value = {0, 1, 2}
  Theirs = {0, 1}
  Ours = {0, 2}
  Mode = Mode
  Regular = 0
  Executable = 1
  Opaque = {image}
  Changing <- MCChanging
  Editing <- MCEditing
  First <- MCFirst
  Absent = Absent
  Marked = Marked
  None = None
  MaxReleases = 2
  MaxEdits = 1
  MaxStash = 1
  Switching = FALSE

  own = own
  ours = ours
  Skills = {own, ours}
  Texts = {"one", "two", "bad"}
  Unusable = {"bad"}
  Contents <- MCContents
  Outside = Outside
  Escaping = Escaping
  Lists <- MCLists
  Mirrors = {"CLAUDE.md"}
  NoSkill = NoSkill
  MaxUpstream = 2
  MaxTouches = 2

  outer = outer
  inner = inner
  generated = generated
  Files = {outer, inner, generated}
  Targets <- MCTargets
  Within <- MCWithin
  Globs <- MCGlobs
  Configured <- MCConfigured
  Worktrees = {"w1", "w2"}
  Packages <- MCPackages
  MaxChanges = 2
INVARIANTS
  NothingMissed
  DraftKept
  VendoredIsPinned
  AgentsSeeShipped
  VerdictIsTheCodes
  LaneIsItsOwn
PROPERTIES
  EditsSurvive
  UndoIsComplete
CHECK_DEADLOCK FALSE
