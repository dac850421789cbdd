CONSTANTS
  root = root
  home = home
  cwd = cwd
  data = data
  img = img
  out = out
  old = old
  sub = sub
  view = view
  alias = alias
  hatch = hatch
  Nodes <- MCNodes
  Dirs = {root, home, cwd, data, out, sub}
  Root = root
  Home = home
  Cwd = cwd
  Parent <- MCParent
  Above <- MCAbove
  Links <- MCLinks
  Resolve <- MCResolve
  Modes = {"error", "replace", "append"}
SPECIFICATION Spec
INVARIANT InputPathsSurvive
CHECK_DEADLOCK FALSE
