SPECIFICATION FairSpec
CONSTANTS
  api = api
  docker = docker
  r1 = r1
  r2 = r2
  k1 = k1
  k2 = k2
  east = east
  west = west
  p1 = p1
  p2 = p2
  x = x
  y = y
  r1api = r1api
  r2api = r2api
  dockerSecret = dockerSecret
  Releases = {r1, r2}
  Services = {api, docker}
  Names = {r1api, r2api, dockerSecret}
  Entries = {x, y}
  Keys = {k1, k2}
  Clusters = {east, west}
  Projects = {p1, p2}
  Steady = r1
  NameOf <- MCNameOf
  Docker = docker
  KeyOf <- MCKeyOf
  ClusterOf <- MCClusterOf
  ProjectOf <- MCProjectOf
  NoFile = NoFile
  NoSection = NoSection
  NoLabel = NoLabel
  NoSecret = NoSecret
  NoTree = NoTree
  Nothing = Nothing
  Trees <- MCTrees
  MaxPushes = 1
  MaxVisits = 1
  MaxEdits = 1
  MaxFaults = 1
CONSTRAINT Starts
INVARIANTS WholeTree Exact
PROPERTIES ForeignKept Converges
CHECK_DEADLOCK FALSE
