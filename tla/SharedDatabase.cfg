SPECIFICATION Spec
CONSTANTS
  Deployments <- MCDeployments
  Nobody = nobody
  Stores = {s1, s2}
  Apps = {a1}
  Namespaces = {n1, n2}
  Instances = {i1}
  Keys <- MCKeys
  Values = {v1, v2}
  Convos = {g}
  Kinds = {"group_v1"}
  Installations = {x, y}
  Absent = absent
  NumMigrations = 2
  Chats = {c1}
  Limit = 1
  NoWalk = noWalk
  MaxWrites = 3
  MaxUnsynced = 2
  MaxStoreWrites = 2
INVARIANTS ReadsMatchContract SchemaCurrent SeqNamesOneMessage WalkReadsEverything
PROPERTY RefinesContract
SYMMETRY Symmetry
