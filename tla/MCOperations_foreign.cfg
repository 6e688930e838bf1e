SPECIFICATION Spec
CONSTANTS
  id1 = id1
  id2 = id2
  id3 = id3
  s1 = s1
  s2 = s2
  a = a
  b = b
  cx = cx
  cy = cy
  cz = cz
  list = list
  plain = plain
  v = v
  w = w
  me = me
  you = you
  insert = insert
  update = update
  anyone = anyone
  public = public
  shouted = shouted
  Oid = {id1, id2, id3}
  Place = {s1, s2}
  Database = database
  Name = {a, b}
  Undefined = undefined
  Null = null
  Key = {list, plain}
  ListKey = {list}
  NoKey = nokey
  Newest = newest
  Operation = {insert, update}
  Self = me
  Role = {me, you, v}
  Public = {public, shouted}
  Everyone = anyone
  Catalogs <- MCForeign
  Bodies <- MCBodies
  NewBodies <- MCNewBodies
  MaxOthers = 1
INVARIANT ForeignTableFound
CHECK_DEADLOCK FALSE
