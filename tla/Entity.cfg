SPECIFICATION EntSpec
CONSTANTS
  c1 = c1
  c2 = c2
  d1 = d1
  d2 = d2
  d3 = d3
  d4 = d4
  Cpus <- MCCpus
  LuaDevices <- MCDevices
  Keys <- MCKeys
  Nil = Nil
  Plain = Plain
  Entities = {e1, e2}
  MaxLoose = 1
INVARIANTS
  ObjTypeOK
  StoredAlive
  DevicesOutliveUse
PROPERTIES
  Collected
