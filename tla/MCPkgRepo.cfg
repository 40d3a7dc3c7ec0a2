SPECIFICATION Spec
CONSTANTS
  a = a  b = b  u = u  v = v  p = p  q = q
  Names = {a, b}
  Urls = {u, v}
  Packages = {p, q}
  Absent = Absent
  Half = Half
  Own = Own
  Worlds <- MCWorlds
  MayFail = TRUE
INVARIANTS
  TornIsNoticed
PROPERTIES
  OwnIsKept
  RecordedIsCopied
  EditsAreKept
  OkIsCurrent
