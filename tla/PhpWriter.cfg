SPECIFICATION Spec
CONSTANTS
  Objects = {o1, o2}
  Dirs = {d1, d2}
  Keys = {k1, k2}
  Poisons = {k2}
  MaxBuffered = 2
  MaxAdds = 5
INVARIANTS OneLivePerKey PromisesKept StaysInItsIndex
CHECK_DEADLOCK FALSE
