CONSTANTS
  Player = {p1, p2}
  Slot = {s1, s2}
  Box = {b1, b2, b3}
  Nil = Nil
  Limits = {1, 2}
  MaxSong = 5
  Parallel = FALSE
SPECIFICATION Spec
SYMMETRY Interchangeable
CHECK_DEADLOCK FALSE
INVARIANTS Driven InOrder PlayedOnce
