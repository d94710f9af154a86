SPECIFICATION Spec
CONSTANTS
  Accounts = {"u1", "u2", "u3"}
  Boxes = {"b1", "b2", "b3", "b4"}
  Subjects = {"s1", "s2"}
  Procs = {"p1", "p2"}
  Scenes <- RivalScene
CHECK_DEADLOCK FALSE
PROPERTY AdminRemains
