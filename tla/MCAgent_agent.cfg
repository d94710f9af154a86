SPECIFICATION FairSpec
CONSTANTS
  Codes = {"c1", "c2"}
  Flows = {"f1", "f2"}
  Labels = {"home", "work", "device"}
  Procs = {"p1", "p2"}
  Agents = {"a1", "a2"}
  Providers = {"i1", "i2", "i3", "i4", "i5"}
  Elsewhere = {"x", "y"}
  Quorum = 2
  Scenes <- AllScenes
CHECK_DEADLOCK FALSE
INVARIANTS NoOrphanDevice SpentFlowsGone QuorumSound
PROPERTIES FileKept StopsWhenRejected
