SPECIFICATION Spec
CONSTANTS
  c1 = c1 c2 = c2
  Cgroup = {c1, c2}
  MaxKeys = 2
  RingSlots = 1
  MaxExecs = 2
  MaxUsage = 1
SYMMETRY CgroupSymmetry
INVARIANTS TypeOK ExecConserved CpuConserved OneSampleAtMost
CHECK_DEADLOCK FALSE
