SPECIFICATION Spec
CONSTANTS
  Wireguards = {w1}
  Threads = {t1, t2, t3}
  Locks = {l1, l2, l3, l4}
  Kinds = {"configure", "delete"}
  None = None
INVARIANT
  MutualExclusion
