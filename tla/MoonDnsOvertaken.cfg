CONSTANTS
  Queries = {q1, q2}
  Domains = {d1, d2}
  Asks <- MCAsks
  q1 = q1
  q2 = q2
  d1 = d1
  d2 = d2
  Objects = {o1, o2, o3}
  Addrs = {a1, a2, a3, a4}
  DNS_CACHE_NUM = 1
  NULL = NULL
SPECIFICATION Spec
INVARIANTS
  TakenIsMarked
