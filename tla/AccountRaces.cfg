\* Three accounts, two requests in flight, three sessions, two keys, two new passwords.
CONSTANTS
  u1 = u1  u2 = u2  u3 = u3  k1 = k1  k2 = k2
  Users = {u1, u2, u3}
  Placeholder = u1
  Sids = {s1, s2, s3}
  Keys = {k1, k2}
  Reqs = {r1, r2}
  NoOne = NoOne
  MaxPw = 3
  Mixes <- AllMixes
SPECIFICATION Spec
SYMMETRY AccountSymmetry
INVARIANTS AccessCurrent
PROPERTIES AdminsSafe
CHECK_DEADLOCK FALSE
