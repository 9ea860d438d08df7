----------------------------- MODULE MCAccounts -----------------------------
(* Instances of Accounts for TLC. *)
EXTENDS Accounts, TLC

CONSTANTS u1, u2, u3, k1, k2

Mix(o, roles, empty, keys) == [ops |-> o, role |-> roles, empty |-> empty, keys |-> keys, owner |-> [k \in Keys |-> IF k = k1 THEN u1 ELSE u2]]
TwoAdmins == [u \in Users |-> IF u = u3 THEN "reader" ELSE "admin"]
OnlyFirst == [u \in Users |-> IF u = u1 THEN "admin" ELSE "none"]
AllMixes ==
  { Mix({"login", "ui", "admin"}, TwoAdmins, {}, {}),
    Mix({"api", "admin", "create"}, TwoAdmins, {}, {k1, k2}),
    Mix({"login", "ui", "create", "logout"}, OnlyFirst, {}, {}),
    Mix({"login", "ui", "reset", "me", "fail"}, OnlyFirst, {}, {}),
    Mix({"login", "ui", "reset", "age"}, OnlyFirst, {}, {}),
    Mix({"login", "api", "me", "keys"}, OnlyFirst, {}, {k1}),
    Mix({"login", "ui", "keys"}, OnlyFirst, {}, {k1}),
    Mix({"boot", "api", "me", "create"}, OnlyFirst, {u1}, {k1}),
    Mix({"boot", "api", "admin", "fail"}, OnlyFirst, {u1}, {k1}) }
AccountSymmetry == Permutations(Reqs) \cup Permutations(Sids)
=============================================================================
