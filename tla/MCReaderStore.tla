--------------------------- MODULE MCReaderStore ---------------------------
(* Instances of ReaderStore for TLC. *)
EXTENDS ReaderStore, TLC

CONSTANTS u1, u2, f1, f2, i1, i2, c1, c2, p1, p2

AllFirst == [i \in Items |-> f1]
InCat(c, mode, o) == [ops |-> o, mode |-> [f \in Feeds |-> mode], cat |-> [f \in Feeds |-> c]]
In(mode, o) == InCat(NoCat, mode, o)
AllScenarios ==
  { In("full", {"poll", "mark", "remove", "strip", "subscribe", "unsubscribe"}),
    In("full", {"poll", "star", "remove", "purge", "subscribe"}),
    In("full", {"poll", "remove", "purge", "subscribe", "unsubscribe"}),
    In("full", {"poll", "collapse", "purge", "subscribe"}),
    In("full", {"poll", "strip", "purge", "subscribe"}),
    In("full", {"follow", "unfollow", "move", "subscribe", "unsubscribe"}),
    In("full", {"poll", "follow", "move"}),
    InCat(c1, "full", {"poll", "follow", "unfollow"}),
    In("filtered", {"poll", "star", "strip", "collapse", "subscribe"}),
    In("relay", {"poll", "mark", "purge", "subscribe", "unsubscribe"}) }
StoreSymmetry == Permutations(Users) \cup Permutations(Conns)
=============================================================================
