------------------------------ MODULE MCRooms ------------------------------
(* Instances of Rooms for TLC.  One process: the seeded demo room with one  *)
(* persona, and an ordinary room that five people create, invite to, join   *)
(* and delete.  Two processes: the ordinary room alone, for four people.    *)
EXTENDS Rooms, TLC

CONSTANTS u1, u2, u3, u4, u5, d1, demoroom, r1

OneUsers == {u1, u2, u3, u4, u5, d1}
OneDemo == {d1}
OneRooms == {demoroom, r1}

TwoUsers == {u1, u2, u3, u4}
TwoRooms == {r1}

\* The ordinary users are interchangeable: no action or property names one.
OneSymmetry == Permutations({u1, u2, u3, u4, u5})
TwoSymmetry == Permutations(TwoUsers)
=============================================================================
