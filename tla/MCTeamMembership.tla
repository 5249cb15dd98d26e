--------------------------- MODULE MCTeamMembership ---------------------------
(* Instances of TeamMembership for TLC. *)
EXTENDS TeamMembership, TLC

\* Users, invitations and requests are interchangeable.
Symmetry == Permutations(Users) \cup Permutations(InviteIds) \cup Permutations(Requests)
===============================================================================
