---------------------------- MODULE MCChatFriends ----------------------------
(* A small instance of ChatFriends.                                         *)
EXTENDS ChatFriends, TLC

Symmetry == Permutations(Uids) \cup Permutations(Slots)
=============================================================================
