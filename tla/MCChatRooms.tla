----------------------------- MODULE MCChatRooms -----------------------------
(* Small instances of ChatRooms                                             *)
EXTENDS ChatRooms, TLC

Symmetry == Permutations(Uids) \cup Permutations(Rooms) \cup Permutations(Slots)
=============================================================================
