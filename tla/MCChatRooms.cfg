SPECIFICATION Spec
CONSTANTS
    Uids = {u1, u2, u3}
    Rooms = {r1}
    NoUid = NoUid
    NoRoom = NoRoom
    Slots = {s1, s2, s3}
    MaxFaults = 1
    MaxRestarts = 1
SYMMETRY Symmetry
INVARIANTS RoomInv RosterIsBacked CreatorIsUnique MembersAreInRoster
