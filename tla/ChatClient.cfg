SPECIFICATION FairSpec
CONSTANT MaxChoices = 4
INVARIANTS ClientInv ShownOnlyAfterLogin AgreeUntilLogout
PROPERTIES ComesToRest ExitEnds
