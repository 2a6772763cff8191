\* Two players and one enemy on three units; every press is one that saves; no save fails.
CONSTANTS
    k1 = k1  k2 = k2  tier = tier  sword = sword  potion = potion
    NumUnits = 3
    MaxParty = 2
    MaxEnemies = 1
    MaxHorde = 1
    Keys = {k1, k2}
    NoKey = NoKey
    Goods = {sword}
    Upgrades = {}
    Potions = {}
    Cost <- MCCost
    StartGold = 0
    Intents <- OneSaver
    NoIntent = NoIntent
    MaxGold = 0
    MaxOwned = 1
    MaxSerial = 5
    Reward = 1
    SavesFail = FALSE
    MaxPress = 2
SPECIFICATION FairSpec
INVARIANTS RoomForEveryone
PROPERTIES PressAnswered DeadReturn
CHECK_DEADLOCK FALSE
