\* One player buys tiers of an upgrade, leaves and comes back with the same program.
CONSTANTS
    k1 = k1  k2 = k2  tier = tier  sword = sword  potion = potion
    NumUnits = 2
    MaxParty = 1
    MaxEnemies = 1
    MaxHorde = 1
    Keys = {k1}
    NoKey = NoKey
    Goods = {tier, sword}
    Upgrades = {tier}
    Potions = {}
    Cost <- MCCost
    StartGold = 5
    Intents <- OneTier
    NoIntent = NoIntent
    MaxGold = 5
    MaxOwned = 2
    MaxSerial = 7
    Reward = 1
    SavesFail = TRUE
    MaxPress = 1
SPECIFICATION Spec
INVARIANT RepeatsBuyOnce
CHECK_DEADLOCK FALSE
