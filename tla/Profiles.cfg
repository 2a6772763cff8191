\* One player buys tiers of an upgrade and potions, drinks, leaves, rejoins and starts anew.
CONSTANTS
    k1 = k1  k2 = k2  tier = tier  sword = sword  potion = potion
    NumUnits = 3
    MaxParty = 2
    MaxEnemies = 1
    MaxHorde = 1
    Keys = {k1}
    NoKey = NoKey
    Goods = {tier, potion, sword}
    Upgrades = {tier}
    Potions = {potion}
    Cost <- MCCost
    StartGold = 5
    Intents <- TierAndPotion
    NoIntent = NoIntent
    MaxGold = 5
    MaxOwned = 2
    MaxSerial = 7
    Reward = 1
    SavesFail = TRUE
    MaxPress = 3
SPECIFICATION Spec
INVARIANTS ProfilesTypeOK CleanIsSaved
PROPERTIES KeepsAccounts PotionPaid
CHECK_DEADLOCK FALSE
