------------------------------ MODULE Account -------------------------------
(***************************************************************************)
(* What the host of a survival match promises a player about the           *)
(* character it keeps, whatever fails: a purchase and a used potion are    *)
(* whole and safe at once, one press at most acts once while the player    *)
(* stays, gold that is earned is there until the host stops or a save      *)
(* fails as the player leaves, and nothing that was safe is ever undone.   *)
(***************************************************************************)
EXTENDS Naturals

CONSTANTS
    Players, Goods,
    Upgrades,       \* bought again and again, each time for more
    Potions,        \* used up
    Cost,           \* Cost[g]: its price, that of the first of an upgrade
    StartGold       \* what a newcomer has

VARIABLES
    account,    \* what each player has: gold and how many of each good
    safe,       \* what it would still have after a crash
    acted       \* the last press that changed it since the player came

accountVars == <<account, safe, acted>>

Newcomer == [gold |-> StartGold, has |-> [g \in Goods |-> 0]]

PriceOf(g, n) == IF g \in Upgrades THEN (n + 1) * (n + 1) * Cost[g] ELSE Cost[g]

Bought(a, g) == [a EXCEPT !.gold = @ - PriceOf(g, a.has[g]), !.has[g] = @ + 1]
MayBuy(a, g) == PriceOf(g, a.has[g]) <= a.gold /\ (g \in Upgrades \cup Potions \/ a.has[g] = 0)

Used(a, g) == [a EXCEPT !.has[g] = @ - 1]
MayUse(a, g) == g \in Potions /\ a.has[g] > 0

(* Starters: what costs nothing, one of each that is not there. *)
Equipped(a) ==
    [a EXCEPT !.has = [g \in Goods |->
        IF Cost[g] = 0 /\ g \notin Upgrades /\ @[g] = 0 THEN 1 ELSE @[g]]]

AccountInit ==
    /\ account = [p \in Players |-> Newcomer] /\ safe = account
    /\ acted = [p \in Players |-> 0]

-----------------------------------------------------------------------------

Becomes(p, a) == account' = [account EXCEPT ![p] = a] /\ safe' = [safe EXCEPT ![p] = a]

(* A player comes. *)
Enter(p) == Becomes(p, Equipped(account[p])) /\ acted' = [acted EXCEPT ![p] = 0]

Trade(p) ==
    /\ \E g \in Goods :
          \/ MayBuy(account[p], g) /\ Becomes(p, Bought(account[p], g))
          \/ MayUse(account[p], g) /\ Becomes(p, Used(account[p], g))
    /\ acted'[p] > acted[p] /\ acted' = [acted EXCEPT ![p] = acted'[p]]

(* Gold is earned, what there is is saved, or both. *)
Advance ==
    /\ \A p \in Players :
          /\ account'[p].has = account[p].has /\ account'[p].gold >= account[p].gold
          /\ safe'[p] \in {safe[p], account'[p]}
    /\ UNCHANGED acted

(* The host stops, or cannot save as a player leaves. *)
FallBack ==
    /\ \E ps \in SUBSET Players :
          account' = [p \in Players |-> IF p \in ps THEN safe[p] ELSE account[p]]
    /\ UNCHANGED <<safe, acted>>

AccountNext == Advance \/ FallBack \/ \E p \in Players : Enter(p) \/ Trade(p)

AccountSpec == AccountInit /\ [][AccountNext]_accountVars
=============================================================================
