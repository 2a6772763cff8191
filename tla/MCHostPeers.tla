---------------------------- MODULE MCHostPeers -----------------------------
(* Small instances of HostPeers: see README.md for what each .cfg asks. *)
EXTENDS HostPeers, TLC

CONSTANTS c1, c2, key, t1, t2, t3, h1, h2, n1, n2

MCIdentities == {NoIdentity, key}
Nobody == [c \in Clients |-> NoIdentity]
Headless == {NoAddr}
HeadlessOrNot == {NoAddr, c1}
MCSymmetry == Permutations(Tokens)
=============================================================================
