---------------------------- MODULE MCNetSession ----------------------------
(* Small instances of NetSession: see README.md for what each .cfg asks. *)
EXTENDS NetSession, TLC

CONSTANTS c1, c2, key, t1, t2, n1, n2

MCIdentities == {NoIdentity, key}
OnePlayer == c1 :> key
SharedKey == (c1 :> key) @@ (c2 :> key)
MCSymmetry == Permutations(Tokens) \cup Permutations(Nonces)

(* Sockets of one key are alike. *)
MCSocketSymmetry == MCSymmetry \cup Permutations(Clients)
=============================================================================
