-------------------------------- MODULE Feed --------------------------------
(***************************************************************************)
(* What the host promises a joiner about the kill feed, whatever the       *)
(* network does: a notice stays due until it is confirmed, given up for a  *)
(* newer one or the player is gone; while host and reader are joined only  *)
(* what the reader has taken is confirmed; and the reader takes no notice  *)
(* again before Window others.                                             *)
(***************************************************************************)
EXTENDS Naturals, Sequences, Functions

CONSTANTS Notices, Window

VARIABLES
    due,    \* notices the host still has to deliver
    taken,  \* what the reader took, in order, since it last started anew
    joined  \* host and reader mean the same connection

feedVars == <<due, taken, joined>>

FeedInit == due = {} /\ taken = <<>> /\ joined = FALSE

LastTaken == {taken[j] : j \in {k \in DOMAIN taken : k + Window > Len(taken)}}

(* A notice for this player; another may be given up to make room. *)
Announce(k) ==
    /\ k \notin due
    /\ \E given \in SUBSET due : due' = (due \ given) \cup {k}
    /\ UNCHANGED <<taken, joined>>

Take(k) ==
    /\ k \notin LastTaken
    /\ taken' = Append(taken, k)
    /\ UNCHANGED <<due, joined>>

Confirm(k) ==
    /\ k \in due
    /\ joined => k \in Range(taken)
    /\ due' = due \ {k}
    /\ UNCHANGED <<taken, joined>>

(* Either side may leave, start anew or come back to the other. *)
HostForgets == due' = {} /\ joined' = FALSE /\ UNCHANGED taken
ReaderForgets == taken' = <<>> /\ joined' = FALSE /\ UNCHANGED due
Rejoin == joined' \in BOOLEAN /\ UNCHANGED <<due, taken>>

FeedNext ==
    \/ \E k \in Notices : Announce(k) \/ Take(k) \/ Confirm(k)
    \/ HostForgets \/ ReaderForgets \/ Rejoin

FeedSpec == FeedInit /\ [][FeedNext]_feedVars
=============================================================================
