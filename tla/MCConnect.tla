----------------------------- MODULE MCConnect -----------------------------
(***************************************************************************)
(* Connect for TLC.  Pages are interchangeable, and so are handshakes.     *)
(* Owners are not: an empty row carries one.                               *)
(***************************************************************************)
EXTENDS Connect, TLC

Alike == Permutations(Page) \cup Permutations(Handshake)

Mine == Idle.owner
Rows == { c \in Conn : conn[c].status # "none" }

(* A handshake of the other owner, one begun from a link and one out of    *)
(* time come one at a time; a row of the other owner comes alone, and a    *)
(* disconnected one has no pages chosen before there is another; the link  *)
(* is mine, and is finished or expires before there are rows.              *)
Few ==
    /\ Cardinality({ h \in Handshake : \/ oauth[h].owner # Mine
                                       \/ oauth[h].link # NoLink
                                       \/ oauth[h].past }) <= 1
    /\ \A c \in Rows : conn[c].owner # Mine => Rows = {c}
    /\ \A c \in Rows : conn[c].status = "disconnected" /\ chosen[c] # {} => Rows = {c}
    /\ \A l \in Link :
          /\ link[l].owner = Mine
          /\ link[l].completed \/ link[l].status = "lapsed" => Rows = {}
          /\ link[l].completed => link[l].status = "open"
=============================================================================
