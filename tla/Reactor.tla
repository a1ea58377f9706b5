------------------------------ MODULE Reactor ------------------------------
(***************************************************************************)
(* What a reactor promises (reactor_ops in esma_types.h): it watches the   *)
(* channels added and not deleted, each with the event mask mod gave it    *)
(* last.  The mask add leaves is not promised here.                        *)
(***************************************************************************)
CONSTANTS Channel, Mask

VARIABLE watched    \* [channels added -> mask]

Init == watched = [c \in {} |-> {}]

Add(c) ==
    /\ c \notin DOMAIN watched
    /\ \E m \in Mask :
          watched' = [d \in DOMAIN watched \cup {c} |-> IF d = c THEN m ELSE watched[d]]

Del(c) ==
    /\ c \in DOMAIN watched
    /\ watched' = [d \in DOMAIN watched \ {c} |-> watched[d]]

Mod(c, m) == c \in DOMAIN watched /\ watched' = [watched EXCEPT ![c] = m]

Next == \E c \in Channel : Add(c) \/ Del(c) \/ \E m \in Mask : Mod(c, m)

Spec == Init /\ [][Next]_watched
=============================================================================
