---------------------------- MODULE ClaimLedger ----------------------------
(***************************************************************************)
(* What the grid side of the API promises about panels, with no sessions,  *)
(* rows or requests: a grid is showing or it is not, a panel is owned by   *)
(* one showing grid or drives its own solo rotation, and ending a display  *)
(* hands back every panel the grid owns in one step.  GridClaims is shown  *)
(* to implement it.                                                        *)
(***************************************************************************)
CONSTANTS Grids,    \* identities a grid can have
          Devices,  \* panels
          NoGrid    \* the owner of a panel in solo rotation

VARIABLES showing,  \* the grids whose display is being held
          owner     \* the grid that drives each panel, or NoGrid

ledgerVars == <<showing, owner>>

LedgerInit == /\ showing = {}
              /\ owner = [d \in Devices |-> NoGrid]

(* A display starts or is replaced: it takes the panels in S, whoever had  *)
(* them, and keeps those the grid already owns.                            *)
Display(g, S) == /\ showing' = showing \cup {g}
                 /\ owner' = [d \in Devices |-> IF d \in S THEN g ELSE owner[d]]

(* A display ends: expiry, release or deletion of the grid.                *)
EndDisplay(g) ==
    /\ showing' = showing \ {g}
    /\ owner' = [d \in Devices |-> IF owner[d] = g THEN NoGrid ELSE owner[d]]

(* Some panels go back to solo rotation while their grid keeps showing.    *)
Yield(S) == /\ owner' = [d \in Devices |-> IF d \in S THEN NoGrid ELSE owner[d]]
            /\ UNCHANGED showing

LedgerNext == \/ \E g \in Grids, S \in SUBSET Devices : Display(g, S)
              \/ \E g \in Grids : EndDisplay(g)
              \/ \E S \in SUBSET Devices : Yield(S)

LedgerSpec == LedgerInit /\ [][LedgerNext]_ledgerVars
=============================================================================
