----------------------------- MODULE DurableBoard -----------------------------
(***************************************************************************)
(* What write-behind persistence promises, without saying how: a board has *)
(* a live copy that is edited and a durable copy that lags behind.  An     *)
(* edit unsettles the board.  The durable copy is only ever rewritten      *)
(* while the board is unsettled, and the board may be called settled only  *)
(* when the two copies are the same.  A settled board may therefore be     *)
(* dropped from memory and loaded again without losing an edit.            *)
(***************************************************************************)
CONSTANTS Elements, Content

VARIABLES live, durable, settled

vars == <<live, durable, settled>>

Copy == [Elements -> Content]

Init ==
    /\ live \in Copy
    /\ durable = live
    /\ settled = TRUE

Edit ==
    /\ live' \in Copy
    /\ settled' = FALSE
    /\ UNCHANGED durable

Store ==
    /\ ~settled
    /\ durable' \in Copy
    /\ UNCHANGED <<live, settled>>

Settle ==
    /\ durable = live
    /\ settled' = TRUE
    /\ UNCHANGED <<live, durable>>

Next == Edit \/ Store \/ Settle

Spec == Init /\ [][Next]_vars

=============================================================================
