--------------------------- MODULE WebtermSnapshot ---------------------------
(***************************************************************************)
(* mt5-webterm/src/session.rs `Session::snapshot`, as far as it reads the  *)
(* account of WebtermReceipts: its positions with one request and its      *)
(* orders with another, while orders fill, appear and go.  A request that  *)
(* fails ends the snapshot with an error.                                  *)
(***************************************************************************)
EXTENDS WebtermReceipts

VARIABLES
    page,                       \* where the snapshot is
    shownPositions, shownOrders, \* what it will return
    throughout                  \* ghost: the tickets listed ever since it began

snapshot == <<page, shownPositions, shownOrders, throughout>>
picture == <<vars, snapshot>>

SnapshotInit ==
    /\ Init
    /\ page = "idle" /\ shownPositions = {} /\ shownOrders = {} /\ throughout = {}

\* The snapshot has its connection and the answer about the account.
SnapshotBegins ==
    /\ page = "idle"
    /\ page' = "positions" /\ throughout' = Held
    /\ UNCHANGED <<shownPositions, shownOrders, vars>>

SnapshotReadsPositions ==
    /\ page = "positions"
    /\ page' = "orders" /\ shownPositions' = positions
    /\ UNCHANGED <<shownOrders, throughout, vars>>

SnapshotReadsOrders ==
    /\ page = "orders"
    /\ page' = "whole" /\ shownOrders' = orders
    /\ UNCHANGED <<shownPositions, throughout, vars>>

SnapshotFails ==
    /\ page \in {"positions", "orders"}
    /\ page' = "idle" /\ shownPositions' = {} /\ throughout' = {}
    /\ UNCHANGED <<shownOrders, vars>>

\* Fault: read in the other order.
OrdersFirst ==
    \/ page = "positions" /\ page' = "orders" /\ shownOrders' = orders
       /\ UNCHANGED <<shownPositions, throughout, vars>>
    \/ page = "orders" /\ page' = "whole" /\ shownPositions' = positions
       /\ UNCHANGED <<shownOrders, throughout, vars>>
SnapshotReads == SnapshotReadsPositions \/ SnapshotReadsOrders

\* The account moves on, by whatever hand.
AccountMoves ==
    /\ Outside \/ \E t \in Tickets : Show(t) \/ Fill(t) \/ Gone(t)
    /\ throughout' = throughout \intersect (orders' \union positions')
    /\ UNCHANGED <<page, shownPositions, shownOrders>>

SnapshotNext == SnapshotBegins \/ SnapshotReads \/ SnapshotFails \/ AccountMoves

SnapshotSpec == SnapshotInit /\ [][SnapshotNext]_picture

------------------------------------------------------------------------------
(* Properties *)

\* No ticket is shown as an order and as a position at once, although it may turn
\* from one into the other between the two answers: a host would count it twice.
ShownOnce == page = "whole" => shownOrders \intersect shownPositions = {}

\* "What the account holds right now": what the account listed from the first answer
\* to the last, first as an order and then as a position perhaps, is in the snapshot.
SnapshotIsWhole == page = "whole" => throughout \subseteq shownOrders \union shownPositions

=============================================================================
