--------------------------- MODULE MCTradingDock ---------------------------
(* Instances of TradingDock for TLC. *)
EXTENDS TradingDock

\* Behaviours are followed until the first disturbance.
Calm == odd = {}

\* Fetches of what an instance has none of do nothing: they are followed only
\* while no message and no fetch of the other kind is on its way.
Focused ==
    /\ Positions = {} /\ posAnswers # <<>> => wire = {} /\ ordHalf = NoHalf /\ ordAnswers = <<>>
    /\ Orders = {} /\ (ordHalf # NoHalf \/ ordAnswers # <<>>) => wire = {} /\ posAnswers = <<>>
=============================================================================
