--------------------------- MODULE MCTradingHubMix ---------------------------
(* Three requests that overlap, or one after the other.                     *)
EXTENDS MCTradingHub, TradingHubMix

KeepAll  == AllOps \ {"deleteAccount", "remove", "create"}
KeepNone == {"add", "remove", "setPrimary", "deleteAccount"}
===============================================================================
