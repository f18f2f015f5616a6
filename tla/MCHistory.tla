----------------------------- MODULE MCHistory ------------------------------
(***************************************************************************)
(* The fog node with a record of every root it ever served for an epoch,   *)
(* before and after restarts.                                              *)
(***************************************************************************)
EXTENDS MCFog

VARIABLE served

Roots(chain) == {chain[i] : i \in DOMAIN chain}

HistoryInit == Init /\ served = {}
HistoryNext == Next /\ served' = served \cup Roots(blocks')
HistorySpec == HistoryInit /\ [][HistoryNext]_<<vars, served>>

\* An epoch has one root, for ever (registry/ledger.py: "Epochs are FROZEN: an
\* epoch root can be anchored only once").
OneRootPerEpoch ==
  \A b, c \in served : b.epoch_id = c.epoch_id => b.root = c.root
=============================================================================
