---------------------------- MODULE MCExecBridge ----------------------------
\* Instances of ExecBridge for TLC.
EXTENDS ExecBridge

MCPnls  == {-2, -1, 0, 1}
MCNotionals == {None}
MCBalances  == {None}

\* Two losing trades, the second with its commission in another currency, and
\* a winning one between them.
MCPnlOf == <<-1, 1, -1>>

MCMoves == {-1, 1}

\* The guard's history is not read by the properties of these runs.
MCBridgeView == <<live, memory, call, files, verdict, clock, accDay, fate, bridge>>

=============================================================================
