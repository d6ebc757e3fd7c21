---------------------------- MODULE MCRiskGuard -----------------------------
\* Instances of RiskGuard for TLC.
EXTENDS RiskGuard

\* Losses of two sizes, a flat trade and a win, against a streak limit of 3
\* and a drawdown limit of 4: either breaker can trip first.
MCPnls == {-2, -1, 0, 1}

\* One losing and one winning trade: enough to trip and to go on.
MCLossOrWin == {-1, 1}

\* Not passed, at the bound and past it, for each optional argument.
MCNotionals == {None, 1, 2}
MCBalances  == {None, 0, 1}
MCAbsent    == {None}

\* The true streak and daily sum grow without limit when crashes lose trades;
\* the runs about the latch do not read them.
MCLatchView ==
    <<live, memory, call, files, verdict, clock, accDay, passed, fate>>

\* The breakers' properties stop reading them once a call is cut short, and of
\* the verdict only whether the throttle spoke.
MCBreakerView ==
    <<live, memory, call, files, verdict = "throttle", clock, accDay, passed,
      fate, IF Uncut THEN <<streak, dayPnl>> ELSE <<>>>>

=============================================================================
