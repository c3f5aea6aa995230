--------------------------- MODULE MCAgentRuntime ---------------------------
(* Small instances of AgentRuntime.                                        *)
EXTENDS AgentRuntime

\* Single calls and the pairs in which one call can affect the other.
PairedCalls ==
    {<<"plan">>, <<"tap">>, <<"pay">>, <<"done">>, <<"zoom">>,
     <<"tap", "tap">>, <<"pay", "tap">>, <<"tap", "pay">>, <<"tap", "done">>, <<"plan", "tap">>,
     <<"plan", "done">>, <<"command", "plan">>, <<"tap", "read">>}

\* Fewer of them, for histories with crashes and kept states.
CrashCalls ==
    {<<"plan">>, <<"pay">>, <<"done">>, <<"pay", "tap">>, <<"tap", "done">>, <<"plan", "tap">>}

GoalScreens == {1}
=============================================================================
