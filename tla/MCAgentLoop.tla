---------------------------- MODULE MCAgentLoop ----------------------------
EXTENDS AgentLoop

MCBatches ==
  {<<"writer">>, <<"unknown", "reader">>, <<"reader", "reader", "ledger">>}

\* A write may fail in two ways, so that runs of failures can be told apart.
MCErrors ==
  [k \in Kind |-> CASE k = "writer"  -> {"e1", "e2"}
                    [] k = "unknown" -> {"no such tool"}
                    [] OTHER         -> {"e1"}]
=============================================================================
