--------------------------- MODULE MCQueryService ---------------------------
EXTENDS QueryService

\* both retrieve under one key; the first has every path to an answer
MCRequests ==
    {[question |-> {"definition"}, mode |-> "naive", stream |-> FALSE,
      multimodal |-> TRUE, community |-> "auto"],
     [question |-> {"definition"}, mode |-> "auto", stream |-> TRUE,
      multimodal |-> FALSE, community |-> "auto"]}
=============================================================================
