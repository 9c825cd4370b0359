----------------------------- MODULE MC_Workflow -----------------------------
EXTENDS WorkflowRun

NoEdges == [l \in Labels |-> <<>>]

\* An analysed event, a human decision, one action for each outcome.
GatedNodes == {"trigger", "analyze", "ask", "send", "notify"}
GatedKind == [n \in GatedNodes |->
    CASE n = "trigger" -> "TRIGGER" [] n = "analyze" -> "AI"
      [] n = "ask" -> "APPROVAL" [] OTHER -> "ACTION"]
GatedEdges == [n \in GatedNodes |->
    CASE n = "trigger" -> [NoEdges EXCEPT !["plain"] = <<"analyze">>]
      [] n = "analyze" -> [NoEdges EXCEPT !["plain"] = <<"ask">>]
      [] n = "ask" -> [NoEdges EXCEPT !["approved"] = <<"send">>,
                          !["rejected"] = <<"notify">>, !["timeout"] = <<"notify">>]
      [] OTHER -> NoEdges]

\* Two conditions that meet, without an edge for false; the approval has only an
\* approved edge.
BriefNodes == {"trigger", "check", "route", "ask", "send"}
BriefKind == [n \in BriefNodes |->
    CASE n = "trigger" -> "TRIGGER" [] n \in {"check", "route"} -> "CONDITION"
      [] n = "ask" -> "APPROVAL" [] OTHER -> "ACTION"]
BriefEdges == [n \in BriefNodes |->
    CASE n = "trigger" -> [NoEdges EXCEPT !["plain"] = <<"check", "route">>]
      [] n = "check" -> [NoEdges EXCEPT !["true"] = <<"route">>]
      [] n = "route" -> [NoEdges EXCEPT !["true"] = <<"ask">>]
      [] n = "ask" -> [NoEdges EXCEPT !["approved"] = <<"send">>]
      [] OTHER -> NoEdges]
=============================================================================
