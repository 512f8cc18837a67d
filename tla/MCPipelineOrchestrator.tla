------------------------ MODULE MCPipelineOrchestrator ------------------------
(* Requests that between them ask for every stage. *)
EXTENDS PipelineOrchestrator

CONSTANTS a, b

Req(types, stages, files) == [types |-> types, stages |-> stages, files |-> files]

MCRequests ==
    { Req({a, b}, {"splitter", "classifier"}, <<None>>),
      Req({a, b}, {"classifier"}, <<a>>),
      Req({a},    {"splitter", "classifier"}, <<None>>),
      Req({a},    {"splitter"}, <<a, None>>),
      Req({a},    {"judge", "repair", "judge_escalation"}, <<a, a>>),
      Req({a},    {"field_validation", "repair", "transform", "rules"}, <<a, a>>),
      Req({a},    {"bbox_refine", "visual_authenticity", "content_authenticity", "judge",
                   "judge_escalation", "transform", "rules"}, <<a>>) }

\* A document of two pages, and an archive of two one-page documents
MCNormalised == {<<2>>, <<1, 1>>}
=============================================================================
