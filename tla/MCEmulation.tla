----------------------------- MODULE MCEmulation -----------------------------
(* Two pipelines of one layout, with and without dynamic states, and       *)
(* constants pushed across the last words that emulated draws push.        *)
EXTENDS Emulation

CONSTANTS layout
MCPipelines == [layout : {layout}, dynamic : {{}, {"viewport", "depthBias"}}]
MCRanges == {<<2, 3>>}
===============================================================================
