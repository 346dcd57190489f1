--------------------------- MODULE MCScriptSession ---------------------------
(* A script that is edited once, and two connections.                        *)
EXTENDS ScriptSession

MCLayouts == << {"east", "west"}, {"west"} >>
=============================================================================
