---------------------------- MODULE MCChatSession ----------------------------
(* Instances of ChatSession for TLC.  Ids of backends are model values, as    *)
(* they are compared with the tuples of the browser's own ids.                *)
EXTENDS ChatSession, TLC

OneTool == {"search"}
TwoTools == {"search", "submit"}
Guarded == {"submit"}
Server == {"lookup"}

ToolKinds == {"text-delta", "widget-render", "tool-call"}
AllKinds == {"text-delta", "tool-call", "layout-render", "other", "run-error"}
LateKinds == {"tool-call", "layout-render"}

\* Calls of a backend are told apart by their ids only.
Ids == Permutations(CallIds)
=============================================================================
