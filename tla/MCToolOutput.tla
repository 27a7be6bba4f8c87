----------------------------- MODULE MCToolOutput -----------------------------
EXTENDS ToolOutput

CONSTANTS mine, other

(* Every request, but that what a host passing "router" says to the tool   *)
(* integration is not looked at, and that a recovery tool's output or an   *)
(* off profile ends in the first step.                                     *)
MCAsks ==
  {a \in Requests :
     /\ a.profile = "router" => ~a.recovery /\ ~a.context /\ a.compaction
     /\ a.recovery \/ a.profile = "off"
        => a.tokens = "many" /\ a.size = "big" /\ ~a.command /\ ~a.log /\ a.typed = "none"
     /\ a.log => a.typed = "both"}
=============================================================================
