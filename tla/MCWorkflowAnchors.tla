--------------------------- MODULE MCWorkflowAnchors ---------------------------
(* The instance of WorkflowAnchors that TLC checks.                          *)
EXTENDS WorkflowAnchors

\* The base branch changes a file the branch may change or leave alone.
TouchesB == <<{"b"}>>

================================================================================
