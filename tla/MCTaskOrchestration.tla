------------------------ MODULE MCTaskOrchestration ------------------------
(* TaskOrchestration with some of the configurations a project can have.     *)

EXTENDS TaskOrchestration

Everyone == Roles \ {"comparator"}

\* The smallest reviewed pipeline: enough for two calls at once.
ShortConfig == {{"planner", "builder", "qa", "reviewer", "documentation"},
                {"planner", "builder", "qa", "reviewer"}}

FullConfig == {Everyone}

\* The user has switched the Reviewer's predecessors off.
ReviewerOnly == {{"planner", "builder", "reviewer"}}

AllStatuses == TaskStatus
NoPatch == {}
FailAndRetry == {"failed", "pending"}
=============================================================================
