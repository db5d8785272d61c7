------------------------- MODULE MCScopedExecution -------------------------
(* ScopedExecution on small workspaces.  Three paths are enough for what the *)
(* executor distinguishes: "a" in the root, "d" in a subdirectory that may   *)
(* be missing, "s" on the sensitive list.                                    *)

EXTENDS ScopedExecution

Text == {"old", "new"}

\* "bin" is not UTF-8; "crlf" is text whose line ends do not survive reading
\* and writing it in text mode.
LosslessDecode == [c \in Text |-> c]
LossyDecode == [c \in {"old", "new", "crlf"} |-> IF c = "crlf" THEN "old" ELSE c]

Create(f) == [op |-> "create", path |-> f, content |-> "new"]
Modify(f) == [op |-> "modify", path |-> f, content |-> "new"]
Edit(f) == [op |-> "edit", path |-> f, content |-> "new"]
Command == [op |-> "run"]

\* Every order of a root and a nested file, created or modified, an operation
\* that is skipped, a refusal for each reason, and commands.
DistinctPlans ==
    LET Acts(f) == {Create(f), Modify(f)} IN
    {<<x, y, Command>> : x \in Acts("a"), y \in Acts("d")}
    \union {<<y, x>> : x \in Acts("a"), y \in Acts("d")}
    \union {<<Edit("a"), Create("d")>>, <<Modify("a"), Create("s"), Command>>,
            <<Modify("d"), [Create("a") EXCEPT !.content = "null"]>>,
            <<Command, Command>>}

TwoRunPlans ==
    {<<Create("a")>>, <<Modify("a"), Command>>, <<Modify("a"), Modify("d")>>}

\* Plans that name one file twice; the schema of the Builder allows them.
CreateThenModify == {<<Create("a"), Modify("a")>>}
ModifyTwice == {<<Modify("a"), [Modify("a") EXCEPT !.content = "old"], Command>>}

\* An unknown operation, content that is missing and a command after a change,
\* beside the plans that name one file twice.
AwkwardPlans ==
    CreateThenModify \union ModifyTwice
        \union {<<Create("d"), Modify("a")>>, <<Modify("a"), Modify("d")>>,
                <<Edit("a"), Create("d")>>, <<Modify("a"), Command>>,
                <<Modify("d"), [Create("a") EXCEPT !.content = "null"]>>}

ModifyOnly == {<<Modify("a")>>}

=============================================================================
