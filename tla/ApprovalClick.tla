---------------------------- MODULE ApprovalClick ----------------------------
(* "Approve" on the task board: the click resolves the approval, and goes on *)
(* alone to freeze, request, confirm and rehearse the plan.  Each HTTP       *)
(* request is awaited before the next is posted, and the first that fails    *)
(* ends the click with an error text; nothing is posted twice.  Everybody    *)
(* else posts meanwhile: another window, the board's own buttons, the        *)
(* approvals panel, which resolves and does no more, and tool calls.         *)

EXTENDS ExecutionChain

VARIABLES
    click,       \* click[p]: what has become of p's click
    posts        \* posts[p]: the request it awaits, or awaited last

clickVars == <<click, posts>>

Clicks == {"none", "waits", "done", "refused", "cut"}
Posts == {"freeze", "request", "confirm", "dry_run"}

ClickTypeOK ==
    /\ click \in [Proposals -> Clicks]
    /\ posts \in [Proposals -> Posts]

ClickInit ==
    /\ click = [p \in Proposals |-> "none"]
    /\ posts = [p \in Proposals |-> "freeze"]

-----------------------------------------------------------------------------
(* The click.                                                                *)

\* approvalsApi.resolve, and the reload of the task's proposals and approvals,
\* whose errors are swallowed.
Approve(p) ==
    /\ ResolveApproval(p, "approved")
    /\ click' = [click EXCEPT ![p] = "waits"]
    /\ UNCHANGED posts

\* Mutant: a second request for a snapshot is refused.
Already_newRequest(p) ==
    \/ posts[p] = "freeze" /\ snapshot[p] = "frozen"
    \/ posts[p] = "dry_run" /\ result[p]["dry_run"] # "none"

\* The row is there and the service returns it; but a request that is decided
\* is not confirmed again.
Already(p) ==
    \/ posts[p] = "freeze" /\ snapshot[p] = "frozen"
    \/ posts[p] = "request" /\ request[p] # "none"
    \/ posts[p] = "dry_run" /\ result[p]["dry_run"] # "none"

\* The service writes the row: it raises no ValueError.
Acceptable(p) ==
    \/ posts[p] = "freeze" /\ snapshot[p] = "none" /\ Freezable(p)
    \/ posts[p] = "request" /\ request[p] = "none" /\ snapshot[p] = "frozen"
    \/ posts[p] = "confirm" /\ request[p] = "requested"
    \/ posts[p] = "dry_run" /\ result[p]["dry_run"] = "none" /\ request[p] = "confirmed"

Perform(p) ==
    \/ posts[p] = "freeze" /\ FreezeSnapshot(p)
    \/ posts[p] = "request" /\ CreateRequest(p)
    \/ posts[p] = "confirm" /\ UpdateRequestStatus(p, "confirmed")
    \/ posts[p] = "dry_run" /\ \E outcome \in Outcomes : DryRun(p, outcome)

FollowingPost == [freeze |-> "request", request |-> "confirm", confirm |-> "dry_run",
                  dry_run |-> "dry_run"]

\* The request is answered, and the next one posted.
Proceed(p) ==
    /\ click[p] = "waits"
    /\ IF Already(p) THEN UNCHANGED vars ELSE Perform(p)
    /\ click' = [click EXCEPT ![p] = IF posts[p] = "dry_run" THEN "done" ELSE @]
    /\ posts' = [posts EXCEPT ![p] = FollowingPost[@]]

\* HTTP 400, 404 or 409 is an ApiError, and nothing more is posted.
Refused(p) ==
    /\ click[p] = "waits"
    /\ ~Already(p) /\ ~Acceptable(p)
    /\ click' = [click EXCEPT ![p] = "refused"]
    /\ UNCHANGED <<vars, posts>>

\* fetch rejects: the runtime is down or dies, answers with HTTP 500, or the
\* window is closed.
Cut(p) ==
    /\ click[p] = "waits"
    /\ click' = [click EXCEPT ![p] = "cut"]
    /\ UNCHANGED <<vars, posts>>

-----------------------------------------------------------------------------
(* The properties.                                                           *)

\* Why an answered click may end early: its approval was spent on a tool call
\* before the freeze, or someone else decided the request before it did.
Forestalled(p) ==
    \/ posts[p] = "freeze" /\ approval[p] = "consumed" /\ snapshot[p] = "none"
    \/ posts[p] = "confirm" /\ request[p] \in {"confirmed", "rejected"}

\* One click is enough: whoever freezes, requests or rehearses beside it, it
\* ends with the plan rehearsed, unless the connection fails or another client
\* has taken the approval or the decision (resolveApproval of the board, and
\* the services' returning the row that exists).
ApprovedIsRehearsed ==
    \A p \in Proposals :
        click[p] = "waits" ~> \/ result[p]["dry_run"] # "none"
                              \/ click[p] = "cut"
                              \/ click[p] = "refused" /\ Forestalled(p)
=============================================================================
