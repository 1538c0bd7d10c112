------------------------------ MODULE RequestRow ------------------------------
(***************************************************************************)
(* The row every reviewer's transaction locks: what the review of          *)
(* contributions and the delivery of a request share                       *)
(* (src/workflow/shared.ts).                                               *)
(*                                                                         *)
(* A transaction that bumps the version several times is one bump here:    *)
(* versions are only compared for equality.  There is one fixture          *)
(* generation: resets are modelled in ReviewRequest and ModelJobs.         *)
(***************************************************************************)
EXTENDS Integers

CONSTANTS
    MaxVersion,     \* bound: committed changes of the request
    MaxRevision     \* bound: content revisions

ASSUME RowBounds == MaxVersion \in Nat \ {0} /\ MaxRevision \in Nat \ {0}

VARIABLE request

\* area is no column: it names the review area a behaviour follows.
\* score is the current RICE score, 0 when there is none; resolving holds while
\* a resolution has the row locked between its checks and its commit.
RequestType ==
    [area : {"risk", "assets"}, revision : 1 .. MaxRevision, version : 1 .. MaxVersion,
     stage : {"in_first_review", "first_review_completed"}, score : Nat,
     resolution : {"none", "fulfilled", "closed"}, resolving : BOOLEAN]

\* lockRequest returns: no other transaction holds the row.
lockRequest == ~request.resolving /\ request.version < MaxVersion

Unresolved == request.resolution = "none"

lockUnresolvedRequest == lockRequest /\ Unresolved

Bumped(row) == [row EXCEPT !.version = @ + 1]

Completed(row) == row.stage = "first_review_completed"
==============================================================================
