----------------------------- MODULE PatchReview -----------------------------
(***************************************************************************)
(* The patch review queue of one session                                   *)
(* (gitmemory_core/patch_review_queue.rs).  Every enqueue and every         *)
(* decision writes the whole item twice: under a key that ends with the     *)
(* millisecond, and under the key "latest".  A review's status is that of   *)
(* its newest row.                                                         *)
(***************************************************************************)
EXTENDS Naturals, FiniteSets

CONSTANTS Reviewers,      \* callers of the queue
          MaxReviews,     \* bound: reviews enqueued
          MaxDecisions,   \* bound: calls of decide
          MaxMillis       \* bound: the last millisecond, which starts at 1

ASSUME ReviewBounds == MaxReviews \in Nat /\ MaxDecisions \in Nat /\ MaxMillis \in Nat \ {0}

VARIABLES millis,         \* current_time_ms
          reviews,        \* reviews enqueued; a review is its number
          decisions,      \* calls of decide so far
          rows,           \* memory:patch:review:<session>:<millis>
          latestRow,      \* memory:patch:review:<session>:latest
          review,         \* what each caller is doing, with its locals
          decided,        \* history: the status each review was last given
          clashed,        \* history: reviews one of whose rows was overwritten by
                          \* another call of the same millisecond
          crossed         \* history: reviews with a decision that read the clock before
                          \* a call with an earlier time had written its row

reviewVars == <<millis, reviews, decisions, rows, latestRow, review, decided, clashed, crossed>>

NoItem  == [id |-> 0, manual |-> FALSE, status |-> "none", by |-> "none", updated |-> 0]
NoCall  == [at |-> "idle", item |-> NoItem]

ReviewInit ==
    /\ millis = 1 /\ reviews = 0 /\ decisions = 0
    /\ rows = [t \in 1 .. MaxMillis |-> NoItem] /\ latestRow = NoItem
    /\ review = [c \in Reviewers |-> NoCall]
    /\ decided = [r \in 1 .. MaxReviews |-> "none"] /\ clashed = {} /\ crossed = {}

NextMilli ==
    /\ millis < MaxMillis
    /\ millis' = millis + 1
    /\ UNCHANGED <<reviews, decisions, rows, latestRow, review, decided, clashed, crossed>>

-----------------------------------------------------------------------------
\* enqueue_internal: heal proposals and relation repairs are never approved by
\* the policy, nor is a risky patch.
InitialStatus(kind, risky) ==
    IF kind = "patch" /\ ~risky THEN "Approved" ELSE "Queued"

BeginEnqueue(c, kind, risky) ==
    /\ review[c].at = "idle" /\ reviews < MaxReviews
    /\ reviews' = reviews + 1
    /\ review' = [review EXCEPT ![c] =
                    [at   |-> "row",
                     item |-> [id |-> reviews + 1, manual |-> kind # "patch" \/ risky,
                               status |-> InitialStatus(kind, risky), by |-> "policy",
                               updated |-> millis]]]
    /\ UNCHANGED <<millis, decisions, rows, latestRow, decided, clashed, crossed>>

Stored == { rows[t] : t \in 1 .. MaxMillis } \cup {latestRow}

\* Mutant: the oldest row of a review.
NewestOldest(r) ==
    { i \in Stored : i.id = r /\ \A j \in Stored : j.id = r => i.updated <= j.updated }

\* `list`: of the rows of one review the newest, the first of equals.  Two calls of one
\* millisecond share their row, so equals differ only from "latest", which comes last.
NewestRow(r) ==
    LET newest == { i \in Stored : i.id = r /\ \A j \in Stored : j.id = r => i.updated >= j.updated }
        keyed  == { i \in newest : \E t \in 1 .. MaxMillis : rows[t] = i }
    IN IF keyed = {} THEN newest ELSE keyed

\* `decide` lists the reviews.  Any review can be decided, one that was decided
\* before too.
BeginDecide(c, r, status) ==
    /\ review[c].at = "idle" /\ decisions < MaxDecisions
    /\ decisions' = decisions + 1
    /\ \E item \in NewestRow(r) :
          review' = [review EXCEPT ![c] =
                       [at |-> "listed", item |-> [item EXCEPT !.status = status, !.by = "person"]]]
    /\ UNCHANGED <<millis, reviews, rows, latestRow, decided, clashed, crossed>>

\* With the listing at hand it reads the clock.
StampDecision(c) ==
    LET item == review[c].item
    IN /\ review[c].at = "listed"
       /\ review' = [review EXCEPT ![c] = [at |-> "row", item |-> [item EXCEPT !.updated = millis]]]
       /\ crossed' = IF \E d \in Reviewers : /\ review[d].at = "row" /\ review[d].item.id = item.id
                                             /\ review[d].item.updated < millis
                     THEN crossed \cup {item.id} ELSE crossed
       /\ UNCHANGED <<millis, reviews, decisions, rows, latestRow, decided, clashed>>

\* The first upsert, under the millisecond the call took.
WriteReviewRow(c) ==
    LET item == review[c].item
        old  == rows[item.updated]
    IN /\ review[c].at = "row"
       /\ rows' = [rows EXCEPT ![item.updated] = item]
       /\ decided' = [decided EXCEPT ![item.id] = item.status]
       /\ clashed' = IF old.id \in {0, item.id} THEN clashed ELSE clashed \cup {old.id}
       /\ review' = [review EXCEPT ![c].at = "latest"]
       /\ UNCHANGED <<millis, reviews, decisions, latestRow, crossed>>

WriteLatestRow(c) ==
    /\ review[c].at = "latest"
    /\ latestRow' = review[c].item
    /\ review' = [review EXCEPT ![c] = NoCall]
    /\ UNCHANGED <<millis, reviews, decisions, rows, decided, clashed, crossed>>

\* The store fails at either upsert.
ReviewFails(c) ==
    /\ review[c].at # "idle"
    /\ review' = [review EXCEPT ![c] = NoCall]
    /\ UNCHANGED <<millis, reviews, decisions, rows, latestRow, decided, clashed, crossed>>

ReviewNext ==
    \/ NextMilli
    \/ \E c \in Reviewers :
          \/ \E kind \in {"patch", "proposal"}, risky \in BOOLEAN : BeginEnqueue(c, kind, risky)
          \/ \E r \in 1 .. reviews, status \in {"Approved", "Rejected"} :
                BeginDecide(c, r, status)
          \/ StampDecision(c) \/ WriteReviewRow(c) \/ WriteLatestRow(c) \/ ReviewFails(c)

ReviewSpec == ReviewInit /\ [][ReviewNext]_reviewVars

-----------------------------------------------------------------------------
(* Properties. *)

\* Shapes.
ReviewTypeOK ==
    /\ millis \in 1 .. MaxMillis /\ reviews \in 0 .. MaxReviews /\ decisions \in 0 .. MaxDecisions
    /\ \A i \in Stored : /\ i.id \in 0 .. reviews /\ i.updated \in 0 .. millis
                         /\ i.status \in {"none", "Queued", "Approved", "Rejected"}

\* A review that was stored is listed, with the status it was last given, whatever
\* failed between the two rows, whoever decided meanwhile from an old listing and
\* however late "latest" was written, unless a decision read the clock before a call
\* with an earlier time had written its row (the later time then wins over the later
\* write), or a call on another review took its row, in the same millisecond (the
\* enqueue or the decision is then gone).  Heal proposals and relation repairs are
\* approved by a person only, in every row.
DecisionStands ==
    /\ \A r \in 1 .. reviews :
          decided[r] # "none" /\ r \notin clashed \cup crossed =>
              { i.status : i \in NewestRow(r) } = {decided[r]}
    /\ \A i \in Stored : i.manual /\ i.status = "Approved" => i.by = "person"
=============================================================================
