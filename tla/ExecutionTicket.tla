--------------------------- MODULE ExecutionTicket ---------------------------
(***************************************************************************)
(* The ticket workflow and the issue it talks to.                          *)
(*                                                                         *)
(* The governance center opens an issue, posts its candidate pool as chunk *)
(* comments and then a command comment; each command starts a run of the   *)
(* job in execution-ticket.yml, and nothing keeps two runs of one issue    *)
(* apart.  A run answers with bot comments.  The reclaimer sweeps over the *)
(* open issues on a schedule and closes those with a terminal comment.     *)
(* The pipeline process of a run is known by what Delivery promises of it. *)
(*                                                                         *)
(* The receipt workflow for failed runs (execution-failure-receipt.yml)    *)
(* has no action here: it listens to a workflow name no workflow has.      *)
(***************************************************************************)
EXTENDS Integers, FiniteSets, Sequences

CONSTANTS
  Run,         \* runs of the job, each started by a command comment
  Issue,       \* the [execution] issues, in the order of their creation
  Assignments, \* functions run -> number of its issue
  Chunks,      \* issue -> chunk_count of its candidate pool
  Parcels,     \* issue -> chunk comments it may get: <<index, compression>>
  PageSize,    \* issues per page of the reclaimer's listing (100)
  MaxPages     \* pages it reads in one sweep (10)

ASSUME TicketAssumption ==
  /\ Issue \in Nat
  /\ Assignments \subseteq [Run -> 1 .. Issue]
  /\ Chunks \in [1 .. Issue -> Nat \ {0}]
  /\ \A i \in 1 .. Issue :
       /\ IsFiniteSet(Parcels[i])
       /\ \A x \in Parcels[i] : x = <<x[1], x[2]>> /\ x[1] \in 1 .. Chunks[i]
  /\ PageSize \in Nat \ {0} /\ MaxPages \in Nat \ {0}
  /\ PageSize * MaxPages >= Issue

VARIABLES
  IssueOf,    \* run -> number of its issue
  posted,     \* issue -> chunk comments posted so far
  step,       \* run -> its next step
  ok,         \* run -> no step has failed (the execute step may fail)
  accepted,   \* run -> output "accepted" of the ticket step
  artifact,   \* run -> the evidence artifact is uploaded and identified
  claim,      \* run -> what its summary file claims (Delivery)
  comments,   \* issue -> the bot's comments, oldest first
  closed,     \* issue -> "open" or the reason it is closed with
  sweep       \* the reclaimer: page, issues of it to visit, terminal it read

run_vars   == <<step, ok, accepted, artifact, claim>>
issue_vars == <<comments, closed>>
ticketVars == <<IssueOf, posted, run_vars, issue_vars, sweep>>

Markers == {"EXECUTION_COMPLETED", "EXECUTION_FAILED", "EXECUTION_DEGRADED",
            "EXECUTION_REJECTED"}

\* The pipeline process of a run has ended, or will never start.
Over(r) == step[r] \in {"deliver", "evidence", "terminal", "ended"}

Process(r) == INSTANCE Delivery WITH claim <- claim[r], over <- Over(r)

TicketInit ==
  /\ IssueOf \in Assignments
  /\ posted = [i \in 1 .. Issue |-> {}]
  /\ step = [r \in Run |-> "none"]
  /\ ok = [r \in Run |-> TRUE]
  /\ accepted = [r \in Run |-> FALSE]
  /\ artifact = [r \in Run |-> FALSE]
  /\ claim = [r \in Run |-> "none"]
  /\ comments = [i \in 1 .. Issue |-> <<>>]
  /\ closed = [i \in 1 .. Issue |-> "open"]
  /\ sweep = [page |-> 0, batch |-> <<>>, last |-> TRUE, terminal |-> "none"]

-----------------------------------------------------------------------------
(* The governance center.                                                  *)

\* A chunk comment, perhaps of another compression of the same pool.  Bound:
\* none is posted once every run of the issue has read the chunks.
PostChunk(i) ==
  /\ \E r \in Run : IssueOf[r] = i /\ step[r] \in {"none", "setup"}
  /\ \E x \in Parcels[i] \ posted[i] : posted' = [posted EXCEPT ![i] = @ \cup {x}]
  /\ UNCHANGED <<IssueOf, run_vars, issue_vars, sweep>>

\* A command comment on the issue, open or closed.
Command(r) ==
  /\ step[r] = "none"
  /\ step' = [step EXCEPT ![r] = "setup"]
  /\ UNCHANGED <<IssueOf, posted, ok, accepted, artifact, claim, issue_vars, sweep>>

-----------------------------------------------------------------------------
(* The job.  "always() && accepted" guards the delivery and the terminal.  *)

At(r, from) == step[r] = from
Goto(r, to) == step' = [step EXCEPT ![r] = to]
Fail(r)     == ok' = [ok EXCEPT ![r] = FALSE]

Comment(r, marker) ==
  comments' = [comments EXCEPT ![IssueOf[r]] = Append(@, [marker |-> marker, run |-> r])]

\* (mutant) Chunks of different compressions are joined.
HydratedMixed(i) == {x[1] : x \in posted[i]} = 1 .. Chunks[i]

\* _hydrate_candidate_pool: every chunk is there, none in two versions, and
\* together they decompress to the pool with the expected sha.
Hydrated(i) ==
  LET versions(c) == {x[2] : x \in {y \in posted[i] : y[1] = c}}
  IN  /\ \A c \in 1 .. Chunks[i] : Cardinality(versions(c)) = 1
      /\ Cardinality({x[2] : x \in posted[i]}) = 1

\* Checkout, dependencies, the comments of the issue as they are now, prepare.
\* Whatever goes wrong inside prepare is a rejection; a failure before it, or
\* an unreadable event, fails the job.
Prepare(r, plan_valid) ==
  /\ At(r, "setup")
  /\ \/ /\ Goto(r, "receipt") /\ UNCHANGED ok
        /\ accepted' = [accepted EXCEPT ![r] = Hydrated(IssueOf[r]) /\ plan_valid]
     \/ Goto(r, "evidence") /\ Fail(r) /\ UNCHANGED accepted
  /\ UNCHANGED <<IssueOf, posted, artifact, claim, issue_vars, sweep>>

Receipt(r) ==
  /\ At(r, "receipt")
  /\ Goto(r, IF accepted[r] THEN "execute" ELSE "evidence")
  /\ Comment(r, IF accepted[r] THEN "EXECUTION_ACCEPTED" ELSE "EXECUTION_REJECTED")
  /\ UNCHANGED <<IssueOf, posted, ok, accepted, artifact, claim, closed, sweep>>

\* The execute step needs the steps before it to have succeeded.
ReceiptFails(r) ==
  /\ At(r, "receipt")
  /\ Goto(r, IF accepted[r] THEN "deliver" ELSE "evidence")
  /\ Fail(r)
  /\ UNCHANGED <<IssueOf, posted, accepted, artifact, claim, issue_vars, sweep>>

\* The pipeline process works, or ends: by itself, or stopped by the timeout
\* of the job or a cancellation.  However it ends, the job goes on.
Execute(r) ==
  /\ At(r, "execute")
  /\ \E c \in Process(r)!Claims : claim' = [claim EXCEPT ![r] = c]
  /\ Goto(r, "execute") \/ Goto(r, "deliver")
  /\ Process(r)!DeliveryNext
  /\ UNCHANGED <<IssueOf, posted, ok, accepted, artifact, issue_vars, sweep>>

\* The result parts, which nobody reads back; the step fails if the interface
\* does.
Deliver(r) ==
  /\ At(r, "deliver")
  /\ Goto(r, "evidence")
  /\ UNCHANGED ok \/ Fail(r)
  /\ UNCHANGED <<IssueOf, posted, accepted, artifact, claim, issue_vars, sweep>>

\* (mutant) The terminal does not ask whether the run was accepted.
EvidenceAlways(r) ==
  /\ At(r, "evidence")
  /\ Goto(r, "terminal")
  /\ \/ artifact' = [artifact EXCEPT ![r] = TRUE] /\ UNCHANGED ok
     \/ UNCHANGED <<artifact, ok>>
     \/ Fail(r) /\ UNCHANGED artifact
  /\ UNCHANGED <<IssueOf, posted, accepted, claim, issue_vars, sweep>>

\* Without files the upload only warns, and identifies no artifact.
Evidence(r) ==
  /\ At(r, "evidence")
  /\ Goto(r, IF accepted[r] THEN "terminal" ELSE "ended")
  /\ \/ artifact' = [artifact EXCEPT ![r] = TRUE] /\ UNCHANGED ok
     \/ UNCHANGED <<artifact, ok>>
     \/ Fail(r) /\ UNCHANGED artifact
  /\ UNCHANGED <<IssueOf, posted, accepted, claim, issue_vars, sweep>>

\* (mutant) The identity of the artifact is not looked at.
TerminalHeadingUnchecked(r) == Process(r)!Heading(claim[r], TRUE)

TerminalHeading(r) == Process(r)!Heading(claim[r], artifact[r])

\* A torn summary or a failing interface leaves the run without a terminal.
Terminal(r) ==
  /\ At(r, "terminal")
  /\ Goto(r, "ended")
  /\ \/ TerminalHeading(r) # "none" /\ Comment(r, TerminalHeading(r)) /\ UNCHANGED ok
     \/ Fail(r) /\ UNCHANGED comments
  /\ UNCHANGED <<IssueOf, posted, accepted, artifact, claim, closed, sweep>>

\* The runner is lost: not even the always() steps run.
Lose(r) ==
  /\ step[r] \notin {"none", "ended"}
  /\ Goto(r, "ended") /\ Fail(r)
  /\ UNCHANGED <<IssueOf, posted, accepted, artifact, claim, issue_vars, sweep>>

-----------------------------------------------------------------------------
(* The reclaimer.  Only its schedule starts it; one sweep runs at a time.  *)

Resting == [page |-> 0, batch |-> <<>>, last |-> TRUE, terminal |-> "none"]

\* Every open issue with a smaller number comes before i in the listing.
Rank(i)    == Cardinality({j \in 1 .. i : closed[j] = "open"})
OnPage(p)  == {i \in 1 .. Issue : closed[i] = "open"
                                   /\ Rank(i) \in (p - 1) * PageSize + 1 .. p * PageSize}
Ascending(S) ==
  CHOOSE s \in [1 .. Cardinality(S) -> S] : \A j, k \in DOMAIN s : j < k => s[j] < s[k]

\* The next page as it is listed now: what was closed since has moved up.
ListPage(p) ==
  /\ sweep.page + 1 = p
  /\ sweep.batch = <<>>
  /\ sweep.page = 0 \/ ~sweep.last
  /\ sweep' = [page |-> p, batch |-> Ascending(OnPage(p)), terminal |-> "none",
               last |-> Cardinality(OnPage(p)) < PageSize \/ p = MaxPages]
  /\ UNCHANGED <<IssueOf, posted, run_vars, issue_vars>>

EndSweep ==
  /\ sweep.page > 0 /\ sweep.batch = <<>> /\ sweep.last
  /\ sweep' = Resting
  /\ UNCHANGED <<IssueOf, posted, run_vars, issue_vars>>

\* (mutant) Only the newest bot comment is looked at.
LastTerminalNewest(i) ==
  LET c == comments[i]
  IN  IF c # <<>> /\ c[Len(c)].marker \in Markers THEN c[Len(c)].marker ELSE "none"

\* The newest terminal comment of the bot, whatever it wrote after it.
LastTerminal(i) ==
  LET c == comments[i]
      found == {k \in 1 .. Len(c) : c[k].marker \in Markers}
  IN  IF found = {} THEN "none"
      ELSE c[CHOOSE k \in found : \A j \in found : j <= k].marker

\* The next issue of the page.
Visits(i) == sweep.batch # <<>> /\ Head(sweep.batch) = i

\* Reads the comments of an issue; without a terminal it is left alone.
Inspect(i) ==
  /\ Visits(i) /\ sweep.terminal = "none"
  /\ LET t == LastTerminal(i)
     IN  sweep' = IF t = "none" THEN [sweep EXCEPT !.batch = Tail(@)]
                  ELSE [sweep EXCEPT !.terminal = t]
  /\ UNCHANGED <<IssueOf, posted, run_vars, issue_vars>>

CloseIssue(i) ==
  /\ Visits(i) /\ sweep.terminal # "none"
  /\ closed' = [closed EXCEPT ![i] =
                  IF sweep.terminal = "EXECUTION_COMPLETED" THEN "completed" ELSE "not_planned"]
  /\ sweep' = [sweep EXCEPT !.batch = Tail(@), !.terminal = "none"]
  /\ UNCHANGED <<IssueOf, posted, run_vars, comments>>

\* A failing call of the interface or the timeout of the job ends the sweep
\* before its last issue.
Abort ==
  /\ sweep.page > 0 /\ ~(sweep.batch = <<>> /\ sweep.last)
  /\ sweep' = Resting
  /\ UNCHANGED <<IssueOf, posted, run_vars, issue_vars>>

-----------------------------------------------------------------------------
Job(r) ==
  \/ \E v \in BOOLEAN : Prepare(r, v)
  \/ Receipt(r) \/ ReceiptFails(r) \/ Execute(r) \/ Deliver(r)
  \/ Evidence(r) \/ Terminal(r)

Reclaim ==
  \/ \E p \in 1 .. MaxPages : ListPage(p)
  \/ EndSweep
  \/ \E i \in 1 .. Issue : Inspect(i) \/ CloseIssue(i)

NextTicket ==
  \/ \E i \in 1 .. Issue : PostChunk(i)
  \/ \E r \in Run : Command(r) \/ Job(r) \/ Lose(r)
  \/ Reclaim \/ Abort

TicketSpec == TicketInit /\ [][NextTicket]_ticketVars

\* The schedule starts sweep after sweep and the host runs a sweep to its end,
\* as long as the interface answers; it does not fail for ever.
Fairness ==
  /\ WF_ticketVars(Reclaim)
  /\ <>[][~Abort]_ticketVars

FairSpec == TicketSpec /\ Fairness

-----------------------------------------------------------------------------
(* Properties.                                                             *)

Said(i)     == {comments[i][k] : k \in 1 .. Len(comments[i])}
Marks(r, m) == {k \in 1 .. Len(comments[IssueOf[r]]) :
                  comments[IssueOf[r]][k] = [marker |-> m, run |-> r]}
Places(r, M) == UNION {Marks(r, m) : m \in M}

\* A run none of whose steps failed leaves exactly one terminal comment; any
\* other run at most one, however many runs answer on the same issue.
OneTerminal ==
  \A r \in Run :
    /\ Cardinality(Places(r, Markers)) <= 1
    /\ step[r] = "ended" /\ ok[r] => Cardinality(Places(r, Markers)) = 1

\* A completion is the word of a run whose summary claims full success once
\* its process is over, and whose evidence artifact exists.
CompletedIsClaimed ==
  \A r \in Run :
    Marks(r, "EXECUTION_COMPLETED") # {} => Over(r) /\ claim[r] = "full" /\ artifact[r]

\* A run is accepted only if its issue holds every chunk of one compression of
\* the pool, although commands and chunks arrive in any order.
AcceptedOnWholePool ==
  \A r \in Run :
    accepted[r] => \E x \in posted[IssueOf[r]] :
                      \A c \in 1 .. Chunks[IssueOf[r]] : <<c, x[2]>> \in posted[IssueOf[r]]

\* An issue is closed only after a terminal comment, and as completed only
\* after a completion on it: the sweep acts on what it read some steps before.
ClosedByTerminal ==
  \A i \in 1 .. Issue :
    /\ closed[i] # "open" => \E c \in Said(i) : c.marker \in Markers
    /\ closed[i] = "completed" => \E c \in Said(i) : c.marker = "EXECUTION_COMPLETED"

\* Each issue with a terminal comment is closed at last, although closing an
\* issue moves the later ones a page forward and a sweep may be cut off.
TerminalIssuesClosed ==
  \A i \in 1 .. Issue : (\E c \in Said(i) : c.marker \in Markers) ~> closed[i] # "open"
=============================================================================
