# A TLA+ model of the expert assessment center

This directory holds TLA+ modules for the path a ticket takes through the repository: the
issue and the workflow that carry it, the plan of models and the execution graph made for
it, the engine that calls expert models through OpenRouter with parallel threads, the gates
an answer passes, and the verdict and files a run leaves behind. The modules are
model-checked with TLC on small instances, and all properties but those of liveness are proved
with TLAPS for every instance.

    tlc -workers 2 -config StagedRecovery.cfg MCExpertRuntime    # one run
    tlapm ExpertRuntime_proof.tla                                # one proof module

Paths below are relative to `src/open-model-market/` unless they start with another
directory of the repository.

## 1. Inventory of the system

A production run is one GitHub workflow job (`src/.github/workflows/execution-ticket.yml`): a
ticket and its pool of candidates are read from an issue, a plan of candidate models is
checked, an execution graph is composed, the engine executes it, and the result is audited
and announced on the issue. Everything except the engine and the issue is a sequential
script; that script may be stopped between any two file writes.

| Component | State it keeps | Operations | What makes it correct | Module |
|---|---|---|---|---|
| Tickets and workflow (`execution-ticket.yml`, `terminal-issue-reclaimer.yml`, `v5_price_ranked_issue_ticket_core.py`) | comments and state of issues, steps of runs, a page of the sweep | command, hydrate the pool, receipt, execute, deliver, terminal, sweep | one true terminal comment per run; a pool only whole; issues closed by a terminal only, and at last | `ExecutionTicket` |
| Work graph of a task (`v5_task_work_graph.py`) | none | units, dependencies, evidence branches, integration | no unit or dependency lost | `WorkGraph` |
| Parameter design and closure (`v5_parameter_design_planner.py`, `v5_runtime_parameter_planner.py`, `v5_executable_parameter_closure.py`, `v5_cost_effectiveness_parameter_closure.py`) | none | pressure signals, decisions, designs with domains and parents, resolution, closure of the proposal | every active parameter has one design, one value of its domain, bound where it is used | `ParameterDesign` |
| Role assignment (`v5_cost_effectiveness_role_assignment.py`, `v5_cost_effectiveness_planning.py`) | none | weighted optimization, greedy replacement | capability before economy before diversity | `RoleAssignment` |
| Pools, parameter planner, orchestrator, materializer, validator (`v5_top50_pool_optimizer.py`, `v5_runtime_parameter_planner.py`, `v5_governed_plan_orchestrator.py`, `v5_soft_proposal_materializer.py`, `execution_graph_validator.py`) | the plan so far | each step makes its part and checks the one before | only the inputs of a plan make it refused | `ExecutionPlan` |
| Budget controller (`v5_runtime_legacy.py` 302-459, `v5_runtime.py` 102-219, `v5_soft_resource_governance.py` 92-139) | call counters, pending costs, denials, failures per endpoint | `reserve`, `reconcile`, `endpoint_available`, `fail_endpoint` | capacity is never overrun nor taken from initial calls; no cost stays pending; circuits open in time | `CallBudget` |
| Engine: calls and stages (`_recorded_call` in six classes, `_attempt`, `execute_node`, `_execute_stages`) | attempts and status of each node, the account circuit, hard failures, the stage | one call through its gates; the stage barrier | a 402 is remembered; every node gets a result; the budget is used as it promises | `ExpertRuntime` |
| Engine: recovery (`_recover_node` in three classes, quality circuit, zero-cost recovery) | remaining pool rows, standby claims, quality circuit, local bounds | same-model repair, replanning, claims, zero-cost search | finite; no model handed to two nodes; strict success means a passed answer | `ExpertRuntime` |
| Engine: the order of recovery (`v5_cost_effectiveness_runtime.py`, `v5_priority_preserving_heterogeneity.py`, `v5_task_scope_quality_circuit.py`, `v5_credit_aware_recovery.py` 93-640) | one sorted standby inventory, failure counts, the policy probe, each search's depth | sort for a failure, window, choose, promote, free search | the better model comes first; no search ends early or fans out | `RecoveryOrder` |
| Model catalog (`model_market.py`, `v5_catalog_view.py`, `v5_endpoint_catalog.py`, `v5_governance_catalog.py`, the `_catalog_state` of three pipelines) | the merged table, fetched endpoints | ask, merge, rank, fetch in parallel, filter, coalesce, look up the plan | one route per provider that promises the least; nothing listed is taken for missing; the highest usable model governs | `Catalog` |
| OpenRouter client (`openrouter_api.py`) | one worker thread and queue per try | `request_json`, hard deadline, retries | ends; timely answers returned, late ones not; statuses reported | `ModelRequest` |
| Team selection (`v5_task_adaptive_scoring.py`, `v5_runtime_role_scoring.py`, `v5_top50_pool_optimizer.py`, `v5_runtime_role_assignment.py`) | none | demand of a task, tokens and weights of roles, scores, optimization, greedy order | no model left out for one it betters; recovery sized for what it may replace | `TeamSelection` |
| Delivery contract (`v5_task_delivery_contract.py` and `_impl.py`, `v5_output_contract_delivery.py`, `v5_task_envelope.py`) | none | extract, project, tell, judge | the contract is what the ticket lists, can be met, is what the nodes are told; no work is lost with the format | `DeliveryContract` |
| Task constraints and evidence (`v5_task_constraints.py` and `_impl.py`) | none | compile constraints, cut task and claim, match piece by piece | what is quoted passes, what is misquoted does not | `ClaimSupport` |
| Answer layers (`v5_quality_*`, `v5_run387_hardening.py`, `v5_deterministic_answer_normalization.py` and its successors, `v5_production_expert_policy.py`, `v5_task_delivery_contract_impl.py`, `v5_final_semantic_gate.py`) | the answer, its verdict and reasons | judge, relabel, normalize, demote, judge again, obligations | what is delivered was judged in that form; no content lost | `AnswerGate` |
| Delivery of a run (`v5_runtime_legacy.py` 1534-1678, `v5_quality_status_integrity.py`, `v5_constitutional_runtime_legacy.py`, `v5_price_ranked_pipeline*.py`) | the result in memory, ten files | verdict, integrity layer, constitutional gate, audits, writes | no success is claimed that the nodes do not back; files agree | `RunDelivery`, `Delivery` |
| Requests of a node (`v5_runtime_request_binding.py`, `v5_runtime_timeout.py`, `v5_cost_effectiveness_request_policy.py`, the two `_replacement_adaptation`) | floors learned per node, multipliers in a candidate's profile | bind a request, learn from its end, adapt the next candidate | no lesson lost, none applied twice | `NodeRequests` |
| Prompt policies | none | assemble and inspect payloads | a forbidden tool is an outcome | not modelled |
| Retired lock and retry ledger, repository tools | a lock issue | only tests use them | - | not modelled |

How the parts interact. Planning is a chain of calls, each layer checking its input. The
engine is a stack of classes, each overriding a method of the
one below and calling `super()`. A call of the production class passes, from outside
inwards, `v5_credit_aware_recovery.py` (lower the account circuit for a zero-cost call),
`v5_production_expert_policy.py` (deadline), `v5_soft_resource_governance.py` (identity of
a replacement), `v5_runtime.py` (account gate, feedback), and `v5_runtime_legacy.py`
(endpoint circuit, reservation, `request_json`, reconciliation). The classes share
`_feedback_lock`; the budget has its own lock; none of them is held across a network call.
A thread therefore meets the shared state in short critical sections, with arbitrary
steps of other threads between them, and in a few unlocked reads. The layers around the
engine communicate by mutating the result mapping and by files, the workflow reads only
`v5-execution-summary.json`, and the issue is shared by runs and by the reclaimer.

Hard behaviours, and where they bite, are listed in `PROJECT.json` under `hazards`:
overlapping zero-cost calls and the shared circuit, checks separated from the use of what
they checked, a shared pool of recovery calls, loops that end only because a recomputed
space shrinks, statuses put together by several layers, answers rewritten after they were
judged, answers that race a deadline, a process stopped between two writes, two runs on one
issue, and a listing that changes while it is paged through.

## 2. Plan

Done, in this order:

1. `CallBudget` - the ledger, as the abstract promise about calls. Proofs.
2. `ExpertRuntime` - calls, recovery and stages; shown to implement `CallBudget`. Proofs.
3. `ModelRequest` - one HTTP call below the engine. Proofs.
4. `RunDelivery` - verdict, layers, audits and files of a run; shown to implement
   `Delivery`, what the reader of the summary may rely on. Proofs.
5. `ExecutionTicket` - issues, runs and the reclaimer, with `Delivery` for the process of a
   run. Proofs, liveness.
6. `WorkGraph`, `ParameterDesign`, `RoleAssignment`, `ExecutionPlan` - from a ticket to a
   validated graph. Proofs of every planning property.
7. `AnswerGate` - the layers between a provider's text and an attempt's verdict. Proofs.
8. `NodeRequests` - allowances and deadlines of a node's requests, and what they learn. Proof.
9. `DeliveryContract` - from a ticket's text to the contract, the rule and its judgment. Proofs.
10. `TeamSelection` - the scores of models for roles and the teams they lead to. Proof.
11. `RecoveryOrder` - which model a search takes, over the shared inventory. Proofs.
12. `Catalog` - the table of models a plan is made from, and looked up in. Proofs.
13. `ClaimSupport` - whether a task's text supports what an answer calls a fact. Proof.

Left:

14. The verdicts of `AnswerGate` and of `ModelRequest` as the outcomes of a call inside
   `ExpertRuntime`, and the engine's result as the node outcomes of `RunDelivery`. The
   modules meet at these interfaces by their constants (`Outcomes`, the outputs of
   `RunDelivery`); a formal composition multiplies the state spaces.
15. `TeamSelection` as the metric of `ExecutionPlan`, which is any metric there, and the checks
    of fields the materializer writes as constants.

Abstract specifications: `CallBudget` (implemented by `ExpertRuntime`) and `Delivery`
(implemented by `RunDelivery`, used by `ExecutionTicket`).

## 3. Modules

### CallBudget

The ledger of one run. `pc[n]`, `call[n]` and `asked[n]` say where node thread `n` is in
its current call; the other variables are the fields of `BudgetController`. Each action is
one critical section: `CheckEndpoint` (`endpoint_available`, once more before a
replacement), `Reserve` and `Deny` (`reserve`), `Settle` (`reconcile`), `SettleTwice` (the
answer's evaluation raises after `reconcile` and the handler calls it again), `Record`
(`fail_endpoint`). `Withdraw` is a call that the engine suppresses before the ledger sees
it. `reserve` is translated with its order of tests, so that the denial reason is the one
the code gives. Money is left out: thresholds only add advisory records.

### ExpertRuntime

The engine. A thread's `pc` runs through

    queued -> [clear ->] [identity ->] gate -> endpoint -> reserve -> network
           -> record -> [mark ->] [restore ->] resume -> select | claim | zselect | zclaim | done

and each step is one critical section or one unlocked read of shared state, with the
thread-local work around it. `phase` tells what the call is for: the initial call, the
same-model repair, a replacement, the repair of a truncated replacement, or a zero-cost
call. `stage` and `Workers` are the stage loop and its thread pool.

| Actions | Code |
|---|---|
| `StartNode`, `AdvanceStage` | `_execute_stage`, `_execute_stages` |
| `ClearBlock`, `RestoreBlock` | `v5_credit_aware_recovery.py` `_recorded_call` |
| `CheckIdentity`, `AccountGate`, `CheckEndpoint`, `Reserve`, `Deny` | the gates of one call |
| `Respond`, `RespondAndRaise` | `_attempt` |
| `RecordFeedback`, `MarkBlocked`, `FailInvalidEndpoint` | what a finished attempt changes |
| `ResumePassed`, `ResumeInitial`, `ResumeSameModel`, `ResumeReplacement`, `ResumeRebind` | `execute_node`, `_recover_node`, the truncation rebind |
| `StopSearch`, `SelectInitial`, `SelectStandby`, `Claim` | the replanned search |
| `SelectZeroCost`, `StopZeroCost`, `ClaimZeroCost`, `ResumeZeroCost` | zero-cost recovery |

Outcome classes of a call: `passed`; `truncated`; `quality` (rejected by a gate);
`transient` (429, timeout, empty answer, retryable invalid response, unsupported parameter,
context overflow: repaired by a replacement, remembered only by the endpoint circuit);
`invalid` (a non-retryable invalid response: remembered as a hard failure); `privacy404`
(an invalid response that zero-cost recovery does not count); `credit402`; `contract` (a
forbidden tool or egress: no recovery). A rejected or truncated answer may be usable in
degraded form and may carry one deterministic contract reason; an answer with several
reasons is covered only through its members.

Abstractions. Candidate ranking is "any candidate of the space" (`RecoveryOrder` has the ranking). The promotion depth is at
least one when the circuits allow promotion, and the window it opens is any part of the
unclaimed standby; the depth of zero-cost recovery is any number from one to the size of
its first space. `fail_endpoint` for a transient failure and the recording of feedback are
one step, and so are the reads of one turn of the search up to its choice. Feedback that
only feeds ranking, timeouts and audit records is left out. The policy probe before zero-cost
recovery may exclude models, so a zero-cost search may stop with models in the space.

What the code does and the model keeps although it may surprise: a node whose initial call
is suppressed by the account circuit has category CALL_LIMIT_EXHAUSTED and recovers
nothing; a 402 met by a replacement ends the ordinary search without entering zero-cost
recovery; the endpoint of a non-retryable failure counts once, at `FailInvalidEndpoint`.

Refinement: `Budget == INSTANCE CallBudget WITH pc <- BudgetPc, ...` maps a thread's step to
the step of its call (`gate` and `endpoint` to `endpoint`, `record` and `mark` to `record`,
everything between calls to `idle`); `ImplementsBudget == Budget!Spec`. Several engine
steps are stutters of the ledger, and the account gate is `Withdraw`.

`TypeOK` of the engine does not repeat the ledger's variables: their types are part of
`CallBudget`'s `TypeOK`, which the refinement carries over.

### ModelRequest

One `request_json` call. Each try `k` has its own worker, queue (`box[k]`) and socket
silence (`quiet[k]`); `GiveUp` abandons a worker that is alive at the deadline, `Collect`
takes the queue of one that has exited, and an HTTP error is read by the caller itself
(`ReadBody`, `BodyRead`, `BodyLost`). `Verdict` is `_failure_from_exception`, in the outcome
classes of `ExpertRuntime`. Time is discrete and steps that are due come before the next
tick, so scheduling delays are not part of the bound. `BodyReads` stands for the at most
2000 socket reads of `exc.read(2000)`. Decoding of a response is one outcome, `malformed`.

### RecoveryOrder

The searches of several nodes over the standby inventory they share. A search is at one of
`initial`, `turn`, `breadth`, `batch`, `lively`, `window`, `claim`, `call` - or, after a 402,
`entry`, `probe`, `asking`, `free`, `freeclaim`, `freecall` - and each step is one critical
section. `Turn` sorts the shared inventory for the failure at hand
(`_rerank_standby_for_failure`); `Breadth` (failure rates and the node's place in the graph, shut by the
quality circuit, `Systemic`), `Narrow` (a batch that keeps priority and looks for a new company)
and `Widen` (spatial and temporal pressure) are the layers of `_dynamic_promotion_depth`;
`Choose` takes the first of the window and the pool's rows, `ClaimChoice` promotes it, `CallEnds` records
the outcome. `FreeSpace`, `FreeKey` and `FreeDepth` are the zero-cost search with the account's
policy, asked once by whichever thread comes first (`AskPolicy`, `PolicyAnswered`); a thread that
comes while the answer is out goes on without it. Estimates are percentages, roots are
compared as squares, and a call only has an outcome: the gates are `ExpertRuntime`'s.
`MCCallBudget` explores it from a second start, with the ledger at rest.

### NodeRequests

The requests of one node, one after another. `BindRequest` is `_recorded_call` of the
production class down to `request_json`: the output allowance from the visible requirement,
the rank of the effort, the candidate's multiplier (`stretch`) and its floor (`tokens`), then
the deadline from the payload as it will be sent. `EndRequest` is the end of the call with
`_record_feedback`: a truncation raises the node's token floor, a timeout its floor of
seconds. `RepairTruncated` is the retry on the same model, `Replace` the next candidate;
both pass the three layers of `_replacement_adaptation` (`VisibleOnly`, `Multiplied`,
`Floored`). `SuppressRequest` is a gate of `ExpertRuntime` that says no.

What the code does and the model keeps: feedback is recorded before the deadline that was
bound is attached to the attempt, so `SecondsLearned` knows the latency alone. A gateway that
times out early therefore teaches less than the deadline already granted; `LessonsKept` states
what does hold.

Abstractions: the visible requirement of a model (its planned target, or the estimate of the
prompt times the structural expansion) is a constant of the row; efforts are their ranks 0 to 6;
square roots are rounded up and seconds are whole; a multiplier keeps `Precision` parts, as
`round(..., 6)` does. Which row comes next is any row, as in `ExpertRuntime`. An allowance has
no upper bound in the code and none in the model.

`MCModelRequest` checks the two modules in one run with two starts: `turn` is `idle` while an
HTTP call is explored, and the HTTP call is one already answered while a node's requests are.
`Catalog` is its third start.

### Catalog

`AskSort` asks for the list of models in each order of the configuration; a request that fails is
passed over (`_live_catalog`). `Models`, `Facts` and `Rank` are the merged table: the first row of
a model gives its facts, its last place in the official order its rank. What follows depends on
the pipeline. Production's (`planned`) looks up the models of its plan and states the larger of
what plan and table say (`LookUp`). The earlier one (`resolved`) fetches the endpoints of those
models; that of `v5_pipeline.py` (`exact`, no longer production's) resolves the two
governing models first and then ranks all others. Both fetch with a pool of threads
(`StartFetch`, `EndFetch`) after the list of endpoints that keep no data (`AskPrivate`), and
`Compact` turns endpoints into routes: insufficient ones are refused with a reason, several of one
provider promise the least of each (`Merge`). What the code does and the model keeps: a fallback
price per million below a tenth of a dollar is scaled once more (`PerMillion`); a governor's endpoints are
filtered like an expert's, although the head of `v5_endpoint_catalog.py` says they are
not; governors are sought among the first six models of a company only. Abstractions: one price stands for the two of a model, prices are
integers with their own `Tenth` and `Million`, a parameter family is one name. The merged table, the
ranking and the routes are given by their members and an order (`Sorted` of `Lists`: the places of the list that
qualify, and which comes before which); what the coalescing loop keeps of a route is the recursive function `Observed`.

### Delivery and RunDelivery

`Delivery` is the abstract view: the claim of the summary file (none, torn, full, degraded,
failed) and whether the process is over. A failure is final, a success can only be withdrawn,
and a stop can tear the file. `Heading` is what the terminal step says of it.

`RunDelivery` is one process after the graph was made. Its control steps follow
`_run_delegated` and the engine's `run`: the node outcomes are drawn at once, then come coverage,
blockers and the engine's verdict, the integrity layer, the evidence audit, the
constitutional gate, and the pipeline's own audits, exit code and manifest. Every file is written
in a step of its own (`writes` is the queue), the next control step waits for the queue, and
`Stop` may end the process anywhere, tearing the file in progress. A node outcome is
one of the classes that coverage and blockers tell apart. The refinement
maps `claim` to the summary on disk and `over` to the end of the process.

### ExecutionTicket

Several runs, each started by a comment, on issues of which two runs may share one. A run's
steps are the steps of the job with their `if:` and `continue-on-error`; a runner may be lost
at any of them. The process of the execute step is `Delivery`, instantiated per run.
Chunk comments arrive in any order and may mix two compressions; hydration sees what is
there. The reclaimer lists page by page while issues are being closed, inspects the newest
terminal comment first, and closes. `execution-failure-receipt.yml` and one trigger of the reclaimer
listen for workflow names that no workflow has; the model has them as the source has them,
never triggered.

### WorkGraph, ParameterDesign, RoleAssignment, ExecutionPlan

`WorkGraph` is the pure part of `v5_task_work_graph.py`: the units of a ticket (listed, or
clustered from evidence rows), their identities with a position appended to a repeated one, the
declared edges, the generations, and the integration unit. An identity is a name and the numbers appended
to it, so that a renamed one may be a listed one, as `a-3` is when the units are `a-3`, `a`, `a`: the two share
a node (`Bearers`), whose work and weight are those of the later (`Known`). `ParameterDesign` is what a plan has to decide: the pressure signals
of a ticket's demand and its graph, the decisions their surfaces make active, each one's design
(domain and parents, from the dataflow between surfaces), the values a candidate resolves, the
four resources of a role, and the closure of the finished proposal. A parameter's identity is
the pair of its surface and the graph it was designed for, which is what its digest covers.
`RoleAssignment` is the weighted objective and its greedy replacement. `ExecutionPlan` is the chain of planning steps - `BuildWorkGraph`,
`DesignParameters`, `OptimizeShape`, `PartitionRoles`, `AssignModels`, `CheckPlan`, `BuildProposal`,
`Materialize`, `Validate` - each of which may refuse (`Refuse`). A solver is any outcome its
interface allows: a proven optimum, a feasible assignment, or none. Scores of a model for a role
are inputs. Parameters are designed for the work graph, once more for the role graph, and closed
a last time over what the proposal really activates; `ParametersBound` says what holds of the
profiles that come out. `WorkKept` includes that one final expert reads everything and that the
graph's budget of calls is the capacity of its nodes. Costs are integers in 1e-9 USD, rounded as the materializer rounds them, so
that the validator's tolerance is really exercised.

### AnswerGate

One answer, a sequence of lines; a line is a heading or a labelled claim, and a claim is what
the classifiers of the source say of its text (supported by the task, worded as a rule or an
inference, bringing a quantity of its own, ...). The steps are the layers in the order the
method-resolution order gives: `Respond` (quality gate), `Relabel`, `Normalize`, `Demote`
(the production policy's warning rule), `Judge` (contract and evidence) and `FinalGate` (the
final expert's obligations). Each may change answer, verdict and reasons. A text is rewritten by places: the
lines that stay are a set of numbers, put in order by `Ascending` of `Lists`.

What a task asks of its final answer is looked for in one of two ways. A fact, a judgment, a result or an
experience may stand anywhere (`Shows`). A threshold wants its number in the lines around it, an error
scenario two of them, a goal its choice behind it: an entry of `Window` says how many lines above and below
are read, around every line that announces it or the first one only, and how much they must bring
(`Together`). `Window` is a constant, so the theorems hold for any such rule; the run has that of thresholds
(one line above, three below), one for goals (the 180 characters behind the label, taken as lines) and one
for a calculation that must stand in one line. A number that contradicts the 'high' or 'low' of its clause
(`Misdirected`) counts wherever it stands. Required headings may be one edit apart. Abstractions: the pairs of a
threshold, the options it connects and the classes of a decision table are marks of a claim or entries of
`Window`, not read from its text; a label's own bracket, as in "事实（题面）：", is not modelled; blank
lines at the beginning and the end of an answer are kept where the code strips them, which no gate tells apart.

### DeliveryContract

One ticket - question, requirements, evidence - as lines; a line is its wording (counted list,
inferred list, cue before numbered lines, JSON, table, ...), the count it states, the words
before it and the names behind it. `Materialize` reads the whole ticket for the contract, with the
heading extractors in the order the source tries them; `Project` cuts the format out of the
task of internal nodes, twice; `Answered` judges an answer. `Told` is the rule in the
prompt, `QualityGate` and `AnswerViolations` what is judged. A value inside a field with spelled-out keys is an object
or not and has content or not (`Value`), which is judged and never told. Abstractions: keys are distinct, one
list delimiter stands for all, ranges ("must cover W1 to W13") and names on the line after the colon are not in the lines, and
the nested lines of a ticket are in one language (the source reads the Chinese ones first and lets an
English one for the same field win). What the code does and the model keeps: a
numeral with a zero inside (101 to 109) is unreadable; a sentence without a requirement behind a
list is part of its last name; a requirement clause that names the execution's
mechanics is dropped whole; a field named by several nested lines has the names of the last; a list that states
a count of zero states none. `WorkReachesNodes` says what the other nodes may miss: a clause that became a heading, that stands
beside a demand of format, or that names the mechanics - where a dropped clause with a number, a marker or a
wording takes these along. The lists a ticket announces are the runs of its places, again sets with `Ascending` and `Lexical`.

### ClaimSupport

One claim under a fact label and the task it is about. A text is a sequence of units with the
separator after each (stop, table bar, comma, "and", "yet"); a unit is the set of its words, place names,
denials and quantities, those in brackets apart (`aside`). Brackets are left out where wordings are
compared (`Normal`, `Skeleton`) and read where places, denials and quantities are looked for
(`Anchors`, `Polarity`, `Quantities`), as `_normalize_claim` and `_spatial_anchors` do. The source cuts a text by three different sets of separators - sentences
(`Sentences`), pieces (`Fragments`), and clauses and phrases for quantities
(`ClauseCuts`, `PhraseCuts`) - and the model keeps which separator cuts what. `Compile` makes the
constraints from the marks of the task, `Canonicalize` respells both texts and resolves "on site"
against the task, `JudgeFragment` looks for support of one piece, in the order of the tests of
`_fragment_supported`. Similarity of strings is a relation (`Near`, and `Close` for the stricter
threshold) that lets two texts differ in one word, place or number; containment is containment
of sets of words, since the source matches reordered words as well. Brackets that span a separator are not modelled, and "on site" never stands in brackets. The model gives
the verdicts the code gives on the examples in this section and in section 5.

### TeamSelection

The three schemes of the repository that score models and choose a team: the task scheme
(`v5_task_adaptive_scoring.py` with `v5_top50_pool_optimizer.py`), the role scheme
(`v5_runtime_role_scoring.py`) with the company-diverse optimizer, and the same scores with the
economical one. The last is production's; the others are kept and imported by its layers.
`MeasureTask` and `MeasureRoles` make the needs of each position (position 0 is recovery),
`Score` the scores of each model for each, `SolveTask`, `SolveDiverse` and `SolveEconomical` a team: a proven optimum, any feasible one
(stopped in time), or the greedy order without a solution. Ratios and signals are held to a
thousandth, weighted sums are kept whole, and models are numbered in the order of their names,
which decides between equals. A rank (`PlaceBy`) is the number of models that come no later, by the key and then by
the name; the greedy order is a recursive function over the positions.

### Lists

What several modules need of lists: the members of a set in a given order (`Sorted`, `Ascending`, `Lexical`). A list
that the source makes by a loop with a filter, a sort or a merge is given that way wherever a theorem
speaks of it, so that the proofs reason about sets and cardinality; no state, no action.

### Proof modules

`CallBudget_proof`, `ExpertRuntime_proof` (types, account circuit, the refinement of
`CallBudget`, stages, recovery), `RecoveryOrder_proof`, `ModelRequest_proof` (with `NodeRequests` and
`Catalog`), `RunDelivery_proof` (with `ExecutionTicket`), `ExecutionPlan_proof`, `TeamSelection_proof` (which
builds on it) and `AnswerGate_proof` (with `ClaimSupport` and `DeliveryContract`); see section 6. The `MC*` modules hold the
constants of the runs.

Definitions whose comment begins with `Mutant` or `Bug`, or is marked `(mutant)`, are plausible bugs of
the code; none of them is reachable from a specification. `PROJECT.json` names the property each one breaks.

## 4. Runs

| Run | Shows | Properties | Bounds | States |
|---|---|---|---|---|
| `CallBudget` (`MCCallBudget`) | The shared call ledger and endpoint circuits under every interleaving of three node threads: capacity is never overrun or stolen from an initial call, no pending cost outlives its call, and the circuit's overshoot is bounded. From a second start, two nodes search for a replacement over one shared standby inventory, before and after the account runs out of credit: the better model comes first, and no search ends early or goes on too long. | `LedgerSound`, `DenialsJustified`, `EndpointOvershootBounded`, `PriorityKept`, `SearchNeitherEarlyNorLong` | three nodes, two endpoints, two recovery calls, threshold 1; searches: two nodes, one pool row, two standby models, one permitted by the account | 693,146 |
| `AccountRecovery` (`MCExpertRuntime`) | Two nodes run at once under weak fairness; a model may answer, fail beyond retry, report HTTP 402 or a provider-policy 404. After the first 402 only probes and zero-cost candidates may be called, a claimed standby serves one node, no search picks a model it knows to have failed, every run ends, and calls are reserved and settled exactly as CallBudget allows. | `AccountCircuitHeld`, `StandbyUsedByOneNode`, `PaidCallNeedsZeroCostWindow`, `RunTerminates`, `ImplementsBudget` | two nodes, one free pool model, one free standby model; passed, invalid, 402, privacy 404; `FairSpec` | 253,005 |
| `StagedRecovery` (`MCExpertRuntime`) | Three nodes in two stages share one pool of calls and two standby models; attempts are truncated, rejected or break the contract, a usable answer may carry a contract reason, and the quality circuit opens under running searches. No node is skipped, a model is repeated only to repair a truncation, the best usable answer is kept, and a node claims at most the one model it had already chosen. | `NoNodeSkipped`, `SameModelOnlyToRepairTruncation`, `OutcomeFollowsAnswers`, `LateClaimsBounded` | three nodes in stages of two and one, two standby models, none free; passed, truncated, quality, contract, one contract reason | 2,201,745 |
| `ModelRequest` (`MCModelRequest`) | One HTTP call with a retry, a hard deadline and abandoned workers that run on: it ends even when the response trickles, returns the last try's answer if and only if it came in time, and holds the thread no longer than the stated bound. From a second start, the requests of one node: what a truncation or a timeout taught is kept by every later request, and kept once. From a third, the catalog of a run: lists and endpoints that come, fail or arrive in any order lead to the rows of the sources' rules. | `CallSound`, `LessonsKept`, `CallReturns`, `RoutesPromiseTheLeast`, `PlanFoundInAnyList`, `HighestUsableGoverns` | one retry, a deadline of three ticks, two body reads, fair; a planned model and two rows of different size and effort, cap 60 s, minimum 5 s, multipliers to 10^-4; catalogs: two lists of up to ten rows, six models with endpoints, three plans, two fetching threads | 390,866 |
| `PaidAfterCredit` (`MCExpertRuntime`) | A zero-cost call lowers the account circuit for its whole duration, so the initial call of a paid node that starts meanwhile passes the gate after the 402. | `NoPaidCallAfter402` | two nodes, one free pool model; passed, 402 | counterexample |
| `Account402Lost` (`MCModelRequest`) | The body of a 402 is read in the exception handler after the deadline-bounded part; when that read times out or is reset the status is gone and the engine sees an invalid response. | `Account402Reported` | no retry, a deadline of two ticks, two body reads | counterexample |
| `RunDelivery` (`MCRunDelivery`) | Every combination of node outcomes, account state, evidence verdict and audit finding drives the engine's verdict, the integrity layer, the constitutional gate and the audits of one run, stopped at any write: no summary ever claims a success the nodes do not back, and the file behaves as the reader of Delivery may assume. | `FullSuccessMeansStrict`, `ImplementsDelivery`, `OneStory` | two content nodes, one final node; the minima production writes | 116,119 |
| `PartialDelivery` (`MCRunDelivery`) | With the production minimum of 0.0 a partial delivery the runtime gate lets pass is rejected by the integrity layer, which reads the minimum as 1.0. | `PartialDeliveryKept` | as RunDelivery | counterexample |
| `CompletedUnbacked` (`MCRunDelivery`) | A full success whose request audit raises ends without result file and manifest, but its summary still makes the terminal step post EXECUTION_COMPLETED. | `CompletedIsBacked` | as RunDelivery | counterexample |
| `ExecutionTicket` (`MCExecutionTicket`) | Two runs, on one issue or two, race the chunk comments, each other and the reclaimer's paged sweep, with failing steps and lost runners: each run answers at most once and truthfully, a pool is accepted only whole, and an issue is closed by a terminal comment and, once it has one, always closed at last. | `OneTerminal`, `CompletedIsClaimed`, `AcceptedOnWholePool`, `TerminalIssuesClosed` | two runs on one or two issues, two pages of one issue; `FairSpec` | 269,769 |
| `ExecutionPlan` (`MCExecutionPlan`) | The planning pipeline from a ticket to the validated execution graph, for every dependency relation over three listed units, longer tickets, equal identities and clustered evidence, tasks of three demands and every outcome of the two optimizers; from a second start, the scores of small catalogs under each of the three schemes and the team they lead to. The planner never makes a plan one of its own layers refuses, loses no work but that of a unit whose identity a renamed one took, binds every model to parameters of one design, and leaves out no model for one it betters. | `OnlyInputsRefused`, `WorkKept`, `ParametersBound`, `CapabilityFirst`, `ObjectivesFit`, `TeamWellChosen` | three executable candidates and a routed one; at most four listed units and integration; weights 1 and 12, integration 9; costs in 1e-9 USD; teams: two to four of five models, 1,975 queries | 161,232 |
| `AnswerGate` (`MCAnswerGate`) | Some 2,700 answers, cut or not, for seven tasks and four nodes go through the layers that judge, relabel, normalize and judge again; tickets of up to three lines are read for the contract, the projected task and the rule of each node; claims of one or two pieces are looked for in tasks of one to three. What a passed attempt delivers was judged in that form; contract, rule and judge agree on what was asked; quotations pass and misquotations do not, as far as the wording tells. | `PassedIsDeliverable`, `ContentKept`, `RepairLosesLittle`, `ContractOfTheTicket`, `FollowedIsAccepted`, `WorkReachesNodes`, `QuotationsHold` | two required headings, two misspelt ones, one own heading, 19 claims, 7 tasks, 4 nodes, some 2,700 answers of up to seven lines, cut or not; contracts: 41,537 tickets of up to three lines; claims: 78 of one or two pieces, 849 tasks of one to three units | 1,554,954 |

Why these bounds are enough. Engine: every race on the circuits, the claims and the failure memory is a race of one
thread against what any other one does, so two nodes suffice for it (`AccountRecovery`); a
third node matters for the ledger's bounds and for a stage that starts after another one
(`CallBudget`, `StagedRecovery`). The standby models, two with a search and one where a free pool model
competes, let searches exhaust the space and a choice go stale; the quality circuit opens at
three rejected models. Outcomes are restricted per run to those its properties tell
apart. Nothing is capped there: attempts are bounded by the finite space, which `RunTerminates`
checks. `RecoveryLimit = 2`, `MaxProviderFailures = 1` in `CallBudget` make every denial
reason and an endpoint's overshoot occur; in the engine both are computed from the graph.

Request: one retry (the callers' default), a deadline of three ticks, so that trickling, silence
and the deadline interleave. Delivery: two content nodes give every proportion that the
verdict tells apart (none, some, all), one final node the preferred answer; all node, audit
and evidence outcomes are enumerated. `MinCoverage = 0`, no minimum of content nodes and no non-degradable
work are the values `v5_soft_proposal_materializer.py` 413-414 writes. Ticket: two runs are enough for
overlap on one issue and for two issues on different pages; the page size of one makes
the sweep shift under its own closing. Plan: the demands make every pressure
signal low and high, with few enough characters for exact ratios in TLC's 32-bit integers; three listed units have every
dependency relation including cycles, three tickets have a renamed unit that meets a listed one, four and longer tickets reach every branch of the cut
into roles; the pool has fewer and more candidates than needed. Answers: all sequences
of headings and claims up to the bound of `MCAnswerGate`, which has every heading defect
(missing, doubled, misspelled, out of order, empty, two required ones a character apart) next to every class of claim, and
calculations, thresholds and goals at the edge of each other's reach with a line between them that is cut in two. Contracts: all
tickets of up to three lines of 22 kinds with one requirement, which combine every two formats
and put work before, between and behind them. Teams: catalogs of two to four of five models
(dear and cheap, large and small, of unknown capacity, ranked and not), a light and a heavy task,
and roles that make context and output peak in different ones. Recovery order: two searches
are enough for one to sort the inventory between another's steps; a pool row and two standby models
split quality, reliability, cost and company between them. Catalog: two lists of which each model may be in
either, none or twice, a routed, a governing and an unpriced model, endpoints that are
weak, short, optional, unnamed or share a provider, and two fetching threads. `MCAnswerGate`, `MCExecutionPlan`,
`MCCallBudget` and `MCModelRequest` check several modules in one run each, with a start for each. Claims: one or two pieces from 28 kinds of
unit against tasks of one to three, joined by every separator.

Symmetry: the standby models are interchangeable, and so are the nodes of a stage together
with their own models; it is used for safety properties only.

## 5. What the checks show, and where code and text part

The passing runs show that the ledger keeps its promises under every interleaving and that
the engine uses it accordingly; that a 402 is never forgotten although zero-cost calls
lower the circuit and overlap; that both searches share standby without handing a model
to two nodes; that statuses tell the truth about the last answer; that recovery ends; that
no success is claimed, on disk or on the issue, that the nodes do not back; that recovery
turns to the better model first; that routes promise what every endpoint behind them keeps; that the
planner never makes a plan its own later layers refuse; that no model is left out for one it
betters; that nodes are told what they are judged by; that the answer delivered is the answer
judged; and that a claim is not supported at another place, nor with a number the place does not have.

Some properties state what the code guarantees, which is less than one might expect:
failures of an endpoint may pass the threshold by the threads already past the check; a
node may claim one standby model after the quality circuit opened (claims of the zero-cost search are not counted, and its run has no free
standby model to claim); a usable truncated
replacement answer is lost when its retry is not usable; an HTTP error's body may hold the
thread past the deadline; `CapabilityFirst` compares proved optima only, a feasible assignment
may be worse in any goal; a line with a forbidden quantity is
dropped; a ticket that asks for JSON and for headings has a contract no answer meets
(`ContractCanBeMet`, part of `ContractOfTheTicket`); a table as the only demand is judged and never told, and neither is that the values inside a field need content or
must be objects (`FollowedIsAccepted`); two units share a node, and the work of the first is forgotten, when one is
renamed to the other's identity (`UnitsKept`, part of `WorkKept`); a
recovery model of the role scheme is sized for every role's context and not for every
role's output (`RecoverySizedForAll`, part of `TeamWellChosen`); the standby inventory may be sorted for another
node's failure between a search's sort and its look (`PriorityKept` leaves that case out); the task scheme's tie-breaks may outweigh a point of the
score (`TeamWellChosen`); a part of the task quoted word by word may lack support (a bare number;
"3 guards yet no sentry", since the Chinese "yet" does not cut a piece; "on site" in a sentence that names a
place), a denial may take its number from a sentence without one, a place that the claim names in brackets is only looked for
in the sentence ("3 guards (east)" is supported by "5 guards east yet 3 guards west"), and a piece all in brackets is
not looked at (`QuotationsHold`); a final answer without a fault may fail after its repair, because the relabelled line
was its only fact, or because a mixed line cut in two pushed a number out of the reach of its threshold
(`PassLostOnlyToTheRepair`, part of `RepairLosesLittle`); and a work product that fails only for an unsupported fact label passes if the normalizer had
something to do and fails if not (`v5_production_expert_policy.py` 406-414,
`WarningForgivenOnlyIfNormalized`, part of `RepairLosesLittle`).

Four runs end in a counterexample, because the code does not do what its text says:

- `PaidAfterCredit`: "after an actual account-credit 402, paid follow-up calls remain
  suppressed" (`v5_credit_aware_recovery.py:18`). A zero-cost call lowers the circuit for
  all threads while it is in flight, and a paid initial call passes.
- `Account402Lost`: 402s are classified apart (`v5_runtime.py:385`). A 402 whose body cannot
  be read arrives as an invalid response.
- `PartialDelivery`: audited degraded output may be delivered once the runtime gate has proved
  it (`v5_quality_status_integrity.py:3-7`). The layer reads the production minimum 0.0 as 1.0
  (`or 1.0`, line 111) and rejects every partial delivery.
- `CompletedUnbacked`: completion requires an exact request audit and a frozen manifest
  (`DELEGATION_CONTRACT.md:37`). The summary claims success before the audit, which may raise;
  the step is `continue-on-error` and the terminal step reads the summary only.

## 6. Fairness and proofs

`FairSpec` of `ExpertRuntime` assumes weak fairness of every thread and of the stage loop:
threads are scheduled by the operating system, no lock is held across a call, and a model
call ends because `request_json` enforces a deadline - which `ModelRequest` checks in turn
(`CallReturns`). There, fairness is assumed of the clock, of the caller's steps and of the
ends of workers that are due, and of nothing the server does. Nothing is assumed about
which outcome a call has, nor that a chosen model is ever called. `FairSpec` of
`ExecutionTicket` assumes of the reclaimer only that its sweep runs again and again (it is on a
schedule) and is not aborted forever; nothing about runs, which may be lost.

Proved with TLAPS, for all constants that satisfy the named assumptions:

- `CallBudget_proof`.`TypeCorrect`: The ledger's variables keep their types for every number of nodes and endpoints.
- `CallBudget_proof`.`LedgerSoundSafe` (`LedgerSound`): The call counters agree with each other and stay within the limits, and every reserved cost belongs to a call in flight, for every number of nodes and every interleaving of the budget's operations.
- `CallBudget_proof`.`DenialsSafe` (`DenialsJustified`): reserve never denies a node its first call, and blames the total only when both shares are used up, for every number of nodes and every recovery limit
- `CallBudget_proof`.`EndpointCircuitSafe` (`EndpointOvershootBounded`): Failures of an endpoint exceed the circuit's threshold by fewer than the number of nodes.
- `CallBudget_proof`.`SpentLastSafe`: The capacity of the graph is never spent before every node has been asked for its initial call: what is left always covers the calls still owed.
- `ExpertRuntime_proof`.`TypeCorrect`: The engine's variables keep their types for every graph.
- `ExpertRuntime_proof`.`AccountCircuitSafe` (`AccountCircuitHeld`): A recorded 402 is never forgotten, for any number of overlapping zero-cost calls.
- `ExpertRuntime_proof`.`PaidCallSafe` (`PaidCallNeedsZeroCostWindow`): After a 402 a paid call passes the gate only inside another node's zero-cost call.
- `ExpertRuntime_proof`.`BudgetRefined` (`ImplementsBudget`): Every behaviour of the engine is a behaviour of the budget controller, for every graph.
- `ExpertRuntime_proof`.`EngineInitialCallsSafe`: The engine never has an initial call denied: CallBudget's theorem through the refinement.
- `ExpertRuntime_proof`.`NoNodeSkippedSafe` (`NoNodeSkipped`): For every staging of every graph a run that is over has left no node out: the stage loop stops early only when the capacity is spent, and by then every node has started (CallBudget's theorem through the refinement) and the barrier has every node of the present stage done.
- `ExpertRuntime_proof`.`StandbySafe` (`StandbyUsedByOneNode`): For every graph, pool and inventory no standby model is used by two nodes, however the ordinary and the zero-cost claims of parallel searches interleave.
- `ExpertRuntime_proof`.`SameModelSafe` (`SameModelOnlyToRepairTruncation`): No path through the recovery search returns to a tried model, but for the one retry that repairs its truncated answer right away.
- `ExpertRuntime_proof`.`OutcomeSafe` (`OutcomeFollowsAnswers`): A node reports success exactly when its last answer passed, and failure only when every usable answer was replaced by a retry of the same model, for every sequence of calls, refusals and answers.
- `ExpertRuntime_proof`.`LateClaimsSafe` (`LateClaimsBounded`): After the quality circuit opens a node promotes at most the one standby model it had chosen before, for any number of nodes and reasons.
- `ModelRequest_proof`.`TypeCorrect`: The call's variables keep their types and no try is made beyond the last.
- `ModelRequest_proof`.`HeldSafe`: A try holds the thread at most the deadline and one socket timeout per read of an error body.
- `ModelRequest_proof`.`LastTrySafe`: The call returns an answer exactly when its last try had one in time, and sends the request again only after an abandoned try or a failure that may pass, for every number of retries and every deadline.
- `ModelRequest_proof`.`CallSoundSafe` (`CallSound`): Whatever the server sends and whenever, a call is settled by its last try and no try holds the thread beyond its bound: HeldSafe and LastTrySafe together.
- `ModelRequest_proof`.`LessonsSafe` (`LessonsKept`): For every planned model, recovery row, effort, precision, cap and prompt size: after a truncation no later call of the node asks for less than a quarter more, and after an expired deadline each gets twice as long or the run's cap.
- `ExecutionPlan_proof`.`LexicographicWeights`: Whatever the candidates, roles and scores, a difference in capability outweighs everything after it in the weighted sum the role assignment minimizes, economy outweighs companies, companies outweigh the order: the scales of the objective are right.
- `ExecutionPlan_proof`.`CapabilityFirstHolds` (`CapabilityFirst`): For every ticket, pool, metric and number of roles an assignment proved optimal is the best by capability, then economy, then companies among all assignments of the candidates: without a condition, since no total exceeds the bound its scale is computed from (ObjectivesFitSafe).
- `RunDelivery_proof`.`OneTerminalSafe` (`OneTerminal`): Whatever runs, comments and sweeps interleave, a run gives at most one terminal comment, on its own issue, and one that ends without a failure has given it.
- `RunDelivery_proof`.`CompletionSafe` (`CompletedIsClaimed`): EXECUTION_COMPLETED is said only of a run whose summary claims full success and whose artifact was uploaded.
- `RunDelivery_proof`.`ClosedSafe`: For any number of issues, runs and pages: an issue the sweep closes carries a terminal comment of the kind it was closed for.
- `RunDelivery_proof`.`AcceptedSafe` (`AcceptedOnWholePool`): A ticket is accepted only after a complete, unmixed set of candidate pool chunks was posted on its issue, for every chunking.
- `RunDelivery_proof`.`TypeCorrect`: The verdict, the result and the queued files keep their types for every graph.
- `RunDelivery_proof`.`FullSuccessSafe` (`FullSuccessMeansStrict`): For every graph and wherever the process stops, no version of the summary claims full success unless every node succeeded strictly and all content work is covered.
- `RunDelivery_proof`.`DeliveryRefined` (`ImplementsDelivery`): For every graph the versions of the summary file follow Delivery: a failure is final, a success changes only into a failure, only a stop tears the file.
- `AnswerGate_proof`.`PassedSafe` (`PassedIsDeliverable`): For every contract, classification of claims and set of answers: an attempt that ends passed was not cut, and the text it delivers, after all relabelling and normalizing, meets the contract, the evidence rules and, for the final expert, the obligations of the task.
- `ExecutionPlan_proof`.`ProfilesOfOneDesignHolds`: For every ticket, pool and shape, the resource identities and the planned output with which a node's own model, a recovery model or a promoted standby model answers come from one and the same design (what ParametersBoundSafe builds on), by an invariant that follows the profile from the plan's rows over the closed proposal to the recovery rows.
- `RunDelivery_proof`.`ExitSafe`: For every graph and every limit: once the process has ended by itself the manifest is true of every file but the two rewritten after it, and result file, summary and report tell of one answer.
- `RunDelivery_proof`.`OneStorySafe` (`OneStory`): For every graph under the limits the materializer sets: past the gate status, mode and quality agree, a degraded success is allowed, whole, audited and not empty, an exhausted account is blamed whatever the later layers write, and the files left behind agree.
- `AnswerGate_proof`.`QuotationsHoldSafe` (`QuotationsHold`): For every task, claim, vocabulary and measure of likeness, with text in brackets or without: a quantity of a supported claim stands in one clause of the task with the places its clause names outside brackets, and in one sentence with all its piece names unless that denies something; and a unit quoted word by word is supported outside the named exceptions.
- `RecoveryOrder_proof`.`OrderInvariant`: The inductive invariant of the recovery searches of RecoveryOrder: the inventory stays a reordering of the plan's, sorted for its last failure, and what each search remembers fits where it is.
- `RecoveryOrder_proof`.`PriorityKeptSafe` (`PriorityKept`): The model a search settles on is outranked by none it could have had, for any rows, pool and inventory and any interleaving of searches, unless another search sorted the inventory for another kind of failure in between.
- `RecoveryOrder_proof`.`SearchSafe` (`SearchNeitherEarlyNorLong`): No ordinary search gives up while a standby model could be promoted and promotion was not shut, and no zero-cost search goes past the square root of its first space, for any plan.
- `ExecutionPlan_proof`.`ObjectivesFitSafe` (`ObjectivesFit`): For every ticket, pool, metric and number of roles, no assignment the solver may choose has a total that outgrows the bound its scale is computed from: sums over any finite set of positions are bounded by the number of positions times the largest score.
- `ExecutionPlan_proof`.`OnlyInputsRefusedSafe` (`OnlyInputsRefused`): Whatever the ticket, the pool and the choices of the optimizers, a run is refused only for a cycle, an empty pool, an advisory of zero or the rounded cost: the plan, the proposal and the graph each layer makes pass every check of the layers after it.
- `ExecutionPlan_proof`.`WorkKeptSafe` (`WorkKept`): However the units are named, the work ordered, cut and assigned: a unit loses its node only to one later unit that was renamed to its identity, every node is the work of exactly one role, no role is empty, a unit follows all it depends on, exactly one role is final and every other hands its result over an edge, and the plan divides the candidates without loss or reuse.
- `ExecutionPlan_proof`.`ParametersBoundSafe` (`ParametersBound`): Each value lies in the domain designed for it, each profile a node answers with is of one design, and no model that steps in plans for less output than the node it replaces, for every ticket, pool and shape.
- `ModelRequest_proof`.`CatalogInvariant`: CatalogInv: for any lists, inventories, plan and company, in every phase the lists are those the server may send, what was fetched belongs to wanted models, each governor is the highest that suffices, and the rows and refusals stand for the endpoints that were fetched.
- `ModelRequest_proof`.`CatalogPromisesTheLeast` (`RoutesPromiseTheLeast`): In whatever order the fetches end and the endpoints are listed, each private and sufficient route of a wanted model has one row, by rank, that promises the least of the endpoints behind it; the coalescing loop is proved to give the weakest row by induction on the places it has seen.
- `ModelRequest_proof`.`PlanFoundWhereListed` (`PlanFoundInAnyList`): For any orders of the list and any of them lost, a plan is refused only for a model that no list names, and its rows keep its order, each model once, with the larger capacity.
- `ModelRequest_proof`.`TheHighestGoverns` (`HighestUsableGoverns`): Whatever models a company has and whichever answers came last, the one that governs is the highest of those looked at whose own endpoint keeps no data and suffices.
- `AnswerGate_proof`.`ContentKeptSafe` (`ContentKept`): Whatever the answer, the contract and the task: the text that leaves an attempt says under each heading what the raw text said there, with labels no stronger, and loses only lines with a forbidden quantity.
- `AnswerGate_proof`.`RepairLosesLittleSafe` (`RepairLosesLittle`): Whatever the answer, the contract and the task: an answer without a fault that fails after the repair is the final expert's, and what fails it is a fact looked for in vain after a fact line was relabelled, or - if a line was cut in two - an obligation or a direction that wants things close together; and the lone warning of a work product is forgiven by one rule.
- `AnswerGate_proof`.`ContractOfTheTicketSafe` (`ContractOfTheTicket`): Whatever the ticket: the headings the final expert is held to are listed in the ticket, a list announced with its length being taken before any other, and its contract can be met unless it asks for JSON and for a report at once.
- `AnswerGate_proof`.`FollowedSafe` (`FollowedIsAccepted`): Whatever the ticket: an answer that does what the final expert was told is rejected only for what it was not told, and then only if it breaks it: a table where that is all the ticket asks for, a value without content inside a field with spelled-out keys, or one that is no object where the ticket wants objects.
- `AnswerGate_proof`.`WorkReachesSafe` (`WorkReachesNodes`): Whatever the ticket: the nodes miss of it only what became a heading, stands beside a format demand or names the mechanics, and a final expert without a contract sees what there is of the format unless a dropped clause held part of it.
- `TeamSelection_proof`.`TeamWellChosenSafe` (`TeamWellChosen`): For every packet, graph, pool, list of roles and scheme: no model is left out of a team, proven or greedy, for one it betters in every respect; the proven team of the task scheme is less than a point a position above the least score; recovery is sized for every role.

Assumptions: `ModelAssumption` (finite sets; one model per node; pool, standby and selected
models disjoint, as `v5_runtime_role_assignment.py` and
`v5_hierarchical_candidate_optimizer.py` 92-98 establish; `WorkKept` checks it of
the planner), `StageAssumption` (every node in exactly one stage), `OutcomeAssumption`,
`RuntimeNoCallAssumption`; in `CallBudget` finite nodes and natural limits; in
`RequestAssumption` natural bounds and a positive deadline; in `RunDelivery`
`GraphAssumption`; in `ExecutionPlan` `PlanAssumption` (a ticket's lists are finite, its demand
counts characters, rules and items, models are numbers, ranks and costs are natural for every role there can be, as
`v5_runtime_role_assignment.py` 58-75 computes them; no listed unit has the identity of the
integration unit, a digest of the sinks in `v5_task_work_graph.py` 404-405); in `ExecutionTicket` `TicketAssumption` (finite runs and issues, positive
page sizes, and pages enough for all issues); in `RequestsAssumption` ranks 0 to 6 and positive requirements; in
`CatalogAssumption` what the lists and endpoints are made of, integers with a least rank for the unlisted, a company of which
at least one model is asked for (`PerCompany`); in `QueriesAssumption` natural measures, a pool that is numbered and not
empty (`v5_top50_pool_optimizer.py` 98 raises otherwise) and, in the role schemes, at least one role
(`v5_runtime_role_assignment.py` 262 raises otherwise); in `DeliveryContract` `TicketAssumption` (declared outputs
are distinct, a question is not empty, a line is either numbered or worded, and a line without a wording has neither a count nor a
tail, which only the patterns behind a wording read); in `AnswerGate` what the classifiers cannot contradict: required headings are distinct (`RequiredAssumption`), an answer has some text and a heading carries no label since
it begins with its number signs (`AnswersAssumption`), a blank line announces nothing, facts, results and experiences are looked for anywhere, and what
a mixed claim announces by itself one of its parts does (`ClaimAssumption`).

How the arguments go:

- *Ledger.* `LedgerSound` has two parts. `LedgerBalanced` is inductive with the types. That no initial call is denied
  needs more: the initial calls reserved plus the nodes that still owe one are at most the
  number of nodes, so a thread that asks finds room in its share, and, the recovery share
  being bounded on its own, in the total. The endpoint bound counts the failures
  recorded plus the threads past the check. `PendingCoveredByCalls` counts pending entries against
  calls in flight, and holds because `reconcile` never pops below zero and each settled call
  pops at least one.
- *Account circuit.* Once a 402 is recorded, the circuit is up or some thread has read it up
  and is between `clear` and `restore`; `prior_blocked[n]` is only true there. The lemmas
  group the actions by what they do to these variables. The paid-call theorem adds that the
  gating thread itself is not such a thread unless its own call is a free one.
- *Refinement of the ledger.* Initial states map to initial states; each engine action maps to
  the ledger action of its call or to a stutter. The engine's ledger theorem is then CallBudget's,
  instantiated.
- *Stages.* `NoNodeSkippedSafe` is the ledger's theorem put to use. The stage loop stops early
  only when the capacity is spent; `SpentLastSafe` of `CallBudget` says that by then every node has been
  asked for its initial call, and through the refinement that it has started (`SpentWhenAllStarted`).
  `StagesInOrder` - the nodes of a stage begin only after all earlier stages are done - is inductive;
  the two together leave no node out.
- *Recovery.* The moves of a thread are first put into few kinds (`Moves`: it goes on with a call, is
  suppressed, is answered, starts, searches, ends, retries, replaces), each with what it does to the
  attempts, to the call and to the claims; `StepMoves` shows that every action is one of them, and the invariants are
  shown for the kinds. `HeldByOne`: a standby model in the attempts, the call or the choice just claimed of a node
  is claimed, and no other node holds it. `CallFits` ties the call to the phase it is for, `RepairsOnly` says that an
  attempt repeats a model only right after its truncated answer, `PassedIsLast` that nothing follows a
  passed answer, `UsableKept` that a usable answer is the best one kept unless a retry of its own model replaced
  it; `ResultFits` reads the node's status off these. `LateClaimsFit` counts the claims after the quality circuit
  opened: a thread that chose before may claim once, and cannot reach the claim again while the circuit is open.
- *Order of recovery.* The sort keys of a failure are compared by `Lower`, a strict order of the
  rows by integers, total because the last key is the model. A row's rank is the number of
  rows ahead of it, and cardinality gives that the sorted inventory is ranked (`Ranked`); the first row of a
  search's window is then the first by key among all it could have. That a
  search is not shut out goes layer by layer: each of breadth, batch and liveliness leaves a
  window of at least one as long as a model can be promoted (`Wanting`, `Spent`). The zero-cost depth is
  the least number whose square reaches a share of the space, and the share is at most the whole. The rows and
  failure rates are integers or absent, and pool and inventory disjoint (`OrderAssumption`).
- *Request.* `HeldSafe` follows from the clock bound `Deadline * (1 + reads) + quiet` while an
  error body is read. `LastTrySafe` keeps that a try that is over was abandoned or its worker
  had exited with what decided the next step.
- *Lessons.* The invariant of `LessonsSafe` keeps a floor under each floor: the node's floor is at
  least what each earlier attempt taught, and a candidate about to be called has at least the node's
  floors. The arithmetic of a lesson (a quarter more at the least) is a lemma of its own.
- *Delivery.* The result in memory claims full success only of a run that is strict everywhere,
  and every queued version of the summary claims what the result claims or less; a version on
  disk was once in the queue. The same queue invariant gives the refinement: what is written
  next never raises the claim on disk.
- *One story.* `VerdictInv` follows verdict, cause and quality from the engine through the integrity layer and
  the gate, `FilesInv` says of each `pc` which files are written and which version they hold; the manifest is
  true of a file unless it is one of the two written after it (`Unhashed`). `ExitSafe` holds for all
  limits. That status, mode and quality agree needs `PipelineLimits`, the values
  `v5_soft_proposal_materializer.py` 413-414 writes into every graph; with a minimum of one content node TLC shows
  a run whose verdict and quality disagree, so the hypothesis is needed.
- *Ticket.* A run is at a step only if the earlier ones left what they leave (receipt, claim,
  artifact), comments are only appended, and each run's marks in them are
  counted by its step. The acceptance theorem is about the chunks posted: hydration accepts
  when the parcels cover all indices with one compression, and parcels never disappear.
- *Weights.* Each scale is one more than the largest sum of everything that follows it, so a
  difference of one outweighs the rest. `LexicographicWeights` is that arithmetic. That the
  totals of an assignment stay within the bounds the scales are computed from is
  `ObjectivesFitSafe`: a sum over a finite set is at most its size times the largest summand, an
  assignment fills exactly the positions, and each model it uses is a candidate.
  `CapabilityFirstHolds` puts the two together, without a condition.
- *Planning.* No planning property is inductive: each speaks of what several layers make in turn.
  `LayersInv` says what each layer hands on - the work is a graph without cycles and with one
  sink, the shape is one of the search space and takes no more models than there are, and some order of the units, each after what
  it depends on, is cut into the roles (`RolesCut`) - and `PlanInv` that the plan is an assignment and
  the models left, the proposal has the graph of the roles, and the execution graph is made of both. Then
  `OnlyInputsRefusedSafe` goes through the checks of `CheckPlan`, `BuildProposal`, `Materialize` and `Validate` one by
  one, and `WorkKeptSafe` reads the rest off the order and the cut: an edge of the work goes further on
  in the order, hence stays in its role or leads to a later one (`EdgesGoFurther`, `EdgesAreHanded`); the
  last unit of the order is the one sink, so the last role is the final one and every other hands something on (`RoleGraphIs`). Which units keep a node is
about names alone: a renamed identity is its own with one number more, so two renamed ones never meet, and a
renamed one meets at most one listed before it.
- *Recursion.* The operators of the planner are recursive functions: generations, orders, cuts, sums. What
  such a function is follows from `RecursionExists` (a function that unfolds step by step exists, by a least
  counterexample over the naturals, and the CHOOSE of the definition is one), and what holds of each of its
  values from `CountUp`. From there: the settled sets grow and stop (`SettledGrows`, `SettledStops`), every
  topological order has each node once and after all it depends on (`OrdersAreInOrder`), packing and
  halving keep the order cut into parts none of which is empty (`CutsInTwo`), the candidates are the
  executable models of the pool, each once.
- *Profiles.* Each node's profile is the close of one proposal, and a stand-in's is that profile
  with the resources re-bound; the invariants `RowsInv` and `NodesInv` carry this from the plan's
  rows to the nodes of the graph (`ProfilesOfOneDesignHolds`). `ValuesInv` adds that what has a value has a
  design and lies in its domain. A stand-in plans for no less because the plan is designed for the units of the work and the
  proposal for the roles, of which there are no more, and the target grows with them: the square root
  rounded up is shown to exist and to be monotone (`CeilRootIs`, `CeilRootGrows`). With these,
  `ParametersBoundSafe`.
- *Quotations.* What the source cuts by three sets of separators is cut here by positions, so a
  piece lies in a sentence and a mention in a clause, by lemmas on spans (`SpanAround`, `LongerSaysMore`).
  A quantity that is found bound to its places outside brackets stands in one clause of the task
  (`ContextInClause`, `MatchedInOneSentence`); a unit quoted alone is its own piece, respelled as in the task, and supported
  (`QuotedRow`). The attempt showed that this second half had been stated too strongly: "on site" in a
  piece that names no place of its own is resolved against the task's places and may then be refused, although quoted
  word by word; `QuotationAccepted` now names the case, and the run has tasks that reach it.
- *Answers.* The invariant says at each `pc` what the layers so far have established of the
  present answer, not of the one first judged; normalization invalidates, and `Judge`
  re-establishes. A second one, `TextInv`, follows the text: the present answer is the raw one after the layers passed, each of
  which moves lines under their own heading, drops only lines with a forbidden quantity and never strengthens a label.
  What the repair can lose is then read off it: of an answer without a fault it has none either, fault by fault,
and as long as no line was cut every claim stays where it was, so that whatever stood around it still does (`LittleIsLost`).
- *Catalog.* `CatalogInv` says for each phase what the lists are, what was fetched and for whom, that each
  governor is the highest that suffices among those looked at, and that rows and refusals stand for the endpoints fetched. A merge only
  lowers what a route promises, in whatever order the endpoints come (`Observed`, by induction on the
  places it has seen), and ends at the least of them. A plan is found because the first row of a model is a row
  of it in some list.
- *Contracts.* `ContractInv` is short: the contract is `WorkOutputContract` of the whole ticket, what the nodes see is
  `ProjectTask` of its business part, and the verdict `AnswerViolations` of the reply. The rest is about these operators:
  headings occur once and stand in the ticket (`HeadingsOnce`, `NestedIs`, `ExplicitIs`; for announced lists the runs, segments and
  the chosen one, `SegmentIs`, `HeadingsRead`, `HeadingsListed`); what follows the rule as told meets each violation's negation, for a report, for an object and for
  both; no answer meets both demands at once. That no work is lost needs a map from the places of the full ticket to
  those of what is left, which is increasing and hits each clause but those excepted.
- *Teams.* `TeamInv` says that what is scored is a query's pool under the needs measured from it, with numbers for needs
  (`TaskNeedIs`, `RoleNeedIs`). A model that is better in every respect has the smaller score in every position, because a rank grows with its
  key or ratio (`PlaceOfKey`, `PlaceOfRatio`) and the penalty with the shortfall (`ScoredIs`). For a proven team an exchange closes
  the argument: put the better model in the other's place, and every goal of the scheme falls or stays while one
  falls (`RoleReplaced`, `TaskGoalFalls`, `CapabilityFalls`, `RoleGoalFalls`). The greedy order takes a model that
  is least by key, position for position (`GreedyTeamIs`). The tie-breaks add up to less than a point a position
  (`TieBelowBase`, `ProvenNearlyLeast`). Recovery is sized for what it may replace because tokens grow with the demand (`HeaviestIs`).

The types of `CallBudget`, `ExpertRuntime`, `ModelRequest` and `RunDelivery` are proved
(`TypeCorrect`) and not repeated as run properties. `CallSound` is `HeldBound` and `LastTryDecides` together;
`WarningForgivenOnlyIfNormalized` is one half of `RepairLosesLittle`.

Model-checked only:

- the liveness properties `RunTerminates`, `CallReturns` and `TerminalIssuesClosed` (outside the
  prover's reach, like anything with ENABLED).

Every invariant, every safety action property and both refinements of the passing runs are stated by a theorem.

`CeilSqrt` of `ExpertRuntime` is a CHOOSE and its value is checked by evaluation in the runs; the proofs use only that it is a
natural number.

## 7. Not modelled

- Code that production no longer reaches: `v5_pipeline.py` (but for its catalog), `v5_gpt_expert_selector.py`,
  `v5_proposal_materializer.py`, `v5_top20_pool_selector.py`, `v5_governance_runtime.py`,
  `v5_claude_red_team_policy.py`, `v5_run_evidence.py`, `v5_execution_auditor*.py`,
  `v5_production_ticket.py`, `v5_issue_ticket.py`, `v5_ticket_gate.py`,
  `v5_hierarchical_task_planner.py`, `v5_dynamic_parameter_graph.py`, the retired admission lock
  and retry ledger. Only tests, or each other, call them.
- The acceptance workflow (`v5-price-ranked-paid-candidate-acceptance.yml` with its ticket gate,
  execution auditor, independent revalidation and report publisher). Its gate demands the
  runtime version of `v5_price_ranked_ticket_gate.py:97`, which no active code writes, and its
  auditor wants a node `expert-final-synthesis` (`v5_price_ranked_execution_auditor.py:168`)
  that the active planner never makes: no state of the system reaches the steps behind them.
- Text analysis: the patterns that classify a claim, the construction and inspection of
  prompts and payloads, the words that mark a task's constraints. They enter as
  sets of claims, outcomes and tickets.
- Numbers no modelled decision depends on: money while a run executes, temperatures, the length
  of back-off, price ranking.
- Reading, signing and hashing of plan files and fixtures; the decoding of responses;
  audit records that no decision reads.
