----------------------------- MODULE RecoveryOrder -----------------------------
(***************************************************************************)
(* Which model comes next: the recovery searches of several nodes over     *)
(* their common pool rows and one standby inventory, with the order of     *)
(* that inventory, the window each search may look into, and the bounded   *)
(* zero-cost search after an account-credit 402.                           *)
(*                                                                         *)
(* The inventory's order is shared: every search sorts it for the failure  *)
(* it is about, in one critical section, and looks at its head in another. *)
(* ExpertRuntime has the calls themselves and takes any model of the space.*)
(***************************************************************************)
EXTENDS Integers, FiniteSetsExt, SequencesExt

CONSTANTS
  Searcher,   \* nodes that may have to search
  Primaries,  \* number of nodes of the graph
  StageCount, \* number of its stages
  Spot,       \* [Searcher -> [model, company, degree, stage, final, resource]]
  Row,        \* [model -> its row]; models are numbered in the order of names
  Pool,       \* models every node may recover with
  Standby,    \* the inventory as the plan lists it
  Permitted,  \* models the account's policy permits
  Ends,       \* how a call may end
  Absent      \* a signal or a mark that a row does not carry

Models == DOMAIN Row

ASSUME OrderAssumption ==
  /\ Pool \subseteq Models /\ Standby \in Seq(Models)
  /\ Pool \cap Range(Standby) = {} /\ IsInjective(Standby)
  /\ Primaries \in Nat \ {0} /\ Cardinality(Searcher) <= Primaries
  /\ Models \subseteq Int /\ IsFiniteSet(Models)
  /\ \A m \in Models :
       {Row[m].quality, Row[m].failure, Row[m].task, Row[m].price, Row[m].cost}
         \subseteq Int \cup {Absent}
  /\ \A n \in Searcher : Spot[n].resource \in 0 .. 100 \cup {Absent}
  /\ Ends \cap {"none", "blocked", "lowered", "exhausted", "bounded"} = {}

VARIABLES
  inventory,  \* _standby_inventory, in its present order
  sortedFor,  \* the kind of failure it was last sorted for
  taken,      \* _standby_claimed
  broken,     \* _hard_failed_model_ids
  companies,  \* _attempted_company_sequence, as a set
  counted,    \* [attempts, failures, quality] of the run
  rejected,   \* models whose answer missed an obligation of the task
  credit,     \* an account-credit 402 has been recorded
  probe,      \* the policy probe: unasked, asked, listed, unlisted
  free,       \* [calls, privacy] of all zero-cost searches
  at,         \* where each search is
  search,     \* what each search knows
  past        \* what was passed over, and why a search ended

orderVars == <<inventory, sortedFor, taken, broken, companies, counted, rejected,
               credit, probe, free, at, search, past>>

AtMost(i, j) == Min({i, j})
AtLeastOne(i) == Max({1, i})
UpTo(a, b) == (a + b - 1) \div b

\* The square root of a / b rounded up, or the bound if that is less.
RootWithin(bound, a, b) == Min({bound} \cup {d \in 0 .. bound : d * d * b >= a})

(***************************************************************************)
(* The order                                                               *)
(***************************************************************************)
Signal(stated, default) == IF stated = Absent THEN default ELSE stated

\* The cost of a task if it was estimated, else the catalog's price signal,
\* else what the row says; the source decides between equal numbers.
CostSignal(m) ==
  CASE Row[m].task # Absent -> <<Row[m].task, 3>>
    [] Row[m].task = Absent /\ Row[m].price # Absent -> <<Row[m].price, 1>>
    [] OTHER -> <<Signal(Row[m].cost, 0), 2>>

Repeated(m) == IF Row[m].company \in companies \ {Absent} THEN 1 ELSE 0

\* Quality first after a rejected answer, reliability first after any other
\* failure.  Estimates are in percent, and a missing one counts as the worst.
Merit(m, kind) ==
  LET quality == -Signal(Row[m].quality, 0)
      failure == Signal(Row[m].failure, 100)
  IN  IF kind = "quality" THEN <<quality, failure>> ELSE <<failure, quality>>

\* Mutant: a company not tried yet comes before merit.
RankKeyDiverse(m, kind) ==
  <<Repeated(m)>> \o Merit(m, kind) \o CostSignal(m) \o <<m>>

\* _failure_rank_key
RankKey(m, kind) ==
  LET merit == Merit(m, kind)
      cost  == CostSignal(m)
  IN  <<merit[1], merit[2], cost[1], Repeated(m), cost[2], m>>

Lower(k, l) ==
  \E i \in DOMAIN k : k[i] < l[i] /\ \A j \in 1 .. i - 1 : k[j] = l[j]

\* Each model stands behind those with a lower key.
Ahead(m, models, kind) == {o \in models : Lower(RankKey(o, kind), RankKey(m, kind))}
Ranked(models, kind) ==
  [i \in 1 .. Cardinality(models) |->
     CHOOSE m \in models : Cardinality(Ahead(m, models, kind)) = i - 1]

FailureKind(category) == IF category \in {"quality", "obligation"} THEN "quality" ELSE "other"

(***************************************************************************)
(* The window                                                              *)
(***************************************************************************)
\* Where the standby models stand that a search may still promote, and the first
\* of them.
Eligible == {i \in DOMAIN inventory : inventory[i] \notin taken \cup broken}
Offered(depth) ==
  {inventory[i] : i \in {i \in Eligible : Cardinality({j \in Eligible : j < i}) < depth}}

\* repeated_deterministic_quality_signal: one obligation is missed by as many
\* models as the number of models seen missing any calls for.
Systemic ==
  LET models == Cardinality(rejected)
  IN  models > 0 /\ models >= Max({3, RootWithin(models, models, 1) + 1})

\* While a zero-cost call is out the circuit may be found lowered.
BlockedAsRead ==
  {credit} \cup IF \E n \in Searcher : at[n] = "freecall" THEN {FALSE} ELSE {}

\* v5_runtime: a root of what is left per node, and up to twice of it under
\* pressure, the mean of three shares.
BreadthOf(n) ==
  LET left  == Len(inventory) - Cardinality(taken)
      a     == AtLeastOne(counted.attempts)
      whole == 3 * a * Primaries
      part  == (counted.failures + counted.quality) * Primaries
               + AtMost(search[n].failed, Primaries) * a
  IN  IF left <= 0 THEN 0
      ELSE AtMost(left, AtLeastOne(
             RootWithin(left, left * (whole + part) * (whole + part), Primaries * whole * whole)))

\* Mutant: rounded down, and nothing keeps it from zero.
BatchDown(n, breadth) ==
  LET a == AtLeastOne(counted.attempts)
      firms == {Row[inventory[i]].company : i \in Eligible} \ {Absent}
      bits  == Min({b \in 0 .. Cardinality(firms) + 1 : 2 ^ b >= Cardinality(firms) + 1})
  IN  AtMost(breadth, AtMost(Cardinality(Eligible),
        (bits * counted.failures) \div (2 * a)))

\* dynamic_company_entropy_batch: the companies to choose from, in bits, and
\* of these the share of failures.
Batch(n, breadth) ==
  LET a     == AtLeastOne(counted.attempts)
      firms == {Row[inventory[i]].company : i \in Eligible} \ {Absent}
      c     == AtLeastOne(Cardinality(firms)) + 1
      bits  == AtLeastOne(Min({c} \cup {b \in 0 .. c : 2 ^ b >= c}))
      part  == Max({counted.failures * Primaries, counted.quality * Primaries,
                    AtMost(search[n].failed, Primaries) * a})
  IN  IF breadth <= 0 THEN 0
      ELSE AtMost(breadth, AtMost(Cardinality(Eligible),
             AtLeastOne(UpTo(bits * part, a * Primaries))))

\* Where a node stands in the graph: its degree, its stage, and whether it is
\* the last.
Spatial(n) ==
  LET most == AtLeastOne(2 * AtLeastOne(Primaries - 1))
  IN  [part  |-> AtMost(Spot[n].degree, most) * StageCount
                 + AtMost(Spot[n].stage, StageCount) * most
                 + IF Spot[n].final THEN most * StageCount ELSE 0,
       whole |-> 3 * most * StageCount]

\* Every attempt of a node that still searches has failed.
Temporal(n) == [part |-> search[n].failed, whole |-> AtLeastOne(search[n].failed)]

\* v5_continuous_spatiotemporal_replanning: up to twice the batch.
Lively(n, batch) ==
  LET s == Spatial(n)
      t == Temporal(n)
  IN  IF batch <= 0 THEN 0
      ELSE AtMost(Cardinality(Eligible), AtLeastOne(
             batch + RootWithin(Cardinality(Eligible), batch * batch * s.part * t.part,
                                s.whole * t.whole)))

(***************************************************************************)
(* The ordinary search                                                     *)
(***************************************************************************)
Unstarted ==
  [category |-> "none", left |-> Pool, called |-> {}, failed |-> 0, depth |-> 0,
   choice |-> 0, listed |-> FALSE, limit |-> 0, missed |-> 0]
NothingPast == [over |-> {}, order |-> "none", shut |-> FALSE, first |-> 0, why |-> "none"]

OrderUnasked ==
  /\ inventory = Standby /\ sortedFor = "plan"
  /\ taken = {} /\ broken = {} /\ companies = {}
  /\ counted = [attempts |-> 0, failures |-> 0, quality |-> 0]
  /\ rejected = {} /\ credit = FALSE /\ probe = "unasked"
  /\ free = [calls |-> 0, privacy |-> 0]
  /\ search = [n \in Searcher |-> Unstarted]
  /\ past = [n \in Searcher |-> NothingPast]

OrderInit == OrderUnasked /\ at = [n \in Searcher |-> "initial"]
OrderIdle == OrderUnasked /\ at = [n \in Searcher |-> "done"]

Searching == {"quality", "obligation", "transient", "invalid", "privacy404"}

GoOn(n, where) == at' = [at EXCEPT ![n] = where]
Reaches(n, depth) == search' = [search EXCEPT ![n].depth = depth]
Hears(n, listed) == search' = [search EXCEPT ![n].listed = listed]

\* The locals of a search go with it; what its last call was and how many calls
\* missed is still in the node's attempts.
Leave(n, local, reason) ==
  /\ GoOn(n, "done")
  /\ search' = [search EXCEPT ![n] = [Unstarted EXCEPT
       !.category = local.category, !.limit = local.limit, !.missed = local.missed]]
  /\ past' = [past EXCEPT ![n] = [NothingPast EXCEPT
       !.shut = past[n].shut, !.first = past[n].first, !.why = reason]]
GoOnWith(n, local, where) ==
  /\ GoOn(n, where)
  /\ search' = [search EXCEPT ![n] = local]
  /\ past' = [past EXCEPT ![n].over = {}, ![n].order = "none"]

memoryVars == <<companies, counted, rejected, credit, broken>>
sharedVars == <<inventory, sortedFor, taken>>
freeVars == <<probe, free>>

\* _record_feedback, through the layers of the engine.
Recorded(model, company, end) ==
  /\ companies' = companies \cup ({company} \ {Absent})
  /\ counted' = [attempts |-> counted.attempts + 1,
                 failures |-> counted.failures + IF end = "passed" THEN 0 ELSE 1,
                 quality  |-> counted.quality + IF FailureKind(end) = "quality" THEN 1 ELSE 0]
  /\ rejected' = IF end = "obligation" THEN rejected \cup {model} ELSE rejected
  /\ broken' = IF end \in {"invalid", "privacy404"} THEN broken \cup {model} ELSE broken
  /\ credit' = (credit \/ end = "credit402")

\* The initial call of a node ends; a failure that another model can repair
\* starts the ordinary search.
InitialCall(n) ==
  /\ at[n] = "initial"
  /\ \E end \in Ends \ {"suppressed"} :
       /\ Recorded(Spot[n].model, Spot[n].company, end)
       /\ LET local == [Unstarted EXCEPT !.category = end, !.failed = 1]
          IN  CASE end \in Searching -> GoOnWith(n, local, "turn")
                [] end = "credit402" -> GoOnWith(n, local, "entry")
                [] OTHER -> Leave(n, local, end)
  /\ UNCHANGED <<sharedVars, freeVars>>

\* One turn of the loop: nothing more once the account is found blocked; the
\* rows that are left; the inventory sorted for this node's failure.
Turn(n) ==
  /\ at[n] = "turn"
  /\ \E blocked \in BlockedAsRead :
       IF blocked
       THEN Leave(n, search[n], "blocked") /\ UNCHANGED sharedVars
       ELSE /\ search' = [search EXCEPT ![n].left = @ \ (search[n].called \cup broken)]
            /\ inventory' = Ranked(Range(inventory), FailureKind(search[n].category))
            /\ sortedFor' = FailureKind(search[n].category)
            /\ GoOn(n, "breadth")
            /\ UNCHANGED <<taken, past>>
  /\ UNCHANGED <<memoryVars, freeVars>>

\* The depth of the window is computed by three layers, each in a critical
\* section of its own; the quality circuit and the account come first.
Breadth(n) ==
  /\ at[n] = "breadth"
  /\ \E blocked \in BlockedAsRead :
       LET shut == Systemic \/ blocked
       IN  /\ Reaches(n, IF shut THEN 0 ELSE BreadthOf(n))
           /\ past' = [past EXCEPT ![n].shut = shut]
  /\ GoOn(n, "batch")
  /\ UNCHANGED <<memoryVars, sharedVars, freeVars>>

Narrow(n) ==
  /\ at[n] = "batch"
  /\ Reaches(n, Batch(n, search[n].depth))
  /\ GoOn(n, "lively")
  /\ UNCHANGED <<memoryVars, sharedVars, freeVars, past>>

Widen(n) ==
  /\ at[n] = "lively"
  /\ Reaches(n, Lively(n, search[n].depth))
  /\ GoOn(n, "window")
  /\ UNCHANGED <<memoryVars, sharedVars, freeVars, past>>

\* The head of the inventory joins the rows of the pool; the first of them by
\* the node's own key is taken.
Choose(n) ==
  LET space == search[n].left \cup Offered(search[n].depth)
  IN  /\ at[n] = "window"
      /\ IF space = {}
         THEN Leave(n, search[n], "exhausted")
         ELSE LET m == Ranked(space, FailureKind(search[n].category))[1]
              IN  /\ search' = [search EXCEPT ![n].choice = m,
                                              ![n].left = search[n].left \ {m}]
                  /\ past' = [past EXCEPT
                       ![n].over = (search[n].left \cup {inventory[i] : i \in Eligible}) \ {m},
                       ![n].order = sortedFor]
                  /\ GoOn(n, IF m \in Pool THEN "call" ELSE "claim")
      /\ UNCHANGED <<memoryVars, sharedVars, freeVars>>

\* _claim_specific_standby
ClaimChoice(n) ==
  /\ at[n] = "claim"
  /\ \E blocked \in BlockedAsRead :
       IF search[n].choice \in taken \cup broken \/ blocked
       THEN GoOnWith(n, [search[n] EXCEPT !.choice = 0, !.depth = 0], "turn") /\ UNCHANGED taken
       ELSE GoOn(n, "call") /\ taken' = taken \cup {search[n].choice} /\ UNCHANGED <<search, past>>
  /\ UNCHANGED <<memoryVars, inventory, sortedFor, freeVars>>

\* A call that a gate suppresses leaves no attempt behind.
CallEnds(n) ==
  /\ at[n] = "call"
  /\ \E end \in Ends :
       LET idle  == [search[n] EXCEPT !.choice = 0, !.depth = 0]
           local == [idle EXCEPT !.category = end,
                                 !.failed = @ + IF end = "passed" THEN 0 ELSE 1,
                                 !.called = @ \cup {search[n].choice}]
       IN  IF end = "suppressed"
           THEN GoOnWith(n, idle, "turn") /\ UNCHANGED memoryVars
           ELSE /\ Recorded(search[n].choice, Row[search[n].choice].company, end)
                /\ IF end \in Searching THEN GoOnWith(n, local, "turn")
                   ELSE Leave(n, local, end)
  /\ UNCHANGED <<sharedVars, freeVars>>

(***************************************************************************)
(* The zero-cost search                                                    *)
(***************************************************************************)
\* After a 402, if the account is still found blocked.
EnterFree(n) ==
  /\ at[n] = "entry"
  /\ \E blocked \in BlockedAsRead :
       IF blocked THEN GoOn(n, "probe") /\ UNCHANGED <<search, past>>
       ELSE Leave(n, search[n], "lowered")
  /\ UNCHANGED <<memoryVars, sharedVars, freeVars>>

\* The account's list is asked for once; a node that comes while the answer is
\* out goes on without it.
AskPolicy(n) ==
  /\ at[n] = "probe"
  /\ IF probe = "unasked"
     THEN probe' = "asked" /\ GoOn(n, "asking") /\ UNCHANGED search
     ELSE /\ Hears(n, probe = "listed")
          /\ GoOn(n, "free")
          /\ UNCHANGED probe
  /\ UNCHANGED <<memoryVars, sharedVars, free, past>>

PolicyAnswered(n) ==
  /\ at[n] = "asking"
  /\ probe' \in {"listed", "unlisted"}
  /\ Hears(n, probe' = "listed")
  /\ GoOn(n, "free")
  /\ UNCHANGED <<memoryVars, sharedVars, free, past>>

\* 0: known to be permitted; 1: unknown; 2: known to be excluded.
Compatibility(n, m) ==
  CASE search[n].listed -> IF m \in Permitted THEN 0 ELSE 2
    [] ~search[n].listed /\ Row[m].policy = Absent -> 1
    [] OTHER -> IF Row[m].policy = "permits" THEN 0 ELSE 2

FreeSpace(n) ==
  {m \in Pool \cup Range(inventory) :
     /\ Row[m].free
     /\ m \notin search[n].called \cup broken \cup taken
     /\ Compatibility(n, m) < 2}

FreeKey(n, m) == <<Compatibility(n, m), Signal(Row[m].price, 0), m>>

\* _resource_pressure; without a stated one the least pressure decides.
ResourceShare(n) == IF Spot[n].resource = Absent THEN 0 ELSE Spot[n].resource

\* _transport_feedback_pressure: which part of the calls the account's policy
\* refused so far, as a number of calls.
Refused == AtMost(free.privacy, free.calls)

\* dynamic_zero_cost_recovery_depth: at most a root of the space, and of it the
\* greater of the two shares.
FreeDepth(n, count) ==
  LET calls == AtLeastOne(free.calls)
      part  == Max({ResourceShare(n) * calls, Refused * 100})
      whole == 100 * calls
  IN  AtMost(count, AtLeastOne(RootWithin(count, count * part * part, whole * whole)))

ChooseFree(n) ==
  LET space == FreeSpace(n)
      count == Cardinality(space)
  IN  /\ at[n] = "free"
      /\ IF space = {}
         THEN Leave(n, search[n], "exhausted")
         ELSE LET m == CHOOSE m \in space :
                         \A o \in space \ {m} : Lower(FreeKey(n, m), FreeKey(n, o))
              IN  /\ search' = [search EXCEPT
                       ![n].choice = m,
                       ![n].limit = IF @ = 0 THEN FreeDepth(n, count) ELSE @]
                  /\ past' = [past EXCEPT ![n].first = IF @ = 0 THEN count ELSE @]
                  /\ GoOn(n, IF m \in Pool THEN "freecall" ELSE "freeclaim")
      /\ UNCHANGED <<memoryVars, sharedVars, freeVars>>

\* _claim_zero_cost_standby
ClaimFree(n) ==
  /\ at[n] = "freeclaim"
  /\ IF search[n].choice \in taken \cup broken
     THEN GoOnWith(n, [search[n] EXCEPT !.choice = 0], "free") /\ UNCHANGED taken
     ELSE /\ GoOn(n, "freecall") /\ taken' = taken \cup {search[n].choice}
          /\ UNCHANGED <<search, past>>
  /\ UNCHANGED <<memoryVars, inventory, sortedFor, freeVars>>

\* A refusal by the account's policy is no failure of the search.
FreeCallEnds(n) ==
  /\ at[n] = "freecall"
  /\ \E end \in Ends :
       LET m == search[n].choice
           missed == search[n].missed + IF end \in {"privacy404", "passed", "credit402"}
                                        THEN 0 ELSE 1
           local  == [search[n] EXCEPT
             !.missed = missed, !.choice = 0,
             !.called = IF end = "suppressed" THEN @ ELSE @ \cup {m}]
       IN  /\ IF end = "suppressed"
              THEN UNCHANGED memoryVars
              ELSE Recorded(m, Row[m].company, end)
           /\ free' = [calls   |-> free.calls + 1,
                       privacy |-> free.privacy + IF end = "privacy404" THEN 1 ELSE 0]
           /\ CASE end \in {"passed", "credit402"} -> Leave(n, local, end)
                [] end \notin {"passed", "credit402", "privacy404"}
                   /\ missed >= search[n].limit -> Leave(n, local, "bounded")
                [] OTHER -> GoOnWith(n, local, "free")
  /\ UNCHANGED <<sharedVars, probe>>

SearchStep(n) ==
  \/ InitialCall(n) \/ Turn(n) \/ Breadth(n) \/ Narrow(n) \/ Widen(n)
  \/ Choose(n) \/ ClaimChoice(n) \/ CallEnds(n)
  \/ EnterFree(n) \/ AskPolicy(n) \/ PolicyAnswered(n) \/ ChooseFree(n) \/ ClaimFree(n)
  \/ FreeCallEnds(n)

NextSearch == \E n \in Searcher : SearchStep(n)

OrderSpec == OrderInit /\ [][NextSearch]_orderVars

(***************************************************************************)
(* Properties                                                              *)
(***************************************************************************)
\* The candidate a search has settled on is not outranked, in estimated quality
\* and risk, by a standby model it could have had: neither company diversity
\* nor cost nor the small window puts a worse model first.  Only a search of
\* another node that sorted the shared inventory for another kind of failure
\* between this one's sort and its look can ("standby_claim_preserves_reranked_
\* priority", "company_diversity_overrides_higher_priority_candidate": False).
PriorityKept ==
  \A n \in Searcher : at[n] \in {"claim", "call"} =>
    LET kind == FailureKind(search[n].category)
    IN  search[n].depth > 0 /\ past[n].order = kind =>
          \A m \in past[n].over : ~Lower(Merit(m, kind), Merit(search[n].choice, kind))

\* A search ends without an answer only when it has to: the ordinary one when
\* the account is found blocked, or with no row left and no standby model to
\* promote, unless promotion was shut; the zero-cost one within the square
\* root of its first space, whatever the policy refuses in between ("to avoid
\* turning a free pool into a long timeout fan-out").
SearchNeitherEarlyNorLong ==
  \A n \in Searcher :
    /\ past[n].why = "exhausted" /\ search[n].category # "credit402" =>
         past[n].shut \/ Eligible = {}
    /\ search[n].limit > 0 =>
         /\ search[n].missed <= RootWithin(past[n].first, past[n].first, 1)
         /\ past[n].why = "bounded" => search[n].missed > 0
================================================================================
