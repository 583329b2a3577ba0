-------------------------------- MODULE Catalog --------------------------------
(***************************************************************************)
(* The model catalog of a run: what the server lists in several orders,    *)
(* merged into one table, and what is made of it.                          *)
(*   planned:  the production pipeline looks up the models of its plan;    *)
(*   resolved: the pipeline before it fetches the endpoints of those       *)
(*             models, in parallel;                                        *)
(*   exact:    the pipeline that lets a model govern first fetches those   *)
(*             of the models that may, takes the highest usable one of     *)
(*             either company, then does the same for all others.          *)
(* A dry run makes the endpoints up.  One price stands for the two of a    *)
(* model; zero stands for a capacity that is not stated.                   *)
(***************************************************************************)
EXTENDS Integers, Sequences, FiniteSets, FiniteSetsExt, Functions, Lists

CONSTANTS
  Sorts,           \* the orders that are asked for, in turn
  Official,        \* the one of them that gives the official ranks
  Listings,        \* order -> the lists the server may send
  Routed,          \* models whose id names a router, a variant or a preview
  Governed,        \* models of the companies that govern
  Governing,       \* company -> its models that may govern
  Direct,          \* company -> the provider that is the company itself
  PerCompany,      \* how many of them are looked at
  Protocol,        \* what the endpoint of a governor must support
  GovernFloor,     \* the completion a governor must have
  Ceiling,         \* the last rank that is looked at
  Unranked,        \* comes after every rank
  ContextFloor, CompletionFloor,
  Inventories,     \* model -> the lists of endpoints the server may send
  PrivateLists,    \* what may be listed as <<model, provider>> that keep no data
  Fetchers,        \* threads that fetch endpoints
  Pool, Plans,     \* a plan's candidates, and the models it may assign, in order
  Tenth, Million,  \* a price below a tenth of a dollar is taken as one per token
  Unstated, Lost   \* a price that is not stated, a request that brings nothing

\* What a list says of a model, what the server says of an endpoint, and what a
\* plan's row says.
ListedRows ==
  [model : Int, context : Int, completion : Int, price : Int \cup {Unstated},
   text : BOOLEAN, supports : SUBSET STRING]
SentRows ==
  [provider : Int \cup {Unstated}, tier : STRING, verified : BOOLEAN, context : Int,
   completion : Int, price : Int \cup {Unstated}, supports : SUBSET STRING]
PlanRows == [model : Int, context : Int, completion : Int]
RouteRows ==
  [model : Int, provider : Int \cup {Unstated}, context : Int, completion : Int,
   price : Int, supports : SUBSET STRING]

\* Models that some list may name.
Market ==
  UNION {UNION {{list[i].model : i \in DOMAIN list} : list \in Listings[s]} : s \in Range(Sorts)}

\* Models and providers are numbered in the order of their names; the companies
\* that govern are known, and their models are no experts.
ASSUME CatalogAssumption ==
  /\ Sorts \in Seq(Range(Sorts))
  /\ \A s \in Range(Sorts) : Listings[s] \in SUBSET Seq(ListedRows) /\ Lost \notin Listings[s]
  /\ \A m \in Market : Inventories[m] \in SUBSET Seq(SentRows)
  /\ Unstated \notin Int /\ Lost \notin RouteRows
  /\ DOMAIN Governing # {} /\ \A c \in DOMAIN Governing : Governing[c] \subseteq Governed
  /\ PerCompany \in Nat \ {0}
  /\ ContextFloor \in Int /\ CompletionFloor \in Int
  /\ Ceiling \in Int /\ Unranked \in Int /\ Ceiling < Unranked
  /\ Tenth \in Int /\ Million \in Int
  /\ Pool \in Seq(PlanRows) /\ Plans \in SUBSET Seq(PlanRows)

VARIABLES
  route,     \* planned, resolved or exact
  dry,       \* a dry run
  assigned,  \* the plan's models: those selected, then those kept for recovery
  phase,     \* ask, merged, private, fetch, resolve, rank, compact, done, raised
  listed,    \* order -> the list that came
  wanted,    \* the models whose endpoints are asked for, in order
  private,   \* the pairs that keep no data
  fetching,  \* models whose endpoints are being fetched
  payloads,  \* model -> its endpoints, as they were sent
  governors, \* company -> the model that governs
  catalog,   \* the rows, in order
  refused    \* model -> why its endpoints are no rows

catalogVars ==
  <<route, dry, assigned, phase, listed, wanted, private, fetching, payloads,
    governors, catalog, refused>>
given == <<route, dry, assigned>>
fetched == <<wanted, private, fetching, payloads>>
made == <<governors, catalog, refused>>

Enter(p) == phase' = p

(***************************************************************************)
(* The table                                                               *)
(***************************************************************************)
Places(list, m) == {i \in DOMAIN list : list[i].model = m}

\* The orders that came, and those of them that list the model, by their places.
Answered == {s \in DOMAIN listed : listed[s] # Lost}
Listers(m) ==
  {i \in DOMAIN Sorts : Sorts[i] \in Answered /\ Places(listed[Sorts[i]], m) # {}}

\* Mutant: only the official order fills the table.
ModelsOfficial ==
  {m \in UNION {{listed[s][i].model : i \in DOMAIN listed[s]} : s \in Answered} :
     \E s \in Answered : s = Official /\ Places(listed[s], m) # {}}

\* fetch_catalog
Models ==
  UNION {{listed[s][i].model : i \in DOMAIN listed[s]} : s \in Answered}

\* _model_from_row, of the first row that names the model.
Facts(m) ==
  LET first == listed[Sorts[Min(Listers(m))]]
  IN  first[Min(Places(first, m))]

\* _merge_catalog_sort: the last place counts when a list names a model twice.
Rank(m) ==
  IF Official \in Answered /\ Places(listed[Official], m) # {}
  THEN Max(Places(listed[Official], m)) ELSE Unranked

Stable == Models \ Routed

\* _ppm: a price that is no number, or a negative one, is not stated.
Priced(m) == Facts(m).price # Unstated

\* eligible_models
Eligible ==
  {m \in Stable \ (IF route = "exact" THEN Governed ELSE {}) :
     /\ Facts(m).context >= Max({1, ContextFloor})
     /\ Facts(m).text /\ Priced(m)
     /\ Rank(m) <= Ceiling}

Before(m, n) == Rank(m) < Rank(n) \/ (Rank(m) = Rank(n) /\ m < n)
ByRank(S) == Sorted(S, {p \in S \X S : Before(p[1], p[2])})
Ranked == ByRank(Eligible)

(***************************************************************************)
(* Endpoints                                                               *)
(***************************************************************************)
\* Of a private route, and not a service tier that nobody has verified.
Admitted(m, e) ==
  <<m, e.provider>> \in private /\ (e.tier = "optional" => e.verified)

\* _synthetic_endpoint, of a provider that is none.
Synthetic(m) ==
  [provider |-> 0, tier |-> "standard", verified |-> FALSE,
   context |-> Facts(m).context, completion |-> Facts(m).completion,
   price |-> Facts(m).price, supports |-> Facts(m).supports]

Sent(m) == IF dry THEN <<Synthetic(m)>> ELSE payloads[m]

\* _model_endpoints: the places of those on offer.
Offers(m) == {i \in DOMAIN Sent(m) : dry \/ Admitted(m, Sent(m)[i])}

\* A number below the tenth is taken for a price per token, also when it is the
\* model's price per million that stands in for one.
PerMillion(price, fallback) ==
  LET number == IF price = Unstated THEN fallback ELSE price
  IN  IF number < 0 THEN fallback
      ELSE IF number < Tenth THEN number * Million ELSE number

Stated(m, e, capacity) == IF e[capacity] = 0 THEN Facts(m)[capacity] ELSE e[capacity]

\* _endpoint_numbers, _supported_parameters
RowOf(m, e) ==
  [model |-> m, provider |-> e.provider,
   context |-> Stated(m, e, "context"), completion |-> Stated(m, e, "completion"),
   price |-> PerMillion(e.price, Facts(m).price),
   supports |-> IF e.supports = {} THEN Facts(m).supports ELSE e.supports]

\* _endpoint_rejection_reason
Reason(row) ==
  CASE row.provider = Unstated -> "missing-provider"
    [] row.provider # Unstated /\ row.context < Max({1, ContextFloor}) -> "context"
    [] row.provider # Unstated /\ row.context >= Max({1, ContextFloor})
       /\ row.completion < CompletionFloor -> "completion"
    [] OTHER -> "none"

\* Mutant: the later row of a route replaces the earlier one.
MergeLatest(row, other) == other

\* _merge_provider_route_rows: a route promises the least of its rows.
Merge(row, other) ==
  [row EXCEPT !.context = Min({@, other.context}),
              !.completion = Min({@, other.completion}),
              !.price = Max({@, other.price}),
              !.supports = @ \cap other.supports]

\* The row of the model's i-th endpoint, and the places of those that suffice.
RowAt(m, i) == RowOf(m, Sent(m)[i])
RowsOf(m) == {i \in Offers(m) : Reason(RowAt(m, i)) = "none"}

\* _coalesce_provider_route_rows: what is known of a route once the n-th of the
\* model's endpoints has been seen.
Observed(m, p) ==
  LET of == {i \in RowsOf(m) : RowAt(m, i).provider = p}
      seen[n \in 0 .. Len(Sent(m))] ==
        IF n = 0 THEN Lost
        ELSE IF n \notin of THEN seen[n - 1]
        ELSE IF seen[n - 1] = Lost THEN RowAt(m, n)
        ELSE Merge(seen[n - 1], RowAt(m, n))
  IN  seen
Route(m, p) == Observed(m, p)[Len(Sent(m))]

Routes ==
  UNION {{<<m, RowAt(m, i).provider>> : i \in RowsOf(m)} : m \in Range(wanted)}

\* compact_endpoint_catalog
RouteBefore(r, s) ==
  Before(r[1], s[1]) \/ (r[1] = s[1] /\ r[2] < s[2])
Compacted ==
  LET order == Sorted(Routes, {p \in Routes \X Routes : RouteBefore(p[1], p[2])})
  IN  [n \in DOMAIN order |-> Route(order[n][1], order[n][2])]

Refusals ==
  [m \in Range(wanted) |->
     IF Offers(m) = {} THEN {"no-endpoint"}
     ELSE {Reason(RowAt(m, i)) : i \in Offers(m)} \ {"none"}]

(***************************************************************************)
(* The plan                                                                *)
(***************************************************************************)
\* _planned_ids
PlannedIds ==
  LET first == {i \in DOMAIN assigned :
                  \A j \in 1 .. i - 1 : assigned[j].model # assigned[i].model}
      order == Ascending(first)
  IN  [n \in DOMAIN order |-> assigned[order[n]].model]

\* _candidate_map: the pool's row of a model comes before the assignment's.
Candidate(m) == (Pool \o assigned)[Min(Places(Pool \o assigned, m))]

\* _open_endpoint_payloads: what the plan knows, else what is listed.
Planned(m, capacity) ==
  IF Candidate(m)[capacity] = 0 THEN Facts(m)[capacity] ELSE Candidate(m)[capacity]

\* _nonbinding_catalog
PlanRow(m) ==
  [model |-> m, provider |-> "auto",
   context |-> Max({Facts(m).context, Planned(m, "context")}),
   completion |-> Max({Facts(m).completion, Planned(m, "completion")}),
   supports |-> Facts(m).supports]

(***************************************************************************)
(* The governors                                                           *)
(***************************************************************************)
\* governance_candidate_models, of one company
Candidates(c) ==
  LET models == ByRank(Stable \cap Governing[c])
  IN  [n \in 1 .. Min({PerCompany, Len(models)}) |-> models[n]]

CanGovern(c, m, e) ==
  /\ e.provider = Direct[c]
  /\ Stated(m, e, "context") >= Max({1, ContextFloor})
  /\ Stated(m, e, "completion") >= GovernFloor
  /\ Protocol \subseteq e.supports

\* Mutant: the last of them governs, not the first.
ResolvedLast(c, usable) == Candidates(c)[Max(usable)]

\* _resolve_one: which of the models may, by their places, and the one that does.
Usable(c) ==
  {n \in DOMAIN Candidates(c) :
     LET m == Candidates(c)[n]
     IN  \E i \in Offers(m) : CanGovern(c, m, Sent(m)[i])}
Resolved(c, usable) == Candidates(c)[Min(usable)]

(***************************************************************************)
(* Steps                                                                   *)
(***************************************************************************)
CatalogUnasked ==
  /\ listed = [s \in {} |-> Lost] /\ wanted = <<>> /\ private = {} /\ fetching = {}
  /\ payloads = [m \in {} |-> Lost] /\ governors = [c \in {} |-> Lost]
  /\ catalog = <<>> /\ refused = [m \in {} |-> {}]

CatalogInit ==
  /\ route \in {"planned", "resolved", "exact"}
  /\ dry \in IF route = "planned" THEN {FALSE} ELSE BOOLEAN
  /\ assigned \in IF route = "exact" THEN {<<>>} ELSE Plans
  /\ phase = "ask" /\ CatalogUnasked
CatalogIdle ==
  /\ route = "planned" /\ dry = FALSE /\ assigned = <<>> /\ phase = "idle"
  /\ CatalogUnasked

\* _live_catalog: a request that fails is passed over, if one brings a list.
AskSort ==
  LET rest == {i \in DOMAIN Sorts : Sorts[i] \notin DOMAIN listed}
      next == Sorts[Min(rest)]
  IN  /\ phase = "ask" /\ rest # {}
      /\ \E list \in Listings[next] \cup {Lost} :
           listed' = [s \in DOMAIN listed \cup {next} |->
                        IF s = next THEN list ELSE listed[s]]
      /\ UNCHANGED <<given, phase, fetched, made>>

MergeSorts ==
  /\ phase = "ask" /\ DOMAIN listed = Range(Sorts)
  /\ Enter(IF Models = {} THEN "raised" ELSE "merged")
  /\ UNCHANGED <<given, listed, fetched, made>>

\* _catalog_state of the production pipeline.
LookUp ==
  /\ phase = "merged" /\ route = "planned"
  /\ IF PlannedIds = <<>> \/ ~(Range(PlannedIds) \subseteq Models)
     THEN Enter("raised") /\ UNCHANGED catalog
     ELSE Enter("done") /\ catalog' = [i \in DOMAIN PlannedIds |-> PlanRow(PlannedIds[i])]
  /\ UNCHANGED <<given, listed, fetched, governors, refused>>

\* Endpoints of these models are wanted, and the list of the private ones.
Want(models) ==
  /\ Enter("private") /\ wanted' = models
  /\ private' = {} /\ payloads' = [m \in {} |-> Lost] /\ UNCHANGED fetching

\* _resolve_governance_models; the governors of a dry run are made up.
SeekGovernors ==
  /\ phase = "merged" /\ route = "exact"
  /\ IF dry THEN Enter("rank") /\ UNCHANGED fetched
     ELSE IF \E c \in DOMAIN Governing : Candidates(c) = <<>>
          THEN Enter("raised") /\ UNCHANGED fetched
          ELSE Want(ByRank(UNION {Range(Candidates(c)) : c \in DOMAIN Governing}))
  /\ UNCHANGED <<given, listed, made>>

\* resolve_live_governance_models
Resolve ==
  /\ phase = "resolve"
  /\ IF \E c \in DOMAIN Governing : Usable(c) = {}
     THEN Enter("raised") /\ UNCHANGED governors
     ELSE Enter("rank") /\ governors' = [c \in DOMAIN Governing |-> Resolved(c, Usable(c))]
  /\ UNCHANGED <<given, listed, fetched, catalog, refused>>

\* _build_catalog_state: all that are eligible, in the order of their ranks.
RankAll ==
  /\ phase = "rank"
  /\ CASE Eligible = {} -> Enter("raised") /\ UNCHANGED fetched
       [] Eligible # {} /\ dry ->
            Enter("compact") /\ wanted' = Ranked /\ UNCHANGED <<private, fetching, payloads>>
       [] OTHER -> Want(Ranked)
  /\ UNCHANGED <<given, listed, made>>

\* _catalog_state of the earlier pipeline: the plan's models, each of them once.
TakePlan ==
  LET models == [i \in DOMAIN assigned |-> assigned[i].model]
  IN  /\ phase = "merged" /\ route = "resolved"
      /\ CASE models = <<>> \/ ~IsInjective(models) \/ ~(Range(models) \subseteq Eligible) ->
                Enter("raised") /\ UNCHANGED fetched
           [] OTHER ->
                IF dry THEN Enter("compact") /\ wanted' = models
                            /\ UNCHANGED <<private, fetching, payloads>>
                ELSE Want(models)
      /\ UNCHANGED <<given, listed, made>>

\* _fetch_zdr_endpoint_keys: without the list, or with an empty one, no catalog.
AskPrivate ==
  /\ phase = "private"
  /\ \E pairs \in PrivateLists \cup {{}} :
       private' = pairs /\ Enter(IF pairs = {} THEN "raised" ELSE "fetch")
  /\ UNCHANGED <<given, listed, wanted, fetching, payloads, made>>

\* The pool takes the models in the order they are wanted.
StartFetch ==
  LET rest == {i \in DOMAIN wanted : wanted[i] \notin fetching \cup DOMAIN payloads}
  IN  /\ phase = "fetch" /\ rest # {}
      /\ Cardinality(fetching) < Min({Fetchers, Len(wanted)})
      /\ fetching' = fetching \cup {wanted[Min(rest)]}
      /\ UNCHANGED <<given, phase, listed, wanted, private, payloads, made>>

\* A request that fails leaves its model without endpoints.
EndFetch(m) ==
  /\ phase = "fetch" /\ m \in fetching
  /\ fetching' = fetching \ {m}
  /\ \E inventory \in Inventories[m] \cup {<<>>} :
       payloads' = [n \in DOMAIN payloads \cup {m} |->
                      IF n = m THEN inventory ELSE payloads[n]]
  /\ UNCHANGED <<given, phase, listed, wanted, private, made>>

AllFetched ==
  /\ phase = "fetch" /\ DOMAIN payloads = Range(wanted)
  /\ Enter(IF route = "exact" /\ DOMAIN governors = {} THEN "resolve" ELSE "compact")
  /\ UNCHANGED <<given, listed, fetched, made>>

Compact ==
  /\ phase = "compact"
  /\ IF Compacted = <<>>
     THEN Enter("raised") /\ UNCHANGED <<catalog, refused>>
     ELSE Enter("done") /\ catalog' = Compacted /\ refused' = Refusals
  /\ UNCHANGED <<given, listed, fetched, governors>>

NextCatalog ==
  \/ AskSort \/ MergeSorts \/ LookUp \/ SeekGovernors \/ Resolve \/ RankAll \/ TakePlan
  \/ AskPrivate \/ StartFetch \/ (\E m \in fetching : EndFetch(m)) \/ AllFetched \/ Compact

CatalogSpec == CatalogInit /\ [][NextCatalog]_catalogVars

(***************************************************************************)
(* Properties                                                              *)
(***************************************************************************)
\* In whatever order the endpoints arrive and are listed, there is one row for
\* each private, sufficient route of a wanted model, by rank, and it promises no
\* more than the weakest of the sufficient endpoints behind it at no less than
\* their highest price.  No model goes missing without a reason, and none that
\* could govern is offered as an expert.
RoutesPromiseTheLeast ==
  phase = "done" /\ route # "planned" /\ ~dry =>
    LET kept(m) == {e \in Range(payloads[m]) : Admitted(m, e) /\ Reason(RowOf(m, e)) = "none"}
        rows(m, p) == {RowOf(m, e) : e \in {f \in kept(m) : f.provider = p}}
    IN  /\ {<<r.model, r.provider>> : r \in Range(catalog)}
             = UNION {{<<m, e.provider>> : e \in kept(m)} : m \in Range(wanted)}
        /\ \A i, j \in DOMAIN catalog : i < j =>
             \/ Rank(catalog[i].model) < Rank(catalog[j].model)
             \/ catalog[i].model = catalog[j].model /\ catalog[i].provider < catalog[j].provider
        /\ \A r \in Range(catalog) :
             LET behind == rows(r.model, r.provider)
             IN  /\ \A s \in behind : /\ r.context <= s.context /\ r.completion <= s.completion
                                      /\ r.price >= s.price /\ r.supports \subseteq s.supports
                 /\ r.context \in {s.context : s \in behind}
                 /\ r.price \in {s.price : s \in behind}
                 /\ route = "exact" => \A c \in DOMAIN Governing : r.model \notin Governing[c]
        /\ \A m \in Range(wanted) : kept(m) = {} => refused[m] # {}

\* A planned model is found if any of the orders that came lists it, whatever
\* became of the other request; the plan is refused only for a model that none
\* lists.  The rows keep the plan's order, each model once, and state a capacity
\* that the plan or the list has, the larger one.
PlanFoundInAnyList ==
  route = "planned" =>
    LET named(m) == \E s \in DOMAIN listed : listed[s] # Lost /\ Places(listed[s], m) # {}
    IN  /\ phase = "raised" =>
             \/ \E row \in Range(assigned) : ~named(row.model)
             \/ \A s \in DOMAIN listed : listed[s] \in {Lost, <<>>}
             \/ assigned = <<>>
        /\ phase = "done" =>
             /\ {r.model : r \in Range(catalog)} = {row.model : row \in Range(assigned)}
             /\ \A i, j \in DOMAIN catalog : i < j =>
                  /\ catalog[i].model # catalog[j].model
                  /\ \E k \in DOMAIN assigned : /\ assigned[k].model = catalog[i].model
                       /\ \A l \in 1 .. k : assigned[l].model # catalog[j].model
             /\ \A r \in Range(catalog) :
                  /\ r.context >= Facts(r.model).context
                  /\ r.context \in {Facts(r.model).context}
                       \cup {row.context : row \in {q \in Range(Pool \o assigned) : q.model = r.model}}

\* The model that governs for a company is the highest of those that may whose
\* own endpoint keeps no data and suffices: whichever answer came last, and
\* although the lists of both kinds of models are merged, fetched and filtered
\* by the same steps.
HighestUsableGoverns ==
  \A c \in DOMAIN governors :
    LET may == {m \in Models : m \in Governing[c] \ Routed}
    IN  /\ governors[c] \in may
        /\ phase = "rank" =>
             /\ \E e \in Range(payloads[governors[c]]) :
                  Admitted(governors[c], e) /\ CanGovern(c, governors[c], e)
             /\ \A m \in may : Before(m, governors[c]) =>
                  ~\E e \in Range(payloads[m]) : Admitted(m, e) /\ CanGovern(c, m, e)
================================================================================
