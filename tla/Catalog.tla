------------------------------ MODULE Catalog ------------------------------
(***************************************************************************)
(* The compiled model catalog (kiro-trust-protocol, catalog.rs): which ids *)
(* a client may name, which SKU and context tier an id is routed to, what  *)
(* is told about a model, and which effort is sent with a request.         *)
(*                                                                         *)
(* An id is a record of what the resolver looks at: the model, how a minor *)
(* version is written ("plain" if there is none), a trailing -YYYYMMDD,    *)
(* the raw 1M SKU's tail and the [1m] suffix.                              *)
(***************************************************************************)
EXTENDS Naturals, Sequences, FiniteSets, SequencesExt

Full     == <<"low", "medium", "high", "xhigh", "max">>
Standard == <<"low", "medium", "high", "max">>
NoEffort == ""

\* Tiers: "always" 1M under one SKU, "both" with a SKU of its own, or 200k "only".
Row(model, minor, tier, effort) ==
  [model |-> model, minor |-> minor, tier |-> tier, effort |-> effort]

Rows == <<
  Row("opus-5",     FALSE, "always", Full),
  Row("opus-4-8",   TRUE,  "always", Full),
  Row("opus-4-7",   TRUE,  "always", Full),
  Row("opus-4-6",   TRUE,  "always", Standard),
  Row("sonnet-5",   FALSE, "always", Full),
  Row("sonnet-4-6", TRUE,  "both",   Standard),
  Row("sonnet-4-5", TRUE,  "both",   <<>>),
  Row("opus-4-5",   TRUE,  "only",   <<>>),
  Row("haiku-4-5",  TRUE,  "only",   <<>>) >>

Id(model, written, tail1m, suffix) ==
  [model |-> model, written |-> written, tail1m |-> tail1m, suffix |-> suffix, dated |-> FALSE]

Spelled(row, written) == IF row.minor THEN written ELSE "plain"

\* Row.anthropic, with the suffix of its 1M tier; Row.kiro and Row.kiro_1m.
Anthropic(i, oneM) == Id(Rows[i].model, Spelled(Rows[i], "dashed"), FALSE, oneM)
Dotted(i, oneM)    == Id(Rows[i].model, Spelled(Rows[i], "dotted"), FALSE, oneM)
Kiro(i)            == Dotted(i, FALSE)
Kiro1m(i)          == [Kiro(i) EXCEPT !.tail1m = TRUE]

KiroModel(i, oneM) == IF oneM /\ Rows[i].tier = "both" THEN Kiro1m(i) ELSE Kiro(i)

-----------------------------------------------------------------------------
StripDate(id) == [id EXCEPT !.dated = FALSE]

\* A dashed minor version is dotted only where it ends the id.
CanonicalSku(id) ==
  IF id.written = "dashed" /\ ~id.dated /\ ~id.tail1m THEN [id EXCEPT !.written = "dotted"] ELSE id

Sku(id) == CanonicalSku(StripDate([id EXCEPT !.suffix = FALSE]))

RowsOf(sku) ==
  {i \in DOMAIN Rows : sku = Kiro(i) \/ (Rows[i].tier = "both" /\ sku = Kiro1m(i))}

Known(id) == RowsOf(Sku(id)) # {}

FindRow(sku) == CHOOSE i \in RowsOf(sku) : \A j \in RowsOf(sku) : i <= j

\* The suffix alone asks for the tier, and a raw 1M SKU is taken for the row's own.
WantsBySuffix(id, context1mBeta) == context1mBeta \/ id.suffix

Wants1m(id, context1mBeta) == context1mBeta \/ id.suffix \/ Sku(id).tail1m

Resolve(id, context1mBeta) ==
  LET i    == FindRow(Sku(id))
      tier == Rows[i].tier
      oneM == tier = "always" \/ (tier = "both" /\ Wants1m(id, context1mBeta))
  IN [key       |-> <<i, oneM>>,
      kiro      |-> KiroModel(i, oneM),
      anthropic |-> Anthropic(i, oneM),
      thinking  |-> id.suffix /\ tier = "both",
      levels    |-> Rows[i].effort]

-----------------------------------------------------------------------------
Tiers(row) == IF row.tier = "both" THEN 2 ELSE 1

\* The slots of the first n rows.
SlotsOf[n \in 0..Len(Rows)] == IF n = 0 THEN 0 ELSE SlotsOf[n - 1] + Tiers(Rows[n])

\* ModelKey::catalog_index, the slot of the usage summary.
CatalogIndex(key) ==
  SlotsOf[key[1] - 1] + (IF key[2] /\ Rows[key[1]].tier # "always" THEN 1 ELSE 0)

\* An always-1M row is known by its bare names too.
Aliases(i, oneM) ==
  {Anthropic(i, oneM), Dotted(i, oneM), KiroModel(i, oneM)}
    \cup (IF oneM /\ Rows[i].tier = "always" THEN {Anthropic(i, FALSE), Dotted(i, FALSE)} ELSE {})

ModelInfo(i, oneM) ==
  [key |-> <<i, oneM>>, id |-> Anthropic(i, oneM), kiro |-> KiroModel(i, oneM),
   aliases |-> Aliases(i, oneM), levels |-> Rows[i].effort]

RowInfos(i) ==
  CASE Rows[i].tier = "always" -> <<ModelInfo(i, TRUE)>>
    [] Rows[i].tier = "only"   -> <<ModelInfo(i, FALSE)>>
    [] OTHER                   -> <<ModelInfo(i, FALSE), ModelInfo(i, TRUE)>>

Models == FlattenSeq([i \in DOMAIN Rows |-> RowInfos(i)])

SupportsKiroModel(sku) == RowsOf(sku) # {}

\* What GET /v1/models lists, and discovery may send back.
ListModels ==
  UNION {{Anthropic(i, FALSE), Kiro(i)}
           \cup (IF Rows[i].tier = "only" THEN {} ELSE {Anthropic(i, TRUE)}) : i \in DOMAIN Rows}

-----------------------------------------------------------------------------
\* An explicit level is clamped to the model's highest; thinking alone asks for "medium".
ResolveEffort(levels, requested, thinking) ==
  CASE levels = <<>>                          -> NoEffort
    [] levels # <<>> /\ requested = NoEffort  -> IF thinking THEN "medium" ELSE NoEffort
    [] levels # <<>> /\ requested # NoEffort  ->
         IF requested \in ToSet(levels) THEN requested
         ELSE IF requested \in ToSet(Full) THEN Last(levels) ELSE NoEffort
=============================================================================
