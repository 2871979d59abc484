------------------------------ MODULE Loading ------------------------------
(***************************************************************************)
(* Reading what people state: the fixtures of a scenario and of a variant  *)
(* (fixtures.py), the rule (load_rule) and the target of a scan            *)
(* (load_target).  Whatever is not stated is an error or unknown, never a  *)
(* guess (DEC-012, DEC-020).                                               *)
(*                                                                         *)
(* A YAML mapping is a function whose domain is the keys it states, a list *)
(* a sequence; an empty key, and a file that is not there, is None.  An id *)
(* is a pair: the text that `str` makes of it, and whether it is a text to *)
(* begin with.  Keys of a mapping are taken as the texts str makes of them.*)
(***************************************************************************)
EXTENDS Domain, FiniteSetsExt

\* `raw.get(key, default)`, and `raw.get(key) or []`, or {}.
Get(raw, key, default) == IF key \in DOMAIN raw THEN raw[key] ELSE default
Entries(raw, key, empty) ==
  IF key \in DOMAIN raw /\ raw[key] # None THEN raw[key] ELSE empty

States(raw, key) == Get(raw, key, None) # None
\* `str(value)`, of a text or None.
Text(value) == IF value = None THEN "None" ELSE value
Elements(raw, key) == Range(Entries(raw, key, <<>>))

\* `{str(row["id"]): ... for row in rows}`: of two rows of one id the last stays.
Ids(rows) == {row.id.text : row \in Range(rows)}
RowOf(rows, id) == rows[Max({n \in DOMAIN rows : rows[n].id.text = id})]
HaveIds(rows) == \A row \in Range(rows) : "id" \in DOMAIN row

\* A list that names others by id is taken as it is; the dataclass refuses one that holds
\* anything but texts.
References(ids) == [n \in DOMAIN ids |-> ids[n].text]
AreTexts(ids) == \A id \in Range(ids) : id.is_text

----------------------------------------------------------------------------
(* fixtures.py *)

\* A wrong `_entitlement`, for which an entry that states nothing states that.
EntitlementByDefault(raw) ==
  [state |-> Get(raw, "state", "stated"),
   tenants |-> Elements(raw, "tenants"), roles |-> Elements(raw, "roles"),
   principals |-> Elements(raw, "principals")]

EntitlementFrom(raw) ==
  [state |-> Get(raw, "state", "unknown"),
   tenants |-> Elements(raw, "tenants"), roles |-> Elements(raw, "roles"),
   principals |-> Elements(raw, "principals")]

\* `raw or {}`
Tag(row) == Entries(row, "entitlement", <<>>)
KnownStates(rows) == \A row \in Range(rows) : EntitlementFrom(Tag(row)).state \in {"stated", "unknown"}

LoadPrincipals(file) ==
  [id \in Ids(file.principals) |->
     LET row == RowOf(file.principals, id)
     IN  [id |-> id, tenant |-> Entries(row, "tenant", NoTenant), roles |-> Elements(row, "roles")]]

LoadProbes(file) ==
  [n \in DOMAIN file.probes |->
     [id |-> file.probes[n].id.text,
      principals |-> References(file.probes[n].principals),
      matches |-> References(file.probes[n].matches)]]

LoadDocuments(file) ==
  [id \in Ids(file.documents) |->
     LET row == RowOf(file.documents, id)
     IN  [entitlement |-> EntitlementFrom(Tag(row)),
          acl_modified_at |-> Get(row, "acl_modified_at", None)]]

LoadChunks(file) ==
  [id \in Ids(file.chunks) |->
     LET row == RowOf(file.chunks, id)
     IN  [source_document_ids |-> References(Entries(row, "source_document_ids", <<>>)),
          entitlement |-> EntitlementFrom(Tag(row)),
          ingested_at |-> Get(row, "ingested_at", None)]]

PrincipalsRaise(file) == file = None \/ ~States(file, "principals") \/ ~HaveIds(file.principals)

ProbesRaise(file) ==
  \/ file = None \/ ~States(file, "probes") \/ ~HaveIds(file.probes)
  \/ \E row \in Range(file.probes) :
       \/ ~States(row, "principals") \/ ~States(row, "matches")
       \/ ~AreTexts(row.principals) \/ ~AreTexts(row.matches)

RowsRaise(file, key) ==
  file = None \/ ~States(file, key) \/ ~HaveIds(file[key]) \/ ~KnownStates(file[key])

----------------------------------------------------------------------------
(* entitlement_rule.py *)

\* A wrong `_clause` with a default.
ClauseOrIgnored(file, key) == Get(Entries(file, "rule", <<>>), key, "ignored")

Clause(file, key) == Get(Entries(file, "rule", <<>>), key, None)

LoadRule(file) ==
  [tenant |-> Clause(file, "tenant"), role |-> Clause(file, "role"),
   direct |-> Clause(file, "direct"), combine |-> Clause(file, "combine")]

RuleRaises(file) == file = None \/ LoadRule(file) \notin Rule

----------------------------------------------------------------------------
(* A scenario and a variant *)

ScenarioRaises(shared) ==
  \/ RowsRaise(shared.documents, "documents")
  \/ PrincipalsRaise(shared.principals) \/ ProbesRaise(shared.probes) \/ RuleRaises(shared.rule)

LoadScenario(shared) ==
  [documents |-> LoadDocuments(shared.documents),
   principals |-> LoadPrincipals(shared.principals),
   probes |-> LoadProbes(shared.probes),
   rule |-> LoadRule(shared.rule)]

VariantRaises(index) ==
  \/ RowsRaise(index, "chunks")
  \/ \E row \in Range(index.chunks) : ~AreTexts(Entries(row, "source_document_ids", <<>>))

LoadVariant(index) ==
  [chunks |-> LoadChunks(index),
   enforcement |-> Text(Get(index, "filter", "rule")), ann_limit |-> Get(index, "ann_limit", None)]

----------------------------------------------------------------------------
(* scan.py *)

Groups(source) == Entries(source, "group_to_tenant", <<>>)

\* `{str(k): str(v) for k, v in mapping.items()}`: a group mapped to nothing is one of the
\* tenant 'None'.
LoadGroups(source) == [group \in DOMAIN Groups(source) |-> Text(Groups(source)[group])]

SourceRaises(source) == Get(source, "kind", None) # "filesystem" \/ Groups(source) = <<>>

BackendRaises(backend) ==
  ~\/ Get(backend, "kind", None) = "qdrant" /\ "base_url" \in DOMAIN backend
   \/ Get(backend, "kind", None) = "pgvector" /\ "dsn" \in DOMAIN backend

TargetRaises(file) ==
  \/ file = None
  \/ SourceRaises(Entries(file, "source", <<>>)) \/ BackendRaises(Entries(file, "backend", <<>>))

LoadTarget(file) ==
  [enforcement |-> Text(Get(file, "enforcement", "rule")), ann_limit |-> Get(file, "ann_limit", None)]

\* Whether chunks() has a connection to read the index by.
HasInventory(backend) == backend.kind = "pgvector" => States(backend, "admin_dsn")
=============================================================================
