------------------------------- MODULE MCWorld -------------------------------
(***************************************************************************)
(* The small world the runs share: two tenants, two roles and the public   *)
(* marker, four identities, and the entitlements and rules that tell the  *)
(* clauses apart.                                                          *)
(***************************************************************************)
EXTENDS Domain, TLC

MCTenants == {"acme", "globex"}
MCRoles == {"eng", "fin", "everyone"}
MCPrincipalIds == {"ana", "bob", "gil", "noa"}

\* ana holds two roles (a chunk of an eng and a fin source is hers by either), bob one of
\* them, gil is of the other tenant, noa of none.
MCPrincipals ==
  [id \in MCPrincipalIds |->
     CASE id = "ana" -> [id |-> id, tenant |-> "acme", roles |-> {"eng", "fin"}]
       [] id = "bob" -> [id |-> id, tenant |-> "acme", roles |-> {"eng"}]
       [] id = "gil" -> [id |-> id, tenant |-> "globex", roles |-> {"eng"}]
       [] id = "noa" -> [id |-> id, tenant |-> NoTenant, roles |-> {"eng"}]]

Stated(ts, rs, ps) == [state |-> "stated", tenants |-> ts, roles |-> rs, principals |-> ps]

AcmeEng == Stated({"acme"}, {"eng"}, {})
AcmeFin == Stated({"acme"}, {"fin"}, {})
GlobexEng == Stated({"globex"}, {"eng"}, {"ana"})
SharedPublic == Stated({"acme", "globex"}, {"eng", "everyone"}, {})
AcmeDirect == Stated({"acme"}, {}, {"ana", "gil"})
AnyTenantEng == Stated({}, {"eng"}, {})

\* The rule of the recorded scenarios, and two that read the sets otherwise.
UsualRule ==
  [tenant |-> "member", role |-> "intersects-or-everyone", direct |-> "principal-listed",
   combine |-> "tenant AND (role OR direct)"]
StrictRule ==
  [tenant |-> "member-or-unrestricted", role |-> "subset", direct |-> "ignored",
   combine |-> "tenant AND role"]
LooseRule ==
  [tenant |-> "member-or-unrestricted", role |-> "intersects", direct |-> "principal-listed",
   combine |-> "(tenant OR direct) AND role"]

At(n) == [at |-> n, aware |-> TRUE]
NaiveAt(n) == [at |-> n, aware |-> FALSE]

Doc(ent, time) == [entitlement |-> ent, acl_modified_at |-> time]
Tagged(ids, tag, time) ==
  [source_document_ids |-> ids, entitlement |-> tag, ingested_at |-> time]
==============================================================================
