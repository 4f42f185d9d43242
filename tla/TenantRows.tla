----------------------------- MODULE TenantRows ------------------------------
(***************************************************************************)
(* Row level security under pooled connections.  A transaction names its    *)
(* organisation with set_config(..., true), every policy compares with that *)
(* name, and in production the process only starts after it found that the  *)
(* policies bind the role it runs as.                                       *)
(***************************************************************************)
EXTENDS Integers, FiniteSets

CONSTANTS
  Orgs,
  Ids,          \* rows that may be
  Connections,  \* of the pool; any transaction gets any idle one
  Flaws,        \* privileges of the role, or gaps of the tables, that undo the policies
  Production,
  None

ASSUME TenantAssumption == None \notin Orgs

VARIABLES
  row,         \* per id: None, or its table ("tenant", "link", "version"), organisation and parents
  authorised,  \* pairs <<operator, provider>> with a written authorisation
  conn,        \* per connection: whether a transaction is open, the name last set
  flaws,       \* those there are now
  drifted,     \* a flaw came after the process started
  process,     \* "down", "up"
  touched      \* the last statement: by whom, the rows it read, changed or linked

vars == <<row, authorised, conn, flaws, drifted, process, touched>>

(* A link table has no organisation of its own.                             *)
Rows == {i \in Ids : row[i] # None}
Owners(i) == IF row[i].table = "link" THEN {row[p].org : p \in row[i].parents \cap Rows} ELSE {row[i].org}
Children(i) == {j \in Rows : i \in row[j].parents}

Nothing == [by |-> None, ids |-> {}, orgs |-> {}]

Init ==
  /\ row = [i \in Ids |-> None] /\ authorised = {}
  /\ conn = [c \in Connections |-> [open |-> FALSE, org |-> None]]
  /\ flaws \in SUBSET Flaws /\ drifted = FALSE /\ process = "down" /\ touched = Nothing

-----------------------------------------------------------------------------
(* The policies                                                             *)

(* Whose transaction is open on a connection.                               *)
Working(c) == IF conn[c].open THEN conn[c].org ELSE None

(* Mutant of Setting: the name is set for the session, not the transaction. *)
SettingKept(c) == conn[c].org

(* current_setting('app.current_org_id', true): the name ends with it.      *)
Setting(c) == Working(c)

(* tenant_isolation, for what a statement reads (USING) and what it leaves  *)
(* (WITH CHECK) alike.  A name that is not set equals nothing.              *)
Visible(c, r) ==
  \/ flaws # {}
  \/ IF r.table = "link" THEN \A p \in r.parents : row[p].org = Setting(c) ELSE r.org = Setting(c)

(* organisation_write and authorised_counterparty_read                      *)
OrganisationVisible(c, o) ==
  \/ flaws # {} \/ o = Setting(c)
  \/ <<o, Setting(c)>> \in authorised \/ <<Setting(c), o>> \in authorised

Touch(c, ids, orgs) == touched' = [by |-> Working(c), ids |-> ids, orgs |-> orgs]

-----------------------------------------------------------------------------
(* The process and its transactions                                         *)

(* assertRuntimeDatabaseSecurity                                            *)
Safe == flaws = {}

Start ==
  /\ process = "down" /\ (Production => Safe)
  /\ process' = "up" /\ drifted' = FALSE
  /\ UNCHANGED <<row, authorised, conn, flaws, touched>>

Stop ==
  /\ process = "up" /\ process' = "down"
  /\ conn' = [c \in Connections |-> [open |-> FALSE, org |-> None]] /\ touched' = Nothing
  /\ UNCHANGED <<row, authorised, flaws, drifted>>

(* An administrator grants what the committed grants do not, or mends it.   *)
Drift(f) ==
  /\ flaws' = IF f \in flaws THEN flaws \ {f} ELSE flaws \cup {f}
  /\ drifted' = (drifted \/ process = "up")
  /\ touched' = Nothing
  /\ UNCHANGED <<row, authorised, conn, process>>

(* TenantDbService.run; a capability's organisation comes from its resolver *)
(* function, which reads one row by the hash of the token.                  *)
Begin(c, o) ==
  /\ process = "up" /\ ~conn[c].open
  /\ conn' = [conn EXCEPT ![c] = [open |-> TRUE, org |-> o]]
  /\ UNCHANGED <<row, authorised, flaws, drifted, process, touched>>

(* Commit or rollback; the connection returns to the pool.                  *)
End(c) ==
  /\ conn[c].open /\ conn' = [conn EXCEPT ![c].open = FALSE]
  /\ UNCHANGED <<row, authorised, flaws, drifted, process, touched>>

(* A statement, of a transaction or of none; only the former write.         *)
Select(c) ==
  /\ process = "up"
  /\ Touch(c, {i \in Rows : Visible(c, row[i])}, {o \in Orgs : OrganisationVisible(c, o)})
  /\ UNCHANGED <<row, authorised, conn, flaws, drifted, process>>

Insert(c, i) ==
  LET r == [table |-> "tenant", org |-> Setting(c), parents |-> {}] IN
  /\ process = "up" /\ conn[c].open /\ row[i] = None
  /\ Visible(c, r)
  /\ row' = [row EXCEPT ![i] = r] /\ Touch(c, {i}, {})
  /\ UNCHANGED <<authorised, conn, flaws, drifted, process>>

(* The parents are those a client names.                                    *)
Link(c, i, parents) ==
  LET r == [table |-> "link", org |-> None, parents |-> parents] IN
  /\ process = "up" /\ conn[c].open /\ row[i] = None /\ parents \subseteq {p \in Rows : row[p].table # "link"}
  /\ Visible(c, r)
  /\ row' = [row EXCEPT ![i] = r] /\ Touch(c, {i}, {})
  /\ UNCHANGED <<authorised, conn, flaws, drifted, process>>

(* An item's published version goes with it, were it not for the trigger.   *)
Publish(c, i, item) ==
  LET r == [table |-> "version", org |-> Setting(c), parents |-> {item}] IN
  /\ process = "up" /\ conn[c].open /\ row[i] = None /\ item \in Rows /\ row[item].table = "tenant"
  /\ Visible(c, row[item]) /\ Visible(c, r)
  /\ row' = [row EXCEPT ![i] = r] /\ Touch(c, {i}, {})
  /\ UNCHANGED <<authorised, conn, flaws, drifted, process>>

Cascade(i) == {i} \cup Children(i)

(* Mutant of Raises: only a statement on the version itself is refused.     *)
RaisesDirect(i) == row[i].table = "version"

(* published_passport_immutable fires for every row of the cascade; the     *)
(* runtime's grants stop it even before.                                    *)
Raises(i) == \E j \in Cascade(i) : row[j].table = "version"

(* By whoever owns the tables, or by the runtime if it sees the row.        *)
Delete(i) ==
  /\ row[i] # None /\ ~Raises(i)
  /\ row' = [j \in Ids |-> IF j \in Cascade(i) THEN None ELSE row[j]]
  /\ touched' = Nothing
  /\ UNCHANGED <<authorised, conn, flaws, drifted, process>>

Authorise(o, p) ==
  /\ authorised' = IF <<o, p>> \in authorised THEN authorised \ {<<o, p>>} ELSE authorised \cup {<<o, p>>}
  /\ touched' = Nothing
  /\ UNCHANGED <<row, conn, flaws, drifted, process>>

Next ==
  \/ Start \/ Stop \/ \E f \in Flaws : Drift(f)
  \/ \E c \in Connections :
       \/ End(c) \/ Select(c) \/ \E o \in Orgs : Begin(c, o)
       \/ \E i \in Ids :
            \/ Insert(c, i)
            \/ \E parents \in SUBSET (Ids \ {i}) : Cardinality(parents) \in 1..2 /\ Link(c, i, parents)
            \/ \E item \in Ids : Publish(c, i, item)
  \/ \E i \in Ids : Delete(i)
  \/ \E o, p \in Orgs : o # p /\ Authorise(o, p)

Spec == Init /\ [][Next]_vars
-----------------------------------------------------------------------------
(* Properties                                                               *)

(* A statement of a production process whose database is as it found it     *)
(* touches only rows of the organisation its own transaction works for, and *)
(* sees only that organisation and its counterparties, whoever used the     *)
(* connection before; a link it makes or sees has all of its parents there  *)
(* ("Checking both sides prevents linking a visible value to another        *)
(* tenant's evidence", 001_rls.sql:27).                                     *)
TenantsAreApart ==
  Production /\ ~drifted /\ process = "up" =>
    /\ \A i \in touched.ids \cap Rows : touched.by # None /\ Owners(i) \subseteq {touched.by}
    /\ \A o \in touched.orgs : o = touched.by \/ {<<o, touched.by>>, <<touched.by, o>>} \cap authorised # {}

(* "Published versions are append-only; the migration trigger also blocks   *)
(* cascading deletion through an item/organisation and changes by table     *)
(* owners" (002_runtime_grants.sql:20).                                     *)
VersionsStay == [][\A i \in Rows : row[i].table = "version" => row'[i] = row[i]]_vars
=============================================================================
