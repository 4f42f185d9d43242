------------------------------- MODULE ApiProofs ------------------------------
(***************************************************************************)
(* Around the API.  Each part keeps an invariant of its own, and what one    *)
(* part does leaves those of the others alone.                              *)
(*                                                                         *)
(* Tenants (TInv): a policy compares organisations, and a link table has    *)
(* none.  What makes the comparison mean something is that an open          *)
(* transaction has a name (Named) and that the parents of a link are there  *)
(* and have one (Parents); that a row which is gone takes its links along,  *)
(* and that what it does not take along it does not leave without a parent, *)
(* which is the trigger.                                                    *)
(*                                                                         *)
(* Exports (EInv): what is read of the item is chained and counted.         *)
(* Archives (AInv): a run has a manifest that was verified and a directory  *)
(* of its own, whose copies are right as far as they were read again.       *)
(*                                                                         *)
(* Limits (LInv): of the requests of a key that were passed on, those its   *)
(* bucket does not count are of earlier windows, all but a maximum of them  *)
(* of windows before the last; without a bucket, or with one that expired,  *)
(* they are over.                                                           *)
(*                                                                         *)
(* Drafts (DInv): while a draft is checked it holds the models of what it   *)
(* found and shares the authorisation it works under, so that what it has   *)
(* recorded stays true until it is stored.  WInv adds that nothing is       *)
(* stored of a call before it ends and that, as long as nothing was         *)
(* refused, each item checked has left its record; a file is then a run of  *)
(* the ranks of a group, and the files are the ranks of their first ones.   *)
(*                                                                         *)
(* Deletions (RefsInv): a row refers to rows that are there.  What goes     *)
(* with a row is a recursive function, of which the fixpoint is all that is *)
(* needed: there is one, the least set that is closed under the cascades.   *)
(***************************************************************************)
EXTENDS MCApi, Sequences, FiniteSetTheorems, TLAPS

Kinds == {"tenant", "link", "version"}
Row    == [table : Kinds, org : Orgs \cup {None}, parents : SUBSET Ids]

Types ==
  /\ row \in [Ids -> Row \cup {None}]
  /\ conn \in [Connections -> [open : BOOLEAN, org : Orgs \cup {None}]]

(* Whose transaction it is, is known while it is open.                      *)
Named == \A c \in Connections : conn[c].open => conn[c].org \in Orgs

(* Every row but a link has an organisation, and a link the parents it      *)
(* inherits from, none of which is a link; a tenant row inherits nothing.   *)
Parents ==
  \A i \in Rows :
    /\ row[i].table # "link" => row[i].org \in Orgs
    /\ row[i].table = "tenant" => row[i].parents = {}
    /\ row[i].table = "link" =>
         row[i].parents # {} /\ \A p \in row[i].parents : p \in Rows /\ row[p].table # "link"

(* What the process found when it started still holds.                      *)
Checked == Production /\ ~drifted /\ process = "up" => flaws = {}

(* A statement is of a process.                                             *)
Quiet == process # "up" => touched.ids = {} /\ touched.orgs = {}

TInv == Types /\ Named /\ Parents /\ Checked /\ Quiet /\ TenantsAreApart

-----------------------------------------------------------------------------
LEMMA InitHolds == ASSUME Init PROVE TInv
<1>1. Rows = {}
  BY TenantAssumption DEF Init, Rows
<1>2. Types /\ Named
  BY DEF Init, Types, Named
<1> QED
  BY <1>1, <1>2 DEF Init, TInv, Parents, Checked, Quiet, TenantsAreApart, Nothing

(* A new row, with parents that are there, leaves the others as they are.   *)
LEMMA NewRow ==
  ASSUME TInv, NEW i \in Ids, row[i] = None, NEW r \in Row, row' = [row EXCEPT ![i] = r],
         r.table # "link" => r.org \in Orgs,
         r.table = "tenant" => r.parents = {},
         r.table = "link" => r.parents # {} /\ \A p \in r.parents : p \in Rows /\ row[p].table # "link"
  PROVE  Parents' /\ \A j \in Ids : j # i => row'[j] = row[j]
<1>1. row'[i] = r /\ \A j \in Ids : j # i => row'[j] = row[j]
  BY DEF TInv, Types
<1>2. Rows \subseteq Rows' /\ \A j \in Rows : row'[j] = row[j] /\ j # i
  BY <1>1 DEF Rows
<1>3. \A j \in Rows' : j = i \/ j \in Rows
  BY <1>1 DEF Rows
<1>4. ASSUME NEW j \in Rows' PROVE
        /\ row'[j].table # "link" => row'[j].org \in Orgs
        /\ row'[j].table = "tenant" => row'[j].parents = {}
        /\ row'[j].table = "link" =>
             row'[j].parents # {} /\ \A p \in row'[j].parents : p \in Rows' /\ row'[p].table # "link"
  <2>1. CASE j = i
    BY <2>1, <1>1, <1>2
  <2>2. CASE j \in Rows
    BY <2>2, <1>2 DEF TInv, Parents
  <2> QED
    BY <2>1, <2>2, <1>3
<1> QED
  BY <1>1, <1>4 DEF Parents

(* What a policy lets a transaction see belongs to the transaction, which   *)
(* is one that is open.                                                     *)
LEMMA VisibleIsOwn ==
  ASSUME TInv, flaws = {}, NEW c \in Connections, NEW i \in Rows, Visible(c, row[i])
  PROVE  Working(c) # None /\ Owners(i) \subseteq {Working(c)}
<1>1. CASE row[i].table = "link"
  <2>1. PICK p \in row[i].parents : p \in Rows /\ row[p].table # "link" /\ row[p].org \in Orgs
    BY <1>1 DEF TInv, Parents
  <2>2. \A q \in row[i].parents : row[q].org = Working(c)
    BY <1>1 DEF Visible, Setting
  <2> QED
    BY <1>1, <2>1, <2>2, TenantAssumption DEF Owners
<1>2. CASE row[i].table # "link"
  BY <1>2, TenantAssumption DEF Visible, Setting, Owners, TInv, Parents
<1> QED
  BY <1>1, <1>2

-----------------------------------------------------------------------------
(* A row that is gone was no version and had none: what stays keeps its     *)
(* parents.                                                                 *)
LEMMA DeleteKeeps ==
  ASSUME TInv, NEW i \in Ids, Delete(i) PROVE TInv'
<1>1. /\ row[i] # None /\ ~Raises(i) /\ touched' = Nothing
      /\ row' = [j \in Ids |-> IF j \in Cascade(i) THEN None ELSE row[j]]
      /\ UNCHANGED <<authorised, conn, flaws, drifted, process>>
  BY DEF Delete
<1>2. \A j \in Ids : row'[j] = None \/ (j \notin Cascade(i) /\ row'[j] = row[j])
  BY <1>1
<1>3. Types'
  BY <1>1 DEF TInv, Types
<1>4. \A j \in Rows' : j \in Rows /\ j \notin Cascade(i) /\ row'[j] = row[j]
  BY <1>2 DEF Rows
<1>5. ASSUME NEW j \in Rows', row[j].table = "link", NEW p \in row[j].parents
      PROVE  p \in Rows' /\ row'[p] = row[p]
  <2>1. j \in Rows /\ j \notin Children(i) /\ p # i
    BY <1>4, <1>5 DEF Cascade, Children
  <2>2. p \in Rows /\ row[p].table # "link" /\ p \in Ids
    BY <2>1, <1>5 DEF TInv, Parents, Rows
  <2>3. p \notin Cascade(i)
    <3>1. SUFFICES ASSUME p \in Children(i) PROVE FALSE
      BY <2>1 DEF Cascade
    <3>2. row[p].parents # {} /\ row[p] \in Row
      BY <3>1, <2>2 DEF Children, Rows, TInv, Types
    <3>3. row[p].table = "version"
      BY <3>2, <2>2 DEF TInv, Parents, Row, Kinds
    <3> QED
      BY <3>1, <3>3, <1>1 DEF Raises, Cascade
  <2> QED
    BY <2>2, <2>3, <1>1 DEF Rows
<1>6. Parents'
  BY <1>4, <1>5 DEF TInv, Parents
<1> QED
  BY <1>1, <1>3, <1>6 DEF TInv, Named, Checked, Quiet, TenantsAreApart, Nothing

LEMMA NextHolds == ASSUME TInv, [Next]_vars PROVE TInv'
<1>1. CASE Start
  BY <1>1 DEF Start, Safe, TInv, Types, Named, Parents, Rows, Checked, Quiet, TenantsAreApart
<1>2. CASE Stop
  <2>1. Types' /\ Named'
    BY <1>2 DEF Stop, TInv, Types, Named
  <2> QED
    BY <1>2, <2>1 DEF Stop, TInv, Parents, Rows, Checked, Quiet, TenantsAreApart, Nothing
<1>3. ASSUME NEW f \in Flaws, Drift(f) PROVE TInv'
  BY <1>3 DEF Drift, TInv, Types, Named, Parents, Rows, Checked, Quiet, TenantsAreApart, Nothing
<1>4. ASSUME NEW c \in Connections, End(c) PROVE TInv'
  <2>1. Types' /\ Named'
    BY <1>4 DEF End, TInv, Types, Named
  <2>2. UNCHANGED <<row, authorised, flaws, drifted, process, touched>>
    BY <1>4 DEF End
  <2> QED
    BY <2>1, <2>2 DEF TInv, Parents, Rows, Checked, Quiet, TenantsAreApart, Owners
<1>5. ASSUME NEW c \in Connections, NEW o \in Orgs, Begin(c, o) PROVE TInv'
  <2>1. Types' /\ Named'
    BY <1>5 DEF Begin, TInv, Types, Named
  <2> QED
    BY <1>5, <2>1 DEF Begin, TInv, Parents, Rows, Checked, Quiet, TenantsAreApart, Owners
<1>6. ASSUME NEW c \in Connections, Select(c) PROVE TInv'
  <2>1. /\ touched' = [by |-> Working(c), ids |-> {i \in Rows : Visible(c, row[i])},
                       orgs |-> {o \in Orgs : OrganisationVisible(c, o)}]
        /\ process = "up" /\ UNCHANGED <<row, authorised, conn, flaws, drifted, process>>
    BY <1>6 DEF Select, Touch
  <2>2. Types' /\ Named' /\ Parents' /\ Checked' /\ Quiet'
    BY <2>1 DEF TInv, Types, Named, Parents, Rows, Checked, Quiet
  <2>3. ASSUME flaws = {} PROVE \A i \in touched'.ids \cap Rows' : touched'.by # None /\ Owners(i)' \subseteq {touched'.by}
    BY <2>1, <2>3, VisibleIsOwn DEF Rows, Owners
  <2>4. ASSUME flaws = {}, NEW o \in touched'.orgs
        PROVE  o = touched'.by \/ {<<o, touched'.by>>, <<touched'.by, o>>} \cap authorised' # {}
    BY <2>1, <2>4 DEF OrganisationVisible, Setting
  <2>5. Production /\ ~drifted' /\ process' = "up" => flaws = {}
    BY <2>1 DEF TInv, Checked
  <2>6. TenantsAreApart'
    BY <2>3, <2>4, <2>5 DEF TenantsAreApart
  <2> QED
    BY <2>2, <2>6 DEF TInv
<1>7. ASSUME NEW c \in Connections, NEW i \in Ids, Insert(c, i) PROVE TInv'
  <2> DEFINE r == [table |-> "tenant", org |-> Setting(c), parents |-> {}]
  <2>1. /\ process = "up" /\ conn[c].open /\ row[i] = None /\ row' = [row EXCEPT ![i] = r]
        /\ touched' = [by |-> Working(c), ids |-> {i}, orgs |-> {}]
        /\ UNCHANGED <<authorised, conn, flaws, drifted, process>>
    BY <1>7 DEF Insert, Touch
  <2>2. Setting(c) = Working(c) /\ Working(c) \in Orgs
    BY <2>1 DEF Setting, Working, TInv, Named
  <2>3. r \in Row
    BY <2>2 DEF Row, Kinds
  <2>4. Parents' /\ row'[i] = r
    BY <2>1, <2>2, <2>3, NewRow DEF TInv, Types
  <2>5. Types' /\ Named' /\ Checked' /\ Quiet'
    BY <2>1, <2>3 DEF TInv, Types, Named, Checked, Quiet
  <2>6. TenantsAreApart'
    BY <2>1, <2>2, <2>4, TenantAssumption DEF TenantsAreApart, Owners
  <2> QED
    BY <2>4, <2>5, <2>6 DEF TInv
<1>8. ASSUME NEW c \in Connections, NEW i \in Ids, NEW parents \in SUBSET (Ids \ {i}),
             Cardinality(parents) \in 1..2, parents # {}, Link(c, i, parents)
      PROVE  TInv'
  <2> DEFINE r == [table |-> "link", org |-> None, parents |-> parents]
  <2>1. /\ process = "up" /\ conn[c].open /\ row[i] = None /\ row' = [row EXCEPT ![i] = r]
        /\ parents \subseteq {p \in Rows : row[p].table # "link"} /\ Visible(c, r)
        /\ touched' = [by |-> Working(c), ids |-> {i}, orgs |-> {}]
        /\ UNCHANGED <<authorised, conn, flaws, drifted, process>>
    BY <1>8 DEF Link, Touch
  <2>2. Setting(c) = Working(c) /\ Working(c) \in Orgs
    BY <2>1 DEF Setting, Working, TInv, Named
  <2>3. r \in Row
    BY DEF Row, Kinds
  <2>4. Parents' /\ row'[i] = r /\ \A j \in Ids : j # i => row'[j] = row[j]
    BY <2>1, <2>3, <1>8, NewRow DEF TInv, Types
  <2>5. Types' /\ Named' /\ Checked' /\ Quiet'
    BY <2>1, <2>3 DEF TInv, Types, Named, Checked, Quiet
  <2>6. ASSUME flaws = {} PROVE Owners(i)' \subseteq {Working(c)}
    <3>1. \A p \in parents : row[p].org = Working(c)
      BY <2>1, <2>2, <2>6 DEF Visible
    <3> QED
      BY <3>1, <2>4 DEF Owners
  <2>7. TenantsAreApart'
    BY <2>1, <2>2, <2>6, TenantAssumption DEF TenantsAreApart, TInv, Checked
  <2> QED
    BY <2>4, <2>5, <2>7 DEF TInv
<1>9. ASSUME NEW c \in Connections, NEW i \in Ids, NEW of \in Ids, Publish(c, i, of) PROVE TInv'
  <2> DEFINE r == [table |-> "version", org |-> Setting(c), parents |-> {of}]
  <2>1. /\ process = "up" /\ conn[c].open /\ row[i] = None /\ row' = [row EXCEPT ![i] = r]
        /\ touched' = [by |-> Working(c), ids |-> {i}, orgs |-> {}]
        /\ UNCHANGED <<authorised, conn, flaws, drifted, process>>
    BY <1>9 DEF Publish, Touch
  <2>2. Setting(c) = Working(c) /\ Working(c) \in Orgs
    BY <2>1 DEF Setting, Working, TInv, Named
  <2>3. r \in Row
    BY <2>2 DEF Row, Kinds
  <2>4. Parents' /\ row'[i] = r
    BY <2>1, <2>2, <2>3, NewRow DEF TInv, Types
  <2>5. Types' /\ Named' /\ Checked' /\ Quiet'
    BY <2>1, <2>3 DEF TInv, Types, Named, Checked, Quiet
  <2>6. TenantsAreApart'
    BY <2>1, <2>2, <2>4, TenantAssumption DEF TenantsAreApart, Owners
  <2> QED
    BY <2>4, <2>5, <2>6 DEF TInv
<1>10. ASSUME NEW i \in Ids, Delete(i) PROVE TInv'
  BY <1>10, DeleteKeeps
<1>11. ASSUME NEW o \in Orgs, NEW p \in Orgs, Authorise(o, p) PROVE TInv'
  BY <1>11 DEF Authorise, TInv, Types, Named, Parents, Rows, Checked, Quiet, TenantsAreApart, Nothing
<1>12. CASE UNCHANGED vars
  <2>1. Types' /\ Named' /\ Parents' /\ Checked' /\ Quiet'
    BY <1>12 DEF vars, TInv, Types, Named, Parents, Rows, Checked, Quiet
  <2>2. TenantsAreApart'
    BY <1>12 DEF vars, TInv, TenantsAreApart, Rows, Owners
  <2> QED
    BY <2>1, <2>2 DEF TInv
<1>13. \A parents \in SUBSET Ids : Cardinality(parents) \in 1..2 => parents # {}
  BY FS_EmptySet
<1> QED
  BY <1>1, <1>2, <1>3, <1>4, <1>5, <1>6, <1>7, <1>8, <1>9, <1>10, <1>11, <1>12, <1>13 DEF Next

-----------------------------------------------------------------------------
(* In production, with the privileges the process found at its start, no    *)
(* statement reads, changes or links a row of another tenant, whoever used  *)
(* its connection before (tenant-db.service.ts, 001_rls.sql).               *)
THEOREM TenantsStayApart == Spec => []TenantsAreApart
<1>1. Init => TInv
  BY InitHolds
<1>2. TInv /\ [Next]_vars => TInv'
  BY NextHolds
<1>3. TInv => TenantsAreApart
  BY DEF TInv
<1> QED
  BY <1>1, <1>2, <1>3, PTL DEF Spec

(* No statement of the runtime role or of an owner of the tables changes or *)
(* removes a published version (002_runtime_grants.sql, the migration's     *)
(* trigger).                                                                *)
THEOREM PublishedVersionsStay == Spec => VersionsStay
<1>1. Init => TInv
  BY InitHolds
<1>2. TInv /\ [Next]_vars => TInv'
  BY NextHolds
<1>3. TInv /\ [Next]_vars => [\A i \in Rows : row[i].table = "version" => row'[i] = row[i]]_vars
  <2> SUFFICES ASSUME TInv, Next, NEW i \in Rows, row[i].table = "version" PROVE row'[i] = row[i]
    OBVIOUS
  <2>1. row \in [Ids -> Row \cup {None}] /\ i \in Ids /\ row[i] # None
    BY DEF TInv, Types, Rows
  <2>2. ASSUME NEW c \in Connections, NEW j \in Ids, Insert(c, j) \/ (\E q \in SUBSET Ids : Link(c, j, q))
                                        \/ (\E q \in Ids : Publish(c, j, q))
        PROVE  row'[i] = row[i]
    BY <2>1, <2>2 DEF Insert, Link, Publish
  <2>3. ASSUME NEW j \in Ids, Delete(j) PROVE row'[i] = row[i]
    BY <2>1, <2>3 DEF Delete, Raises
  <2> QED
    BY <2>2, <2>3 DEF Next, Start, Stop, Drift, End, Select, Begin, Authorise
<1> QED
  BY <1>1, <1>2, <1>3, PTL DEF Spec, VersionsStay

-----------------------------------------------------------------------------
(* The export of an item                                                    *)

(* What is read of the item stays as it was counted and checked.            *)
EInv ==
  /\ export = [count |-> export.count, read |-> export.read]
  /\ export = Export!Idle \/ export.count \in 1..MaxExported
  /\ export.read # <<>> => Export!Chained(export.read) /\ Len(export.read) \in 1..MaxExported
  /\ Export!ExportVerifies

LEMMA EInvInit == Export!Init => EInv
  BY DEF EInv, Export!Init, Export!Idle, Export!ExportVerifies

LEMMA IssuedIsWhole ==
  ASSUME EInv, Export!Issue
  PROVE  EInv'
<1> DEFINE p == Export!Payload(export.read)
<1>1. /\ export.read # <<>> /\ export' = Export!Idle
      /\ \/ Export!Size(p.versions, p.known) <= MaxSize /\ issued' = p
         \/ UNCHANGED issued
  BY DEF Export!Issue
<1>2. /\ p.versions = export.read /\ p.known = Export!Projected(export.read)
      /\ p.missing = Export!Cited(export.read) \ p.known
  BY DEF Export!Payload
<1>3. p.known \subseteq Export!Cited(export.read)
  BY <1>2 DEF Export!Projected
<1> HIDE DEF p
<1>4. Export!Size(p.versions, p.known) <= MaxSize => Export!Downloads(p) /\ Export!Loads([payload |-> p, sealed |-> TRUE])
  BY <1>1, <1>2, <1>3 DEF EInv, Export!Downloads, Export!Loads, Export!Written, Export!Verifies
<1>5. Export!ExportVerifies'
  BY <1>1, <1>4 DEF EInv, Export!ExportVerifies
<1>6. export'.read = <<>> /\ export' = [count |-> export'.count, read |-> export'.read]
  BY <1>1 DEF Export!Idle
<1> QED
  BY <1>1, <1>5, <1>6 DEF EInv

LEMMA EInvNext ==
  ASSUME EInv, [MCNext]_all
  PROVE  EInv'
<1>1. CASE UNCHANGED <<export, issued>>
  BY <1>1 DEF EInv, Export!ExportVerifies
<1>2. CASE Export!Lock
  <2>1. /\ export = Export!Idle /\ export' = [export EXCEPT !.count = Len(published)]
        /\ Len(published) \in 1..MaxExported /\ UNCHANGED issued
    BY <1>2 DEF Export!Lock
  <2>2. export' = [count |-> Len(published), read |-> export.read] /\ export.read = <<>>
    BY <2>1 DEF EInv, Export!Idle
  <2> QED
    BY <2>1, <2>2 DEF EInv, Export!ExportVerifies
<1>3. CASE Export!Read
  <2>1. /\ export # Export!Idle /\ UNCHANGED issued
        /\ \/ /\ Export!Chained(published) /\ Len(published) = export.count
              /\ export' = [export EXCEPT !.read = published]
           \/ export' = Export!Idle
    BY <1>3 DEF Export!Read
  <2>2. CASE /\ Export!Chained(published) /\ Len(published) = export.count
             /\ export' = [export EXCEPT !.read = published]
    <3>1. export' = [count |-> export.count, read |-> published] /\ export.count \in 1..MaxExported
      BY <2>1, <2>2 DEF EInv
    <3> QED
      BY <2>1, <2>2, <3>1 DEF EInv, Export!ExportVerifies
  <2>3. CASE export' = Export!Idle
    <3>1. export'.read = <<>> /\ export' = [count |-> export'.count, read |-> export'.read]
      BY <2>3 DEF Export!Idle
    <3> QED
      BY <2>1, <2>3, <3>1 DEF EInv, Export!ExportVerifies
  <2> QED
    BY <2>1, <2>2, <2>3
<1>4. CASE Export!Rollback
  <2>1. export' = Export!Idle /\ UNCHANGED issued
    BY <1>4 DEF Export!Rollback
  <2>2. export'.read = <<>> /\ export' = [count |-> export'.count, read |-> export'.read]
    BY <2>1 DEF Export!Idle
  <2> QED
    BY <2>1, <2>2 DEF EInv, Export!ExportVerifies
<1>5. Export!Next => Export!Lock \/ Export!Read \/ Export!Issue \/ Export!Rollback \/ UNCHANGED <<export, issued>>
  BY DEF Export!Next, Export!Publish, Export!Evolve
<1>6. [MCNext]_all => Export!Next \/ UNCHANGED <<export, issued>>
  BY DEF MCNext, all, exports
<1> QED
  BY <1>1, <1>2, <1>3, <1>4, <1>5, <1>6, IssuedIsWhole

-----------------------------------------------------------------------------
(* The archives                                                             *)

Making(a) == run[a].stage \in {"made", "copy", "reread"}

(* A run has a manifest that was verified, and all that it cites.           *)
Loaded(r) ==
  /\ r.dest \in Destinations /\ r.manifest # None /\ Archive!Loads(r.manifest)
  /\ r.manifest.payload.missing \cup r.manifest.payload.partial = {}
  /\ r.anchor \in {None, r.manifest.payload}

(* What has become of the directory of a run, which is its own.             *)
Progress(r, dir) ==
  /\ dir.there /\ dir.report = {} /\ dir.right \subseteq dir.copies
  /\ r.stage = "made" => dir.copies = {}
  /\ r.stage \in {"copy", "reread"} => dir.manifest = r.manifest
  /\ r.stage = "copy" => dir.copies \cup r.todo = r.manifest.payload.known
  /\ r.stage = "reread" =>
       dir.copies = r.manifest.payload.known /\ r.manifest.payload.known \ r.todo \subseteq dir.right

(* What a report says of a directory is true.                               *)
Reported(dir) ==
  dir.report # {} =>
    /\ dir.manifest # None /\ Archive!Loads(dir.manifest) /\ dir.report \subseteq {None, dir.manifest.payload}
    /\ dir.copies = Archive!Cited(dir.manifest.payload.versions) /\ dir.right = dir.copies

AInv ==
  /\ run = [a \in Assemblers |-> run[a]]
  /\ archive = [d \in Destinations |-> archive[d]]
  /\ \A a \in Assemblers : run[a].stage # "out" => Loaded(run[a])
  /\ \A a \in Assemblers : Making(a) => Progress(run[a], archive[run[a].dest])
  /\ \A a, b \in Assemblers : a # b /\ Making(a) /\ Making(b) => run[a].dest # run[b].dest
  /\ \A d \in Destinations : Reported(archive[d])

LEMMA AInvInit == Archive!Init => AInv
<1> SUFFICES ASSUME Archive!Init PROVE AInv
  OBVIOUS
<1>1. \A a \in Assemblers : run[a] = Archive!Out
  BY DEF Archive!Init
<1>2. \A d \in Destinations : archive[d] = Archive!Absent
  BY DEF Archive!Init
<1>3. run = [a \in Assemblers |-> run[a]] /\ archive = [d \in Destinations |-> archive[d]]
  BY DEF Archive!Init
<1>4. \A a \in Assemblers : run[a].stage = "out"
  BY <1>1 DEF Archive!Out
<1>5. \A d \in Destinations : archive[d].report = {}
  BY <1>2 DEF Archive!Absent
<1> QED
  BY <1>3, <1>4, <1>5 DEF AInv, Making, Reported

(* A step of a run, and maybe of the directory that is its own from now on. *)
LEMMA RunStep ==
  ASSUME AInv, NEW a \in Assemblers, NEW r, NEW d \in Destinations, NEW dir,
         run' = [run EXCEPT ![a] = r],
         archive' = [archive EXCEPT ![d] = dir],
         r.stage # "out" => Loaded(r) /\ r.dest = d,
         r.stage \in {"made", "copy", "reread"} => Progress(r, dir),
         \A b \in Assemblers : b # a /\ Making(b) => run[b].dest # d,
         Reported(dir)
  PROVE  AInv'
<1>1. run'[a] = r /\ \A b \in Assemblers : b # a => run'[b] = run[b]
  BY DEF AInv
<1>2. archive'[d] = dir /\ \A e \in Destinations : e # d => archive'[e] = archive[e]
  BY DEF AInv
<1>3. run' = [b \in Assemblers |-> run'[b]] /\ archive' = [e \in Destinations |-> archive'[e]]
  BY DEF AInv
<1>4. Making(a)' <=> r.stage \in {"made", "copy", "reread"}
  BY <1>1 DEF Making
<1>5. \A b \in Assemblers : b # a => (Making(b)' <=> Making(b))
  BY <1>1 DEF Making
<1>6. \A b \in Assemblers : run'[b].stage # "out" => Loaded(run[b])'
  BY <1>1 DEF AInv
<1>7. ASSUME NEW b \in Assemblers, Making(b)' PROVE Progress(run[b], archive[run[b].dest])'
  <2>1. CASE b = a
    BY <1>1, <1>2, <1>4, <1>7, <2>1
  <2>2. CASE b # a
    <3>1. Making(b) /\ run'[b] = run[b] /\ run[b].dest \in Destinations
      BY <1>1, <1>5, <1>7, <2>2 DEF AInv, Loaded, Making
    <3>2. archive'[run[b].dest] = archive[run[b].dest]
      BY <1>2, <2>2, <3>1
    <3> QED
      BY <3>1, <3>2 DEF AInv
  <2> QED
    BY <2>1, <2>2
<1>8. \A b, c \in Assemblers : b # c /\ Making(b)' /\ Making(c)' => run'[b].dest # run'[c].dest
  BY <1>1, <1>4, <1>5 DEF AInv
<1>9. \A e \in Destinations : Reported(archive[e])'
  BY <1>2 DEF AInv
<1> QED
  BY <1>3, <1>6, <1>7, <1>8, <1>9 DEF AInv

(* A run's own step, which leaves all directories as they are.              *)
LEMMA OwnStep ==
  ASSUME AInv, NEW a \in Assemblers, NEW r,
         run' = [run EXCEPT ![a] = r], UNCHANGED archive,
         r.stage # "out" => Loaded(r),
         r.stage \in {"made", "copy", "reread"} => Making(a) /\ r.dest = run[a].dest /\ Progress(r, archive[r.dest])
  PROVE  AInv'
<1>1. run'[a] = r /\ \A b \in Assemblers : b # a => run'[b] = run[b]
  BY DEF AInv
<1>2. run' = [b \in Assemblers |-> run'[b]] /\ archive' = [e \in Destinations |-> archive'[e]]
  BY DEF AInv
<1>3. Making(a)' => Making(a) /\ r.dest = run[a].dest /\ Progress(r, archive[r.dest])
  BY <1>1 DEF Making
<1>4. \A b \in Assemblers : b # a => (Making(b)' <=> Making(b))
  BY <1>1 DEF Making
<1>5. \A b \in Assemblers : run'[b].stage # "out" => Loaded(run[b])'
  BY <1>1 DEF AInv
<1>6. \A b \in Assemblers : Making(b)' => Progress(run[b], archive[run[b].dest])'
  BY <1>1, <1>3, <1>4 DEF AInv
<1>7. \A b, c \in Assemblers : b # c /\ Making(b)' /\ Making(c)' => run'[b].dest # run'[c].dest
  BY <1>1, <1>3, <1>4 DEF AInv
<1>8. \A e \in Destinations : Reported(archive[e])'
  BY DEF AInv
<1> QED
  BY <1>2, <1>5, <1>6, <1>7, <1>8 DEF AInv
LEMMA StopAndLoadKeepAInv ==
  ASSUME AInv, NEW a \in Assemblers,
         Archive!Stop(a) \/ \E anchor \in Issued \cup {None}, d \in Destinations : Archive!Load(a, anchor, d)
  PROVE  AInv'
<1>1. CASE Archive!Stop(a)
  <2>1. run' = [run EXCEPT ![a] = Archive!Out] /\ UNCHANGED archive
    BY <1>1 DEF Archive!Stop
  <2>2. Archive!Out.stage = "out"
    BY DEF Archive!Out
  <2> QED
    BY <2>1, <2>2, OwnStep
<1>2. ASSUME NEW anchor \in Issued \cup {None}, NEW d \in Destinations, Archive!Load(a, anchor, d) PROVE AInv'
  <2> DEFINE r == [stage |-> "check", manifest |-> file, anchor |-> anchor, dest |-> d, todo |-> file.payload.known]
  <2>1. /\ run' = [run EXCEPT ![a] = r] /\ UNCHANGED archive
        /\ file # None /\ Archive!Loads(file) /\ anchor \in {None, file.payload}
        /\ file.payload.missing \cup file.payload.partial = {}
    BY <1>2 DEF Archive!Load
  <2>2. Loaded(r) /\ r.stage = "check"
    BY <2>1 DEF Loaded
  <2> HIDE DEF r
  <2> QED
    BY <2>1, <2>2, OwnStep
<1> QED
  BY <1>1, <1>2

(* The assembler goes on.                                                   *)
LEMMA Going ==
  ASSUME NEW a \in Assemblers, NEW stage, NEW todo, Archive!Goes(a, stage, todo)
  PROVE  \E r : /\ run' = [run EXCEPT ![a] = r] /\ r.stage = stage /\ r.todo = todo /\ r.dest = run[a].dest
                /\ r.manifest = run[a].manifest /\ r.anchor = run[a].anchor
                /\ Loaded(run[a]) => Loaded(r)
<1> DEFINE r == [stage |-> stage, manifest |-> run[a].manifest, anchor |-> run[a].anchor,
                 dest |-> run[a].dest, todo |-> todo]
<1>1. run' = [run EXCEPT ![a] = r]
  BY DEF Archive!Goes
<1>2. /\ r.stage = stage /\ r.todo = todo /\ r.dest = run[a].dest
      /\ r.manifest = run[a].manifest /\ r.anchor = run[a].anchor
  OBVIOUS
<1> HIDE DEF r
<1>3. Loaded(run[a]) => Loaded(r)
  BY <1>2 DEF Loaded
<1> QED
  BY <1>1, <1>2, <1>3

LEMMA ChecksKeepAInv ==
  ASSUME AInv, NEW a \in Assemblers, Archive!CheckSource(a) \/ Archive!CheckCopy(a)
  PROVE  AInv'
<1>1. PICK e \in run[a].todo :
        /\ Archive!Goes(a, run[a].stage, run[a].todo \ {e}) /\ UNCHANGED archive
        /\ run[a].stage = "check" \/ (run[a].stage = "reread" /\ e \in archive[run[a].dest].right)
  BY DEF Archive!CheckSource, Archive!CheckCopy, Archive!Examine
<1>2. Loaded(run[a])
  BY <1>1 DEF AInv
<1>3. PICK r : /\ run' = [run EXCEPT ![a] = r] /\ r.stage = run[a].stage /\ r.todo = run[a].todo \ {e}
               /\ r.dest = run[a].dest /\ r.manifest = run[a].manifest /\ Loaded(r)
  BY <1>1, <1>2, Going
<1>4. r.stage \in {"made", "copy", "reread"} => Making(a) /\ Progress(r, archive[r.dest])
  <2>1. SUFFICES ASSUME run[a].stage = "reread", e \in archive[run[a].dest].right
        PROVE Making(a) /\ Progress(r, archive[r.dest])
    BY <1>1, <1>3
  <2>2. Making(a) /\ Progress(run[a], archive[run[a].dest])
    BY <2>1 DEF AInv, Making
  <2> QED
    BY <1>3, <2>1, <2>2 DEF Progress
<1> QED
  BY <1>1, <1>3, <1>4, OwnStep

(* A run at work in its directory: nobody else is.                          *)
LEMMA OwnDirectory ==
  ASSUME AInv, NEW a \in Assemblers, Making(a)
  PROVE  /\ Loaded(run[a]) /\ run[a].dest \in Destinations
         /\ Progress(run[a], archive[run[a].dest])
         /\ \A b \in Assemblers : b # a /\ Making(b) => run[b].dest # run[a].dest
<1>1. run[a].stage # "out"
  BY DEF Making
<1>2. Loaded(run[a])
  BY <1>1 DEF AInv
<1> QED
  BY <1>2 DEF AInv, Loaded

LEMMA MakeKeepsAInv ==
  ASSUME AInv, NEW a \in Assemblers, Archive!Make(a)
  PROVE  AInv'
<1> DEFINE d == run[a].dest
           dir == Archive!Directory(None, {}, {}, {})
<1>1. /\ run[a].stage = "check" /\ ~archive[d].there
      /\ archive' = [archive EXCEPT ![d] = dir] /\ Archive!Goes(a, "made", {})
  BY DEF Archive!Make
<1>2. Loaded(run[a]) /\ d \in Destinations
  <2>1. Loaded(run[a])
    BY <1>1 DEF AInv
  <2> QED
    BY <2>1 DEF Loaded
<1>3. PICK r : run' = [run EXCEPT ![a] = r] /\ r.stage = "made" /\ r.dest = d /\ Loaded(r)
  BY <1>1, <1>2, Going
<1>4. dir.there /\ dir.report = {} /\ dir.right = {} /\ dir.copies = {}
  BY DEF Archive!Directory
<1> HIDE DEF d, dir
<1>5. Progress(r, dir) /\ Reported(dir)
  BY <1>3, <1>4 DEF Progress, Reported
<1>6. \A b \in Assemblers : b # a /\ Making(b) => run[b].dest # d
  BY <1>1 DEF AInv, Progress
<1> QED
  BY <1>1, <1>2, <1>3, <1>5, <1>6, RunStep

LEMMA WriteManifestKeepsAInv ==
  ASSUME AInv, NEW a \in Assemblers, Archive!WriteManifest(a)
  PROVE  AInv'
<1> DEFINE d == run[a].dest
           old == archive[d]
           dir == Archive!Directory(run[a].manifest, old.copies, old.right, old.report)
<1>1. /\ run[a].stage = "made" /\ archive' = [archive EXCEPT ![d] = dir]
      /\ Archive!Goes(a, "copy", run[a].manifest.payload.known)
  BY DEF Archive!WriteManifest
<1>2. Making(a)
  BY <1>1 DEF Making
<1>3. /\ Loaded(run[a]) /\ d \in Destinations /\ Progress(run[a], old)
      /\ \A b \in Assemblers : b # a /\ Making(b) => run[b].dest # d
  BY <1>2, OwnDirectory
<1>4. PICK r : /\ run' = [run EXCEPT ![a] = r] /\ r.stage = "copy" /\ r.todo = run[a].manifest.payload.known
               /\ r.dest = d /\ r.manifest = run[a].manifest /\ Loaded(r)
  BY <1>1, <1>3, Going
<1>5. /\ dir.there /\ dir.manifest = run[a].manifest /\ dir.copies = old.copies
      /\ dir.right = old.right /\ dir.report = old.report
  BY DEF Archive!Directory
<1> HIDE DEF d, dir, old
<1>6. Progress(r, dir) /\ Reported(dir)
  BY <1>1, <1>3, <1>4, <1>5 DEF Progress, Reported
<1> QED
  BY <1>1, <1>3, <1>4, <1>6, RunStep

LEMMA CopyKeepsAInv ==
  ASSUME AInv, NEW a \in Assemblers, Archive!Copy(a)
  PROVE  AInv'
<1> DEFINE d == run[a].dest
           old == archive[d]
<1>1. run[a].stage = "copy"
  BY DEF Archive!Copy
<1>2. Making(a)
  BY <1>1 DEF Making
<1>3. /\ Loaded(run[a]) /\ d \in Destinations /\ Progress(run[a], old)
      /\ \A b \in Assemblers : b # a /\ Making(b) => run[b].dest # d
  BY <1>2, OwnDirectory
<1>4. CASE run[a].todo = {} /\ UNCHANGED archive /\ Archive!Goes(a, "reread", Archive!Reread(a))
  <2>1. PICK r : /\ run' = [run EXCEPT ![a] = r] /\ r.stage = "reread" /\ r.todo = run[a].manifest.payload.known
                 /\ r.dest = d /\ r.manifest = run[a].manifest /\ Loaded(r)
    BY <1>3, <1>4, Going DEF Archive!Reread
  <2>2. Progress(r, old)
    BY <1>1, <1>3, <1>4, <2>1 DEF Progress
  <2> QED
    BY <1>2, <1>4, <2>1, <2>2, OwnStep
<1>5. ASSUME NEW e \in run[a].todo \ old.copies, NEW right \in {{}, {e} \cap source},
             archive' = [archive EXCEPT ![d] =
               Archive!Directory(old.manifest, old.copies \cup {e}, old.right \cup right, old.report)],
             Archive!Goes(a, "copy", run[a].todo \ {e})
      PROVE  AInv'
  <2> DEFINE dir == Archive!Directory(old.manifest, old.copies \cup {e}, old.right \cup right, old.report)
  <2>1. PICK r : /\ run' = [run EXCEPT ![a] = r] /\ r.stage = "copy" /\ r.todo = run[a].todo \ {e}
                 /\ r.dest = d /\ r.manifest = run[a].manifest /\ Loaded(r)
    BY <1>3, <1>5, Going
  <2>2. /\ dir.there /\ dir.manifest = old.manifest /\ dir.copies = old.copies \cup {e}
        /\ dir.right = old.right \cup right /\ dir.report = old.report
    BY DEF Archive!Directory
  <2>3. archive' = [archive EXCEPT ![d] = dir]
    BY <1>5
  <2> HIDE DEF d, dir, old
  <2>4. Progress(r, dir) /\ Reported(dir)
    BY <1>1, <1>3, <1>5, <2>1, <2>2 DEF Progress, Reported
  <2>5. /\ run' = [run EXCEPT ![a] = r] /\ Loaded(r) /\ r.dest = d /\ d \in Destinations
        /\ \A b \in Assemblers : b # a /\ Making(b) => run[b].dest # d
    BY <1>3, <2>1
  <2> QED
    BY <2>3, <2>4, <2>5, RunStep
<1> QED
  BY <1>4, <1>5 DEF Archive!Copy

LEMMA ReportKeepsAInv ==
  ASSUME AInv, NEW a \in Assemblers, Archive!Report(a)
  PROVE  AInv'
<1> DEFINE d == run[a].dest
           old == archive[d]
           p == run[a].manifest.payload
           dir == Archive!Directory(old.manifest, old.copies, old.right, {run[a].anchor})
<1>1. /\ run[a].stage = "reread" /\ run[a].todo = {}
      /\ archive' = [archive EXCEPT ![d] = dir] /\ run' = [run EXCEPT ![a] = Archive!Out]
  BY DEF Archive!Report
<1>2. Making(a)
  BY <1>1 DEF Making
<1>3. /\ Loaded(run[a]) /\ d \in Destinations /\ Progress(run[a], old)
      /\ \A b \in Assemblers : b # a /\ Making(b) => run[b].dest # d
  BY <1>2, OwnDirectory
<1>4. /\ dir.manifest = old.manifest /\ dir.copies = old.copies
      /\ dir.right = old.right /\ dir.report = {run[a].anchor}
  BY DEF Archive!Directory
<1>5. Archive!Out.stage = "out"
  BY DEF Archive!Out
<1>6. old.manifest = run[a].manifest /\ old.copies = p.known /\ old.right = p.known
  BY <1>1, <1>3 DEF Progress
<1>7. /\ run[a].manifest # None /\ Archive!Loads(run[a].manifest)
      /\ run[a].anchor \in {None, p} /\ p.missing = {}
  BY <1>3 DEF Loaded
<1>8. p.known = Archive!Cited(p.versions)
  BY <1>7 DEF Archive!Loads, Archive!Verifies
<1>9. Reported(dir)
  <2> HIDE DEF dir, old, d
  <2> QED
    BY <1>4, <1>6, <1>7, <1>8 DEF Reported
<1> HIDE DEF dir, d
<1> QED
  BY <1>1, <1>3, <1>5, <1>9, RunStep

LEMMA AInvNext ==
  ASSUME AInv, [MCNext]_all
  PROVE  AInv'
<1>1. CASE UNCHANGED <<run, archive>>
  <2>1. \A a \in Assemblers : Making(a)' = Making(a)
    BY <1>1 DEF Making
  <2> QED
    BY <1>1, <2>1 DEF AInv
<1>2. CASE Archive!Next
  <2>1. ASSUME NEW a \in Assemblers,
               \/ Archive!Stop(a) \/ Archive!CheckSource(a) \/ Archive!Make(a) \/ Archive!WriteManifest(a)
               \/ Archive!Copy(a) \/ Archive!CheckCopy(a) \/ Archive!Report(a)
               \/ \E anchor \in Issued \cup {None}, d \in Destinations : Archive!Load(a, anchor, d)
        PROVE  AInv'
    BY <2>1, StopAndLoadKeepAInv, ChecksKeepAInv, MakeKeepsAInv, WriteManifestKeepsAInv, CopyKeepsAInv, ReportKeepsAInv
  <2>2. \/ \E p \in Issued : Archive!Save(p)
        \/ \E sealed \in BOOLEAN : Archive!Edit(sealed)
        \/ \E e \in Evidence : Archive!Place(e)
        => UNCHANGED <<run, archive>>
    BY DEF Archive!Save, Archive!Edit, Archive!Place
  <2> QED
    BY <1>1, <1>2, <2>1, <2>2 DEF Archive!Next
<1>3. [MCNext]_all => Archive!Next \/ UNCHANGED <<run, archive>>
  BY DEF MCNext, all, disk
<1> QED
  BY <1>1, <1>2, <1>3

(* For any evidence, limits, exports, runs and directories: what the API    *)
(* issues, the browser hands over and the verifier accepts; and a directory *)
(* with a report is whole, whatever changes under the verifier and whoever  *)
(* else runs it (operator-export.ts, passport-export.cjs).                  *)
THEOREM ExportsAreWhole == MCSpec => []ExportsHold
<1> DEFINE Inv == EInv /\ AInv
<1>1. MCInit => Inv
  BY EInvInit, AInvInit DEF MCInit
<1>2. Inv /\ [MCNext]_all => Inv'
  BY EInvNext, AInvNext
<1>3. Inv => ExportsHold
  BY DEF EInv, AInv, ExportsHold, Reported, Archive!ReportedIsWhole
<1> QED
  BY <1>1, <1>2, <1>3, PTL DEF MCSpec

-----------------------------------------------------------------------------
(* The request limits                                                       *)

Bucket == [count : Nat \ {0}, expires : Int]

Before(s, n, t) == \A j \in 1..Len(s) : j <= n => s[j] < t

(* Without a bucket that lives: all of the requests passed on are over, and *)
(* all but a maximum of them for a window.                                  *)
Fresh(s, m) == Before(s, Len(s), now) /\ Before(s, Len(s) - m, now - Window)

(* With a bucket that expires at e: the first n are of earlier windows, the *)
(* maximum of them of the last, and the others of those before.             *)
Live(s, n, e, m) ==
  /\ e <= now + Window
  /\ Before(s, Len(s), e) /\ Before(s, n, e - Window) /\ Before(s, n - m, e - Window - Window)

(* Of those passed on, so many are not counted in the bucket.               *)
Earlier(s, b, m) == Len(s) - (IF b.count <= m THEN b.count ELSE m)

Limited(s, m) == \A i \in DOMAIN s : i > 2 * m => s[i] - s[i - 2 * m] > Window

Bounded(bs) == DOMAIN bs \subseteq Limiter!Keys /\ IsFiniteSet(DOMAIN bs) /\ Cardinality(DOMAIN bs) <= MaxBuckets

Table(bs) ==
  /\ bs \in [DOMAIN bs -> Bucket] /\ Bounded(bs)
  /\ \A k \in Limiter!Keys :
       IF k \in DOMAIN bs THEN Live(served[k], Earlier(served[k], bs[k], Limiter!Maximum(k)), bs[k].expires, Limiter!Maximum(k))
       ELSE Fresh(served[k], Limiter!Maximum(k))

Clock ==
  /\ now \in Int /\ nextCleanup \in Int /\ nextCleanup <= now + Window
  /\ served \in [Limiter!Keys -> Seq(Int)]

LInv ==
  /\ Clock /\ Table(buckets)
  /\ \A k \in DOMAIN buckets : buckets[k].expires > nextCleanup - Window
  /\ \A k \in Limiter!Keys : Limited(served[k], Limiter!Maximum(k))

LEMMA MaximumIsNat == \A k : Limiter!Maximum(k) \in Nat
  BY ApiAssumption DEF Limiter!Maximum

LEMMA BeforeWeakens ==
  ASSUME NEW s \in Seq(Int), NEW n \in Int, NEW o \in Int, NEW t \in Int, NEW u \in Int,
         Before(s, n, t), o <= n, t <= u
  PROVE  Before(s, o, u)
<1>1. SUFFICES ASSUME NEW j \in 1..Len(s), j <= o PROVE s[j] < u
  BY DEF Before
<1>2. j \in Int /\ s[j] \in Int
  OBVIOUS
<1>3. s[j] < t
  BY <1>1, <1>2 DEF Before
<1> QED
  BY <1>2, <1>3

LEMMA LiveWeakens ==
  ASSUME Clock, NEW s \in Seq(Int), NEW n \in Int, NEW o \in Int, NEW e \in Int, NEW m \in Nat,
         Live(s, n, e, m), o <= n
  PROVE  Live(s, o, e, m)
<1>1. /\ Window \in Nat /\ o - m \in Int /\ n - m \in Int /\ o - m <= n - m
      /\ e - Window \in Int /\ e - Window - Window \in Int
  BY ApiAssumption
<1> QED
  BY <1>1, BeforeWeakens DEF Live

LEMMA Lapses ==
  ASSUME Clock, NEW s \in Seq(Int), NEW n \in Int, NEW e \in Int, NEW m \in Nat,
         Live(s, n, e, m), Len(s) - m <= n, e <= now
  PROVE  Fresh(s, m)
<1> DEFINE l == Len(s)
<1>1. l \in Nat /\ now \in Int /\ Window \in Nat
  BY ApiAssumption DEF Clock
<1>2. l - m <= n /\ Before(s, l, e) /\ Before(s, n, e - Window)
  BY DEF Live
<1> HIDE DEF l
<1>3. Before(s, l, now)
  BY <1>1, <1>2, BeforeWeakens
<1>4. l - m \in Int /\ e - Window \in Int /\ now - Window \in Int /\ e - Window <= now - Window
  BY <1>1
<1>5. Before(s, l - m, now - Window)
  BY <1>2, <1>4, BeforeWeakens
<1> QED
  BY <1>3, <1>5 DEF Fresh, l

(* A bucket is new.                                                         *)
LEMMA FreshCounts ==
  ASSUME Clock, NEW s \in Seq(Int), NEW m \in Nat, Fresh(s, m)
  PROVE  Live(s, Len(s), now + Window, m)
<1> DEFINE l == Len(s)  e == now + Window
<1>1. l \in Nat /\ now \in Int /\ Window \in Nat
  BY ApiAssumption DEF Clock
<1>2. Before(s, l, now) /\ Before(s, l - m, now - Window)
  BY DEF Fresh
<1>3. e \in Int /\ e - Window = now /\ e - Window - Window = now - Window /\ now <= e /\ e <= now + Window
  BY <1>1
<1> HIDE DEF l, e
<1>4. Before(s, l, e)
  BY <1>1, <1>2, <1>3, BeforeWeakens
<1> QED
  BY <1>2, <1>3, <1>4 DEF Live, l, e

(* What holds of the first entries holds of a longer sequence, unless they  *)
(* reach the new one, which is below.                                       *)
LEMMA BeforeExtends ==
  ASSUME NEW s \in Seq(Int), NEW e \in Int, NEW n \in Int, NEW t \in Int, Before(s, n, t),
         n <= Len(s) \/ e < t
  PROVE  Before(Append(s, e), n, t)
<1> DEFINE z == Append(s, e)
<1>1. /\ Len(z) = Len(s) + 1 /\ z[Len(s) + 1] = e /\ Len(s) \in Nat
      /\ \A j \in 1..Len(s) : z[j] = s[j]
  OBVIOUS
<1> HIDE DEF z
<1>2. SUFFICES ASSUME NEW j \in 1..Len(z), j <= n PROVE z[j] < t
  BY DEF Before, z
<1>3. CASE j \in 1..Len(s)
  BY <1>1, <1>2, <1>3 DEF Before
<1>4. CASE j = Len(s) + 1
  BY <1>1, <1>2, <1>4
<1> QED
  BY <1>1, <1>2, <1>3, <1>4

(* A request is passed on.                                                  *)
LEMMA PassedOn ==
  ASSUME Clock, NEW s \in Seq(Int), NEW n \in Int, NEW e \in Int, NEW m \in Nat, Live(s, n, e, m),
         n <= Len(s), Len(s) + 1 - m <= n, e > now, Limited(s, m)
  PROVE  LET t == Append(s, now) IN Live(t, n, e, m) /\ Limited(t, m)
<1> DEFINE t == Append(s, now)  l == Len(s)  u == e - Window
<1>1. l \in Nat /\ now \in Int /\ Window \in Nat /\ n <= l /\ l + 1 - m <= n /\ now < e
  BY ApiAssumption DEF Clock
<1>2. /\ t \in Seq(Int) /\ Len(t) = l + 1 /\ t[l + 1] = now
      /\ \A j \in 1..l : t[j] = s[j]
      /\ DOMAIN s = 1..l /\ DOMAIN t = 1..(l + 1)
  BY <1>1
<1>3. Before(s, l, e) /\ Before(s, n, u) /\ Before(s, n - m, u - Window) /\ e <= now + Window
  BY DEF Live
<1>4. Before(t, Len(t), e)
  <2>1. Before(s, l + 1, e)
    BY <1>1, <1>3 DEF Before
  <2> HIDE DEF l, u
  <2>2. l + 1 \in Int /\ Len(t) = l + 1
    BY <1>1, <1>2
  <2> QED
    BY <1>1, <2>1, <2>2, BeforeExtends
<1>5. n - m \in Int /\ n - m <= l /\ u \in Int /\ u - Window \in Int /\ u <= now
  <2> HIDE DEF t, l
  <2> QED
    BY <1>1, <1>3
<1>6. Before(t, n, u) /\ Before(t, n - m, u - Window)
  <2>1. n <= Len(s) /\ n - m <= Len(s)
    BY <1>5
  <2> HIDE DEF u, l
  <2> QED
    BY <1>1, <1>3, <1>5, <2>1, BeforeExtends
<1>7. Live(t, n, e, m)
  <2> HIDE DEF t
  <2> QED
    BY <1>3, <1>4, <1>6 DEF Live
<1>8. ASSUME NEW i \in 1..(l + 1), i > 2 * m PROVE t[i] - t[i - 2 * m] > Window
  <2> DEFINE j == i - 2 * m
  <2> HIDE DEF t, l, u
  <2>1. i \in Int /\ 1 <= i /\ i <= l + 1
    BY <1>1
  <2>2. j \in 1..i
    BY <1>1, <1>8, <2>1
  <2> HIDE DEF j
  <2>3. CASE i <= l
    <3>1. i \in 1..l /\ j \in 1..l
      BY <1>1, <2>1, <2>2, <2>3
    <3>2. t[i] = s[i] /\ t[j] = s[j] /\ i \in DOMAIN s
      BY <1>2, <3>1
    <3>3. s[i] - s[j] > Window
      BY <1>8, <3>2 DEF Limited, j
    <3> QED
      BY <3>2, <3>3 DEF j
  <2>4. CASE i = l + 1
    <3>1. j <= n - m /\ j \in 1..(l + 1)
      BY <1>1, <2>1, <2>2, <2>4 DEF j
    <3>2. j \in 1..Len(t) /\ t[i] = now /\ t[j] \in Int
      BY <1>2, <2>4, <3>1
    <3>3. t[j] < u - Window
      BY <1>6, <3>1, <3>2 DEF Before
    <3> DEFINE v == t[j]
    <3>4. v \in Int /\ v < u - Window
      BY <3>2, <3>3
    <3> HIDE DEF v
    <3>5. now - v > Window
      BY <1>1, <1>5, <3>4
    <3> QED
      BY <3>2, <3>5 DEF j, v
  <2> QED
    BY <1>1, <2>1, <2>3, <2>4
<1> HIDE DEF t, l
<1>9. Limited(t, m)
  BY <1>2, <1>8 DEF Limited
<1> QED
  BY <1>7, <1>9 DEF t
(* A key whose request was counted and passes has room for it.              *)
Room(bs, k) ==
  k \in DOMAIN bs /\ bs[k].count <= Limiter!Maximum(k) =>
    /\ bs[k].expires > now
    /\ Live(served[k], Len(served[k]) + 1 - bs[k].count, bs[k].expires, Limiter!Maximum(k))

LEMMA EarlierIsInt ==
  ASSUME NEW s \in Seq(Int), NEW b \in Bucket, NEW m \in Nat
  PROVE  /\ Earlier(s, b, m) \in Int /\ Earlier(s, b, m) <= Len(s) /\ Len(s) - m <= Earlier(s, b, m)
         /\ b.count <= m => Earlier(s, b, m) = Len(s) - b.count
<1> DEFINE l == Len(s)
<1>1. l \in Nat /\ b.count \in Nat
  BY DEF Bucket
<1> HIDE DEF l
<1> QED
  BY <1>1 DEF Earlier, l

(* A bucket is counted once more, or replaced by a new one.                 *)
LEMMA OneMore ==
  ASSUME Clock, NEW s \in Seq(Int), NEW m \in Nat, NEW b \in Bucket, NEW c \in Bucket,
         \/ c.count = b.count + 1 /\ c.expires = b.expires /\ b.expires > now /\ Live(s, Earlier(s, b, m), b.expires, m)
         \/ c.count = 1 /\ c.expires = now + Window /\ Fresh(s, m)
  PROVE  /\ Live(s, Earlier(s, c, m), c.expires, m)
         /\ c.count <= m => c.expires > now /\ Live(s, Len(s) + 1 - c.count, c.expires, m)
<1> DEFINE l == Len(s)  n == Earlier(s, b, m)  o == Earlier(s, c, m)
<1>1. /\ l \in Nat /\ n \in Int /\ o \in Int /\ b.count \in Nat /\ b.expires \in Int
      /\ now \in Int /\ Window \in Nat \ {0}
  <2>1. n \in Int /\ o \in Int
    BY EarlierIsInt
  <2>2. l \in Nat
    OBVIOUS
  <2> HIDE DEF n, o, l
  <2> QED
    BY <2>1, <2>2, ApiAssumption DEF Bucket, Clock
<1>2. CASE c.count = b.count + 1 /\ c.expires = b.expires /\ b.expires > now /\ Live(s, n, b.expires, m)
  <2>1. o <= n /\ (c.count <= m => l + 1 - c.count = n)
    <3>1. b.count <= m => n = l - b.count
      BY EarlierIsInt
    <3>2. o <= n
      <4> HIDE DEF l
      <4> QED
        BY <1>1, <1>2 DEF Earlier, l
    <3> HIDE DEF l, n, o
    <3>3. c.count <= m => l + 1 - c.count = n
      BY <1>1, <1>2, <3>1
    <3> QED
      BY <3>2, <3>3
  <2> HIDE DEF n, o
  <2>2. Live(s, o, c.expires, m)
    BY <1>1, <1>2, <2>1, LiveWeakens
  <2> QED
    BY <1>2, <2>1, <2>2 DEF o
<1>3. CASE c.count = 1 /\ c.expires = now + Window /\ Fresh(s, m)
  <2>1. Live(s, l, c.expires, m) /\ c.expires \in Int /\ c.expires > now
    BY <1>1, <1>3, FreshCounts
  <2>2. o <= l
    BY EarlierIsInt
  <2> HIDE DEF o
  <2>3. Live(s, o, c.expires, m)
    BY <1>1, <2>1, <2>2, LiveWeakens
  <2>4. Len(s) + 1 - c.count = Len(s)
    <3> HIDE DEF l
    <3> QED
      BY <1>1, <1>3 DEF l
  <2> QED
    BY <2>1, <2>3, <2>4 DEF o
<1> QED
  BY <1>2, <1>3

LEMMA SweptTable ==
  ASSUME LInv
  PROVE  /\ Table(Limiter!Swept)
         /\ \A k \in DOMAIN Limiter!Swept : Limiter!Swept[k].expires > nextCleanup - Window
         /\ now >= nextCleanup => \A k \in DOMAIN Limiter!Swept : Limiter!Swept[k].expires > now
<1>1. CASE now < nextCleanup
  <2>1. Limiter!Swept = buckets
    BY <1>1 DEF Limiter!Swept
  <2> QED
    BY <1>1, <2>1 DEF LInv, Clock
<1>2. CASE ~(now < nextCleanup)
  <2> DEFINE t == Limiter!Swept
             live == {k \in DOMAIN buckets : Limiter!Lives(buckets[k])}
  <2>1. t = [k \in live |-> buckets[k]]
    BY <1>2 DEF Limiter!Swept
  <2>2. DOMAIN t = live /\ live \subseteq DOMAIN buckets /\ \A k \in live : t[k] = buckets[k] /\ buckets[k].expires > now
    BY <2>1 DEF Limiter!Lives
  <2>3. \A k \in DOMAIN buckets : k \notin live => ~(buckets[k].expires > now)
    BY DEF Limiter!Lives
  <2> HIDE DEF live, t
  <2>4. t \in [DOMAIN t -> Bucket]
    BY <2>1, <2>2 DEF LInv, Table
  <2>5. Bounded(t)
    <3>1. IsFiniteSet(live) /\ Cardinality(live) <= Cardinality(DOMAIN buckets) /\ Cardinality(live) \in Nat
      BY <2>2, FS_Subset, FS_CardinalityType DEF LInv, Table, Bounded
    <3>2. Cardinality(DOMAIN buckets) \in Nat
      BY FS_CardinalityType DEF LInv, Table, Bounded
    <3> QED
      BY <2>2, <3>1, <3>2, ApiAssumption DEF LInv, Table, Bounded
  <2>6. ASSUME NEW k \in Limiter!Keys
        PROVE  IF k \in DOMAIN t THEN Live(served[k], Earlier(served[k], t[k], Limiter!Maximum(k)), t[k].expires, Limiter!Maximum(k))
               ELSE Fresh(served[k], Limiter!Maximum(k))
    <3>1. CASE k \in DOMAIN t
      BY <2>2, <3>1 DEF LInv, Table
    <3>2. CASE k \notin DOMAIN buckets
      BY <2>2, <3>2 DEF LInv, Table
    <3>3. CASE k \in DOMAIN buckets /\ k \notin DOMAIN t
      <4> DEFINE m == Limiter!Maximum(k)  s == served[k]  b == buckets[k]  n == Earlier(s, b, m)
      <4>1. m \in Nat /\ s \in Seq(Int) /\ b \in Bucket
        BY <3>3, MaximumIsNat DEF LInv, Clock, Table
      <4>2. Live(s, n, b.expires, m)
        BY <3>3 DEF LInv, Table
      <4>3. now \in Int /\ b.expires \in Int
        BY <4>1 DEF LInv, Clock, Bucket
      <4>4. b.expires <= now
        <5>1. ~(b.expires > now)
          BY <2>2, <2>3, <3>3
        <5> HIDE DEF b
        <5> QED
          BY <4>3, <5>1
      <4> HIDE DEF m, s, b
      <4>5. n \in Int /\ Len(s) - m <= n
        BY <4>1, EarlierIsInt
      <4> HIDE DEF n
      <4>6. Fresh(s, m)
        BY <4>1, <4>2, <4>3, <4>4, <4>5, Lapses DEF LInv
      <4> QED
        BY <3>3, <4>6 DEF m, s
    <3> QED
      BY <3>1, <3>2, <3>3
  <2>7. Table(t)
    BY <2>4, <2>5, <2>6 DEF Table
  <2>8. \A k \in DOMAIN t : t[k].expires > now /\ t[k].expires > nextCleanup - Window
    BY <2>2 DEF LInv
  <2> QED
    BY <2>7, <2>8 DEF t
<1> QED
  BY <1>1, <1>2

LEMMA CountedTable ==
  ASSUME Clock, NEW bs, Table(bs), NEW k \in Limiter!Keys
  PROVE  LET t == Limiter!Counted(bs, k) IN
         /\ Table(t) /\ Room(t, k)
         /\ \A j \in Limiter!Keys : j # k => (j \in DOMAIN t <=> j \in DOMAIN bs) /\ (j \in DOMAIN bs => t[j] = bs[j])
         /\ \A j \in DOMAIN t : (j \in DOMAIN bs /\ t[j].expires = bs[j].expires) \/ t[j].expires = now + Window
<1> DEFINE t == Limiter!Counted(bs, k)
           m == Limiter!Maximum(k)
           s == served[k]
<1>1. m \in Nat /\ s \in Seq(Int) /\ now \in Int /\ Window \in Nat \ {0}
  BY MaximumIsNat, ApiAssumption DEF Clock
<1>2. CASE k \notin DOMAIN bs /\ Limiter!Full(bs)
  <2>1. t = bs
    BY <1>2 DEF Limiter!Counted
  <2> HIDE DEF t
  <2>2. Table(t) /\ Room(t, k)
    BY <1>2, <2>1 DEF Room
  <2> QED
    BY <2>1, <2>2 DEF t
<1>3. ASSUME NEW c \in Bucket, t = [j \in DOMAIN bs \cup {k} |-> IF j = k THEN c ELSE bs[j]],
             \/ /\ k \in DOMAIN bs /\ c.count = bs[k].count + 1
                /\ c.expires = bs[k].expires /\ bs[k].expires > now
             \/ /\ c.count = 1 /\ c.expires = now + Window
                /\ (k \in DOMAIN bs /\ bs[k].expires <= now) \/ (k \notin DOMAIN bs /\ ~Limiter!Full(bs))
      PROVE  /\ Table(t) /\ Room(t, k)
             /\ \A j \in Limiter!Keys : j # k => (j \in DOMAIN t <=> j \in DOMAIN bs) /\ (j \in DOMAIN bs => t[j] = bs[j])
             /\ \A j \in DOMAIN t : (j \in DOMAIN bs /\ t[j].expires = bs[j].expires) \/ t[j].expires = now + Window
  <2> HIDE DEF t, m, s
  <2>1. DOMAIN t = DOMAIN bs \cup {k} /\ t[k] = c /\ \A j \in DOMAIN bs : j # k => t[j] = bs[j]
    BY <1>3
  <2>2. t \in [DOMAIN t -> Bucket]
    BY <1>3 DEF Table
  <2>3. Bounded(t)
    <3> DEFINE S == DOMAIN bs
    <3>1. IsFiniteSet(S) /\ Cardinality(S) \in Nat /\ Cardinality(S) <= MaxBuckets /\ S \subseteq Limiter!Keys
      BY FS_CardinalityType DEF Table, Bounded
    <3>2. IsFiniteSet(S \cup {k})
      BY <3>1, FS_AddElement
    <3>3. Cardinality(S \cup {k}) <= MaxBuckets
      <4>1. CASE k \in S
        <5>1. S \cup {k} = S
          BY <4>1
        <5> QED
          BY <3>1, <5>1
      <4>2. CASE k \notin S
        <5>1. Cardinality(S \cup {k}) = Cardinality(S) + 1
          BY <3>1, <4>2, FS_AddElement
        <5>2. ~(Cardinality(S) >= MaxBuckets)
          <6>1. Limiter!Cardinality(S) = Cardinality(S)
            BY DEF Limiter!Cardinality, Cardinality
          <6> QED
            BY <1>3, <4>2, <6>1 DEF Limiter!Full
        <5> QED
          BY <3>1, <5>1, <5>2, ApiAssumption
      <4> QED
        BY <4>1, <4>2
    <3> QED
      BY <2>1, <3>1, <3>2, <3>3 DEF Bounded
  <2>4. /\ Live(s, Earlier(s, c, m), c.expires, m)
        /\ c.count <= m => c.expires > now /\ Live(s, Len(s) + 1 - c.count, c.expires, m)
    <3>1. CASE k \in DOMAIN bs
      <4> DEFINE b == bs[k]
      <4>1. b \in Bucket /\ Live(s, Earlier(s, b, m), b.expires, m)
        BY <3>1 DEF Table, m, s
      <4>2. b.expires <= now => Fresh(s, m)
        <5>1. Earlier(s, b, m) \in Int /\ Len(s) - m <= Earlier(s, b, m) /\ b.expires \in Int
          <6>1. b.expires \in Int
            BY <4>1 DEF Bucket
          <6> HIDE DEF b
          <6> QED
            BY <1>1, <4>1, <6>1, EarlierIsInt
        <5> HIDE DEF b
        <5> QED
          BY <1>1, <4>1, <5>1, Lapses
      <4>3. \/ c.count = b.count + 1 /\ c.expires = b.expires /\ b.expires > now
            \/ c.count = 1 /\ c.expires = now + Window /\ b.expires <= now
        BY <1>3, <3>1
      <4> HIDE DEF b
      <4> QED
        BY <1>1, <4>1, <4>2, <4>3, OneMore
    <3>2. CASE k \notin DOMAIN bs
      <4>1. Fresh(s, m)
        BY <3>2 DEF Table, m, s
      <4>2. c.count = 1 /\ c.expires = now + Window
        BY <1>3, <3>2
      <4> QED
        BY <1>1, <4>1, <4>2, OneMore
    <3> QED
      BY <3>1, <3>2
  <2>5. ASSUME NEW j \in Limiter!Keys
        PROVE  IF j \in DOMAIN t THEN Live(served[j], Earlier(served[j], t[j], Limiter!Maximum(j)), t[j].expires, Limiter!Maximum(j))
               ELSE Fresh(served[j], Limiter!Maximum(j))
    <3>1. CASE j = k
      BY <2>1, <2>4, <3>1 DEF m, s
    <3>2. CASE j # k
      BY <2>1, <3>2 DEF Table
    <3> QED
      BY <3>1, <3>2
  <2>6. Table(t)
    BY <2>2, <2>3, <2>5 DEF Table
  <2>7. Room(t, k)
    BY <2>1, <2>4 DEF Room, m, s
  <2>8. \A j \in DOMAIN t : (j \in DOMAIN bs /\ t[j].expires = bs[j].expires) \/ t[j].expires = now + Window
    BY <1>3, <2>1
  <2> QED
    BY <2>1, <2>6, <2>7, <2>8
<1>4. CASE k \in DOMAIN bs /\ Limiter!Lives(bs[k])
  <2> DEFINE c == [count |-> bs[k].count + 1, expires |-> bs[k].expires]
  <2>1. bs[k] \in Bucket /\ bs \in [DOMAIN bs -> Bucket]
    BY <1>4 DEF Table
  <2>2. c \in Bucket /\ c.count = bs[k].count + 1 /\ c.expires = bs[k].expires /\ bs[k].expires > now
    BY <1>4, <2>1 DEF Bucket, Limiter!Lives
  <2>3. t = [bs EXCEPT ![k].count = @ + 1]
    BY <1>4 DEF Limiter!Counted
  <2>4. [bs EXCEPT ![k].count = @ + 1] = [bs EXCEPT ![k] = c]
    <3> DEFINE b == bs[k]
    <3>1. b \in [count : Nat \ {0}, expires : Int]
      BY <2>1 DEF Bucket
    <3>2. c = [count |-> b.count + 1, expires |-> b.expires]
      OBVIOUS
    <3> HIDE DEF b, c
    <3>3. [b EXCEPT !.count = @ + 1] = c
      BY <3>1, <3>2
    <3> QED
      BY <3>3 DEF b
  <2> HIDE DEF c, t
  <2>5. t = [j \in DOMAIN bs \cup {k} |-> IF j = k THEN c ELSE bs[j]]
    BY <1>4, <2>1, <2>3, <2>4
  <2> QED
    BY <1>3, <1>4, <2>2, <2>5 DEF t
<1>5. CASE (k \in DOMAIN bs /\ ~Limiter!Lives(bs[k])) \/ (k \notin DOMAIN bs /\ ~Limiter!Full(bs))
  <2> DEFINE c == [count |-> 1, expires |-> now + Window]
  <2>1. t = [j \in DOMAIN bs \cup {k} |-> IF j = k THEN c ELSE bs[j]]
    BY <1>5 DEF Limiter!Counted
  <2>2. c \in Bucket /\ c.count = 1 /\ c.expires = now + Window
    BY <1>1 DEF Bucket
  <2>3. k \in DOMAIN bs /\ ~Limiter!Lives(bs[k]) => bs[k].expires <= now
    BY <1>1 DEF Limiter!Lives, Table, Bucket
  <2> HIDE DEF c, t
  <2> QED
    BY <1>3, <1>5, <2>1, <2>2, <2>3 DEF t
<1> QED
  BY <1>2, <1>4, <1>5
(* The table serves as well for a key that was passed on, or left alone.    *)
LEMMA KeyServed ==
  ASSUME Clock, NEW s \in Seq(Int), NEW b \in Bucket, NEW m \in Nat, b.count <= m, b.expires > now, Limited(s, m),
         Live(s, Len(s) + 1 - b.count, b.expires, m)
  PROVE  LET t == Append(s, now) IN Live(t, Earlier(t, b, m), b.expires, m) /\ Limited(t, m) /\ t \in Seq(Int)
<1> DEFINE t == Append(s, now)  l == Len(s)  x == b.count  n == l + 1 - x  e == b.expires
<1>1. l \in Nat /\ x \in Nat \ {0} /\ x <= m /\ e \in Int /\ now \in Int
  BY DEF Bucket, Clock
<1>2. t \in Seq(Int) /\ Len(t) = l + 1
  BY <1>1
<1>3. n \in Int /\ n <= l /\ l + 1 - m <= n
  <2> HIDE DEF l, x
  <2> QED
    BY <1>1
<1>4. Live(t, n, e, m) /\ Limited(t, m)
  <2>1. Live(s, n, e, m) /\ n <= Len(s) /\ Len(s) + 1 - m <= n /\ e > now
    BY <1>3
  <2> HIDE DEF n, e, l, t
  <2> QED
    BY <1>1, <1>3, <2>1, PassedOn DEF t
<1>5. Earlier(t, b, m) = n
  <2>1. Earlier(t, b, m) = Len(t) - x
    BY <1>2, EarlierIsInt
  <2> HIDE DEF t, l, x
  <2> QED
    BY <1>1, <1>2, <2>1
<1> QED
  BY <1>2, <1>4, <1>5

LEMMA HandleKeepsLInv ==
  ASSUME LInv, NEW a \in Addresses, NEW sensitive \in BOOLEAN, Limiter!Handle(a, sensitive)
  PROVE  LInv'
<1> DEFINE api == <<"api", a>>
           sen == <<"sensitive", a>>
           first == Limiter!Counted(Limiter!Swept, api)
           second == IF sensitive /\ Limiter!Passes(first, api) THEN Limiter!Counted(first, sen) ELSE first
           keys == IF sensitive THEN {api, sen} ELSE {api}
           passed == \A k \in keys : Limiter!Passes(second, k)
<1>1. /\ buckets' = second /\ now' = now
      /\ nextCleanup' = IF now < nextCleanup THEN nextCleanup ELSE now + Window
      /\ served' = IF passed
                   THEN [k \in Limiter!Keys |-> IF k \in keys THEN Append(served[k], now) ELSE served[k]]
                   ELSE served
  BY DEF Limiter!Handle
<1>2. Clock /\ now \in Int /\ nextCleanup \in Int /\ Window \in Nat \ {0} /\ nextCleanup <= now + Window
  BY ApiAssumption DEF LInv, Clock
<1>3. api \in Limiter!Keys /\ sen \in Limiter!Keys /\ api # sen /\ keys \subseteq Limiter!Keys
  BY DEF Limiter!Keys
<1>4. /\ Table(Limiter!Swept)
      /\ \A k \in DOMAIN Limiter!Swept : Limiter!Swept[k].expires > nextCleanup' - Window
  <2>1. /\ Table(Limiter!Swept)
        /\ \A k \in DOMAIN Limiter!Swept : Limiter!Swept[k].expires > nextCleanup - Window
        /\ now >= nextCleanup => \A k \in DOMAIN Limiter!Swept : Limiter!Swept[k].expires > now
    BY SweptTable
  <2>2. now >= nextCleanup => nextCleanup' - Window = now
    BY <1>1, <1>2
  <2> QED
    BY <1>1, <1>2, <2>1, <2>2
<1> HIDE DEF api, sen
<1>5. /\ Table(first) /\ Room(first, api)
      /\ \A j \in DOMAIN first :
           (j \in DOMAIN Limiter!Swept /\ first[j].expires = Limiter!Swept[j].expires) \/ first[j].expires = now + Window
  BY <1>2, <1>3, <1>4, CountedTable
<1>6. \A j \in DOMAIN first : first[j].expires > nextCleanup' - Window
  <2>1. now + Window > nextCleanup' - Window
    BY <1>1, <1>2
  <2> HIDE DEF first
  <2> QED
    BY <1>4, <1>5, <2>1
<1>7. /\ Table(second) /\ (passed => \A k \in keys : Room(second, k))
      /\ \A j \in DOMAIN second : second[j].expires > nextCleanup' - Window
  <2>1. CASE sensitive /\ Limiter!Passes(first, api)
    <3> DEFINE t == Limiter!Counted(first, sen)
    <3> HIDE DEF first
    <3>1. /\ Table(t) /\ Room(t, sen)
          /\ \A j \in Limiter!Keys : j # sen => (j \in DOMAIN t <=> j \in DOMAIN first) /\ (j \in DOMAIN first => t[j] = first[j])
          /\ \A j \in DOMAIN t : (j \in DOMAIN first /\ t[j].expires = first[j].expires) \/ t[j].expires = now + Window
      BY <1>2, <1>3, <1>5, CountedTable
    <3>2. second = t /\ keys = {api, sen}
      BY <2>1
    <3> HIDE DEF t
    <3>3. Room(t, api)
      BY <1>3, <1>5, <3>1 DEF Room
    <3>4. now + Window > nextCleanup' - Window
      BY <1>1, <1>2
    <3>5. \A j \in DOMAIN t : t[j].expires > nextCleanup' - Window
      BY <1>6, <3>1, <3>4
    <3> HIDE DEF second, keys, passed
    <3> QED
      BY <3>1, <3>2, <3>3, <3>5
  <2>2. CASE sensitive /\ ~Limiter!Passes(first, api)
    <3>1. second = first /\ ~passed
      BY <2>2
    <3> HIDE DEF first, second, keys, passed
    <3> QED
      BY <1>5, <1>6, <3>1
  <2>3. CASE ~sensitive
    <3>1. second = first /\ keys = {api}
      BY <2>3
    <3> HIDE DEF first, second, keys, passed
    <3> QED
      BY <1>5, <1>6, <3>1
  <2> QED
    BY <2>1, <2>2, <2>3
<1>8. passed => \A k \in keys : k \in DOMAIN second /\ second[k].count <= Limiter!Maximum(k)
  <2> HIDE DEF second, keys
  <2> QED
    BY DEF Limiter!Passes
<1> HIDE DEF first, second, keys, passed
<1>9. ASSUME NEW k \in Limiter!Keys
      PROVE  /\ served'[k] \in Seq(Int) /\ Limited(served'[k], Limiter!Maximum(k))
             /\ IF k \in DOMAIN second
                THEN Live(served'[k], Earlier(served'[k], second[k], Limiter!Maximum(k)), second[k].expires, Limiter!Maximum(k))
                ELSE Fresh(served'[k], Limiter!Maximum(k))
  <2> DEFINE m == Limiter!Maximum(k)  s == served[k]  b == second[k]
  <2>1. m \in Nat /\ s \in Seq(Int) /\ Limited(s, m)
    BY MaximumIsNat DEF LInv, Clock
  <2>2. CASE passed /\ k \in keys
    <3>1. /\ k \in DOMAIN second /\ b \in Bucket /\ b.count <= m /\ b.expires > now
          /\ Live(s, Len(s) + 1 - b.count, b.expires, m)
      BY <1>7, <1>8, <2>2 DEF Table, Room
    <3>2. served'[k] = Append(s, now)
      BY <1>1, <2>2
    <3> DEFINE t == Append(s, now)
    <3>3. Live(t, Earlier(t, b, m), b.expires, m) /\ Limited(t, m) /\ t \in Seq(Int)
      <4> HIDE DEF m, s, b
      <4> QED
        BY <1>2, <2>1, <3>1, KeyServed
    <3> HIDE DEF t
    <3>4. served'[k] = t
      BY <3>2 DEF t
    <3> QED
      BY <3>1, <3>3, <3>4
  <2>3. CASE ~(passed /\ k \in keys)
    <3>1. served'[k] = s
      BY <1>1, <2>3
    <3> QED
      BY <1>7, <2>1, <3>1 DEF Table
  <2> QED
    BY <2>2, <2>3
<1>10. Clock'
  <2>1. served' = [k \in Limiter!Keys |-> served'[k]]
    <3>1. CASE passed
      BY <1>1, <3>1
    <3>2. CASE ~passed
      BY <1>1, <3>2 DEF LInv, Clock
    <3> QED
      BY <3>1, <3>2
  <2>2. served' \in [Limiter!Keys -> Seq(Int)]
    BY <1>9, <2>1
  <2>3. now' \in Int /\ nextCleanup' \in Int /\ nextCleanup' <= now' + Window
    BY <1>1, <1>2
  <2> QED
    BY <2>2, <2>3 DEF Clock
<1>11. Table(buckets)'
  <2>1. second \in [DOMAIN second -> Bucket] /\ Bounded(second)
    BY <1>7 DEF Table
  <2>2. \A k \in Limiter!Keys :
          IF k \in DOMAIN buckets'
          THEN Live(served[k], Earlier(served[k], buckets[k], Limiter!Maximum(k)), buckets[k].expires, Limiter!Maximum(k))'
          ELSE Fresh(served[k], Limiter!Maximum(k))'
    BY <1>1, <1>9 DEF Live, Fresh, Earlier
  <2> QED
    BY <1>1, <2>1, <2>2 DEF Table, Bounded
<1>12. \A k \in DOMAIN buckets' : buckets'[k].expires > nextCleanup' - Window
  BY <1>1, <1>7
<1> QED
  BY <1>9, <1>10, <1>11, <1>12 DEF LInv
LEMMA LInvInit == Limiter!Init => LInv
<1> SUFFICES ASSUME Limiter!Init PROVE LInv
  OBVIOUS
<1>1. /\ now = 0 /\ nextCleanup = 0 /\ buckets = <<>> /\ served = [k \in Limiter!Keys |-> <<>>]
      /\ Window \in Nat /\ MaxBuckets \in Nat
  BY ApiAssumption DEF Limiter!Init
<1>2. Clock
  BY <1>1 DEF Clock
<1>3. DOMAIN buckets = {} /\ buckets \in [DOMAIN buckets -> Bucket]
  BY <1>1
<1>4. IsFiniteSet({}) /\ Cardinality({}) = 0
  BY FS_EmptySet
<1>5. \A k \in Limiter!Keys : Fresh(served[k], Limiter!Maximum(k)) /\ Limited(served[k], Limiter!Maximum(k))
  BY <1>1 DEF Fresh, Before, Limited
<1>6. Bounded(buckets)
  BY <1>1, <1>3, <1>4 DEF Bounded
<1>7. Table(buckets)
  BY <1>3, <1>5, <1>6 DEF Table
<1> QED
  BY <1>2, <1>3, <1>5, <1>7 DEF LInv

LEMMA TickKeepsLInv ==
  ASSUME LInv, Limiter!Tick
  PROVE  LInv'
<1>1. now' = now + 1 /\ UNCHANGED <<buckets, nextCleanup, served>>
  BY DEF Limiter!Tick
<1>2. now \in Int /\ nextCleanup \in Int /\ nextCleanup <= now + Window /\ Window \in Nat
  BY ApiAssumption DEF LInv, Clock
<1>3. Clock'
  BY <1>1, <1>2 DEF LInv, Clock
<1>4. ASSUME NEW k \in Limiter!Keys, k \in DOMAIN buckets
      PROVE  Live(served[k], Earlier(served[k], buckets[k], Limiter!Maximum(k)), buckets[k].expires, Limiter!Maximum(k))'
  <2> DEFINE n == Earlier(served[k], buckets[k], Limiter!Maximum(k))
             e == buckets[k].expires
  <2>1. Live(served[k], n, e, Limiter!Maximum(k)) /\ e \in Int
    BY <1>4 DEF LInv, Table, Bucket
  <2>2. Live(served[k], Earlier(served[k], buckets[k], Limiter!Maximum(k)), buckets[k].expires, Limiter!Maximum(k))' <=>
          /\ e <= now' + Window
          /\ Before(served[k], Len(served[k]), e) /\ Before(served[k], n, e - Window)
          /\ Before(served[k], n - Limiter!Maximum(k), e - Window - Window)
    BY <1>1 DEF Live, Earlier, Before
  <2>3. e <= now' + Window
    <3>1. e <= now + Window
      BY <2>1 DEF Live
    <3> HIDE DEF e
    <3> QED
      BY <1>1, <1>2, <2>1, <3>1
  <2> HIDE DEF n, e
  <2> QED
    BY <2>1, <2>2, <2>3 DEF Live
<1>5. ASSUME NEW k \in Limiter!Keys, k \notin DOMAIN buckets
      PROVE  Fresh(served[k], Limiter!Maximum(k))'
  <2> DEFINE s == served[k]  m == Limiter!Maximum(k)
  <2>1. s \in Seq(Int) /\ m \in Nat /\ Fresh(s, m)
    BY <1>5, MaximumIsNat DEF LInv, Clock, Table
  <2>2. Fresh(served[k], Limiter!Maximum(k))' <=>
          Before(s, Len(s), now') /\ Before(s, Len(s) - m, now' - Window)
    BY <1>1 DEF Fresh, Before
  <2>3. Before(s, Len(s), now) /\ Before(s, Len(s) - m, now - Window)
    BY <2>1 DEF Fresh
  <2> HIDE DEF s, m
  <2>4. Len(s) \in Int /\ Len(s) - m \in Int
    BY <2>1
  <2>5. /\ now' \in Int /\ now <= now' /\ now' - Window \in Int /\ now - Window \in Int
        /\ now - Window <= now' - Window
    BY <1>1, <1>2
  <2>6. Before(s, Len(s), now') /\ Before(s, Len(s) - m, now' - Window)
    BY <1>2, <2>1, <2>3, <2>4, <2>5, BeforeWeakens
  <2> QED
    BY <2>2, <2>6
<1>6. buckets \in [DOMAIN buckets -> Bucket] /\ Bounded(buckets)
  BY DEF LInv, Table
<1>7. Table(buckets)'
  BY <1>1, <1>4, <1>5, <1>6 DEF Table, Bounded
<1>8. \A k \in DOMAIN buckets : buckets[k].expires > nextCleanup - Window
  BY DEF LInv
<1>9. \A k \in Limiter!Keys : Limited(served[k], Limiter!Maximum(k))
  BY DEF LInv
<1> QED
  BY <1>1, <1>3, <1>7, <1>8, <1>9 DEF LInv

LEMMA LInvNext ==
  ASSUME LInv, [MCNext]_all
  PROVE  LInv'
<1>1. CASE UNCHANGED limiter
  <2>1. UNCHANGED <<now, buckets, nextCleanup, served>>
    BY <1>1 DEF limiter
  <2>2. Clock' /\ Table(buckets)'
    BY <2>1 DEF LInv, Clock, Table, Bounded, Live, Fresh, Earlier, Before
  <2> QED
    BY <2>1, <2>2 DEF LInv
<1>2. CASE Limiter!Next
  BY <1>2, TickKeepsLInv, HandleKeepsLInv DEF Limiter!Next
<1>3. [MCNext]_all => Limiter!Next \/ UNCHANGED limiter
  BY DEF MCNext, all, limiter
<1> QED
  BY <1>1, <1>2, <1>3

(* For any addresses, limits, window and clock: no key passes on more than  *)
(* twice its limit in any span of a window, whatever mix of requests comes, *)
(* whatever was swept and whenever the table was full; and the table never  *)
(* outgrows its limit, nor keeps what a sweep had to take                   *)
(* (security.middleware.ts).                                                *)
THEOREM RequestsAreLimited == MCSpec => []LimitsHold
<1>1. MCInit => LInv
  BY LInvInit DEF MCInit
<1>2. LInv /\ [MCNext]_all => LInv'
  BY LInvNext
<1>3. LInv => LimitsHold
  <2> SUFFICES ASSUME LInv PROVE LimitsHold
    OBVIOUS
  <2>1. Limiter!Cardinality(DOMAIN buckets) = Cardinality(DOMAIN buckets)
    BY DEF Limiter!Cardinality, Cardinality
  <2>2. Limiter!MemoryIsBounded
    BY <2>1 DEF LInv, Table, Bounded, Limiter!MemoryIsBounded
  <2>3. Limiter!ServedIsLimited
    BY DEF LInv, Limited, Limiter!ServedIsLimited
  <2> QED
    BY <2>2, <2>3 DEF LimitsHold
<1> QED
  BY <1>1, <1>2, <1>3, PTL DEF MCSpec

-----------------------------------------------------------------------------
(* The registry drafts                                                      *)

ItemRow == [state : {"absent", "draft", "published"}, publishable : BOOLEAN]

DraftRecord == [item : Items, version : Nat, group : Groups]

Refusal == [item : Items, code : {"ITEM_NOT_AVAILABLE", "NO_PUBLISHED_PASSPORT", "PASSPORT_NOT_CURRENT",
                                  "COMPLIANCE_BLOCKERS", "REFUSED_IDENTIFIER"}]

Call == [step : {"idle", "gate", "start", "lock", "check"}, under : Authorisations \cup {None}, ids : Seq(Items),
         gate : {"NONE", "ready", "refused"}, found : SUBSET Items, records : Seq(DraftRecord),
         invalid : SUBSET Refusal, at : Nat \ {0}]

WorldTypes == item \in [Items -> ItemRow] /\ versions \in [Items -> Seq(Groups)]

LockTypes ==
  /\ authorisation \subseteq Authorisations
  /\ holder \in [Models -> Calls \cup {None}] /\ sharing \in [Authorisations -> SUBSET Calls]

(* While a draft is checked, it holds the models of what it found,          *)
Holds(c) == call[c].step = "check" => \A i \in call[c].found : holder[ModelOf[i]] = c

(* from its first statement on the authorisation it works under,            *)
Shares(c) ==
  call[c].step \in {"lock", "check"} /\ call[c].under # None =>
    call[c].under \in authorisation /\ c \in sharing[call[c].under]

(* and so what it recorded stays true.                                      *)
IsCurrent(r) == r.version = Len(versions[r.item]) /\ item[r.item].state \in Drafts!Current

StaysTrue(c) ==
  \A k \in DOMAIN call[c].records :
    /\ call[c].step = "check" /\ call[c].records[k].item \in call[c].found
    /\ IsCurrent(call[c].records[k])

DInv ==
  /\ WorldTypes /\ LockTypes /\ call \in [Calls -> Call]
  /\ \A c \in Calls : Holds(c) /\ Shares(c) /\ StaysTrue(c)

LEMMA RequestIsACall ==
  ASSUME NEW step \in {"idle", "gate"}, NEW ids \in Seq(Items), NEW under \in Authorisations \cup {None},
         NEW gate \in {"NONE", "ready", "refused"}
  PROVE  LET r == Drafts!Request(step, ids, under, gate) IN
         r \in Call /\ r.step = step /\ r.records = <<>> /\ r.under = under
  BY DEF Drafts!Request, Call

LEMMA IdleIsACall == Drafts!Idle \in Call /\ Drafts!Idle.step = "idle" /\ Drafts!Idle.records = <<>>
<1> DEFINE ids == <<>>
<1>1. ids \in Seq(Items) /\ None \in Authorisations \cup {None}
  OBVIOUS
<1>2. Drafts!Idle = Drafts!Request("idle", ids, None, "NONE")
  BY DEF Drafts!Idle
<1> HIDE DEF ids
<1> QED
  BY <1>1, <1>2, RequestIsACall

LEMMA DInvInit == Drafts!Init => DInv
<1> SUFFICES ASSUME Drafts!Init PROVE DInv
  OBVIOUS
<1>1. WorldTypes /\ LockTypes
  BY DEF Drafts!Init, WorldTypes, LockTypes, ItemRow
<1>2. call \in [Calls -> Call] /\ \A c \in Calls : call[c] = Drafts!Idle
  BY IdleIsACall DEF Drafts!Init
<1>3. \A c \in Calls : call[c].step = "idle" /\ call[c].records = <<>>
  BY <1>2, IdleIsACall
<1> QED
  BY <1>1, <1>2, <1>3 DEF DInv, Holds, Shares, StaysTrue

(* The other writers change nothing of a model that is held, nor of an      *)
(* authorisation that is shared.                                            *)
LEMMA OthersKeepDInv ==
  ASSUME DInv, WorldTypes', UNCHANGED <<call, holder, sharing>>, authorisation' \subseteq authorisation,
         \A a \in authorisation : sharing[a] # {} => a \in authorisation',
         \A i \in Items : item[i].state \in Drafts!Current /\ holder[ModelOf[i]] # None =>
           versions'[i] = versions[i] /\ item'[i].state = item[i].state
  PROVE  DInv'
<1>1. LockTypes' /\ call' \in [Calls -> Call]
  BY DEF DInv, LockTypes
<1>2. \A c \in Calls : Holds(c)'
  BY DEF DInv, Holds
<1>3. \A c \in Calls : Shares(c)'
  BY DEF DInv, Shares
<1>4. ASSUME NEW c \in Calls, NEW k \in DOMAIN call[c].records
      PROVE  /\ call[c].step = "check" /\ call[c].records[k].item \in call[c].found
             /\ IsCurrent(call[c].records[k])'
  <2> DEFINE r == call[c].records[k]
  <2>1. call[c].step = "check" /\ r.item \in call[c].found /\ IsCurrent(r)
    BY <1>4 DEF DInv, StaysTrue
  <2>2. r.item \in Items
    BY <2>1 DEF DInv, Call
  <2>3. holder[ModelOf[r.item]] = c /\ c # None
    BY <2>1, ApiAssumption DEF DInv, Holds
  <2>4. versions'[r.item] = versions[r.item] /\ item'[r.item].state = item[r.item].state
    BY <2>1, <2>2, <2>3 DEF IsCurrent
  <2> QED
    BY <2>1, <2>4 DEF IsCurrent, Drafts!Current
<1>5. \A c \in Calls : StaysTrue(c)'
  BY <1>4 DEF StaysTrue
<1> QED
  BY <1>1, <1>2, <1>3, <1>5 DEF DInv

LEMMA WorldKeepsDInv ==
  ASSUME DInv,
         \/ \E i \in Items : Drafts!CreateItem(i) \/ Drafts!Expire(i) \/ \E g \in Groups : Drafts!Publish(i, g)
         \/ \E i \in Items : Drafts!Leave(i)
         \/ \E a \in Authorisations : Drafts!Revoke(a)
  PROVE  DInv'
<1>1. ASSUME NEW i \in Items, Drafts!CreateItem(i) PROVE DInv'
  <2>1. item[i].state = "absent" /\ item' = [item EXCEPT ![i].state = "draft"]
        /\ UNCHANGED <<versions, authorisation, call, holder, sharing>>
    BY <1>1 DEF Drafts!CreateItem, Drafts!rows
  <2>2. WorldTypes' /\ \A j \in Items : j # i => item'[j] = item[j]
    BY <2>1 DEF DInv, WorldTypes, ItemRow
  <2> QED
    BY <2>1, <2>2, OthersKeepDInv DEF Drafts!Current
<1>2. ASSUME NEW i \in Items, Drafts!Expire(i) PROVE DInv'
  <2>1. item' = [item EXCEPT ![i].publishable = FALSE]
        /\ UNCHANGED <<versions, authorisation, call, holder, sharing>>
    BY <1>2 DEF Drafts!Expire, Drafts!rows
  <2>2. WorldTypes' /\ \A j \in Items : item'[j].state = item[j].state
    BY <2>1 DEF DInv, WorldTypes, ItemRow
  <2> QED
    BY <2>1, <2>2, OthersKeepDInv
<1>3. ASSUME NEW i \in Items, NEW g \in Groups, Drafts!Publish(i, g) PROVE DInv'
  <2>1. /\ holder[ModelOf[i]] = None /\ item' = [item EXCEPT ![i] = [state |-> "published", publishable |-> TRUE]]
        /\ versions' = [versions EXCEPT ![i] = Append(versions[i], g)]
        /\ UNCHANGED <<authorisation, call, holder, sharing>>
    BY <1>3 DEF Drafts!Publish, Drafts!Free, Drafts!rows
  <2>2. WorldTypes' /\ \A j \in Items : j # i => item'[j] = item[j] /\ versions'[j] = versions[j]
    BY <2>1 DEF DInv, WorldTypes, ItemRow
  <2> QED
    BY <2>1, <2>2, OthersKeepDInv
<1>4. ASSUME NEW i \in Items, Drafts!Leave(i) PROVE DInv'
  <2>1. /\ holder[ModelOf[i]] = None /\ item' = [item EXCEPT ![i].state = "draft", ![i].publishable = FALSE]
        /\ UNCHANGED <<versions, authorisation, call, holder, sharing>>
    BY <1>4 DEF Drafts!Leave, Drafts!Free, Drafts!rows
  <2>2. WorldTypes' /\ \A j \in Items : j # i => item'[j] = item[j]
    BY <2>1 DEF DInv, WorldTypes, ItemRow
  <2> QED
    BY <2>1, <2>2, OthersKeepDInv
<1>5. ASSUME NEW a \in Authorisations, Drafts!Revoke(a) PROVE DInv'
  <2>1. /\ sharing[a] = {} /\ authorisation' = authorisation \ {a}
        /\ UNCHANGED <<item, versions, call, holder, sharing>>
    BY <1>5 DEF Drafts!Revoke, Drafts!rows, Drafts!world
  <2>2. WorldTypes'
    BY <2>1 DEF DInv, WorldTypes
  <2> QED
    BY <2>1, <2>2, OthersKeepDInv
<1> QED
  BY <1>1, <1>2, <1>3, <1>4, <1>5
(* A step of a call.                                                        *)
LEMMA CallStep ==
  ASSUME DInv, NEW c \in Calls, NEW r \in Call, call' = [call EXCEPT ![c] = r],
         UNCHANGED <<item, versions, authorisation>>, LockTypes',
         \A b \in Calls, m \in Models : b # c /\ holder[m] = b => holder'[m] = b,
         \A b \in Calls, a \in Authorisations : b # c /\ b \in sharing[a] => b \in sharing'[a],
         r.step = "check" => \A i \in r.found : holder'[ModelOf[i]] = c,
         r.step \in {"lock", "check"} /\ r.under # None => r.under \in authorisation /\ c \in sharing'[r.under],
         \A k \in DOMAIN r.records :
           r.step = "check" /\ r.records[k].item \in r.found /\ IsCurrent(r.records[k])
  PROVE  DInv'
<1>1. call' \in [Calls -> Call] /\ call'[c] = r /\ \A b \in Calls : b # c => call'[b] = call[b]
  BY DEF DInv
<1>2. WorldTypes'
  BY DEF DInv, WorldTypes
<1>3. \A i \in Items : ModelOf[i] \in Models
  BY ApiAssumption
<1>4. ASSUME NEW b \in Calls PROVE Holds(b)'
  <2>1. CASE b = c
    BY <1>1, <2>1 DEF Holds
  <2>2. CASE b # c
    <3>1. call'[b] = call[b] /\ call[b].found \subseteq Items
      BY <1>1, <2>2 DEF DInv, Call
    <3> QED
      BY <1>3, <2>2, <3>1 DEF DInv, Holds
  <2> QED
    BY <2>1, <2>2
<1>5. ASSUME NEW b \in Calls PROVE Shares(b)'
  <2>1. CASE b = c
    BY <1>1, <2>1 DEF Shares
  <2>2. CASE b # c
    <3>1. call'[b] = call[b] /\ call[b].under \in Authorisations \cup {None}
      BY <1>1, <2>2 DEF DInv, Call
    <3> QED
      BY <2>2, <3>1 DEF DInv, Shares
  <2> QED
    BY <2>1, <2>2
<1>6. ASSUME NEW b \in Calls PROVE StaysTrue(b)'
  <2>1. CASE b = c
    BY <1>1, <2>1 DEF StaysTrue, IsCurrent, Drafts!Current
  <2>2. CASE b # c
    BY <1>1, <2>2 DEF DInv, StaysTrue, IsCurrent, Drafts!Current
  <2> QED
    BY <2>1, <2>2
<1> QED
  BY <1>1, <1>2, <1>4, <1>5, <1>6 DEF DInv

(* Nothing is promised of a call without a transaction.                     *)
LEMMA QuietStep ==
  ASSUME DInv, NEW c \in Calls, NEW r \in Call, call' = [call EXCEPT ![c] = r],
         UNCHANGED <<item, versions, authorisation>>, LockTypes',
         \A b \in Calls, m \in Models : b # c /\ holder[m] = b => holder'[m] = b,
         \A b \in Calls, a \in Authorisations : b # c /\ b \in sharing[a] => b \in sharing'[a],
         r.step \in {"idle", "gate", "start"}, r.records = <<>>
  PROVE  DInv'
<1>1. ~(r.step = "check") /\ ~(r.step \in {"lock", "check"})
  OBVIOUS
<1>2. \A k \in DOMAIN r.records : FALSE
  OBVIOUS
<1> QED
  BY <1>1, <1>2, CallStep

(* The end of a draft lets go of what it held, and of nothing else.         *)
LEMMA EndKeepsDInv ==
  ASSUME DInv, NEW c \in Calls, Drafts!Ends(c), UNCHANGED <<item, versions, authorisation>>
  PROVE  DInv'
<1> DEFINE r == Drafts!Request("idle", call[c].ids, call[c].under, "NONE")
<1>1. /\ call' = [call EXCEPT ![c] = r]
      /\ holder' = [m \in Models |-> IF holder[m] = c THEN None ELSE holder[m]]
      /\ sharing' = [a \in Authorisations |-> sharing[a] \ {c}]
  BY DEF Drafts!Ends
<1>2. r \in Call /\ r.step = "idle" /\ r.records = <<>>
  <2>1. call[c].ids \in Seq(Items) /\ call[c].under \in Authorisations \cup {None}
    BY DEF DInv, Call
  <2> QED
    BY <2>1, RequestIsACall
<1>3. LockTypes'
  BY <1>1 DEF DInv, LockTypes
<1>4. \A b \in Calls, m \in Models : b # c /\ holder[m] = b => holder'[m] = b
  BY <1>1
<1>5. \A b \in Calls, a \in Authorisations : b # c /\ b \in sharing[a] => b \in sharing'[a]
  BY <1>1
<1> HIDE DEF r
<1> QED
  BY <1>1, <1>2, <1>3, <1>4, <1>5, QuietStep

LEMMA GateKeepsDInv ==
  ASSUME DInv, NEW c \in Calls,
         \/ \E under \in {None} \cup Preparing, operator \in BOOLEAN : Drafts!Begin(c, under, operator)
         \/ \E actor \in BOOLEAN : Drafts!Gate(c, actor)
  PROVE  DInv'
<1>1. ASSUME NEW under, NEW operator, Drafts!Begin(c, under, operator) PROVE DInv'
  <2> DEFINE gate == IF operator THEN "ready" ELSE "refused"
  <2>1. /\ \E ids \in Drafts!Requests : call' = [call EXCEPT ![c] = Drafts!Request("gate", ids, under, gate)]
        /\ under \in {None} \cup (Preparing \cap authorisation)
        /\ UNCHANGED <<item, versions, authorisation, holder, sharing>>
    BY <1>1 DEF Drafts!Begin, Drafts!world
  <2>2. gate \in {"NONE", "ready", "refused"} /\ under \in Authorisations \cup {None}
    BY <2>1 DEF DInv, LockTypes
  <2> HIDE DEF gate
  <2>3. PICK ids \in Drafts!Requests : call' = [call EXCEPT ![c] = Drafts!Request("gate", ids, under, gate)]
    BY <2>1
  <2> DEFINE r == Drafts!Request("gate", ids, under, gate)
  <2>4. ids \in Seq(Items)
    BY DEF Drafts!Requests
  <2>5. r \in Call /\ r.step = "gate" /\ r.records = <<>>
    BY <2>2, <2>4, RequestIsACall
  <2>6. LockTypes' /\ call' = [call EXCEPT ![c] = r]
    BY <2>1, <2>3 DEF DInv, LockTypes
  <2> HIDE DEF r
  <2> QED
    BY <2>1, <2>5, <2>6, QuietStep
<1>2. ASSUME NEW actor, Drafts!Gate(c, actor) PROVE DInv'
  <2> DEFINE gate == IF call[c].under # None THEN Drafts!ActorGate(c, actor) ELSE call[c].gate
             r == [call[c] EXCEPT !.gate = gate, !.step = "start"]
  <2>1. /\ call[c].step = "gate" /\ call' = [call EXCEPT ![c].gate = gate, ![c].step = "start"]
        /\ UNCHANGED <<item, versions, authorisation, holder, sharing>>
    BY <1>2 DEF Drafts!Gate, Drafts!world
  <2>2. gate \in {"NONE", "ready", "refused"} /\ call[c] \in Call
    BY DEF DInv, Call, Drafts!ActorGate
  <2>3. call[c].records = <<>>
    BY <2>1, <2>2 DEF DInv, StaysTrue, Call
  <2> HIDE DEF gate
  <2>4. call' = [call EXCEPT ![c] = r]
    BY <2>1, <2>2 DEF DInv, Call
  <2>5. r \in Call /\ r.step = "start" /\ r.records = <<>>
    BY <2>2, <2>3 DEF Call
  <2>6. LockTypes'
    BY <2>1 DEF DInv, LockTypes
  <2> HIDE DEF r
  <2> QED
    BY <2>1, <2>4, <2>5, <2>6, QuietStep
<1> QED
  BY <1>1, <1>2
LEMMA FindKeepsDInv ==
  ASSUME DInv, NEW c \in Calls, Drafts!FindItems(c)
  PROVE  DInv'
<1> DEFINE found == {i \in Items : item[i].state # "absent"} \cap {call[c].ids[k] : k \in DOMAIN call[c].ids}
           x == call[c]
           r == [x EXCEPT !.found = found, !.step = "lock"]
<1>1. /\ x.step = "start" /\ x.under \in {None} \cup authorisation
      /\ sharing' = [a \in Authorisations |-> IF a = x.under THEN sharing[a] \cup {c} ELSE sharing[a]]
      /\ call' = [call EXCEPT ![c].found = found, ![c].step = "lock"]
      /\ UNCHANGED <<item, versions, authorisation, holder>>
  BY DEF Drafts!FindItems, Drafts!world
<1>2. found \subseteq Items /\ x \in Call /\ None \notin Authorisations
  BY ApiAssumption DEF DInv
<1>3. x.records = <<>>
  BY <1>1, <1>2 DEF DInv, StaysTrue, Call
<1> HIDE DEF found
<1>4. call' = [call EXCEPT ![c] = r]
  BY <1>1, <1>2 DEF DInv, Call
<1> HIDE DEF x
<1>5. r \in Call /\ r.step = "lock" /\ r.records = <<>> /\ r.under = x.under
  BY <1>2, <1>3 DEF Call
<1>6. LockTypes'
  BY <1>1 DEF DInv, LockTypes
<1>7. /\ \A b \in Calls, a \in Authorisations : b # c /\ b \in sharing[a] => b \in sharing'[a]
      /\ \A b \in Calls, m \in Models : b # c /\ holder[m] = b => holder'[m] = b
  BY <1>1
<1>8. r.under # None => r.under \in authorisation /\ c \in sharing'[r.under]
  BY <1>1, <1>5 DEF DInv, LockTypes
<1> HIDE DEF r
<1>9. \A k \in DOMAIN r.records : FALSE
  BY <1>5
<1>10. ~(r.step = "check")
  BY <1>5
<1> QED
  BY <1>1, <1>4, <1>5, <1>6, <1>7, <1>8, <1>9, <1>10, CallStep

LEMMA LockKeepsDInv ==
  ASSUME DInv, NEW c \in Calls, Drafts!LockItems(c)
  PROVE  DInv'
<1> DEFINE x == call[c]
           r == [x EXCEPT !.step = "check"]
           wanted == {ModelOf[i] : i \in x.found}
<1>1. /\ x.step = "lock" /\ \A m \in wanted : holder[m] = None
      /\ holder' = [m \in Models |-> IF m \in wanted THEN c ELSE holder[m]]
      /\ call' = [call EXCEPT ![c].step = "check"]
      /\ UNCHANGED <<item, versions, authorisation, sharing>>
  BY DEF Drafts!LockItems, Drafts!Wanted, Drafts!world
<1>2. x \in Call /\ x.found \subseteq Items /\ None \notin Calls /\ ModelOf \in [Items -> Models]
  BY ApiAssumption DEF DInv, Call
<1>3. x.records = <<>>
  BY <1>1, <1>2 DEF DInv, StaysTrue, Call
<1>4. call' = [call EXCEPT ![c] = r]
  BY <1>1, <1>2 DEF DInv, Call
<1>5. LockTypes'
  BY <1>1 DEF DInv, LockTypes
<1>6. \A b \in Calls, m \in Models : b # c /\ holder[m] = b => holder'[m] = b
  BY <1>1, <1>2
<1>7. \A i \in x.found : holder'[ModelOf[i]] = c
  BY <1>1, <1>2
<1>8. x.under # None => x.under \in authorisation /\ c \in sharing'[x.under]
  BY <1>1 DEF DInv, Shares
<1> HIDE DEF x
<1>9. r \in Call /\ r.step = "check" /\ r.records = <<>> /\ r.under = x.under /\ r.found = x.found
  BY <1>2, <1>3 DEF Call
<1> HIDE DEF r, wanted
<1>10. \A k \in DOMAIN r.records : FALSE
  BY <1>9
<1>11. \A b \in Calls, a \in Authorisations : b # c /\ b \in sharing[a] => b \in sharing'[a]
  BY <1>1
<1>12. /\ r.step = "check" => \A i \in r.found : holder'[ModelOf[i]] = c
       /\ r.step \in {"lock", "check"} /\ r.under # None => r.under \in authorisation /\ c \in sharing'[r.under]
       /\ \A k \in DOMAIN r.records : r.step = "check" /\ r.records[k].item \in r.found /\ IsCurrent(r.records[k])
  BY <1>7, <1>8, <1>9, <1>10
<1> QED
  BY <1>1, <1>4, <1>5, <1>6, <1>9, <1>11, <1>12, CallStep

(* An item that is recorded is one that was found, is published and has a   *)
(* version.                                                                 *)
LEMMA RecordIsCurrent ==
  ASSUME DInv, NEW c \in Calls, NEW i \in Items, Drafts!Code(c, i) = "OK"
  PROVE  LET r == Drafts!Record(i) IN r \in DraftRecord /\ r.item = i /\ i \in call[c].found /\ IsCurrent(r)
<1>1. i \in call[c].found /\ versions[i] # <<>> /\ item[i].state \in Drafts!Current
  BY DEF Drafts!Code
<1>2. versions[i] \in Seq(Groups) /\ Len(versions[i]) \in 1..Len(versions[i]) /\ Len(versions[i]) \in Nat
  BY <1>1 DEF DInv, WorldTypes
<1>3. versions[i][Len(versions[i])] \in Groups
  BY <1>2
<1> QED
  BY <1>1, <1>2, <1>3 DEF Drafts!Record, DraftRecord, IsCurrent

LEMMA CheckKeepsDInv ==
  ASSUME DInv, NEW c \in Calls, Drafts!Check(c)
  PROVE  DInv'
<1> DEFINE x == call[c]
           i == x.ids[x.at]
           code == Drafts!Code(c, i)
           invalid == IF code # "OK" THEN x.invalid \cup {[item |-> i, code |-> code]} ELSE x.invalid
           records == IF code = "OK" THEN Append(x.records, Drafts!Record(i)) ELSE x.records
           r == [x EXCEPT !.at = x.at + 1, !.invalid = invalid, !.records = records]
<1>1. /\ x.step = "check" /\ x.at <= Len(x.ids)
      /\ call' = [call EXCEPT ![c].at = x.at + 1, ![c].invalid = invalid, ![c].records = records]
      /\ UNCHANGED <<item, versions, authorisation, holder, sharing>>
  BY DEF Drafts!Check, Drafts!world
<1>2. x \in Call
  BY DEF DInv
<1>3. i \in Items
  <2>1. x.ids \in Seq(Items) /\ x.at \in 1..Len(x.ids)
    BY <1>1, <1>2 DEF Call
  <2> HIDE DEF x
  <2> QED
    BY <2>1
<1>4. code \in {"OK", "ITEM_NOT_AVAILABLE", "NO_PUBLISHED_PASSPORT", "PASSPORT_NOT_CURRENT",
                "COMPLIANCE_BLOCKERS", "REFUSED_IDENTIFIER"}
  BY DEF Drafts!Code
<1>5. invalid \in SUBSET Refusal
  <2>1. x.invalid \in SUBSET Refusal
    BY <1>2 DEF Call
  <2> HIDE DEF x, i, code
  <2> QED
    BY <1>3, <1>4, <2>1 DEF Refusal
<1>6. code = "OK" =>
        Drafts!Record(i) \in DraftRecord /\ Drafts!Record(i).item = i /\ i \in x.found /\ IsCurrent(Drafts!Record(i))
  BY <1>3, RecordIsCurrent
<1>7. x.records \in Seq(DraftRecord) /\ \A k \in DOMAIN x.records : x.records[k].item \in x.found /\ IsCurrent(x.records[k])
  BY <1>2 DEF DInv, StaysTrue, Call
<1>8. records \in Seq(DraftRecord) /\ \A k \in DOMAIN records : records[k].item \in x.found /\ IsCurrent(records[k])
  <2>1. CASE code = "OK"
    <3> DEFINE s == x.records  e == Drafts!Record(i)  t == Append(s, e)
    <3>1. s \in Seq(DraftRecord) /\ e \in DraftRecord
      BY <1>6, <1>7, <2>1
    <3> HIDE DEF s, e
    <3>2. /\ t \in Seq(DraftRecord) /\ DOMAIN t = DOMAIN s \cup {Len(s) + 1} /\ t[Len(s) + 1] = e
          /\ \A k \in DOMAIN s : t[k] = s[k]
      BY <3>1
    <3>3. records = t
      BY <2>1 DEF s, e
    <3> HIDE DEF t
    <3>4. /\ e.item \in x.found /\ IsCurrent(e)
          /\ \A k \in DOMAIN s : s[k].item \in x.found /\ IsCurrent(s[k])
      BY <1>6, <1>7, <2>1 DEF s, e
    <3> HIDE DEF records, x
    <3> QED
      BY <3>2, <3>3, <3>4
  <2>2. CASE code # "OK"
    BY <1>7, <2>2
  <2> QED
    BY <2>1, <2>2
<1> HIDE DEF invalid, records, code, i
<1>9. call' = [call EXCEPT ![c] = r]
  BY <1>1, <1>2 DEF DInv, Call
<1>10. /\ x.step = "check" => \A j \in x.found : holder[ModelOf[j]] = c
       /\ x.under # None => x.under \in authorisation /\ c \in sharing[x.under]
  BY <1>1 DEF DInv, Holds, Shares
<1> HIDE DEF x
<1>11. x.at \in Nat \ {0} /\ x.at + 1 \in Nat \ {0}
  BY <1>2 DEF Call
<1>12. r \in Call /\ r.step = x.step /\ r.under = x.under /\ r.found = x.found /\ r.records = records
  BY <1>2, <1>5, <1>8, <1>11 DEF Call
<1> HIDE DEF r
<1>13. LockTypes'
  BY <1>1 DEF DInv, LockTypes
<1>14. /\ \A b \in Calls, m \in Models : b # c /\ holder[m] = b => holder'[m] = b
       /\ \A b \in Calls, a \in Authorisations : b # c /\ b \in sharing[a] => b \in sharing'[a]
  BY <1>1
<1>15. /\ r.step = "check" => \A j \in r.found : holder'[ModelOf[j]] = c
       /\ r.step \in {"lock", "check"} /\ r.under # None => r.under \in authorisation /\ c \in sharing'[r.under]
       /\ \A k \in DOMAIN r.records : r.step = "check" /\ r.records[k].item \in r.found /\ IsCurrent(r.records[k])
  BY <1>1, <1>8, <1>10, <1>12
<1> QED
  BY <1>1, <1>9, <1>12, <1>13, <1>14, <1>15, CallStep
LEMMA DInvNext ==
  ASSUME DInv, [MCNext]_all
  PROVE  DInv'
<1>1. CASE UNCHANGED drafts
  <2>1. UNCHANGED <<item, versions, authorisation, call, holder, sharing>>
    BY <1>1 DEF drafts
  <2>2. WorldTypes' /\ LockTypes'
    BY <2>1 DEF DInv, WorldTypes, LockTypes
  <2> QED
    BY <2>1, <2>2 DEF DInv, Holds, Shares, StaysTrue, IsCurrent, Drafts!Current
<1>2. CASE Drafts!Next
  <2>1. ASSUME NEW c \in Calls, Drafts!Reject(c) \/ Drafts!Store(c) \/ Drafts!Rollback(c) PROVE DInv'
    <3>1. Drafts!Ends(c) /\ UNCHANGED <<item, versions, authorisation>>
      BY <2>1 DEF Drafts!Reject, Drafts!Store, Drafts!Rollback, Drafts!world
    <3> QED
      BY <3>1, EndKeepsDInv
  <2>2. ASSUME NEW c \in Calls,
               \/ \E under \in {None} \cup Preparing, operator \in BOOLEAN : Drafts!Begin(c, under, operator)
               \/ \E actor \in BOOLEAN : Drafts!Gate(c, actor)
               \/ Drafts!FindItems(c) \/ Drafts!LockItems(c) \/ Drafts!Check(c)
        PROVE  DInv'
    BY <2>2, GateKeepsDInv, FindKeepsDInv, LockKeepsDInv, CheckKeepsDInv
  <2> QED
    BY <1>2, <2>1, <2>2, WorldKeepsDInv DEF Drafts!Next
<1>3. [MCNext]_all => Drafts!Next \/ UNCHANGED drafts
  BY DEF MCNext, all, drafts
<1> QED
  BY <1>1, <1>2, <1>3

(* A draft is only ever stored by the call it is of.                        *)
LEMMA StoringIsCurrent ==
  ASSUME DInv, [MCNext]_all, NEW b \in Calls, NEW s \in Drafts!Of(b)' \ Drafts!Of(b)
  PROVE  /\ s.version = Len(versions[s.item]) /\ item[s.item].state \in Drafts!Current
         /\ call[b].under # None => call[b].under \in authorisation
<1>1. submissions' # submissions
  BY DEF Drafts!Of
<1>2. PICK c \in Calls : Drafts!Store(c)
  <2>1. [MCNext]_all => Drafts!Next \/ UNCHANGED submissions
    BY DEF MCNext, all, drafts
  <2>2. Drafts!Next
    BY <1>1, <2>1
  <2>3. ASSUME NEW i \in Items PROVE
          /\ ~Drafts!CreateItem(i) /\ ~Drafts!Expire(i)
          /\ \A g \in Groups : ~Drafts!Publish(i, g)
          /\ ~Drafts!Leave(i)
    BY <1>1 DEF Drafts!CreateItem, Drafts!Expire, Drafts!Publish, Drafts!Leave, Drafts!rows
  <2>4. \A a \in Authorisations : ~Drafts!Revoke(a)
    BY <1>1 DEF Drafts!Revoke, Drafts!rows
  <2>5. ASSUME NEW c \in Calls PROVE
          /\ \A under, operator : ~Drafts!Begin(c, under, operator)
          /\ \A actor : ~Drafts!Gate(c, actor)
          /\ ~Drafts!FindItems(c) /\ ~Drafts!LockItems(c) /\ ~Drafts!Check(c) /\ ~Drafts!Reject(c) /\ ~Drafts!Rollback(c)
    BY <1>1 DEF Drafts!Begin, Drafts!Gate, Drafts!FindItems, Drafts!LockItems, Drafts!Check, Drafts!Reject,
                Drafts!Rollback, Drafts!rows
  <2> QED
    BY <2>2, <2>3, <2>4, <2>5 DEF Drafts!Next
<1>3. submissions' = submissions \cup Drafts!Rows(c) /\ Drafts!Checked(c)
  BY <1>2 DEF Drafts!Store
<1>4. s \in Drafts!Rows(c) /\ s.correlationId = b
  BY <1>3 DEF Drafts!Of
<1>5. PICK k \in DOMAIN call[c].records :
        /\ s.correlationId = c /\ s.item = call[c].records[k].item /\ s.version = call[c].records[k].version
  BY <1>4 DEF Drafts!Rows
<1>6. IsCurrent(call[c].records[k]) /\ Shares(c) /\ call[c].step = "check"
  BY <1>3, <1>5 DEF DInv, StaysTrue, Drafts!Checked
<1> QED
  BY <1>4, <1>5, <1>6 DEF IsCurrent, Shares

(* For any items, models, calls and authorisations: a draft repeats the     *)
(* versions that are current when it is stored, however long ago each was   *)
(* checked, and a provider's is stored while the authorisation it was begun *)
(* under stands (registry-preparation.service.ts).                          *)
THEOREM DraftsRepeatWhatIs == MCSpec => DraftsAreCurrent
<1>1. MCInit => DInv
  BY DInvInit DEF MCInit
<1>2. DInv /\ [MCNext]_all => DInv'
  BY DInvNext
<1>3. DInv /\ [MCNext]_all =>
        [\A c \in Calls : \A s \in Drafts!Of(c)' \ Drafts!Of(c) :
           /\ s.version = Len(versions[s.item]) /\ item[s.item].state \in Drafts!Current
           /\ call[c].under # None => call[c].under \in authorisation]_(Drafts!vars)
  BY StoringIsCurrent
<1> QED
  BY <1>1, <1>2, <1>3, PTL DEF MCSpec, DraftsAreCurrent, Drafts!DraftsAreCurrent

-----------------------------------------------------------------------------
(* The files of a draft                                                     *)

(* R orders S, and x comes after RankIn(S, R, x) of it.                     *)
Orders(S, R) ==
  \A x, y \in S :
    /\ <<x, y>> \in R => <<y, x>> \notin R
    /\ x # y => <<x, y>> \in R \/ <<y, x>> \in R
    /\ \A z \in S : <<x, y>> \in R /\ <<y, z>> \in R => <<x, z>> \in R

RankIn(S, R, x) == Cardinality({y \in S : <<y, x>> \in R})

(* The ranks in a finite set grow with the order and are 0, 1 and so on.    *)
LEMMA RanksCount ==
  ASSUME NEW S, NEW R, IsFiniteSet(S), Orders(S, R)
  PROVE  /\ Cardinality(S) \in Nat
         /\ \A x \in S : RankIn(S, R, x) \in 0..(Cardinality(S) - 1)
         /\ \A x, y \in S : <<x, y>> \in R => RankIn(S, R, x) < RankIn(S, R, y)
         /\ \A i \in 0..(Cardinality(S) - 1) : \E x \in S : RankIn(S, R, x) = i
<1> DEFINE below(x) == {y \in S : <<y, x>> \in R}
           n == Cardinality(S)
           rank(x) == Cardinality(below(x))
<1>1. n \in Nat
  BY FS_CardinalityType
<1>2. \A x \in S : below(x) \in SUBSET S /\ x \notin below(x)
  BY DEF Orders
<1>3. \A x \in S : IsFiniteSet(below(x)) /\ rank(x) \in Nat /\ rank(x) <= n /\ rank(x) # n
  <2> SUFFICES ASSUME NEW x \in S PROVE IsFiniteSet(below(x)) /\ rank(x) \in Nat /\ rank(x) <= n /\ rank(x) # n
    OBVIOUS
  <2> HIDE DEF below
  <2>1. IsFiniteSet(below(x)) /\ rank(x) <= n /\ (n = rank(x) => S = below(x))
    BY <1>2, FS_Subset
  <2>2. rank(x) \in Nat
    BY <2>1, FS_CardinalityType
  <2> QED
    BY <1>2, <2>1, <2>2
<1>4. ASSUME NEW x \in S, NEW y \in S, <<x, y>> \in R PROVE rank(x) < rank(y)
  <2>1. below(x) \in SUBSET below(y) /\ x \in below(y) /\ x \notin below(x)
    BY <1>4 DEF Orders
  <2> HIDE DEF below
  <2>2. rank(x) <= rank(y) /\ (rank(y) = rank(x) => below(y) = below(x))
    BY <1>3, <2>1, FS_Subset
  <2> QED
    BY <1>3, <2>1, <2>2
<1> HIDE DEF below, rank
<1>5. \A x \in S : rank(x) \in 0..(n - 1)
  BY <1>1, <1>3
<1>6. \A i \in 0..(n - 1) : \E x \in S : rank(x) = i
  <2> DEFINE f == [x \in S |-> rank(x)]
             T == 0..(n - 1)
  <2>1. \A x, y \in S : rank(x) = rank(y) => x = y
    <3> SUFFICES ASSUME NEW x \in S, NEW y \in S, x # y PROVE rank(x) # rank(y)
      OBVIOUS
    <3>1. <<x, y>> \in R \/ <<y, x>> \in R
      BY DEF Orders
    <3>2. rank(x) < rank(y) \/ rank(y) < rank(x)
      BY <1>4, <3>1
    <3>3. rank(x) \in Nat /\ rank(y) \in Nat
      BY <1>3
    <3> QED
      BY <3>2, <3>3
  <2>2. f \in Injection(S, T)
    BY <1>5, <2>1 DEF Injection, IsInjective
  <2>3. IsFiniteSet(T) /\ Cardinality(T) = n
    <3>1. IsFiniteSet(T) /\ Cardinality(T) = IF 0 > n - 1 THEN 0 ELSE n - 1 - 0 + 1
      BY <1>1, FS_Interval
    <3> HIDE DEF T, n
    <3> QED
      BY <1>1, <3>1
  <2> HIDE DEF f, T
  <2>4. f \in Surjection(S, T)
    BY <2>2, <2>3, FS_Injection
  <2> USE DEF f, T
  <2> QED
    BY <2>4 DEF Surjection
<1> QED
  BY <1>1, <1>4, <1>5, <1>6 DEF below, rank, RankIn

(* Multiples of m are m apart, and the remainder of r is what is above the  *)
(* last of them.                                                            *)
LEMMA Remainders ==
  ASSUME NEW m \in Nat \ {0}
  PROVE  /\ \A r \in Nat : r % m \in 0..(m - 1) /\ r - (r % m) \in Nat /\ (r - (r % m)) % m = 0
         /\ \A a, b \in Nat : a % m = 0 /\ b % m = 0 /\ a < b => a + m <= b
         /\ \A a, r \in Nat : a % m = 0 /\ a <= r /\ r < a + m => r % m = r - a
<1>1. ASSUME NEW r \in Nat
      PROVE  r \div m \in Nat /\ r % m \in 0..(m - 1) /\ r = m * (r \div m) + (r % m)
  <2>1. r \div m \in Int
    OBVIOUS
  <2>2. r % m \in 0..(m - 1)
    OBVIOUS
  <2>3. r = m * (r \div m) + (r % m)
    OBVIOUS
  <2>4. r \div m >= 0
    OBVIOUS
  <2> QED
    BY <2>1, <2>2, <2>3, <2>4
<1>2. ASSUME NEW q \in Nat PROVE (m * q) % m = 0
  OBVIOUS
<1>3. ASSUME NEW p \in Nat, NEW q \in Nat, p < q PROVE m * p + m <= m * q
  <2>1. PICK d \in Nat : q = p + 1 + d
    <3>1. q - p - 1 \in Nat /\ q = p + 1 + (q - p - 1)
      BY <1>3
    <3> QED
      BY <3>1
  <2>2. m * q = m * p + m + m * d /\ m * d >= 0
    BY <2>1
  <2> QED
    BY <2>2
<1>4. \A r \in Nat : r % m \in 0..(m - 1) /\ r - (r % m) \in Nat /\ (r - (r % m)) % m = 0
  <2> SUFFICES ASSUME NEW r \in Nat PROVE r % m \in 0..(m - 1) /\ r - (r % m) \in Nat /\ (r - (r % m)) % m = 0
    OBVIOUS
  <2> DEFINE q == r \div m  x == r % m
  <2>1. q \in Nat /\ x \in 0..(m - 1) /\ r = m * q + x /\ m * q \in Nat
    BY <1>1
  <2>2. (m * q) % m = 0
    BY <1>2, <2>1
  <2> HIDE DEF q, x
  <2>3. r - x = m * q
    BY <2>1
  <2> QED
    BY <2>1, <2>2, <2>3 DEF x
<1>5. \A a, b \in Nat : a % m = 0 /\ b % m = 0 /\ a < b => a + m <= b
  <2> SUFFICES ASSUME NEW a \in Nat, NEW b \in Nat, a % m = 0, b % m = 0, a < b PROVE a + m <= b
    OBVIOUS
  <2>1. PICK p \in Nat, q \in Nat : a = m * p /\ b = m * q
    BY <1>1
  <2>2. p < q
    <3> SUFFICES ASSUME q <= p PROVE FALSE
      BY <2>1
    <3>1. q = p \/ m * q + m <= m * p
      BY <1>3
    <3> QED
      BY <2>1, <3>1
  <2> QED
    BY <1>3, <2>1, <2>2
<1>6. \A a, r \in Nat : a % m = 0 /\ a <= r /\ r < a + m => r % m = r - a
  <2> SUFFICES ASSUME NEW a \in Nat, NEW r \in Nat, a % m = 0, a <= r, r < a + m PROVE r % m = r - a
    OBVIOUS
  <2> DEFINE x == r % m  b == r - x
  <2>1. x \in 0..(m - 1) /\ b \in Nat /\ b % m = 0
    BY <1>4
  <2> HIDE DEF x
  <2>2. r = b + x /\ b \in Nat /\ b % m = 0
    BY <2>1
  <2> HIDE DEF b
  <2>3. (a < b => a + m <= b) /\ (b < a => b + m <= a)
    BY <1>5, <2>2
  <2>4. a = b
    BY <2>1, <2>2, <2>3
  <2>5. x = r - a
    BY <2>1, <2>2, <2>4
  <2> QED
    BY <2>5 DEF x
<1> QED
  BY <1>4, <1>5, <1>6

(* The modules count with the same Cardinality.                             *)
LEMMA SameCardinality == \A S : Drafts!Cardinality(S) = Cardinality(S)
  BY DEF Drafts!Cardinality, Cardinality

(* Records of one group: their ranks grow along the sequence and are 0, 1   *)
(* and so on; the first of them is First.                                   *)
LEMMA GroupRanks ==
  ASSUME NEW rs, NEW n \in Nat, DOMAIN rs = 1..n, NEW g
  PROVE  LET G == Drafts!GroupOf(rs, g) IN
         /\ IsFiniteSet(G) /\ Cardinality(G) \in Nat /\ G \in SUBSET (1..n)
         /\ \A k \in G : Drafts!Rank(rs, k) \in 0..(Cardinality(G) - 1)
         /\ \A j, k \in G : j < k <=> Drafts!Rank(rs, j) < Drafts!Rank(rs, k)
         /\ \A i \in 0..(Cardinality(G) - 1) : \E k \in G : Drafts!Rank(rs, k) = i
         /\ G # {} => Drafts!First(rs, g) \in G /\ \A k \in G : Drafts!First(rs, g) <= k
<1> DEFINE G == Drafts!GroupOf(rs, g)
           R == {jk \in G \X G : jk[1] < jk[2]}
           rank(k) == Drafts!Rank(rs, k)
<1>1. G \in SUBSET (1..n) /\ IsFiniteSet(1..n) /\ \A k \in G : k \in Nat /\ rs[k].group = g
  BY FS_Interval DEF Drafts!GroupOf
<1>2. IsFiniteSet(G)
  BY <1>1, FS_Subset
<1>3. \A j, k \in G : <<j, k>> \in R <=> j < k
  OBVIOUS
<1>4. \A k \in G : rank(k) = RankIn(G, R, k)
  <2> SUFFICES ASSUME NEW k \in G PROVE rank(k) = RankIn(G, R, k)
    OBVIOUS
  <2>1. {j \in G : <<j, k>> \in R} = {j \in G : j < k}
    BY <1>3
  <2>2. rank(k) = Cardinality({j \in G : j < k})
    <3>1. rs[k].group = g
      BY <1>1
    <3>2. rank(k) = Drafts!Cardinality({j \in Drafts!GroupOf(rs, rs[k].group) : j < k})
      BY DEF Drafts!Rank
    <3> QED
      BY <3>1, <3>2, SameCardinality
  <2> HIDE DEF G, R, rank
  <2> QED
    BY <2>1, <2>2 DEF RankIn
<1> HIDE DEF G, R, rank
<1>5. Orders(G, R)
  <2>1. \A j, k \in G : <<j, k>> \in R <=> j < k
    BY <1>3
  <2>2. \A j \in G : j \in Nat
    BY <1>1
  <2> SUFFICES ASSUME NEW x \in G, NEW y \in G
               PROVE  /\ <<x, y>> \in R => <<y, x>> \notin R
                      /\ x # y => <<x, y>> \in R \/ <<y, x>> \in R
                      /\ \A z \in G : <<x, y>> \in R /\ <<y, z>> \in R => <<x, z>> \in R
    BY DEF Orders
  <2>3. <<x, y>> \in R => <<y, x>> \notin R
    BY <2>1, <2>2
  <2>4. x # y => <<x, y>> \in R \/ <<y, x>> \in R
    BY <2>1, <2>2
  <2>5. \A z \in G : <<x, y>> \in R /\ <<y, z>> \in R => <<x, z>> \in R
    BY <2>1, <2>2
  <2> QED
    BY <2>3, <2>4, <2>5
<1>6. /\ Cardinality(G) \in Nat
      /\ \A k \in G : rank(k) \in 0..(Cardinality(G) - 1)
      /\ \A j, k \in G : <<j, k>> \in R => rank(j) < rank(k)
      /\ \A i \in 0..(Cardinality(G) - 1) : \E k \in G : rank(k) = i
  <2>1. /\ Cardinality(G) \in Nat
        /\ \A k \in G : RankIn(G, R, k) \in 0..(Cardinality(G) - 1)
        /\ \A j, k \in G : <<j, k>> \in R => RankIn(G, R, j) < RankIn(G, R, k)
        /\ \A i \in 0..(Cardinality(G) - 1) : \E k \in G : RankIn(G, R, k) = i
    BY <1>2, <1>5, RanksCount
  <2> QED
    BY <1>4, <2>1
<1>7. ASSUME NEW j \in G, NEW k \in G PROVE j < k <=> rank(j) < rank(k)
  <2>1. j < k => rank(j) < rank(k)
    BY <1>3, <1>6
  <2>2. k < j => rank(k) < rank(j)
    BY <1>3, <1>6
  <2>3. rank(j) \in Int /\ rank(k) \in Int /\ j \in Nat /\ k \in Nat
    BY <1>1, <1>6
  <2>4. j = k => rank(j) = rank(k)
    OBVIOUS
  <2> QED
    BY <2>1, <2>2, <2>3, <2>4
<1>8. G # {} => Drafts!First(rs, g) \in G /\ \A k \in G : Drafts!First(rs, g) <= k
  <2> SUFFICES ASSUME G # {} PROVE \E k \in G : \A j \in G : k <= j
    BY DEF G, Drafts!First
  <2>1. 0 \in 0..(Cardinality(G) - 1)
    BY <1>6
  <2>2. PICK k \in G : rank(k) = 0
    BY <1>6, <2>1
  <2>3. \A j \in G : ~(j < k)
    BY <1>6, <1>7, <2>2
  <2> QED
    BY <1>1, <2>3
<1> QED
  BY <1>1, <1>2, <1>6, <1>7, <1>8 DEF G, rank

FirstOf(rs, k) == Drafts!First(rs, rs[k].group)

(* The index of the file of record k.                                       *)
FileOf(rs, k) == Drafts!Cardinality(Drafts!BegunBy(rs, k)) - 1

(* Each record is in a group, whose first record stands for it.             *)
LEMMA FirstsTellGroups ==
  ASSUME NEW rs, NEW n \in Nat, DOMAIN rs = 1..n
  PROVE  /\ \A k \in 1..n : k \in Drafts!GroupOf(rs, rs[k].group) /\ FirstOf(rs, k) \in 1..n
         /\ \A j, k \in 1..n : FirstOf(rs, j) = FirstOf(rs, k) <=> rs[j].group = rs[k].group
<1>1. ASSUME NEW k \in 1..n
      PROVE  k \in Drafts!GroupOf(rs, rs[k].group) /\ FirstOf(rs, k) \in 1..n /\ rs[FirstOf(rs, k)].group = rs[k].group
  <2> DEFINE G == Drafts!GroupOf(rs, rs[k].group)
  <2>1. k \in G
    BY DEF Drafts!GroupOf
  <2>2. G \in SUBSET (1..n) /\ (G # {} => Drafts!First(rs, rs[k].group) \in G)
    BY GroupRanks
  <2>3. FirstOf(rs, k) \in G
    BY <2>1, <2>2 DEF FirstOf
  <2>4. rs[FirstOf(rs, k)].group = rs[k].group
    BY <2>3 DEF Drafts!GroupOf
  <2> QED
    BY <2>1, <2>2, <2>3, <2>4
<1>2. \A j, k \in 1..n : rs[j].group = rs[k].group => FirstOf(rs, j) = FirstOf(rs, k)
  BY DEF FirstOf
<1> QED
  BY <1>1, <1>2

(* The records that begin files are numbered through.                       *)
LEMMA FilesCount ==
  ASSUME NEW rs, NEW n \in Nat, DOMAIN rs = 1..n
  PROVE  LET B == Drafts!Begins(rs) IN
         /\ B \in SUBSET (1..n) /\ Cardinality(B) \in Nat
         /\ \A s \in B : FileOf(rs, s) \in 0..(Cardinality(B) - 1)
         /\ \A i \in 0..(Cardinality(B) - 1) : \E s \in B : FileOf(rs, s) = i
         /\ \A s, t \in B : FileOf(rs, s) = FileOf(rs, t) => s = t
<1> DEFINE B == Drafts!Begins(rs)
           Precedes(j, k) == FirstOf(rs, j) < FirstOf(rs, k) \/ (rs[j].group = rs[k].group /\ j < k)
           R == {jk \in B \X B : Precedes(jk[1], jk[2])}
           at(k) == FileOf(rs, k)
<1>1. B \in SUBSET (1..n) /\ IsFiniteSet(1..n)
  BY FS_Interval DEF Drafts!Begins
<1>2. IsFiniteSet(B)
  BY <1>1, FS_Subset
<1>3. \A k \in B : k \in Nat /\ FirstOf(rs, k) \in Nat
  BY <1>1, FirstsTellGroups
<1>4. \A j, k \in B : FirstOf(rs, j) = FirstOf(rs, k) <=> rs[j].group = rs[k].group
  BY <1>1, FirstsTellGroups
<1>5. \A j, k \in B : <<j, k>> \in R <=> Precedes(j, k)
  OBVIOUS
<1>6. ASSUME NEW k \in B PROVE at(k) = RankIn(B, R, k)
  <2> DEFINE S == {j \in B : <<j, k>> \in R}
  <2>1. Drafts!BegunBy(rs, k) = S \cup {k}
    <3>1. \A j : j \in Drafts!BegunBy(rs, k) <=>
            j \in B /\ (FirstOf(rs, j) < FirstOf(rs, k) \/ (rs[j].group = rs[k].group /\ j <= k))
      <4>1. Drafts!BegunBy(rs, k) =
              {j \in B : FirstOf(rs, j) < FirstOf(rs, k) \/ (rs[j].group = rs[k].group /\ j <= k)}
        BY DEF Drafts!BegunBy, FirstOf
      <4> HIDE DEF B
      <4> QED
        BY <4>1
    <3> HIDE DEF B, R
    <3>2. \A j \in B : j <= k <=> j < k \/ j = k
      BY <1>3
    <3> QED
      BY <1>5, <3>1, <3>2
  <2>2. S \in SUBSET B /\ k \notin S
    BY <1>3, <1>5
  <2> HIDE DEF S, B, R
  <2>3. IsFiniteSet(S)
    BY <1>2, <2>2, FS_Subset
  <2>4. Cardinality(S) \in Nat /\ Cardinality(S \cup {k}) = Cardinality(S) + 1
    BY <2>2, <2>3, FS_CardinalityType, FS_AddElement
  <2>5. at(k) = Cardinality(S \cup {k}) - 1
    BY <2>1, SameCardinality DEF FileOf
  <2> QED
    BY <2>4, <2>5 DEF S, RankIn
<1>7. Orders(B, R)
  <2> HIDE DEF B, R
  <2> SUFFICES ASSUME NEW x \in B, NEW y \in B
               PROVE  /\ <<x, y>> \in R => <<y, x>> \notin R
                      /\ x # y => <<x, y>> \in R \/ <<y, x>> \in R
                      /\ \A z \in B : <<x, y>> \in R /\ <<y, z>> \in R => <<x, z>> \in R
    BY DEF Orders
  <2>1. <<x, y>> \in R => <<y, x>> \notin R
    BY <1>3, <1>4, <1>5
  <2>2. x # y => <<x, y>> \in R \/ <<y, x>> \in R
    <3>1. /\ <<x, y>> \in R <=> Precedes(x, y)
          /\ <<y, x>> \in R <=> Precedes(y, x)
      BY <1>5
    <3>2. /\ x \in Nat /\ y \in Nat /\ FirstOf(rs, x) \in Nat /\ FirstOf(rs, y) \in Nat
          /\ FirstOf(rs, x) = FirstOf(rs, y) => rs[x].group = rs[y].group
      BY <1>3, <1>4
    <3> QED
      BY <3>1, <3>2
  <2>3. \A z \in B : <<x, y>> \in R /\ <<y, z>> \in R => <<x, z>> \in R
    BY <1>3, <1>4, <1>5
  <2> QED
    BY <2>1, <2>2, <2>3
<1> HIDE DEF B, R, at
<1>8. /\ Cardinality(B) \in Nat
      /\ \A k \in B : at(k) \in 0..(Cardinality(B) - 1)
      /\ \A j, k \in B : <<j, k>> \in R => at(j) < at(k)
      /\ \A i \in 0..(Cardinality(B) - 1) : \E k \in B : at(k) = i
  <2>1. /\ Cardinality(B) \in Nat
        /\ \A k \in B : RankIn(B, R, k) \in 0..(Cardinality(B) - 1)
        /\ \A j, k \in B : <<j, k>> \in R => RankIn(B, R, j) < RankIn(B, R, k)
        /\ \A i \in 0..(Cardinality(B) - 1) : \E k \in B : RankIn(B, R, k) = i
    BY <1>2, <1>7, RanksCount
  <2> QED
    BY <1>6, <2>1
<1>9. ASSUME NEW s \in B, NEW t \in B, at(s) = at(t) PROVE s = t
  <2> SUFFICES ASSUME s # t PROVE FALSE
    OBVIOUS
  <2>1. <<s, t>> \in R \/ <<t, s>> \in R
    BY <1>7 DEF Orders
  <2>2. at(s) < at(t) \/ at(t) < at(s)
    BY <1>8, <2>1
  <2>3. at(s) \in Int /\ at(t) \in Int
    BY <1>8
  <2> QED
    BY <1>9, <2>2, <2>3
<1> QED
  BY <1>1, <1>8, <1>9 DEF B, at

(* What follows the beginning of a file by less than MaxBatch is in it.     *)
LEMMA FileGoesOn ==
  ASSUME NEW rs, NEW n \in Nat, DOMAIN rs = 1..n, NEW s \in Drafts!Begins(rs), NEW k \in 1..n,
         rs[k].group = rs[s].group,
         Drafts!Rank(rs, s) <= Drafts!Rank(rs, k), Drafts!Rank(rs, k) < Drafts!Rank(rs, s) + MaxBatch
  PROVE  FileOf(rs, k) = FileOf(rs, s)
<1> DEFINE g == rs[s].group
           G == Drafts!GroupOf(rs, g)
           rank(j) == Drafts!Rank(rs, j)
<1>1. s \in 1..n /\ rank(s) % MaxBatch = 0
  BY DEF Drafts!Begins
<1>2. s \in G /\ k \in G
  BY <1>1 DEF Drafts!GroupOf
<1>3. /\ G \in SUBSET (1..n) /\ Cardinality(G) \in Nat
      /\ \A j \in G : rank(j) \in 0..(Cardinality(G) - 1)
      /\ \A i, j \in G : i < j <=> rank(i) < rank(j)
  BY GroupRanks
<1>4. \A j \in G : rank(j) \in Nat /\ j \in Nat
  BY <1>3
<1>5. FirstOf(rs, k) = FirstOf(rs, s)
  BY DEF FirstOf
<1>6. ASSUME NEW j \in Drafts!Begins(rs), rs[j].group = g PROVE j <= k <=> j <= s
  <2>1. j \in G /\ rank(j) % MaxBatch = 0
    BY <1>6 DEF Drafts!Begins, Drafts!GroupOf
  <2> HIDE DEF G, rank, g
  <2>2. rank(s) < rank(j) => rank(s) + MaxBatch <= rank(j)
    BY <1>1, <1>2, <1>4, <2>1, Remainders, ApiAssumption
  <2>3. /\ s < j <=> rank(s) < rank(j)
        /\ k < j <=> rank(k) < rank(j)
    BY <1>2, <1>3, <2>1
  <2>4. rank(s) <= rank(k) /\ rank(k) < rank(s) + MaxBatch
    BY DEF rank
  <2>5. rank(s) \in Nat /\ rank(k) \in Nat /\ rank(j) \in Nat /\ s \in Nat /\ k \in Nat /\ j \in Nat /\ MaxBatch \in Nat
    BY <1>2, <1>4, <2>1, ApiAssumption
  <2> QED
    BY <2>2, <2>3, <2>4, <2>5
<1>7. Drafts!BegunBy(rs, k) = Drafts!BegunBy(rs, s)
  BY <1>5, <1>6 DEF Drafts!BegunBy, FirstOf
<1> QED
  BY <1>7 DEF FileOf

(* Every record is in a file that one of its group begins.                  *)
LEMMA FileBegins ==
  ASSUME NEW rs, NEW n \in Nat, DOMAIN rs = 1..n, NEW k \in 1..n
  PROVE  \E s \in Drafts!Begins(rs) :
           /\ rs[s].group = rs[k].group /\ FileOf(rs, s) = FileOf(rs, k)
           /\ Drafts!Rank(rs, s) <= Drafts!Rank(rs, k) /\ Drafts!Rank(rs, k) < Drafts!Rank(rs, s) + MaxBatch
           /\ Drafts!Rank(rs, k) % MaxBatch = Drafts!Rank(rs, k) - Drafts!Rank(rs, s)
<1> DEFINE g == rs[k].group
           G == Drafts!GroupOf(rs, g)
           rank(j) == Drafts!Rank(rs, j)
           x == rank(k) % MaxBatch
<1>1. k \in G
  BY DEF Drafts!GroupOf
<1>2. /\ G \in SUBSET (1..n) /\ Cardinality(G) \in Nat
      /\ \A j \in G : rank(j) \in 0..(Cardinality(G) - 1)
      /\ \A i \in 0..(Cardinality(G) - 1) : \E j \in G : rank(j) = i
  BY GroupRanks
<1> HIDE DEF rank
<1>3. rank(k) \in Nat /\ rank(k) <= Cardinality(G) - 1
  BY <1>1, <1>2
<1>4. x \in 0..(MaxBatch - 1) /\ rank(k) - x \in Nat /\ (rank(k) - x) % MaxBatch = 0
  BY <1>3, Remainders, ApiAssumption
<1> HIDE DEF x
<1>5. PICK s \in G : rank(s) = rank(k) - x
  <2>1. rank(k) - x \in 0..(Cardinality(G) - 1)
    BY <1>2, <1>3, <1>4
  <2> QED
    BY <1>2, <2>1
<1>6. s \in Drafts!Begins(rs) /\ rs[s].group = g
  BY <1>2, <1>4, <1>5 DEF Drafts!Begins, Drafts!GroupOf, rank
<1>7. rank(s) <= rank(k) /\ rank(k) < rank(s) + MaxBatch /\ x = rank(k) - rank(s)
  BY <1>3, <1>4, <1>5, ApiAssumption
<1>8. FileOf(rs, s) = FileOf(rs, k)
  BY <1>6, <1>7, FileGoesOn DEF rank
<1> QED
  BY <1>6, <1>7, <1>8 DEF rank, x

(* Files are numbered along a group.                                        *)
LEMMA FilesGrow ==
  ASSUME NEW rs, NEW n \in Nat, DOMAIN rs = 1..n, NEW j \in 1..n, NEW k \in 1..n, rs[j].group = rs[k].group, j <= k
  PROVE  FileOf(rs, j) <= FileOf(rs, k)
<1>1. Drafts!BegunBy(rs, j) \in SUBSET Drafts!BegunBy(rs, k)
  <2>1. ASSUME NEW i \in Drafts!Begins(rs), i <= j PROVE i <= k
    BY <2>1 DEF Drafts!Begins
  <2> QED
    BY <2>1 DEF Drafts!BegunBy
<1>2. Drafts!BegunBy(rs, k) \in SUBSET (1..n)
  BY DEF Drafts!BegunBy, Drafts!Begins
<1>3. IsFiniteSet(Drafts!BegunBy(rs, k))
  <2>1. IsFiniteSet(1..n)
    BY FS_Interval
  <2> QED
    BY <1>2, <2>1, FS_Subset
<1>4. IsFiniteSet(Drafts!BegunBy(rs, j)) /\ Cardinality(Drafts!BegunBy(rs, j)) <= Cardinality(Drafts!BegunBy(rs, k))
  BY <1>1, <1>3, FS_Subset
<1>5. Cardinality(Drafts!BegunBy(rs, j)) \in Nat /\ Cardinality(Drafts!BegunBy(rs, k)) \in Nat
  BY <1>3, <1>4, FS_CardinalityType
<1> QED
  BY <1>4, <1>5, SameCardinality DEF FileOf

(* A file is a run of records of one group, indexed from 0, and full unless *)
(* it is the last of its group.                                             *)
InFile(rs, s) == {k \in DOMAIN rs : FileOf(rs, k) = FileOf(rs, s)}

AFile(rs, s) ==
  LET K == InFile(rs, s) IN
  /\ Cardinality(K) \in 0..MaxBatch
  /\ \A i : i \in 0..(Cardinality(K) - 1) <=> \E k \in K : i = Drafts!Rank(rs, k) % MaxBatch
  /\ \A k \in K : rs[k].group = rs[s].group
  /\ \A j \in DOMAIN rs : rs[j].group = rs[s].group /\ FileOf(rs, s) < FileOf(rs, j) => Cardinality(K) = MaxBatch

LEMMA FileIsARun ==
  ASSUME NEW rs, NEW n \in Nat, DOMAIN rs = 1..n, NEW s \in Drafts!Begins(rs)
  PROVE  AFile(rs, s)
<1> DEFINE K == {k \in 1..n : FileOf(rs, k) = FileOf(rs, s)}
           G == Drafts!GroupOf(rs, rs[s].group)
           rank(j) == Drafts!Rank(rs, j)
           size == Cardinality(G) - rank(s)
           m == IF size < MaxBatch THEN size ELSE MaxBatch
           index(k) == rank(k) - rank(s)
<1>1. s \in 1..n /\ s \in G
  BY DEF Drafts!Begins, Drafts!GroupOf
<1>2. /\ G \in SUBSET (1..n) /\ Cardinality(G) \in Nat
      /\ \A j \in G : rank(j) \in 0..(Cardinality(G) - 1)
      /\ \A i, j \in G : i < j <=> rank(i) < rank(j)
      /\ \A i \in 0..(Cardinality(G) - 1) : \E j \in G : rank(j) = i
  BY GroupRanks
<1>3. ASSUME NEW k \in 1..n
      PROVE  k \in K <=> k \in G /\ rank(s) <= rank(k) /\ rank(k) < rank(s) + MaxBatch
  <2>1. ASSUME k \in G, rank(s) <= rank(k), rank(k) < rank(s) + MaxBatch PROVE k \in K
    <3>1. rs[k].group = rs[s].group
      BY <2>1 DEF Drafts!GroupOf
    <3> QED
      BY <2>1, <3>1, FileGoesOn
  <2>2. ASSUME k \in K PROVE k \in G /\ rank(s) <= rank(k) /\ rank(k) < rank(s) + MaxBatch
    <3>1. PICK t \in Drafts!Begins(rs) :
            /\ rs[t].group = rs[k].group /\ FileOf(rs, t) = FileOf(rs, k)
            /\ rank(t) <= rank(k) /\ rank(k) < rank(t) + MaxBatch
      BY FileBegins
    <3>2. t = s
      BY <2>2, <3>1, FilesCount
    <3> QED
      BY <3>1, <3>2 DEF Drafts!GroupOf
  <2> QED
    BY <2>1, <2>2
<1>4. \A k \in K : k \in G /\ k \in 1..n /\ rank(k) % MaxBatch = index(k)
  <2> SUFFICES ASSUME NEW k \in K PROVE k \in G /\ k \in 1..n /\ rank(k) % MaxBatch = index(k)
    OBVIOUS
  <2>1. k \in 1..n /\ k \in G /\ rank(s) <= rank(k) /\ rank(k) < rank(s) + MaxBatch
    BY <1>3
  <2>2. rank(s) \in Nat /\ rank(k) \in Nat /\ rank(s) % MaxBatch = 0
    BY <1>1, <1>2, <2>1 DEF Drafts!Begins
  <2> QED
    BY <2>1, <2>2, Remainders, ApiAssumption
<1>5. \A k \in K : rs[k].group = rs[s].group
  BY <1>4 DEF Drafts!GroupOf
<1>6. \A j \in 1..n : rs[j].group = rs[s].group /\ FileOf(rs, s) < FileOf(rs, j) =>
        j \in G /\ rank(s) + MaxBatch <= rank(j)
  <2> SUFFICES ASSUME NEW j \in 1..n, rs[j].group = rs[s].group, FileOf(rs, s) < FileOf(rs, j)
               PROVE  j \in G /\ rank(s) + MaxBatch <= rank(j)
    OBVIOUS
  <2>1. j \in G
    BY DEF Drafts!GroupOf
  <2>5. rank(s) \in Nat /\ rank(j) \in Nat /\ MaxBatch \in Nat
    BY <1>1, <1>2, <2>1, ApiAssumption
  <2> SUFFICES ASSUME rank(j) < rank(s) + MaxBatch PROVE FALSE
    BY <2>1, <2>5
  <2>2. FileOf(rs, s) # FileOf(rs, j) /\ ~(FileOf(rs, j) <= FileOf(rs, s))
    <3>1. FileOf(rs, s) \in Int
      BY FilesCount
    <3>2. FileOf(rs, j) \in Int
      BY FileBegins, FilesCount
    <3> QED
      BY <3>1, <3>2
  <2>3. rank(j) < rank(s)
    BY <1>1, <1>2, <1>3, <2>1, <2>2
  <2>4. j <= s
    BY <1>1, <1>2, <2>1, <2>3
  <2> QED
    BY <1>1, <2>2, <2>4, FilesGrow
<1> HIDE DEF K, G, rank
<1>7. rank(s) \in Nat /\ size \in Nat /\ size > 0 /\ MaxBatch \in Nat /\ MaxBatch > 0 /\ m \in 0..MaxBatch
  BY <1>1, <1>2, ApiAssumption
<1>8. \A k \in K : index(k) \in 0..(m - 1)
  <2> SUFFICES ASSUME NEW k \in K PROVE index(k) \in 0..(m - 1)
    OBVIOUS
  <2>1. rank(k) \in Nat /\ rank(k) < Cardinality(G) /\ rank(s) <= rank(k) /\ rank(k) < rank(s) + MaxBatch
    BY <1>2, <1>3, <1>4
  <2> QED
    BY <1>2, <1>7, <2>1
<1>9. \A i \in 0..(m - 1) : \E k \in K : index(k) = i
  <2> SUFFICES ASSUME NEW i \in 0..(m - 1) PROVE \E k \in K : index(k) = i
    OBVIOUS
  <2>1. rank(s) + i \in 0..(Cardinality(G) - 1) /\ i < MaxBatch
    BY <1>2, <1>7
  <2>2. PICK k \in G : rank(k) = rank(s) + i
    BY <1>2, <2>1
  <2>3. k \in K /\ index(k) = i
    BY <1>2, <1>3, <1>7, <2>1, <2>2
  <2> QED
    BY <2>3
<1>10. \A j, k \in K : index(j) = index(k) => j = k
  <2> SUFFICES ASSUME NEW j \in K, NEW k \in K, index(j) = index(k) PROVE j = k
    OBVIOUS
  <2>1. j \in G /\ k \in G /\ rank(j) \in Nat /\ rank(k) \in Nat /\ j \in Nat /\ k \in Nat
    BY <1>2, <1>4
  <2>2. rank(j) = rank(k)
    BY <1>7, <2>1
  <2> QED
    BY <1>2, <2>1, <2>2
<1>11. IsFiniteSet(K) /\ Cardinality(K) = m
  <2> DEFINE f == [k \in K |-> index(k)]
             T == 0..(m - 1)
  <2>1. f \in Bijection(K, T)
    <3>1. f \in [K -> T] /\ \A k \in K : f[k] = index(k)
      BY <1>8
    <3> HIDE DEF f, index
    <3>2. (\A j, k \in K : f[j] = f[k] => j = k) /\ \A i \in T : \E k \in K : f[k] = i
      BY <1>9, <1>10, <3>1
    <3> HIDE DEF T
    <3>3. f \in Injection(K, T)
      BY <3>1, <3>2 DEF Injection, IsInjective
    <3>4. f \in Surjection(K, T)
      BY <3>1, <3>2 DEF Surjection
    <3> QED
      BY <3>3, <3>4 DEF Bijection
  <2>2. IsFiniteSet(T) /\ Cardinality(T) = m
    <3>1. m \in Nat
      BY <1>7
    <3> HIDE DEF m
    <3>2. IsFiniteSet(T) /\ Cardinality(T) = IF 0 > m - 1 THEN 0 ELSE m - 1 - 0 + 1
      BY <3>1, FS_Interval
    <3> HIDE DEF T
    <3> QED
      BY <3>1, <3>2
  <2>3. IsFiniteSet(K)
    <3>1. K \in SUBSET (1..n) /\ IsFiniteSet(1..n)
      BY FS_Interval DEF K
    <3> QED
      BY <3>1, FS_Subset
  <2>4. ExistsBijection(K, T)
    BY <2>1 DEF ExistsBijection
  <2> HIDE DEF T
  <2> QED
    BY <2>2, <2>3, <2>4, FS_Bijection
<1>12. \A j \in 1..n : rs[j].group = rs[s].group /\ FileOf(rs, s) < FileOf(rs, j) => m = MaxBatch
  <2> SUFFICES ASSUME NEW j \in 1..n, rs[j].group = rs[s].group, FileOf(rs, s) < FileOf(rs, j) PROVE m = MaxBatch
    OBVIOUS
  <2>1. rank(j) <= Cardinality(G) - 1 /\ rank(s) + MaxBatch <= rank(j) /\ rank(j) \in Nat
    BY <1>2, <1>6
  <2> QED
    BY <1>2, <1>7, <2>1
<1>13. \A i : i \in 0..(m - 1) <=> \E k \in K : i = rank(k) % MaxBatch
  <2> HIDE DEF m, index
  <2> QED
    BY <1>4, <1>8, <1>9
<1> HIDE DEF m
<1> QED
  BY <1>5, <1>7, <1>11, <1>12, <1>13 DEF K, rank, AFile, InFile

(* What WholeOrNothing says of the rows S of a draft of ids.                *)
WholeDraft(S, ids) ==
  /\ {s.item : s \in S} = {ids[k] : k \in DOMAIN ids}
  /\ Cardinality(S) = Len(ids)
  /\ LET batches == {s.batchIndex : s \in S} IN
     /\ batches = 0..(Cardinality(batches) - 1)
     /\ \A b \in batches : LET members == {s \in S : s.batchIndex = b} IN
          /\ {s.recordIndex : s \in members} = 0..(Cardinality(members) - 1) /\ Cardinality(members) <= MaxBatch
          /\ \A s, t \in members : s.group = t.group
          /\ \A t \in S \ members, s \in members :
               s.group = t.group /\ t.batchIndex > b => Cardinality(members) = MaxBatch

(* A row of each record, numbered as the files are.                         *)
RowOfEach(row0, rs, ids, n) ==
  /\ DOMAIN rs = 1..n /\ DOMAIN ids = 1..n /\ Len(ids) = n /\ \A j, k \in 1..n : ids[j] = ids[k] => j = k
  /\ \A k \in 1..n :
       /\ row0[k].item = ids[k] /\ row0[k].group = rs[k].group
       /\ row0[k].batchIndex = FileOf(rs, k) /\ row0[k].recordIndex = Drafts!Rank(rs, k) % MaxBatch

LEMMA RowsAreWhole ==
  ASSUME NEW rs, NEW n \in Nat, NEW ids, NEW row0, RowOfEach(row0, rs, ids, n)
  PROVE  WholeDraft({row0[k] : k \in 1..n}, ids)
<1> SUFFICES ASSUME DOMAIN rs = 1..n, DOMAIN ids = 1..n, Len(ids) = n, \A j, k \in 1..n : ids[j] = ids[k] => j = k,
                    \A k \in 1..n :
                      /\ row0[k].item = ids[k] /\ row0[k].group = rs[k].group
                      /\ row0[k].batchIndex = FileOf(rs, k) /\ row0[k].recordIndex = Drafts!Rank(rs, k) % MaxBatch
             PROVE  WholeDraft({row0[k] : k \in 1..n}, ids)
  BY DEF RowOfEach
<1> DEFINE S == {row0[k] : k \in 1..n}
           B == Drafts!Begins(rs)
           batches == {s.batchIndex : s \in S}
           members(b) == {s \in S : s.batchIndex = b}
           last == Cardinality(B) - 1
<1>0. \A s \in B : AFile(rs, s)
  BY FileIsARun
<1>1. {s.item : s \in S} = {ids[k] : k \in DOMAIN ids}
  OBVIOUS
<1>2. \A j, k \in 1..n : row0[j] = row0[k] => j = k
  OBVIOUS
(* Rows of some records are as many as the records.                         *)
<1>3. ASSUME NEW K \in SUBSET (1..n)
      PROVE  Cardinality({row0[k] : k \in K}) = Cardinality(K)
  <2> DEFINE T == {row0[k] : k \in K}
             f == [k \in K |-> row0[k]]
  <2>1. IsFiniteSet(K)
    <3>1. IsFiniteSet(1..n)
      BY FS_Interval
    <3> QED
      BY <3>1, FS_Subset
  <2>2. f \in Bijection(K, T)
    <3>1. f \in [K -> T] /\ \A k \in K : f[k] = row0[k]
      OBVIOUS
    <3> HIDE DEF f
    <3>2. f \in Injection(K, T)
      BY <1>2, <3>1 DEF Injection, IsInjective
    <3>3. \A y \in T : \E k \in K : f[k] = y
      BY <3>1
    <3> HIDE DEF T
    <3>4. f \in Surjection(K, T)
      BY <3>1, <3>3 DEF Surjection
    <3> QED
      BY <3>2, <3>4 DEF Bijection
  <2>3. ExistsBijection(K, T)
    BY <2>2 DEF ExistsBijection
  <2> HIDE DEF T
  <2> QED
    BY <2>1, <2>3, FS_Bijection DEF T
<1>4. Cardinality(S) = Len(ids)
  <2>1. Cardinality(1..n) = n
    BY FS_Interval
  <2> QED
    BY <1>3, <2>1
<1>5. batches = 0..last /\ Cardinality(B) \in Nat
  <2>1. \A k \in 1..n : FileOf(rs, k) \in 0..last
    <3> SUFFICES ASSUME NEW k \in 1..n PROVE FileOf(rs, k) \in 0..last
      OBVIOUS
    <3>1. \A s \in B : FileOf(rs, s) \in 0..last
      BY FilesCount
    <3>2. PICK s \in B : FileOf(rs, s) = FileOf(rs, k)
      BY FileBegins
    <3> QED
      BY <3>1, <3>2
  <2>2. \A b \in 0..last : \E k \in 1..n : FileOf(rs, k) = b
    BY FilesCount
  <2>3. Cardinality(B) \in Nat
    BY FilesCount
  <2>4. batches = {FileOf(rs, k) : k \in 1..n}
    OBVIOUS
  <2> HIDE DEF last, batches
  <2> QED
    BY <2>1, <2>2, <2>3, <2>4
<1>6. batches = 0..(Cardinality(batches) - 1)
  <2> DEFINE T == 0..last
  <2>1. Cardinality(T) = Cardinality(B)
    <3> DEFINE m == Cardinality(B)
    <3>1. m \in Nat
      BY <1>5
    <3> HIDE DEF m
    <3>2. Cardinality(0..(m - 1)) = IF 0 > m - 1 THEN 0 ELSE m - 1 - 0 + 1
      BY <3>1, FS_Interval
    <3>3. Cardinality(0..(m - 1)) = m
      BY <3>1, <3>2
    <3> QED
      BY <3>3 DEF m
  <2> HIDE DEF batches
  <2> QED
    BY <1>5, <2>1
<1>7. ASSUME NEW b \in batches
      PROVE  /\ {s.recordIndex : s \in members(b)} = 0..(Cardinality(members(b)) - 1) /\ Cardinality(members(b)) <= MaxBatch
             /\ \A s, t \in members(b) : s.group = t.group
             /\ \A t \in S \ members(b), s \in members(b) :
                  s.group = t.group /\ t.batchIndex > b => Cardinality(members(b)) = MaxBatch
  <2>1. PICK s0 \in B : FileOf(rs, s0) = b
    <3>1. b \in 0..last
      BY <1>5
    <3>2. \A i \in 0..last : \E s \in B : FileOf(rs, s) = i
      BY FilesCount
    <3> HIDE DEF last, B, batches
    <3> QED
      BY <3>1, <3>2
  <2> DEFINE K == InFile(rs, s0)
  <2> HIDE DEF members, batches, last, S
  <2>2. /\ Cardinality(K) \in 0..MaxBatch
        /\ \A i : i \in 0..(Cardinality(K) - 1) <=> \E k \in K : i = Drafts!Rank(rs, k) % MaxBatch
        /\ \A k \in K : rs[k].group = rs[s0].group
        /\ \A j \in 1..n : rs[j].group = rs[s0].group /\ FileOf(rs, s0) < FileOf(rs, j) => Cardinality(K) = MaxBatch
    <3>1. AFile(rs, s0)
      BY <1>0
    <3> HIDE DEF B
    <3> QED
      BY <3>1 DEF AFile
  <2> USE DEF members, S
  <2>3. members(b) = {row0[k] : k \in K}
    BY <2>1 DEF InFile
  <2>5. K \in SUBSET (1..n)
    BY DEF InFile
  <2>4. Cardinality(members(b)) = Cardinality(K)
    BY <1>3, <2>3, <2>5
  <2> HIDE DEF K, members
  <2>6. {s.recordIndex : s \in members(b)} = 0..(Cardinality(K) - 1)
    <3> DEFINE I == {s.recordIndex : s \in members(b)}
               J == 0..(Cardinality(K) - 1)
    <3>1. \A i : i \in I <=> \E k \in K : i = Drafts!Rank(rs, k) % MaxBatch
      BY <2>3, <2>5
    <3>2. \A i : i \in J <=> \E k \in K : i = Drafts!Rank(rs, k) % MaxBatch
      BY <2>2
    <3> HIDE DEF I, J
    <3>3. \A i : i \in I <=> i \in J
      BY <3>1, <3>2
    <3>4. I = J
      BY <3>3
    <3> QED
      BY <3>4 DEF I, J
  <2>7. \A s \in members(b) : s.group = rs[s0].group
    BY <2>2, <2>3, <2>5
  <2>8. ASSUME NEW t \in S, NEW s \in members(b), s.group = t.group, t.batchIndex > b PROVE Cardinality(K) = MaxBatch
    <3>1. PICK j \in 1..n : t = row0[j]
      OBVIOUS
    <3>2. rs[j].group = rs[s0].group /\ FileOf(rs, j) > b
      BY <2>7, <2>8, <3>1
    <3>3. FileOf(rs, s0) < FileOf(rs, j)
      BY <2>1, <3>2
    <3> QED
      BY <2>2, <3>2, <3>3
  <2>9. Cardinality(K) <= MaxBatch
    BY <2>2, ApiAssumption
  <2> QED
    BY <2>4, <2>6, <2>7, <2>8, <2>9
<1> QED
  BY <1>1, <1>4, <1>6, <1>7 DEF WholeDraft

-----------------------------------------------------------------------------
(* What is stored of a draft                                                *)

(* A request has every item once, and is never empty while it is served.    *)
Asks(x) ==
  /\ \A j, k \in DOMAIN x.ids : x.ids[j] = x.ids[k] => j = k
  /\ x.step # "idle" => x.ids # <<>>

(* As long as nothing was refused, each item has left its record.           *)
Records(x) ==
  /\ x.at <= Len(x.ids) + 1
  /\ x.invalid = {} => Len(x.records) + 1 = x.at /\ \A k \in DOMAIN x.records : x.records[k].item = x.ids[k]

(* A call is answered when it ends and never again.                         *)
Answered(c) ==
  /\ call[c].step # "idle" \/ call[c].ids = <<>> => Drafts!Of(c) = {} /\ c \notin rejections
  /\ Drafts!Of(c) # {} => c \notin rejections /\ WholeDraft(Drafts!Of(c), call[c].ids)

WInv == DInv /\ \A c \in Calls : Asks(call[c]) /\ Records(call[c]) /\ Answered(c)

LEMMA WInvInit == Drafts!Init => WInv
<1> SUFFICES ASSUME Drafts!Init PROVE WInv
  OBVIOUS
<1>1. DInv
  BY DInvInit
<1>2. \A c \in Calls : call[c] = Drafts!Idle /\ Drafts!Of(c) = {} /\ c \notin rejections
  BY DEF Drafts!Init, Drafts!Of
<1>3. Drafts!Idle.ids = <<>> /\ Drafts!Idle.step = "idle" /\ Drafts!Idle.at = 1 /\ Drafts!Idle.records = <<>>
  BY DEF Drafts!Idle, Drafts!Request
<1>4. Asks(Drafts!Idle) /\ Records(Drafts!Idle)
  BY <1>3 DEF Asks, Records
<1> QED
  BY <1>1, <1>2, <1>4 DEF WInv, Answered

(* A step of a call answers no other.                                       *)
LEMMA AnswerStep ==
  ASSUME WInv, DInv', NEW c \in Calls, NEW r \in Call, call' = [call EXCEPT ![c] = r], Asks(r), Records(r),
         \A b \in Calls : b # c => Drafts!Of(b)' = Drafts!Of(b) /\ (b \in rejections' <=> b \in rejections),
         Answered(c)'
  PROVE  WInv'
<1>1. call'[c] = r /\ \A b \in Calls : b # c => call'[b] = call[b]
  BY DEF WInv, DInv
<1>2. ASSUME NEW b \in Calls PROVE Asks(call'[b]) /\ Records(call'[b]) /\ Answered(b)'
  <2>1. CASE b = c
    BY <1>1, <2>1
  <2>2. CASE b # c
    <3>1. call'[b] = call[b] /\ Drafts!Of(b)' = Drafts!Of(b) /\ (b \in rejections' <=> b \in rejections)
      BY <1>1, <2>2
    <3>2. Asks(call[b]) /\ Records(call[b]) /\ Answered(b)
      BY DEF WInv
    <3> QED
      BY <3>1, <3>2 DEF Answered
  <2> QED
    BY <2>1, <2>2
<1> QED
  BY <1>2 DEF WInv, Asks, Records

(* A call that is served keeps what it was asked for.                       *)
LEMMA ServedStep ==
  ASSUME WInv, DInv', NEW c \in Calls, NEW r \in Call, call' = [call EXCEPT ![c] = r],
         UNCHANGED <<submissions, rejections>>,
         call[c].step # "idle", r.ids = call[c].ids, Records(r)
  PROVE  WInv'
<1>1. Asks(call[c]) /\ Answered(c)
  BY DEF WInv
<1>2. Asks(r) /\ Drafts!Of(c) = {} /\ c \notin rejections
  BY <1>1 DEF Asks, Answered
<1>3. \A b \in Calls : Drafts!Of(b)' = Drafts!Of(b)
  BY DEF Drafts!Of
<1>4. Answered(c)'
  BY <1>2, <1>3 DEF Answered
<1> QED
  BY <1>2, <1>3, <1>4, AnswerStep

(* The end of a call: it is asked for the same, and records nothing.        *)
LEMMA EndsIsACall ==
  ASSUME WInv, NEW c \in Calls, Drafts!Ends(c)
  PROVE  \E r \in Call : /\ call' = [call EXCEPT ![c] = r] /\ Asks(r) /\ Records(r)
                         /\ r.ids = call[c].ids /\ r.step = "idle" /\ call'[c] = r
<1> DEFINE ids == call[c].ids
           under == call[c].under
           r == Drafts!Request("idle", ids, under, "NONE")
<1>1. call' = [call EXCEPT ![c] = r] /\ call'[c] = r
  BY DEF Drafts!Ends, WInv, DInv
<1>2. ids \in Seq(Items) /\ under \in Authorisations \cup {None} /\ Asks(call[c])
  BY DEF WInv, DInv, Call
<1>3. \A j, k \in DOMAIN ids : ids[j] = ids[k] => j = k
  BY <1>2 DEF Asks
<1> HIDE DEF ids, under
<1>4. /\ r.step = "idle" /\ r.ids = ids /\ r.at = 1 /\ r.records = <<>>
  BY DEF Drafts!Request
<1>5. r \in Call
  BY <1>2, RequestIsACall
<1> HIDE DEF r
<1>6. Asks(r) /\ Records(r)
  BY <1>2, <1>3, <1>4 DEF Asks, Records
<1> QED
  BY <1>1, <1>4, <1>5, <1>6 DEF ids

LEMMA BeginAsks ==
  ASSUME WInv, DInv', NEW c \in Calls, NEW under, NEW operator, Drafts!Begin(c, under, operator),
         under \in Authorisations \cup {None}
  PROVE  WInv'
<1> DEFINE gate == IF operator THEN "ready" ELSE "refused"
<1>1. /\ \E ids \in Drafts!Requests : call' = [call EXCEPT ![c] = Drafts!Request("gate", ids, under, gate)]
      /\ call[c].step = "idle" /\ call[c].ids = <<>>
      /\ UNCHANGED <<submissions, rejections>>
  BY DEF Drafts!Begin, Drafts!rows
<1>2. gate \in {"NONE", "ready", "refused"}
  OBVIOUS
<1> HIDE DEF gate
<1>3. PICK ids \in Drafts!Requests : call' = [call EXCEPT ![c] = Drafts!Request("gate", ids, under, gate)]
  BY <1>1
<1> DEFINE r == Drafts!Request("gate", ids, under, gate)
<1>4. ids \in Seq(Items) /\ ids # <<>> /\ \A j, k \in DOMAIN ids : ids[j] = ids[k] => j = k
  BY DEF Drafts!Requests
<1>5. r \in Call
  BY <1>2, <1>4, RequestIsACall
<1>6. r.step = "gate" /\ r.ids = ids /\ r.at = 1 /\ r.records = <<>>
  BY DEF Drafts!Request
<1>7. call' = [call EXCEPT ![c] = r]
  BY <1>3
<1> HIDE DEF r
<1>8. Asks(r) /\ Records(r)
  BY <1>4, <1>6 DEF Asks, Records
<1>9. Drafts!Of(c) = {} /\ c \notin rejections
  BY <1>1 DEF WInv, Answered
<1>10. \A b \in Calls : Drafts!Of(b)' = Drafts!Of(b)
  BY <1>1 DEF Drafts!Of
<1>11. Answered(c)'
  BY <1>1, <1>9, <1>10 DEF Answered
<1> QED
  BY <1>1, <1>5, <1>7, <1>8, <1>10, <1>11, AnswerStep

LEMMA WayKeepsWInv ==
  ASSUME WInv, DInv', NEW c \in Calls,
         (\E actor \in BOOLEAN : Drafts!Gate(c, actor)) \/ Drafts!FindItems(c) \/ Drafts!LockItems(c)
  PROVE  WInv'
<1> DEFINE x == call[c]
<1>1. x \in Call /\ Records(x)
  BY DEF WInv, DInv
<1>2. ASSUME NEW r \in Call, call' = [call EXCEPT ![c] = r], x.step # "idle", UNCHANGED <<submissions, rejections>>,
             r.ids = x.ids, r.at = x.at, r.records = x.records, r.invalid = x.invalid
      PROVE  WInv'
  <2>1. Records(r)
    BY <1>1, <1>2 DEF Records
  <2> QED
    BY <1>2, <2>1, ServedStep
<1>3. ASSUME NEW actor, Drafts!Gate(c, actor) PROVE WInv'
  <2> DEFINE gate == IF call[c].under # None THEN Drafts!ActorGate(c, actor) ELSE call[c].gate
             r == [x EXCEPT !.gate = gate, !.step = "start"]
  <2>1. /\ x.step = "gate" /\ call' = [call EXCEPT ![c].gate = gate, ![c].step = "start"]
        /\ UNCHANGED <<submissions, rejections>>
    BY <1>3 DEF Drafts!Gate, Drafts!rows
  <2>2. gate \in {"NONE", "ready", "refused"}
    BY <1>1 DEF Call, Drafts!ActorGate
  <2> HIDE DEF gate
  <2>3. call' = [call EXCEPT ![c] = r]
    BY <2>1, <1>1 DEF WInv, DInv, Call
  <2> HIDE DEF x
  <2>4. r \in Call /\ r.ids = x.ids /\ r.at = x.at /\ r.records = x.records /\ r.invalid = x.invalid
    BY <1>1, <2>2 DEF Call
  <2> HIDE DEF r
  <2> QED
    BY <1>2, <2>1, <2>3, <2>4
<1>4. CASE Drafts!FindItems(c)
  <2> DEFINE found == {i \in Items : item[i].state # "absent"} \cap {call[c].ids[k] : k \in DOMAIN call[c].ids}
             r == [x EXCEPT !.found = found, !.step = "lock"]
  <2>1. /\ x.step = "start" /\ call' = [call EXCEPT ![c].found = found, ![c].step = "lock"]
        /\ UNCHANGED <<submissions, rejections>>
    BY <1>4 DEF Drafts!FindItems, Drafts!rows
  <2>2. found \subseteq Items
    OBVIOUS
  <2> HIDE DEF found
  <2>3. call' = [call EXCEPT ![c] = r]
    BY <2>1, <1>1 DEF WInv, DInv, Call
  <2> HIDE DEF x
  <2>4. r \in Call /\ r.ids = x.ids /\ r.at = x.at /\ r.records = x.records /\ r.invalid = x.invalid
    BY <1>1, <2>2 DEF Call
  <2> HIDE DEF r
  <2> QED
    BY <1>2, <2>1, <2>3, <2>4
<1>5. CASE Drafts!LockItems(c)
  <2> DEFINE r == [x EXCEPT !.step = "check"]
  <2>1. /\ x.step = "lock" /\ call' = [call EXCEPT ![c].step = "check"] /\ UNCHANGED <<submissions, rejections>>
    BY <1>5 DEF Drafts!LockItems, Drafts!rows
  <2>2. call' = [call EXCEPT ![c] = r]
    BY <2>1, <1>1 DEF WInv, DInv, Call
  <2> HIDE DEF x
  <2>3. r \in Call /\ r.ids = x.ids /\ r.at = x.at /\ r.records = x.records /\ r.invalid = x.invalid
    BY <1>1 DEF Call
  <2> HIDE DEF r
  <2> QED
    BY <1>2, <2>1, <2>2, <2>3
<1> QED
  BY <1>3, <1>4, <1>5

LEMMA CheckRecords ==
  ASSUME WInv, DInv', NEW c \in Calls, Drafts!Check(c)
  PROVE  WInv'
<1> DEFINE x == call[c]
           i == x.ids[x.at]
           code == Drafts!Code(c, i)
           invalid == IF code # "OK" THEN x.invalid \cup {[item |-> i, code |-> code]} ELSE x.invalid
           records == IF code = "OK" THEN Append(x.records, Drafts!Record(i)) ELSE x.records
           r == [x EXCEPT !.at = x.at + 1, !.invalid = invalid, !.records = records]
<1>1. /\ x.step = "check" /\ x.at <= Len(x.ids)
      /\ call' = [call EXCEPT ![c].at = x.at + 1, ![c].invalid = invalid, ![c].records = records]
      /\ UNCHANGED <<submissions, rejections>>
  BY DEF Drafts!Check, Drafts!rows
<1>2. x \in Call /\ Records(x)
  BY DEF WInv, DInv
<1>3. Drafts!Record(i).item = i
  BY DEF Drafts!Record
<1>4. code # "OK" => invalid # {}
  OBVIOUS
<1>5. code = "OK" => invalid = x.invalid /\ records = Append(x.records, Drafts!Record(i))
  OBVIOUS
<1> HIDE DEF invalid, records, code
<1>6. call' = [call EXCEPT ![c] = r]
  BY <1>1, <1>2 DEF WInv, DInv, Call
<1>7. r \in Call
  BY <1>6, <1>2 DEF DInv, WInv
<1>8. r.ids = x.ids /\ r.at = x.at + 1 /\ r.invalid = invalid /\ r.records = records
  BY <1>2 DEF Call
<1>9. x.at \in Nat /\ x.ids \in Seq(Items) /\ x.records \in Seq(DraftRecord)
  BY <1>2 DEF Call
<1>10. ASSUME r.invalid = {} PROVE Len(r.records) + 1 = r.at /\ \A k \in DOMAIN r.records : r.records[k].item = r.ids[k]
  <2> DEFINE s == x.records  e == Drafts!Record(i)  n == Len(s)
  <2>1. code = "OK" /\ x.invalid = {} /\ r.records = Append(s, e)
    BY <1>4, <1>5, <1>8, <1>10
  <2>2. n + 1 = x.at /\ \A k \in DOMAIN s : s[k].item = x.ids[k]
    BY <1>2, <2>1 DEF Records
  <2>3. e.item = x.ids[x.at]
    BY <1>3
  <2> HIDE DEF s, e, i, x, r
  <2>4. s \in Seq(DraftRecord)
    BY <1>9 DEF s
  <2>5. /\ DOMAIN Append(s, e) = 1..(n + 1) /\ Len(Append(s, e)) = n + 1 /\ DOMAIN s = 1..n /\ n \in Nat
        /\ Append(s, e)[n + 1] = e /\ \A k \in 1..n : Append(s, e)[k] = s[k]
    BY <2>4
  <2> HIDE DEF n
  <2>6. \A k \in 1..(n + 1) : Append(s, e)[k].item = x.ids[k]
    <3>1. \A k \in 1..(n + 1) : k \in 1..n \/ k = n + 1
      BY <2>5
    <3> QED
      BY <2>2, <2>3, <2>5, <3>1
  <2> QED
    BY <1>8, <1>9, <2>1, <2>2, <2>5, <2>6
<1> HIDE DEF x, r
<1>11. Records(r)
  BY <1>1, <1>8, <1>9, <1>10 DEF Records
<1> QED
  BY <1>1, <1>6, <1>7, <1>8, <1>11, ServedStep DEF x

(* The end of a call that stores nothing.                                   *)
LEMMA EndKeepsWInv ==
  ASSUME WInv, DInv', NEW c \in Calls, Drafts!Ends(c), UNCHANGED submissions, call[c].step # "idle",
         rejections' = rejections \/ rejections' = rejections \cup {c}
  PROVE  WInv'
<1>1. PICK r \in Call : /\ call' = [call EXCEPT ![c] = r] /\ Asks(r) /\ Records(r)
                        /\ r.ids = call[c].ids /\ r.step = "idle" /\ call'[c] = r
  BY EndsIsACall
<1>2. Asks(call[c]) /\ Answered(c)
  BY DEF WInv
<1>3. r.ids # <<>> /\ Drafts!Of(c) = {}
  BY <1>1, <1>2 DEF Asks, Answered
<1>4. \A b \in Calls : Drafts!Of(b)' = Drafts!Of(b)
  BY DEF Drafts!Of
<1>5. Answered(c)'
  BY <1>1, <1>3, <1>4 DEF Answered
<1>6. \A b \in Calls : b # c => (b \in rejections' <=> b \in rejections)
  OBVIOUS
<1> QED
  BY <1>1, <1>4, <1>5, <1>6, AnswerStep

(* What is stored: a row for each item that was asked for.                  *)
LEMMA RowsOfAll ==
  ASSUME WInv, NEW c \in Calls, Drafts!Checked(c), call[c].invalid = {}
  PROVE  WholeDraft(Drafts!Rows(c), call[c].ids)
<1> DEFINE rs == call[c].records
           ids == call[c].ids
           n == Len(ids)
           row0 == [k \in 1..n |->
                     [correlationId |-> c, item |-> rs[k].item, version |-> rs[k].version, group |-> rs[k].group,
                      batchIndex |-> Drafts!Cardinality(Drafts!BegunBy(rs, k)) - 1,
                      recordIndex |-> Drafts!Rank(rs, k) % MaxBatch, gate |-> call[c].gate]]
<1>1. rs \in Seq(DraftRecord) /\ ids \in Seq(Items) /\ call[c].at \in Nat
  BY DEF WInv, DInv, Call
<1>2. call[c].at > n /\ call[c].at <= n + 1 /\ Len(rs) + 1 = call[c].at /\ \A k \in DOMAIN rs : rs[k].item = ids[k]
  BY DEF WInv, Records, Drafts!Checked
<1>3. \A j, k \in DOMAIN ids : ids[j] = ids[k] => j = k
  BY DEF WInv, Asks
<1> HIDE DEF ids
<1>4. Drafts!Rows(c) = {row0[k] : k \in DOMAIN rs}
  <2>1. Len(rs) = n /\ DOMAIN rs = 1..n
    BY <1>1, <1>2
  <2> HIDE DEF n
  <2>2. DOMAIN rs = 1..n
    BY <2>1
  <2> QED
    BY <2>2 DEF Drafts!Rows
<1> HIDE DEF rs
<1>5. n \in Nat /\ DOMAIN rs = 1..n /\ DOMAIN ids = 1..n
  BY <1>1, <1>2
<1>6. \A k \in 1..n :
        /\ row0[k].item = ids[k] /\ row0[k].group = rs[k].group
        /\ row0[k].batchIndex = FileOf(rs, k) /\ row0[k].recordIndex = Drafts!Rank(rs, k) % MaxBatch
  BY <1>2, <1>5 DEF FileOf
<1> HIDE DEF row0
<1>7. Len(ids) = n /\ \A j, k \in 1..n : ids[j] = ids[k] => j = k
  BY <1>3, <1>5
<1> HIDE DEF n
<1>8. RowOfEach(row0, rs, ids, n)
  BY <1>5, <1>6, <1>7 DEF RowOfEach
<1>9. WholeDraft({row0[k] : k \in 1..n}, ids)
  BY <1>5, <1>8, RowsAreWhole
<1> QED
  BY <1>4, <1>5, <1>9 DEF ids

LEMMA StoreKeepsWInv ==
  ASSUME WInv, DInv', NEW c \in Calls, Drafts!Store(c)
  PROVE  WInv'
<1>1. /\ Drafts!Checked(c) /\ call[c].invalid = {} /\ Drafts!Ends(c)
      /\ submissions' = submissions \cup Drafts!Rows(c) /\ rejections' = rejections
  BY DEF Drafts!Store
<1>2. PICK r \in Call : /\ call' = [call EXCEPT ![c] = r] /\ Asks(r) /\ Records(r)
                        /\ r.ids = call[c].ids /\ r.step = "idle" /\ call'[c] = r
  BY <1>1, EndsIsACall
<1>3. call[c].step # "idle" /\ Asks(call[c]) /\ Answered(c)
  BY <1>1 DEF WInv, Drafts!Checked
<1>4. r.ids # <<>> /\ Drafts!Of(c) = {} /\ c \notin rejections
  BY <1>2, <1>3 DEF Asks, Answered
<1>5. \A s \in Drafts!Rows(c) : s.correlationId = c
  BY DEF Drafts!Rows
<1>6. Drafts!Of(c)' = Drafts!Rows(c) /\ \A b \in Calls : b # c => Drafts!Of(b)' = Drafts!Of(b)
  BY <1>1, <1>4, <1>5 DEF Drafts!Of
<1>7. WholeDraft(Drafts!Rows(c), r.ids)
  BY <1>1, <1>2, RowsOfAll
<1>8. Answered(c)'
  BY <1>1, <1>2, <1>4, <1>6, <1>7 DEF Answered
<1> QED
  BY <1>1, <1>2, <1>6, <1>8, AnswerStep

LEMMA WInvNext ==
  ASSUME WInv, [MCNext]_all
  PROVE  WInv'
<1>1. DInv'
  BY DInvNext DEF WInv
<1>2. ASSUME UNCHANGED <<call, submissions, rejections>> PROVE WInv'
  BY <1>1, <1>2 DEF WInv, Answered, Drafts!Of
<1>3. CASE UNCHANGED drafts
  BY <1>2, <1>3 DEF drafts
<1>4. CASE Drafts!Next
  <2>1. ASSUME NEW i \in Items,
               \/ Drafts!CreateItem(i) \/ Drafts!Expire(i) \/ \E g \in Groups : Drafts!Publish(i, g)
               \/ Drafts!Leave(i)
        PROVE  WInv'
    BY <1>2, <2>1 DEF Drafts!CreateItem, Drafts!Expire, Drafts!Publish, Drafts!Leave, Drafts!rows
  <2>2. ASSUME NEW a \in Authorisations, Drafts!Revoke(a) PROVE WInv'
    BY <1>2, <2>2 DEF Drafts!Revoke, Drafts!rows
  <2>3. ASSUME NEW c \in Calls, NEW under \in {None} \cup Preparing, NEW operator \in BOOLEAN,
               Drafts!Begin(c, under, operator)
        PROVE  WInv'
    <3>1. under \in Authorisations \cup {None}
      BY <2>3 DEF Drafts!Begin, WInv, DInv, LockTypes
    <3> QED
      BY <1>1, <2>3, <3>1, BeginAsks
  <2>4. ASSUME NEW c \in Calls, (\E actor \in BOOLEAN : Drafts!Gate(c, actor)) \/ Drafts!FindItems(c) \/ Drafts!LockItems(c)
        PROVE  WInv'
    BY <1>1, <2>4, WayKeepsWInv
  <2>5. ASSUME NEW c \in Calls, Drafts!Reject(c) \/ Drafts!Rollback(c) PROVE WInv'
    <3>1. /\ Drafts!Ends(c) /\ UNCHANGED submissions /\ call[c].step # "idle"
          /\ rejections' = rejections \/ rejections' = rejections \cup {c}
      BY <2>5 DEF Drafts!Reject, Drafts!Rollback, Drafts!rows, Drafts!Checked
    <3> QED
      BY <1>1, <3>1, EndKeepsWInv
  <2>6. ASSUME NEW c \in Calls, Drafts!Check(c) PROVE WInv'
    BY <1>1, <2>6, CheckRecords
  <2>7. ASSUME NEW c \in Calls, Drafts!Store(c) PROVE WInv'
    BY <1>1, <2>7, StoreKeepsWInv
  <2> QED
    BY <1>4, <2>1, <2>2, <2>3, <2>4, <2>5, <2>6, <2>7 DEF Drafts!Next
<1>5. [MCNext]_all => Drafts!Next \/ UNCHANGED drafts
  BY DEF MCNext, all, drafts
<1> QED
  BY <1>3, <1>4, <1>5

(* What the serialisers refuse never reaches them.                          *)
LEMMA PassedSerializes ==
  ASSUME WInv, NEW c \in Calls, Drafts!Checked(c), call[c].invalid = {}
  PROVE  Drafts!Serializes(c)
<1> DEFINE rs == call[c].records
           ids == call[c].ids
<1>1. rs \in Seq(DraftRecord) /\ ids \in Seq(Items) /\ call[c].at \in Nat
  BY DEF WInv, DInv, Call
<1>2. /\ call[c].at > Len(ids) /\ call[c].at <= Len(ids) + 1 /\ Len(rs) + 1 = call[c].at
      /\ \A k \in DOMAIN rs : rs[k].item = ids[k]
  BY DEF WInv, Records, Drafts!Checked
<1>3. ids # <<>> /\ \A j, k \in DOMAIN ids : ids[j] = ids[k] => j = k
  BY DEF WInv, Asks, Drafts!Checked
<1>4. \A s \in Drafts!Rows(c) : s.recordIndex < MaxBatch
  <2> SUFFICES ASSUME NEW k \in DOMAIN rs PROVE Drafts!Rank(rs, k) % MaxBatch < MaxBatch
    BY DEF Drafts!Rows
  <2>1. DOMAIN rs = 1..Len(rs) /\ Len(rs) \in Nat
    BY <1>1
  <2> DEFINE G == Drafts!GroupOf(rs, rs[k].group)
  <2>2. k \in G
    BY DEF Drafts!GroupOf
  <2> HIDE DEF rs
  <2>3. Cardinality(G) \in Nat /\ \A j \in G : Drafts!Rank(rs, j) \in 0..(Cardinality(G) - 1)
    BY <2>1, GroupRanks
  <2>4. Drafts!Rank(rs, k) \in Nat
    BY <2>2, <2>3
  <2> QED
    BY <2>4, Remainders, ApiAssumption
<1> HIDE DEF ids
<1>5. DOMAIN rs = DOMAIN ids /\ rs # <<>>
  <2> DEFINE n == Len(ids)  m == Len(rs)
  <2>1. n \in Nat /\ m \in Nat /\ DOMAIN rs = 1..m /\ DOMAIN ids = 1..n /\ n # 0
    BY <1>1, <1>3
  <2>2. m = n
    BY <1>1, <1>2, <2>1
  <2> QED
    BY <2>1, <2>2
<1>6. \A j, k \in DOMAIN rs : rs[j].item = rs[k].item => j = k
  BY <1>2, <1>3, <1>5
<1> QED
  BY <1>4, <1>5, <1>6 DEF Drafts!Serializes

(* For any items and calls: what buildRegistryDraft and the serialisers     *)
(* refuse (nothing at all, an item twice, a file too long) is never what    *)
(* passed every check, so they undo no draft (registry-contract.ts).        *)
THEOREM PassedDraftsSerialize ==
  MCSpec => [](\A c \in Calls : Drafts!Checked(c) /\ call[c].invalid = {} => Drafts!Serializes(c))
<1>1. MCInit => WInv
  BY WInvInit DEF MCInit
<1>2. WInv /\ [MCNext]_all => WInv'
  BY WInvNext
<1>3. WInv => \A c \in Calls : Drafts!Checked(c) /\ call[c].invalid = {} => Drafts!Serializes(c)
  BY PassedSerializes
<1> QED
  BY <1>1, <1>2, <1>3, PTL DEF MCSpec

(* For any number of items, records per file and calls: what is stored of a *)
(* draft is all of it or nothing, every item of the request in one row, in  *)
(* files of one group that are numbered and indexed without a gap and full  *)
(* but for the last of a group; and a call that was rejected stored nothing *)
(* (registry-preparation.service.ts, buildRegistryDraft in registry.ts).    *)
THEOREM DraftsAreWhole == MCSpec => []WholeOrNothing
<1>1. MCInit => WInv
  BY WInvInit DEF MCInit
<1>2. WInv /\ [MCNext]_all => WInv'
  BY WInvNext
<1>3. WInv => WholeOrNothing
  <2> SUFFICES ASSUME WInv, NEW c \in Calls, Drafts!Of(c) # {}
               PROVE  /\ c \notin rejections
                      /\ {s.item : s \in Drafts!Of(c)} = {call[c].ids[k] : k \in DOMAIN call[c].ids}
                      /\ Drafts!Cardinality(Drafts!Of(c)) = Len(call[c].ids)
                      /\ LET batches == {s.batchIndex : s \in Drafts!Of(c)} IN
                         /\ batches = 0..(Drafts!Cardinality(batches) - 1)
                         /\ \A b \in batches : LET members == {s \in Drafts!Of(c) : s.batchIndex = b} IN
                              /\ {s.recordIndex : s \in members} = 0..(Drafts!Cardinality(members) - 1)
                              /\ Drafts!Cardinality(members) <= MaxBatch
                              /\ \A s, t \in members : s.group = t.group
                              /\ \A t \in Drafts!Of(c) \ members, s \in members :
                                   s.group = t.group /\ t.batchIndex > b => Drafts!Cardinality(members) = MaxBatch
    BY DEF WholeOrNothing, Drafts!WholeOrNothing
  <2>1. c \notin rejections /\ WholeDraft(Drafts!Of(c), call[c].ids)
    BY DEF WInv, Answered
  <2> QED
    BY <2>1, SameCardinality DEF WholeDraft
<1> QED
  BY <1>1, <1>2, <1>3, PTL DEF MCSpec

-----------------------------------------------------------------------------
(* What a deletion takes along                                              *)

(* Cascades lead up to a root, so nothing goes along with nothing.          *)
LEMMA CascadesEnd ==
  ASSUME NEW S, \A r \in S : \E p \in S : <<r, p>> \in Deletions!Cascades
  PROVE  S = {}
<1>1. \A r, p : <<r, p>> \in Deletions!Cascades =>
        /\ p \in {"Organisation", "RegulatoryRuleSet", "BatteryModel", "BatteryItem", "EvidenceObject", "Supplier",
                  "PassportValue", "SupplierRequest", "PassportVersion", "ExtractionJob", "SupplierSubmission"}
        /\ r \notin {"Organisation", "RegulatoryRuleSet"}
        /\ r \in {"BatteryModel", "BatteryItem", "EvidenceObject", "Supplier"} => p = "Organisation"
        /\ r \in {"PassportValue", "SupplierRequest", "PassportVersion", "ExtractionJob"} =>
             p \in {"Organisation", "BatteryModel", "BatteryItem", "EvidenceObject", "Supplier"}
        /\ r = "SupplierSubmission" => p = "SupplierRequest"
  BY DEF Deletions!Cascades, Deletions!Owned
<1>2. "Organisation" \notin S /\ "RegulatoryRuleSet" \notin S
  BY <1>1
<1>3. \A p \in {"BatteryModel", "BatteryItem", "EvidenceObject", "Supplier"} : p \notin S
  BY <1>1, <1>2
<1>4. \A p \in {"PassportValue", "SupplierRequest", "PassportVersion", "ExtractionJob"} : p \notin S
  BY <1>1, <1>2, <1>3
<1>5. "SupplierSubmission" \notin S
  <2>1. \A p : <<"SupplierSubmission", p>> \in Deletions!Cascades => p = "SupplierRequest"
    BY <1>1
  <2> QED
    BY <1>4, <2>1
<1> SUFFICES ASSUME NEW r \in S PROVE FALSE
  OBVIOUS
<1>6. PICK p \in S : <<r, p>> \in Deletions!Cascades
  OBVIOUS
<1>7. p \in {"Organisation", "RegulatoryRuleSet", "BatteryModel", "BatteryItem", "EvidenceObject", "Supplier",
            "PassportValue", "SupplierRequest", "PassportVersion", "ExtractionJob", "SupplierSubmission"}
  BY <1>1, <1>6
<1> QED
  BY <1>2, <1>3, <1>4, <1>5, <1>7

(* A row refers to rows that are there, through its foreign keys.           *)
RefsInv ==
  /\ refs \in [Tables -> (SUBSET Tables) \cup {None}]
  /\ \A t \in Deletions!Rows : refs[t] \in SUBSET Deletions!Rows /\ refs[t] \subseteq Deletions!Parents(t)

(* What goes with the row of t: itself, and what cascades from what goes.   *)
LEMMA WhatGoes ==
  ASSUME RefsInv, NEW t
  PROVE  /\ Deletions!Gone(t) \in SUBSET Deletions!Rows
         /\ \A r \in Deletions!Rows : r \in Deletions!Gone(t) <=>
              r = t \/ \E p \in refs[r] : <<r, p>> \in Deletions!Cascades /\ p \in Deletions!Gone(t)
<1> DEFINE R == Deletions!Rows
           C == Deletions!Cascades
           F(g) == [r \in R |-> r = t \/ \E p \in refs[r] : <<r, p>> \in C /\ g[p]]
           goes == CHOOSE g : g = F(g)
<1>0. \A r \in R : refs[r] \in SUBSET R
  BY DEF RefsInv
<1>1. Deletions!Gone(t) = {r \in R : goes[r]}
  BY DEF Deletions!Gone
<1> HIDE DEF R, C
<1>2. \E g : g = F(g)
  <2> DEFINE Closed(S) == \A r \in R : r = t \/ (\E p \in refs[r] : <<r, p>> \in C /\ p \in S) => r \in S
             L == {r \in R : \A S \in SUBSET R : Closed(S) => r \in S}
             g == [r \in R |-> r \in L]
  <2>1. L \in SUBSET R /\ \A S \in SUBSET R : Closed(S) => L \subseteq S
    OBVIOUS
  <2>2. Closed(L)
    <3> SUFFICES ASSUME NEW r \in R, r = t \/ (\E p \in refs[r] : <<r, p>> \in C /\ p \in L),
                        NEW S \in SUBSET R, Closed(S)
                 PROVE  r \in S
      OBVIOUS
    <3>1. L \subseteq S
      BY <2>1
    <3> HIDE DEF L
    <3> QED
      BY <3>1
  <2>3. ASSUME NEW r \in L PROVE r = t \/ \E p \in refs[r] : <<r, p>> \in C /\ p \in L
    <3> SUFFICES ASSUME r # t, \A p \in refs[r] : ~(<<r, p>> \in C /\ p \in L) PROVE FALSE
      OBVIOUS
    <3> HIDE DEF L
    <3>1. L \ {r} \in SUBSET R /\ Closed(L \ {r})
      BY <2>1, <2>2
    <3> HIDE DEF Closed
    <3> QED
      BY <2>1, <3>1
  <2>4. \A r \in R : r \in L <=> r = t \/ \E p \in refs[r] : <<r, p>> \in C /\ p \in L
    BY <2>2, <2>3
  <2> HIDE DEF L
  <2>5. \A r \in R : \A p \in refs[r] : g[p] <=> p \in L
    BY <1>0
  <2>6. \A r \in R : g[r] = (r \in L)
    OBVIOUS
  <2>8. \A r \in R : (r \in L) = (r = t \/ \E p \in refs[r] : <<r, p>> \in C /\ g[p])
    <3> HIDE DEF g
    <3> SUFFICES ASSUME NEW r \in R PROVE (r \in L) <=> (r = t \/ \E p \in refs[r] : <<r, p>> \in C /\ g[p])
      OBVIOUS
    <3> QED
      BY <2>4, <2>5
  <2>7. g = F(g)
    <3> DEFINE E(r) == (r = t \/ \E p \in refs[r] : <<r, p>> \in C /\ g[p])
    <3>1. \A r \in R : (r \in L) = E(r)
      BY <2>8
    <3>2. F(g) = [r \in R |-> E(r)] /\ g = [r \in R |-> r \in L]
      OBVIOUS
    <3> HIDE DEF E, g, F
    <3> QED
      BY <3>1, <3>2
  <2> QED
    BY <2>7
<1>3. goes = F(goes)
  BY <1>2
<1> HIDE DEF goes
<1>4. \A r \in R : goes[r] = (r = t \/ \E p \in refs[r] : <<r, p>> \in C /\ goes[p])
  BY <1>3
<1>5. \A r \in R : \A p \in refs[r] : goes[p] <=> p \in Deletions!Gone(t)
  BY <1>0, <1>1
<1>6. \A r \in R : r \in Deletions!Gone(t) <=> goes[r]
  BY <1>1
<1>7. Deletions!Gone(t) \in SUBSET R
  BY <1>1
<1> QED
  BY <1>4, <1>5, <1>6, <1>7 DEF R, C

(* Nothing goes along with an audit event.                                  *)
LEMMA NothingGoesWithAnAudit ==
  ASSUME RefsInv, "AuditEvent" \in Deletions!Rows
  PROVE  Deletions!Gone("AuditEvent") = {"AuditEvent"}
<1> DEFINE G == Deletions!Gone("AuditEvent")
           S == G \ {"AuditEvent"}
<1>1. /\ G \in SUBSET Deletions!Rows
      /\ \A r \in Deletions!Rows : r \in G <=>
           r = "AuditEvent" \/ \E p \in refs[r] : <<r, p>> \in Deletions!Cascades /\ p \in G
  BY WhatGoes
<1> HIDE DEF G
<1>2. \A r, p : <<r, p>> \in Deletions!Cascades => p # "AuditEvent"
  BY DEF Deletions!Cascades, Deletions!Owned
<1>3. \A r \in S : \E p \in S : <<r, p>> \in Deletions!Cascades
  BY <1>1, <1>2
<1> HIDE DEF S
<1>4. S = {}
  BY <1>3, CascadesEnd
<1> QED
  BY <1>1, <1>4 DEF S, G

(* A row that is added leaves the others as they are.                       *)
LEMMA InsertKeepsHistory ==
  ASSUME RefsInv, NEW t \in Tables, NEW ps \in SUBSET Deletions!Parents(t), Deletions!Insert(t, ps)
  PROVE  RefsInv' /\ \A r \in Deletions!Rows : refs'[r] = refs[r]
<1>1. /\ refs[t] = None /\ ps \subseteq Deletions!Parents(t) /\ ps \in SUBSET Deletions!Rows
      /\ refs' = [refs EXCEPT ![t] = ps]
  BY DEF Deletions!Insert
<1>2. Deletions!Rows \in SUBSET Tables /\ \A r \in Deletions!Rows : r # t /\ refs[r] # None
  BY <1>1 DEF Deletions!Rows
<1>3. refs' \in [Tables -> (SUBSET Tables) \cup {None}]
  BY <1>1, <1>2 DEF RefsInv
<1>4. \A r \in Deletions!Rows : refs'[r] = refs[r] /\ r \in Deletions!Rows'
  BY <1>1, <1>2 DEF Deletions!Rows, RefsInv
<1>5. \A r \in Deletions!Rows' : r \in Deletions!Rows \/ r = t
  BY <1>1 DEF Deletions!Rows, RefsInv
<1>6. refs'[t] = ps
  BY <1>1 DEF RefsInv
<1>7. \A r : Deletions!Parents(r)' = Deletions!Parents(r)
  BY DEF Deletions!Parents
<1> QED
  BY <1>1, <1>3, <1>4, <1>5, <1>6, <1>7 DEF RefsInv

(* A deletion that takes a version along fails, so what is left of a version *)
(* still refers to the same rows, and an audit event goes alone.            *)
LEMMA DeleteKeepsHistory ==
  ASSUME RefsInv, NEW t \in Tables, NEW by, Deletions!Delete(t, by)
  PROVE  /\ RefsInv'
         /\ refs["PassportVersion"] # None => refs'["PassportVersion"] = refs["PassportVersion"]
         /\ refs["AuditEvent"] # None /\ refs'["AuditEvent"] = None =>
              \A r \in Tables \ {"AuditEvent"} : refs'[r] = refs[r]
<1> DEFINE R == Deletions!Rows
           G == Deletions!Gone(t)
<1>1. /\ t \in R /\ "PassportVersion" \notin G
      /\ refs' = [r \in Tables |-> IF r \in R \ G THEN refs[r] \ G ELSE None]
  BY DEF Deletions!Delete, Deletions!Raises
<1>2. /\ G \in SUBSET R
      /\ \A r \in R : r \in G <=> r = t \/ \E p \in refs[r] : <<r, p>> \in Deletions!Cascades /\ p \in G
  BY WhatGoes
<1>3. R \in SUBSET Tables /\ \A r \in Tables : r \in R <=> refs[r] # None
  BY DEF Deletions!Rows
<1>4. \A r \in R : refs[r] \in SUBSET R /\ refs[r] \subseteq Deletions!Parents(r)
  BY DEF RefsInv
<1>5. Deletions!Rows' = R \ G
  <2>1. \A r \in R \ G : refs'[r] = refs[r] \ G /\ refs'[r] # None
    <3> HIDE DEF R, G
    <3>1. \A r \in R \ G : refs'[r] = refs[r] \ G /\ refs[r] \ G \in SUBSET Tables
      BY <1>1, <1>3, <1>4
    <3> QED
      BY <3>1, ApiAssumption
  <2> HIDE DEF R, G
  <2>2. \A r \in Tables : r \notin R \ G => refs'[r] = None
    BY <1>1
  <2> QED
    BY <1>3, <2>1, <2>2 DEF Deletions!Rows
<1>6. \A r \in Tables : refs'[r] = IF r \in R \ G THEN refs[r] \ G ELSE None
  BY <1>1
<1>7. RefsInv'
  <2>1. \A r : Deletions!Parents(r)' = Deletions!Parents(r)
    BY DEF Deletions!Parents
  <2>2. DOMAIN refs' = Tables /\ refs' = [r \in Tables |-> refs'[r]]
    BY <1>1
  <2> HIDE DEF R, G
  <2>6. \A r \in R : refs[r] \ G \in SUBSET Tables
    BY <1>3, <1>4
  <2>3. \A r \in Tables : refs'[r] \in (SUBSET Tables) \cup {None}
    BY <1>6, <2>6
  <2>4. \A r \in Deletions!Rows' : refs'[r] \in SUBSET Deletions!Rows' /\ refs'[r] \subseteq Deletions!Parents(r)'
    BY <1>3, <1>4, <1>5, <1>6, <2>1
  <2>5. refs' \in [Tables -> (SUBSET Tables) \cup {None}]
    BY <2>2, <2>3
  <2> QED
    BY <2>4, <2>5 DEF RefsInv
<1>8. ASSUME refs["PassportVersion"] # None PROVE refs'["PassportVersion"] = refs["PassportVersion"]
  <2>1. "PassportVersion" \in R
    BY <1>3, <1>8, ApiAssumption
  <2>2. \A p \in Deletions!Parents("PassportVersion") : <<"PassportVersion", p>> \in Deletions!Cascades
    BY DEF Deletions!Parents, Deletions!Cascades, Deletions!Owned, Deletions!Nulls, Deletions!Restricts
  <2> HIDE DEF R, G
  <2>3. refs["PassportVersion"] \cap G = {}
    BY <1>1, <1>2, <1>4, <2>1, <2>2
  <2> QED
    BY <1>1, <1>3, <1>6, <2>1, <2>3
<1>9. ASSUME refs["AuditEvent"] # None, refs'["AuditEvent"] = None, NEW r \in Tables \ {"AuditEvent"}
      PROVE  refs'[r] = refs[r]
  <2>1. "AuditEvent" \in R /\ "AuditEvent" \in G
    BY <1>3, <1>5, <1>9, ApiAssumption DEF Deletions!Rows
  <2>2. \A p : <<"AuditEvent", p>> \notin Deletions!Cascades
    BY DEF Deletions!Cascades, Deletions!Owned
  <2>3. t = "AuditEvent"
    BY <1>2, <2>1, <2>2
  <2>4. G = {"AuditEvent"}
    BY <2>1, <2>3, NothingGoesWithAnAudit
  <2>5. \A q : "AuditEvent" \notin Deletions!Parents(q)
    BY DEF Deletions!Parents, Deletions!Cascades, Deletions!Owned, Deletions!Nulls, Deletions!Restricts
  <2> HIDE DEF R, G
  <2>6. r \in R => refs[r] \ G = refs[r]
    BY <1>4, <2>4, <2>5
  <2> QED
    BY <1>3, <1>6, <1>9, <2>4, <2>6
<1> QED
  BY <1>7, <1>8, <1>9

(* Whatever is deleted, and by whom: a published version and all that it    *)
(* refers to stay, an audit event goes alone, and nothing is left that      *)
(* refers to what is gone (002_runtime_grants.sql, the migrations' trigger  *)
(* and foreign keys).                                                       *)
THEOREM HistoryIsKept == MCSpec => HistoryOutlives
<1>1. MCInit => RefsInv
  <2> SUFFICES ASSUME MCInit PROVE RefsInv
    OBVIOUS
  <2>1. refs = [t \in Tables |-> None]
    BY DEF MCInit, Deletions!Init
  <2>2. Deletions!Rows = {}
    BY <2>1 DEF Deletions!Rows
  <2> QED
    BY <2>1, <2>2 DEF RefsInv
<1>2. RefsInv /\ [MCNext]_all => RefsInv'
  <2> SUFFICES ASSUME RefsInv, [MCNext]_all PROVE RefsInv'
    OBVIOUS
  <2>1. CASE UNCHANGED refs
    BY <2>1 DEF RefsInv, Deletions!Rows, Deletions!Parents
  <2>2. CASE Deletions!Next
    BY <2>2, InsertKeepsHistory, DeleteKeepsHistory DEF Deletions!Next
  <2> QED
    BY <2>1, <2>2 DEF MCNext, all
<1>3. RefsInv /\ RefsInv' /\ [MCNext]_all =>
        [/\ refs["PassportVersion"] # None => refs'["PassportVersion"] = refs["PassportVersion"]
         /\ refs["AuditEvent"] # None /\ refs'["AuditEvent"] = None =>
              \A t \in Tables \ {"AuditEvent"} : refs'[t] = refs[t]
         /\ \A t \in Deletions!Rows' : refs'[t] \subseteq Deletions!Rows']_(Deletions!vars)
  <2> SUFFICES ASSUME RefsInv, RefsInv', [MCNext]_all, ~UNCHANGED Deletions!vars
               PROVE  /\ refs["PassportVersion"] # None => refs'["PassportVersion"] = refs["PassportVersion"]
                      /\ refs["AuditEvent"] # None /\ refs'["AuditEvent"] = None =>
                           \A t \in Tables \ {"AuditEvent"} : refs'[t] = refs[t]
                      /\ \A t \in Deletions!Rows' : refs'[t] \subseteq Deletions!Rows'
    OBVIOUS
  <2>1. \A t \in Deletions!Rows' : refs'[t] \subseteq Deletions!Rows'
    BY DEF RefsInv
  <2>2. Deletions!Next
    BY DEF MCNext, all, Deletions!vars
  <2>3. ASSUME NEW t \in Tables, NEW ps \in SUBSET Deletions!Parents(t), Deletions!Insert(t, ps)
        PROVE  \A r \in {"PassportVersion", "AuditEvent"} : refs[r] # None => refs'[r] = refs[r]
    BY <2>3, InsertKeepsHistory, ApiAssumption DEF Deletions!Rows
  <2> QED
    BY <2>1, <2>2, <2>3, DeleteKeepsHistory DEF Deletions!Next
<1> QED
  BY <1>1, <1>2, <1>3, PTL DEF MCSpec, HistoryOutlives, Deletions!HistoryOutlives
=============================================================================
