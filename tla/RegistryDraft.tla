----------------------------- MODULE RegistryDraft ---------------------------
(***************************************************************************)
(* The internal registry draft of a set of items.  The actor gate is read   *)
(* first, in transactions of its own.  One transaction then finds the       *)
(* items, locks their models and the items, checks item after item, and     *)
(* stores a draft of all of them or one audit row that says why not.        *)
(* Whoever writes an item or a publication holds its model (PassportTx).    *)
(***************************************************************************)
EXTENDS Integers, FiniteSets, Sequences

CONSTANTS
  Items, Models, ModelOf,
  Calls,           \* requests to prepare; a call is its correlation id
  Groups,          \* category, schema and rule set of a version
  Refused,         \* items whose UPI or identifier the contract refuses
  Authorisations,  \* written authorisations of the provider's organisation
  Preparing,       \* those whose scope allows registryPrepare
  MaxBatch,        \* records per file: 100 in the code
  MaxRequest,      \* bound: items of one request; 1000 in the code
  MaxVersions,     \* bound: versions of an item
  None

VARIABLES
  item,           \* per item: state, publishable as validateTx finds it
  versions,       \* per item: the groups of its published versions, in order
  authorisation,  \* the written authorisations that stand
  call,           \* per call: the request it serves
  holder,         \* per model: the draft transaction that holds it
  sharing,        \* per authorisation: the transactions that hold it FOR SHARE
  submissions,    \* RegistrySubmission rows
  rejections      \* calls with an audit row registry.prevalidation_rejected

world == <<item, versions>>
rows  == <<submissions, rejections>>
vars  == <<world, authorisation, call, holder, sharing, rows>>

(* registered and registry_pending count as well; no handler sets them.     *)
Current == {"published"}

Request(step, ids, under, gate) ==
  [step |-> step, under |-> under, ids |-> ids, gate |-> gate, found |-> {}, records |-> <<>>, invalid |-> {}, at |-> 1]

Idle == Request("idle", <<>>, None, "NONE")

Init ==
  /\ item = [i \in Items |-> [state |-> "absent", publishable |-> FALSE]]
  /\ versions = [i \in Items |-> <<>>]
  /\ authorisation = Authorisations
  /\ call = [c \in Calls |-> Idle]
  /\ holder = [m \in Models |-> None] /\ sharing = [a \in Authorisations |-> {}]
  /\ submissions = {} /\ rejections = {}

-----------------------------------------------------------------------------
(* The other writers, each a transaction that holds the model               *)

Free(i) == holder[ModelOf[i]] = None

CreateItem(i) ==
  /\ item[i].state = "absent"
  /\ item' = [item EXCEPT ![i].state = "draft"]
  /\ UNCHANGED <<versions, authorisation, call, holder, sharing, rows>>

(* validate and publish: "draft" stands for every state before.             *)
Publish(i, g) ==
  /\ item[i].state = "draft" /\ Free(i) /\ Len(versions[i]) < MaxVersions
  /\ item' = [item EXCEPT ![i] = [state |-> "published", publishable |-> TRUE]]
  /\ versions' = [versions EXCEPT ![i] = Append(@, g)]
  /\ UNCHANGED <<authorisation, call, holder, sharing, rows>>

(* A write of a value or its evidence takes the publication back.  So does  *)
(* recycling: it leaves an item that no Publish follows.                    *)
Leave(i) ==
  /\ item[i].state \in Current /\ Free(i)
  /\ item' = [item EXCEPT ![i].state = "draft", ![i].publishable = FALSE]
  /\ UNCHANGED <<versions, authorisation, call, holder, sharing, rows>>

(* Evidence expires by the clock, which waits for no lock.                  *)
Expire(i) ==
  /\ item[i].publishable
  /\ item' = [item EXCEPT ![i].publishable = FALSE]
  /\ UNCHANGED <<versions, authorisation, call, holder, sharing, rows>>

Revoke(a) ==
  /\ a \in authorisation /\ sharing[a] = {}
  /\ authorisation' = authorisation \ {a}
  /\ UNCHANGED <<world, call, holder, sharing, rows>>

-----------------------------------------------------------------------------
(* The actor gate                                                           *)

(* ExportRequest: at least one id, none twice.                              *)
Requests == {s \in UNION {[1..n -> Items] : n \in 1..MaxRequest} : \A j, k \in DOMAIN s : s[j] = s[k] => j = k}

(* The tenant guard lets a provider in under an authorisation that allows   *)
(* it.  The identities are verified at the registry and lapse at the first  *)
(* of their horizons (identityIsCurrentlyVerified): a reading finds either. *)
Begin(c, under, operator) ==
  /\ call[c].step = "idle" /\ call[c].ids = <<>>
  /\ under \in {None} \cup (Preparing \cap authorisation)
  /\ \E ids \in Requests :
       call' = [call EXCEPT ![c] = Request("gate", ids, under, IF operator THEN "ready" ELSE "refused")]
  /\ UNCHANGED <<world, authorisation, holder, sharing, rows>>

(* delegatedRegistryActorGate for a provider: any active authorisation will *)
(* do; which reason it refuses for is left away.                            *)
ActorGate(c, actor) ==
  IF call[c].gate = "ready" /\ authorisation # {} /\ actor THEN "ready" ELSE "refused"

(* No answer of the gate stops the draft; it is recorded with it.           *)
Gate(c, actor) ==
  /\ call[c].step = "gate"
  /\ call' = [call EXCEPT ![c].gate = IF call[c].under # None THEN ActorGate(c, actor) ELSE @, ![c].step = "start"]
  /\ UNCHANGED <<world, authorisation, holder, sharing, rows>>

-----------------------------------------------------------------------------
(* The transaction of the draft                                             *)

Ends(c) ==
  /\ call' = [call EXCEPT ![c] = Request("idle", call[c].ids, call[c].under, "NONE")]
  /\ holder' = [m \in Models |-> IF holder[m] = c THEN None ELSE holder[m]]
  /\ sharing' = [a \in Authorisations |-> sharing[a] \ {c}]

(* TenantDbService.run: a delegated transaction shares the row of the       *)
(* authorisation the guard chose, if it still stands.  The items are found  *)
(* before any of them is locked.                                            *)
FindItems(c) ==
  /\ call[c].step = "start" /\ call[c].under \in {None} \cup authorisation
  /\ sharing' = [a \in Authorisations |-> IF a = call[c].under THEN sharing[a] \cup {c} ELSE sharing[a]]
  /\ call' = [call EXCEPT ![c].found = {i \in Items : item[i].state # "absent"} \cap {call[c].ids[k] : k \in DOMAIN call[c].ids},
                          ![c].step = "lock"]
  /\ UNCHANGED <<world, authorisation, holder, rows>>

(* Mutant of Wanted: the models are not locked.                             *)
WantedNone(c) == {}

Wanted(c) == {ModelOf[i] : i \in call[c].found}

(* SELECT ... FOR UPDATE of the models, then the items; their order matters *)
(* for deadlocks only, which PassportTx is about.                           *)
LockItems(c) ==
  /\ call[c].step = "lock" /\ \A m \in Wanted(c) : holder[m] = None
  /\ holder' = [m \in Models |-> IF m \in Wanted(c) THEN c ELSE holder[m]]
  /\ call' = [call EXCEPT ![c].step = "check"]
  /\ UNCHANGED <<world, authorisation, sharing, rows>>

(* validRegistryUpi, recordSchema: the UPI, the identifiers and what XML    *)
(* can hold of them.                                                        *)
ContractAccepts(i) == i \notin Refused

(* The first reason to refuse an item.  What compares the version with the  *)
(* item always agrees: publish writes both and no handler writes one alone. *)
Code(c, i) ==
  CASE i \notin call[c].found -> "ITEM_NOT_AVAILABLE"
    [] versions[i] = <<>> -> "NO_PUBLISHED_PASSPORT"
    [] item[i].state \notin Current -> "PASSPORT_NOT_CURRENT"
    [] ~item[i].publishable -> "COMPLIANCE_BLOCKERS"
    [] ~ContractAccepts(i) -> "REFUSED_IDENTIFIER"
    [] OTHER -> "OK"

Record(i) == [item |-> i, version |-> Len(versions[i]), group |-> versions[i][Len(versions[i])]]

Check(c) ==
  LET i == call[c].ids[call[c].at]  code == Code(c, call[c].ids[call[c].at]) IN
  /\ call[c].step = "check" /\ call[c].at <= Len(call[c].ids)
  /\ call' = [call EXCEPT ![c].at = @ + 1,
       ![c].invalid = IF code # "OK" THEN @ \cup {[item |-> i, code |-> code]} ELSE @,
       ![c].records = IF code = "OK" THEN Append(@, Record(i)) ELSE @]
  /\ UNCHANGED <<world, authorisation, holder, sharing, rows>>

Checked(c) == call[c].step = "check" /\ call[c].at > Len(call[c].ids)

Reject(c) ==
  /\ Checked(c) /\ call[c].invalid # {}
  /\ rejections' = rejections \cup {c}
  /\ Ends(c)
  /\ UNCHANGED <<world, authorisation, submissions>>

(* buildRegistryDraft: groups in the order of their first record, each cut  *)
(* into chunks of MaxBatch; a chunk is a file, and files are numbered       *)
(* through.                                                                 *)
GroupOf(rs, g) == {k \in DOMAIN rs : rs[k].group = g}
First(rs, g)   == CHOOSE k \in GroupOf(rs, g) : \A j \in GroupOf(rs, g) : k <= j
Rank(rs, k)    == Cardinality({j \in GroupOf(rs, rs[k].group) : j < k})

(* The records that begin a file, and those of them up to that of record k. *)
Begins(rs) == {k \in DOMAIN rs : Rank(rs, k) % MaxBatch = 0}

BegunBy(rs, k) ==
  {j \in Begins(rs) : \/ First(rs, rs[j].group) < First(rs, rs[k].group)
                      \/ rs[j].group = rs[k].group /\ j <= k}

Rows(c) ==
  LET rs == call[c].records IN
  {[correlationId |-> c, item |-> rs[k].item, version |-> rs[k].version, group |-> rs[k].group,
    batchIndex |-> Cardinality(BegunBy(rs, k)) - 1,
    recordIndex |-> Rank(rs, k) % MaxBatch, gate |-> call[c].gate] : k \in DOMAIN rs}

(* buildRegistryDraft and, file by file, serializeRegistryDraft refuse what *)
(* is empty, too long or has an item twice; they would undo the draft.      *)
Serializes(c) ==
  LET rs == call[c].records IN
  /\ rs # <<>> /\ \A j, k \in DOMAIN rs : rs[j].item = rs[k].item => j = k
  /\ \A s \in Rows(c) : s.recordIndex < MaxBatch

(* Mutant of Store: what passed is stored, whatever did not.                *)
StorePart(c) ==
  /\ Checked(c)
  /\ submissions' = submissions \cup Rows(c)
  /\ Ends(c)
  /\ UNCHANGED <<world, authorisation, rejections>>

Store(c) ==
  /\ Checked(c) /\ call[c].invalid = {} /\ Serializes(c)
  /\ submissions' = submissions \cup Rows(c)
  /\ Ends(c)
  /\ UNCHANGED <<world, authorisation, rejections>>

(* The transaction times out or fails, or the check of the delegation did.  *)
Rollback(c) ==
  /\ call[c].step # "idle"
  /\ Ends(c)
  /\ UNCHANGED <<world, authorisation, rows>>

Next ==
  \/ \E i \in Items : CreateItem(i) \/ Leave(i) \/ Expire(i) \/ \E g \in Groups : Publish(i, g)
  \/ \E a \in Authorisations : Revoke(a)
  \/ \E c \in Calls :
       \/ \E under \in {None} \cup Preparing, operator \in BOOLEAN : Begin(c, under, operator)
       \/ \E actor \in BOOLEAN : Gate(c, actor)
       \/ FindItems(c) \/ LockItems(c) \/ Check(c) \/ Reject(c) \/ Store(c) \/ Rollback(c)

Spec == Init /\ [][Next]_vars
-----------------------------------------------------------------------------
(* Properties                                                               *)

Of(c) == {s \in submissions : s.correlationId = c}

(* "Persist/return no records or files until the complete candidate set     *)
(* passes" (registry-preparation.service.ts:85), and what get() returns for *)
(* a correlation id: a rejection, or every item of the request once, in     *)
(* files of one group, numbered through, none of them empty or too long.    *)
WholeOrNothing ==
  \A c \in Calls : Of(c) # {} =>
    /\ c \notin rejections
    /\ {s.item : s \in Of(c)} = {call[c].ids[k] : k \in DOMAIN call[c].ids}
    /\ Cardinality(Of(c)) = Len(call[c].ids)
    /\ LET batches == {s.batchIndex : s \in Of(c)} IN
       /\ batches = 0..(Cardinality(batches) - 1)
       /\ \A b \in batches : LET file == {s \in Of(c) : s.batchIndex = b} IN
            /\ {s.recordIndex : s \in file} = 0..(Cardinality(file) - 1) /\ Cardinality(file) <= MaxBatch
            /\ \A s, t \in file : s.group = t.group
            /\ \A t \in Of(c) \ file, s \in file :
                 s.group = t.group /\ t.batchIndex > b => Cardinality(file) = MaxBatch

(* What is drafted is the latest version of an item that is still published *)
(* when the draft is stored, however long ago it was checked, and a         *)
(* provider's draft is stored while the authorisation the guard found       *)
(* stands, whatever the earlier gate said.                                  *)
DraftsAreCurrent ==
  [][\A c \in Calls : \A s \in Of(c)' \ Of(c) :
       /\ s.version = Len(versions[s.item]) /\ item[s.item].state \in Current
       /\ call[c].under # None => call[c].under \in authorisation]_vars
=============================================================================
