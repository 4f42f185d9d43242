--------------------------- MODULE OperatorExport ----------------------------
(***************************************************************************)
(* The API exports the published history of an item in one transaction.      *)
(***************************************************************************)
EXTENDS ExportManifest

CONSTANTS Evidence, None,
  MaxPublished   \* bound

VARIABLES
  versions,  \* of the item
  row,       \* per evidence: "absent", "partial" (no storage version, say) or "stored"
  export,    \* the transaction that makes an export, and holds the item meanwhile
  issued     \* the payload of the last export, as the audit trail names it by its hash

vars == <<versions, row, export, issued>>

Idle == [count |-> 0, read |-> <<>>]

Init == versions = <<>> /\ row = [e \in Evidence |-> "absent"] /\ export = Idle /\ issued = None

(* Mutant of Projected: every evidence of the organisation is exported.     *)
ProjectedAll(vs) == {e \in Evidence : row[e] # "absent"}

(* The rows of evidence an export carries.                                  *)
Projected(vs) == {e \in Cited(vs) : row[e] # "absent"}

Payload(vs) ==
  [versions |-> vs, known |-> Projected(vs), partial |-> {e \in Projected(vs) : row[e] = "partial"},
   missing |-> Cited(vs) \ Projected(vs)]

Publish(cites) ==
  /\ export = Idle /\ Len(versions) < MaxPublished
  /\ \A e \in cites : row[e] # "absent"
  /\ versions' = Append(versions, [no |-> Len(versions) + 1, previous |-> Len(versions), cites |-> cites])
  /\ UNCHANGED <<row, export, issued>>

(* Evidence is uploaded, and gets a storage version when it was scanned; an *)
(* administrator deletes it.                                                *)
Evolve(e, state) ==
  /\ <<row[e], state>> \in {<<"absent", "partial">>, <<"partial", "stored">>, <<"partial", "absent">>, <<"stored", "absent">>}
  /\ row' = [row EXCEPT ![e] = state]
  /\ UNCHANGED <<versions, export, issued>>

(* The item is locked, its versions are counted and measured.               *)
Lock ==
  /\ export = Idle /\ Len(versions) \in 1..MaxVersions /\ Size(versions, {}) <= MaxSize
  /\ export' = [export EXCEPT !.count = Len(versions)]
  /\ UNCHANGED <<versions, row, issued>>

(* Then they are read and checked.                                          *)
Read ==
  /\ export # Idle /\ export.read = <<>>
  /\ export' = IF Chained(versions) /\ Len(versions) = export.count
               THEN [export EXCEPT !.read = versions] ELSE Idle
  /\ UNCHANGED <<versions, row, issued>>

(* The metadata of what they cite is read; what is too large is refused;    *)
(* the audit trail and the response are of one transaction.                 *)
Issue ==
  LET p == Payload(export.read) IN
  /\ export.read # <<>> /\ export' = Idle
  /\ \/ Size(p.versions, p.known) <= MaxSize /\ issued' = p
     \/ Size(p.versions, p.known) > MaxSize /\ UNCHANGED issued
  /\ UNCHANGED <<versions, row>>

(* An error, or fifteen seconds have passed.                                *)
Rollback ==
  /\ export # Idle /\ export' = Idle
  /\ UNCHANGED <<versions, row, issued>>

Next ==
  \/ \E cites \in SUBSET Evidence : Publish(cites)
  \/ \E e \in Evidence, state \in {"absent", "partial", "stored"} : Evolve(e, state)
  \/ Lock \/ Read \/ Issue \/ Rollback

Spec == Init /\ [][Next]_vars

-----------------------------------------------------------------------------
(* Properties                                                               *)

(* Every export the API issued is one the browser hands over, and the       *)
(* verifier accepts the file: "a trailing newline would reject an otherwise *)
(* valid export at the supported byte boundary" (operator-export.ts:21).    *)
ExportVerifies ==
  issued # None => Downloads(issued) /\ Loads([payload |-> issued, sealed |-> TRUE])
=============================================================================
