--------------------------- MODULE ExportManifest ----------------------------
(***************************************************************************)
(* An operator export: the published history of an item, with the metadata   *)
(* of the evidence it cites, and what is demanded of it.  A version has a    *)
(* number, the number of the version whose hash it repeats, and what it      *)
(* cites.                                                                    *)
(***************************************************************************)
EXTENDS Integers, Sequences, FiniteSets

CONSTANTS
  MaxVersions,   \* of an export (256)
  MaxSize        \* of an export (8 MiB): a version counts two, the metadata of an evidence one

Chained(vs) == \A i \in DOMAIN vs : vs[i].no = i /\ vs[i].previous = i - 1

Cited(vs) == UNION {vs[i].cites : i \in DOMAIN vs}

Size(vs, known) == 2 * Len(vs) + Cardinality(known)

(* Mutant of Written: the file ends with a line feed.                       *)
WrittenLine(p) == Size(p.versions, p.known) + 1

(* The bytes of the file the browser saves, and of the copy in an archive.  *)
Written(p) == Size(p.versions, p.known)

(* verifyManifest                                                           *)
Verifies(m) ==
  LET p == m.payload IN
  /\ Size(p.versions, p.known) <= MaxSize /\ m.sealed
  /\ Len(p.versions) \in 1..MaxVersions /\ Chained(p.versions)
  /\ p.known \subseteq Cited(p.versions)
  /\ p.missing = Cited(p.versions) \ p.known

Loads(m) == Written(m.payload) <= MaxSize /\ Verifies(m)

(* prepareOperatorExport                                                    *)
Downloads(p) == Len(p.versions) \in 1..MaxVersions /\ Written(p) <= MaxSize
=============================================================================
