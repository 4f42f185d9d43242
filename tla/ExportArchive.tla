--------------------------- MODULE ExportArchive -----------------------------
(***************************************************************************)
(* An export on the operator's disk, and the archives made there, offline,   *)
(* of an export and the sources it cites.  The verifier may run several      *)
(* times at once, while others change the file and the sources.              *)
(***************************************************************************)
EXTENDS ExportManifest

CONSTANTS
  Evidence, Assemblers, Destinations,
  Issued,   \* payloads the API issued
  None

VARIABLES
  file,      \* the manifest on the disk, and whether its hash is the payload's
  source,    \* evidence whose file in the source directory is the one that was uploaded
  run,       \* per assembler
  archive    \* per destination: whether there is a directory, and what is in it

vars == <<file, source, run, archive>>

Out == [stage |-> "out", manifest |-> None, anchor |-> None, dest |-> None, todo |-> {}]

(* No directory; its report, when it has one, names the hash or none.       *)
Absent == [there |-> FALSE, manifest |-> None, copies |-> {}, right |-> {}, report |-> {}]

Directory(m, copies, right, report) ==
  [there |-> TRUE, manifest |-> m, copies |-> copies, right |-> right, report |-> report]

Init ==
  /\ file = None /\ source = {}
  /\ run = [a \in Assemblers |-> Out] /\ archive = [d \in Destinations |-> Absent]

Save(p) ==
  /\ p \in Issued /\ Downloads(p) /\ file' = [payload |-> p, sealed |-> TRUE]
  /\ UNCHANGED <<source, run, archive>>

(* What becomes of an export by hand: the metadata of an evidence is gone,  *)
(* or the last version with what only it cites.                             *)
Edits(p) ==
  LET rest == SubSeq(p.versions, 1, Len(p.versions) - 1) IN
  {[p EXCEPT !.known = @ \ {e}] : e \in p.known} \cup
  {[versions |-> rest, known |-> p.known \cap Cited(rest), partial |-> p.partial \cap Cited(rest),
    missing |-> p.missing \cap Cited(rest)]}

(* Its hash may be made anew.                                               *)
Edit(sealed) ==
  /\ file # None /\ file.payload.versions # <<>>
  /\ \E p \in Edits(file.payload) : file' = [payload |-> p, sealed |-> sealed]
  /\ UNCHANGED <<source, run, archive>>

(* A file is put into the source directory, or spoilt.                      *)
Place(e) ==
  /\ source' = IF e \in source THEN source \ {e} ELSE source \cup {e}
  /\ UNCHANGED <<file, run, archive>>

-----------------------------------------------------------------------------
(* The verifier: assemble                                                   *)

(* A failure, or the end of the process: the directory stays as it is.      *)
Stop(a) ==
  /\ run[a].stage # "out" /\ run' = [run EXCEPT ![a] = Out]
  /\ UNCHANGED <<file, source, archive>>

(* The manifest is read once, and compared with the hash the operator may   *)
(* have been told; without all of its metadata nothing begins.              *)
Load(a, anchor, d) ==
  /\ run[a].stage = "out" /\ file # None /\ Loads(file)
  /\ anchor \in {None, file.payload}
  /\ file.payload.missing \cup file.payload.partial = {}
  /\ run' = [run EXCEPT ![a] = [stage |-> "check", manifest |-> file, anchor |-> anchor, dest |-> d, todo |-> file.payload.known]]
  /\ UNCHANGED <<file, source, archive>>

(* The assembler goes on, with files to look at.                            *)
Goes(a, stage, todo) ==
  run' = [run EXCEPT ![a] =
    [stage |-> stage, manifest |-> run[a].manifest, anchor |-> run[a].anchor, dest |-> run[a].dest, todo |-> todo]]

(* A file is as its metadata says, or the assembler stops.                  *)
Examine(a, right) ==
  /\ \E e \in run[a].todo \cap right : Goes(a, run[a].stage, run[a].todo \ {e})
  /\ UNCHANGED <<file, source, archive>>

CheckSource(a) == run[a].stage = "check" /\ Examine(a, source)

(* mkdir fails when there is such a directory.                              *)
Make(a) ==
  LET d == run[a].dest IN
  /\ run[a].stage = "check" /\ run[a].todo = {} /\ ~archive[d].there
  /\ archive' = [archive EXCEPT ![d] = Directory(None, {}, {}, {})]
  /\ Goes(a, "made", {})
  /\ UNCHANGED <<file, source>>

WriteManifest(a) ==
  LET d == run[a].dest  dir == archive[d] IN
  /\ run[a].stage = "made" /\ dir.manifest = None
  /\ archive' = [archive EXCEPT ![d] = Directory(run[a].manifest, dir.copies, dir.right, dir.report)]
  /\ Goes(a, "copy", run[a].manifest.payload.known)
  /\ UNCHANGED <<file, source>>

(* Mutant of Reread: the copies are not looked at.                          *)
RereadNone(a) == {}

(* What is verified of the copies.                                          *)
Reread(a) == run[a].manifest.payload.known

(* A copy is of the source at that time, or of several times.               *)
Copy(a) ==
  LET d == run[a].dest  dir == archive[d] IN
  /\ run[a].stage = "copy"
  /\ \/ \E e \in run[a].todo \ dir.copies :
          /\ \E right \in {{}, {e} \cap source} :
               archive' = [archive EXCEPT ![d] =
                 Directory(dir.manifest, dir.copies \cup {e}, dir.right \cup right, dir.report)]
          /\ Goes(a, "copy", run[a].todo \ {e})
     \/ run[a].todo = {} /\ UNCHANGED archive /\ Goes(a, "reread", Reread(a))
  /\ UNCHANGED <<file, source>>

CheckCopy(a) == run[a].stage = "reread" /\ Examine(a, archive[run[a].dest].right)

Report(a) ==
  LET d == run[a].dest  dir == archive[d] IN
  /\ run[a].stage = "reread" /\ run[a].todo = {} /\ dir.report = {}
  /\ archive' = [archive EXCEPT ![d] = Directory(dir.manifest, dir.copies, dir.right, {run[a].anchor})]
  /\ run' = [run EXCEPT ![a] = Out]
  /\ UNCHANGED <<file, source>>

Next ==
  \/ \E p \in Issued : Save(p)
  \/ \E sealed \in BOOLEAN : Edit(sealed)
  \/ \E e \in Evidence : Place(e)
  \/ \E a \in Assemblers :
       \/ Stop(a) \/ CheckSource(a) \/ Make(a) \/ WriteManifest(a) \/ Copy(a) \/ CheckCopy(a) \/ Report(a)
       \/ \E anchor \in Issued \cup {None}, d \in Destinations : Load(a, anchor, d)

Spec == Init /\ [][Next]_vars

-----------------------------------------------------------------------------
(* Properties                                                               *)

(* A directory with a report has the manifest that was verified, with an    *)
(* anchor the very one it names, the right copy of each source it cites,    *)
(* and no other: "A changed input between verification and copying cannot   *)
(* produce a successful archive" (passport-export.cjs:160).                 *)
ReportedIsWhole ==
  \A d \in Destinations : archive[d].report # {} =>
    LET m == archive[d].manifest IN
    /\ m # None /\ Loads(m) /\ archive[d].report \subseteq {None, m.payload}
    /\ archive[d].copies = Cited(m.payload.versions) /\ archive[d].right = archive[d].copies
=============================================================================
