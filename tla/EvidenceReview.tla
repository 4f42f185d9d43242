--------------------------- MODULE EvidenceReview ---------------------------
(***************************************************************************)
(* The review of one evidence object (EvidenceStorageService,               *)
(* ExtractionService): a handler loads the row, works for seconds or        *)
(* minutes on the stored bytes (HEAD, hash and malware scan in one pass),   *)
(* and only then opens the transaction that writes its result, if the row   *)
(* is still the one it loaded (updatedAt and status).  Any number of        *)
(* handlers do so at the same time.                                         *)
(*                                                                         *)
(* The bucket keeps versions; the signed upload URL can be used again and   *)
(* every use adds a version with the declared hash.  What the scanner makes *)
(* of these bytes changes once, when its signatures learn to detect them.   *)
(***************************************************************************)
EXTENDS Naturals, EvidenceStates

CONSTANTS
  Procs,         \* concurrent handlers
  ScannerModes,  \* malware scanning: TRUE is clamav, FALSE is disabled (development)
  MaxPuts,       \* bound: uploads
  MaxLinks,      \* bound: values the evidence is linked to
  MaxCalls,      \* bound: handlers started
  MaxFailures    \* bound: handlers that end in an error of database, storage or process

ASSUME ReviewAssumption ==
  /\ ScannerModes \subseteq BOOLEAN
  /\ MaxPuts \in Nat \ {0} /\ MaxLinks \in Nat /\ MaxCalls \in Nat /\ MaxFailures \in Nat

VARIABLES
  scanning,  \* the deployment's scanner mode; no step changes it
  puts,      \* external: versions in the bucket, 1..puts
  detects,   \* external: the scanner recognises the bytes
  expired,   \* expiresAt of the evidence has passed
  row,       \* the EvidenceObject
  links,     \* its EvidenceLink rows, counted: they are only ever added
  call,      \* per process: the handler it runs
  jobs,      \* ExtractionJob rows
  urls,      \* versions a review download was signed for
  cleared,   \* history: versions the scanner found clean
  calls, failures   \* bounds only

bucket == <<scanning, puts, detects, expired>>
vars   == <<bucket, row, links, call, jobs, urls, cleared, calls, failures>>

Attempts == 3   \* rejections tried while links keep changing

(* version: storageVersionId, 0 for null; attested: the malwareScan columns *)
(* are set, for the declared hash; stamp: updatedAt.                        *)
RowType == [status : EvidenceStatus, stamp : Nat, version : Nat, attested : BOOLEAN]

NoRow == [status |-> "absent", stamp |-> 0, version |-> 0, attested |-> FALSE]

Ops == {"finalize", "verify", "extract", "review"}

Steps == {"idle", "loaded", "streaming", "scanned", "detected", "rejecting", "headed", "extracting"}

(* seen: the row as loaded; version: the one streamed; job: the job started. *)
Handler == [op : Ops, step : Steps, seen : RowType, version : Nat, attempt : 1..Attempts, links : Nat, job : Nat]

Idle == [op |-> "finalize", step |-> "idle", seen |-> NoRow, version |-> 0, attempt |-> 1, links |-> 0, job |-> 0]

Job == [by : Procs, no : Nat, version : Nat, status : {"processing", "completed", "failed"}]

(* A row of before the columns of the scan were added has none of them      *)
(* ("deliberately not marked scanned", migration.sql:1).                    *)
Legacy == {[status |-> s, stamp |-> 1, version |-> 0, attested |-> FALSE] : s \in {"uploaded", "verified"}}

Init ==
  /\ scanning \in ScannerModes
  /\ detects = FALSE /\ expired = FALSE
  /\ (row = NoRow /\ puts = 0) \/ (row \in Legacy /\ puts = 1)
  /\ links = 0
  /\ call = [p \in Procs |-> Idle]
  /\ jobs = {} /\ urls = {} /\ cleared = {}
  /\ calls = 0 /\ failures = 0

-----------------------------------------------------------------------------
(* The row, the bucket and the scanner                                      *)

CreateUpload ==
  /\ row.status = "absent"
  /\ row' = [row EXCEPT !.status = "pending_upload", !.stamp = @ + 1]
  /\ UNCHANGED <<bucket, links, call, jobs, urls, cleared, calls, failures>>

Put ==
  /\ row.status # "absent" /\ puts < MaxPuts
  /\ puts' = puts + 1
  /\ UNCHANGED <<scanning, detects, expired, row, links, call, jobs, urls, cleared, calls, failures>>

SignaturesUpdated ==
  /\ ~detects /\ detects' = TRUE
  /\ UNCHANGED <<scanning, puts, expired, row, links, call, jobs, urls, cleared, calls, failures>>

Expire ==
  /\ ~expired /\ expired' = TRUE
  /\ UNCHANGED <<scanning, puts, detects, row, links, call, jobs, urls, cleared, calls, failures>>

(* EvidenceController.link, or a supplier acceptance: under the row lock.   *)
Link ==
  /\ row.status \notin {"absent", "rejected"} /\ links < MaxLinks
  /\ links' = links + 1
  /\ UNCHANGED <<bucket, row, call, jobs, urls, cleared, calls, failures>>

-----------------------------------------------------------------------------
(* Handlers up to the end of the scan                                       *)

(* assertCurrent: pending only where finalize asks for it.                  *)
Current(r, allowPending) ==
  /\ r.status \in {"uploaded", "verified"} \/ (allowPending /\ r.status = "pending_upload")
  /\ ~expired

(* Mutant of DownloadReady: no clean scan is asked for.                     *)
DownloadReadyUnscanned(r) == Current(r, FALSE) /\ r.version # 0

(* assertReviewDownloadReady: with a clean scan, in every deployment.       *)
DownloadReady(r) == Current(r, FALSE) /\ r.version # 0 /\ r.attested

Goes(p, step) == call' = [call EXCEPT ![p].step = step]

Ends(p) == call' = [call EXCEPT ![p] = Idle]

Load(p, op) ==
  /\ call[p].step = "idle" /\ calls < MaxCalls
  /\ IF op = "review" THEN DownloadReady(row) ELSE Current(row, op = "finalize")
  /\ call' = [call EXCEPT ![p] = [Idle EXCEPT !.op = op, !.step = "loaded", !.seen = row]]
  /\ calls' = calls + 1
  /\ UNCHANGED <<bucket, row, links, jobs, urls, cleared, failures>>

(* Mutant of Streamed: the latest version, whatever was pinned.             *)
StreamedLatest(p) == puts

(* verifyObjectSha256 reads the pinned version, else the latest.            *)
Streamed(p) == IF call[p].seen.version # 0 THEN call[p].seen.version ELSE puts

Head(p) ==
  /\ call[p].step = "loaded" /\ call[p].op # "review"
  /\ IF puts = 0 THEN Ends(p)   \* UPLOAD_NOT_FOUND
     ELSE call' = [call EXCEPT ![p].step = "streaming", ![p].version = Streamed(p)]
  /\ UNCHANGED <<bucket, row, links, jobs, urls, cleared, calls, failures>>

Scan(p) ==
  /\ call[p].step = "streaming"
  /\ IF scanning /\ detects
     THEN Goes(p, "detected") /\ UNCHANGED cleared
     ELSE /\ Goes(p, "scanned")
          /\ cleared' = IF scanning THEN cleared \cup {call[p].version} ELSE cleared
  /\ UNCHANGED <<bucket, row, links, jobs, urls, calls, failures>>

-----------------------------------------------------------------------------
(* What they write                                                          *)

(* Mutant of Unchanged: the write is not conditional.                       *)
UnchangedAssumed(p) == row.status # "absent"

(* updatedAt and verificationStatus are as loaded; else                     *)
(* EVIDENCE_CHANGED_RETRY.                                                  *)
Unchanged(p) == row.stamp = call[p].seen.stamp /\ row.status = call[p].seen.status

(* Without a scan there is nothing to add to a row that has its status.     *)
NothingToWrite(p) ==
  /\ ~scanning
  /\ \/ call[p].op = "finalize" /\ call[p].seen.status # "pending_upload"
     \/ call[p].op = "verify" /\ call[p].seen.status = "verified"

(* Mutant of Target: a finalization always ends in uploaded.                *)
TargetOfOp(p) == IF call[p].op = "verify" THEN "verified" ELSE "uploaded"

Target(p) == IF call[p].op = "verify" \/ call[p].seen.status = "verified" THEN "verified" ELSE "uploaded"

(* Mutant of Checked: the version is looked up again.                       *)
CheckedLatest(p) == [status |-> Target(p), stamp |-> row.stamp + 1, version |-> puts, attested |-> scanning]

Checked(p) == [status |-> Target(p), stamp |-> row.stamp + 1, version |-> call[p].version, attested |-> scanning]

(* finalize and verify: transition.                                         *)
Transition(p) ==
  /\ call[p].step = "scanned" /\ call[p].op \in {"finalize", "verify"}
  /\ row' = IF ~NothingToWrite(p) /\ ~expired /\ Unchanged(p) THEN Checked(p) ELSE row
  /\ Ends(p)
  /\ UNCHANGED <<bucket, links, jobs, urls, cleared, calls, failures>>

(* extractNow: the second look under the row lock, then the webhook.        *)
StartJob(p) ==
  /\ call[p].step = "scanned" /\ call[p].op = "extract"
  /\ IF Unchanged(p) /\ ~expired
     THEN /\ jobs' = jobs \cup {[by |-> p, no |-> calls, version |-> call[p].version, status |-> "processing"]}
          /\ call' = [call EXCEPT ![p].step = "extracting", ![p].job = calls]
     ELSE Ends(p) /\ UNCHANGED jobs
  /\ UNCHANGED <<bucket, row, links, urls, cleared, calls, failures>>

FinishJob(p, status) ==
  /\ call[p].step = "extracting"
  /\ jobs' = {IF j.by = p /\ j.no = call[p].job THEN [j EXCEPT !.status = status] ELSE j : j \in jobs}
  /\ Ends(p)
  /\ UNCHANGED <<bucket, row, links, urls, cleared, calls, failures>>

(* reviewDownload: HEAD on the pinned version, then the second look under   *)
(* the row lock and the signature.                                          *)
HeadPinned(p) ==
  /\ call[p].step = "loaded" /\ call[p].op = "review"
  /\ Goes(p, "headed")
  /\ UNCHANGED <<bucket, row, links, jobs, urls, cleared, calls, failures>>

IssueUrl(p) ==
  /\ call[p].step = "headed"
  /\ urls' = IF DownloadReady(row) /\ Unchanged(p) THEN urls \cup {row.version} ELSE urls
  /\ Ends(p)
  /\ UNCHANGED <<bucket, row, links, jobs, cleared, calls, failures>>

(* checkBytes on EVIDENCE_MALWARE_DETECTED: an attempt reads the links,     *)
(* locks their models (not modelled here: PassportTx) and the row, and      *)
(* starts over, up to three times, when the links are no longer the same.   *)
LookAtLinks(p) ==
  /\ call[p].step = "detected"
  /\ call' = [call EXCEPT ![p].step = "rejecting", ![p].links = links]
  /\ UNCHANGED <<bucket, row, links, jobs, urls, cleared, calls, failures>>

TryAgain(p) ==
  /\ call[p].step = "rejecting" /\ links # call[p].links
  /\ IF call[p].attempt < Attempts
     THEN call' = [call EXCEPT ![p].step = "detected", ![p].attempt = @ + 1]
     ELSE Ends(p)
  /\ UNCHANGED <<bucket, row, links, jobs, urls, cleared, calls, failures>>

Reject(p) ==
  /\ call[p].step = "rejecting" /\ links = call[p].links
  /\ row' = IF Unchanged(p) THEN [row EXCEPT !.status = "rejected", !.stamp = @ + 1, !.attested = FALSE] ELSE row
  /\ Ends(p)
  /\ UNCHANGED <<bucket, links, jobs, urls, cleared, calls, failures>>

(* Storage, scanner or database fail, or the process ends.  A job it had    *)
(* started stays as it is.                                                  *)
Fail(p) ==
  /\ call[p].step # "idle" /\ failures < MaxFailures
  /\ Ends(p)
  /\ failures' = failures + 1
  /\ UNCHANGED <<bucket, row, links, jobs, urls, cleared, calls>>

Next ==
  \/ CreateUpload \/ Put \/ SignaturesUpdated \/ Expire \/ Link
  \/ \E p \in Procs, op \in Ops : Load(p, op)
  \/ \E p \in Procs : Head(p) \/ Scan(p) \/ Transition(p) \/ StartJob(p) \/ HeadPinned(p) \/ IssueUrl(p)
  \/ \E p \in Procs : LookAtLinks(p) \/ TryAgain(p) \/ Reject(p) \/ Fail(p)
  \/ \E p \in Procs, status \in {"completed", "failed"} : FinishJob(p, status)

Spec == Init /\ [][Next]_vars
-----------------------------------------------------------------------------
(* Properties *)

TypeOK ==
  /\ scanning \in ScannerModes
  /\ puts \in 0..MaxPuts /\ detects \in BOOLEAN /\ expired \in BOOLEAN
  /\ row \in RowType /\ links \in 0..MaxLinks
  /\ call \in [Procs -> Handler]
  /\ jobs \subseteq Job /\ urls \subseteq Nat /\ cleared \subseteq Nat
  /\ calls \in 0..MaxCalls /\ failures \in 0..MaxFailures

(* Whatever handlers overlap, the row only moves as the aggregate assumes:  *)
(* "retrying a completed upload must never downgrade a reviewer's decision" *)
(* (evidence-storage.service.ts:123), and nothing leaves rejected.          *)
MovesAllowed ==
  [][row'.status # row.status => <<row.status, row'.status>> \in EvidenceMoves]_vars

(* The attestation on the row is for the version on the row: that version   *)
(* passed a scan, not one uploaded before or since.                         *)
AttestedWasCleared == row.attested => row.version \in cleared

(* "Reuse of an upload URL cannot replace the bytes that were scanned"      *)
(* (docs/18_MALWARE_SCANNING.md:14): the pinned version never changes.      *)
PinnedStays == [][row.version # 0 => row'.version = row.version]_vars

(* Only versions that passed a scan ever leave for a review download.       *)
UrlsWereCleared == urls \subseteq cleared

(* A job starts only on evidence that is still usable when it starts, and   *)
(* gets the version on the row; if there is none yet, one that passed the   *)
(* scan, and the row is not attested by it ("Legacy evidence gains no       *)
(* usable attestation merely by asking for extraction",                     *)
(* evidence-storage.service.ts:193).                                        *)
JobsGetThePinnedVersion ==
  [][\A j \in jobs' \ jobs : j.status = "processing" =>
       /\ row.status \in {"uploaded", "verified"} /\ row' = row
       /\ IF row.version # 0 THEN j.version = row.version ELSE scanning => j.version \in cleared]_vars

(* docs/21_PRODUCTION_SECURITY_RUNBOOK.md:238: "Malware detections persist  *)
(* AuditEvent.action="evidence.malware_rejected"", written with the         *)
(* rejection: the handler that has a detection does not end, unless it      *)
(* fails, before the row is rejected.                                       *)
DetectedIsRejected ==
  [][\A p \in Procs :
       call[p].step = "rejecting" /\ call'[p].step = "idle" /\ failures' = failures
         => row'.status = "rejected"]_vars
=============================================================================
