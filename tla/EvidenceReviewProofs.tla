------------------------ MODULE EvidenceReviewProofs ------------------------
(***************************************************************************)
(* EvidenceReview for any number of handlers, uploads, links and failures: *)
(* its types, that an attestation and a download URL are only ever for a   *)
(* version that passed the scan, that the pinned version stays, that the   *)
(* status moves as the aggregate assumes, and that a job gets the pinned   *)
(* version of usable evidence.                                             *)
(***************************************************************************)
EXTENDS EvidenceReview, TLAPS

-----------------------------------------------------------------------------
(* Types *)

LEMMA EmptyTypes == NoRow \in RowType /\ Legacy \subseteq RowType /\ Idle \in Handler
<1>1. NoRow \in RowType
  BY DEF NoRow, RowType, EvidenceStatus
<1>2. 1 \in 1..Attempts
  BY DEF Attempts
<1>3. Legacy \subseteq RowType
  <2>1. ASSUME NEW s \in {"uploaded", "verified"}
        PROVE  [status |-> s, stamp |-> 1, version |-> 0, attested |-> FALSE] \in RowType
    BY DEF RowType, EvidenceStatus
  <2> QED
    BY <2>1, Zenon DEF Legacy
<1> QED
  BY <1>1, <1>2, <1>3 DEF Idle, Handler, Ops, Steps

(* Replacing the handler of one process keeps the type of call.             *)
LEMMA CallType ==
  ASSUME TypeOK, NEW p \in Procs, NEW h \in Handler, call' = [call EXCEPT ![p] = h]
  PROVE  call' \in [Procs -> Handler] /\ \A q \in Procs : call'[q] = IF q = p THEN h ELSE call[q]
  BY DEF TypeOK

(* A handler at another step is a handler.                                  *)
LEMMA StepType ==
  ASSUME NEW h \in Handler, NEW s \in Steps
  PROVE  [h EXCEPT !.step = s] \in Handler
  BY DEF Handler

(* Ends and Goes write the handler of one process.                          *)
LEMMA EndsType ==
  ASSUME TypeOK, NEW p \in Procs, Ends(p)
  PROVE  call' \in [Procs -> Handler]
  BY EmptyTypes, CallType DEF Ends

LEMMA GoesType ==
  ASSUME TypeOK, NEW p \in Procs, NEW s \in Steps, Goes(p, s)
  PROVE  call' = [call EXCEPT ![p] = [call[p] EXCEPT !.step = s]] /\ call' \in [Procs -> Handler]
<1>1. call[p] \in Handler
  BY DEF TypeOK
<1>2. call' = [call EXCEPT ![p] = [call[p] EXCEPT !.step = s]]
  BY DEF Goes
<1> QED
  BY <1>1, <1>2, StepType, CallType

(* The row written by createUpload, and by a rejection, is a row with a     *)
(* later stamp.                                                             *)
LEMMA WrittenType ==
  ASSUME TypeOK, NEW s \in EvidenceStatus
  PROVE  /\ [row EXCEPT !.status = s, !.stamp = @ + 1] \in RowType
         /\ [row EXCEPT !.status = s, !.stamp = @ + 1, !.attested = FALSE] \in RowType
<1>1. row \in RowType /\ row.stamp + 1 \in Nat
  BY DEF TypeOK, RowType
<1> QED
  BY <1>1 DEF RowType

(* What finalize and verify write is a row.                                 *)
LEMMA CheckedType ==
  ASSUME TypeOK, NEW p \in Procs
  PROVE  Checked(p) \in RowType
<1>1. call[p].version \in Nat /\ row.stamp + 1 \in Nat /\ scanning \in BOOLEAN /\ Target(p) \in EvidenceStatus
  BY ReviewAssumption DEF TypeOK, Handler, RowType, Target, EvidenceStatus
<1> QED
  BY <1>1 DEF Checked, RowType

(* Every handler keeps rows, jobs and handlers well formed and gives up     *)
(* after three attempts (TypeOK of evidence_review).                        *)
THEOREM ReviewTypes == Spec => []TypeOK
<1>1. Init => TypeOK
  <2> SUFFICES ASSUME Init PROVE TypeOK
    OBVIOUS
  <2>1. row \in RowType /\ call \in [Procs -> Handler] /\ scanning \in ScannerModes
    BY EmptyTypes DEF Init
  <2>2. links \in 0..MaxLinks /\ puts \in 0..MaxPuts /\ calls \in 0..MaxCalls /\ failures \in 0..MaxFailures
    BY ReviewAssumption DEF Init
  <2> QED
    BY <2>1, <2>2 DEF Init, TypeOK
<1>2. TypeOK /\ [Next]_vars => TypeOK'
  <2> SUFFICES ASSUME TypeOK, [Next]_vars PROVE TypeOK'
    OBVIOUS
  <2> USE ReviewAssumption
  <2>1. CASE CreateUpload
    <3>1. [row EXCEPT !.status = "pending_upload", !.stamp = @ + 1] \in RowType
      BY WrittenType DEF EvidenceStatus
    <3> QED
      BY <2>1, <3>1 DEF CreateUpload, TypeOK, bucket
  <2>2. CASE Put
    BY <2>2 DEF Put, TypeOK
  <2>3. CASE SignaturesUpdated \/ Expire
    BY <2>3 DEF SignaturesUpdated, Expire, TypeOK
  <2>4. CASE Link
    BY <2>4 DEF Link, TypeOK, bucket
  <2>5. ASSUME NEW p \in Procs, NEW op \in Ops, Load(p, op) PROVE TypeOK'
    <3>1. [Idle EXCEPT !.op = op, !.step = "loaded", !.seen = row] \in Handler
      BY EmptyTypes DEF TypeOK, Handler, Steps
    <3>2. call' \in [Procs -> Handler]
      BY <2>5, <3>1, CallType DEF Load
    <3> QED
      BY <2>5, <3>2 DEF Load, TypeOK, bucket
  <2>6. ASSUME NEW p \in Procs, Head(p) PROVE TypeOK'
    <3>1. call[p] \in Handler /\ "streaming" \in Steps /\ puts \in Nat
      BY DEF TypeOK, Steps
    <3>2. Streamed(p) \in Nat
      BY <3>1 DEF Streamed, Handler, RowType
    <3>3. [call[p] EXCEPT !.step = "streaming", !.version = Streamed(p)] \in Handler
      BY <3>1, <3>2 DEF Handler
    <3>4. Ends(p) \/ call' = [call EXCEPT ![p] = [call[p] EXCEPT !.step = "streaming", !.version = Streamed(p)]]
      BY <2>6 DEF Head
    <3>5. call' \in [Procs -> Handler]
      BY <3>3, <3>4, CallType, EndsType
    <3> QED
      BY <2>6, <3>5 DEF Head, TypeOK, bucket
  <2>7. ASSUME NEW p \in Procs, Scan(p) PROVE TypeOK'
    <3>1. call' \in [Procs -> Handler]
      BY <2>7, GoesType DEF Scan, Steps
    <3>2. cleared' \subseteq Nat
      <4>1. call[p].version \in Nat /\ cleared \subseteq Nat
        BY DEF TypeOK, Handler
      <4> QED
        BY <2>7, <4>1 DEF Scan
    <3> QED
      BY <2>7, <3>1, <3>2 DEF Scan, TypeOK, bucket
  <2>8. ASSUME NEW p \in Procs, Transition(p) PROVE TypeOK'
    BY <2>8, CheckedType, EndsType DEF Transition, TypeOK, bucket
  <2>9. ASSUME NEW p \in Procs, StartJob(p) PROVE TypeOK'
    <3>1. call[p] \in Handler /\ call[p].version \in Nat /\ calls \in Nat /\ "extracting" \in Steps
      BY DEF TypeOK, Handler, Steps
    <3>2. [call[p] EXCEPT !.step = "extracting", !.job = calls] \in Handler
      BY <3>1 DEF Handler
    <3>5. Ends(p) \/ call' = [call EXCEPT ![p] = [call[p] EXCEPT !.step = "extracting", !.job = calls]]
      BY <2>9 DEF StartJob
    <3>3. call' \in [Procs -> Handler]
      BY <3>2, <3>5, CallType, EndsType
    <3>4. [by |-> p, no |-> calls, version |-> call[p].version, status |-> "processing"] \in Job
      BY <3>1 DEF Job
    <3> QED
      BY <2>9, <3>3, <3>4 DEF StartJob, TypeOK, bucket
  <2>10. ASSUME NEW p \in Procs, HeadPinned(p) PROVE TypeOK'
    <3>1. call' \in [Procs -> Handler]
      BY <2>10, GoesType DEF HeadPinned, Steps
    <3> QED
      BY <2>10, <3>1 DEF HeadPinned, TypeOK, bucket
  <2>11. ASSUME NEW p \in Procs, IssueUrl(p) PROVE TypeOK'
    BY <2>11, EndsType DEF IssueUrl, TypeOK, RowType, bucket
  <2>12. ASSUME NEW p \in Procs, LookAtLinks(p) PROVE TypeOK'
    <3>1. call[p] \in Handler /\ "rejecting" \in Steps /\ links \in Nat
      BY DEF TypeOK, Steps
    <3>2. [call[p] EXCEPT !.step = "rejecting", !.links = links] \in Handler
      BY <3>1 DEF Handler
    <3>3. call' = [call EXCEPT ![p] = [call[p] EXCEPT !.step = "rejecting", !.links = links]]
      BY <2>12 DEF LookAtLinks
    <3>4. call' \in [Procs -> Handler]
      BY <3>2, <3>3, CallType
    <3> QED
      BY <2>12, <3>4 DEF LookAtLinks, TypeOK, bucket
  <2>13. ASSUME NEW p \in Procs, TryAgain(p) PROVE TypeOK'
    <3>1. CASE call[p].attempt < Attempts
      <4>1. call[p] \in Handler /\ "detected" \in Steps /\ call[p].attempt + 1 \in 1..Attempts
        BY <3>1 DEF TypeOK, Steps, Handler, Attempts
      <4>2. [call[p] EXCEPT !.step = "detected", !.attempt = @ + 1] \in Handler
        BY <4>1 DEF Handler
      <4>3. call' = [call EXCEPT ![p] = [call[p] EXCEPT !.step = "detected", !.attempt = @ + 1]]
        BY <2>13, <3>1 DEF TryAgain
      <4>4. call' \in [Procs -> Handler]
        BY <4>2, <4>3, CallType
      <4> QED
        BY <2>13, <4>4 DEF TryAgain, TypeOK, bucket
    <3>2. CASE ~(call[p].attempt < Attempts)
      BY <2>13, <3>2, EndsType DEF TryAgain, TypeOK, bucket
    <3> QED
      BY <3>1, <3>2
  <2>14. ASSUME NEW p \in Procs, Reject(p) PROVE TypeOK'
    <3>1. [row EXCEPT !.status = "rejected", !.stamp = @ + 1, !.attested = FALSE] \in RowType
      BY WrittenType DEF EvidenceStatus
    <3> QED
      BY <2>14, <3>1, EndsType DEF Reject, TypeOK, bucket
  <2>15. ASSUME NEW p \in Procs, Fail(p) PROVE TypeOK'
    BY <2>15, EndsType DEF Fail, TypeOK, bucket
  <2>16. ASSUME NEW p \in Procs, NEW status \in {"completed", "failed"}, FinishJob(p, status) PROVE TypeOK'
    <3>1. ASSUME NEW j \in Job PROVE [j EXCEPT !.status = status] \in Job
      BY DEF Job
    <3>2. jobs' \subseteq Job
      BY <2>16, <3>1 DEF FinishJob, TypeOK
    <3> QED
      BY <2>16, <3>2, EndsType DEF FinishJob, TypeOK, bucket
  <2>17. CASE UNCHANGED vars
    BY <2>17 DEF vars, bucket, TypeOK
  <2> QED
    BY <2>1, <2>2, <2>3, <2>4, <2>5, <2>6, <2>7, <2>8, <2>9, <2>10, <2>11, <2>12, <2>13, <2>14, <2>15, <2>16, <2>17
       DEF Next
<1> QED
  BY <1>1, <1>2, PTL DEF Spec

-----------------------------------------------------------------------------
(* The invariant.  updatedAt identifies the row: a handler that finds the   *)
(* row unchanged knows all of it, so what it streamed is the pinned version *)
(* if there was one, and what it found clean is what it writes.             *)

HandlerOK(h) ==
  h.step # "idle" =>
    /\ h.seen.status \in {"pending_upload", "uploaded", "verified"}
    /\ h.op # "finalize" => h.seen.status # "pending_upload"
    /\ h.seen.stamp <= row.stamp
    /\ h.seen.stamp = row.stamp => h.seen = row
    /\ h.step \notin {"loaded", "headed"} => h.version # 0 /\ (h.seen.version # 0 => h.version = h.seen.version)
    /\ h.step = "scanned" /\ scanning => h.version \in cleared

ReviewInv == AttestedWasCleared /\ UrlsWereCleared /\ \A p \in Procs : HandlerOK(call[p])

(* Every write gives the row a later stamp.                                 *)
RowStep ==
  /\ scanning' = scanning /\ cleared \subseteq cleared'
  /\ row' \in RowType
  /\ row' = row \/ row'.stamp = row.stamp + 1

(* A step of one handler leaves what the others know true.                  *)
LEMMA OthersKept ==
  ASSUME TypeOK, RowStep, NEW h \in Handler, HandlerOK(h)
  PROVE  HandlerOK(h)'
<1>1. h.seen.stamp \in Nat /\ row.stamp \in Nat /\ row'.stamp \in Nat
  BY DEF TypeOK, RowStep, RowType, Handler
<1> QED
  BY <1>1 DEF HandlerOK, RowStep

LEMMA OneHandler ==
  ASSUME TypeOK, ReviewInv, RowStep, NEW p \in Procs, NEW h, call' = [call EXCEPT ![p] = h],
         HandlerOK(h)'
  PROVE  \A q \in Procs : HandlerOK(call[q])'
<1> SUFFICES ASSUME NEW q \in Procs PROVE HandlerOK(call[q])'
  OBVIOUS
<1>1. CASE q = p
  <2>1. call'[q] = h
    BY <1>1 DEF TypeOK
  <2> QED
    BY <2>1 DEF HandlerOK
<1>2. CASE q # p
  <2>1. call'[q] = call[q] /\ call[q] \in Handler /\ HandlerOK(call[q])
    BY <1>2 DEF TypeOK, ReviewInv
  <2> QED
    BY <2>1, OthersKept DEF HandlerOK
<1> QED
  BY <1>1, <1>2

(* A handler that ends knows nothing.                                       *)
LEMMA EndKept ==
  ASSUME TypeOK, ReviewInv, RowStep, NEW p \in Procs, Ends(p)
  PROVE  \A q \in Procs : HandlerOK(call[q])'
<1>1. HandlerOK(Idle)'
  BY DEF HandlerOK, Idle
<1> QED
  BY <1>1, OneHandler DEF Ends

(* A step that writes neither the row nor the history.                      *)
LEMMA QuietStep ==
  ASSUME TypeOK, UNCHANGED <<row, scanning, cleared>>
  PROVE  RowStep
  BY DEF TypeOK, RowStep

(* What a handler with an unchanged row has seen is the row.                *)
LEMMA UnchangedIsSame ==
  ASSUME ReviewInv, NEW p \in Procs, call[p].step # "idle", Unchanged(p)
  PROVE  call[p].seen = row
  BY DEF ReviewInv, HandlerOK, Unchanged

(* What finalize and verify write when the row is unchanged.                *)
LEMMA CheckedOK ==
  ASSUME TypeOK, ReviewInv, NEW p \in Procs, call[p].step = "scanned", call[p].op \in {"finalize", "verify"},
         Unchanged(p)
  PROVE  /\ Checked(p).version # 0 /\ Checked(p).stamp = row.stamp + 1
         /\ Checked(p).attested => Checked(p).version \in cleared
         /\ row.version # 0 => Checked(p).version = row.version
         /\ Checked(p).status # row.status => <<row.status, Checked(p).status>> \in EvidenceMoves
<1>1. call[p].seen = row /\ HandlerOK(call[p])
  BY UnchangedIsSame DEF ReviewInv
<1> QED
  BY <1>1 DEF HandlerOK, Checked, Target, EvidenceMoves

(* Every step keeps the invariant.                                          *)
LEMMA ReviewStep == TypeOK /\ ReviewInv /\ [Next]_vars => ReviewInv'
<1> SUFFICES ASSUME TypeOK, ReviewInv, [Next]_vars PROVE ReviewInv'
  OBVIOUS
<1>1. ASSUME UNCHANGED <<row, scanning, cleared, urls>>, \A q \in Procs : HandlerOK(call[q])' PROVE ReviewInv'
  BY <1>1 DEF ReviewInv, AttestedWasCleared, UrlsWereCleared
<1>2. ASSUME UNCHANGED <<row, scanning, cleared, urls>>, NEW p \in Procs, Ends(p) PROVE ReviewInv'
  BY <1>1, <1>2, QuietStep, EndKept
<1>3. ASSUME UNCHANGED <<row, scanning, cleared, urls>>, NEW p \in Procs, NEW h, call' = [call EXCEPT ![p] = h],
             HandlerOK(h)
      PROVE ReviewInv'
  <2>1. HandlerOK(h)'
    BY <1>3 DEF HandlerOK
  <2> QED
    BY <1>1, <1>3, <2>1, QuietStep, OneHandler
<1>4. CASE CreateUpload
  <2>1. RowStep /\ call' = call /\ urls' = urls /\ cleared' = cleared
    <3>1. [row EXCEPT !.status = "pending_upload", !.stamp = @ + 1] \in RowType
      BY WrittenType DEF EvidenceStatus
    <3> QED
      BY <1>4, <3>1 DEF CreateUpload, RowStep, bucket, TypeOK, RowType
  <2>2. \A q \in Procs : HandlerOK(call[q])'
    BY <2>1, OthersKept DEF ReviewInv, TypeOK, HandlerOK
  <2>3. row'.status = "pending_upload" /\ row'.version = row.version /\ row'.attested = row.attested
    BY <1>4 DEF CreateUpload, TypeOK, RowType
  <2> QED
    BY <2>1, <2>2, <2>3 DEF ReviewInv, AttestedWasCleared, UrlsWereCleared
<1>5. CASE Put \/ SignaturesUpdated \/ Expire \/ Link
  BY <1>1, <1>5 DEF Put, SignaturesUpdated, Expire, Link, bucket, ReviewInv, HandlerOK
<1>6. ASSUME NEW p \in Procs, NEW op \in Ops, Load(p, op) PROVE ReviewInv'
  <2> DEFINE h == [Idle EXCEPT !.op = op, !.step = "loaded", !.seen = row]
  <2>1. h.op = op /\ h.step = "loaded" /\ h.seen = row
    BY DEF Idle
  <2>2. row.status \in {"uploaded", "verified"} \/ (op = "finalize" /\ row.status = "pending_upload")
    BY <1>6 DEF Load, DownloadReady, Current
  <2>3. call' = [call EXCEPT ![p] = h] /\ UNCHANGED <<row, scanning, cleared, urls>> /\ row.stamp \in Nat
    BY <1>6 DEF Load, bucket, TypeOK, RowType
  <2> HIDE DEF h
  <2>4. HandlerOK(h)
    BY <2>1, <2>2, <2>3 DEF HandlerOK
  <2> QED
    BY <1>3, <2>3, <2>4
<1>7. ASSUME NEW p \in Procs, NEW s \in Steps, call' = [call EXCEPT ![p].step = s],
             call[p].step # "idle", s \in {"loaded", "headed"} \/ call[p].step \notin {"loaded", "headed"},
             s = "scanned" => call[p].step = "scanned", UNCHANGED <<row, scanning, cleared, urls>>
      PROVE ReviewInv'
  <2>1. call[p] \in Handler /\ HandlerOK(call[p])
    BY DEF TypeOK, ReviewInv
  <2>2. HandlerOK([call[p] EXCEPT !.step = s])
    BY <1>7, <2>1 DEF HandlerOK, Handler
  <2> QED
    BY <1>3, <1>7, <2>2
<1>8. ASSUME NEW p \in Procs, Head(p) PROVE ReviewInv'
  <2>1. UNCHANGED <<row, scanning, cleared, urls>>
    BY <1>8 DEF Head, bucket
  <2>2. CASE puts = 0
    BY <1>2, <1>8, <2>1, <2>2 DEF Head
  <2>3. CASE puts # 0
    <3> DEFINE h == [call[p] EXCEPT !.step = "streaming", !.version = Streamed(p)]
    <3>1. call[p] \in Handler /\ HandlerOK(call[p]) /\ call[p].step = "loaded"
      BY <1>8 DEF TypeOK, ReviewInv, Head
    <3>2. h.op = call[p].op /\ h.seen = call[p].seen /\ h.step = "streaming" /\ h.version = Streamed(p)
      BY <3>1 DEF Handler
    <3>3. call' = [call EXCEPT ![p] = h]
      BY <1>8, <2>3 DEF Head
    <3> HIDE DEF h
    <3>4. HandlerOK(h)
      BY <2>3, <3>1, <3>2 DEF HandlerOK, Streamed
    <3> QED
      BY <1>3, <2>1, <3>3, <3>4
  <2> QED
    BY <2>2, <2>3
<1>9. ASSUME NEW p \in Procs, Scan(p) PROVE ReviewInv'
  <2>1. CASE scanning /\ detects
    BY <1>7, <1>9, <2>1 DEF Scan, Goes, Steps, bucket
  <2>2. CASE ~(scanning /\ detects)
    <3> DEFINE h == [call[p] EXCEPT !.step = "scanned"]
    <3>1. call[p] \in Handler /\ HandlerOK(call[p]) /\ call[p].step = "streaming"
      BY <1>9 DEF TypeOK, ReviewInv, Scan
    <3>2. h.op = call[p].op /\ h.seen = call[p].seen /\ h.step = "scanned" /\ h.version = call[p].version
      BY <3>1 DEF Handler
    <3>3. call' = [call EXCEPT ![p] = h] /\ UNCHANGED <<row, scanning, urls>>
          /\ (scanning => call[p].version \in cleared') /\ cleared \subseteq cleared'
      BY <1>9, <2>2 DEF Scan, Goes, bucket
    <3> HIDE DEF h
    <3>4. ASSUME NEW k, k = h PROVE HandlerOK(k)'
      BY <3>1, <3>2, <3>3, <3>4 DEF HandlerOK
    <3>5. RowStep
      BY <3>3 DEF RowStep, TypeOK
    <3>6. \A q \in Procs : HandlerOK(call[q])'
      BY <3>3, <3>4, <3>5, OneHandler
    <3> QED
      BY <3>3, <3>6 DEF ReviewInv, AttestedWasCleared, UrlsWereCleared
  <2> QED
    BY <2>1, <2>2
<1>10. ASSUME NEW p \in Procs, Transition(p) PROVE ReviewInv'
  <2>1. Ends(p) /\ UNCHANGED <<scanning, cleared, urls>>
    BY <1>10 DEF Transition, bucket
  <2>2. CASE row' = row
    BY <1>2, <2>1, <2>2
  <2>3. CASE row' = Checked(p) /\ Unchanged(p)
    <3>1. RowStep
      BY <1>10, <2>1, <2>3, CheckedOK, CheckedType DEF RowStep, Transition
    <3>2. \A q \in Procs : HandlerOK(call[q])'
      BY <2>1, <3>1, EndKept
    <3>3. row'.version # 0 /\ (row'.attested => row'.version \in cleared)
      BY <1>10, <2>3, CheckedOK DEF Transition
    <3> QED
      BY <2>1, <3>2, <3>3 DEF ReviewInv, AttestedWasCleared, UrlsWereCleared
  <2> QED
    BY <1>10, <2>2, <2>3 DEF Transition
<1>11. ASSUME NEW p \in Procs, StartJob(p) PROVE ReviewInv'
  <2>1. UNCHANGED <<row, scanning, cleared, urls>>
    BY <1>11 DEF StartJob, bucket
  <2>2. CASE Ends(p)
    BY <1>2, <2>1, <2>2
  <2>3. CASE call' = [call EXCEPT ![p].step = "extracting", ![p].job = calls]
    <3> DEFINE h == [call[p] EXCEPT !.step = "extracting", !.job = calls]
    <3>1. call[p] \in Handler /\ HandlerOK(call[p]) /\ call[p].step = "scanned"
      BY <1>11 DEF TypeOK, ReviewInv, StartJob
    <3>2. h.op = call[p].op /\ h.seen = call[p].seen /\ h.step = "extracting" /\ h.version = call[p].version
      BY <3>1 DEF Handler
    <3>3. call' = [call EXCEPT ![p] = h]
      BY <2>3
    <3> HIDE DEF h
    <3>4. HandlerOK(h)
      BY <3>1, <3>2 DEF HandlerOK
    <3> QED
      BY <1>3, <2>1, <3>3, <3>4
  <2> QED
    BY <1>11, <2>2, <2>3 DEF StartJob
<1>12. ASSUME NEW p \in Procs, HeadPinned(p) PROVE ReviewInv'
  BY <1>7, <1>12 DEF HeadPinned, Goes, Steps, bucket
<1>13. ASSUME NEW p \in Procs, IssueUrl(p) PROVE ReviewInv'
  <2>1. Ends(p) /\ UNCHANGED <<row, scanning, cleared>>
    BY <1>13 DEF IssueUrl, bucket
  <2>2. \A q \in Procs : HandlerOK(call[q])'
    BY <2>1, QuietStep, EndKept
  <2>3. urls' \subseteq cleared
    BY <1>13 DEF IssueUrl, DownloadReady, ReviewInv, AttestedWasCleared, UrlsWereCleared
  <2> QED
    BY <2>1, <2>2, <2>3 DEF ReviewInv, AttestedWasCleared, UrlsWereCleared
<1>14. ASSUME NEW p \in Procs, NEW h, call' = [call EXCEPT ![p] = h], UNCHANGED <<row, scanning, cleared, urls>>,
              h.op = call[p].op, h.seen = call[p].seen, h.version = call[p].version,
              call[p].step \in {"detected", "rejecting"}, h.step \in {"detected", "rejecting"}
       PROVE  ReviewInv'
  <2>1. HandlerOK(call[p])
    BY DEF ReviewInv
  <2>2. HandlerOK(h)
    BY <1>14, <2>1 DEF HandlerOK
  <2> QED
    BY <1>3, <1>14, <2>2
<1>15. ASSUME NEW p \in Procs, LookAtLinks(p) PROVE ReviewInv'
  <2> DEFINE h == [call[p] EXCEPT !.step = "rejecting", !.links = links]
  <2>1. h.op = call[p].op /\ h.seen = call[p].seen /\ h.step = "rejecting" /\ h.version = call[p].version
    BY DEF TypeOK, Handler
  <2>2. call' = [call EXCEPT ![p] = h] /\ call[p].step = "detected" /\ UNCHANGED <<row, scanning, cleared, urls>>
    BY <1>15 DEF LookAtLinks, bucket
  <2> HIDE DEF h
  <2> QED
    BY <1>14, <2>1, <2>2
<1>16. ASSUME NEW p \in Procs, TryAgain(p) PROVE ReviewInv'
  <2>1. UNCHANGED <<row, scanning, cleared, urls>> /\ call[p].step = "rejecting"
    BY <1>16 DEF TryAgain, bucket
  <2>2. CASE Ends(p)
    BY <1>2, <2>1, <2>2
  <2>3. CASE ~Ends(p)
    <3> DEFINE h == [call[p] EXCEPT !.step = "detected", !.attempt = @ + 1]
    <3>1. h.op = call[p].op /\ h.seen = call[p].seen /\ h.step = "detected" /\ h.version = call[p].version
      BY DEF TypeOK, Handler
    <3>2. call' = [call EXCEPT ![p] = h]
      BY <1>16, <2>3 DEF TryAgain
    <3> HIDE DEF h
    <3> QED
      BY <1>14, <2>1, <3>1, <3>2
  <2> QED
    BY <2>2, <2>3
<1>17. ASSUME NEW p \in Procs, Reject(p) PROVE ReviewInv'
  <2>1. Ends(p) /\ UNCHANGED <<scanning, cleared, urls>>
    BY <1>17 DEF Reject, bucket
  <2>2. CASE row' = row
    BY <1>2, <2>1, <2>2
  <2>3. CASE row' = [row EXCEPT !.status = "rejected", !.stamp = @ + 1, !.attested = FALSE]
    <3>1. row'.status = "rejected" /\ ~row'.attested /\ row'.stamp = row.stamp + 1
      BY <2>3 DEF TypeOK, RowType
    <3>3. row' \in RowType
      BY <2>3, WrittenType DEF EvidenceStatus
    <3>2. \A q \in Procs : HandlerOK(call[q])'
      BY <2>1, <3>1, <3>3, EndKept DEF RowStep
    <3> QED
      BY <2>1, <3>1, <3>2 DEF ReviewInv, AttestedWasCleared, UrlsWereCleared
  <2> QED
    BY <1>17, <2>2, <2>3 DEF Reject
<1>18. ASSUME NEW p \in Procs, Fail(p) \/ \E status : FinishJob(p, status) PROVE ReviewInv'
  BY <1>2, <1>18 DEF Fail, FinishJob, bucket
<1>19. CASE UNCHANGED vars
  BY <1>1, <1>19 DEF vars, bucket, ReviewInv, HandlerOK
<1> QED
  BY <1>4, <1>5, <1>6, <1>8, <1>9, <1>10, <1>11, <1>12, <1>13, <1>15, <1>16, <1>17, <1>18, <1>19 DEF Next

LEMMA ReviewAlways == Spec => []ReviewInv
<1>1. Init => ReviewInv
  BY DEF Init, NoRow, Legacy, Idle, ReviewInv, HandlerOK, AttestedWasCleared, UrlsWereCleared
<1> QED
  BY <1>1, ReviewStep, ReviewTypes, PTL DEF Spec

-----------------------------------------------------------------------------
(* Results                                                                  *)

(* The attested version is one that passed a scan (AttestedWasCleared).     *)
THEOREM AttestationIsEarned == Spec => []AttestedWasCleared
  BY ReviewAlways, PTL DEF ReviewInv

(* A review download is only ever signed for a version that passed a scan   *)
(* (UrlsWereCleared), whatever happens between HEAD and the signature.      *)
THEOREM DownloadsAreClean == Spec => []UrlsWereCleared
  BY ReviewAlways, PTL DEF ReviewInv

(* Three handlers write the row.                                            *)
LEMMA RowWriters ==
  ASSUME [Next]_vars
  PROVE  \/ row' = row
         \/ CreateUpload
         \/ \E p \in Procs : /\ Unchanged(p) /\ row' = Checked(p)
                             /\ call[p].step = "scanned" /\ call[p].op \in {"finalize", "verify"}
         \/ \E p \in Procs : /\ Unchanged(p) /\ call[p].step = "rejecting"
                             /\ row' = [row EXCEPT !.status = "rejected", !.stamp = @ + 1, !.attested = FALSE]
<1>1. Put \/ SignaturesUpdated \/ Expire \/ Link \/ UNCHANGED vars => row' = row
  BY DEF Put, SignaturesUpdated, Expire, Link, vars
<1>2. \A p, op : Load(p, op) => row' = row
  BY DEF Load
<1>3. \A p : Head(p) \/ Scan(p) \/ StartJob(p) \/ HeadPinned(p) \/ IssueUrl(p) => row' = row
  BY DEF Head, Scan, StartJob, HeadPinned, IssueUrl
<1>4. \A p : LookAtLinks(p) \/ TryAgain(p) \/ Fail(p) => row' = row
  BY DEF LookAtLinks, TryAgain, Fail
<1>5. \A p, status : FinishJob(p, status) => row' = row
  BY DEF FinishJob
<1> QED
  BY <1>1, <1>2, <1>3, <1>4, <1>5 DEF Next, Transition, Reject

(* The status of the row moves only along EvidenceMoves (MovesAllowed),     *)
(* which is all PassportAggregate assumes of it.                            *)
THEOREM MovesAreAllowed == Spec => MovesAllowed
<1>1. TypeOK /\ ReviewInv /\ [Next]_vars =>
        [row'.status # row.status => <<row.status, row'.status>> \in EvidenceMoves]_vars
  <2> SUFFICES ASSUME TypeOK, ReviewInv, [Next]_vars, row'.status # row.status
               PROVE  <<row.status, row'.status>> \in EvidenceMoves
    OBVIOUS
  <2>1. CASE CreateUpload
    BY <2>1 DEF CreateUpload, EvidenceMoves, TypeOK, RowType
  <2>2. ASSUME NEW p \in Procs, Unchanged(p), row' = Checked(p), call[p].step = "scanned",
               call[p].op \in {"finalize", "verify"}
        PROVE  <<row.status, row'.status>> \in EvidenceMoves
    BY <2>2, CheckedOK
  <2>3. ASSUME NEW p \in Procs, Unchanged(p), call[p].step = "rejecting", row'.status = "rejected"
        PROVE  <<row.status, row'.status>> \in EvidenceMoves
    BY <2>3, UnchangedIsSame DEF ReviewInv, HandlerOK, EvidenceMoves
  <2>4. [row EXCEPT !.status = "rejected", !.stamp = @ + 1, !.attested = FALSE].status = "rejected"
    BY DEF TypeOK, RowType
  <2> QED
    BY <2>1, <2>2, <2>3, <2>4, RowWriters
<1> QED
  BY <1>1, ReviewTypes, ReviewAlways, PTL DEF Spec, MovesAllowed

(* The pinned version stays (PinnedStays): no later upload through the      *)
(* signed URL, and no overlapping handler, replaces it.                     *)
THEOREM PinnedVersionStays == Spec => PinnedStays
<1>1. TypeOK /\ ReviewInv /\ [Next]_vars => [row.version # 0 => row'.version = row.version]_vars
  <2> SUFFICES ASSUME TypeOK, ReviewInv, [Next]_vars, row.version # 0 PROVE row'.version = row.version
    OBVIOUS
  <2>1. CASE CreateUpload
    BY <2>1 DEF CreateUpload, TypeOK, RowType
  <2>2. ASSUME NEW p \in Procs, Unchanged(p), row' = Checked(p), call[p].step = "scanned",
               call[p].op \in {"finalize", "verify"}
        PROVE  row'.version = row.version
    BY <2>2, CheckedOK
  <2>3. [row EXCEPT !.status = "rejected", !.stamp = @ + 1, !.attested = FALSE].version = row.version
    BY DEF TypeOK, RowType
  <2> QED
    BY <2>1, <2>2, <2>3, RowWriters
<1> QED
  BY <1>1, ReviewTypes, ReviewAlways, PTL DEF Spec, PinnedStays

(* A job starts on evidence that is still usable, with the pinned version   *)
(* or one that passed the scan (JobsGetThePinnedVersion).                   *)
THEOREM JobsArePinned == Spec => JobsGetThePinnedVersion
<1> DEFINE Pinned(j) ==
             /\ row.status \in {"uploaded", "verified"} /\ row' = row
             /\ IF row.version # 0 THEN j.version = row.version ELSE scanning => j.version \in cleared
           Started == \A j \in jobs' \ jobs : j.status = "processing" => Pinned(j)
<1>1. TypeOK /\ ReviewInv /\ [Next]_vars => [Started]_vars
  <2> SUFFICES ASSUME TypeOK, ReviewInv, [Next]_vars PROVE Started
    OBVIOUS
  <2>1. ASSUME NEW p \in Procs, StartJob(p) PROVE Started
    <3>1. CASE Unchanged(p) /\ ~expired
      <4>1. call[p].seen = row /\ HandlerOK(call[p]) /\ call[p].step = "scanned" /\ call[p].op = "extract"
        BY <2>1, <3>1, UnchangedIsSame DEF StartJob, ReviewInv
      <4>2. /\ row.status \in {"uploaded", "verified"} /\ row' = row
            /\ row.version # 0 => call[p].version = row.version
            /\ scanning => call[p].version \in cleared
        BY <2>1, <4>1 DEF HandlerOK, ReviewInv, StartJob
      <4>3. \A j \in jobs' \ jobs : j.version = call[p].version
        BY <2>1, <3>1 DEF StartJob
      <4> QED
        BY <4>2, <4>3
    <3>2. CASE ~(Unchanged(p) /\ ~expired)
      BY <2>1, <3>2 DEF StartJob
    <3> QED
      BY <3>1, <3>2
  <2>2. ASSUME NEW p \in Procs, NEW status \in {"completed", "failed"}, FinishJob(p, status) PROVE Started
    <3>1. ASSUME NEW j \in jobs PROVE [j EXCEPT !.status = status].status = status
      BY DEF TypeOK, Job
    <3> QED
      BY <2>2, <3>1 DEF FinishJob
  <2>3. CASE jobs' = jobs
    BY <2>3
  <2> HIDE DEF Started
  <2>4. Put \/ SignaturesUpdated \/ Expire \/ Link \/ CreateUpload \/ UNCHANGED vars => jobs' = jobs
    BY DEF Put, SignaturesUpdated, Expire, Link, CreateUpload, vars
  <2>5. \A p, op : Load(p, op) => jobs' = jobs
    BY DEF Load
  <2>6. \A p : Head(p) \/ Scan(p) \/ Transition(p) \/ HeadPinned(p) \/ IssueUrl(p) => jobs' = jobs
    BY DEF Head, Scan, Transition, HeadPinned, IssueUrl
  <2>7. \A p : LookAtLinks(p) \/ TryAgain(p) \/ Reject(p) \/ Fail(p) => jobs' = jobs
    BY DEF LookAtLinks, TryAgain, Reject, Fail
  <2> QED
    BY <2>1, <2>2, <2>3, <2>4, <2>5, <2>6, <2>7 DEF Next
<1> QED
  BY <1>1, ReviewTypes, ReviewAlways, PTL DEF Spec, JobsGetThePinnedVersion
=============================================================================
