------------------------ MODULE IntakeDeliveryProofs ------------------------
(***************************************************************************)
(* IntakeDelivery for any number of requests, attempts, crashes and late   *)
(* calls: its types, that a request is mailed at most once and accepted    *)
(* only when mailed, that nothing is sent once acceptance is unknown, and  *)
(* that the queue implements IntakePromise.                                *)
(***************************************************************************)
EXTENDS IntakeDelivery, TLAPS

(* An absent row and an unwritten receipt are a row and a receipt.          *)
LEMMA EmptyTypes == NoRow \in RowType /\ NoReceipt \in Receipt
  BY IntakeAssumption DEF NoRow, RowType, RowStatus, NoReceipt, Receipt

(* Every variable keeps its type (TypeOK of IntakeDelivery).                *)
THEOREM IntakeTypes == Spec => []TypeOK
<1>1. Init => TypeOK
  <2> SUFFICES ASSUME Init PROVE TypeOK
    OBVIOUS
  <2>1. row \in [Jobs -> RowType] /\ journal \in [Jobs -> Receipt] /\ mailed \in [Jobs -> Nat]
    BY EmptyTypes DEF Init
  <2>2. claims \in 0..ClaimsPerRun /\ stored \in 0..MaxStored /\ failures \in 0..MaxFailures
    BY IntakeAssumption DEF Init
  <2>3. fresh \in BOOLEAN /\ pc \in Places /\ sent \in {"accepted", "retry"} /\ token \in Nat /\ issued \in Nat
    BY DEF Init, Places
  <2> QED
    BY <2>1, <2>2, <2>3 DEF Init, TypeOK
<1>2. TypeOK /\ [Next]_vars => TypeOK'
  <2> SUFFICES ASSUME TypeOK, [Next]_vars PROVE TypeOK'
    OBVIOUS
  <2> USE IntakeAssumption
  <2>1. ASSUME NEW j \in Jobs, NEW old \in SUBSET Jobs, Post(j, old) PROVE TypeOK'
    BY <2>1, EmptyTypes DEF TypeOK, Post, run
  <2>2. ASSUME NEW j \in Jobs, Store(j) PROVE TypeOK'
    <3>1. [NoRow EXCEPT !.status = "pending"] \in RowType
      BY EmptyTypes DEF RowType, RowStatus
    <3>2. row' \in [Jobs -> RowType]
      BY <2>2, <3>1 DEF TypeOK, Store
    <3> QED
      BY <2>2, <3>2 DEF TypeOK, Store, run
  <2>3. ASSUME NEW picked \in Jobs \cup {None}, Claim(picked)
        PROVE /\ row' \in [Jobs -> RowType] /\ issued' \in Nat /\ fresh' \in BOOLEAN
              /\ admitted' = admitted /\ stored' = stored
    <3>1. ASSUME NEW j \in Jobs PROVE Swept(j) \in RowType
      <4>1. row[j] \in RowType /\ "uncertain" \in RowStatus
        BY <3>1 DEF TypeOK, RowStatus
      <4> HIDE DEF RowStatus
      <4> QED
        BY <4>1 DEF Swept, RowType
    <3>2. ASSUME picked \in Jobs PROVE Handed(picked) \in RowType
      <4>1. row[picked] \in RowType /\ Claimable(picked) /\ issued \in Nat
        BY <2>3, <3>2 DEF TypeOK, Claim
      <4>2. row[picked].attempts + 1 \in 0..MaxAttempts
        BY <4>1 DEF Claimable, RowType
      <4>3. "processing" \in RowStatus /\ issued + 1 \in Nat
        BY <4>1 DEF RowStatus
      <4> HIDE DEF RowStatus
      <4> QED
        BY <4>1, <4>2, <4>3 DEF Handed, RowType
    <3>3. row' \in [Jobs -> RowType]
      BY <2>3, <3>1, <3>2 DEF Claim
    <3> QED
      BY <2>3, <3>3 DEF TypeOK, Claim
  <2>4. ASSUME NEW picked \in Jobs \cup {None}, ServeClaim(picked) PROVE TypeOK'
    BY <2>3, <2>4 DEF TypeOK, ServeClaim, Places
  <2>5. ASSUME NEW a \in Call, a.kind = "ack", AckUpdate(a)
        PROVE row' \in [Jobs -> RowType] /\ UNCHANGED <<fresh, admitted, issued, stored>>
    <3>1. a.job \in Jobs /\ a.outcome \in Outcomes
      BY <2>5 DEF Call
    <3>2. row[a.job] \in RowType /\ a.outcome \in RowStatus
      BY <3>1 DEF TypeOK, RowStatus, Outcomes
    <3>3. [row[a.job] EXCEPT !.status = a.outcome, !.due = FALSE, !.leased = FALSE, !.limit = FALSE] \in RowType
      BY <3>2 DEF RowType
    <3> QED
      BY <2>5, <3>1, <3>3 DEF TypeOK, AckUpdate
  <2>6. CASE ServeAck
    <3>1. CASE AckUpdate(call) /\ call' = None /\ pc' = "acked"
      BY <2>5, <2>6, <3>1 DEF TypeOK, ServeAck, Places
    <3>2. CASE call' = [call EXCEPT !.kind = "check"] /\ UNCHANGED <<server, pc>>
      <4>1. call' \in Call
        BY <2>6, <3>2 DEF TypeOK, ServeAck, Call
      <4> QED
        BY <2>6, <3>2, <4>1 DEF TypeOK, ServeAck, server
    <3> QED
      BY <2>6, <3>1, <3>2 DEF ServeAck
  <2>7. CASE ServeCheck
    BY <2>7 DEF TypeOK, ServeCheck, server, Places
  <2>8. ASSUME NEW c \in late, NEW picked \in Jobs \cup {None}, ServeLate(c, picked) PROVE TypeOK'
    <3>1. c \in Call
      BY <2>8 DEF TypeOK
    <3>2. row' \in [Jobs -> RowType] /\ issued' \in Nat /\ fresh' \in BOOLEAN /\ admitted' = admitted /\ stored' = stored
      BY <2>3, <2>5, <2>8, <3>1 DEF ServeLate, TypeOK
    <3> QED
      BY <2>8, <3>2 DEF TypeOK, ServeLate, run
  <2>9. CASE StartRun
    BY <2>9 DEF TypeOK, StartRun, server, Open, Places
  <2>10. ASSUME NEW j \in Jobs, SendAck(j) PROVE TypeOK'
    <3>1. call' \in Call
      <4>1. journal[j].lease \in Nat /\ Reported(j) \in Outcomes /\ failures \in Nat
        BY <2>10 DEF TypeOK, SendAck, Reported, Outcomes, Receipt
      <4>2. call' = [kind |-> "ack", no |-> failures, job |-> j, lease |-> journal[j].lease, outcome |-> Reported(j)]
        BY <2>10 DEF SendAck
      <4> QED
        BY <4>1, <4>2 DEF Call
    <3> QED
      BY <2>10, <3>1 DEF TypeOK, SendAck, server, Places
  <2>11. CASE CloseReceipt
    <3>1. ASSUME NEW j \in Jobs PROVE [journal[j] EXCEPT !.acked = TRUE, !.status = Reported(j)] \in Receipt
      <4>1. journal[j] \in Receipt
        BY DEF TypeOK
      <4>2. Reported(j) \in {"none", "sending"} \cup Outcomes
        BY <4>1 DEF Reported, Receipt, Outcomes
      <4> QED
        BY <4>1, <4>2 DEF Receipt
    <3>2. ASSUME NEW j \in Jobs
          PROVE  journal'[j] = IF j = job THEN [journal[j] EXCEPT !.acked = TRUE, !.status = Reported(j)] ELSE journal[j]
      BY <2>11 DEF CloseReceipt, TypeOK
    <3>3. journal' \in [Jobs -> Receipt]
      BY <2>11, <3>1, <3>2 DEF TypeOK, CloseReceipt
    <3> QED
      BY <2>11, <3>3 DEF TypeOK, CloseReceipt, server, Places
  <2>12. CASE SendClaim
    BY <2>12 DEF TypeOK, SendClaim, server, Places, Call
  <2>13. CASE EndRun
    BY <2>13 DEF TypeOK, EndRun, server, Places
  <2>14. CASE RefuseJob
    BY <2>14 DEF TypeOK, RefuseJob, server, Places
  <2>15. CASE Recall
    <3>1. [status |-> Reported(job), lease |-> token, acked |-> FALSE] \in Receipt
      BY <2>15 DEF TypeOK, Recall, Receipt, Reported, Outcomes
    <3>2. journal' \in [Jobs -> Receipt]
      BY <2>15, <3>1 DEF TypeOK, Recall
    <3> QED
      BY <2>15, <3>2 DEF TypeOK, Recall, server, Places, Open
  <2>16. CASE Prepare
    BY <2>16 DEF TypeOK, Prepare, server, Places, Receipt
  <2>17. ASSUME NEW accepted \in BOOLEAN, HandToMailQueue(accepted) PROVE TypeOK'
    <3>1. mailed' \in [Jobs -> Nat]
      <4>1. CASE mailed' = [mailed EXCEPT ![job] = @ + 1]
        <5>1. ASSUME NEW j \in Jobs PROVE mailed[j] \in Nat /\ mailed[j] + 1 \in Nat
          BY DEF TypeOK
        <5> QED
          BY <4>1, <5>1 DEF TypeOK
      <4> QED
        BY <2>17, <4>1 DEF TypeOK, HandToMailQueue
    <3> QED
      BY <2>17, <3>1 DEF TypeOK, HandToMailQueue, server, Places
  <2>18. CASE RecordOutcome
    <3>1. journal' \in [Jobs -> Receipt]
      BY <2>18 DEF TypeOK, RecordOutcome, Receipt, Outcomes
    <3> QED
      BY <2>18, <3>1 DEF TypeOK, RecordOutcome, server, Places, Open
  <2>19. CASE Fail
    BY <2>19 DEF TypeOK, Fail, server, Places
  <2>20. ASSUME NEW j \in Jobs, LeaseExpires(j) \/ BackOffEnds(j) \/ BecomesOverdue(j) PROVE TypeOK'
    <3>1. row' \in [Jobs -> RowType]
      <4>1. row[j] \in RowType
        BY DEF TypeOK
      <4>2. /\ [row[j] EXCEPT !.leased = FALSE] \in RowType
            /\ [row[j] EXCEPT !.due = TRUE] \in RowType
            /\ [row[j] EXCEPT !.overdue = TRUE] \in RowType
        BY <4>1 DEF RowType
      <4> QED
        BY <2>20, <4>2 DEF TypeOK, LeaseExpires, BackOffEnds, BecomesOverdue
    <3> QED
      BY <2>20, <3>1 DEF TypeOK, LeaseExpires, BackOffEnds, BecomesOverdue, run
  <2>21. CASE HeartbeatAges
    BY <2>21 DEF TypeOK, HeartbeatAges, run
  <2>22. CASE UNCHANGED vars
    BY <2>22 DEF TypeOK, vars, server, run
  <2> QED
    BY <2>1, <2>2, <2>4, <2>6, <2>7, <2>8, <2>9, <2>10, <2>11, <2>12, <2>13, <2>14, <2>15, <2>16,
       <2>17, <2>18, <2>19, <2>20, <2>21, <2>22 DEF Next, Worker, Serve
<1> QED
  BY <1>1, <1>2, PTL DEF Spec

-----------------------------------------------------------------------------
(* JournalInv holds at the start and every step keeps it.                   *)
LEMMA JournalStep == TypeOK /\ JournalInv /\ [Next]_vars => JournalInv'
<1> SUFFICES ASSUME TypeOK, JournalInv, [Next]_vars PROVE JournalInv'
  OBVIOUS
<1> USE DEF AtMostOnce, AcceptedIsMailed, CallsUnderWay, JournalInv, Stopped
<1>a. None \notin Jobs
  BY IntakeAssumption
<1>1. ASSUME NEW j \in Jobs, NEW old \in SUBSET Jobs, Post(j, old) PROVE JournalInv'
  <2>1. \A k \in Jobs : row'[k] = IF k \in old THEN NoRow ELSE row[k]
    BY <1>1 DEF Post
  <2>2. \A k \in old : row[k].status = "accepted"
    BY <1>1 DEF Post, Cleanable
  <2>3. NoRow.status = "absent"
    BY DEF NoRow
  <2>4. UNCHANGED <<journal, mailed, run, call, late>>
    BY <1>1 DEF Post
  <2> QED
    BY <2>1, <2>2, <2>3, <2>4 DEF run
<1>2. ASSUME NEW j \in Jobs, Store(j) PROVE JournalInv'
  <2>1. \A k \in Jobs : row'[k] = row[k] \/ (row[k].status = "absent" /\ row'[k].status = "pending")
    BY <1>2 DEF Store, NoRow, TypeOK
  <2>2. UNCHANGED <<journal, mailed, run, call, late>>
    BY <1>2 DEF Store
  <2> QED
    BY <2>1, <2>2 DEF run
<1>3. ASSUME NEW picked \in Jobs \cup {None}, Claim(picked), NEW j \in Jobs
      PROVE \/ row'[j] = row[j]
            \/ row'[j].status = "uncertain" /\ row'[j].limit
            \/ row'[j].status = "processing" /\ picked = j
  <2>1. row[j] \in RowType
    BY <1>3 DEF TypeOK
  <2>2. CASE j = picked
    <3>1. row'[j] = Handed(j)
      BY <1>3, <2>2 DEF Claim
    <3> QED
      BY <2>1, <2>2, <3>1 DEF Handed, RowType
  <2>3. CASE j # picked
    <3>1. row'[j] = Swept(j)
      BY <1>3, <2>3 DEF Claim
    <3> QED
      BY <2>1, <3>1 DEF Swept, RowType
  <2> QED
    BY <2>2, <2>3
<1>4. ASSUME NEW picked \in Jobs \cup {None}, ServeClaim(picked) PROVE JournalInv'
  <2>1. UNCHANGED <<journal, mailed, late>> /\ call' = None /\ pc' \in {"off", "claimed"}
    BY <1>4 DEF ServeClaim
  <2>2. pc' = "claimed" => job' \in Jobs /\ row'[job'].status = "processing"
    <3>1. pc' = "claimed" => picked \in Jobs /\ job' = picked
      BY <1>4 DEF ServeClaim
    <3>2. ASSUME picked \in Jobs PROVE row'[picked].status = "processing"
      BY <1>4, <3>2 DEF ServeClaim, Claim, Handed, TypeOK, RowType
    <3> QED
      BY <3>1, <3>2
  <2>3. \A j \in Jobs : row'[j] = row[j] \/ (row'[j].status = "uncertain" /\ row'[j].limit) \/ row'[j].status = "processing"
    BY <1>3, <1>4 DEF ServeClaim
  <2> QED
    BY <2>1, <2>2, <2>3
<1>5. ASSUME NEW a \in CallsUnderWay, a.kind = "ack", AckUpdate(a), NEW j \in Jobs
      PROVE \/ row'[j] = row[j]
            \/ j = a.job /\ row[j].status # "absent" /\ row'[j].status = a.outcome /\ a.outcome \in Outcomes
  <2>1. a \in Call
    BY <1>5 DEF TypeOK
  <2>2. a.job \in Jobs /\ a.outcome \in Outcomes
    BY <1>5, <2>1 DEF Call
  <2> QED
    BY <1>5, <2>2 DEF AckUpdate, AckFits, TypeOK, RowType
<1>6. CASE ServeAck
  <2>1. UNCHANGED <<journal, mailed, late, job, sent>> /\ call # None /\ call \in Call /\ call.kind = "ack"
    BY <1>6 DEF ServeAck, TypeOK
  <2>2. CASE AckUpdate(call) /\ call' = None /\ pc' = "acked"
    BY <1>5, <2>1, <2>2 DEF Outcomes
  <2>3. CASE call' = [call EXCEPT !.kind = "check"] /\ UNCHANGED <<server, pc>>
    <3>1. call'.kind = "check"
      BY <2>1, <2>3 DEF Call
    <3> QED
      BY <2>1, <2>3, <3>1 DEF server
  <2> QED
    BY <1>6, <2>2, <2>3 DEF ServeAck
<1>7. CASE ServeCheck
  BY <1>7 DEF ServeCheck, server
<1>8. ASSUME NEW c \in late, NEW picked \in Jobs \cup {None}, ServeLate(c, picked) PROVE JournalInv'
  <2>1. UNCHANGED <<journal, mailed, run, call>> /\ late' \subseteq late
    BY <1>8 DEF ServeLate
  <2>2. CASE Claim(picked)
    BY <1>3, <2>1, <2>2 DEF run
  <2>3. CASE c.kind = "ack" /\ AckUpdate(c)
    BY <1>5, <2>1, <2>3 DEF run, Outcomes
  <2> QED
    BY <1>8, <2>2, <2>3 DEF ServeLate
<1>9. CASE StartRun
  BY <1>9 DEF StartRun, server
<1>10. ASSUME NEW j \in Jobs, SendAck(j) PROVE JournalInv'
  <2>1. UNCHANGED <<row, journal, mailed, late>> /\ pc' = "waiting" /\ pc = "flushing"
    BY <1>10 DEF SendAck, server
  <2>2. call'.job = j /\ call'.outcome = Reported(j)
    BY <1>10 DEF SendAck
  <2>3. Reported(j) = "accepted" => mailed[j] = 1
    BY DEF Reported
  <2>4. Reported(j) = "uncertain" => Stopped(j)'
    BY <2>1 DEF Reported
  <2> QED
    BY <2>1, <2>2, <2>3, <2>4
<1>11. CASE CloseReceipt
  <2>1. UNCHANGED <<row, mailed, late, call, job>> /\ pc' = "flushing" /\ pc = "acked"
    BY <1>11 DEF CloseReceipt, server
  <2>2. \A j \in Jobs : journal'[j].status = journal[j].status
                          \/ (journal[j].status = "sending" /\ journal'[j].status = "uncertain")
    BY <1>11 DEF CloseReceipt, Reported, TypeOK, Receipt
  <2> QED
    BY <2>1, <2>2 DEF TypeOK, Call
<1>12. CASE SendClaim
  <2>1. call'.kind = "claim"
    BY <1>12 DEF SendClaim
  <2> QED
    BY <1>12, <2>1 DEF SendClaim, server
<1>13. CASE EndRun \/ RefuseJob
  BY <1>13 DEF EndRun, RefuseJob, server
<1>14. CASE Recall
  <2>1. UNCHANGED <<row, mailed, late, call, job>> /\ pc' = "flushing" /\ job \in Jobs
    BY <1>14 DEF Recall, server
  <2>2. \A j \in Jobs : journal'[j].status = journal[j].status
                          \/ (journal[j].status = "sending" /\ journal'[j].status = "uncertain")
    BY <1>14 DEF Recall, Reported, TypeOK, Receipt
  <2> QED
    BY <2>1, <2>2 DEF TypeOK, Call
<1>15. CASE Prepare
  <2>1. UNCHANGED <<row, mailed, late, call, job>> /\ pc' = "mailing" /\ job \in Jobs
        /\ journal[job].status \in {"none", "retry"} /\ row[job].status # "absent"
    BY <1>15 DEF Prepare, MaySend, server
  <2>2. journal'[job].status = "sending" /\ \A j \in Jobs : j # job => journal'[j] = journal[j]
    BY <1>15, <2>1 DEF Prepare, TypeOK
  <2> QED
    BY <2>1, <2>2 DEF TypeOK, Call
<1>16. ASSUME NEW accepted \in BOOLEAN, HandToMailQueue(accepted) PROVE JournalInv'
  <2>1. UNCHANGED <<row, journal, late, call, job>> /\ pc' = "mailed" /\ job \in Jobs /\ pc = "mailing"
    BY <1>16 DEF HandToMailQueue, server
  <2>2. mailed'[job] = (IF accepted THEN 1 ELSE 0) /\ sent' = (IF accepted THEN "accepted" ELSE "retry")
    BY <1>16, <2>1 DEF HandToMailQueue, TypeOK
  <2>3. \A j \in Jobs : j # job => mailed'[j] = mailed[j]
    BY <1>16, <2>1 DEF HandToMailQueue, TypeOK
  <2> QED
    BY <2>1, <2>2, <2>3 DEF TypeOK, Call
<1>17. CASE RecordOutcome
  <2>1. UNCHANGED <<row, mailed, late, call, job>> /\ pc' = "flushing" /\ job \in Jobs /\ pc = "mailed"
    BY <1>17 DEF RecordOutcome, server
  <2>2. journal'[job].status = sent /\ \A j \in Jobs : j # job => journal'[j] = journal[j]
    BY <1>17, <2>1 DEF RecordOutcome, TypeOK, Receipt
  <2>3. sent \in {"accepted", "retry"}
    BY DEF TypeOK
  <2> QED
    BY <2>1, <2>2, <2>3 DEF TypeOK, Call
<1>18. CASE Fail
  BY <1>18 DEF Fail, server
<1>19. ASSUME NEW j \in Jobs, LeaseExpires(j) \/ BackOffEnds(j) \/ BecomesOverdue(j) PROVE JournalInv'
  <2>1. UNCHANGED <<journal, mailed, run, call, late>>
    BY <1>19 DEF LeaseExpires, BackOffEnds, BecomesOverdue
  <2>2. ASSUME NEW k \in Jobs PROVE row'[k].status = row[k].status /\ row'[k].limit = row[k].limit
    <3>1. row[k] \in RowType
      BY DEF TypeOK
    <3>2. CASE LeaseExpires(j)
      BY <3>1, <3>2 DEF LeaseExpires, TypeOK, RowType
    <3>3. CASE BackOffEnds(j)
      BY <3>1, <3>3 DEF BackOffEnds, TypeOK, RowType
    <3>4. CASE BecomesOverdue(j)
      BY <3>1, <3>4 DEF BecomesOverdue, TypeOK, RowType
    <3> QED
      BY <1>19, <3>2, <3>3, <3>4
  <2> QED
    BY <2>1, <2>2 DEF run
<1>20. CASE HeartbeatAges
  BY <1>20 DEF HeartbeatAges, run
<1>21. CASE UNCHANGED vars
  BY <1>21 DEF vars, server, run
<1> QED
  BY <1>1, <1>2, <1>4, <1>6, <1>7, <1>8, <1>9, <1>10, <1>11, <1>12, <1>13, <1>14, <1>15, <1>16, <1>17,
     <1>18, <1>19, <1>20, <1>21 DEF Next, Worker, Serve

(* The journal invariant holds in every reachable state.                    *)
LEMMA JournalAlways == Spec => [](TypeOK /\ JournalInv)
<1>1. Init => JournalInv
  <2> SUFFICES ASSUME Init PROVE JournalInv
    OBVIOUS
  <2>1. \A j \in Jobs : row[j].status = "absent" /\ journal[j].status = "none" /\ mailed[j] = 0
    BY DEF Init, NoRow, NoReceipt
  <2> QED
    BY <2>1 DEF Init, JournalInv, AtMostOnce, AcceptedIsMailed, CallsUnderWay
<1> QED
  BY <1>1, JournalStep, IntakeTypes, PTL DEF Spec

(* No crash, lost answer, late call or expired lease makes the mail queue   *)
(* accept a request twice (AtMostOnce of IntakeDelivery).                   *)
THEOREM MailedAtMostOnce == Spec => []AtMostOnce
  BY JournalAlways, PTL DEF JournalInv

(* What the database calls accepted has been mailed.                        *)
THEOREM AcceptedOnlyWhenMailed == Spec => []AcceptedIsMailed
  BY JournalAlways, PTL DEF JournalInv

(* After "acceptance unknown" nothing is sent (UnknownIsNotSent): only      *)
(* HandToMailQueue sends, for a request whose receipt is being written.     *)
THEOREM NothingSentAfterUnknown == Spec => UnknownIsNotSent
<1> DEFINE Quiet == \A j \in Jobs : row[j].status = "uncertain" /\ ~row[j].limit => mailed'[j] = mailed[j]
<1>1. TypeOK /\ JournalInv /\ [Next]_vars => [Quiet]_vars
  <2> SUFFICES ASSUME TypeOK, JournalInv, [Next]_vars PROVE [Quiet]_vars
    OBVIOUS
  <2>1. ASSUME NEW accepted \in BOOLEAN, HandToMailQueue(accepted) PROVE Quiet
    <3>1. \A j \in Jobs : row[j].status = "uncertain" /\ ~row[j].limit => j # job
      BY <2>1 DEF HandToMailQueue, JournalInv, Stopped
    <3> QED
      BY <2>1, <3>1 DEF HandToMailQueue, TypeOK
  <2>2. CASE mailed' = mailed
    BY <2>2
  <2> QED
    BY <2>1, <2>2 DEF Next, Worker, Serve, Post, Store, StartRun, SendAck, CloseReceipt, SendClaim, EndRun,
       RefuseJob, Recall, Prepare, RecordOutcome, ServeClaim, ServeAck, ServeCheck, ServeLate, Fail,
       LeaseExpires, BackOffEnds, BecomesOverdue, HeartbeatAges, vars
<1> QED
  BY <1>1, JournalAlways, PTL DEF Spec, UnknownIsNotSent

-----------------------------------------------------------------------------
(* The refinement: which promise each step keeps.                           *)

(* A claim (claimIntake) is seen by the promise as giving up on the         *)
(* requests its sweep sets aside.                                           *)
LEMMA ClaimGivesUp ==
  ASSUME TypeOK, NEW picked \in Jobs \cup {None}, Claim(picked), mailed' = mailed
  PROVE  [Promise!Next]_<<[j \in Jobs |-> PromiseState(row[j].status)], mailed>>
<1> DEFINE S == {j \in Jobs : Exhausted(j) /\ j # picked}
<1>1. ASSUME NEW j \in Jobs
      PROVE PromiseState(row'[j].status) = IF j \in S THEN "uncertain" ELSE PromiseState(row[j].status)
  <2>1. CASE j = picked
    <3>1. Claimable(j) /\ row'[j] = Handed(j) /\ row[j] \in RowType
      BY <1>1, <2>1, IntakeAssumption DEF Claim, TypeOK
    <3>2. row'[j].status = "processing"
      BY <3>1 DEF Handed, RowType
    <3>3. row[j].status \in {"pending", "retry", "processing"}
      BY <3>1 DEF Claimable
    <3> QED
      BY <2>1, <3>2, <3>3 DEF PromiseState
  <2>2. CASE j # picked /\ Exhausted(j)
    BY <1>1, <2>2 DEF Claim, Swept, Exhausted, PromiseState, TypeOK, RowType
  <2>3. CASE j # picked /\ ~Exhausted(j)
    BY <1>1, <2>3 DEF Claim, Swept, TypeOK, RowType
  <2> QED
    BY <2>1, <2>2, <2>3
<1>2. \A j \in S : PromiseState(row[j].status) = "waiting"
  BY DEF Exhausted, PromiseState
<1>3. Promise!GiveUp(S)
  BY <1>1, <1>2 DEF Promise!GiveUp
<1> QED
  BY <1>3 DEF Promise!Next

(* An acknowledgement that is applied (acknowledgeIntake) accepts a mailed  *)
(* request, gives up on one, or leaves it waiting.                          *)
LEMMA AckSettles ==
  ASSUME TypeOK, JournalInv, NEW a \in CallsUnderWay, a.kind = "ack", AckUpdate(a), mailed' = mailed
  PROVE  [Promise!Next]_<<[j \in Jobs |-> PromiseState(row[j].status)], mailed>>
<1>1. a.job \in Jobs /\ a.outcome \in Outcomes
  BY DEF CallsUnderWay, TypeOK, Call
<1>2. /\ row'[a.job].status = a.outcome
      /\ \A j \in Jobs : j # a.job => row'[j] = row[j]
  BY <1>1 DEF AckUpdate, TypeOK, RowType
<1>3. PromiseState(row[a.job].status) \in {"waiting", "uncertain"}
      /\ (a.outcome # "accepted" => PromiseState(row[a.job].status) = "waiting")
  BY <1>1 DEF AckUpdate, AckFits, PromiseState
<1>4. CASE a.outcome = "accepted"
  <2>1. mailed[a.job] = 1
    BY <1>4 DEF JournalInv
  <2>2. Promise!Accept(a.job)
    BY <1>1, <1>2, <1>3, <1>4, <2>1 DEF Promise!Accept, PromiseState
  <2> QED
    BY <1>1, <2>2 DEF Promise!Next
<1>5. CASE a.outcome = "uncertain"
  <2>1. Promise!GiveUp({a.job})
    BY <1>1, <1>2, <1>3, <1>5 DEF Promise!GiveUp, PromiseState
  <2> QED
    BY <1>1, <2>1 DEF Promise!Next
<1>6. CASE a.outcome = "retry"
  <2>1. \A j \in Jobs : PromiseState(row'[j].status) = PromiseState(row[j].status)
    BY <1>1, <1>2, <1>3, <1>6 DEF PromiseState
  <2> QED
    BY <2>1
<1> QED
  BY <1>1, <1>4, <1>5, <1>6 DEF Outcomes

(* The queue implements IntakePromise (KeepsPromise): claims give up on     *)
(* exhausted requests, a fitting acknowledgement accepts or gives up, mail() *)
(* sends; everything else is the database's or the worker's own business.   *)
THEOREM QueueKeepsPromise == Spec => KeepsPromise
<1> DEFINE state == [j \in Jobs |-> PromiseState(row[j].status)]
<1>1. Init => Promise!Init
  <2> SUFFICES ASSUME Init PROVE Promise!Init
    OBVIOUS
  <2>1. \A j \in Jobs : PromiseState(row[j].status) = "none"
    BY DEF Init, NoRow, PromiseState
  <2> QED
    BY <2>1 DEF Init, Promise!Init
<1>2. TypeOK /\ JournalInv /\ [Next]_vars => [Promise!Next]_<<state, mailed>>
  <2> SUFFICES ASSUME TypeOK, JournalInv, [Next]_vars PROVE [Promise!Next]_<<state, mailed>>
    OBVIOUS
  <2>1. ASSUME NEW j \in Jobs, NEW old \in SUBSET Jobs, Post(j, old) PROVE Promise!Forget(old)
    <3>1. \A k \in Jobs : row'[k] = IF k \in old THEN NoRow ELSE row[k]
      BY <2>1 DEF Post
    <3>2. \A k \in old : PromiseState(row[k].status) = "accepted"
      BY <2>1 DEF Post, Cleanable, PromiseState
    <3>3. PromiseState(NoRow.status) = "none"
      BY DEF NoRow, PromiseState
    <3> QED
      BY <2>1, <3>1, <3>2, <3>3 DEF Promise!Forget, Post
  <2>2. ASSUME NEW j \in Jobs, Store(j) PROVE [Promise!Next]_<<state, mailed>>
    <3>1. CASE row[j].status # "absent"
      BY <2>2, <3>1 DEF Store
    <3>2. CASE row[j].status = "absent"
      <4>1. row'[j].status = "pending" /\ \A k \in Jobs : k # j => row'[k] = row[k]
        BY <2>2, <3>2 DEF Store, NoRow, TypeOK
      <4>2. Promise!Take(j)
        <5>1. PromiseState(row[j].status) = "none" /\ PromiseState(row'[j].status) = "waiting"
          BY <3>2, <4>1 DEF PromiseState
        <5>2. \A k \in Jobs : k # j => PromiseState(row'[k].status) = PromiseState(row[k].status)
          BY <4>1
        <5>3. state' = [state EXCEPT ![j] = "waiting"]
          BY <5>1, <5>2
        <5> QED
          BY <2>2, <5>1, <5>3 DEF Promise!Take, Store
      <4> QED
        BY <4>2 DEF Promise!Next
    <3> QED
      BY <3>1, <3>2
  <2>3. ASSUME NEW picked \in Jobs \cup {None}, ServeClaim(picked) PROVE [Promise!Next]_<<state, mailed>>
    BY <2>3, ClaimGivesUp DEF ServeClaim
  <2>4. CASE ServeAck
    <3>1. CASE AckUpdate(call)
      BY <2>4, <3>1, AckSettles DEF ServeAck, CallsUnderWay
    <3>2. CASE UNCHANGED <<server, pc>>
      BY <2>4, <3>2 DEF ServeAck, server
    <3> QED
      BY <2>4, <3>1, <3>2 DEF ServeAck
  <2>5. ASSUME NEW c \in late, NEW picked \in Jobs \cup {None}, ServeLate(c, picked)
        PROVE [Promise!Next]_<<state, mailed>>
    BY <2>5, ClaimGivesUp, AckSettles DEF ServeLate, CallsUnderWay
  <2>6. ASSUME NEW accepted \in BOOLEAN, HandToMailQueue(accepted) PROVE [Promise!Next]_<<state, mailed>>
    <3>1. CASE mailed' = mailed
      BY <2>6, <3>1 DEF HandToMailQueue, server
    <3>2. CASE mailed' = [mailed EXCEPT ![job] = @ + 1]
      <4>1. job \in Jobs /\ mailed[job] = 0 /\ row[job].status \in RowStatus \ {"absent", "accepted"}
        BY <2>6 DEF HandToMailQueue, JournalInv, AcceptedIsMailed, TypeOK, RowType
      <4>2. PromiseState(row[job].status) \in {"waiting", "uncertain"}
        BY <4>1 DEF PromiseState, RowStatus
      <4>3. mailed' = [mailed EXCEPT ![job] = 1]
        BY <3>2, <4>1
      <4>4. Promise!Mail(job)
        BY <2>6, <4>1, <4>2, <4>3 DEF Promise!Mail, HandToMailQueue, server
      <4> QED
        BY <4>1, <4>4 DEF Promise!Next
    <3> QED
      BY <2>6, <3>1, <3>2 DEF HandToMailQueue
  <2>7. ASSUME NEW j \in Jobs, LeaseExpires(j) \/ BackOffEnds(j) \/ BecomesOverdue(j)
        PROVE UNCHANGED <<state, mailed>>
    <3>1. \A k \in Jobs : row'[k].status = row[k].status
      BY <2>7 DEF LeaseExpires, BackOffEnds, BecomesOverdue, TypeOK, RowType
    <3> QED
      BY <2>7, <3>1 DEF LeaseExpires, BackOffEnds, BecomesOverdue
  <2>8. CASE UNCHANGED <<row, mailed>>
    BY <2>8
  <2> QED
    <3>1. CASE \E j \in Jobs, old \in SUBSET Jobs : Post(j, old)
      BY <2>1, <3>1 DEF Promise!Next
    <3>2. CASE Worker
      BY <2>6, <2>8, <3>2 DEF Worker, StartRun, SendAck, CloseReceipt, SendClaim, EndRun, RefuseJob, Recall,
         Prepare, RecordOutcome, server
    <3>3. CASE Serve
      BY <2>3, <2>4, <2>8, <3>3 DEF Serve, ServeCheck, server
    <3>4. CASE Fail \/ HeartbeatAges \/ UNCHANGED vars
      BY <2>8, <3>4 DEF Fail, HeartbeatAges, vars, server
    <3> QED
      BY <2>2, <2>5, <2>7, <3>1, <3>2, <3>3, <3>4 DEF Next
<1> QED
  BY <1>1, <1>2, JournalAlways, PTL DEF Spec, KeepsPromise, Promise!Spec
=============================================================================
