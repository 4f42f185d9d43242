--------------------------- MODULE IntakeDelivery ---------------------------
(***************************************************************************)
(* The intake queue of the marketing site: the form handler that stores a  *)
(* request (app/api/intake/route.ts), the delivery API that hands it out   *)
(* under a lease (lib/intake-delivery.ts) and the mail worker with its      *)
(* journal on disk (ops/mail-worker/worker.php).                           *)
(*                                                                         *)
(* The worker runs once at a time (flock).  It can die at every step, and  *)
(* so can its connection: a request it gave up on may still be served.     *)
(* Time is abstracted: a lease, a back-off or the heartbeat may run out at *)
(* any moment.  A request a rate limit or a validation refuses leaves no   *)
(* trace and is not modelled.                                              *)
(***************************************************************************)
EXTENDS Naturals, FiniteSets

CONSTANTS
  Jobs,           \* request ids
  Refused,        \* requests the worker finds malformed (validJob)
  MaxAttempts,    \* MAX_ATTEMPTS: claims before a request is given up on
  ClaimsPerRun,   \* claims of one worker run
  MaxFailures,    \* bound: crashes and time-outs of the worker
  MaxStored,      \* bound: requests stored
  None

ASSUME IntakeAssumption ==
  /\ Refused \subseteq Jobs
  /\ None \notin Jobs
  /\ MaxAttempts \in Nat \ {0} /\ ClaimsPerRun \in Nat
  /\ MaxFailures \in Nat /\ MaxStored \in Nat

VARIABLES
  row,        \* D1: the intakes table
  fresh,      \* D1: intake_worker.last_seen is less than ten minutes old
  admitted,   \* requests whose handler has seen workerReady and will insert
  journal,    \* worker disk: one receipt per request
  mailed,     \* external: messages the local mail queue accepted, per request
  pc,         \* worker: where its run is
  todo,       \* worker: receipts the current flush has still to acknowledge
  claims,     \* worker: claims left in this run
  job,        \* worker: the request at hand
  token,      \* worker: the lease it was claimed with
  sent,       \* worker: what mail() returned
  call,       \* the API call the worker waits for, or None
  late,       \* calls of dead runs that may still be served
  issued,     \* leases handed out; the number stands for the random token
  stored, failures   \* bounds only

server == <<row, fresh, admitted, issued, stored>>
run    == <<pc, todo, claims, job, token, sent>>
vars   == <<server, journal, mailed, run, call, late, failures>>

RowStatus == {"absent", "pending", "processing", "retry", "accepted", "uncertain"}

(* leased: lease_until is in the future; due: next_attempt_at is not;       *)
(* overdue: stored more than 30 minutes ago; limit: last_error is           *)
(* 'attempt_limit'.                                                         *)
RowType ==
  [status : RowStatus, attempts : 0..MaxAttempts, lease : Nat, leased : BOOLEAN,
   due : BOOLEAN, overdue : BOOLEAN, limit : BOOLEAN]

NoRow == [status |-> "absent", attempts |-> 0, lease |-> 0, leased |-> FALSE,
          due |-> TRUE, overdue |-> FALSE, limit |-> FALSE]

Outcomes == {"accepted", "retry", "uncertain"}

Receipt == [status : {"none", "sending"} \cup Outcomes, lease : Nat, acked : BOOLEAN]

NoReceipt == [status |-> "none", lease |-> 0, acked |-> TRUE]

(* An acknowledgement is two statements: the conditional update and, when   *)
(* it changed nothing, a look at the row ("check").  no tells the calls of  *)
(* different runs apart.                                                    *)
Call ==
  [kind : {"claim"}, no : Nat]
  \cup [kind : {"ack", "check"}, no : Nat, job : Jobs, lease : Nat, outcome : Outcomes]

Places == {"off", "flushing", "waiting", "acked", "claimed", "mailing", "mailed"}

Init ==
  /\ row = [j \in Jobs |-> NoRow]
  /\ fresh = FALSE
  /\ admitted = {}
  /\ journal = [j \in Jobs |-> NoReceipt]
  /\ mailed = [j \in Jobs |-> 0]
  /\ pc = "off" /\ todo = {} /\ claims = 0 /\ job = None /\ token = 0 /\ sent = "retry"
  /\ call = None /\ late = {}
  /\ issued = 0 /\ stored = 0 /\ failures = 0

-----------------------------------------------------------------------------
(* The form handler *)

(* workerReady: the heartbeat is fresh, nothing is uncertain, nothing waits *)
(* too long.                                                                *)
Ready(rows) ==
  /\ fresh
  /\ \A j \in Jobs : rows[j].status # "uncertain"
  /\ \A j \in Jobs : rows[j].status \notin {"absent", "accepted"} => ~rows[j].overdue

(* Mutant of Cleanable: a request set aside is dropped with the rest.       *)
CleanableIfEnded(k) == row[k].status \in {"accepted", "uncertain"}

Cleanable(k) == row[k].status = "accepted"

(* POST up to the insert: accepted rows older than 90 days (some subset old *)
(* of the accepted ones) go first; a known id or a closed intake ends it.   *)
Post(j, old) ==
  LET rows == [k \in Jobs |-> IF k \in old THEN NoRow ELSE row[k]] IN
  /\ \A k \in old : Cleanable(k)
  /\ row' = rows
  /\ admitted' = IF rows[j].status = "absent" /\ Ready(rows) THEN admitted \cup {j} ELSE admitted
  /\ UNCHANGED <<fresh, issued, stored, journal, mailed, run, call, late, failures>>

(* INSERT OR IGNORE, whatever has happened since workerReady was asked.     *)
Store(j) ==
  /\ j \in admitted /\ stored < MaxStored
  /\ admitted' = admitted \ {j}
  /\ row' = IF row[j].status = "absent" THEN [row EXCEPT ![j] = [NoRow EXCEPT !.status = "pending"]] ELSE row
  /\ stored' = stored + 1
  /\ UNCHANGED <<fresh, issued, journal, mailed, run, call, late, failures>>

-----------------------------------------------------------------------------
(* The delivery API *)

(* Mutant of Exhausted: a request whose last lease ran out is overlooked.   *)
ExhaustedUnleased(j) == row[j].attempts >= MaxAttempts /\ row[j].status \in {"pending", "retry"}

(* claimIntake, one batch: heartbeat, giving up on exhausted requests,      *)
(* handing out one that is due under a new lease.                           *)
Exhausted(j) ==
  /\ row[j].attempts >= MaxAttempts
  /\ row[j].status \in {"pending", "retry", "processing"}
  /\ ~row[j].leased

Swept(j) == IF Exhausted(j) THEN [row[j] EXCEPT !.status = "uncertain", !.leased = FALSE, !.limit = TRUE] ELSE row[j]

(* ORDER BY created_at is left out: any request that is due may be first.   *)
Claimable(j) ==
  /\ row[j].attempts < MaxAttempts
  /\ \/ row[j].status \in {"pending", "retry"} /\ row[j].due
     \/ row[j].status = "processing" /\ ~row[j].leased

Handed(j) == [row[j] EXCEPT !.status = "processing", !.lease = issued + 1, !.leased = TRUE, !.attempts = @ + 1]

(* picked: the request handed out, or None when nothing is due.             *)
Claim(picked) ==
  /\ \/ picked = None /\ \A j \in Jobs : ~Claimable(j)
     \/ picked \in Jobs /\ Claimable(picked)
  /\ fresh' = TRUE
  /\ row' = [j \in Jobs |-> IF j = picked THEN Handed(j) ELSE Swept(j)]
  /\ issued' = IF picked = None THEN issued ELSE issued + 1
  /\ UNCHANGED <<admitted, stored>>

(* Mutant of AckFits: a request set aside cannot be accepted any more.      *)
AckFitsProcessing(a) == row[a.job].lease = a.lease /\ row[a.job].status = "processing"

(* acknowledgeIntake: the update, where lease and status still fit.         *)
AckFits(a) ==
  /\ row[a.job].status # "absent" /\ row[a.job].lease = a.lease
  /\ \/ row[a.job].status = "processing"
     \/ row[a.job].status = "uncertain" /\ row[a.job].limit /\ a.outcome = "accepted"

AckUpdate(a) ==
  /\ AckFits(a)
  /\ row' = [row EXCEPT ![a.job] = [@ EXCEPT !.status = a.outcome, !.due = FALSE, !.leased = FALSE, !.limit = FALSE]]
  /\ UNCHANGED <<fresh, admitted, issued, stored>>

(* A repeated acknowledgement is answered like the first.                   *)
Repeated(a) == row[a.job].status = a.outcome /\ row[a.job].lease = a.lease

-----------------------------------------------------------------------------
(* The API serves the call the worker waits for ...                         *)

ServeClaim(picked) ==
  /\ call # None /\ call.kind = "claim"
  /\ Claim(picked)
  /\ call' = None
  /\ pc' = IF picked = None THEN "off" ELSE "claimed"
  /\ job' = picked
  /\ token' = issued'
  /\ UNCHANGED <<todo, claims, sent, journal, mailed, late, failures>>

ServeAck ==
  /\ call # None /\ call.kind = "ack"
  /\ \/ AckUpdate(call) /\ call' = None /\ pc' = "acked"
     \/ ~AckFits(call) /\ call' = [call EXCEPT !.kind = "check"] /\ UNCHANGED <<server, pc>>
  /\ UNCHANGED <<todo, claims, job, token, sent, journal, mailed, late, failures>>

(* 409 is no exception: the flush goes on, the receipt stays open.          *)
ServeCheck ==
  /\ call # None /\ call.kind = "check"
  /\ call' = None
  /\ IF Repeated(call) THEN pc' = "acked" /\ UNCHANGED todo
                       ELSE pc' = "flushing" /\ todo' = todo \ {call.job}
  /\ UNCHANGED <<server, claims, job, token, sent, journal, mailed, late, failures>>

(* ... or one of a run that is no longer there to hear the answer.          *)
ServeLate(c, picked) ==
  /\ c \in late
  /\ \/ c.kind = "claim" /\ Claim(picked)
     \/ c.kind = "ack" /\ picked = None /\ AckUpdate(c)
  /\ late' = late \ {c}
  /\ UNCHANGED <<journal, mailed, run, call, failures>>
-----------------------------------------------------------------------------
(* The mail worker *)

Open == {j \in Jobs : ~journal[j].acked}

StartRun ==
  /\ pc = "off"
  /\ pc' = "flushing" /\ todo' = Open /\ claims' = ClaimsPerRun
  /\ UNCHANGED <<server, journal, mailed, job, token, sent, call, late, failures>>

(* flushAcknowledgements: an interrupted send is reported as uncertain.     *)
Reported(j) == IF journal[j].status = "sending" THEN "uncertain" ELSE journal[j].status

SendAck(j) ==
  /\ pc = "flushing" /\ j \in todo /\ Reported(j) \in Outcomes   \* else journal_corrupt
  /\ pc' = "waiting" /\ job' = j
  /\ call' = [kind |-> "ack", no |-> failures, job |-> j, lease |-> journal[j].lease, outcome |-> Reported(j)]
  /\ UNCHANGED <<server, journal, mailed, todo, claims, token, sent, late, failures>>

CloseReceipt ==
  /\ pc = "acked"
  /\ journal' = [journal EXCEPT ![job].acked = TRUE, ![job].status = Reported(job)]
  /\ pc' = "flushing" /\ todo' = todo \ {job}
  /\ UNCHANGED <<server, mailed, claims, job, token, sent, call, late, failures>>

SendClaim ==
  /\ pc = "flushing" /\ todo = {} /\ claims > 0
  /\ pc' = "waiting" /\ claims' = claims - 1
  /\ call' = [kind |-> "claim", no |-> failures]
  /\ UNCHANGED <<server, journal, mailed, todo, job, token, sent, late, failures>>

EndRun ==
  /\ pc = "flushing" /\ todo = {} /\ claims = 0
  /\ pc' = "off"
  /\ UNCHANGED <<server, journal, mailed, todo, claims, job, token, sent, call, late, failures>>

(* invalid_job ends the run; the request keeps its lease until it expires.  *)
RefuseJob ==
  /\ pc = "claimed" /\ job \in Refused
  /\ pc' = "off"
  /\ UNCHANGED <<server, journal, mailed, todo, claims, job, token, sent, call, late, failures>>

(* deliver, when the journal knows the request: no second message.          *)
Recall ==
  /\ pc = "claimed" /\ job \notin Refused
  /\ journal[job].status \in {"accepted", "sending", "uncertain"}
  /\ journal' = [journal EXCEPT ![job] = [status |-> Reported(job), lease |-> token, acked |-> FALSE]]
  /\ pc' = "flushing" /\ todo' = Open'
  /\ UNCHANGED <<server, mailed, claims, job, token, sent, call, late, failures>>

MaySend(j) == journal[j].status \in {"none", "retry"}

(* deliver, first attempt or after a definite rejection: the journal says   *)
(* "sending" before mail() is called.                                       *)
Prepare ==
  /\ pc = "claimed" /\ job \notin Refused
  /\ MaySend(job)
  /\ journal' = [journal EXCEPT ![job] = [status |-> "sending", lease |-> token, acked |-> FALSE]]
  /\ pc' = "mailing"
  /\ UNCHANGED <<server, mailed, todo, claims, job, token, sent, call, late, failures>>

HandToMailQueue(accepted) ==
  /\ pc = "mailing"
  /\ mailed' = IF accepted THEN [mailed EXCEPT ![job] = @ + 1] ELSE mailed
  /\ sent' = IF accepted THEN "accepted" ELSE "retry"
  /\ pc' = "mailed"
  /\ UNCHANGED <<server, journal, todo, claims, job, token, call, late, failures>>

RecordOutcome ==
  /\ pc = "mailed"
  /\ journal' = [journal EXCEPT ![job].status = sent]
  /\ pc' = "flushing" /\ todo' = Open'
  /\ UNCHANGED <<server, mailed, claims, job, token, sent, call, late, failures>>

(* The process dies, a file operation fails, or a call times out: the run   *)
(* ends and its call, if any, is on its own.                                *)
Fail ==
  /\ pc # "off" /\ failures < MaxFailures
  /\ pc' = "off"
  /\ late' = IF call = None THEN late ELSE late \cup {call}
  /\ call' = None
  /\ failures' = failures + 1
  /\ UNCHANGED <<server, journal, mailed, todo, claims, job, token, sent>>

-----------------------------------------------------------------------------
(* Time *)

LeaseExpires(j) ==
  /\ row[j].leased
  /\ row' = [row EXCEPT ![j].leased = FALSE]
  /\ UNCHANGED <<fresh, admitted, issued, stored, journal, mailed, run, call, late, failures>>

BackOffEnds(j) ==
  /\ row[j].status = "retry" /\ ~row[j].due
  /\ row' = [row EXCEPT ![j].due = TRUE]
  /\ UNCHANGED <<fresh, admitted, issued, stored, journal, mailed, run, call, late, failures>>

BecomesOverdue(j) ==
  /\ row[j].status \notin {"absent", "accepted"} /\ ~row[j].overdue
  /\ row' = [row EXCEPT ![j].overdue = TRUE]
  /\ UNCHANGED <<fresh, admitted, issued, stored, journal, mailed, run, call, late, failures>>

HeartbeatAges ==
  /\ fresh
  /\ fresh' = FALSE
  /\ UNCHANGED <<row, admitted, issued, stored, journal, mailed, run, call, late, failures>>

Worker ==
  \/ StartRun \/ CloseReceipt \/ SendClaim \/ EndRun \/ RefuseJob \/ Recall \/ Prepare \/ RecordOutcome
  \/ \E j \in Jobs : SendAck(j)
  \/ \E accepted \in BOOLEAN : HandToMailQueue(accepted)

Serve == ServeAck \/ ServeCheck \/ \E picked \in Jobs \cup {None} : ServeClaim(picked)

Next ==
  \/ \E j \in Jobs, old \in SUBSET Jobs : Post(j, old)
  \/ \E j \in Jobs : Store(j)
  \/ Worker \/ Serve
  \/ \E c \in late, picked \in Jobs \cup {None} : ServeLate(c, picked)
  \/ Fail
  \/ \E j \in Jobs : LeaseExpires(j) \/ BackOffEnds(j) \/ BecomesOverdue(j)
  \/ HeartbeatAges

Spec == Init /\ [][Next]_vars

(* Cron starts the worker every minute and the API answers it; leases and   *)
(* back-offs run out.  Only finitely many runs fail (MaxFailures).          *)
Fairness ==
  /\ WF_vars(Worker) /\ WF_vars(Serve)
  /\ \A j \in Jobs : WF_vars(LeaseExpires(j)) /\ WF_vars(BackOffEnds(j))

FairSpec == Spec /\ Fairness
-----------------------------------------------------------------------------
(* Properties *)

(* The tables, the journal, the calls and the worker have their types.      *)
TypeOK ==
  /\ row \in [Jobs -> RowType]
  /\ fresh \in BOOLEAN
  /\ admitted \subseteq Jobs
  /\ journal \in [Jobs -> Receipt]
  /\ mailed \in [Jobs -> Nat]
  /\ pc \in Places /\ todo \subseteq Jobs /\ claims \in 0..ClaimsPerRun
  /\ job \in Jobs \cup {None} /\ token \in Nat /\ sent \in {"accepted", "retry"}
  /\ call \in Call \cup {None} /\ late \subseteq Call
  /\ issued \in Nat /\ stored \in 0..MaxStored /\ failures \in 0..MaxFailures

(* "Lost acknowledgements never cause a known accepted message to be sent   *)
(* again" (ops/mail-worker/README.md), and neither does a crash, an expired *)
(* lease or a late call: the mail queue accepts a request at most once.     *)
AtMostOnce == \A j \in Jobs : mailed[j] <= 1

(* The database says "accepted" only of a request that the mail queue has.  *)
AcceptedIsMailed == \A j \in Jobs : row[j].status = "accepted" => mailed[j] = 1

(* Why: the journal knows more than the database.  A request whose receipt  *)
(* is new or "retry" was not mailed, one "accepted" was; acknowledgements   *)
(* on their way and rows only repeat the journal.                           *)
Stopped(j) ==
  journal[j].status \in {"sending", "uncertain"} /\ ~(pc \in {"mailing", "mailed"} /\ job = j)

CallsUnderWay == late \cup ({call} \ {None})

JournalInv ==
  /\ AtMostOnce /\ AcceptedIsMailed
  /\ \A j \in Jobs :
       /\ journal[j].status \in {"none", "retry"} => mailed[j] = 0
       /\ journal[j].status = "accepted" => mailed[j] = 1
       /\ row[j].status = "uncertain" /\ ~row[j].limit => Stopped(j)
  /\ \A c \in CallsUnderWay : c.kind = "ack" =>
       /\ c.outcome = "accepted" => mailed[c.job] = 1
       /\ c.outcome = "uncertain" => Stopped(c.job)
  /\ pc \in {"claimed", "mailing", "mailed"} => job \in Jobs
  /\ pc = "claimed" => row[job].status # "absent" \/ mailed[job] = 1
  /\ pc = "mailing" => journal[job].status = "sending" /\ mailed[job] = 0 /\ row[job].status # "absent"
  /\ pc = "mailed" => journal[job].status = "sending" /\ mailed[job] = (IF sent = "accepted" THEN 1 ELSE 0)

(* "Automatic re-sending stops": once the database says that acceptance is  *)
(* unknown, that request is not handed to mail() any more.                  *)
UnknownIsNotSent ==
  [][\A j \in Jobs : row[j].status = "uncertain" /\ ~row[j].limit => mailed'[j] = mailed[j]]_vars

PromiseState(status) ==
  CASE status = "absent" -> "none"
    [] status \in {"pending", "processing", "retry"} -> "waiting"
    [] OTHER -> status

Promise == INSTANCE IntakePromise WITH
  state <- [j \in Jobs |-> PromiseState(row[j].status)], mailed <- mailed

(* The queue keeps what IntakePromise promises.                             *)
KeepsPromise == Promise!Spec

(* A stored request is eventually accepted or set aside for a person, once  *)
(* the worker no longer fails; a malformed one does not hold up the others. *)
Settles ==
  \A j \in Jobs : row[j].status \notin {"absent"} ~> row[j].status \in {"accepted", "uncertain", "absent"}

(* An acceptance the worker reports only after the attempt limit has set    *)
(* the request aside still reaches the database, as long as the lease of    *)
(* the last attempt is the one on the receipt.                              *)
LateAcceptanceArrives ==
  \A j \in Jobs :
    (row[j].status = "uncertain" /\ row[j].limit
       /\ journal[j].status = "accepted" /\ journal[j].lease = row[j].lease)
    ~> row[j].status \in {"accepted", "absent"}
=============================================================================
