---------------------------- MODULE PnpmInstall ------------------------------
(***************************************************************************)
(* One pnpm install of a project: the Node process that starts pnpm, reads   *)
(* its events, and tells the shell by its exit status and the deployment by  *)
(* a report what became of it.                                               *)
(***************************************************************************)
EXTENDS Integers, FiniteSets

CONSTANTS
  Packages,
  MaxPackages,   \* that are counted (100000)
  None

VARIABLES
  stage,     \* "start", "ready", "running", "closed" (pnpm ended), "settled", "over", "killed"
  progress,  \* what the events said of the packages
  failure,   \* None, 70 (operational) or 65
  signal,    \* a signal arrived while pnpm ran
  code,      \* the result so far
  marker,    \* .sites-install.json was written: the install is usable
  report,    \* None as it was before, or with the counts (None: without)
  exit,      \* status: None or a number, 128 for that of any signal
  seen       \* every event pnpm told, and how it ended

vars == <<stage, progress, failure, signal, code, marker, report, exit, seen>>

Init ==
  /\ stage = "start" /\ failure = None /\ signal = FALSE /\ code = 1
  /\ progress = [reused |-> {}, downloaded |-> {}, complete |-> FALSE, added |-> 0, invalid |-> FALSE]
  /\ marker = FALSE /\ report = None /\ exit = None
  /\ seen = [fetched |-> {}, found |-> {}, errors |-> {}, odd |-> FALSE, ended |-> None]

(* The report is optional: it cannot be opened or written, and stays.       *)
WriteReport(r) == report' \in {report, r}

(* The shell's own report, before or instead of an install (--report-store).*)
ReportStore ==
  /\ stage = "start" /\ WriteReport([counts |-> None])
  /\ UNCHANGED <<stage, progress, failure, signal, code, marker, exit, seen>>

(* The arguments are checked, a first report is written.                    *)
Begin ==
  /\ stage = "start"
  /\ \/ stage' = "over" /\ exit' = 64 /\ UNCHANGED report
     \/ stage' = "ready" /\ WriteReport([counts |-> None]) /\ UNCHANGED exit
  /\ UNCHANGED <<progress, failure, signal, code, marker, seen>>

(* pnpm runs; or there is none (127), or it cannot be started (65).         *)
Spawn ==
  /\ stage = "ready"
  /\ \/ stage' = "running" /\ UNCHANGED code
     \/ stage' = "closed" /\ code' \in {127, 65}
  /\ UNCHANGED <<progress, failure, signal, marker, report, exit, seen>>

-----------------------------------------------------------------------------
(* The events, as far as they are about this project                        *)

Counted == Cardinality(progress.reused) + Cardinality(progress.downloaded)

(* Mutant of Fetched: a package found before stays among the reused.        *)
FetchedTwice(p) == [progress EXCEPT !.downloaded = @ \cup {p}]

Fetched(p) == [progress EXCEPT !.reused = @ \ {p}, !.downloaded = @ \cup {p}]

Found(p) == IF p \in progress.downloaded THEN progress ELSE [progress EXCEPT !.reused = @ \cup {p}]

(* InstallProgress.accept: a package, and any after the last that counts.   *)
Accept(p, status) ==
  /\ stage = "running"
  /\ progress' = IF Counted >= MaxPackages THEN [progress EXCEPT !.invalid = TRUE]
                 ELSE IF status = "fetched" THEN Fetched(p) ELSE Found(p)
  /\ seen' = IF status = "fetched" THEN [seen EXCEPT !.fetched = @ \cup {p}] ELSE [seen EXCEPT !.found = @ \cup {p}]
  /\ UNCHANGED <<stage, failure, signal, code, marker, report, exit>>

(* A package without a proper id.                                           *)
AcceptOdd ==
  /\ stage = "running"
  /\ progress' = [progress EXCEPT !.invalid = TRUE] /\ seen' = [seen EXCEPT !.odd = TRUE]
  /\ UNCHANGED <<stage, failure, signal, code, marker, report, exit>>

(* pnpm:stats; then pnpm:stage importing_done.                              *)
AcceptSummary ==
  /\ stage = "running"
  /\ \/ \E n \in {0, 1} : progress' = [progress EXCEPT !.added = n]
     \/ progress' = [progress EXCEPT !.complete = TRUE]
  /\ UNCHANGED <<stage, failure, signal, code, marker, report, exit, seen>>

Class(operational) == IF operational THEN 70 ELSE 65

(* Mutant of Verdict: the last error decides.                               *)
VerdictLast(operational) == Class(operational)

(* What is not operational stays so.                                        *)
Verdict(operational) == IF failure = 65 THEN 65 ELSE Class(operational)

(* An event of level error: pnpm's own with one of eleven codes, or other.  *)
Error(operational) ==
  /\ stage = "running"
  /\ failure' = Verdict(operational) /\ seen' = [seen EXCEPT !.errors = @ \cup {Class(operational)}]
  /\ UNCHANGED <<stage, progress, signal, code, marker, report, exit>>

(* The first signal is kept; pnpm, in the same group, got it as well.       *)
Signal ==
  /\ stage = "running" /\ signal' = TRUE
  /\ UNCHANGED <<stage, progress, failure, code, marker, report, exit, seen>>

-----------------------------------------------------------------------------
(* The end                                                                  *)

(* pnpm ended and its output with it.                                       *)
Close(how) ==
  /\ stage = "running" /\ stage' = "closed" /\ seen' = [seen EXCEPT !.ended = how]
  /\ signal' = (signal \/ how = "killed")
  /\ code' = IF how = "ok" THEN 0 ELSE IF signal' THEN 1 ELSE IF failure = None THEN 65 ELSE failure
  /\ UNCHANGED <<progress, failure, marker, report, exit>>

(* Without vinext, or when the marker cannot be written, it failed.         *)
Settle ==
  /\ stage = "closed" /\ stage' = "settled"
  /\ \/ code = 0 /\ ~signal /\ marker' = TRUE /\ UNCHANGED code
     \/ code = 0 /\ ~signal /\ code' = 65 /\ UNCHANGED marker
     \/ (code # 0 \/ signal) /\ UNCHANGED <<code, marker>>
  /\ UNCHANGED <<progress, failure, signal, report, exit, seen>>

Counts ==
  IF code = 0 /\ ~signal /\ progress.complete /\ progress.added > 0 /\ ~progress.invalid /\ Counted > 0
  THEN [reused |-> Cardinality(progress.reused), downloaded |-> Cardinality(progress.downloaded)]
  ELSE None

Finish ==
  /\ stage = "settled" /\ stage' = "over"
  /\ WriteReport([counts |-> Counts])
  /\ exit' = IF signal THEN 128 ELSE code
  /\ UNCHANGED <<progress, failure, signal, code, marker, seen>>

(* A signal that cannot be caught, or arrives when none is listened to.     *)
Die ==
  /\ stage \notin {"over", "killed"} /\ stage' = "killed" /\ exit' = 128
  /\ UNCHANGED <<progress, failure, signal, code, marker, report, seen>>

Next ==
  \/ ReportStore \/ Begin \/ Spawn
  \/ \E p \in Packages, status \in {"fetched", "found_in_store"} : Accept(p, status)
  \/ AcceptOdd \/ AcceptSummary \/ \E operational \in BOOLEAN : Error(operational)
  \/ Signal \/ \E how \in {"ok", "fails", "killed"} : Close(how)
  \/ Settle \/ Finish \/ Die

Spec == Init /\ [][Next]_vars

-----------------------------------------------------------------------------
(* Properties                                                               *)

(* The shell's fallback is told "operational" only of an install that pnpm  *)
(* itself failed and of which every error was operational ("may use         *)
(* operational status only for initial-setup fallback", pnpm-install.mjs:   *)
(* 23), success only of a marked one; and the counts of a report are those  *)
(* of everything pnpm told of a successful install, each package once,      *)
(* whatever the order of the events ("not an assertion about network bytes",*)
(* line 39).                                                                *)
StatusIsTrue ==
  /\ exit = 70 => seen.ended = "fails" /\ seen.errors = {70}
  /\ exit = 0 => seen.ended = "ok" /\ marker
  /\ report # None => (report.counts # None =>
       /\ seen.ended = "ok" /\ marker /\ exit \in {0, 128} /\ ~seen.odd
       /\ report.counts = [reused |-> Cardinality(seen.found \ seen.fetched), downloaded |-> Cardinality(seen.fetched)])
=============================================================================
