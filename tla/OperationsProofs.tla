---------------------------- MODULE OperationsProofs ---------------------------
(***************************************************************************)
(* Around the API and the site, for any runs, projects, packages, objects,  *)
(* papers, hosts, templates and settings.  Each part keeps an invariant of  *)
(* its own, and what one part does leaves those of the others alone.        *)
(*                                                                         *)
(* Installs: of the runs of a runtime root one holds the lock at most       *)
(* (Alone); an installer at work means that its run holds it, unless it was *)
(* killed or never had one (Locked); what an npm run did not find in the    *)
(* process table was not there or does not show (Looked).  PnpmInstall      *)
(* (PInv) and the paper: what is written down stays.  Launch (LInv, KInv):  *)
(* a console that is up fits its build, and what the preflight has passed   *)
(* it has looked at.                                                        *)
(* Scan (SInv): clamd says nothing that looks like a verdict before the end *)
(* of the object was sent, all of which was sent by then.                   *)
(***************************************************************************)
EXTENDS MCOperations, SequenceTheorems, TLAPS

PnpmSteps == {"start", "asked", "locked", "awaits", "granted", "store", "copied", "probe", "install", "wait"} \cup {"over"}
NpmSteps  == {"start", "scan", "preflight", "install", "wait"} \cup {"over"}
BareSteps == {"start", "wait"} \cup {"over"}

Types ==
  /\ step \in [Runs -> PnpmSteps \cup NpmSteps]
  /\ holder \in [Runs -> {"none", "opening", "idle", "waiting", "gone", "fd"}]
  /\ work \subseteq Runs /\ clear \in [Runs -> SUBSET Runs]
  /\ killed \subseteq Runs /\ store \in [Roots \cup {Shared} -> {"absent", "plain", "seeded"}]

(* What holds of each run.                                                  *)
Locked(r) ==
  /\ Kind[r] = "pnpm" =>
       /\ step[r] \in PnpmSteps /\ holder[r] # "fd"
       /\ r \in work => step[r] = "wait" \/ r \in killed
       /\ holder[r] = "opening" => step[r] \in {"asked", "over"}
       /\ step[r] \notin {"start", "asked", "over"} => holder[r] \in {"idle", "waiting"} \/ r \in killed
  /\ Kind[r] = "npm" =>
       /\ step[r] \in NpmSteps /\ holder[r] \in {"none", "fd"}
       /\ holder[r] = "fd" => RootOf[r] = ProjectOf[r]
       /\ r \in work => step[r] \in {"wait", "over"}
       /\ step[r] \notin {"start", "over"} \/ r \in work => holder[r] = "fd"
  /\ Kind[r] = "bare" => step[r] \in BareSteps /\ holder[r] = "none"

Looked(r) ==
  Kind[r] = "npm" /\ (step[r] \in {"preflight", "install", "wait"} \/ r \in work) =>
    \A q \in Runs : Kind[q] = "bare" /\ ProjectOf[q] = ProjectOf[r] => q \in Unseen \/ q \in clear[r]

Alone == \A q, r \in Runs : Holds(q) /\ Holds(r) /\ RootOf[q] = RootOf[r] => q = r

IInv == Types /\ Alone /\ \A r \in Runs : Locked(r) /\ Looked(r)

(* A step of one run leaves the others as they are.                         *)
Apart(r) ==
  \A q \in Runs \ {r} :
    /\ step'[q] = step[q] /\ holder'[q] = holder[q] /\ clear'[q] = clear[q]
    /\ (q \in work' <=> q \in work) /\ (q \in killed => q \in killed')

-----------------------------------------------------------------------------
LEMMA InitHolds == ASSUME InstallsAssumption, Init PROVE IInv
<1>1. Types
  BY DEF Init, Types, PnpmSteps
<1>2. \A r \in Runs : Locked(r) /\ Looked(r) /\ ~Holds(r)
  BY DEF Init, Locked, Looked, Holds, PnpmSteps, NpmSteps, BareSteps
<1> QED
  BY <1>1, <1>2 DEF IInv, Alone

(* What is to be shown of a step of a run: it keeps to itself, and takes a  *)
(* lock that is free or none.                                               *)
LEMMA OneRun ==
  ASSUME IInv, NEW r \in Runs, Types', Apart(r), Locked(r)', Looked(r)',
         Holds(r)' => Holds(r) \/ RootFree(r)
  PROVE  IInv'
<1>1. \A q \in Runs \ {r} : Locked(q)' /\ Looked(q)' /\ (Holds(q)' <=> Holds(q))
  BY DEF IInv, Apart, Locked, Looked, Holds
<1>2. Alone'
  BY <1>1 DEF IInv, Alone, RootFree
<1> QED
  BY <1>1, <1>2 DEF IInv

(* The shell of a pnpm run goes on or is gone; its holder keeps the lock.   *)
LEMMA ShellSteps ==
  ASSUME InstallsAssumption, IInv, NEW r \in Runs, NEW to, Kind[r] = "pnpm", step[r] \notin {"start", "asked", "over"},
         to \in PnpmSteps \ {"start", "asked"}, step[r] # "wait",
         step' = [step EXCEPT ![r] = to], holder' = holder, work' = work, clear' = clear, killed' = killed,
         store' \in [Roots \cup {Shared} -> {"absent", "plain", "seeded"}]
  PROVE  IInv'
<1>1. Types' /\ Apart(r)
  BY DEF IInv, Types, Apart
<1>2. step'[r] = to
  BY DEF IInv, Types
<1>3. Locked(r)' /\ Looked(r)'
  BY <1>2 DEF IInv, Locked, Looked
<1>4. Holds(r)' => Holds(r)
  BY DEF Holds, IInv, Locked
<1> QED
  BY <1>1, <1>3, <1>4, OneRun

LEMMA PnpmHolds ==
  ASSUME InstallsAssumption, IInv, NEW r \in Runs,
         \/ Start(r) \/ OpenProject(r) \/ Scope(r) \/ LockShared(r) \/ UseShared(r) \/ Look(r) \/ Publish(r)
         \/ ReleaseShared(r) \/ HolderEnds(r) \/ KillHolder(r)
  PROVE  IInv'
<1> USE DEF Goes
<1>0. /\ step \in [Runs -> PnpmSteps \cup NpmSteps] /\ Types /\ Locked(r) /\ Looked(r)
      /\ Kind[r] \in {"pnpm", "npm", "bare"}
  BY DEF IInv, Types, InstallsAssumption
<1>1. CASE Start(r)
  <2>1. Types' /\ Apart(r)
    BY <1>0, <1>1 DEF Start, Types, Apart, PnpmSteps
  <2>2. step'[r] = "asked" /\ holder'[r] = "opening" /\ UNCHANGED <<killed, work>> /\ Kind[r] = "pnpm" /\ step[r] = "start"
    BY <1>0, <1>1 DEF Start, Begins, Types
  <2>3. Locked(r)' /\ Looked(r)'
    BY <1>0, <2>2 DEF Locked, Looked, PnpmSteps
  <2> QED
    BY <2>1, <2>2, <2>3, OneRun DEF Holds
<1>2. CASE OpenProject(r)
  <2>1. Types' /\ Apart(r)
    BY <1>0, <1>2 DEF OpenProject, Types, Apart, PnpmSteps
  <2>2. /\ Kind[r] = "pnpm" /\ step[r] \in {"start", "asked", "over"} /\ UNCHANGED <<killed, work>>
        /\ \/ holder'[r] = "idle" /\ RootFree(r) /\ step'[r] = IF step[r] = "asked" THEN "locked" ELSE step[r]
           \/ holder'[r] = "gone" /\ step'[r] = IF step[r] = "asked" THEN "over" ELSE step[r]
    BY <1>0, <1>2 DEF OpenProject, Types, Locked
  <2>3. Locked(r)' /\ Looked(r)'
    BY <1>0, <2>2 DEF Locked, Looked, PnpmSteps
  <2> QED
    BY <2>1, <2>2, <2>3, OneRun DEF Holds
<1>3. CASE Scope(r)
  <2>1. Types' /\ Apart(r)
    BY <1>0, <1>3 DEF Scope, Private, Types, Apart, PnpmSteps
  <2>2. /\ Kind[r] = "pnpm" /\ step[r] = "locked" /\ UNCHANGED <<killed, work>>
        /\ step'[r] \in {"over", "store", "awaits"}
        /\ holder'[r] = holder[r] \/ (holder[r] = "idle" /\ holder'[r] = "waiting")
    BY <1>0, <1>3 DEF Scope, Private, Types, Locked, NpmSteps, BareSteps
  <2>3. Locked(r)' /\ Looked(r)'
    BY <1>0, <2>2 DEF Locked, Looked, PnpmSteps
  <2> QED
    BY <2>1, <2>2, <2>3, OneRun DEF Holds
<1>4. CASE LockShared(r)
  <2>1. Types' /\ Apart(r)
    BY <1>0, <1>4 DEF LockShared, Private, Types, Apart, PnpmSteps
  <2>2. /\ Kind[r] = "pnpm" /\ UNCHANGED <<killed, work>> /\ Holds(r) /\ holder'[r] = "idle"
        /\ step'[r] = step[r] \/ (step[r] = "awaits" /\ step'[r] \in {"over", "store", "granted"})
    BY <1>0, <1>4 DEF LockShared, Private, Types, Locked, Holds
  <2>3. Locked(r)' /\ Looked(r)'
    BY <1>0, <2>2 DEF Locked, Looked, PnpmSteps
  <2> QED
    BY <2>1, <2>2, <2>3, OneRun
<1>5. CASE UseShared(r)
  <2>1. PICK to \in {"store", "over"} : step' = [step EXCEPT ![r] = to]
    BY <1>5 DEF UseShared, Private
  <2>2. /\ Kind[r] = "pnpm" /\ step[r] = "granted"
        /\ UNCHANGED <<holder, killed, work, store, clear>>
    BY <1>0, <1>5 DEF UseShared, Locked, NpmSteps, BareSteps
  <2> QED
    BY <1>0, <2>1, <2>2, ShellSteps DEF PnpmSteps, Types
<1>6. CASE Look(r)
  <2>1. PICK to \in {"probe", "copied"} : step' = [step EXCEPT ![r] = to]
    BY <1>6 DEF Look
  <2>2. Kind[r] = "pnpm" /\ step[r] = "store" /\ UNCHANGED <<holder, killed, work, clear>>
    BY <1>0, <1>6 DEF Look, Locked, NpmSteps, BareSteps
  <2>3. store' \in [Roots \cup {Shared} -> {"absent", "plain", "seeded"}]
    BY <1>0, <1>6 DEF Look, Types
  <2> QED
    BY <1>0, <2>1, <2>2, <2>3, ShellSteps DEF PnpmSteps
<1>7. CASE Publish(r)
  <2>1. step' = [step EXCEPT ![r] = "probe"]
    BY <1>7 DEF Publish
  <2>2. Kind[r] = "pnpm" /\ step[r] = "copied" /\ UNCHANGED <<holder, killed, work, clear>>
    BY <1>0, <1>7 DEF Publish, Locked, NpmSteps, BareSteps
  <2>3. store' \in [Roots \cup {Shared} -> {"absent", "plain", "seeded"}]
    BY <1>0, <1>7 DEF Publish, Types
  <2> QED
    BY <1>0, <2>1, <2>2, <2>3, ShellSteps DEF PnpmSteps
<1>8. CASE ReleaseShared(r)
  <2>1. PICK to \in {"over", "install"} : step' = [step EXCEPT ![r] = to]
    BY <1>8 DEF ReleaseShared
  <2>2. Kind[r] = "pnpm" /\ step[r] = "probe" /\ UNCHANGED <<holder, killed, work, store, clear>>
    BY <1>0, <1>8 DEF ReleaseShared, Locked, NpmSteps, BareSteps
  <2> QED
    BY <1>0, <2>1, <2>2, ShellSteps DEF PnpmSteps, Types
<1>9. CASE HolderEnds(r)
  <2>1. Types' /\ Apart(r)
    BY <1>0, <1>9 DEF HolderEnds, Types, Apart
  <2>2. Kind[r] = "pnpm" /\ step[r] = "over" /\ holder'[r] = "gone" /\ UNCHANGED <<step, killed, work, clear>>
    BY <1>0, <1>9 DEF HolderEnds, Types, Locked
  <2>3. Locked(r)' /\ Looked(r)'
    BY <1>0, <2>2 DEF Locked, Looked
  <2> QED
    BY <2>1, <2>2, <2>3, OneRun DEF Holds
<1>10. CASE KillHolder(r)
  <2>1. Types' /\ Apart(r)
    BY <1>0, <1>10 DEF KillHolder, Private, Types, Apart, PnpmSteps
  <2>2. /\ Kind[r] = "pnpm" /\ holder'[r] = "gone" /\ r \in killed' /\ UNCHANGED <<work, clear>>
        /\ step'[r] \in {step[r], "over", "store"}
    BY <1>0, <1>10 DEF KillHolder, Private, Types, Locked
  <2>3. Locked(r)' /\ Looked(r)'
    BY <1>0, <2>2 DEF Locked, Looked, PnpmSteps
  <2> QED
    BY <2>1, <2>2, <2>3, OneRun DEF Holds
<1> QED
  BY <1>1, <1>2, <1>3, <1>4, <1>5, <1>6, <1>7, <1>8, <1>9, <1>10

(* The lock is taken, and the processes are looked at once it is.           *)
LEMMA NpmHolds ==
  ASSUME InstallsAssumption, IInv, NEW r \in Runs, Flock(r) \/ Scan(r) \/ Preflight(r)
  PROVE  IInv'
<1> USE DEF Goes
<1>0. Types /\ Locked(r) /\ Looked(r) /\ Kind[r] \in {"pnpm", "npm", "bare"}
  BY DEF IInv, InstallsAssumption
<1>1. CASE Flock(r)
  <2>1. Types' /\ Apart(r)
    BY <1>0, <1>1 DEF Flock, Types, Apart, NpmSteps
  <2>2. /\ Kind[r] = "npm" /\ step[r] = "start" /\ UNCHANGED <<killed, work, clear>>
        /\ \/ RootOf[r] = ProjectOf[r] /\ RootFree(r) /\ holder'[r] = "fd" /\ step'[r] = "scan"
           \/ holder'[r] = holder[r] /\ step'[r] = "over"
    BY <1>0, <1>1 DEF Flock, Begins, Types
  <2>3. Locked(r)' /\ Looked(r)'
    BY <1>0, <2>2 DEF Locked, Looked, NpmSteps
  <2>4. Holds(r)' => Holds(r) \/ RootFree(r)
    BY <1>0, <2>2 DEF Holds, Locked
  <2> QED
    BY <2>1, <2>3, <2>4, OneRun
<1>2. CASE Scan(r)
  <2>1. Types' /\ Apart(r)
    BY <1>0, <1>2 DEF Scan, Types, Apart, NpmSteps
  <2>2. /\ Kind[r] = "npm" /\ step[r] = "scan" /\ UNCHANGED <<holder, killed, work>>
        /\ \/ Visible(r) = {} /\ step'[r] = "preflight" /\ clear'[r] = Runs \ work
           \/ step'[r] = "over"
    BY <1>0, <1>2 DEF Scan, Types, Locked, PnpmSteps, BareSteps
  <2>3. Locked(r)' /\ Looked(r)'
    <3>1. \A q \in Runs : Kind[q] = "bare" /\ ProjectOf[q] = ProjectOf[r] /\ Visible(r) = {} => q \in Unseen \cup (Runs \ work)
      BY DEF Visible
    <3> QED
      BY <1>0, <2>2, <3>1 DEF Locked, Looked, NpmSteps
  <2>4. Holds(r)' => Holds(r) \/ RootFree(r)
    BY <1>0, <2>2 DEF Holds, Locked
  <2> QED
    BY <2>1, <2>3, <2>4, OneRun
<1>3. CASE Preflight(r)
  <2>1. Types' /\ Apart(r)
    BY <1>0, <1>3 DEF Preflight, Types, Apart, NpmSteps
  <2>2. /\ Kind[r] = "npm" /\ step[r] = "preflight" /\ UNCHANGED <<holder, killed, work, clear>> /\ step'[r] = "install"
    BY <1>0, <1>3 DEF Preflight, Types, Locked, PnpmSteps, BareSteps
  <2>3. Locked(r)' /\ Looked(r)'
    BY <1>0, <2>2 DEF Locked, Looked, NpmSteps
  <2>4. Holds(r)' => Holds(r) \/ RootFree(r)
    BY <1>0, <2>2 DEF Holds, Locked
  <2> QED
    BY <2>1, <2>3, <2>4, OneRun
<1> QED
  BY <1>1, <1>2, <1>3

LEMMA RunHolds ==
  ASSUME InstallsAssumption, IInv, NEW r \in Runs,
         Install(r) \/ InstallEnds(r) \/ Return(r) \/ Fail(r) \/ Kill(r)
  PROVE  IInv'
<1> USE DEF Goes
<1>0. Types /\ Locked(r) /\ Looked(r) /\ Kind[r] \in {"pnpm", "npm", "bare"}
  BY DEF IInv, InstallsAssumption
<1>1. CASE Install(r)
  <2>1. Types' /\ Apart(r)
    BY <1>0, <1>1 DEF Install, Types, Apart, NpmSteps
  <2>2. /\ step[r] = "install" \/ (Kind[r] = "bare" /\ step[r] = "start")
        /\ step'[r] = "wait" /\ r \in work' /\ UNCHANGED <<holder, killed, clear>>
    BY <1>0, <1>1 DEF Install, Begins, Types
  <2>3. Locked(r)' /\ Looked(r)'
    BY <1>0, <2>2 DEF Locked, Looked, PnpmSteps, NpmSteps, BareSteps
  <2>4. Holds(r)' => Holds(r) \/ RootFree(r)
    BY <1>0, <2>2 DEF Holds, Locked
  <2> QED
    BY <2>1, <2>3, <2>4, OneRun
<1>2. CASE InstallEnds(r)
  <2>1. Types' /\ Apart(r)
    BY <1>0, <1>2 DEF InstallEnds, Types, Apart
  <2>2. r \in work /\ r \notin work' /\ UNCHANGED <<step, holder, killed, clear>>
    BY <1>2 DEF InstallEnds
  <2>3. Locked(r)' /\ Looked(r)'
    BY <1>0, <2>2 DEF Locked, Looked
  <2>4. Holds(r)' => Holds(r) \/ RootFree(r)
    BY <2>2 DEF Holds
  <2> QED
    BY <2>1, <2>3, <2>4, OneRun
<1>3. CASE Return(r) \/ Fail(r) \/ Kill(r)
  <2>1. Types' /\ Apart(r)
    BY <1>0, <1>3 DEF Return, Fail, Kill, Types, Apart, NpmSteps
  <2>2. /\ step'[r] = "over" /\ UNCHANGED <<work, holder, clear>>
        /\ r \in work => Kind[r] = "npm" \/ r \in killed' \/ Kind[r] = "bare"
    BY <1>0, <1>3 DEF Return, Fail, Kill, Types, Locked
  <2>3. Locked(r)' /\ Looked(r)'
    BY <1>0, <2>2 DEF Locked, Looked, PnpmSteps, NpmSteps, BareSteps
  <2>4. Holds(r)' => Holds(r) \/ RootFree(r)
    BY <1>0, <2>2 DEF Holds, Locked
  <2> QED
    BY <2>1, <2>3, <2>4, OneRun
<1> QED
  BY <1>1, <1>2, <1>3

LEMMA NextHolds == ASSUME InstallsAssumption, IInv, [Next]_vars PROVE IInv'
<1>1. ASSUME NEW s \in Roots \cup {Shared}, OrdinaryPnpm(s) PROVE IInv'
  <2>1. Types' /\ UNCHANGED <<step, holder, killed, work, clear>>
    BY <1>1 DEF OrdinaryPnpm, IInv, Types
  <2> QED
    BY <2>1 DEF IInv, Alone, Locked, Looked, Holds
<1>2. CASE UNCHANGED vars
  BY <1>2 DEF vars, IInv, Types, Alone, Locked, Looked, Holds
<1> QED
  BY <1>1, <1>2, PnpmHolds, NpmHolds, RunHolds DEF Next

(* Two installers at work in one project do not both hold its lock.         *)
LEMMA AloneIsEnough == ASSUME InstallsAssumption, IInv PROVE InstallsAreAlone
<1> SUFFICES ASSUME NEW q \in work, NEW r \in work \ {q}, ProjectOf[q] = ProjectOf[r]
    PROVE  \E x \in {q, r} : \E y \in {q, r} \ {x} :
             \/ Kind[x] = "pnpm" /\ (x \in killed \/ RootOf[x] # RootOf[y])
             \/ Kind[x] = "bare" /\ (Kind[y] = "npm" => x \in Unseen \/ x \in clear[y])
  BY DEF InstallsAreAlone
<1>1. q \in Runs /\ r \in Runs /\ q # r
  BY DEF IInv, Types
<1>2. \A x \in {q, r} : /\ Kind[x] = "npm" => Holds(x) /\ RootOf[x] = ProjectOf[x]
                        /\ Kind[x] = "pnpm" => Holds(x) \/ x \in killed
                        /\ Kind[x] \in {"pnpm", "npm", "bare"}
  BY <1>1 DEF IInv, Locked, Holds, InstallsAssumption
<1>3. Holds(q) /\ Holds(r) => RootOf[q] # RootOf[r]
  BY <1>1 DEF IInv, Alone
<1>4. \A x, y \in {q, r} : Kind[x] = "bare" /\ Kind[y] = "npm" => x \in Unseen \/ x \in clear[y]
  BY <1>1 DEF IInv, Looked
<1>5. CASE Kind[q] = "bare" \/ Kind[r] = "bare"
  BY <1>1, <1>4, <1>5
<1>6. CASE Kind[q] # "bare" /\ Kind[r] # "bare"
  BY <1>1, <1>2, <1>3, <1>6
<1> QED
  BY <1>5, <1>6

-----------------------------------------------------------------------------
(* Two installers are at work in one project only if a process of a pnpm    *)
(* one was killed, their runtime roots differ, or one is a bare npm ci that *)
(* could not be seen (install-pnpm.sh, pnpm-install.mjs, install-ci.sh).    *)
THEOREM InstallsStayAlone == Spec => []InstallsAreAlone
<1>1. Init => IInv
  BY InitHolds, InstallsAssumption
<1>2. IInv /\ [Next]_vars => IInv'
  BY NextHolds, InstallsAssumption
<1>3. IInv => InstallsAreAlone
  BY AloneIsEnough, InstallsAssumption
<1> QED
  BY <1>1, <1>2, <1>3, PTL DEF Spec

(* A store that is there is never replaced or merged into, by whichever     *)
(* installs prepare it at once (install-pnpm.sh).                           *)
THEOREM StoresStay == Spec => StoresAreKept
<1>1. Init => IInv
  BY InitHolds, InstallsAssumption
<1>2. IInv /\ [Next]_vars => IInv'
  BY NextHolds, InstallsAssumption
<1>3. IInv /\ [Next]_vars => [\A s \in DOMAIN store : store[s] # "absent" => store'[s] = store[s]]_vars
  <2> SUFFICES ASSUME IInv, Next, NEW s \in DOMAIN store, store[s] # "absent" PROVE store'[s] = store[s]
    OBVIOUS
  <2>1. ASSUME NEW r \in Runs, Look(r) \/ Publish(r) PROVE store'[s] = store[s]
    BY <2>1 DEF Look, Publish, Lands, IInv, Types
  <2>2. ASSUME NEW x \in Roots \cup {Shared}, OrdinaryPnpm(x) PROVE store'[s] = store[s]
    BY <2>2 DEF OrdinaryPnpm, IInv, Types
  <2> QED
    BY <2>1, <2>2 DEF Next, Start, OpenProject, Scope, LockShared, UseShared, ReleaseShared, HolderEnds, KillHolder,
                      Flock, Scan, Preflight, Install, InstallEnds, Return, Fail, Kill
<1> QED
  BY <1>1, <1>2, <1>3, PTL DEF Spec, StoresAreKept

-----------------------------------------------------------------------------
(* One pnpm install (PnpmInstall): what the process has counted is what it  *)
(* was told, unless it gave the counting up; and its result goes back to    *)
(* the way pnpm ended.                                                      *)
Told ==
  /\ progress.invalid \/ (/\ progress.reused = seen.found \ seen.fetched
                          /\ progress.downloaded = seen.fetched /\ ~seen.odd)
  /\ seen.errors \subseteq {65, 70}
  /\ failure = IF 65 \in seen.errors THEN 65 ELSE IF 70 \in seen.errors THEN 70 ELSE None

Result ==
  /\ code \in {0, 1, 65, 70, 127}
  /\ code = 0 => seen.ended = "ok"
  /\ code = 70 => seen.ended = "fails" /\ seen.errors = {70}
  /\ stage = "settled" /\ code = 0 /\ ~signal => marker

Stages == {"start", "ready", "running", "closed", "settled", "over", "killed"}

Progress == [reused : SUBSET Packages, downloaded : SUBSET Packages, complete : BOOLEAN, added : Int, invalid : BOOLEAN]
Seen     == [fetched : SUBSET Packages, found : SUBSET Packages, errors : SUBSET {65, 70}, odd : BOOLEAN,
             ended : {None, "ok", "fails", "killed"}]

PTypes ==
  /\ stage \in Stages /\ signal \in BOOLEAN /\ marker \in BOOLEAN
  /\ progress \in Progress /\ seen \in Seen

(* Nothing is reported of an install under way.                             *)
Unreported == exit = None /\ (report = None \/ report = [counts |-> None])

PInv ==
  /\ PTypes /\ Told /\ Result /\ Pnpm!StatusIsTrue
  /\ stage \notin {"over", "killed"} => Unreported
  /\ stage \in {"start", "ready", "running"} => code = 1

LEMMA PInvInit == ASSUME Pnpm!Init, None \notin Int PROVE PInv
<1>1. PTypes
  <2>1. progress \in Progress
    BY DEF Pnpm!Init, Progress
  <2>2. seen \in Seen
    BY DEF Pnpm!Init, Seen
  <2> QED
    BY <2>1, <2>2 DEF Pnpm!Init, PTypes, Stages
<1>2. Told /\ Result /\ Unreported /\ code = 1
  BY DEF Pnpm!Init, Told, Result, Unreported
<1>3. Pnpm!StatusIsTrue
  BY DEF Pnpm!Init, Pnpm!StatusIsTrue
<1> QED
  BY <1>1, <1>2, <1>3 DEF PInv

LEMMA ProgressStays ==
  ASSUME progress \in Progress, NEW p \in Packages
  PROVE  /\ Pnpm!Fetched(p) \in Progress /\ Pnpm!Found(p) \in Progress
         /\ [progress EXCEPT !.invalid = TRUE] \in Progress
<1>1. Pnpm!Fetched(p) \in Progress
  BY DEF Pnpm!Fetched, Progress
<1>2. Pnpm!Found(p) \in Progress
  BY DEF Pnpm!Found, Progress
<1>3. [progress EXCEPT !.invalid = TRUE] \in Progress
  BY DEF Progress
<1> QED
  BY <1>1, <1>2, <1>3

LEMMA PInvEvents ==
  ASSUME None \notin Int, PInv, stage = "running",
         \/ \E p \in Packages, how \in {"fetched", "found_in_store"} : Pnpm!Accept(p, how)
         \/ Pnpm!AcceptOdd \/ Pnpm!AcceptSummary \/ \E operational \in BOOLEAN : Pnpm!Error(operational)
         \/ Pnpm!Signal
  PROVE  PInv'
<1>1. UNCHANGED <<stage, code, marker, report, exit>> /\ Unreported /\ seen'.ended = seen.ended
  <2>1. Unreported /\ PTypes
    BY DEF PInv
  <2> QED
    BY <2>1 DEF PTypes, Seen, Pnpm!Accept, Pnpm!AcceptOdd, Pnpm!AcceptSummary, Pnpm!Error, Pnpm!Signal
<1>2. code = 1
  BY DEF PInv
<1>3. PTypes'
  <2>1. PTypes
    BY DEF PInv
  <2>2. ASSUME NEW p \in Packages, NEW how \in {"fetched", "found_in_store"}, Pnpm!Accept(p, how) PROVE PTypes'
    <3>1. progress' \in {[progress EXCEPT !.invalid = TRUE], Pnpm!Fetched(p), Pnpm!Found(p)}
      BY <2>2 DEF Pnpm!Accept
    <3>2. progress' \in Progress
      BY <2>1, <3>1, ProgressStays DEF PTypes
    <3>3. seen' \in Seen
      BY <2>1, <2>2 DEF PTypes, Pnpm!Accept, Seen
    <3> QED
      BY <2>1, <2>2, <3>2, <3>3 DEF PTypes, Pnpm!Accept
  <2>3. CASE Pnpm!AcceptOdd
    BY <2>1, <2>3 DEF PTypes, Pnpm!AcceptOdd, Progress, Seen
  <2>5. CASE Pnpm!AcceptSummary
    <3>1. /\ \/ \E n \in {0, 1} : progress' = [progress EXCEPT !.added = n]
             \/ progress' = [progress EXCEPT !.complete = TRUE]
          /\ UNCHANGED <<stage, signal, marker, seen>>
      BY <2>5 DEF Pnpm!AcceptSummary
    <3>2. progress' \in Progress
      <4>1. \A n \in {0, 1} : [progress EXCEPT !.added = n] \in Progress
        BY <2>1 DEF PTypes, Progress
      <4>2. [progress EXCEPT !.complete = TRUE] \in Progress
        BY <2>1 DEF PTypes, Progress
      <4> QED
        BY <3>1, <4>1, <4>2
    <3> QED
      BY <2>1, <3>1, <3>2 DEF PTypes
  <2>6. CASE Pnpm!Signal
    BY <2>1, <2>6 DEF PTypes, Pnpm!Signal
  <2>4. ASSUME NEW operational \in BOOLEAN, Pnpm!Error(operational) PROVE PTypes'
    BY <2>1, <2>4 DEF PTypes, Pnpm!Error, Pnpm!Class, Seen
  <2> QED
    BY <2>2, <2>3, <2>4, <2>5, <2>6
<1>4. Told'
  <2>1. PTypes /\ Told
    BY DEF PInv
  <2>2. ASSUME NEW p \in Packages, NEW how \in {"fetched", "found_in_store"}, Pnpm!Accept(p, how) PROVE Told'
    <3>1. /\ failure' = failure
          /\ seen' = IF how = "fetched" THEN [seen EXCEPT !.fetched = @ \cup {p}] ELSE [seen EXCEPT !.found = @ \cup {p}]
      BY <2>2 DEF Pnpm!Accept
    <3>2. /\ seen'.errors = seen.errors /\ seen'.odd = seen.odd
          /\ seen'.fetched = IF how = "fetched" THEN seen.fetched \cup {p} ELSE seen.fetched
          /\ seen'.found = IF how = "fetched" THEN seen.found ELSE seen.found \cup {p}
      BY <2>1, <3>1 DEF PTypes, Seen
    <3>3. CASE progress' = [progress EXCEPT !.invalid = TRUE]
      BY <2>1, <3>1, <3>2, <3>3 DEF PTypes, Progress, Told
    <3>4. CASE how = "fetched" /\ progress' = Pnpm!Fetched(p)
      <4>1. progress'.reused = progress.reused \ {p} /\ progress'.downloaded = progress.downloaded \cup {p}
            /\ progress'.invalid = progress.invalid
        BY <2>1, <3>4 DEF PTypes, Progress, Pnpm!Fetched
      <4> QED
        BY <2>1, <3>1, <3>2, <3>4, <4>1 DEF Told
    <3>5. CASE how # "fetched" /\ progress' = Pnpm!Found(p)
      <4>1. /\ progress'.reused = IF p \in progress.downloaded THEN progress.reused ELSE progress.reused \cup {p}
            /\ progress'.downloaded = progress.downloaded /\ progress'.invalid = progress.invalid
        BY <2>1, <3>5 DEF PTypes, Progress, Pnpm!Found
      <4> QED
        BY <2>1, <3>1, <3>2, <3>5, <4>1 DEF Told
    <3> QED
      BY <2>2, <3>3, <3>4, <3>5 DEF Pnpm!Accept
  <2>3. ASSUME Pnpm!AcceptOdd PROVE Told'
    BY <2>1, <2>3 DEF PTypes, Progress, Seen, Told, Pnpm!AcceptOdd
  <2>4. ASSUME Pnpm!AcceptSummary \/ Pnpm!Signal PROVE Told'
    BY <2>1, <2>4 DEF PTypes, Progress, Seen, Told, Pnpm!AcceptSummary, Pnpm!Signal
  <2>5. ASSUME NEW operational \in BOOLEAN, Pnpm!Error(operational) PROVE Told'
    BY <2>1, <2>5 DEF PTypes, Progress, Seen, Told, Pnpm!Error, Pnpm!Verdict, Pnpm!Class
  <2> QED
    BY <2>2, <2>3, <2>4, <2>5
<1> QED
  BY <1>1, <1>2, <1>3, <1>4 DEF PInv, Result, Unreported, Pnpm!StatusIsTrue

LEMMA PInvNext ==
  ASSUME None \notin Int, PInv, [MCNext]_all
  PROVE  PInv'
<1>1. CASE UNCHANGED process
  BY <1>1 DEF process, PInv, PTypes, Told, Result, Unreported, Pnpm!StatusIsTrue
<1>2. CASE Pnpm!ReportStore \/ Pnpm!Begin \/ Pnpm!Spawn
  BY <1>2 DEF PInv, PTypes, Stages, Told, Result, Unreported, Pnpm!StatusIsTrue,
    Pnpm!ReportStore, Pnpm!Begin, Pnpm!Spawn, Pnpm!WriteReport
<1>3. ASSUME NEW how \in {"ok", "fails", "killed"}, Pnpm!Close(how) PROVE PInv'
  <2>1. PTypes' /\ Told' /\ Unreported' /\ seen'.ended = how /\ seen'.errors = seen.errors /\ stage' = "closed"
    <3>1. PTypes /\ Told /\ Unreported
      BY <1>3 DEF PInv, Pnpm!Close
    <3>2. seen' = [seen EXCEPT !.ended = how] /\ stage' = "closed" /\ signal' = (signal \/ how = "killed")
          /\ UNCHANGED <<progress, failure, marker, report, exit>>
      BY <1>3 DEF Pnpm!Close
    <3>3. seen' \in Seen /\ seen'.ended = how /\ seen'.errors = seen.errors /\ seen'.fetched = seen.fetched
          /\ seen'.found = seen.found /\ seen'.odd = seen.odd
      BY <3>1, <3>2 DEF PTypes, Seen
    <3>4. PTypes'
      BY <3>1, <3>2, <3>3 DEF PTypes, Stages
    <3>5. Told' /\ Unreported'
      BY <3>1, <3>2, <3>3 DEF Told, Unreported
    <3> QED
      BY <3>2, <3>3, <3>4, <3>5
  <2>2. code' = IF how = "ok" THEN 0 ELSE IF signal \/ how = "killed" THEN 1 ELSE IF failure = None THEN 65 ELSE failure
    BY <1>3 DEF Pnpm!Close, PInv, PTypes
  <2>3. failure = None \/ failure = 65 \/ (failure = 70 /\ seen.errors = {70})
    BY DEF PInv, Told
  <2>4. Result'
    BY <2>1, <2>2, <2>3 DEF Result
  <2> QED
    BY <2>1, <2>4 DEF PInv, Unreported, Pnpm!StatusIsTrue
<1>4. CASE Pnpm!Settle
  <2>1. UNCHANGED <<progress, seen, failure, signal, report, exit>> /\ stage' = "settled" /\ Unreported
    BY <1>4 DEF Pnpm!Settle, PInv
  <2>2. PTypes' /\ Told'
    <3>1. PTypes /\ Told /\ marker' \in {TRUE, marker}
      BY <1>4 DEF PInv, Pnpm!Settle
    <3> QED
      BY <2>1, <3>1 DEF PTypes, Stages, Told
  <2>3. Result'
    BY <1>4, <2>1 DEF PInv, Result, Pnpm!Settle
  <2> QED
    BY <2>1, <2>2, <2>3 DEF PInv, Unreported, Pnpm!StatusIsTrue
<1>5. CASE Pnpm!Finish
  <2>1. PTypes' /\ Told' /\ Result' /\ stage' = "over" /\ UNCHANGED <<progress, seen, code, signal, marker>>
    BY <1>5 DEF PInv, PTypes, Stages, Told, Result, Pnpm!Finish
  <2>2. exit' = (IF signal THEN 128 ELSE code) /\ Unreported /\ (code = 0 /\ ~signal => marker)
    BY <1>5 DEF PInv, Result, Pnpm!Finish
  <2>3. CASE report' = report
    BY <2>1, <2>2, <2>3 DEF PInv, Result, Unreported, Pnpm!StatusIsTrue
  <2>4. CASE report' = [counts |-> Pnpm!Counts]
    <3>1. CASE Pnpm!Counts = None
      BY <2>1, <2>2, <2>4, <3>1 DEF PInv, Result, Pnpm!StatusIsTrue
    <3>2. CASE Pnpm!Counts # None
      <4>1. code = 0 /\ ~signal /\ ~progress.invalid
            /\ Pnpm!Counts = [reused |-> Pnpm!Cardinality(progress.reused), downloaded |-> Pnpm!Cardinality(progress.downloaded)]
        <5> DEFINE C == code = 0 /\ ~signal /\ progress.complete /\ progress.added > 0 /\ ~progress.invalid /\ Pnpm!Counted > 0
        <5>1. CASE C
          BY <5>1 DEF Pnpm!Counts
        <5>2. CASE ~C
          BY <3>2, <5>2 DEF Pnpm!Counts
        <5> QED
          BY <5>1, <5>2
      <4>2. progress.reused = seen.found \ seen.fetched /\ progress.downloaded = seen.fetched /\ ~seen.odd
        BY <4>1 DEF PInv, Told
      <4>3. report'.counts = [reused |-> Pnpm!Cardinality(seen.found \ seen.fetched), downloaded |-> Pnpm!Cardinality(seen.fetched)]
        BY <2>4, <4>1, <4>2
      <4>4. seen.ended = "ok" /\ marker /\ exit' = 0
        BY <2>2, <4>1 DEF PInv, Result
      <4>5. Pnpm!StatusIsTrue'
        BY <2>1, <4>2, <4>3, <4>4 DEF Pnpm!StatusIsTrue
      <4> QED
        BY <2>1, <4>5 DEF PInv
    <3> QED
      BY <3>1, <3>2
  <2> QED
    BY <1>5, <2>3, <2>4 DEF Pnpm!Finish, Pnpm!WriteReport
<1>6. CASE Pnpm!Die
  BY <1>6 DEF PInv, PTypes, Stages, Told, Result, Unreported, Pnpm!StatusIsTrue, Pnpm!Die
<1>7. CASE Pnpm!Next
  <2>1. ASSUME \/ \E p \in Packages, how \in {"fetched", "found_in_store"} : Pnpm!Accept(p, how)
               \/ Pnpm!AcceptOdd \/ Pnpm!AcceptSummary \/ \E operational \in BOOLEAN : Pnpm!Error(operational)
               \/ Pnpm!Signal
        PROVE  PInv'
    <3>1. stage = "running"
      BY <2>1 DEF Pnpm!Accept, Pnpm!AcceptOdd, Pnpm!AcceptSummary, Pnpm!Error, Pnpm!Signal
    <3> QED
      BY <2>1, <3>1, PInvEvents
  <2> QED
    BY <1>2, <1>3, <1>4, <1>5, <1>6, <1>7, <2>1 DEF Pnpm!Next
<1> QED
  BY <1>1, <1>7 DEF MCNext, all, Scans

-----------------------------------------------------------------------------
(* The paper on a model (IndustrialAssessment): an indicator is settled     *)
(* only by inputs that are known, and what is known stays.                  *)
PaperTypes ==
  /\ DOMAIN scope = {"category", "energy", "rechargeable", "external", "use"}
  /\ scope["category"] \in Paper!Categories \cup {None}
  /\ scope["energy"] \in Energies \cup {None}
  /\ scope["rechargeable"] \in BOOLEAN \cup {None} /\ scope["external"] \in BOOLEAN \cup {None}

(* A field is filled in that was not known, or nothing is.                  *)
Refined ==
  \A f \in {"category", "energy", "rechargeable", "external"} : scope[f] \in {None, scope'[f]}

LEMMA PaperTypesInit == ASSUME Paper!Init PROVE PaperTypes
<1>1. DOMAIN Paper!Values = {"category", "energy", "rechargeable", "external", "use"}
  BY DEF Paper!Values
<1> QED
  BY <1>1 DEF Paper!Init, PaperTypes

LEMMA PaperTypesNext == ASSUME PaperTypes, [MCNext]_all PROVE PaperTypes'
<1>1. CASE scope' = scope
  BY <1>1 DEF PaperTypes
<1>2. ASSUME NEW f \in DOMAIN Paper!Values, NEW v \in Paper!Values[f], Paper!FillScope(f, v)
      PROVE  PaperTypes'
  <2>1. f \in {"category", "energy", "rechargeable", "external", "use"}
    BY DEF Paper!Values
  <2>2. DOMAIN scope' = DOMAIN scope /\ scope'[f] = v
        /\ \A g \in {"category", "energy", "rechargeable", "external", "use"} \ {f} : scope'[g] = scope[g]
    BY <1>2, <2>1 DEF Paper!FillScope, PaperTypes
  <2>3. CASE f = "category"
    BY <2>2, <2>3 DEF PaperTypes, Paper!Values
  <2>4. CASE f = "energy"
    BY <2>2, <2>4 DEF PaperTypes, Paper!Values
  <2>5. CASE f = "rechargeable"
    BY <2>2, <2>5 DEF PaperTypes, Paper!Values
  <2>6. CASE f = "external"
    BY <2>2, <2>6 DEF PaperTypes, Paper!Values
  <2>7. CASE f = "use"
    BY <2>2, <2>7 DEF PaperTypes
  <2> QED
    BY <2>1, <2>3, <2>4, <2>5, <2>6, <2>7
<1>3. Paper!Next => scope' = scope \/ \E f \in DOMAIN Paper!Values : \E v \in Paper!Values[f] : Paper!FillScope(f, v)
  BY DEF Paper!Next, Paper!NameModel, Paper!Review, Paper!AddEvidence
<1>4. [MCNext]_all => scope' = scope \/ Paper!Next
  BY DEF MCNext, all, Scans, paper
<1> QED
  BY <1>1, <1>2, <1>3, <1>4

(* What the fields say, with the numbers apart from the names.              *)
LEMMA EnergyIsAboveOrBelow ==
  ASSUME OperationsAssumption, PaperTypes
  PROVE  /\ scope.energy = None => ~Paper!Above /\ ~Paper!Below
         /\ scope.energy # None => (Paper!Below <=> ~Paper!Above)
<1>1. scope.energy # None => scope.energy \in Int
  BY DEF PaperTypes, OperationsAssumption
<1> QED
  BY <1>1 DEF Paper!Above, Paper!Below

LEMMA IndicatorsStand ==
  ASSUME OperationsAssumption, PaperTypes, PaperTypes', Refined
  PROVE  /\ Paper!Stands(Paper!Documentation, Paper!Documentation')
         /\ Paper!Stands(Paper!Minimum, Paper!Minimum')
         /\ Paper!Passport \in {"open", Paper!Passport'}
<1>1. /\ scope.category \in {None, scope'.category} /\ scope.energy \in {None, scope'.energy}
      /\ scope.rechargeable \in {None, scope'.rechargeable} /\ scope.external \in {None, scope'.external}
  BY DEF Refined
<1>2. (Paper!Above => Paper!Above') /\ (Paper!Below => Paper!Below') /\ (Paper!Above' => ~Paper!Below')
      /\ (Paper!Above => ~Paper!Below)
  <2>1. scope.energy # None => scope'.energy = scope.energy
    BY <1>1
  <2>2. CASE scope.energy = None
    <3>1. ~Paper!Above /\ ~Paper!Below
      BY <2>2 DEF Paper!Above, Paper!Below
    <3>2. scope'.energy = None \/ scope'.energy \in Int
      BY DEF PaperTypes, OperationsAssumption
    <3> QED
      BY <3>1, <3>2 DEF Paper!Above, Paper!Below
  <2>3. CASE scope.energy # None
    <3>1. scope'.energy = scope.energy /\ scope.energy \in Int
      BY <2>1, <2>3 DEF PaperTypes, OperationsAssumption
    <3> QED
      BY <3>1 DEF Paper!Above, Paper!Below
  <2> QED
    BY <2>2, <2>3
<1>3. /\ scope.category # None => scope'.category = scope.category
      /\ Paper!Industrial => Paper!Industrial'
      /\ scope.rechargeable \in BOOLEAN => scope'.rechargeable = scope.rechargeable
      /\ scope.external \in BOOLEAN => scope'.external = scope.external
  BY <1>1 DEF Paper!Industrial, OperationsAssumption
<1>4. /\ scope.category # None /\ ~Paper!Industrial => scope'.category # None /\ ~Paper!Industrial'
      /\ scope.category \in {"EV", "LMT"} => scope'.category \in {"EV", "LMT"} /\ ~Paper!Industrial'
      /\ Paper!Industrial => scope'.category \notin {"EV", "LMT"} /\ scope.category # None
      /\ Paper!Industrial' => scope'.category # None
  BY <1>3 DEF Paper!Industrial, OperationsAssumption
<1>5. Paper!Stands(Paper!Documentation, Paper!Documentation')
  BY <1>2, <1>3, <1>4 DEF Paper!Documentation, Paper!Stands
<1>6. Paper!Stands(Paper!Minimum, Paper!Minimum')
  <2>1. CASE Paper!Documentation # "candidate"
    <3>1. Paper!Minimum = Paper!Documentation
      BY <2>1 DEF Paper!Minimum
    <3>2. CASE Paper!Documentation = "open"
      BY <3>1, <3>2 DEF Paper!Stands
    <3>3. CASE Paper!Documentation # "open"
      <4>1. Paper!Documentation' # "candidate"
        BY <1>5, <2>1, <3>3 DEF Paper!Stands
      <4>2. Paper!Minimum' = Paper!Documentation'
        BY <4>1 DEF Paper!Minimum
      <4> QED
        BY <1>5, <3>1, <4>2
    <3> QED
      BY <3>2, <3>3
  <2>2. CASE Paper!Documentation = "candidate"
    <3>1. Paper!Documentation' = "candidate"
      BY <1>5, <2>2 DEF Paper!Stands
    <3> QED
      BY <1>3, <2>2, <3>1, OperationsAssumption DEF PaperTypes, OperationsAssumption, Paper!Minimum, Paper!Stands
  <2> QED
    BY <2>1, <2>2
<1>7. Paper!Passport \in {"open", Paper!Passport'}
  BY <1>2, <1>3, <1>4 DEF Paper!Passport
<1> QED
  BY <1>5, <1>6, <1>7

LEMMA CandidatesAreOrdered ==
  ASSUME OperationsAssumption, PaperTypes
  PROVE  /\ Paper!Minimum = "candidate" => Paper!Documentation = "candidate"
         /\ Paper!Documentation = "candidate" => Paper!Passport = "candidate"
<1>1. Paper!Minimum = "candidate" => Paper!Documentation = "candidate"
  BY DEF Paper!Minimum
<1>2. Paper!Documentation = "candidate" => Paper!Industrial /\ Paper!Above
  BY DEF Paper!Documentation
<1>3. Paper!Above => ~Paper!Below
  BY EnergyIsAboveOrBelow DEF Paper!Above
<1>4. Paper!Industrial /\ Paper!Above => Paper!Passport = "candidate"
  BY <1>3 DEF Paper!Passport, Paper!Industrial
<1> QED
  BY <1>1, <1>2, <1>4

(* A complete paper cites a record, which is one of its model.              *)
LEMMA CompleteIsOfTheModel ==
  ASSUME Paper!Next, Paper!Complete, Paper!Complete'
  PROVE  model' = model
<1>1. SUFFICES ASSUME NEW id \in Models, Paper!NameModel(id) PROVE model' = model
  BY DEF Paper!Next, Paper!FillScope, Paper!Review, Paper!AddEvidence
<1>2. UNCHANGED <<review, evidence>>
  BY <1>1 DEF Paper!NameModel
<1>3. PICK ref \in review.refs : ~Paper!Amiss(ref)
  BY DEF Paper!Complete, Paper!Gaps
<1>4. PICK k \in DOMAIN evidence : evidence[k].id = ref /\ evidence[k].model = model
  BY <1>3 DEF Paper!Amiss
<1>5. evidence[k].model = model'
  <2>1. ref \in review'.refs /\ ~Paper!Gaps'
    BY <1>2 DEF Paper!Complete
  <2>2. \A x \in review'.refs : ~Paper!Amiss(x)'
    BY <2>1 DEF Paper!Gaps
  <2>3. ~Paper!Amiss(ref)'
    BY <2>1, <2>2
  <2> QED
    BY <1>2, <1>4, <2>3 DEF Paper!Amiss
<1> QED
  BY <1>4, <1>5

(* Whatever is filled in, and in whatever order: a settled indicator stays  *)
(* when more becomes known, Article 10 never excuses from Article 77, and a *)
(* complete paper is of one model (customer-readiness-assessment.cjs).      *)
THEOREM IndicatorsAreSettledForGood == MCSpec => VerdictsStand
<1> DEFINE A == /\ (\A f \in DOMAIN scope : scope[f] \in {None, scope'[f]}) =>
                     /\ Paper!Stands(Paper!Documentation, Paper!Documentation')
                     /\ Paper!Stands(Paper!Minimum, Paper!Minimum')
                     /\ Paper!Passport \in {"open", Paper!Passport'}
                /\ (Paper!Minimum = "candidate" => Paper!Documentation = "candidate")
                /\ (Paper!Documentation = "candidate" => Paper!Passport = "candidate")
                /\ Paper!Complete /\ Paper!Complete' => model' = model
<1>1. MCInit => PaperTypes
  BY PaperTypesInit DEF MCInit
<1>2. PaperTypes /\ [MCNext]_all => PaperTypes'
  BY PaperTypesNext
<1>3. PaperTypes /\ [MCNext]_all => [A]_(Paper!vars)
  <2>1. SUFFICES ASSUME PaperTypes, [MCNext]_all, Paper!vars' # Paper!vars PROVE A
    OBVIOUS
  <2>2. PaperTypes' /\ Paper!Next
    <3>1. PaperTypes'
      BY <2>1, PaperTypesNext
    <3>2. [MCNext]_all => paper' = paper \/ Paper!Next
      BY DEF MCNext, all, Scans
    <3> QED
      BY <2>1, <3>1, <3>2 DEF paper, Paper!vars
  <2>3. (\A f \in DOMAIN scope : scope[f] \in {None, scope'[f]}) => Refined
    BY <2>1 DEF PaperTypes, Refined
  <2> QED
    BY <2>1, <2>2, <2>3, IndicatorsStand, CandidatesAreOrdered, CompleteIsOfTheModel, OperationsAssumption
<1> QED
  BY <1>1, <1>2, <1>3, PTL DEF MCSpec, VerdictsStand, Paper!VerdictsStand

-----------------------------------------------------------------------------
(* The deployment (Launch): what was built and what the console started     *)
(* with.                                                                    *)
LInv == Services!DeploymentFits

(* What an accepted template says of a secret.                              *)
LEMMA SecretsAreAsked ==
  ASSUME NEW t \in Seq(Services!Lines), Services!Accepted(t), NEW key \in Services!Secrets,
         key \in DOMAIN Services!Fields(t)
  PROVE  Services!Fields(t)[key] = "asked"
<1>1. PICK n \in DOMAIN t : t[n].key = key
  BY DEF Services!Fields
<1>2. t[n].value = Services!NoValue
  BY <1>1 DEF Services!Accepted
<1>3. t[n] \in Services!Lines
  OBVIOUS
<1>4. t[n] = [key |-> key, value |-> Services!NoValue]
  BY <1>1, <1>2, <1>3 DEF Services!Lines
<1> QED
  BY <1>4 DEF Services!Fields

LEMMA RenderKeepsLInv ==
  ASSUME LaunchAssumption, LInv, NEW t \in Templates, NEW u \in Templates, Services!RenderBlueprint(t, u)
  PROVE  LInv'
<1>1. t \in Seq(Services!Lines) /\ u \in Seq(Services!Lines)
  BY DEF LaunchAssumption
<1>2. /\ Services!Accepted(t) /\ Services!Accepted(u) /\ console' = console
      /\ blueprint' = [api |-> [Services!Fields(t) EXCEPT !["CLAMAV_HOST"] = "service"], web |-> Services!Fields(u)]
  BY DEF Services!RenderBlueprint, Services!infrastructure
<1>3. ASSUME NEW key \in Services!Secrets
      PROVE  /\ key \in DOMAIN blueprint'.api => blueprint'.api[key] = "asked"
             /\ key \in DOMAIN blueprint'.web => blueprint'.web[key] = "asked"
  <2>1. key # "CLAMAV_HOST"
    BY DEF Services!Secrets
  <2>2. key \in DOMAIN Services!Fields(t) => Services!Fields(t)[key] = "asked"
    BY <1>1, <1>2, SecretsAreAsked
  <2>3. key \in DOMAIN Services!Fields(u) => Services!Fields(u)[key] = "asked"
    BY <1>1, <1>2, SecretsAreAsked
  <2>4. /\ DOMAIN blueprint'.api = DOMAIN Services!Fields(t) /\ blueprint'.web = Services!Fields(u)
        /\ key \in DOMAIN Services!Fields(t) => blueprint'.api[key] = Services!Fields(t)[key]
    <3> DEFINE F == Services!Fields(t)
    <3>1. DOMAIN F = DOMAIN F
      OBVIOUS
    <3> HIDE DEF F
    <3> QED
      BY <1>2, <2>1 DEF F
  <2> QED
    BY <2>2, <2>3, <2>4
<1> QED
  BY <1>2, <1>3 DEF LInv, Services!DeploymentFits

LEMMA LInvNext ==
  ASSUME LaunchAssumption, LInv, [MCNext]_all
  PROVE  LInv'
<1>1. CASE UNCHANGED <<blueprint, console>>
  BY <1>1 DEF LInv, Services!DeploymentFits
<1>2. CASE Services!RemoveBlueprint
  BY <1>2 DEF Services!RemoveBlueprint, LInv, Services!DeploymentFits
<1>3. CASE Services!StartConsole
  <2>1. /\ blueprint' = blueprint /\ console' = [assets |-> image, environment |-> environment]
        /\ image = [api |-> environment.api, upload |-> environment.upload]
        /\ environment.api.form = "v1" /\ environment.upload.form = "origin" /\ environment.backend = environment.api
    BY <1>3 DEF Services!StartConsole, Services!PublicOrigins, Services!FitsBuild
  <2>2. Services!HasPolicy(image) /\ Services!HasBackend(environment)
    BY <2>1 DEF Services!HasPolicy, Services!HasBackend
  <2>3. console'.assets = image /\ console'.environment = environment
        /\ image.api = environment.api /\ image.upload = environment.upload
    BY <2>1
  <2> QED
    BY <2>1, <2>2, <2>3 DEF LInv, Services!DeploymentFits
<1>4. CASE Services!StopConsole
  BY <1>4 DEF Services!StopConsole, LInv, Services!DeploymentFits
<1>5. CASE Services!Plan
  BY <1>2, <1>5, RenderKeepsLInv DEF Services!Plan
<1>6. CASE Services!Deploy
  BY <1>1, <1>3, <1>4, <1>6 DEF Services!Deploy, Services!Build, Services!SetEnvironment
<1>7. CASE Services!Operate
  <2>1. ASSUME NEW s \in Settings, Services!StartApi(s) PROVE UNCHANGED <<blueprint, console>>
    BY <2>1 DEF Services!StartApi, Services!deployment
  <2>2. ASSUME NEW s \in Settings, Services!BeginPreflight(s) PROVE UNCHANGED <<blueprint, console>>
    BY <2>2 DEF Services!BeginPreflight, Services!deployment
  <2>3. ASSUME NEW thing \in Services!Things, Services!Change(thing) PROVE UNCHANGED <<blueprint, console>>
    BY <2>3 DEF Services!Change, Services!deployment
  <2>4. Services!StopApi => UNCHANGED <<blueprint, console>>
    BY DEF Services!StopApi, Services!deployment
  <2>5. Services!Read => UNCHANGED <<blueprint, console>>
    BY DEF Services!Read, Services!deployment
  <2> QED
    BY <1>1, <1>7, <2>1, <2>2, <2>3, <2>4, <2>5 DEF Services!Operate
<1>8. [MCNext]_all => UNCHANGED <<blueprint, console>> \/ Services!Plan \/ Services!Deploy \/ Services!Operate
  BY DEF MCNext, all, Scans, services
<1> QED
  BY <1>1, <1>5, <1>6, <1>7, <1>8

-----------------------------------------------------------------------------
(* The preflight (Launch): what was not in order all the time since it      *)
(* began is still to be asked for, or an answer showed it.                  *)
Asks(i, n) == Services!Inspections[i][n]

Ahead(thing) ==
  \E i \in 1..4 : \E n \in DOMAIN Services!Inspections[i] :
    /\ Asks(i, n) = thing
    /\ i > preflight.inspection \/ (i = preflight.inspection /\ n >= preflight.request)

Preflights == [given : Services!AllSettings \cup {None}, inspection : 0..5, request : Nat \ {0}, data : SUBSET Services!Things,
               failed : BOOLEAN, never : SUBSET Services!Things]

KTypes ==
  /\ faults \subseteq Services!Things /\ preflight \in Preflights
  /\ preflight.inspection \in 1..4 => preflight.request \in DOMAIN Services!Inspections[preflight.inspection]

KInv ==
  /\ KTypes /\ preflight.never \subseteq faults
  /\ preflight.inspection > 0 /\ ~preflight.failed =>
       /\ preflight.given \in Services!AllSettings /\ Services!Configuration(preflight.given)
       /\ preflight.inspection > 2 => preflight.given.jwks = "exact"
       /\ preflight.inspection = 5 => preflight.data = {}
       /\ \A thing \in preflight.never : thing \in preflight.data \/ Ahead(thing)

LEMMA InspectionsAre ==
  /\ DOMAIN Services!Inspections = 1..4 /\ Len(Services!Inspections) = 4
  /\ \A i \in 1..4 : /\ Len(Services!Inspections[i]) \in Nat \ {0}
                     /\ DOMAIN Services!Inspections[i] = 1..Len(Services!Inspections[i])
  /\ \A i \in 1..4 : \A n \in DOMAIN Services!Inspections[i] : Asks(i, n) \in Services!Things
<1>1. DOMAIN Services!Inspections = 1..4 /\ Len(Services!Inspections) = 4
  BY DEF Services!Inspections
<1>2. /\ Services!Inspections[1] = <<"database">> /\ Services!Inspections[2] = <<"discovery", "keys">>
      /\ Services!Inspections[3] = <<"location", "versioning", "publicAccess", "policy", "encryption", "lock", "cors">>
      /\ Services!Inspections[4] = <<"signatures", "clamd">>
  BY DEF Services!Inspections
<1>3. \A i \in 1..4 : /\ Len(Services!Inspections[i]) \in Nat \ {0}
                      /\ DOMAIN Services!Inspections[i] = 1..Len(Services!Inspections[i])
  <2>1. \A i \in 1..4 : i = 1 \/ i = 2 \/ i = 3 \/ i = 4
    OBVIOUS
  <2>2. Len(<<"database">>) = 1 /\ DOMAIN <<"database">> = 1..1
    OBVIOUS
  <2>3. Len(<<"discovery", "keys">>) = 2 /\ DOMAIN <<"discovery", "keys">> = 1..2
    OBVIOUS
  <2>4. LET requests == <<"location", "versioning", "publicAccess", "policy", "encryption", "lock", "cors">> IN
        Len(requests) = 7 /\ DOMAIN requests = 1..7
    OBVIOUS
  <2>5. Len(<<"signatures", "clamd">>) = 2 /\ DOMAIN <<"signatures", "clamd">> = 1..2
    OBVIOUS
  <2>6. LET requests == Services!Inspections[1] IN Len(requests) \in Nat \ {0} /\ DOMAIN requests = 1..Len(requests)
    BY <1>2, <2>2
  <2>7. LET requests == Services!Inspections[2] IN Len(requests) \in Nat \ {0} /\ DOMAIN requests = 1..Len(requests)
    BY <1>2, <2>3
  <2>8. LET requests == Services!Inspections[3] IN Len(requests) \in Nat \ {0} /\ DOMAIN requests = 1..Len(requests)
    BY <1>2, <2>4
  <2>9. LET requests == Services!Inspections[4] IN Len(requests) \in Nat \ {0} /\ DOMAIN requests = 1..Len(requests)
    BY <1>2, <2>5
  <2> QED
    BY <2>1, <2>6, <2>7, <2>8, <2>9
<1>4. \A i \in 1..4 : \A n \in DOMAIN Services!Inspections[i] : Asks(i, n) \in Services!Things
  BY <1>1 DEF Asks, Services!Things
<1> QED
  BY <1>1, <1>3, <1>4

LEMMA KInvInit == ASSUME Services!Init PROVE KInv
<1>1. faults = {} /\ preflight = [given |-> None, inspection |-> 0, request |-> 1, data |-> {}, failed |-> FALSE, never |-> {}]
  BY DEF Services!Init, Services!Idle
<1>2. preflight \in Preflights
  BY <1>1 DEF Preflights
<1> QED
  BY <1>1, <1>2 DEF KInv, KTypes

LEMMA BeginKeepsKInv ==
  ASSUME LaunchAssumption, KInv, NEW s \in Settings, Services!BeginPreflight(s)
  PROVE  KInv'
<1> DEFINE passes == Services!Configuration(s)
           x == [given |-> s, inspection |-> IF passes THEN 1 ELSE 5, request |-> 1, data |-> {},
                 failed |-> ~passes, never |-> faults]
<1>1. preflight' = x /\ faults' = faults
  <2>1. Len(Services!Inspections) + 1 = 5
    BY InspectionsAre
  <2>2. CASE passes
    <3>1. preflight' = [Services!Idle EXCEPT !.given = s, !.failed = FALSE, !.never = faults, !.inspection = 1]
      BY <2>2 DEF Services!BeginPreflight
    <3> QED
      BY <2>2, <3>1 DEF Services!BeginPreflight, Services!Idle
  <2>3. CASE ~passes
    <3>1. preflight' = [Services!Idle EXCEPT !.given = s, !.failed = TRUE, !.never = faults, !.inspection = 5]
      BY <2>1, <2>3 DEF Services!BeginPreflight
    <3>2. preflight' = [given |-> s, inspection |-> 5, request |-> 1, data |-> {}, failed |-> TRUE, never |-> faults]
      BY <3>1 DEF Services!Idle
    <3>3. faults' = faults
      BY DEF Services!BeginPreflight
    <3> QED
      BY <2>3, <3>2, <3>3
  <2> QED
    BY <2>2, <2>3
<1>2. s \in Services!AllSettings /\ faults \subseteq Services!Things
  BY DEF LaunchAssumption, KInv, KTypes
<1>3. x \in Preflights
  BY <1>2 DEF Preflights
<1>4. KTypes'
  BY <1>1, <1>2, <1>3, InspectionsAre DEF KTypes
<1>5. ASSUME NEW thing \in Services!Things, passes PROVE Ahead(thing)'
  <2>1. PICK i \in 1..4 : \E n \in DOMAIN Services!Inspections[i] : Asks(i, n) = thing
    BY InspectionsAre DEF Asks, Services!Things
  <2>2. PICK n \in DOMAIN Services!Inspections[i] : Asks(i, n) = thing
    BY <2>1
  <2>3. n \in Nat /\ n >= 1
    BY InspectionsAre
  <2>4. i > 1 \/ (i = 1 /\ n >= 1)
    BY <2>3
  <2> QED
    BY <1>1, <1>5, <2>2, <2>4 DEF Ahead
<1>6. ~x.failed => Services!Configuration(x.given) /\ x.inspection = 1
  OBVIOUS
<1> QED
  BY <1>1, <1>2, <1>4, <1>5, <1>6 DEF KInv

LEMMA ChangeKeepsKInv ==
  ASSUME KInv, NEW thing \in Services!Things, Services!Change(thing)
  PROVE  KInv'
<1>1. faults' \subseteq Services!Things /\ preflight' = [preflight EXCEPT !.never = @ \cap faults']
  BY DEF Services!Change, KInv, KTypes
<1>2. /\ preflight' \in Preflights /\ preflight'.never = preflight.never \cap faults'
      /\ preflight'.given = preflight.given /\ preflight'.inspection = preflight.inspection
      /\ preflight'.request = preflight.request /\ preflight'.data = preflight.data /\ preflight'.failed = preflight.failed
  BY <1>1 DEF KInv, KTypes, Preflights
<1>3. \A t \in Services!Things : Ahead(t) => Ahead(t)'
  BY <1>2 DEF Ahead
<1> QED
  BY <1>1, <1>2, <1>3 DEF KInv, KTypes, Preflights

(* An answer shows what is not in order at that moment; the next inspection *)
(* begins when this one found nothing.                                      *)
LEMMA ReadKeepsKInv ==
  ASSUME KInv, Services!Read
  PROVE  KInv'
<1> DEFINE i == preflight.inspection
           n == preflight.request
           requests == Services!Inspections[i]
           thing == requests[n]
           data == preflight.data \cup (faults \cap {thing})
<1>1. i \in 1..4 /\ n \in 1..Len(requests) /\ Len(requests) \in Nat \ {0} /\ faults' = faults /\ n \in DOMAIN requests
  BY InspectionsAre DEF Services!Read, KInv, KTypes
<1>2. thing \in Services!Things /\ data \subseteq Services!Things /\ thing = Asks(i, n)
  BY <1>1, InspectionsAre DEF Asks, KInv, KTypes, Preflights
<1>3. \/ \E failed \in {TRUE, ~Services!Contract(data)} :
             /\ failed \/ n = Len(requests)
             /\ preflight' = [preflight EXCEPT !.inspection = @ + 1, !.request = 1, !.data = {}, !.failed = @ \/ failed]
      \/ n < Len(requests) /\ preflight' = [preflight EXCEPT !.request = @ + 1, !.data = data]
  BY DEF Services!Read, Services!Ends, Services!Answers
<1>4. preflight \in Preflights
  BY DEF KInv, KTypes
(* What was ahead is ahead still, or it was asked for now.                  *)
<1>5. ASSUME NEW t \in preflight.never, ~preflight.failed
      PROVE  t \in data \/ \E j \in 1..4 : \E m \in DOMAIN Services!Inspections[j] :
               Asks(j, m) = t /\ (j > i \/ (j = i /\ m > n))
  <2>1. t \in preflight.data \/ Ahead(t)
    BY <1>1, <1>5 DEF KInv
  <2>2. t \in faults
    BY <1>5 DEF KInv
  <2>3. ASSUME Ahead(t), t # thing
        PROVE  \E j \in 1..4 : \E m \in DOMAIN Services!Inspections[j] : Asks(j, m) = t /\ (j > i \/ (j = i /\ m > n))
    <3>1. PICK j \in 1..4 : \E m \in DOMAIN Services!Inspections[j] : Asks(j, m) = t /\ (j > i \/ (j = i /\ m >= n))
      BY <2>3 DEF Ahead
    <3>2. PICK m \in DOMAIN Services!Inspections[j] : Asks(j, m) = t /\ (j > i \/ (j = i /\ m >= n))
      BY <3>1
    <3>3. m \in Nat /\ (j = i => m # n)
      BY <1>2, <2>3, <3>2, InspectionsAre
    <3> QED
      BY <1>1, <3>2, <3>3
  <2> QED
    BY <2>1, <2>2, <2>3
<1>6. ASSUME NEW failed \in {TRUE, ~Services!Contract(data)}, failed \/ n = Len(requests),
             preflight' = [preflight EXCEPT !.inspection = @ + 1, !.request = 1, !.data = {}, !.failed = @ \/ failed]
      PROVE  KInv'
  <2>1. /\ preflight' \in Preflights /\ preflight'.inspection = i + 1 /\ preflight'.request = 1 /\ preflight'.data = {}
        /\ preflight'.failed = (preflight.failed \/ failed) /\ preflight'.never = preflight.never
        /\ preflight'.given = preflight.given
    <3>1. failed \in BOOLEAN
      BY <1>6
    <3>2. preflight' = [given |-> preflight.given, inspection |-> i + 1, request |-> 1, data |-> {},
                        failed |-> preflight.failed \/ failed, never |-> preflight.never]
      BY <1>4, <1>6, <3>1 DEF Preflights
    <3>3. i + 1 \in 0..5
      BY <1>1
    <3>4. preflight' \in Preflights
      BY <1>4, <3>1, <3>2, <3>3 DEF Preflights
    <3> QED
      BY <3>2, <3>4
  <2>2. KTypes'
    BY <1>1, <2>1, InspectionsAre DEF KInv, KTypes
  <2>3. SUFFICES ASSUME ~preflight'.failed
        PROVE  /\ preflight.given \in Services!AllSettings /\ Services!Configuration(preflight.given)
               /\ i + 1 > 2 => preflight.given.jwks = "exact"
               /\ \A t \in preflight.never : Ahead(t)'
    BY <1>1, <2>1, <2>2 DEF KInv
  <2>4. ~preflight.failed /\ n = Len(requests) /\ data = {} /\ (i = 2 => preflight.given.jwks = "exact")
    BY <1>6, <2>1, <2>3 DEF Services!Contract
  <2>5. /\ preflight.given \in Services!AllSettings /\ Services!Configuration(preflight.given)
        /\ i > 2 => preflight.given.jwks = "exact"
    BY <1>1, <2>4 DEF KInv
  <2>6. ASSUME NEW t \in preflight.never PROVE Ahead(t)'
    <3>1. PICK j \in 1..4 : \E m \in DOMAIN Services!Inspections[j] : Asks(j, m) = t /\ (j > i \/ (j = i /\ m > n))
      BY <1>5, <2>4
    <3>2. PICK m \in DOMAIN Services!Inspections[j] : Asks(j, m) = t /\ (j > i \/ (j = i /\ m > n))
      BY <3>1
    <3>3. m \in 1..Len(Services!Inspections[j]) /\ Len(Services!Inspections[j]) \in Nat
      BY InspectionsAre
    <3>4. j > i
      BY <2>4, <3>2, <3>3, <1>1
    <3>5. j > i + 1 \/ (j = i + 1 /\ m >= 1)
      BY <1>1, <3>3, <3>4
    <3> QED
      BY <2>1, <3>2, <3>5 DEF Ahead
  <2> QED
    BY <1>1, <2>4, <2>5, <2>6
<1>7. ASSUME n < Len(requests), preflight' = [preflight EXCEPT !.request = @ + 1, !.data = data]
      PROVE  KInv'
  <2>1. /\ preflight' \in Preflights /\ preflight'.inspection = i /\ preflight'.request = n + 1 /\ preflight'.data = data
        /\ preflight'.failed = preflight.failed /\ preflight'.never = preflight.never
        /\ preflight'.given = preflight.given
    <3>1. preflight' = [given |-> preflight.given, inspection |-> i, request |-> n + 1, data |-> data,
                        failed |-> preflight.failed, never |-> preflight.never]
      BY <1>4, <1>7 DEF Preflights
    <3>2. n + 1 \in Nat \ {0}
      BY <1>1
    <3> HIDE DEF data
    <3>3. preflight' \in Preflights
      BY <1>2, <1>4, <3>1, <3>2 DEF Preflights
    <3> QED
      BY <3>1, <3>3
  <2>2. KTypes'
    BY <1>1, <1>7, <2>1, InspectionsAre DEF KInv, KTypes
  <2>3. ASSUME ~preflight.failed, NEW t \in preflight.never PROVE t \in data \/ Ahead(t)'
    <3>1. SUFFICES ASSUME t \notin data PROVE Ahead(t)'
      OBVIOUS
    <3>2. PICK j \in 1..4 : \E m \in DOMAIN Services!Inspections[j] : Asks(j, m) = t /\ (j > i \/ (j = i /\ m > n))
      BY <1>5, <2>3, <3>1
    <3>3. PICK m \in DOMAIN Services!Inspections[j] : Asks(j, m) = t /\ (j > i \/ (j = i /\ m > n))
      BY <3>2
    <3>4. m \in Nat /\ (m > n => m >= n + 1)
      <4>1. m \in 1..Len(Services!Inspections[j]) /\ Len(Services!Inspections[j]) \in Nat
        BY InspectionsAre
      <4> QED
        BY <1>1, <4>1
    <3> QED
      BY <2>1, <3>3, <3>4 DEF Ahead
  <2> QED
    BY <1>1, <2>1, <2>2, <2>3 DEF KInv
<1> QED
  BY <1>3, <1>6, <1>7
LEMMA KInvNext ==
  ASSUME LaunchAssumption, KInv, [MCNext]_all
  PROVE  KInv'
<1>1. CASE UNCHANGED <<faults, preflight>>
  BY <1>1 DEF KInv, KTypes, Ahead
<1>2. Services!Plan \/ Services!Deploy => UNCHANGED <<faults, preflight>>
  <2>1. \A t, u \in Templates : Services!RenderBlueprint(t, u) => UNCHANGED <<faults, preflight>>
    BY DEF Services!RenderBlueprint, Services!infrastructure
  <2>2. Services!RemoveBlueprint \/ Services!StartConsole \/ Services!StopConsole => UNCHANGED <<faults, preflight>>
    BY DEF Services!RemoveBlueprint, Services!StartConsole, Services!StopConsole, Services!infrastructure
  <2>3. ASSUME NEW x, NEW y, Services!SetEnvironment(x, y) PROVE UNCHANGED <<faults, preflight>>
    BY <2>3 DEF Services!SetEnvironment, Services!infrastructure
  <2>4. ASSUME NEW x, Services!Build(x) PROVE UNCHANGED <<faults, preflight>>
    BY <2>4 DEF Services!Build, Services!infrastructure
  <2> QED
    BY <2>1, <2>2, <2>3, <2>4 DEF Services!Plan, Services!Deploy
<1>3. CASE Services!Operate
  <2>1. ASSUME NEW s \in Settings, Services!StartApi(s) PROVE UNCHANGED <<faults, preflight>>
    BY <2>1 DEF Services!StartApi
  <2>2. Services!StopApi => UNCHANGED <<faults, preflight>>
    BY DEF Services!StopApi
  <2> QED
    BY <1>1, <1>3, <2>1, <2>2, BeginKeepsKInv, ChangeKeepsKInv, ReadKeepsKInv DEF Services!Operate
<1>4. [MCNext]_all => UNCHANGED <<faults, preflight>> \/ Services!Plan \/ Services!Deploy \/ Services!Operate
  BY DEF MCNext, all, Scans, services
<1> QED
  BY <1>1, <1>2, <1>3, <1>4

(* At the end there is nothing ahead, and no answer showed anything.        *)
LEMMA PassedIsInspected ==
  ASSUME KInv
  PROVE  Services!PassedInspection
<1>1. SUFFICES ASSUME preflight.inspection = 5, ~preflight.failed
      PROVE  /\ preflight.never = {}
             /\ Services!StartsWith(preflight.given) \/ "padded" \in {preflight.given.audience, preflight.given.portals}
  BY InspectionsAre DEF Services!PassedInspection, Services!Passed
<1>2. preflight.never = {}
  <2>1. \A thing \in preflight.never : Ahead(thing)
    BY <1>1 DEF KInv
  <2> QED
    BY <1>1, <2>1 DEF Ahead
<1>3. /\ preflight.given \in Services!AllSettings /\ Services!Configuration(preflight.given)
      /\ preflight.given.jwks = "exact"
  BY <1>1 DEF KInv
<1>4. Services!StartsWith(preflight.given) \/ "padded" \in {preflight.given.audience, preflight.given.portals}
  <2> DEFINE s == preflight.given
  <2>1. /\ s.audience \in {"exact", "padded", "blank"} /\ s.mode = "oidc" /\ s.portals \in {"exact", "padded"}
        /\ s.issuer = "exact" /\ s.jwks = "exact" /\ s.audience # "blank" /\ s.origins = {"exact"} /\ s.scanner
        /\ s.claims = "ours" /\ s.algorithms = "RS256"
    BY <1>3 DEF Services!Configuration, Services!AllSettings, Services!Https
  <2> HIDE DEF s
  <2>2. Services!StartsWith(s) \/ "padded" \in {s.audience, s.portals}
    BY <2>1 DEF Services!StartsWith, Services!AssertProductionConfig, Services!AuthService, Services!HttpsUrl
  <2> QED
    BY <2>2 DEF s
<1> QED
  BY <1>2, <1>4

(* Whatever packages, errors and signals, whatever operators build, set and *)
(* start, and whatever breaks and is repaired meanwhile: success is what    *)
(* the exit status, the report, the console and the preflight say it is     *)
(* (pnpm-install.mjs, start-service.cjs, production-preflight.cjs).         *)
THEOREM SuccessIsReported == MCSpec => []ReportsAreTrue
<1> DEFINE Inv == PInv /\ LInv /\ KInv
<1>1. MCInit => Inv
  <2>1. Pnpm!Init => PInv
    BY PInvInit, OperationsAssumption DEF OperationsAssumption
  <2>2. Services!Init => LInv
    BY DEF Services!Init, LInv, Services!DeploymentFits
  <2> QED
    BY <2>1, <2>2, KInvInit DEF MCInit
<1>2. Inv /\ [MCNext]_all => Inv'
  <2>1. PInv /\ [MCNext]_all => PInv'
    BY PInvNext, OperationsAssumption DEF OperationsAssumption
  <2> QED
    BY <2>1, LInvNext, KInvNext, LaunchAssumption
<1>3. Inv => ReportsAreTrue
  BY PassedIsInspected DEF PInv, LInv, ReportsAreTrue
<1> QED
  BY <1>1, <1>2, <1>3, PTL DEF MCSpec

-----------------------------------------------------------------------------
(* The scan                                                                 *)

Frames == {"command", "end", "harmless", "infected"}

Sick == \E k \in 1..Len(body) : body[k] = "infected"

Sent(frame) == \E i \in 1..Len(socket.sent) : socket.sent[i] = frame

STypes ==
  /\ body \in Seq(Clamd!Chunk)
  /\ request \in Clamd!Request
  /\ socket \in Clamd!Socket

(* What has gone out: of an object without end, what was pulled of it; with *)
(* its end, all of it and nothing more.                                     *)
Sending ==
  /\ socket.state = "destroyed" <=> request.settled # "no"
  /\ socket.state = "connecting" => request.sender = "unconnected"
  /\ request.sender = "unconnected" => socket.sent = <<>> /\ request.pulled = 0
  /\ request.sender = "pulling" => request.pulled <= Len(body)
  /\ Sent("infected") => Sick
  /\ request.settled = "no" =>
       \A k \in 1..Len(body) : k <= request.pulled /\ body[k] = "infected" => Sent("infected")
  /\ \A i \in 1..Len(socket.sent) : socket.sent[i] = "end" => i = Len(socket.sent) /\ request.pulled > Len(body)
  /\ Sent("end") /\ Sick => Sent("infected")

(* What has come back, read or not: nothing that looks like a verdict       *)
(* before the end was sent, and then no other than the right one.           *)
Said == request.response \o socket.replies

Judges(said) == Len(said) >= 1 /\ said[1] = "stream:"

Right3(said) ==
  /\ Len(said) >= 3 /\ said[3] = "NUL" => ~Sick
  /\ \A j \in 3..Len(said) : said[j] = "FOUND" => Sick

Speaking ==
  /\ request.settled # "error" /\ Judges(Said) => socket.ended /\ Sent("end") /\ Right3(Said)
  /\ request.settled = "value" =>
       /\ socket.replies = <<>>
       /\ Len(request.response) >= 2 /\ request.response[Len(request.response)] = "NUL"

SInv == STypes /\ Sending /\ Speaking /\ VerdictOnTheWhole

(* One element of a sequence, as a sequence.                                *)
LEMMA OnePiece ==
  ASSUME NEW S, NEW s \in Seq(S), NEW i \in 1..Len(s)
  PROVE  SubSeq(s, i, i) = <<s[i]>>
<1>1. \A j \in i..i : s[j] \in S
  OBVIOUS
<1> DEFINE u == SubSeq(s,i,i)
           v == <<s[i]>>
<1>2. u \in Seq(S) /\ Len(u) = 1 /\ u[1] = s[i]
  BY <1>1, SubSeqProperties
<1>3. v \in Seq(S) /\ Len(v) = 1 /\ v[1] = s[i]
  OBVIOUS
<1> HIDE DEF u, v
<1>4. \A j \in 1..Len(u) : u[j] = v[j]
  BY <1>2, <1>3
<1>5. u = v
  BY <1>2, <1>3, <1>4, SeqEqual
<1> QED
  BY <1>5 DEF u, v

LEMMA ContainsOne ==
  ASSUME NEW S, NEW s \in Seq(S), NEW w
  PROVE  Clamd!Contains(s, <<w>>) <=> \E i \in 1..Len(s) : s[i] = w
<1>1. Len(<<w>>) = 1 /\ <<w>>[1] = w
  OBVIOUS
<1>2. ASSUME NEW i \in 1..Len(s) PROVE SubSeq(s, i, i + Len(<<w>>) - 1) = <<w>> <=> s[i] = w
  <2>1. i + Len(<<w>>) - 1 = i
    BY <1>1
  <2>2. SubSeq(s, i, i) = <<s[i]>>
    BY OnePiece
  <2> QED
    BY <2>1, <2>2
<1>3. Len(s) - Len(<<w>>) + 1 = Len(s)
  BY <1>1
<1> QED
  BY <1>2, <1>3 DEF Clamd!Contains

(* Two sequences, one after the other, element by element.                  *)
LEMMA Joined ==
  ASSUME NEW S, NEW a \in Seq(S), NEW b \in Seq(S)
  PROVE  /\ a \o b \in Seq(S)
         /\ Len(a \o b) = Len(a) + Len(b)
         /\ \A i \in 1..Len(a) : (a \o b)[i] = a[i]
         /\ \A i \in Len(a) + 1..Len(a) + Len(b) : (a \o b)[i] = b[i - Len(a)]
<1>1. a \o b \in Seq(S) /\ Len(a \o b) = Len(a) + Len(b)
  OBVIOUS
<1>2. ASSUME NEW i \in 1..Len(a) PROVE (a \o b)[i] = a[i]
  OBVIOUS
<1>3. ASSUME NEW i \in Len(a) + 1..Len(a) + Len(b) PROVE (a \o b)[i] = b[i - Len(a)]
  OBVIOUS
<1> QED
  BY <1>1, <1>2, <1>3

(* Reading moves what was said, and changes none of it.                     *)
LEMMA ReadingKeepsWhatWasSaid ==
  ASSUME NEW S, NEW s \in Seq(S), NEW t \in Seq(S), NEW n \in 1..Len(t)
  PROVE  /\ s \o SubSeq(t, 1, n) \in Seq(S)
         /\ SubSeq(t, n + 1, Len(t)) \in Seq(S)
         /\ (s \o SubSeq(t, 1, n)) \o SubSeq(t, n + 1, Len(t)) = s \o t
<1> DEFINE u == SubSeq(t, 1, n)
           v == SubSeq(t, n + 1, Len(t))
           p == s \o u
           q == p \o v
           w == s \o t
<1>1. u \in Seq(S) /\ Len(u) = n /\ \A i \in 1..n : u[i] = t[i]
  OBVIOUS
<1>2. v \in Seq(S) /\ Len(v) = Len(t) - n /\ \A i \in 1..Len(t) - n : v[i] = t[n + i]
  <2>1. \A i \in n + 1..Len(t) : t[i] \in S
    OBVIOUS
  <2> QED
    BY <2>1, SubSeqProperties
<1> HIDE DEF u, v
<1>3. u \in Seq(S) /\ v \in Seq(S)
  BY <1>1, <1>2
<1>4. /\ p \in Seq(S) /\ Len(p) = Len(s) + Len(u)
      /\ \A i \in 1..Len(s) : p[i] = s[i]
      /\ \A i \in Len(s) + 1..Len(s) + Len(u) : p[i] = u[i - Len(s)]
  BY <1>3, Joined
<1>5. p \in Seq(S)
  BY <1>4
<1> HIDE DEF p
<1>6. /\ q \in Seq(S) /\ Len(q) = Len(p) + Len(v)
      /\ \A i \in 1..Len(p) : q[i] = p[i]
      /\ \A i \in Len(p) + 1..Len(p) + Len(v) : q[i] = v[i - Len(p)]
  BY <1>3, <1>5, Joined
<1>7. /\ w \in Seq(S) /\ Len(w) = Len(s) + Len(t)
      /\ \A i \in 1..Len(s) : w[i] = s[i]
      /\ \A i \in Len(s) + 1..Len(s) + Len(t) : w[i] = t[i - Len(s)]
  BY Joined
<1> HIDE DEF q, w
<1>8. /\ Len(s) \in Nat /\ Len(t) \in Nat /\ n \in Nat /\ n <= Len(t)
      /\ Len(u) = n /\ Len(v) = Len(t) - n /\ Len(p) = Len(s) + n /\ Len(q) = Len(s) + Len(t) /\ Len(w) = Len(s) + Len(t)
  <2>1. Len(s) \in Nat /\ Len(t) \in Nat /\ n \in Nat /\ n <= Len(t)
    OBVIOUS
  <2>2. Len(u) = n
    BY <1>1
  <2>3. Len(v) = Len(t) - n
    BY <1>2
  <2>4. Len(p) = Len(s) + Len(u)
    BY <1>4
  <2>5. Len(q) = Len(p) + Len(v)
    BY <1>6
  <2>6. Len(w) = Len(s) + Len(t)
    BY <1>7
  <2> QED
    BY <2>1, <2>2, <2>3, <2>4, <2>5, <2>6
<1>9. ASSUME NEW i \in 1..Len(q) PROVE q[i] = w[i]
  <2>0. i \in Nat /\ 1 <= i /\ i <= Len(s) + Len(t)
    BY <1>8
  <2>1. CASE i <= Len(s)
    <3>1. i \in 1..Len(s) /\ i \in 1..Len(p)
      BY <2>0, <2>1, <1>8
    <3>2. q[i] = p[i]
      BY <3>1, <1>6
    <3>3. p[i] = s[i]
      BY <3>1, <1>4
    <3>4. w[i] = s[i]
      BY <3>1, <1>7
    <3> QED
      BY <3>2, <3>3, <3>4
  <2>2. CASE i > Len(s) /\ i <= Len(s) + n
    <3>1. i \in 1..Len(p) /\ i \in Len(s) + 1..Len(s) + Len(u) /\ i \in Len(s) + 1..Len(s) + Len(t) /\ i - Len(s) \in 1..n
      BY <2>0, <2>2, <1>8
    <3>2. q[i] = p[i]
      BY <3>1, <1>6
    <3>3. p[i] = u[i - Len(s)]
      BY <3>1, <1>4
    <3>4. w[i] = t[i - Len(s)]
      BY <3>1, <1>7
    <3>5. u[i - Len(s)] = t[i - Len(s)]
      BY <3>1, <1>1
    <3> QED
      BY <3>2, <3>3, <3>4, <3>5
  <2>3. CASE i > Len(s) + n
    <3>1. /\ i \in Len(p) + 1..Len(p) + Len(v) /\ i \in Len(s) + 1..Len(s) + Len(t)
          /\ i - Len(p) \in 1..Len(t) - n /\ n + (i - Len(p)) = i - Len(s)
      BY <2>0, <2>3, <1>8
    <3>2. q[i] = v[i - Len(p)]
      BY <3>1, <1>6
    <3>3. w[i] = t[i - Len(s)]
      BY <3>1, <1>7
    <3>4. v[i - Len(p)] = t[n + (i - Len(p))]
      BY <3>1, <1>2
    <3> QED
      BY <3>1, <3>2, <3>3, <3>4
  <2> QED
    BY <2>0, <2>1, <2>2, <2>3, <1>8
<1>10. q \in Seq(S) /\ w \in Seq(S) /\ Len(q) = Len(w)
  BY <1>6, <1>7, <1>8
<1>11. q = w
  BY <1>9, <1>10, SeqEqual
<1>12. p \in Seq(S) /\ v \in Seq(S) /\ q = w
  BY <1>3, <1>5, <1>11
<1> QED
  BY <1>12 DEF p, q, u, v, w
LEMMA SInvInit ==
  ASSUME OperationsAssumption, Clamd!Init
  PROVE  SInv
<1>1. body \in Seq(Clamd!Chunk)
  BY DEF OperationsAssumption, Clamd!Init, Clamd!Chunk
<1>2. request \in Clamd!Request /\ socket \in Clamd!Socket
  BY DEF Clamd!Init, Clamd!Request, Clamd!Socket, Clamd!NewRequest, Clamd!NewSocket, Clamd!Requests
<1>3. Sending
  BY DEF Sending, Clamd!Init, Clamd!NewRequest, Clamd!NewSocket, Sent
<1>4. Speaking
  <2>1. Said = <<>> /\ request.settled = "no"
    BY DEF Said, Clamd!Init, Clamd!NewRequest, Clamd!NewSocket
  <2> QED
    BY <2>1 DEF Speaking, Judges
<1>5. VerdictOnTheWhole
  BY DEF Clamd!Init, VerdictOnTheWhole, Clamd!VerdictOnTheWhole
<1> QED
  BY <1>1, <1>2, <1>3, <1>4, <1>5 DEF SInv, STypes

(* However a request finishes, what it sent and heard stays as it was.      *)
LEMMA FinishKeeps ==
  ASSUME SInv, NEW r \in Clamd!Request, NEW result \in {"value", "error"},
         r.settled = request.settled,
         \/ r.sender = request.sender /\ r.pulled = request.pulled
         \/ r.sender = "stopped" /\ r.pulled >= request.pulled /\ request.sender # "unconnected",
         \/ r.response = request.response
         \/ request.settled = "no" /\ result = "error",
         result = "value" =>
           /\ socket.replies = <<>>
           /\ Len(r.response) >= 2 /\ r.response[Len(r.response)] = "NUL",
         Clamd!Finish(r, result), UNCHANGED <<body, outcome>>
  PROVE  SInv'
<1> DEFINE settled == IF r.settled = "no" THEN result ELSE r.settled
<1>1. /\ request' \in Clamd!Request
      /\ request'.settled = settled /\ request'.response = r.response
      /\ request'.pulled = r.pulled /\ request'.sender = r.sender
  <2>1. request' = [no |-> r.no, sender |-> r.sender, pulled |-> r.pulled, submitted |-> r.submitted,
                    response |-> r.response, settled |-> settled]
    BY DEF Clamd!Finish, Clamd!Request
  <2>2. settled \in {"no", "value", "error"}
    BY DEF Clamd!Request
  <2> HIDE DEF settled
  <2> QED
    BY <2>1, <2>2 DEF Clamd!Request
<1>2. /\ socket' \in Clamd!Socket
      /\ socket'.state = "destroyed" /\ socket'.sent = socket.sent
      /\ socket'.replies = socket.replies /\ socket'.ended = socket.ended
  <2>1. socket' = [state |-> "destroyed", sent |-> socket.sent, replies |-> socket.replies, ended |-> socket.ended]
    BY DEF Clamd!Finish, Clamd!Socket, SInv, STypes
  <2> QED
    BY <2>1 DEF Clamd!Socket, SInv, STypes
<1>3. settled # "no" /\ request.pulled \in Nat /\ r.pulled \in Nat /\ r.pulled >= request.pulled /\ Len(body) \in Nat
  BY DEF SInv, STypes, Clamd!Request
<1>4. Sent("infected")' = Sent("infected") /\ Sent("end")' = Sent("end") /\ Sick' = Sick
  BY <1>2 DEF Sent, Sick
<1>5. Sending'
  <2>1. \A i \in 1..Len(socket.sent) : socket.sent[i] = "end" => i = Len(socket.sent) /\ r.pulled > Len(body)
    BY <1>3 DEF SInv, Sending
  <2> HIDE DEF settled
  <2> QED
    BY <1>1, <1>2, <1>3, <1>4, <2>1 DEF SInv, Sending
<1>6. Speaking'
  <2>1. CASE settled = "error"
    BY <1>1, <2>1 DEF Speaking
  <2>2. CASE settled = "value"
    <3>1. r.response = request.response /\ request.settled # "error"
      BY <2>2 DEF SInv, STypes, Clamd!Request
    <3>2. Said' = Said
      BY <1>1, <1>2, <3>1 DEF Said
    <3>3. socket.replies = <<>> /\ Len(r.response) >= 2 /\ r.response[Len(r.response)] = "NUL"
      BY <2>2, <3>1 DEF SInv, Speaking
    <3>4. Right3(Said)' <=> Right3(Said)
      BY <1>4, <3>2 DEF Right3
    <3> HIDE DEF settled
    <3> QED
      BY <1>1, <1>2, <1>4, <2>2, <3>1, <3>2, <3>3, <3>4 DEF SInv, Speaking, Judges
  <2> QED
    BY <1>3, <2>1, <2>2 DEF Clamd!Request
<1>7. VerdictOnTheWhole'
  BY DEF SInv, VerdictOnTheWhole, Clamd!VerdictOnTheWhole, Clamd!Contains
<1> QED
  BY <1>1, <1>2, <1>5, <1>6, <1>7 DEF SInv, STypes
(* What only finishes the request: errors, time, the answer's end.          *)
LEMMA EndingKeepsSInv ==
  ASSUME SInv, Clamd!End \/ Clamd!Breaks \/ Clamd!Deadline \/ Clamd!StorageFails \/ Clamd!SenderFails
  PROVE  SInv'
<1>1. request \in Clamd!Request /\ request.response \in Seq(Clamd!Piece) /\ request.pulled \in Nat
  BY DEF SInv, STypes, Clamd!Request
<1>2. CASE Clamd!End
  <2>1. socket.replies = <<>>
    BY <1>2 DEF Clamd!End
  <2>2. Clamd!Complete(request.response) =>
          Len(request.response) >= 2 /\ request.response[Len(request.response)] = "NUL"
    BY DEF Clamd!Complete
  <2>3. PICK result \in {"value", "error"} :
          /\ Clamd!Finish(request, result)
          /\ result = "value" => Clamd!Complete(request.response)
    BY <1>2 DEF Clamd!End
  <2>4. UNCHANGED <<body, outcome>>
    BY <1>2 DEF Clamd!End
  <2> QED
    BY <1>1, <2>1, <2>2, <2>3, <2>4, FinishKeeps
<1>3. CASE Clamd!Breaks \/ Clamd!Deadline
  <2>1. Clamd!Finish(request, "error") /\ UNCHANGED <<body, outcome>>
    BY <1>3 DEF Clamd!Breaks, Clamd!Deadline
  <2> QED
    BY <1>1, <2>1, FinishKeeps
<1>4. CASE Clamd!StorageFails \/ Clamd!SenderFails
  <2> DEFINE r == [request EXCEPT !.sender = "stopped"]
  <2>1. Clamd!Finish(r, "error") /\ UNCHANGED <<body, outcome>> /\ request.sender # "unconnected"
    BY <1>4 DEF Clamd!StorageFails, Clamd!SenderFails
  <2>2. /\ r = [no |-> request.no, sender |-> "stopped", pulled |-> request.pulled, submitted |-> request.submitted,
                response |-> request.response, settled |-> request.settled]
    BY <1>1 DEF Clamd!Request
  <2>3. /\ r \in Clamd!Request /\ r.settled = request.settled /\ r.response = request.response
        /\ r.sender = "stopped" /\ r.pulled >= request.pulled
    BY <1>1, <2>2 DEF Clamd!Request
  <2> HIDE DEF r
  <2> QED
    BY <2>1, <2>3, FinishKeeps
<1> QED
  BY <1>2, <1>3, <1>4

LEMMA DataKeepsSInv ==
  ASSUME SInv, NEW n \in 1..Len(socket.replies), Clamd!Data(n)
  PROVE  SInv'
<1> DEFINE response == request.response \o SubSeq(socket.replies, 1, n)
           rest == SubSeq(socket.replies, n + 1, Len(socket.replies))
           got == [request EXCEPT !.response = response]
<1>1. /\ request \in Clamd!Request /\ socket \in Clamd!Socket
      /\ request.response \in Seq(Clamd!Piece) /\ socket.replies \in Seq(Clamd!Piece)
  BY DEF SInv, STypes, Clamd!Request, Clamd!Socket
<1>2. response \in Seq(Clamd!Piece) /\ rest \in Seq(Clamd!Piece) /\ response \o rest = Said
  <2>1. \A s, t \in Seq(Clamd!Piece) : \A k \in 1..Len(t) :
          /\ s \o SubSeq(t, 1, k) \in Seq(Clamd!Piece)
          /\ SubSeq(t, k + 1, Len(t)) \in Seq(Clamd!Piece)
          /\ (s \o SubSeq(t, 1, k)) \o SubSeq(t, k + 1, Len(t)) = s \o t
    BY ReadingKeepsWhatWasSaid, Zenon
  <2> QED
    BY <1>1, <2>1, Zenon DEF Said
<1>3. request.settled = "no" /\ socket.state = "open"
  BY DEF Clamd!Data, SInv, STypes, Sending, Clamd!Request
<1>4. \/ Clamd!Finish(got, "error")
      \/ request' = got /\ socket' = [socket EXCEPT !.replies = rest]
  BY DEF Clamd!Data
<1>5. UNCHANGED <<body, outcome>>
  BY DEF Clamd!Data
<1> HIDE DEF response, rest
<1>6. got = [no |-> request.no, sender |-> request.sender, pulled |-> request.pulled, submitted |-> request.submitted,
             response |-> response, settled |-> request.settled]
  BY <1>1 DEF Clamd!Request
<1>7. /\ got \in Clamd!Request /\ got.settled = request.settled /\ got.response = response
      /\ got.sender = request.sender /\ got.pulled = request.pulled
  BY <1>1, <1>2, <1>6 DEF Clamd!Request
<1> HIDE DEF got
<1>8. CASE Clamd!Finish(got, "error")
  BY <1>3, <1>5, <1>7, <1>8, FinishKeeps
<1>9. CASE request' = got /\ socket' = [socket EXCEPT !.replies = rest]
  <2>1. socket' = [state |-> socket.state, sent |-> socket.sent, replies |-> rest, ended |-> socket.ended]
    BY <1>1, <1>9 DEF Clamd!Socket
  <2>2. /\ socket' \in Clamd!Socket /\ socket'.state = socket.state /\ socket'.sent = socket.sent
        /\ socket'.replies = rest /\ socket'.ended = socket.ended
    BY <1>1, <1>2, <2>1 DEF Clamd!Socket
  <2>3. Said' = Said
    BY <1>2, <1>7, <1>9, <2>2 DEF Said
  <2>4. Sent("infected")' = Sent("infected") /\ Sent("end")' = Sent("end") /\ Sick' = Sick
    BY <1>5, <2>2 DEF Sent, Sick
  <2>5. Sending'
    BY <1>5, <1>7, <1>9, <2>2, <2>4 DEF SInv, Sending
  <2>6. Right3(Said)' <=> Right3(Said)
    BY <2>3, <2>4 DEF Right3
  <2>7. Speaking'
    BY <1>3, <1>7, <1>9, <2>2, <2>3, <2>4, <2>6 DEF SInv, Speaking, Judges
  <2>8. VerdictOnTheWhole'
    BY <1>5 DEF SInv, VerdictOnTheWhole, Clamd!VerdictOnTheWhole, Clamd!Contains
  <2> QED
    BY <1>5, <1>7, <1>9, <2>2, <2>5, <2>7, <2>8 DEF SInv, STypes
<1> QED
  BY <1>4, <1>8, <1>9

LEMMA ConnectAndFlushKeepSInv ==
  ASSUME SInv, Clamd!Connect \/ Clamd!Flushed
  PROVE  SInv'
<1>1. /\ request \in Clamd!Request /\ socket \in Clamd!Socket /\ UNCHANGED <<body, outcome>>
      /\ request.pulled \in Nat /\ Len(body) \in Nat
  BY DEF SInv, STypes, Clamd!Request, Clamd!Connect, Clamd!Flushed
<1>2. PICK sender \in {"flushing", "pulling", "stopped"}, submitted \in BOOLEAN :
        /\ request' = [no |-> request.no, sender |-> sender, pulled |-> request.pulled, submitted |-> submitted,
                       response |-> request.response, settled |-> request.settled]
        /\ sender = "pulling" => request.pulled <= Len(body)
  BY <1>1 DEF Clamd!Request, Clamd!Connect, Clamd!Flushed
<1>3. /\ request' \in Clamd!Request /\ request'.settled = request.settled /\ request'.response = request.response
      /\ request'.pulled = request.pulled /\ request'.sender # "unconnected"
      /\ request'.sender = "pulling" => request.pulled <= Len(body)
  BY <1>1, <1>2 DEF Clamd!Request
<1>4. CASE Clamd!Connect
  <2>1. socket' = [state |-> "open", sent |-> <<"command">>, replies |-> socket.replies, ended |-> socket.ended]
    BY <1>1, <1>4 DEF Clamd!Socket, Clamd!Connect
  <2>2. <<"command">> \in Seq({"command", "end", "harmless", "infected"}) /\ Len(<<"command">>) = 1 /\ <<"command">>[1] = "command"
    OBVIOUS
  <2>3. /\ socket' \in Clamd!Socket /\ socket'.state = "open" /\ socket'.sent = <<"command">>
        /\ socket'.replies = socket.replies /\ socket'.ended = socket.ended
    BY <1>1, <2>1, <2>2 DEF Clamd!Socket
  <2>4. ~Sent("infected")' /\ ~Sent("end")' /\ Sick' = Sick
    BY <1>1, <2>2, <2>3 DEF Sent, Sick
  <2>5. request.settled = "no" /\ request.pulled = 0 /\ ~Sent("end")
    <3>1. socket.sent = <<>>
      BY <1>4 DEF Clamd!Connect, SInv, Sending
    <3> QED
      BY <1>4, <3>1 DEF Clamd!Connect, SInv, Sending, Sent
  <2>6. Said' = Said
    BY <1>3, <2>3 DEF Said
  <2>7. Sending'
    <3>1. ASSUME NEW i \in 1..Len(socket'.sent) PROVE socket'.sent[i] # "end"
      BY <2>2, <2>3
    <3> QED
      BY <1>1, <1>3, <2>3, <2>4, <2>5, <3>1 DEF Sending
  <2>8. Speaking'
    BY <1>3, <2>3, <2>5, <2>6 DEF SInv, Speaking, Judges
  <2>9. VerdictOnTheWhole'
    BY <1>1 DEF SInv, VerdictOnTheWhole, Clamd!VerdictOnTheWhole, Clamd!Contains
  <2> QED
    BY <1>1, <1>3, <2>3, <2>7, <2>8, <2>9 DEF SInv, STypes
<1>5. CASE Clamd!Flushed
  <2>1. UNCHANGED socket /\ socket.state = "open"
    BY <1>5 DEF Clamd!Flushed
  <2>2. Sent("infected")' = Sent("infected") /\ Sent("end")' = Sent("end") /\ Sick' = Sick /\ Said' = Said
    BY <1>1, <1>3, <2>1 DEF Sent, Sick, Said
  <2>3. Sending'
    BY <1>1, <1>3, <2>1, <2>2 DEF SInv, Sending
  <2>4. Right3(Said)' <=> Right3(Said)
    BY <2>2 DEF Right3
  <2>5. Speaking'
    BY <1>3, <2>1, <2>2, <2>4 DEF SInv, Speaking, Judges
  <2>6. VerdictOnTheWhole'
    BY <1>1 DEF SInv, VerdictOnTheWhole, Clamd!VerdictOnTheWhole, Clamd!Contains
  <2> QED
    BY <1>1, <1>3, <2>1, <2>3, <2>5, <2>6 DEF SInv, STypes
<1> QED
  BY <1>4, <1>5
(* What is pulled is skipped, is sent, or finishes the request.             *)
LEMMA PullKeepsSInv ==
  ASSUME SInv, Clamd!Pull
  PROVE  SInv'
<1> DEFINE n == request.pulled + 1
           pulled == [request EXCEPT !.pulled = n]
           stopped == [pulled EXCEPT !.sender = "stopped"]
           flushing == [pulled EXCEPT !.sender = "flushing"]
<1>1. /\ request \in Clamd!Request /\ socket \in Clamd!Socket /\ UNCHANGED <<body, outcome>>
      /\ request.pulled \in Nat /\ Len(body) \in Nat /\ request.sender = "pulling" /\ request.pulled <= Len(body)
      /\ \A k \in 1..Len(body) : body[k] \in Clamd!Chunk
  BY DEF SInv, STypes, Sending, Clamd!Request, Clamd!Pull
<1>2. /\ pulled = [no |-> request.no, sender |-> "pulling", pulled |-> n, submitted |-> request.submitted,
                   response |-> request.response, settled |-> request.settled]
      /\ stopped = [no |-> request.no, sender |-> "stopped", pulled |-> n, submitted |-> request.submitted,
                    response |-> request.response, settled |-> request.settled]
      /\ flushing = [no |-> request.no, sender |-> "flushing", pulled |-> n, submitted |-> request.submitted,
                     response |-> request.response, settled |-> request.settled]
  <2> HIDE DEF n
  <2>1. pulled = [no |-> request.no, sender |-> "pulling", pulled |-> n, submitted |-> request.submitted,
                  response |-> request.response, settled |-> request.settled]
    BY <1>1 DEF Clamd!Request
  <2> HIDE DEF pulled
  <2> QED
    BY <2>1
<1>3. /\ pulled \in Clamd!Request /\ stopped \in Clamd!Request /\ flushing \in Clamd!Request
      /\ \A r \in {pulled, stopped, flushing} :
           r.settled = request.settled /\ r.response = request.response /\ r.pulled = n
      /\ pulled.sender = "pulling" /\ stopped.sender = "stopped" /\ flushing.sender = "flushing"
  BY <1>1, <1>2 DEF Clamd!Request
<1>4. \/ Clamd!Finish(stopped, "error")
      \/ n <= Len(body) /\ body[n] = "empty" /\ request' = pulled /\ UNCHANGED socket
      \/ \E frame \in Frames :
           /\ socket.state = "open"
           /\ n <= Len(body) => body[n] # "empty" /\ frame = Clamd!Frame[body[n]]
           /\ n > Len(body) => frame = "end"
           /\ request' = flushing /\ socket' = [socket EXCEPT !.sent = Append(@, frame)]
  <2>1. \/ n <= Len(body) /\ Clamd!Finish(stopped, "error")
        \/ n <= Len(body) /\ Clamd!Skipped(body[n]) /\ request' = pulled /\ UNCHANGED socket
        \/ /\ n <= Len(body) => ~Clamd!Skipped(body[n])
           /\ IF socket.state = "open"
              THEN Clamd!Sends(IF n <= Len(body) THEN Clamd!Frame[body[n]] ELSE "end", pulled)
              ELSE Clamd!Finish(stopped, "error")
    BY DEF Clamd!Pull
  <2>2. n <= Len(body) => body[n] \in Clamd!Chunk
    BY <1>1
  <2>3. \A chunk \in Clamd!Chunk : Clamd!Frame[chunk] \in Frames
    BY DEF Clamd!Frame, Clamd!Chunk, Frames
  <2>4. \A frame : Clamd!Sends(frame, pulled) =>
          request' = flushing /\ socket' = [socket EXCEPT !.sent = Append(@, frame)]
    BY DEF Clamd!Sends
  <2> DEFINE frame == IF n <= Len(body) THEN Clamd!Frame[body[n]] ELSE "end"
  <2>5. /\ frame \in Frames
        /\ n <= Len(body) => frame = Clamd!Frame[body[n]]
        /\ n > Len(body) => frame = "end"
    <3>1. n \in Nat /\ Len(body) \in Nat
      BY <1>1
    <3> HIDE DEF n
    <3> QED
      BY <2>2, <2>3, <3>1 DEF Frames
  <2> HIDE DEF n, pulled, stopped, flushing, frame
  <2>6. \A chunk : Clamd!Skipped(chunk) <=> chunk = "empty"
    BY DEF Clamd!Skipped
  <2>7. CASE /\ n <= Len(body) => ~Clamd!Skipped(body[n])
             /\ socket.state = "open" /\ Clamd!Sends(frame, pulled)
    BY <2>4, <2>5, <2>6, <2>7
  <2> QED
    BY <2>1, <2>6, <2>7 DEF frame
<1> HIDE DEF n, pulled, stopped, flushing
<1>5. n \in Nat /\ n = request.pulled + 1
  BY <1>1 DEF n
<1>6. VerdictOnTheWhole'
  BY <1>1 DEF SInv, VerdictOnTheWhole, Clamd!VerdictOnTheWhole, Clamd!Contains
<1>7. CASE Clamd!Finish(stopped, "error")
  <2>1. stopped.pulled >= request.pulled
    BY <1>1, <1>3, <1>5
  <2> QED
    BY <1>1, <1>3, <1>7, <2>1, FinishKeeps
<1>8. CASE n <= Len(body) /\ body[n] = "empty" /\ request' = pulled /\ UNCHANGED socket
  <2>1. Sent("infected")' = Sent("infected") /\ Sent("end")' = Sent("end") /\ Sick' = Sick /\ Said' = Said
    BY <1>1, <1>3, <1>8 DEF Sent, Sick, Said
  <2>2. Sending'
    <3>1. ASSUME request.settled = "no", NEW k \in 1..Len(body), k <= n, body[k] = "infected"
          PROVE  Sent("infected")
      <4>1. k <= request.pulled
        BY <1>1, <1>5, <1>8, <3>1
      <4> QED
        BY <3>1, <4>1 DEF SInv, Sending
    <3> QED
      BY <1>1, <1>3, <1>5, <1>8, <2>1, <3>1 DEF SInv, Sending
  <2>3. Right3(Said)' <=> Right3(Said)
    BY <2>1 DEF Right3
  <2>4. Speaking'
    BY <1>3, <1>8, <2>1, <2>3 DEF SInv, Speaking, Judges
  <2> QED
    BY <1>1, <1>3, <1>6, <1>8, <2>2, <2>4 DEF SInv, STypes
<1>9. ASSUME NEW frame \in Frames,
             socket.state = "open",
             n <= Len(body) => body[n] # "empty" /\ frame = Clamd!Frame[body[n]],
             n > Len(body) => frame = "end",
             request' = flushing, socket' = [socket EXCEPT !.sent = Append(@, frame)]
      PROVE  SInv'
  <2> DEFINE sent == Append(socket.sent, frame)
  <2>1. n <= Len(body) => body[n] # "empty" /\ frame = body[n]
    BY <1>1, <1>5, <1>9 DEF Clamd!Frame, Clamd!Chunk
  <2>2. socket.sent \in Seq(Frames) /\ request.settled = "no"
    BY <1>1, <1>9 DEF Clamd!Socket, Frames, SInv, Sending
  <2>3. /\ sent \in Seq(Frames) /\ Len(sent) = Len(socket.sent) + 1 /\ sent[Len(sent)] = frame
        /\ \A i \in 1..Len(socket.sent) : sent[i] = socket.sent[i]
    BY <2>2
  <2>4. socket' = [state |-> "open", sent |-> sent, replies |-> socket.replies, ended |-> socket.ended]
    BY <1>1, <1>9 DEF Clamd!Socket
  <2> HIDE DEF sent
  <2>5. /\ socket' \in Clamd!Socket /\ socket'.state = "open" /\ socket'.sent = sent
        /\ socket'.replies = socket.replies /\ socket'.ended = socket.ended
    BY <1>1, <2>3, <2>4 DEF Clamd!Socket, Frames
  <2>6. Sick' = Sick /\ Said' = Said
    BY <1>1, <1>3, <1>9, <2>5 DEF Sick, Said
  <2>7. ASSUME NEW x \in Frames PROVE Sent(x)' <=> Sent(x) \/ x = frame
    <3>1. Len(socket.sent) \in Nat
      BY <2>2
    <3> QED
      BY <2>3, <2>5, <3>1 DEF Sent
  <2>8. ~Sent("end")
    BY <1>1 DEF SInv, Sending, Sent
  <2>9. frame = "infected" => Sick
    BY <1>1, <1>5, <1>9, <2>1 DEF Sick
  <2>10. ASSUME NEW k \in 1..Len(body), k <= n, body[k] = "infected"
         PROVE  Sent("infected") \/ frame = "infected"
    <3>1. k <= request.pulled \/ k = n
      BY <1>1, <1>5, <2>10
    <3> QED
      BY <2>1, <2>2, <2>10, <3>1 DEF SInv, Sending
  <2>11. frame = "end" => n > Len(body)
    BY <1>1, <1>5, <1>9, <2>1 DEF Clamd!Chunk
  <2>12. Sent("infected")' <=> Sent("infected") \/ frame = "infected"
    BY <2>7 DEF Frames
  <2>13. Sent("end")' <=> frame = "end"
    BY <2>7, <2>8 DEF Frames
  <2>14. ASSUME NEW i \in 1..Len(sent), sent[i] = "end" PROVE i = Len(sent) /\ n > Len(body)
    <3>1. i = Len(sent)
      <4>1. i \notin 1..Len(socket.sent)
        BY <2>3, <2>8, <2>14 DEF Sent
      <4>2. Len(socket.sent) \in Nat
        BY <2>2
      <4> QED
        BY <2>3, <4>1, <4>2
    <3> QED
      BY <2>3, <2>11, <2>14, <3>1
  <2>15. ASSUME frame = "end", Sick PROVE Sent("infected")' 
    <3>1. PICK k \in 1..Len(body) : body[k] = "infected"
      BY <2>15 DEF Sick
    <3>2. k <= n
      BY <1>1, <1>5, <2>11, <2>15
    <3> QED
      BY <2>10, <2>12, <3>1, <3>2
  <2>16. Sending'
    <3>1. Sent("infected")' => Sick'
      BY <2>6, <2>9, <2>12 DEF SInv, Sending
    <3>2. \A k \in 1..Len(body) : k <= n /\ body[k] = "infected" => Sent("infected")'
      BY <2>10, <2>12
    <3>3. Sent("end")' /\ Sick' => Sent("infected")'
      BY <2>6, <2>13, <2>15
    <3> QED
      BY <1>1, <1>3, <1>9, <2>2, <2>5, <2>14, <3>1, <3>2, <3>3 DEF Sending
  <2>17. Right3(Said)' <=> Right3(Said)
    BY <2>6 DEF Right3
  <2>18. Speaking'
    BY <1>3, <1>9, <2>2, <2>5, <2>6, <2>8, <2>17 DEF SInv, Speaking, Judges
  <2> QED
    BY <1>1, <1>3, <1>6, <1>9, <2>5, <2>16, <2>18 DEF SInv, STypes
<1> QED
  BY <1>4, <1>7, <1>8, <1>9
LEMMA Heard ==
  ASSUME NEW S, NEW r \in Seq(S), NEW s \in Seq(S), NEW t \in Seq(S)
  PROVE  /\ r \o s = <<>> => r \o (s \o t) = t
         /\ r \o s # <<>> =>
              /\ Len(r \o s) >= 1
              /\ (r \o (s \o t))[1] = (r \o s)[1]
<1> DEFINE u == s \o t
           a == r \o s
           b == r \o u
<1>1. /\ u \in Seq(S)
      /\ Len(u) = Len(s) + Len(t)
      /\ \A i \in 1..Len(s) : u[i] = s[i]
      /\ \A i \in Len(s) + 1..Len(s) + Len(t) : u[i] = t[i - Len(s)]
  BY Joined
<1>2. /\ a \in Seq(S)
      /\ Len(a) = Len(r) + Len(s)
      /\ \A i \in 1..Len(r) : a[i] = r[i]
      /\ \A i \in Len(r) + 1..Len(r) + Len(s) : a[i] = s[i - Len(r)]
  BY Joined
<1>3. u \in Seq(S)
  BY <1>1
<1> HIDE DEF u, a
<1>4. /\ b \in Seq(S)
      /\ Len(b) = Len(r) + Len(u)
      /\ \A i \in 1..Len(r) : b[i] = r[i]
      /\ \A i \in Len(r) + 1..Len(r) + Len(u) : b[i] = u[i - Len(r)]
  BY <1>3, Joined
<1> HIDE DEF b
<1>5. Len(r) \in Nat /\ Len(s) \in Nat /\ Len(t) \in Nat
  OBVIOUS
<1>6. Len(a) = Len(r) + Len(s) /\ Len(u) = Len(s) + Len(t) /\ Len(b) = Len(r) + Len(u)
  BY <1>1, <1>2, <1>4
<1>7. ASSUME a = <<>> PROVE b = t
  <2>1. Len(r) = 0 /\ Len(s) = 0
    BY <1>5, <1>6, <1>7
  <2>2. r = <<>> /\ s = <<>>
    BY <2>1
  <2> QED
    BY <2>2 DEF b, u
<1>8. ASSUME a # <<>> PROVE Len(a) >= 1 /\ b[1] = a[1]
  <2>1. Len(a) >= 1
    BY <1>2, <1>8
  <2>2. CASE Len(r) >= 1
    <3>1. 1 \in 1..Len(r)
      BY <1>5, <2>2
    <3> QED
      BY <1>2, <1>4, <2>1, <3>1
  <2>3. CASE Len(r) = 0
    <3>1. /\ 1 \in 1..Len(s) /\ 1 \in Len(r) + 1..Len(r) + Len(s) /\ 1 \in Len(r) + 1..Len(r) + Len(u)
          /\ 1 - Len(r) = 1
      BY <1>5, <1>6, <2>1, <2>3
    <3>2. a[1] = s[1]
      BY <1>2, <3>1
    <3>3. b[1] = u[1]
      BY <1>4, <3>1
    <3>4. u[1] = s[1]
      BY <1>1, <3>1
    <3> QED
      BY <2>1, <3>2, <3>3, <3>4
  <2> QED
    BY <1>5, <2>2, <2>3
<1> QED
  BY <1>7, <1>8 DEF a, b, u

(* Where the end was sent, clamd finds what the whole object holds.         *)
LEMMA TheWholeIsJudged ==
  ASSUME SInv, Sent("end")
  PROVE  Clamd!Infected <=> Sick
<1>1. socket.sent \in Seq(Frames)
  BY DEF SInv, STypes, Clamd!Socket, Frames
<1>2. ASSUME NEW i \in 1..Len(socket.sent), socket.sent[i] = "infected"
      PROVE  ~Clamd!Contains(SubSeq(socket.sent, 1, i), <<"end">>)
  <2> DEFINE prefix == SubSeq(socket.sent, 1, i)
  <2>1. prefix \in Seq(Frames) /\ Len(prefix) = i /\ \A j \in 1..i : prefix[j] = socket.sent[j]
    BY <1>1
  <2>2. \A j \in 1..i : socket.sent[j] # "end"
    <3>1. SUFFICES ASSUME NEW j \in 1..i, socket.sent[j] = "end" PROVE FALSE
      OBVIOUS
    <3>2. j \in 1..Len(socket.sent) /\ j = Len(socket.sent)
      BY <1>1, <1>2, <3>1 DEF SInv, Sending
    <3> QED
      BY <1>2, <3>1, <3>2
  <2> HIDE DEF prefix
  <2>3. ~Clamd!Contains(prefix, <<"end">>)
    BY <2>1, <2>2, ContainsOne
  <2> QED
    BY <2>3 DEF prefix
<1>3. Clamd!Infected <=> Sent("infected")
  BY <1>2 DEF Clamd!Infected, Sent
<1> QED
  BY <1>3 DEF SInv, Sending

(* All that clamd sends is made of pieces.                                  *)
LEMMA Words ==
  /\ <<"version", "NUL">> \in Seq(Clamd!Piece) /\ <<"stream:", "OK", "NUL">> \in Seq(Clamd!Piece)
  /\ \A name \in {"name", "OK"} : <<"stream:", name, "FOUND", "NUL">> \in Seq(Clamd!Piece)
  /\ <<"ERROR", "NUL">> \in Seq(Clamd!Piece) /\ <<"flood">> \in Seq(Clamd!Piece)
<1>1. \A word \in {"version", "stream:", "OK", "name", "FOUND", "ERROR", "flood", "NUL"} : word \in Clamd!Piece
  BY DEF Clamd!Piece
<1>2. <<"version", "NUL">> \in Seq(Clamd!Piece) /\ <<"stream:", "OK", "NUL">> \in Seq(Clamd!Piece)
  BY <1>1
<1>3. ASSUME NEW name \in {"name", "OK"} PROVE <<"stream:", name, "FOUND", "NUL">> \in Seq(Clamd!Piece)
  BY <1>1
<1>4. <<"ERROR", "NUL">> \in Seq(Clamd!Piece) /\ <<"flood">> \in Seq(Clamd!Piece)
  BY <1>1
<1> QED
  BY <1>2, <1>3, <1>4

(* Whatever clamd says, it says no verdict twice and none too early.        *)
LEMMA SayingKeepsSInv ==
  ASSUME SInv, NEW pieces \in Seq(Clamd!Piece), NEW ended \in BOOLEAN,
         socket.state = "open", ~socket.ended, Clamd!Says(pieces, ended),
         Said = <<>> /\ Judges(pieces) => ended /\ Sent("end") /\ Right3(pieces)
  PROVE  SInv'
<1>1. /\ request \in Clamd!Request /\ socket \in Clamd!Socket /\ UNCHANGED <<body, request, outcome>>
      /\ request.response \in Seq(Clamd!Piece) /\ socket.replies \in Seq(Clamd!Piece)
  BY DEF SInv, STypes, Clamd!Request, Clamd!Socket, Clamd!Says
<1> DEFINE replies == socket.replies \o pieces
<1>2. replies \in Seq(Clamd!Piece)
  BY <1>1
<1>3. socket' = [state |-> "open", sent |-> socket.sent, replies |-> replies, ended |-> ended]
  BY <1>1 DEF Clamd!Says, Clamd!Socket
<1>4. Said' = request.response \o (socket.replies \o pieces)
  BY <1>1, <1>3 DEF Said
<1> HIDE DEF replies
<1>5. /\ socket' \in Clamd!Socket /\ socket'.state = "open" /\ socket'.sent = socket.sent /\ socket'.ended = ended
  BY <1>1, <1>2, <1>3 DEF Clamd!Socket
<1>6. request.settled = "no"
  BY <1>1 DEF SInv, Sending
<1>7. Sent("infected")' = Sent("infected") /\ Sent("end")' = Sent("end") /\ Sick' = Sick
  BY <1>1, <1>5 DEF Sent, Sick
<1>8. Sending'
  BY <1>1, <1>5, <1>6, <1>7 DEF SInv, Sending
<1>9. /\ Said = <<>> => Said' = pieces
      /\ Said # <<>> => Len(Said) >= 1 /\ Said'[1] = Said[1]
  <2> DEFINE r == request.response
             t == socket.replies
  <2>1. r \in Seq(Clamd!Piece) /\ t \in Seq(Clamd!Piece)
    BY <1>1
  <2> HIDE DEF r, t
  <2>2. /\ r \o t = <<>> => r \o (t \o pieces) = pieces
        /\ r \o t # <<>> => Len(r \o t) >= 1 /\ (r \o (t \o pieces))[1] = (r \o t)[1]
    BY <2>1, Heard
  <2>3. Said = r \o t /\ Said' = r \o (t \o pieces)
    BY <1>4 DEF Said, r, t
  <2> QED
    BY <2>2, <2>3
<1>10. Judges(Said)' => Said = <<>>
  <2>1. ~Judges(Said)
    BY <1>6 DEF SInv, Speaking
  <2> QED
    BY <1>9, <2>1 DEF Judges
<1>11. Speaking'
  <2>1. ASSUME Judges(Said)' PROVE ended /\ Sent("end") /\ Right3(Said)'
    <3>1. Said = <<>> /\ Said' = pieces
      BY <1>9, <1>10, <2>1
    <3>2. Judges(pieces)
      BY <2>1, <3>1 DEF Judges
    <3>3. Right3(pieces)
      BY <3>1, <3>2
    <3>4. Right3(Said)'
      BY <1>7, <3>1, <3>3 DEF Right3
    <3> QED
      BY <3>1, <3>2, <3>4
  <2> QED
    BY <1>1, <1>5, <1>6, <1>7, <2>1 DEF Speaking
<1>12. VerdictOnTheWhole'
  BY <1>1 DEF SInv, VerdictOnTheWhole, Clamd!VerdictOnTheWhole, Clamd!Contains
<1> QED
  BY <1>1, <1>5, <1>8, <1>11, <1>12 DEF SInv, STypes

LEMMA AnswerKeepsSInv ==
  ASSUME SInv, NEW n \in 0..4, Clamd!Answer(n)
  PROVE  SInv'
<1>1. PICK answer \in Clamd!Answers : n <= Len(answer) /\ Clamd!Says(SubSeq(answer, 1, n), TRUE)
  BY DEF Clamd!Answer
<1> DEFINE pieces == SubSeq(answer, 1, n)
<1>2. answer \in Seq(Clamd!Piece)
  BY <1>1, Words DEF Clamd!Answers
<1>3. pieces \in Seq(Clamd!Piece) /\ Len(pieces) = n /\ \A i \in 1..n : pieces[i] = answer[i]
  BY <1>1, <1>2
<1>4. socket.state = "open" /\ ~socket.ended
  BY DEF Clamd!Answer, Clamd!Speaks
<1>5. Clamd!Says(pieces, TRUE)
  BY <1>1
<1> HIDE DEF pieces
<1>6. ASSUME Judges(pieces) PROVE Sent("end") /\ Right3(pieces)
  <2>1. n >= 1 /\ answer[1] = "stream:"
    BY <1>3, <1>6 DEF Judges
  <2>2. Clamd!Streams
    BY <1>1, <2>1 DEF Clamd!Answers
  <2>3. Sent("end")
    <3>1. Clamd!Contains(socket.sent, <<"end">>)
      BY <2>2 DEF Clamd!Answer
    <3>2. socket.sent \in Seq(Frames)
      BY DEF SInv, STypes, Clamd!Socket, Frames
    <3> QED
      BY <3>1, <3>2, ContainsOne DEF Sent
  <2>4. Clamd!Infected <=> Sick
    BY <2>3, TheWholeIsJudged
  <2>5. CASE Sick
    <3>1. PICK name : answer = <<"stream:", name, "FOUND", "NUL">>
      BY <1>1, <2>2, <2>4, <2>5 DEF Clamd!Answers
    <3>2. n >= 3 => pieces[3] = "FOUND"
      BY <1>3, <3>1
    <3> QED
      BY <1>3, <2>3, <2>5, <3>2 DEF Right3
  <2>6. CASE ~Sick
    <3>1. answer = <<"stream:", "OK", "NUL">>
      BY <1>1, <2>2, <2>4, <2>6 DEF Clamd!Answers
    <3>2. \A j \in 3..n : pieces[j] # "FOUND"
      BY <1>1, <1>3, <3>1
    <3> QED
      BY <1>3, <2>3, <2>6, <3>2 DEF Right3
  <2> QED
    BY <2>5, <2>6
<1> QED
  BY <1>3, <1>4, <1>5, <1>6, SayingKeepsSInv

LEMMA ComplainsKeepsSInv ==
  ASSUME SInv, NEW pieces \in {<<"ERROR", "NUL">>, <<"flood">>}, NEW ended \in BOOLEAN, Clamd!Complains(pieces, ended)
  PROVE  SInv'
<1>1. pieces \in Seq(Clamd!Piece) /\ ~Judges(pieces)
  <2>1. pieces \in Seq(Clamd!Piece)
    BY Words
  <2>2. pieces[1] # "stream:"
    OBVIOUS
  <2> QED
    BY <2>1, <2>2 DEF Judges
<1>2. socket.state = "open" /\ ~socket.ended /\ Clamd!Says(pieces, ended)
  BY DEF Clamd!Complains, Clamd!Speaks
<1> QED
  BY <1>1, <1>2, SayingKeepsSInv
(* Between two requests everything starts anew; at the end the answer that  *)
(* was heard is the right one.                                              *)
LEMMA ConcludeKeepsSInv ==
  ASSUME SInv, Clamd!Conclude
  PROVE  SInv'
<1>1. /\ request \in Clamd!Request /\ socket \in Clamd!Socket /\ body \in Seq(Clamd!Chunk) /\ UNCHANGED body
      /\ request.response \in Seq(Clamd!Piece) /\ request.no \in 1..2
  BY DEF SInv, STypes, Clamd!Request, Clamd!Conclude, Clamd!Requests
<1>2. \/ \E result \in {"unavailable", "detected", "clean"} :
           /\ Clamd!Concludes(result)
           /\ result = "detected" => request.settled = "value" /\ Clamd!Found
           /\ result = "clean" => request.settled = "value" /\ Clamd!Good /\ request.no = 2
      \/ /\ request.no < 2 /\ UNCHANGED outcome
         /\ request' = Clamd!NewRequest(request.no + 1) /\ socket' = Clamd!NewSocket
  <2>1. Len(Clamd!Requests) = 2
    BY DEF Clamd!Requests
  <2> QED
    BY <1>1, <2>1 DEF Clamd!Conclude, Clamd!Request
<1>3. CASE /\ request.no < 2 /\ UNCHANGED outcome
           /\ request' = Clamd!NewRequest(request.no + 1) /\ socket' = Clamd!NewSocket
  <2>1. request' \in Clamd!Request /\ socket' \in Clamd!Socket
    BY <1>1, <1>3 DEF Clamd!Request, Clamd!Socket, Clamd!NewRequest, Clamd!NewSocket, Clamd!Requests
  <2>2. Sending'
    BY <1>1, <1>3 DEF Sending, Clamd!NewRequest, Clamd!NewSocket, Sent
  <2>3. Said' = <<>> /\ request'.settled = "no"
    BY <1>3 DEF Said, Clamd!NewRequest, Clamd!NewSocket
  <2>4. Speaking'
    BY <2>3 DEF Speaking, Judges
  <2>5. VerdictOnTheWhole'
    BY <1>1, <1>3 DEF SInv, VerdictOnTheWhole, Clamd!VerdictOnTheWhole, Clamd!Contains
  <2> QED
    BY <1>1, <2>1, <2>2, <2>4, <2>5 DEF SInv, STypes
<1>4. ASSUME NEW result \in {"unavailable", "detected", "clean"}, Clamd!Concludes(result),
             result = "detected" => request.settled = "value" /\ Clamd!Found,
             result = "clean" => request.settled = "value" /\ Clamd!Good /\ request.no = 2
      PROVE  SInv'
  <2> DEFINE response == request.response
             value == SubSeq(response, 1, Len(response) - 1)
  <2>1. outcome' = result /\ UNCHANGED <<body, request, socket>>
    BY <1>1, <1>4 DEF Clamd!Concludes
  <2>2. STypes' /\ Sending' /\ Speaking'
    BY <2>1 DEF SInv, STypes, Sending, Speaking, Sent, Sick, Said, Right3, Judges
  <2>3. response \in Seq(Clamd!Piece)
    BY <1>1
  <2>4. ASSUME request.settled = "value"
        PROVE  /\ Said = response /\ Len(response) >= 2 /\ response[Len(response)] = "NUL"
               /\ Judges(response) => Right3(response)
               /\ Len(value) = Len(response) - 1 /\ \A i \in 1..Len(response) - 1 : value[i] = response[i]
    <3>1. /\ socket.replies = <<>>
          /\ Len(response) >= 2 /\ response[Len(response)] = "NUL"
      BY <2>4 DEF SInv, Speaking
    <3> HIDE DEF response
    <3>2. Said = response
      BY <2>3, <3>1 DEF Said, response
    <3>3. Judges(response) => Right3(response)
      BY <2>4, <3>2 DEF SInv, Speaking
    <3>4. Len(value) = Len(response) - 1 /\ \A i \in 1..Len(response) - 1 : value[i] = response[i]
      BY <2>3, <3>1
    <3> QED
      BY <3>1, <3>2, <3>3, <3>4
  <2>5. value = Clamd!Value
    BY DEF Clamd!Value
  <2> HIDE DEF response, value
  <2>6. Clamd!Contains(body, <<"infected">>) <=> Sick
    BY <1>1, ContainsOne DEF Sick
  <2>7. ASSUME result = "detected" PROVE Sick
    <3>1. request.settled = "value" /\ Len(value) >= 3 /\ value[1] = "stream:" /\ value[Len(value)] = "FOUND"
      BY <1>4, <2>5, <2>7 DEF Clamd!Found
    <3>2. Len(value) \in 3..Len(response) /\ response[1] = "stream:" /\ response[Len(value)] = "FOUND"
      BY <2>3, <2>4, <3>1
    <3>3. Right3(response)
      BY <2>3, <2>4, <3>1, <3>2 DEF Judges
    <3> QED
      BY <3>2, <3>3 DEF Right3
  <2>8. ASSUME result = "clean" PROVE ~Sick
    <3>1. request.settled = "value" /\ value = <<"stream:", "OK">>
      <4>1. Clamd!Streams
        BY <1>4, <2>8 DEF Clamd!Streams, Clamd!Requests
      <4> QED
        BY <1>4, <2>5, <2>8, <4>1 DEF Clamd!Good, Clamd!Ok
    <3>2. Len(value) = 2 /\ value[1] = "stream:"
      BY <3>1
    <3>3. Len(response) = 3 /\ response[1] = "stream:" /\ response[3] = "NUL"
      <4>1. Len(value) = Len(response) - 1 /\ Len(response) \in Nat
        BY <2>3, <2>4, <3>1
      <4>2. Len(response) = 3
        <5> DEFINE n == Len(response)
        <5>1. n \in Nat /\ n - 1 = 2
          BY <3>2, <4>1
        <5> HIDE DEF n
        <5>2. n = 3
          BY <5>1
        <5> QED
          BY <5>2 DEF n
      <4>3. response[Len(response)] = "NUL" /\ value[1] = response[1]
        BY <2>4, <3>1, <4>2
      <4> QED
        BY <3>2, <4>2, <4>3
    <3>4. Right3(response)
      BY <2>4, <3>1, <3>3 DEF Judges
    <3> QED
      BY <3>3, <3>4 DEF Right3
  <2>9. VerdictOnTheWhole'
    <3>1. Clamd!Contains(body, <<"infected">>)' <=> Clamd!Contains(body, <<"infected">>)
      BY <2>1 DEF Clamd!Contains
    <3> QED
      BY <2>1, <2>6, <2>7, <2>8, <3>1 DEF VerdictOnTheWhole, Clamd!VerdictOnTheWhole
  <2> QED
    BY <2>2, <2>9 DEF SInv
<1> QED
  BY <1>2, <1>3, <1>4

LEMMA SInvNext ==
  ASSUME SInv, [MCNext]_all
  PROVE  SInv'
<1>1. CASE UNCHANGED scan
  <2>1. UNCHANGED <<body, request, socket, outcome>>
    BY <1>1 DEF scan
  <2>2. /\ Sent("infected")' = Sent("infected") /\ Sent("end")' = Sent("end") /\ Sick' = Sick
        /\ Said' = Said /\ (Right3(Said)' <=> Right3(Said))
    BY <2>1 DEF Sent, Sick, Said, Right3
  <2>3. STypes' /\ Sending' /\ Speaking'
    BY <2>1, <2>2 DEF SInv, STypes, Sending, Speaking, Judges
  <2>4. VerdictOnTheWhole'
    BY <2>1 DEF SInv, VerdictOnTheWhole, Clamd!VerdictOnTheWhole, Clamd!Contains
  <2> QED
    BY <2>3, <2>4 DEF SInv
<1>2. CASE Clamd!Next
  <2>1. CASE Clamd!Connect \/ Clamd!Flushed
    BY <2>1, ConnectAndFlushKeepSInv
  <2>2. CASE Clamd!End \/ Clamd!Breaks \/ Clamd!Deadline \/ Clamd!StorageFails \/ Clamd!SenderFails
    BY <2>2, EndingKeepsSInv
  <2> QED
    BY <1>2, <2>1, <2>2, PullKeepsSInv, DataKeepsSInv, ConcludeKeepsSInv, AnswerKeepsSInv, ComplainsKeepsSInv
       DEF Clamd!Next
<1>3. [MCNext]_all => UNCHANGED scan \/ Clamd!Next
  BY DEF MCNext, all, Scans
<1> QED
  BY <1>1, <1>2, <1>3

(* For any objects and any limit: however chunks, answers, failures and the *)
(* timer interleave, the verdict of a scan is the one on the whole object   *)
(* (clamd-client.ts, malware-scanner.service.ts).                           *)
THEOREM ScansAreJudgedWhole == MCSpec => []VerdictOnTheWhole
<1>1. MCInit => SInv
  BY SInvInit, OperationsAssumption DEF OperationsAssumption, MCInit
<1>2. SInv /\ [MCNext]_all => SInv'
  BY SInvNext
<1>3. SInv => VerdictOnTheWhole
  BY DEF SInv
<1> QED
  BY <1>1, <1>2, <1>3, PTL DEF MCSpec
=============================================================================
