------------------------------- MODULE Installs ------------------------------
(***************************************************************************)
(* Dependency installs of checkouts on one machine.  A pnpm install keeps    *)
(* its locks in a Node process (the holder) that lives until its standard    *)
(* input ends; an npm install locks a descriptor that its children inherit;  *)
(* a bare npm ci locks nothing.  The lock file and the private store are in  *)
(* the run's runtime root: the project's own, or for pnpm one that           *)
(* SITES_RUNTIME_ROOT names.  All pnpm installs may share one store.         *)
(***************************************************************************)
EXTENDS Integers, FiniteSets

CONSTANTS
  Runs, Projects, ProjectOf,
  Roots, RootOf,   \* runtime roots, and that of a run; a project's own has its name
  Kind,            \* per run: "pnpm", "npm" (install-ci.sh) or "bare" (npm ci)
  RequireShared,   \* pnpm runs with --require-shared
  PrepareOnly,     \* pnpm runs with --prepare-store
  Unseen,          \* bare runs of another directory or another command line
  Shared,          \* the store of the workspace; a private one has its root's name
  MaxRuns,         \* bound: runs that ever begin
  None

ASSUME InstallsAssumption ==
  /\ ProjectOf \in [Runs -> Projects] /\ Kind \in [Runs -> {"pnpm", "npm", "bare"}]
  /\ Projects \subseteq Roots /\ RootOf \in [Runs -> Roots]
  /\ RequireShared \subseteq Runs /\ PrepareOnly \subseteq Runs
  /\ Unseen \subseteq {r \in Runs : Kind[r] = "bare"}
  /\ Shared \notin Roots /\ None \notin Roots \cup {Shared}

VARIABLES
  step,    \* per run: where its shell is; "over" when it ended
  holder,  \* per run: its holder process, "fd" for a descriptor of the shell itself
  killed,  \* runs of which the shell, or a process of it, was killed
  lease,   \* runs whose holder locked the shared store
  work,    \* runs whose installer is writing node_modules
  choice,  \* per run: the store it prepares
  store,   \* per store: absent, plain (no seed) or seeded
  clear    \* per npm run: the bare runs that were not at work when it looked

vars == <<step, holder, killed, lease, work, choice, store, clear>>

Init ==
  /\ step = [r \in Runs |-> "start"] /\ holder = [r \in Runs |-> "none"]
  /\ killed = {} /\ lease = {} /\ work = {} /\ choice = [r \in Runs |-> None]
  /\ store = [s \in Roots \cup {Shared} |-> "absent"]
  /\ clear = [r \in Runs |-> {}]

(* A descriptor stays open as long as the shell or a child that inherited   *)
(* it; the holder's are its own.                                            *)
Holds(r) ==
  \/ holder[r] \in {"idle", "waiting"}
  \/ holder[r] = "fd" /\ (step[r] # "over" \/ r \in work)

(* install.lock of the run's runtime root.                                  *)
RootFree(r) == \A q \in Runs : RootOf[q] = RootOf[r] => ~Holds(q)

Begins(r) == step[r] = "start" /\ Cardinality({q \in Runs : step[q] # "start"}) < MaxRuns

(* The shell goes on if it is still there to read the answer.               *)
Goes(r, from, to) == step' = [step EXCEPT ![r] = IF @ = from THEN to ELSE @]

-----------------------------------------------------------------------------
(* install-pnpm.sh and its holder                                           *)

Start(r) ==
  /\ Kind[r] = "pnpm" /\ Begins(r)
  /\ step' = [step EXCEPT ![r] = "asked"] /\ holder' = [holder EXCEPT ![r] = "opening"]
  /\ UNCHANGED <<killed, lease, work, choice, store, clear>>

(* flock -w 0; an unusable lock file is answered like a busy one.           *)
OpenProject(r) ==
  /\ holder[r] = "opening"
  /\ \/ RootFree(r) /\ holder' = [holder EXCEPT ![r] = "idle"] /\ Goes(r, "asked", "locked")
     \/ holder' = [holder EXCEPT ![r] = "gone"] /\ Goes(r, "asked", "over")
  /\ UNCHANGED <<killed, lease, work, choice, store, clear>>

(* A private store, or none when the shared one is required.                *)
Private(r, from) ==
  /\ Goes(r, from, IF r \in RequireShared THEN "over" ELSE "store")
  /\ choice' = [choice EXCEPT ![r] = RootOf[r]]

(* The shared store is offered when its directory can be made and written;  *)
(* who has lost the holder does without.                                    *)
Scope(r) ==
  /\ step[r] = "locked"
  /\ \/ Private(r, "locked") /\ UNCHANGED holder
     \/ /\ holder[r] = "idle"
        /\ Goes(r, "locked", "awaits") /\ holder' = [holder EXCEPT ![r] = "waiting"] /\ UNCHANGED choice
  /\ UNCHANGED <<killed, lease, work, store, clear>>

(* flock -w 30, during which the holder does not see its input end.         *)
LockShared(r) ==
  /\ holder[r] = "waiting" /\ holder' = [holder EXCEPT ![r] = "idle"]
  /\ \/ lease = {} /\ lease' = {r} /\ Goes(r, "awaits", "granted") /\ UNCHANGED choice
     \/ Private(r, "awaits") /\ UNCHANGED lease
  /\ UNCHANGED <<killed, work, store, clear>>

(* The entry is looked at again under the lock.                             *)
UseShared(r) ==
  /\ step[r] = "granted"
  /\ \/ Goes(r, "granted", "store") /\ choice' = [choice EXCEPT ![r] = Shared] /\ UNCHANGED lease
     \/ holder[r] = "idle" /\ Private(r, "granted") /\ lease' = lease \ {r}
  /\ UNCHANGED <<holder, killed, work, store, clear>>

(* An existing store is left alone, a compatible seed is copied to a        *)
(* directory of the run's own, without one an empty store is made.          *)
Look(r) ==
  /\ step[r] = "store"
  /\ \/ store[choice[r]] # "absent" /\ Goes(r, "store", "probe") /\ UNCHANGED store
     \/ store[choice[r]] = "absent" /\ Goes(r, "store", "copied") /\ UNCHANGED store
     \/ store[choice[r]] = "absent" /\ Goes(r, "store", "probe") /\ store' = [store EXCEPT ![choice[r]] = "plain"]
  /\ UNCHANGED <<holder, killed, lease, work, choice, clear>>

(* Mutant of Lands: the move replaces what is there.                        *)
LandsAlways(s) == TRUE

(* mv -T --update=none                                                      *)
Lands(s) == store[s] = "absent"

Publish(r) ==
  /\ step[r] = "copied" /\ Goes(r, "copied", "probe")
  /\ store' = [store EXCEPT ![choice[r]] = IF Lands(choice[r]) THEN "seeded" ELSE @]
  /\ UNCHANGED <<holder, killed, lease, work, choice, clear>>

(* The store can be written; the shared lock is given back before pnpm runs.*)
ReleaseShared(r) ==
  /\ step[r] = "probe" /\ (choice[r] = Shared => holder[r] = "idle")
  /\ lease' = lease \ {r}
  /\ Goes(r, "probe", IF r \in PrepareOnly THEN "over" ELSE "install")
  /\ UNCHANGED <<holder, killed, work, choice, store, clear>>

HolderEnds(r) ==
  /\ holder[r] = "idle" /\ step[r] = "over"
  /\ holder' = [holder EXCEPT ![r] = "gone"] /\ lease' = lease \ {r}
  /\ UNCHANGED <<step, killed, work, choice, store, clear>>

(* pnpm used by hand makes a store without any lock.                        *)
OrdinaryPnpm(s) ==
  /\ store[s] = "absent" /\ store' = [store EXCEPT ![s] = "plain"]
  /\ UNCHANGED <<step, holder, killed, lease, work, choice, clear>>

-----------------------------------------------------------------------------
(* install-ci.sh                                                            *)

(* A runtime root that is not the project's own is refused.                 *)
Flock(r) ==
  /\ Kind[r] = "npm" /\ Begins(r)
  /\ \/ RootOf[r] = ProjectOf[r] /\ RootFree(r) /\ holder' = [holder EXCEPT ![r] = "fd"] /\ Goes(r, "start", "scan")
     \/ (RootOf[r] # ProjectOf[r] \/ ~RootFree(r)) /\ Goes(r, "start", "over") /\ UNCHANGED holder
  /\ UNCHANGED <<killed, lease, work, choice, store, clear>>

(* What shows in /proc: an npm ci whose directory is the project's root and *)
(* whose command line says so, its own parent apart.                        *)
Visible(r) == {q \in work \ Unseen : Kind[q] # "pnpm" /\ ProjectOf[q] = ProjectOf[r]}

(* Mutant of Scan: the processes are not looked at.                         *)
ScanNone(r) ==
  /\ step[r] = "scan" /\ Goes(r, "scan", "preflight")
  /\ clear' = [clear EXCEPT ![r] = Runs \ work]
  /\ UNCHANGED <<holder, killed, lease, work, choice, store>>

Scan(r) ==
  /\ step[r] = "scan"
  /\ \/ Visible(r) = {} /\ Goes(r, "scan", "preflight") /\ clear' = [clear EXCEPT ![r] = Runs \ work]
     \/ Visible(r) # {} /\ Goes(r, "scan", "over") /\ UNCHANGED clear
  /\ UNCHANGED <<holder, killed, lease, work, choice, store>>

(* The seeded cache, or the tarball fetched and its integrity verified.     *)
Preflight(r) ==
  /\ step[r] = "preflight" /\ Goes(r, "preflight", "install")
  /\ UNCHANGED <<holder, killed, lease, work, choice, store, clear>>

-----------------------------------------------------------------------------
(* Any run                                                                  *)

Install(r) ==
  /\ step[r] = "install" \/ (Kind[r] = "bare" /\ Begins(r))
  /\ step' = [step EXCEPT ![r] = "wait"] /\ work' = work \cup {r}
  /\ UNCHANGED <<holder, killed, lease, choice, store, clear>>

(* The installer ends, by itself or by timeout.                             *)
InstallEnds(r) ==
  /\ r \in work /\ work' = work \ {r}
  /\ UNCHANGED <<step, holder, killed, lease, choice, store, clear>>

(* The shell checks vinext, writes its marker and ends.                     *)
Return(r) ==
  /\ step[r] = "wait" /\ r \notin work /\ Goes(r, "wait", "over")
  /\ UNCHANGED <<holder, killed, lease, work, choice, store, clear>>

(* A command of the shell fails or times out, outside of its waits.         *)
Fail(r) ==
  /\ step[r] \notin {"start", "over", "asked", "awaits", "wait"}
  /\ step' = [step EXCEPT ![r] = "over"]
  /\ UNCHANGED <<holder, killed, lease, work, choice, store, clear>>

(* The shell is killed, or the timeout or the Node process that it waits    *)
(* for, on which it ends; the installer and the holder are not.             *)
Kill(r) ==
  /\ step[r] \notin {"start", "over"}
  /\ step' = [step EXCEPT ![r] = "over"] /\ killed' = killed \cup {r}
  /\ UNCHANGED <<holder, lease, work, choice, store, clear>>

(* The holder is killed: who waits for it reads the end of its output.      *)
KillHolder(r) ==
  /\ holder[r] \in {"opening", "idle", "waiting"}
  /\ holder' = [holder EXCEPT ![r] = "gone"] /\ killed' = killed \cup {r} /\ lease' = lease \ {r}
  /\ \/ step[r] = "awaits" /\ Private(r, "awaits")
     \/ step[r] # "awaits" /\ Goes(r, "asked", "over") /\ UNCHANGED choice
  /\ UNCHANGED <<work, store, clear>>

Next ==
  \/ \E r \in Runs :
       \/ Start(r) \/ OpenProject(r) \/ Scope(r) \/ LockShared(r) \/ UseShared(r) \/ Look(r) \/ Publish(r)
       \/ ReleaseShared(r) \/ HolderEnds(r) \/ Flock(r) \/ Scan(r) \/ Preflight(r)
       \/ Install(r) \/ InstallEnds(r) \/ Return(r) \/ Fail(r) \/ Kill(r) \/ KillHolder(r)
  \/ \E s \in Roots \cup {Shared} : OrdinaryPnpm(s)

Spec == Init /\ [][Next]_vars

-----------------------------------------------------------------------------
(* Properties                                                               *)

(* Two installers are at work in one project only if a process of a pnpm    *)
(* one was killed ("including this shell exiting", pnpm-install.mjs:144) or *)
(* its runtime root is another than that of the other one, or a bare npm ci *)
(* is at work that install-ci.sh does not recognise or that began after it  *)
(* had looked: an npm install never joins one it could see, nor another npm *)
(* or pnpm one of the same root.                                            *)
InstallsAreAlone ==
  \A q \in work : \A r \in work \ {q} : ProjectOf[q] = ProjectOf[r] =>
    \E x \in {q, r} : \E y \in {q, r} \ {x} :
      \/ Kind[x] = "pnpm" /\ (x \in killed \/ RootOf[x] # RootOf[y])
      \/ Kind[x] = "bare" /\ (Kind[y] = "npm" => x \in Unseen \/ x \in clear[y])

(* "Publish without replacing even an empty directory created by that       *)
(* command" (install-pnpm.sh:176), and "Never merge a newer image seed into *)
(* an existing mutable store" (line 146), whatever runs and shells do       *)
(* meanwhile, and whoever else prepares the same store.                     *)
StoresAreKept == [][\A s \in DOMAIN store : store[s] # "absent" => store'[s] = store[s]]_vars
=============================================================================
