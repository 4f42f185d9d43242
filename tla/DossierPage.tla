----------------------------- MODULE DossierPage -----------------------------
(***************************************************************************)
(* The dossier page of the operator console.  It shows one battery item and *)
(* one of its values; commands run one at a time (busy), but the load that  *)
(* the address of the page asks for, the fetch of the selected value and    *)
(* the operator's ticks come whenever they come.  Meanwhile other pages and  *)
(* accepted declarations write the same values, and reviewers reject them.   *)
(***************************************************************************)
EXTENDS Integers, FiniteSets

CONSTANTS
  Items, Fields, Evidence,
  Contested, \* the data points of items that other people work on
  MaxLoads,  \* bound: loads the page ever starts
  MaxSaves,  \* bound: values a field of an item ever has
  None

VARIABLES
  item, itemId,  \* the dossier shown (None while undefined), the id commands name
  field,         \* the data point and scope selected
  saved,         \* per item and field: the last value the API has, and who wrote it
  values,        \* per field: its value in the dossier shown
  detail,        \* valueDetail: the value whose evidence is shown
  fetching,      \* the value whose detail the last effect waits for
  confirmed,     \* per confirmation: None, or what was on screen when ticked
  reviewed,      \* per evidence: None, or the value on screen when ticked
  sequence, loads, \* loads started, and those that wait for the API
  busy           \* the command under way, what it was sent for and the load it waits for

screen == <<item, itemId, field, values, detail, fetching>>
ticks  == <<confirmed, reviewed>>
vars   == <<screen, ticks, saved, sequence, loads, busy>>

Confirmations == {"publish", "export"}
Nothing == [c \in Confirmations |-> None]
Unread  == [e \in Evidence |-> None]
Idle    == [kind |-> None, at |-> 0]
NoValue == <<None, None, 0, None>>

(* A field that was never written, or whose value was rejected, shows none. *)
ValueOf(i, f) ==
  IF i = None \/ saved[<<i, f>>].by = None THEN NoValue ELSE <<i, f, saved[<<i, f>>].no, saved[<<i, f>>].by>>
ValuesOf(i) == [f \in Fields |-> ValueOf(i, f)]

value == values[field]

(* Kinds of command that end with a load of the dossier.                    *)
Loading == {"open", "save", "link", "validateValue", "validatePassport", "publish"}
OnValue == {"link", "validateValue", "verify"}

Init ==
  /\ item = None /\ itemId = None /\ field \in Fields
  /\ saved \in [Items \X Fields -> {[no |-> 0, by |-> None], [no |-> 1, by |-> "page"]}]
  /\ values = ValuesOf(None) /\ detail = NoValue /\ fetching = NoValue
  /\ confirmed = Nothing /\ reviewed = Unread
  /\ busy = Idle
  /\ \/ sequence = 0 /\ loads = {}
     \/ \E i \in Items : sequence = 1 /\ loads = {[id |-> i, request |-> 1]}

-----------------------------------------------------------------------------
(* Effects and loads                                                        *)

(* useEffect on the id of the value, the field and the scope.               *)
Effect(v) == detail' = NoValue /\ fetching' = v /\ reviewed' = Unread

Fetched ==
  /\ fetching # NoValue
  /\ fetching' = NoValue
  /\ detail' \in {fetching, detail}
  /\ UNCHANGED <<item, itemId, field, values, ticks, saved, sequence, loads, busy>>

(* load(id), up to its first await.                                         *)
BeginLoad(i) ==
  /\ sequence' = sequence + 1 /\ loads' = loads \cup {[id |-> i, request |-> sequence + 1]}
  /\ item' = None /\ values' = ValuesOf(None) /\ confirmed' = Nothing /\ Effect(NoValue)

(* Mutant of Latest: whichever answer comes is shown.                       *)
LatestAny(l) == TRUE

(* request === sequence.current                                             *)
Latest(l) == l.request = sequence

(* The command that waits for this load goes on.                            *)
After(l) == IF busy.kind \in Loading /\ busy.at = l.request
            THEN IF busy.kind = "link" THEN [busy EXCEPT !.kind = "detail"] ELSE Idle
            ELSE busy

Loaded(l) ==
  /\ l \in loads /\ loads' = loads \ {l} /\ busy' = After(l)
  /\ IF Latest(l)
     THEN /\ item' = l.id /\ itemId' = l.id /\ values' = ValuesOf(l.id)
          /\ IF ValueOf(l.id, field) = value THEN UNCHANGED <<detail, fetching, reviewed>>
             ELSE Effect(ValueOf(l.id, field))
     ELSE UNCHANGED <<item, itemId, values, detail, fetching, reviewed>>
  /\ UNCHANGED <<field, confirmed, saved, sequence>>

LoadFails(l) ==
  /\ l \in loads /\ loads' = loads \ {l}
  /\ busy' = IF busy.kind \in Loading /\ busy.at = l.request THEN Idle ELSE busy
  /\ UNCHANGED <<screen, ticks, saved, sequence>>

-----------------------------------------------------------------------------
(* The operator                                                             *)

Select(f) ==
  /\ item # None /\ busy = Idle /\ f # field
  /\ field' = f /\ Effect(values[f])
  /\ UNCHANGED <<item, itemId, values, confirmed, saved, sequence, loads, busy>>

(* canPublish may hold or not: the API decides again.                       *)
Confirm(c) ==
  /\ item # None /\ busy = Idle
  /\ confirmed' = [confirmed EXCEPT ![c] = IF @ = None THEN item ELSE None]
  /\ UNCHANGED <<screen, reviewed, saved, sequence, loads, busy>>

(* The boxes of the evidence stay enabled while a command runs.             *)
Tick(e) ==
  /\ item # None /\ detail # NoValue /\ value # NoValue
  /\ reviewed' = [reviewed EXCEPT ![e] = IF @ = None THEN value ELSE None]
  /\ UNCHANGED <<screen, confirmed, saved, sequence, loads, busy>>

(* run(): what was confirmed is forgotten before the command starts.        *)
Run(kind, ticked) ==
  /\ busy = Idle /\ confirmed' = Nothing
  /\ busy' = [kind |-> kind, at |-> 0, item |-> itemId, shown |-> item, ticked |-> ticked,
              value |-> IF kind \in OnValue THEN value ELSE NoValue,
              detail |-> IF kind = "verify" THEN detail ELSE NoValue]
  /\ UNCHANGED <<screen, reviewed, saved, sequence, loads>>

(* The form takes any id; the load begins without another await.            *)
Open(i) ==
  /\ busy = Idle /\ sequence < MaxLoads
  /\ busy' = [kind |-> "open", at |-> sequence + 1]
  /\ BeginLoad(i) /\ UNCHANGED <<itemId, field, saved>>

Command(kind) ==
  /\ item # None
  /\ \/ /\ kind \in {"save", "validatePassport", "download"}
        /\ Run(kind, None)
     \/ /\ kind \in {"link", "validateValue"} /\ value # NoValue
        /\ kind = "link" \/ detail # NoValue
        /\ Run(kind, None)
     \/ /\ kind \in Confirmations /\ confirmed[kind] # None
        /\ Run(kind, confirmed[kind])
     \/ /\ kind = "verify" /\ detail # NoValue /\ value # NoValue
        /\ \E e \in Evidence : reviewed[e] # None /\ Run(kind, reviewed[e])

(* The next value of a field replaces the one that is current.              *)
Write(i, f, who) ==
  /\ saved[<<i, f>>].no < MaxSaves
  /\ saved' = [saved EXCEPT ![<<i, f>>] = [no |-> @.no + 1, by |-> who]]

(* The command's request is answered: commands of Loading load the dossier  *)
(* of the id they started with; verify reads the value and the checks.      *)
Answered ==
  /\ busy.kind \in (Loading \ {"open"}) /\ busy.at = 0 /\ sequence < MaxLoads
  /\ busy' = [busy EXCEPT !.at = sequence + 1]
  /\ IF busy.kind = "save" THEN Write(itemId, field, "page") ELSE UNCHANGED saved
  /\ BeginLoad(itemId) /\ UNCHANGED <<itemId, field>>

(* The detail read last is that of the value the command was given for,     *)
(* whatever value a load has brought on the screen since (line 105).        *)
Finished ==
  /\ busy.kind \in {"download", "export", "verify", "detail"}
  /\ busy' = Idle
  /\ detail' = IF busy.kind \in {"verify", "detail"} THEN busy.value ELSE detail
  /\ reviewed' = IF busy.kind = "verify" THEN Unread ELSE reviewed
  /\ UNCHANGED <<item, itemId, field, values, fetching, confirmed, saved, sequence, loads>>

(* The request of a command, or a read after it, fails; the value of a save *)
(* may be there although the answer is not.                                 *)
Fails ==
  /\ busy # Idle /\ (busy.at = 0 \/ busy.kind = "detail")
  /\ busy' = Idle
  /\ UNCHANGED saved \/ (busy.kind = "save" /\ Write(itemId, field, "lost"))
  /\ UNCHANGED <<screen, ticks, sequence, loads>>

(* Another operator's save or an accepted declaration, and a rejection.     *)
OtherWrites(i, f) ==
  /\ \/ Write(i, f, "other")
     \/ saved[<<i, f>>].by # None /\ saved' = [saved EXCEPT ![<<i, f>>].by = None]
  /\ UNCHANGED <<screen, ticks, sequence, loads, busy>>

Next ==
  \/ Fetched \/ Answered \/ Finished \/ Fails
  \/ \E l \in loads : Loaded(l) \/ LoadFails(l)
  \/ \E f \in Fields : Select(f)
  \/ \E c \in Confirmations : Confirm(c)
  \/ \E e \in Evidence : Tick(e)
  \/ \E i \in Items : Open(i)
  \/ \E x \in Contested : OtherWrites(x[1], x[2])
  \/ \E kind \in Loading \cup Confirmations \cup {"verify", "download"} : Command(kind)

Spec == Init /\ [][Next]_vars
-----------------------------------------------------------------------------
(* Properties                                                               *)

(* Another's value, or one the page was not told of, took the place of v.   *)
Replaced(v, w) == v[1] = w[1] /\ v[2] = w[2] /\ v[3] < w[3] /\ w[4] \in {"other", "lost"}

(* "an error cannot leave an old dossier usable under a new item            *)
(* identifier" (page.tsx:48): whatever is slow or fails and whoever else    *)
(* writes, a command is about the item on screen, a publication or export   *)
(* was confirmed for that very item, evidence was ticked as reviewed with   *)
(* the very value on screen, and the evidence listed is that of this value, *)
(* or of the one that was replaced before a link of evidence had reloaded.  *)
CommandsAreMeant ==
  busy.kind \notin {None, "open"} =>
    /\ busy.item = busy.shown
    /\ busy.kind \in Confirmations => busy.ticked = busy.item
    /\ busy.kind = "verify" =>
         busy.ticked = busy.value /\ (busy.detail = busy.value \/ Replaced(busy.detail, busy.value))
    /\ busy.kind \in OnValue => busy.value[1] = busy.item
=============================================================================
