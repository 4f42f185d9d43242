----------------------------- MODULE RateLimiter -----------------------------
(***************************************************************************)
(* The request limits of one API process: a table of buckets, one per       *)
(* address for all of its requests and one for its sensitive requests, that *)
(* is swept now and then and holds no more than MaxBuckets.                  *)
(***************************************************************************)
EXTENDS Integers, Sequences, FiniteSets

CONSTANTS
  Addresses,
  Limit, SensitiveLimit,  \* requests per window
  Window,                 \* 60000 ms in the code
  MaxBuckets,             \* 30000 in the code
  MaxTime                 \* bound: the clock

VARIABLES
  now,
  buckets,      \* the Map: from some keys to their buckets
  nextCleanup,
  served        \* per key: when its requests were passed on

vars == <<now, buckets, nextCleanup, served>>

Keys == {"api", "sensitive"} \X Addresses

Maximum(k) == IF k[1] = "api" THEN Limit ELSE SensitiveLimit

Init ==
  /\ now = 0 /\ nextCleanup = 0
  /\ buckets = <<>> /\ served = [k \in Keys |-> <<>>]

Tick == now < MaxTime /\ now' = now + 1 /\ UNCHANGED <<buckets, nextCleanup, served>>

(* Mutant of Lives: a bucket lives one tick less.                           *)
LivesShort(b) == b.expires - 1 > now

Lives(b) == b.expires > now

Swept ==
  IF now < nextCleanup THEN buckets
  ELSE [k \in {j \in DOMAIN buckets : Lives(buckets[j])} |-> buckets[k]]

(* Mutant of Full: the table grows.                                         *)
FullNever(bs) == FALSE

Full(bs) == Cardinality(DOMAIN bs) >= MaxBuckets

(* A request of a key in a table: counted in the bucket of the key, or in a *)
(* new one in its place, unless there is neither a place nor room.          *)
Counted(bs, k) ==
  IF k \in DOMAIN bs /\ Lives(bs[k]) THEN [bs EXCEPT ![k].count = @ + 1]
  ELSE IF k \notin DOMAIN bs /\ Full(bs) THEN bs
  ELSE [j \in DOMAIN bs \cup {k} |-> IF j = k THEN [count |-> 1, expires |-> now + Window] ELSE bs[j]]

Passes(bs, k) == k \in DOMAIN bs /\ bs[k].count <= Maximum(k)

(* The path decides whether the request is sensitive.  The count for the    *)
(* address stands even if the count for its sensitive requests refuses.     *)
Handle(a, sensitive) ==
  LET api == <<"api", a>>  sen == <<"sensitive", a>>
      first == Counted(Swept, api)
      second == IF sensitive /\ Passes(first, api) THEN Counted(first, sen) ELSE first
      keys == IF sensitive THEN {api, sen} ELSE {api}
  IN
  /\ buckets' = second
  /\ nextCleanup' = IF now < nextCleanup THEN nextCleanup ELSE now + Window
  /\ served' = IF \A k \in keys : Passes(second, k)
               THEN [k \in Keys |-> IF k \in keys THEN Append(served[k], now) ELSE served[k]]
               ELSE served
  /\ UNCHANGED now

Next == Tick \/ \E a \in Addresses, sensitive \in BOOLEAN : Handle(a, sensitive)

Spec == Init /\ [][Next]_vars

(* Bound: a bucket counts no further than one beyond its maximum.           *)
Bound == \A k \in DOMAIN buckets : buckets[k].count <= Maximum(k) + 1
-----------------------------------------------------------------------------
(* Properties                                                               *)

(* Whenever the table is swept or a bucket replaced, no address is passed   *)
(* on more than its limit in one window nor, since windows follow each      *)
(* other, more than twice its limit in any span of that length.             *)
ServedIsLimited ==
  \A k \in Keys : \A i \in DOMAIN served[k] :
    i > 2 * Maximum(k) => served[k][i] - served[k][i - 2 * Maximum(k)] > Window

(* "A bounded per-process safety limit" (security.middleware.ts:6): the     *)
(* table never outgrows its limit, and what fills it is gone a window after *)
(* it expired at the latest, so that new addresses find room again.         *)
MemoryIsBounded ==
  /\ Cardinality(DOMAIN buckets) <= MaxBuckets
  /\ \A k \in DOMAIN buckets : buckets[k].expires > nextCleanup - Window
=============================================================================
