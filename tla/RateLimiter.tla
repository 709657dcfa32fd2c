---------------------------- MODULE RateLimiter ----------------------------
(***************************************************************************)
(* The sliding-window limiter (ratelimit.go) behind /v1/issue and          *)
(* /v1/redeem, and the sweep that main.go runs every ten minutes.          *)
(*                                                                         *)
(* Allow and Sweep read the clock before they take the lock, so calls get  *)
(* the lock in another order than they read the clock, and as late as the  *)
(* scheduler pleases.  The events of a bucket are the calls that appended  *)
(* them; an event's timestamp is what its call read, and the bucket is in  *)
(* the order of the appends.                                               *)
(***************************************************************************)
EXTENDS Naturals, FiniteSets

CONSTANTS
  Calls,   \* calls of Allow
  Keys,    \* device|config, or client address
  KeyOf,   \* the key of each call
  LimitOf, \* the limit of each call, above zero
  Window,  \* 1h in the code
  Sweeps,  \* runs of Sweep
  MaxTime  \* bound on the clock

ASSUME LimiterAssumption ==
  /\ IsFiniteSet(Calls)
  /\ Calls \cap Sweeps = {}
  /\ KeyOf \in [Calls -> Keys]
  /\ LimitOf \in [Calls -> Nat \ {0}]
  /\ Window \in Nat \ {0}
  /\ MaxTime \in Nat

VARIABLES
  now,     \* the clock
  entries, \* rateLimiter.entries: the buckets of the keys that have one
  pc,      \* per call and sweep: "idle", "read", then "allowed", "denied", "done"
  readAt,  \* per call and sweep: the time it read
  grants,  \* number of events appended so far
  turn,    \* per call: its place among the appends; if denied, those before it
  doneAt,  \* history: the time a call got its answer
  retryAt  \* per call: the time it was told to come back at

vars == <<now, entries, pc, readAt, grants, turn, doneAt, retryAt>>

Threads == Calls \cup Sweeps

Init ==
  /\ now = 0
  /\ entries = [k \in {} |-> {}]
  /\ pc = [t \in Threads |-> "idle"]
  /\ readAt = [t \in Threads |-> 0]
  /\ grants = 0
  /\ turn = [c \in Calls |-> 0]
  /\ doneAt = [c \in Calls |-> 0]
  /\ retryAt = [c \in Calls |-> 0]

ReadClock(t) ==
  /\ pc[t] = "idle"
  /\ pc' = [pc EXCEPT ![t] = "read"]
  /\ readAt' = [readAt EXCEPT ![t] = now]
  /\ UNCHANGED <<now, entries, grants, turn, doneAt, retryAt>>

\* ts.After(now.Add(-window))
Recent(t, events) == {e \in events : readAt[e] + Window > readAt[t]}

Bucket(k) == IF k \in DOMAIN entries THEN entries[k] ELSE {}
Trimmed(c) == Recent(c, Bucket(KeyOf[c]))

\* bucket[0]
First(events) == CHOOSE e \in events : \A f \in events : turn[e] <= turn[f]

Store(k, events) ==
  entries' = [j \in DOMAIN entries \cup {k} |->
                IF j = k THEN events ELSE entries[j]]

Grant(c) ==
  /\ pc[c] = "read"
  /\ Cardinality(Trimmed(c)) < LimitOf[c]
  /\ Store(KeyOf[c], Trimmed(c) \cup {c})
  /\ pc' = [pc EXCEPT ![c] = "allowed"]
  /\ grants' = grants + 1
  /\ turn' = [turn EXCEPT ![c] = grants + 1]
  /\ doneAt' = [doneAt EXCEPT ![c] = now]
  /\ UNCHANGED <<now, readAt, retryAt>>

\* Fault: one second, the least there is, whatever the bucket.
DenyOneSecond(c) ==
  /\ pc[c] = "read"
  /\ Cardinality(Trimmed(c)) >= LimitOf[c]
  /\ Store(KeyOf[c], Trimmed(c))
  /\ pc' = [pc EXCEPT ![c] = "denied"]
  /\ turn' = [turn EXCEPT ![c] = grants]
  /\ doneAt' = [doneAt EXCEPT ![c] = now]
  /\ retryAt' = [retryAt EXCEPT ![c] = readAt[c] + 1]
  /\ UNCHANGED <<now, readAt, grants>>

\* Fault: a denied call counts as an event.
DenyCounts(c) ==
  /\ pc[c] = "read"
  /\ Cardinality(Trimmed(c)) >= LimitOf[c]
  /\ Store(KeyOf[c], Trimmed(c) \cup {c})
  /\ pc' = [pc EXCEPT ![c] = "denied"]
  /\ turn' = [turn EXCEPT ![c] = grants]
  /\ doneAt' = [doneAt EXCEPT ![c] = now]
  /\ retryAt' = [retryAt EXCEPT ![c] = readAt[First(Trimmed(c))] + Window]
  /\ UNCHANGED <<now, readAt, grants>>

\* RetryAfter is what is left of the window of bucket[0], from the time read.
Deny(c) ==
  /\ pc[c] = "read"
  /\ Cardinality(Trimmed(c)) >= LimitOf[c]
  /\ Store(KeyOf[c], Trimmed(c))
  /\ pc' = [pc EXCEPT ![c] = "denied"]
  /\ turn' = [turn EXCEPT ![c] = grants]
  /\ doneAt' = [doneAt EXCEPT ![c] = now]
  /\ retryAt' = [retryAt EXCEPT ![c] = readAt[First(Trimmed(c))] + Window]
  /\ UNCHANGED <<now, readAt, grants>>

\* Fault: a key is dropped once its first event is out of the window.
SweepFirst(s) ==
  /\ pc[s] = "read"
  /\ entries' = [k \in {j \in DOMAIN entries : entries[j] # {}
                          /\ Recent(s, {First(entries[j])}) # {}} |-> entries[k]]
  /\ pc' = [pc EXCEPT ![s] = "done"]
  /\ UNCHANGED <<now, readAt, grants, turn, doneAt, retryAt>>

\* Keys without a recent event are dropped.
Sweep(s) ==
  /\ pc[s] = "read"
  /\ entries' = [k \in {j \in DOMAIN entries : Recent(s, entries[j]) # {}} |->
                   entries[k]]
  /\ pc' = [pc EXCEPT ![s] = "done"]
  /\ UNCHANGED <<now, readAt, grants, turn, doneAt, retryAt>>

Tick ==
  /\ now < MaxTime
  /\ now' = now + 1
  /\ UNCHANGED <<entries, pc, readAt, grants, turn, doneAt, retryAt>>

\* Nobody has to call.
Done ==
  /\ now = MaxTime
  /\ \A t \in Threads : pc[t] # "read"
  /\ UNCHANGED vars

Allow(c) == Grant(c) \/ Deny(c)

Next ==
  \/ \E t \in Threads : ReadClock(t)
  \/ \E c \in Calls : Allow(c)
  \/ \E s \in Sweeps : Sweep(s)
  \/ Tick
  \/ Done

Spec == Init /\ [][Next]_vars

(***************************************************************************)
(* What must hold                                                          *)
(***************************************************************************)
Allowed == {c \in Calls : pc[c] = "allowed"}

\* Types, and that a bucket holds only calls for its key that were allowed.
TypeOK ==
  /\ now \in Nat
  /\ DOMAIN entries \subseteq Keys
  /\ \A k \in DOMAIN entries : entries[k] \subseteq {c \in Allowed : KeyOf[c] = k}
  /\ pc \in [Threads -> {"idle", "read", "allowed", "denied", "done"}]
  /\ readAt \in [Threads -> Nat]
  /\ grants \in Nat
  /\ turn \in [Calls -> Nat]
  /\ doneAt \in [Calls -> Nat]
  /\ retryAt \in [Calls -> Nat]

\* The events of c's key that were appended before c and were stamped less
\* than a window before c got its answer.
Ahead(c) ==
  {e \in Allowed : /\ KeyOf[e] = KeyOf[c]
                   /\ turn[e] < turn[c]
                   /\ readAt[e] + Window > doneAt[c]}

\* A call is allowed only if fewer than its limit were, in the window that ends
\* when it is answered, however old the time it read, whatever calls that read
\* a later time have trimmed before it, and whatever was swept.
WithinLimit == \A c \in Allowed : Cardinality(Ahead(c)) < LimitOf[c]

\* The events that were in c's bucket, and in the window, when c was denied.
Blocking(c) ==
  {e \in Allowed : /\ KeyOf[e] = KeyOf[c]
                   /\ turn[e] <= turn[c]
                   /\ readAt[e] + Window > doneAt[c]}

\* No call for c's key has a higher limit.
Highest(c) == \A e \in Calls : KeyOf[e] = KeyOf[c] => LimitOf[e] <= LimitOf[c]

\* RetryAfter is enough: a denied call that comes back when it was told finds
\* room for it, unless others came in between or it came under a lower limit
\* than others.
RetrySuffices ==
  \A c \in Calls :
    pc[c] = "denied" /\ Highest(c) =>
      Cardinality({e \in Blocking(c) : readAt[e] + Window > retryAt[c]}) < LimitOf[c]
=============================================================================
