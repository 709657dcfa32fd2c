-------------------------- MODULE RateLimiterProofs --------------------------
(***************************************************************************)
(* Proofs about RateLimiter, for any calls, keys, limits and sweeps.       *)
(*                                                                         *)
(* The argument.  Whoever trims a bucket has read a time that has come, so *)
(* an event that is still in the window now was trimmed by nobody and its  *)
(* key was not swept (Kept).  A call counts all of them before it is       *)
(* allowed.                                                                *)
(***************************************************************************)
EXTENDS RateLimiter, FiniteSetTheorems, WellFoundedInduction, TLAPS

\* Times that were read have come; appends are numbered.
Ordered ==
  /\ \A t \in Threads : readAt[t] <= now
  /\ \A c \in Calls : doneAt[c] <= now /\ turn[c] <= grants

\* An event in the window is in its bucket.
Kept ==
  \A e \in Allowed : readAt[e] + Window > now => e \in Bucket(KeyOf[e])

LEMMA InitInv == Init => TypeOK /\ Ordered /\ Kept /\ WithinLimit /\ RetrySuffices
  BY DEF Init, TypeOK, Ordered, Kept, Allowed, WithinLimit, RetrySuffices, Threads

LEMMA BucketType ==
  ASSUME TypeOK, NEW k \in Keys
  PROVE  /\ Bucket(k) \subseteq {c \in Allowed : KeyOf[c] = k}
         /\ IsFiniteSet(Bucket(k))
         /\ Cardinality(Bucket(k)) \in Nat
  <1>1. Bucket(k) \subseteq {c \in Allowed : KeyOf[c] = k}
    BY DEF TypeOK, Bucket
  <1>2. Bucket(k) \in SUBSET Calls
    BY <1>1 DEF Allowed
  <1>3. QED
    BY <1>1, <1>2, FS_Subset, FS_CardinalityType, LimiterAssumption

\* What is recent to a call is finite and part of its bucket.
LEMMA TrimmedType ==
  ASSUME TypeOK, NEW c \in Calls
  PROVE  /\ Trimmed(c) \subseteq Bucket(KeyOf[c])
         /\ Trimmed(c) \subseteq {e \in Allowed : KeyOf[e] = KeyOf[c]}
         /\ IsFiniteSet(Trimmed(c))
         /\ Cardinality(Trimmed(c)) \in Nat
         /\ Cardinality(Trimmed(c)) <= Cardinality(Bucket(KeyOf[c]))
  <1>1. KeyOf[c] \in Keys
    BY LimiterAssumption
  <1>2. Trimmed(c) \subseteq Bucket(KeyOf[c])
    BY DEF Trimmed, Recent
  <1>3. QED
    BY <1>1, <1>2, BucketType, FS_Subset, FS_CardinalityType

\* The oldest place in a bucket is someone's.
LEMMA FirstIn ==
  ASSUME TypeOK, NEW events \in SUBSET Calls, events # {}
  PROVE  First(events) \in events
  <1> DEFINE turns == {turn[e] : e \in events}
  <1>1. turns \subseteq Nat /\ turns # {}
    BY DEF TypeOK
  <1>2. PICK n \in turns : \A m \in turns : ~(<<m, n>> \in OpToRel(<, Nat))
    <2> HIDE DEF turns
    <2>1. QED
      BY <1>1, WFMin, NatLessThanWellFounded
  <1>3. \A m \in turns : n <= m
    <2>1. TAKE m \in turns
    <2>2. m \in Nat /\ n \in Nat
      BY <1>1
    <2>3. ~(m < n)
      BY <1>2, <2>2 DEF OpToRel
    <2>4. QED
      BY <2>2, <2>3
  <1>4. \E e \in events : \A f \in events : turn[e] <= turn[f]
    BY <1>3
  <1>5. QED
    BY <1>4 DEF First

(***************************************************************************)
(* Types and the order of times                                            *)
(***************************************************************************)
LEMMA StoreType ==
  ASSUME TypeOK, NEW k \in Keys, NEW events, Store(k, events),
         \A e \in Allowed : e \in Allowed',
         events \subseteq {c \in Allowed' : KeyOf[c] = k}
  PROVE  /\ DOMAIN entries' \subseteq Keys
         /\ \A j \in DOMAIN entries' :
              entries'[j] \subseteq {c \in Allowed' : KeyOf[c] = j}
         /\ Bucket(k)' = events
         /\ \A j \in Keys : j # k => Bucket(j)' = Bucket(j)
  BY DEF TypeOK, Store, Bucket

\* A grant leaves the trimmed bucket and the event of the call.
LEMMA GrantStore ==
  ASSUME TypeOK, NEW c \in Calls, Grant(c)
  PROVE  /\ Allowed' = Allowed \cup {c} /\ c \notin Allowed
         /\ Bucket(KeyOf[c])' = Trimmed(c) \cup {c}
         /\ \A j \in Keys : j # KeyOf[c] => Bucket(j)' = Bucket(j)
         /\ TypeOK'
  <1>1. /\ c \in Threads /\ KeyOf[c] \in Keys /\ pc' = [pc EXCEPT ![c] = "allowed"]
        /\ pc[c] = "read" /\ Store(KeyOf[c], Trimmed(c) \cup {c})
    BY LimiterAssumption DEF Grant, Threads
  <1>2. Allowed' = Allowed \cup {c} /\ c \notin Allowed
    BY <1>1 DEF Allowed, TypeOK, Threads
  <1>3. Trimmed(c) \cup {c} \subseteq {e \in Allowed' : KeyOf[e] = KeyOf[c]}
    BY <1>2, TrimmedType
  <1>4. /\ DOMAIN entries' \subseteq Keys
        /\ \A j \in DOMAIN entries' :
             entries'[j] \subseteq {e \in Allowed' : KeyOf[e] = j}
        /\ Bucket(KeyOf[c])' = Trimmed(c) \cup {c}
        /\ \A j \in Keys : j # KeyOf[c] => Bucket(j)' = Bucket(j)
    BY <1>1, <1>2, <1>3, StoreType
  <1>5. QED
    BY <1>1, <1>2, <1>4 DEF Grant, TypeOK

\* A denial leaves the trimmed bucket.
LEMMA DenyStore ==
  ASSUME TypeOK, NEW c \in Calls, Deny(c)
  PROVE  /\ Allowed' = Allowed /\ c \notin Allowed
         /\ Bucket(KeyOf[c])' = Trimmed(c)
         /\ \A j \in Keys : j # KeyOf[c] => Bucket(j)' = Bucket(j)
         /\ Trimmed(c) # {} /\ First(Trimmed(c)) \in Trimmed(c)
         /\ TypeOK'
  <1>1. /\ c \in Threads /\ KeyOf[c] \in Keys /\ pc' = [pc EXCEPT ![c] = "denied"]
        /\ pc[c] = "read" /\ Store(KeyOf[c], Trimmed(c))
    BY LimiterAssumption DEF Deny, Threads
  <1>2. Allowed' = Allowed /\ c \notin Allowed
    BY <1>1 DEF Allowed, TypeOK, Threads
  <1>3. /\ DOMAIN entries' \subseteq Keys
        /\ \A j \in DOMAIN entries' :
             entries'[j] \subseteq {e \in Allowed' : KeyOf[e] = j}
        /\ Bucket(KeyOf[c])' = Trimmed(c)
        /\ \A j \in Keys : j # KeyOf[c] => Bucket(j)' = Bucket(j)
    BY <1>1, <1>2, TrimmedType, StoreType
  <1>4. Trimmed(c) # {}
    <2>1. LimitOf[c] \in Nat \ {0} /\ Cardinality(Trimmed(c)) >= LimitOf[c]
      BY LimiterAssumption DEF Deny
    <2>2. Cardinality(Trimmed(c)) # 0
      BY <2>1, TrimmedType
    <2>3. QED
      BY <2>2, FS_EmptySet
  <1>5. Trimmed(c) \in SUBSET Calls
    BY TrimmedType DEF Allowed
  <1>6. First(Trimmed(c)) \in Trimmed(c)
    BY <1>4, <1>5, FirstIn
  <1>7. readAt[First(Trimmed(c))] + Window \in Nat
    BY <1>5, <1>6, LimiterAssumption DEF TypeOK, Threads
  <1>8. QED
    BY <1>1, <1>2, <1>3, <1>4, <1>6, <1>7 DEF Deny, TypeOK

\* A sweep leaves buckets alone or drops them.
LEMMA SweepStore ==
  ASSUME TypeOK, NEW s \in Sweeps, Sweep(s)
  PROVE  /\ Allowed' = Allowed
         /\ \A k \in Keys : Recent(s, Bucket(k)) # {} => Bucket(k)' = Bucket(k)
         /\ \A k \in Keys : Bucket(k)' = Bucket(k) \/ Bucket(k)' = {}
         /\ TypeOK'
  <1>1. s \in Threads /\ pc' = [pc EXCEPT ![s] = "done"] /\ s \notin Calls
    BY LimiterAssumption DEF Sweep, Threads
  <1>2. Allowed' = Allowed
    BY <1>1 DEF Allowed, TypeOK, Threads
  <1>3. entries' = [k \in {j \in DOMAIN entries : Recent(s, entries[j]) # {}} |->
                      entries[k]]
    BY DEF Sweep
  <1>4. \A k \in Keys : Recent(s, Bucket(k)) # {} => Bucket(k)' = Bucket(k)
    BY <1>3 DEF Bucket, Recent
  <1>5. \A k \in Keys : Bucket(k)' = Bucket(k) \/ Bucket(k)' = {}
    BY <1>3 DEF Bucket
  <1>6. QED
    BY <1>1, <1>2, <1>3, <1>4, <1>5 DEF Sweep, TypeOK

LEMMA TypeStep == TypeOK /\ [Next]_vars => TypeOK'
  <1> SUFFICES ASSUME TypeOK, [Next]_vars
               PROVE  TypeOK'
    OBVIOUS
  <1>1. ASSUME NEW t \in Threads, ReadClock(t)
        PROVE  TypeOK'
    BY <1>1 DEF ReadClock, TypeOK, Allowed, Threads
  <1>2. ASSUME NEW c \in Calls, Grant(c)
        PROVE  TypeOK'
    BY <1>2, GrantStore
  <1>3. ASSUME NEW c \in Calls, Deny(c)
        PROVE  TypeOK'
    BY <1>3, DenyStore
  <1>4. ASSUME NEW s \in Sweeps, Sweep(s)
        PROVE  TypeOK'
    BY <1>4, SweepStore
  <1>5. CASE Tick
    BY <1>5 DEF Tick, TypeOK, Allowed
  <1>6. CASE Done \/ UNCHANGED vars
    BY <1>6 DEF Done, vars, TypeOK, Allowed
  <1>7. QED
    BY <1>1, <1>2, <1>3, <1>4, <1>5, <1>6 DEF Next, Allow

LEMMA OrderedStep == TypeOK /\ Ordered /\ [Next]_vars => Ordered'
  <1> SUFFICES ASSUME TypeOK, Ordered, [Next]_vars
               PROVE  Ordered'
    OBVIOUS
  <1> USE DEF TypeOK, Ordered, Threads
  <1>1. ASSUME NEW t \in Threads, ReadClock(t)
        PROVE  Ordered'
    BY <1>1 DEF ReadClock
  <1>2. ASSUME NEW c \in Calls, Allow(c)
        PROVE  Ordered'
    BY <1>2 DEF Allow, Grant, Deny
  <1>3. ASSUME NEW s \in Sweeps, Sweep(s)
        PROVE  Ordered'
    BY <1>3 DEF Sweep
  <1>4. CASE Tick
    BY <1>4 DEF Tick
  <1>5. CASE Done \/ UNCHANGED vars
    BY <1>5 DEF Done, vars
  <1>6. QED
    BY <1>1, <1>2, <1>3, <1>4, <1>5 DEF Next

LEMMA KeptStep == TypeOK /\ Ordered /\ Kept /\ [Next]_vars => Kept'
  <1> SUFFICES ASSUME TypeOK, Ordered, Kept, [Next]_vars
               PROVE  Kept'
    OBVIOUS
  <1>1. ASSUME NEW t \in Threads, ReadClock(t)
        PROVE  Kept'
    BY <1>1 DEF ReadClock, Kept, Allowed, Bucket, TypeOK, Threads
  <1>2. ASSUME NEW c \in Calls, NEW e \in Allowed, readAt[e] + Window > now
        PROVE  KeyOf[e] = KeyOf[c] => e \in Trimmed(c)
    <2>1. /\ readAt[c] \in Nat /\ readAt[e] \in Nat /\ now \in Nat
          /\ Window \in Nat /\ readAt[c] <= now
      BY LimiterAssumption DEF TypeOK, Ordered, Threads, Allowed
    <2>2. readAt[e] + Window > readAt[c]
      BY <1>2, <2>1
    <2>3. QED
      BY <1>2, <2>2 DEF Kept, Trimmed, Recent
  <1>3. ASSUME NEW c \in Calls, Grant(c)
        PROVE  Kept'
    <2>1. \A e \in Allowed' : KeyOf[e] \in Keys
      BY LimiterAssumption DEF Allowed
    <2>2. now' = now /\ readAt' = readAt
      BY <1>3 DEF Grant
    <2>3. QED
      BY <1>2, <1>3, <2>1, <2>2, GrantStore DEF Kept
  <1>4. ASSUME NEW c \in Calls, Deny(c)
        PROVE  Kept'
    <2>1. \A e \in Allowed' : KeyOf[e] \in Keys
      BY LimiterAssumption DEF Allowed
    <2>2. now' = now /\ readAt' = readAt
      BY <1>4 DEF Deny
    <2>3. QED
      BY <1>2, <1>4, <2>1, <2>2, DenyStore DEF Kept
  <1>5. ASSUME NEW s \in Sweeps, Sweep(s)
        PROVE  Kept'
    <2>1. now' = now /\ readAt' = readAt
      BY <1>5 DEF Sweep
    <2>2. ASSUME NEW e \in Allowed, readAt[e] + Window > now
          PROVE  e \in Recent(s, Bucket(KeyOf[e]))
      <3>1. /\ readAt[s] \in Nat /\ readAt[e] \in Nat /\ now \in Nat
            /\ Window \in Nat /\ readAt[s] <= now
        BY LimiterAssumption DEF TypeOK, Ordered, Threads, Allowed
      <3>2. readAt[e] + Window > readAt[s]
        BY <2>2, <3>1
      <3>3. QED
        BY <2>2, <3>2 DEF Kept, Recent
    <2>3. \A e \in Allowed' : KeyOf[e] \in Keys
      BY LimiterAssumption DEF Allowed
    <2>4. QED
      BY <1>5, <2>1, <2>2, <2>3, SweepStore DEF Kept
  <1>6. CASE Tick
    <2>1. \A e \in Allowed : readAt[e] \in Nat
      BY DEF Allowed, TypeOK, Threads
    <2>2. QED
      BY <1>6, <2>1, LimiterAssumption DEF Tick, Kept, Allowed, Bucket, TypeOK
  <1>7. CASE Done \/ UNCHANGED vars
    BY <1>7 DEF Done, vars, Kept, Allowed, Bucket
  <1>8. QED
    BY <1>1, <1>3, <1>4, <1>5, <1>6, <1>7 DEF Next, Allow

(***************************************************************************)
(* What was ahead of a call when it got its answer stays as it was.        *)
(***************************************************************************)
Answered == {c \in Calls : pc[c] \in {"allowed", "denied"}}

\* An allowed call stays allowed, and only an append makes another one.
LEMMA AllowedStep ==
  ASSUME TypeOK, [Next]_vars
  PROVE  /\ \A e \in Allowed : /\ e \in Allowed'
                               /\ readAt'[e] = readAt[e] /\ turn'[e] = turn[e]
         /\ \A e \in Allowed' : e \in Allowed \/ turn'[e] = grants + 1
  <1> DEFINE P == /\ \A e \in Allowed : /\ e \in Allowed'
                                       /\ readAt'[e] = readAt[e] /\ turn'[e] = turn[e]
                  /\ \A e \in Allowed' : e \in Allowed \/ turn'[e] = grants + 1
  <1>1. ASSUME NEW t \in Threads, ReadClock(t)
        PROVE  P
    BY <1>1 DEF ReadClock, Allowed, TypeOK, Threads
  <1>2. ASSUME NEW c \in Calls, Grant(c)
        PROVE  P
    <2>1. /\ Allowed' = Allowed \cup {c} /\ c \notin Allowed
          /\ readAt' = readAt /\ turn' = [turn EXCEPT ![c] = grants + 1]
      BY <1>2, GrantStore DEF Grant
    <2>2. QED
      BY <2>1 DEF TypeOK, Allowed
  <1>3. ASSUME NEW c \in Calls, Deny(c)
        PROVE  P
    <2>1. /\ Allowed' = Allowed /\ c \notin Allowed
          /\ readAt' = readAt /\ turn' = [turn EXCEPT ![c] = grants]
      BY <1>3, DenyStore DEF Deny
    <2>2. QED
      BY <2>1 DEF TypeOK, Allowed
  <1>4. ASSUME NEW s \in Sweeps, Sweep(s)
        PROVE  P
    <2>1. Allowed' = Allowed /\ readAt' = readAt /\ turn' = turn
      BY <1>4, SweepStore DEF Sweep
    <2>2. QED
      BY <2>1
  <1>5. CASE Tick \/ Done \/ UNCHANGED vars
    BY <1>5 DEF Tick, Done, vars, Allowed
  <1>6. QED
    BY <1>1, <1>2, <1>3, <1>4, <1>5 DEF Next, Allow

LEMMA AnswersStay ==
  ASSUME TypeOK, Ordered, [Next]_vars, NEW c \in Answered
  PROVE  /\ pc'[c] = pc[c] /\ retryAt'[c] = retryAt[c]
         /\ pc[c] = "allowed" => Ahead(c)' = Ahead(c)
         /\ Blocking(c)' = Blocking(c)
         /\ \A e \in Allowed : readAt'[e] = readAt[e]
  <1> USE DEF Answered
  <1>1. c \in Calls /\ c \in Threads
    BY DEF Threads
  <1>2. /\ pc'[c] = pc[c] /\ turn'[c] = turn[c] /\ doneAt'[c] = doneAt[c]
        /\ retryAt'[c] = retryAt[c]
    BY <1>1 DEF Next, Allow, ReadClock, Grant, Deny, Sweep, Tick, Done, vars,
                TypeOK, Threads
  <1>3. \A e \in Allowed : /\ e \in Allowed'
                           /\ readAt'[e] = readAt[e] /\ turn'[e] = turn[e]
    BY AllowedStep
  <1>4. \A e \in Allowed' : e \in Allowed \/ turn'[e] = grants + 1
    BY AllowedStep
  <1>5. turn[c] <= grants /\ turn[c] \in Nat /\ grants \in Nat
    BY <1>1 DEF Ordered, TypeOK
  <1>6. ~(grants + 1 <= turn[c]) /\ ~(grants + 1 < turn[c])
    BY <1>5
  <1>7. \A e \in Allowed' : turn'[e] <= turn'[c] \/ turn'[e] < turn'[c] => e \in Allowed
    BY <1>2, <1>4, <1>6
  <1>8. Ahead(c)' = Ahead(c) /\ Blocking(c)' = Blocking(c)
    BY <1>2, <1>3, <1>7 DEF Ahead, Blocking
  <1>9. QED
    BY <1>2, <1>3, <1>8

LEMMA WithinStep ==
  TypeOK /\ Ordered /\ Kept /\ WithinLimit /\ [Next]_vars => WithinLimit'
  <1> SUFFICES ASSUME TypeOK, Ordered, Kept, WithinLimit, [Next]_vars,
                      NEW c \in Allowed'
               PROVE  Cardinality(Ahead(c)') < LimitOf[c]
    BY DEF WithinLimit
  <1>1. CASE c \in Allowed
    <2>1. Ahead(c)' = Ahead(c)
      BY <1>1, AnswersStay DEF Answered, Allowed
    <2>2. QED
      BY <1>1, <2>1 DEF WithinLimit
  <1>2. CASE c \notin Allowed
    <2>1. c \in Calls
      BY DEF Allowed
    <2>2. Grant(c)
      BY <1>2, <2>1, LimiterAssumption
      DEF Next, Allow, ReadClock, Grant, Deny, Sweep, Tick, Done, vars, TypeOK,
          Threads, Allowed
    <2>3. /\ doneAt'[c] = now /\ turn'[c] = grants + 1 /\ readAt' = readAt
          /\ Cardinality(Trimmed(c)) < LimitOf[c]
      BY <2>1, <2>2 DEF Grant, TypeOK
    <2>4. Ahead(c)' \subseteq Trimmed(c)
      <3> SUFFICES ASSUME NEW e \in Ahead(c)'
                   PROVE  e \in Trimmed(c)
        OBVIOUS
      <3>1. e # c /\ e \in Allowed /\ KeyOf[e] = KeyOf[c]
        <4>1. e \in Allowed' /\ turn'[e] < turn'[c] /\ KeyOf[e] = KeyOf[c]
          BY DEF Ahead
        <4>2. e # c
          BY <2>3, <4>1 DEF TypeOK
        <4>3. QED
          BY <2>1, <2>2, <4>1, <4>2, GrantStore
      <3>2. readAt[e] + Window > now
        BY <2>3 DEF Ahead
      <3>3. /\ readAt[c] \in Nat /\ readAt[e] \in Nat /\ now \in Nat
            /\ Window \in Nat /\ readAt[c] <= now
        BY <2>1, <3>1, LimiterAssumption DEF TypeOK, Ordered, Threads, Allowed
      <3>4. readAt[e] + Window > readAt[c]
        BY <3>2, <3>3
      <3>5. QED
        BY <3>1, <3>2, <3>4 DEF Kept, Trimmed, Recent
    <2>5. /\ Cardinality(Ahead(c)') <= Cardinality(Trimmed(c))
          /\ Cardinality(Ahead(c)') \in Nat
      BY <2>1, <2>4, TrimmedType, FS_Subset, FS_CardinalityType
    <2>6. QED
      BY <2>1, <2>3, <2>5, TrimmedType, LimiterAssumption
  <1>3. QED
    BY <1>1, <1>2

(***************************************************************************)
(* Buckets do not outgrow the highest limit of their key                   *)
(***************************************************************************)
Bounds(k) == {L \in Nat : \A e \in Calls : KeyOf[e] = k => LimitOf[e] <= L}

Full == \A k \in Keys : \A L \in Bounds(k) : Cardinality(Bucket(k)) <= L

LEMMA InitFull == Init => Full
  BY FS_EmptySet DEF Init, Full, Bucket, Bounds

LEMMA FullStep ==
  ASSUME TypeOK, Full, [Next]_vars
  PROVE  Full'
  <1> SUFFICES ASSUME NEW k \in Keys, NEW L \in Bounds(k)
               PROVE  Cardinality(Bucket(k)') <= L
    BY DEF Full, Bounds
  <1>0. Cardinality(Bucket(k)) <= L /\ L \in Nat
    BY DEF Full, Bounds
  <1>1. ASSUME NEW t \in Threads, ReadClock(t)
        PROVE  Cardinality(Bucket(k)') <= L
    BY <1>0, <1>1 DEF ReadClock, Bucket
  <1>2. ASSUME NEW c \in Calls, Grant(c)
        PROVE  Cardinality(Bucket(k)') <= L
    <2>1. CASE KeyOf[c] # k
      BY <1>0, <1>2, <2>1, GrantStore
    <2>2. CASE KeyOf[c] = k
      <3>1. LimitOf[c] <= L /\ LimitOf[c] \in Nat
        BY <2>2, LimiterAssumption DEF Bounds
      <3>2. Cardinality(Trimmed(c)) < LimitOf[c] /\ Cardinality(Trimmed(c)) \in Nat
        BY <1>2, TrimmedType DEF Grant
      <3>3. \/ Cardinality(Trimmed(c) \cup {c}) = Cardinality(Trimmed(c))
            \/ Cardinality(Trimmed(c) \cup {c}) = Cardinality(Trimmed(c)) + 1
        BY TrimmedType, FS_AddElement
      <3>4. Cardinality(Trimmed(c) \cup {c}) <= L
        BY <1>0, <3>1, <3>2, <3>3
      <3>5. QED
        BY <1>2, <2>2, <3>4, GrantStore
    <2>3. QED
      BY <2>1, <2>2
  <1>3. ASSUME NEW c \in Calls, Deny(c)
        PROVE  Cardinality(Bucket(k)') <= L
    <2>1. CASE KeyOf[c] # k
      BY <1>0, <1>3, <2>1, DenyStore
    <2>2. CASE KeyOf[c] = k
      <3>1. /\ Cardinality(Trimmed(c)) <= Cardinality(Bucket(KeyOf[c]))
            /\ Cardinality(Trimmed(c)) \in Nat
            /\ Cardinality(Bucket(KeyOf[c])) \in Nat
        BY <2>2, TrimmedType, BucketType
      <3>2. Cardinality(Trimmed(c)) <= L
        BY <1>0, <2>2, <3>1
      <3>3. QED
        BY <1>3, <2>2, <3>2, DenyStore
    <2>3. QED
      BY <2>1, <2>2
  <1>4. ASSUME NEW s \in Sweeps, Sweep(s)
        PROVE  Cardinality(Bucket(k)') <= L
    BY <1>0, <1>4, SweepStore, FS_EmptySet
  <1>5. CASE Tick \/ Done \/ UNCHANGED vars
    BY <1>0, <1>5 DEF Tick, Done, vars, Bucket
  <1>6. QED
    BY <1>1, <1>2, <1>3, <1>4, <1>5 DEF Next, Allow

LEMMA RetryStep ==
  ASSUME TypeOK, Ordered, Kept, Full, RetrySuffices, [Next]_vars
  PROVE  RetrySuffices'
  <1> DEFINE Still(c) == {e \in Blocking(c) : readAt[e] + Window > retryAt[c]}
  <1> SUFFICES ASSUME NEW c \in Calls, pc'[c] = "denied", Highest(c)
               PROVE  Cardinality(Still(c)') < LimitOf[c]
    BY DEF RetrySuffices, Highest
  <1>1. CASE pc[c] = "denied"
    <2>1. c \in Answered
      BY <1>1 DEF Answered
    <2>2. /\ Blocking(c)' = Blocking(c) /\ retryAt'[c] = retryAt[c]
          /\ \A e \in Blocking(c) : readAt'[e] = readAt[e]
      BY <2>1, AnswersStay DEF Blocking
    <2>3. Still(c)' = Still(c)
      BY <2>2
    <2>4. QED
      BY <1>1, <2>3 DEF RetrySuffices
  <1>2. CASE pc[c] # "denied"
    <2>1. Deny(c)
      BY <1>2, LimiterAssumption
      DEF Next, Allow, ReadClock, Grant, Deny, Sweep, Tick, Done, vars, TypeOK,
          Threads
    <2> DEFINE one == First(Trimmed(c))
    <2>2. /\ doneAt'[c] = now /\ readAt' = readAt /\ Allowed' = Allowed
          /\ retryAt'[c] = readAt[one] + Window /\ one \in Trimmed(c)
      BY <2>1, DenyStore DEF Deny, TypeOK
    <2>3. Still(c)' \subseteq Trimmed(c) \ {one}
      <3> SUFFICES ASSUME NEW e \in Still(c)'
                   PROVE  e \in Trimmed(c) /\ e # one
        OBVIOUS
      <3>1. /\ e \in Allowed /\ KeyOf[e] = KeyOf[c]
            /\ readAt[e] + Window > now
            /\ readAt[e] + Window > readAt[one] + Window
        BY <2>2 DEF Blocking
      <3>2. one \in Calls
        BY <2>2, TrimmedType DEF Allowed
      <3>3. /\ readAt[c] \in Nat /\ readAt[e] \in Nat /\ now \in Nat
            /\ readAt[one] \in Nat /\ Window \in Nat /\ readAt[c] <= now
        BY <3>1, <3>2, LimiterAssumption DEF TypeOK, Ordered, Threads, Allowed
      <3>4. readAt[e] + Window > readAt[c] /\ e # one
        BY <3>1, <3>3
      <3>5. QED
        BY <3>1, <3>4 DEF Kept, Trimmed, Recent
    <2>4. /\ Cardinality(Trimmed(c) \ {one}) = Cardinality(Trimmed(c)) - 1
          /\ IsFiniteSet(Trimmed(c) \ {one})
      BY <2>2, TrimmedType, FS_RemoveElement
    <2>5. /\ Cardinality(Still(c)') <= Cardinality(Trimmed(c) \ {one})
          /\ Cardinality(Still(c)') \in Nat
      BY <2>3, <2>4, FS_Subset, FS_CardinalityType
    <2>6. /\ Cardinality(Trimmed(c)) <= Cardinality(Bucket(KeyOf[c]))
          /\ Cardinality(Trimmed(c)) \in Nat
          /\ Cardinality(Bucket(KeyOf[c])) \in Nat
      BY TrimmedType, BucketType, LimiterAssumption
    <2>7. Cardinality(Bucket(KeyOf[c])) <= LimitOf[c] /\ LimitOf[c] \in Nat
      <3>1. KeyOf[c] \in Keys /\ LimitOf[c] \in Nat
        BY LimiterAssumption
      <3>2. LimitOf[c] \in Bounds(KeyOf[c])
        BY <3>1 DEF Bounds, Highest
      <3>3. QED
        BY <3>1, <3>2 DEF Full
    <2>8. QED
      BY <2>4, <2>5, <2>6, <2>7
  <1>3. QED
    BY <1>1, <1>2

(***************************************************************************)
(* The theorems                                                            *)
(***************************************************************************)
\* Buckets hold only allowed calls for their key, whatever the interleaving.
THEOREM LimiterTyping == Spec => []TypeOK
  <1>1. Init => TypeOK
    BY InitInv
  <1>2. QED
    BY <1>1, TypeStep, PTL DEF Spec

\* rateLimiter.Allow never allows a call when its limit has been used up within
\* a window of the time of the answer, with any interleaving of calls that read
\* the clock early and take the lock late, any limits, and any sweeps.
THEOREM LimitHolds == Spec => []WithinLimit
  <1> DEFINE I == TypeOK /\ Ordered /\ Kept /\ WithinLimit
  <1>1. Init => I
    BY InitInv
  <1>2. I /\ [Next]_vars => I'
    BY TypeStep, OrderedStep, KeptStep, WithinStep
  <1>3. QED
    BY <1>1, <1>2, PTL DEF Spec

\* RetryAfter is long enough for a denied call whose limit is the highest of
\* its key, although the bucket need not be in the order of its timestamps.
THEOREM RetryIsEnough == Spec => []RetrySuffices
  <1> DEFINE I == TypeOK /\ Ordered /\ Kept /\ Full /\ RetrySuffices
  <1>1. Init => I
    BY InitInv, InitFull
  <1>2. I /\ [Next]_vars => I'
    BY TypeStep, OrderedStep, KeptStep, FullStep, RetryStep
  <1>3. QED
    BY <1>1, <1>2, PTL DEF Spec
=============================================================================
