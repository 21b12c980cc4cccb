------------------------ MODULE EmbeddingCache_proofs ------------------------
(***************************************************************************)
(* Proofs about EmbeddingCache for every set of threads and signatures and *)
(* every capacity of at least one entry per thread.                        *)
(***************************************************************************)
EXTENDS EmbeddingCache, FiniteSetTheorems, TLAPS

\* move_to_end keeps the length of the cache and the distinctness of its keys.
LEMMA TouchedOK ==
    ASSUME CacheOK, NEW k \in Signatures, Cached(k)
    PROVE  /\ Touched(k) \in Seq(Signatures)
           /\ Len(Touched(k)) = Len(cache)
           /\ \A i, j \in DOMAIN Touched(k) :
                Touched(k)[i] = Touched(k)[j] => i = j
<1> DEFINE at == CHOOSE i \in DOMAIN cache : cache[i] = k
           n == Len(cache)
<1>1. cache \in Seq(Signatures) /\ n \in Nat /\ DOMAIN cache = 1..n
    BY DEF CacheOK
<1>2. at \in 1..n /\ cache[at] = k
    BY <1>1 DEF Cached
<1>3. \A i, j \in 1..n : cache[i] = cache[j] => i = j
    BY <1>1 DEF CacheOK
<1>4. \A i \in 1..n : cache[i] \in Signatures
    BY <1>1
<1> HIDE DEF at
<1>5. Touched(k) = [i \in 1..n |-> IF i < at THEN cache[i]
                                  ELSE IF i < n THEN cache[i + 1] ELSE k]
    BY <1>1 DEF Touched, at
<1>6. \A i \in 1..n : Touched(k)[i] \in Signatures
    BY <1>1, <1>2, <1>4, <1>5
<1>7. Touched(k) \in Seq(Signatures) /\ Len(Touched(k)) = n
    BY <1>1, <1>5, <1>6
<1>8. ASSUME NEW i \in 1..n, NEW j \in 1..n, Touched(k)[i] = Touched(k)[j]
      PROVE  i = j
    BY <1>1, <1>2, <1>3, <1>5, <1>8
<1> QED
    BY <1>1, <1>5, <1>7, <1>8

\* The cache starts empty and well-formed.
LEMMA InitCache == Init => CacheOK
BY DEF Init, CacheOK, Phases

\* Every step keeps the type invariant.
LEMMA NextCache == CacheOK /\ [Next]_vars => CacheOK'
<1> SUFFICES ASSUME CacheOK, [Next]_vars PROVE CacheOK'
    OBVIOUS
<1>1. CASE UNCHANGED vars
    BY <1>1 DEF vars, CacheOK
<1> SUFFICES ASSUME NEW t \in Threads,
                    \/ \E k \in Signatures : Call(t, k)
                    \/ Lookup(t) \/ Touch(t) \/ Read(t) \/ Raise(t)
                    \/ Embed(t) \/ CheckCapacity(t) \/ Evict(t) \/ Store(t)
             PROVE  CacheOK'
    BY <1>1 DEF Next
<1>2. call' \in [Threads -> [pc : Phases, key : Signatures]]
    BY DEF CacheOK, Phases, Call, Lookup, Touch, Read, Raise, Embed,
           CheckCapacity, Evict, Store, Goto
<1>3. call[t].key \in Signatures
    BY DEF CacheOK
<1>4. CASE cache' = cache /\ uses' = uses
    BY <1>2, <1>4 DEF CacheOK
<1>5. CASE Touch(t) /\ Cached(call[t].key)
    <2>1. cache' = Touched(call[t].key) /\ uses' = Append(uses, call[t].key)
        BY <1>5 DEF Touch
    <2>2. uses' \in Seq(Signatures)
        BY <2>1, <1>3 DEF CacheOK
    <2>3. /\ cache' \in Seq(Signatures)
          /\ \A i, j \in DOMAIN cache' : cache'[i] = cache'[j] => i = j
        BY <2>1, <1>3, <1>5, TouchedOK
    <2> QED
        BY <1>2, <2>2, <2>3 DEF CacheOK
<1>6. CASE Evict(t) /\ cache # <<>>
    <2>1. cache' = Tail(cache) /\ uses' = uses
        BY <1>6 DEF Evict, Evicted
    <2>2. /\ cache' \in Seq(Signatures)
          /\ DOMAIN cache' = 1..(Len(cache) - 1)
          /\ \A i \in DOMAIN cache' : cache'[i] = cache[i + 1]
        BY <1>6, <2>1 DEF CacheOK
    <2>3. \A i, j \in 1..Len(cache) : cache[i] = cache[j] => i = j
        BY DEF CacheOK
    <2>4. Len(cache) \in Nat
        BY DEF CacheOK
    <2>5. ASSUME NEW i \in 1..(Len(cache) - 1), NEW j \in 1..(Len(cache) - 1),
                 cache[i + 1] = cache[j + 1]
          PROVE  i = j
        BY <2>3, <2>4, <2>5
    <2> QED
        BY <1>2, <2>1, <2>2, <2>5 DEF CacheOK
<1>7. CASE Store(t)
    BY <1>2, <1>3, <1>7 DEF Store, Stored, Cached, CacheOK
<1> QED
    BY <1>4, <1>5, <1>6, <1>7
    DEF Call, Lookup, Touch, Read, Raise, Embed, CheckCapacity, Evict

\* The history variable is a Boolean.
LEMMA NextOverlap == overlap \in BOOLEAN /\ [Next]_vars => overlap' \in BOOLEAN
<1> SUFFICES ASSUME overlap \in BOOLEAN, [Next]_vars PROVE overlap' \in BOOLEAN
    OBVIOUS
<1>1. CASE overlap' = overlap
    BY <1>1
<1>2. ASSUME NEW t \in Threads, NEW k \in Signatures, Call(t, k)
      PROVE  overlap' \in BOOLEAN
    BY <1>2, Zenon DEF Call
<1> QED
    BY <1>1, <1>2, Zenon
    DEF vars, Next, Lookup, Touch, Read, Raise, Embed, CheckCapacity, Evict, Store

\* The cache holds each key once, and calls are in a known phase, in every
\* reachable state.
THEOREM CacheTypeOK == Spec => []TypeOK
<1>1. Init => TypeOK
    BY InitCache DEF Init, TypeOK
<1>2. TypeOK /\ [Next]_vars => TypeOK'
    BY NextCache, NextOverlap DEF TypeOK
<1> QED
    BY <1>1, <1>2, PTL DEF Spec

\* The part about the cache and the calls, in every reachable state.
LEMMA CacheHolds == Spec => []CacheOK
BY InitCache, NextCache, PTL DEF Spec
----------------------------------------------------------------------------
\* The sets of threads between the capacity check and the store are finite.
LEMMA PhaseSets ==
    /\ IsFiniteSet(Storing) /\ Cardinality(Storing) \in Nat
    /\ IsFiniteSet(Evicting) /\ Cardinality(Evicting) \in Nat
    /\ Cardinality(Threads) \in Nat /\ Cardinality(Threads) >= 1
    /\ \A t \in Threads : t \notin Storing => Cardinality(Storing) < Cardinality(Threads)
    /\ \A t \in Threads : t \notin Evicting => Cardinality(Evicting) < Cardinality(Threads)
<1>1. IsFiniteSet(Threads) /\ Threads # {}
    BY CacheAssumption
<1>2. Storing \subseteq Threads /\ Evicting \subseteq Threads
    BY DEF Storing, Evicting
<1>3. Cardinality(Threads) \in Nat /\ Cardinality(Threads) # 0
    BY <1>1, FS_CardinalityType, FS_EmptySet
<1> QED
    BY <1>1, <1>2, <1>3, FS_Subset, FS_CardinalityType

\* What a step of thread t does to the two sets.
LEMMA PhaseStep ==
    ASSUME CacheOK, NEW t \in Threads, NEW p \in Phases,
           call' = [call EXCEPT ![t].pc = p]
    PROVE  /\ Storing' = IF p = "store" THEN Storing \cup {t} ELSE Storing \ {t}
           /\ Evicting' = IF p = "evict" THEN Evicting \cup {t} ELSE Evicting \ {t}
BY DEF CacheOK, Storing, Evicting, At

\* Adding or removing one element changes a cardinality by at most one.
LEMMA CardinalityStep ==
    ASSUME NEW S, IsFiniteSet(S), NEW t
    PROVE  /\ Cardinality(S \cup {t}) = IF t \in S THEN Cardinality(S)
                                                  ELSE Cardinality(S) + 1
           /\ Cardinality(S \ {t}) = IF t \in S THEN Cardinality(S) - 1
                                                ELSE Cardinality(S)
<1>1. t \in S => S \cup {t} = S
    OBVIOUS
<1>2. t \notin S => S \ {t} = S
    OBVIOUS
<1> QED
    BY <1>1, <1>2, FS_AddElement, FS_RemoveElement

Bounds == SizeBounded /\ EvictionsCovered

\* Both bounds hold when the cache is empty and no thread is in a call.
LEMMA InitBounds == Init => Bounds
<1> SUFFICES ASSUME Init PROVE Bounds
    OBVIOUS
<1>1. Storing = {} /\ Evicting = {} /\ Len(cache) = 0
    BY DEF Init, Storing, Evicting, At
<1> QED
    BY <1>1, FS_EmptySet, PhaseSets, CacheAssumption
    DEF Bounds, SizeBounded, EvictionsCovered

\* Every step keeps both bounds; each needs only itself and the types.
LEMMA NextBounds == CacheOK /\ CacheOK' /\ Bounds /\ [Next]_vars => Bounds'
<1> SUFFICES ASSUME CacheOK, CacheOK', Bounds, [Next]_vars PROVE Bounds'
    OBVIOUS
<1>1. CASE UNCHANGED vars
    BY <1>1 DEF vars, Bounds, SizeBounded, EvictionsCovered, Storing, Evicting, At
<1> SUFFICES ASSUME NEW t \in Threads,
                    \/ \E k \in Signatures : Call(t, k)
                    \/ Lookup(t) \/ Touch(t) \/ Read(t) \/ Raise(t)
                    \/ Embed(t) \/ CheckCapacity(t) \/ Evict(t) \/ Store(t)
             PROVE  Bounds'
    BY <1>1 DEF Next
<1> DEFINE S == Cardinality(Storing)
           E == Cardinality(Evicting)
           N == Cardinality(Threads)
<1>2. /\ S \in Nat /\ E \in Nat /\ N \in Nat /\ Len(cache) \in Nat
      /\ N >= 1 /\ Capacity \in Nat /\ N <= Capacity
    BY PhaseSets, CacheAssumption DEF CacheOK
<1>3. Len(cache) + S <= Capacity + N - 1 /\ E <= Len(cache)
    BY DEF Bounds, SizeBounded, EvictionsCovered
<1>4. /\ (t \notin Storing => S < N) /\ (t \notin Evicting => E < N)
      /\ (t \in Storing <=> call[t].pc = "store")
      /\ (t \in Evicting <=> call[t].pc = "evict")
    BY PhaseSets DEF Storing, Evicting, At
<1>5. /\ Cardinality(Storing \cup {t}) = IF t \in Storing THEN S ELSE S + 1
      /\ Cardinality(Storing \ {t}) = IF t \in Storing THEN S - 1 ELSE S
      /\ Cardinality(Evicting \cup {t}) = IF t \in Evicting THEN E ELSE E + 1
      /\ Cardinality(Evicting \ {t}) = IF t \in Evicting THEN E - 1 ELSE E
    BY PhaseSets, CardinalityStep
<1> SUFFICES /\ Len(cache') + Cardinality(Storing') <= Capacity + N - 1
             /\ Cardinality(Evicting') <= Len(cache')
    BY DEF Bounds, SizeBounded, EvictionsCovered
<1> HIDE DEF S, E, N
\* steps that leave the cache alone and stay out of the two phases
<1>6. ASSUME NEW k \in Signatures, Call(t, k)
      PROVE  cache' = cache /\ Storing' = Storing /\ Evicting' = Evicting
    BY <1>6 DEF Call, CacheOK, Storing, Evicting, At
<1>7. ASSUME NEW p \in Phases, Goto(t, p), p \notin {"store", "evict"},
             call[t].pc \notin {"store", "evict"}, Len(cache') = Len(cache)
      PROVE  /\ Len(cache') + Cardinality(Storing') <= Capacity + N - 1
             /\ Cardinality(Evicting') <= Len(cache')
    <2>1. Storing' = Storing \ {t} /\ Evicting' = Evicting \ {t}
        BY <1>7, PhaseStep DEF Goto
    <2> QED
        BY <2>1, <1>2, <1>3, <1>4, <1>5, <1>7
<1>8. CASE Lookup(t) \/ Read(t) \/ Raise(t) \/ Embed(t)
    <2>1. PICK p \in Phases \ {"store", "evict"} : Goto(t, p)
        BY <1>8 DEF Lookup, Read, Raise, Embed, Phases
    <2>2. call[t].pc \notin {"store", "evict"} /\ cache' = cache
        BY <1>8 DEF Lookup, Read, Raise, Embed, At
    <2> QED
        BY <2>1, <2>2, <1>7
<1>9. CASE Touch(t)
    <2>1. PICK p \in Phases \ {"store", "evict"} : Goto(t, p)
        BY <1>9 DEF Touch, Phases
    <2>2. call[t].pc \notin {"store", "evict"}
        BY <1>9 DEF Touch, At
    <2>3. Len(cache') = Len(cache)
        BY <1>9, TouchedOK DEF Touch, CacheOK
    <2> QED
        BY <2>1, <2>2, <2>3, <1>7
<1>10. CASE CheckCapacity(t)
    <2>1. CASE Full
        <3>1. Storing' = Storing \ {t} /\ Evicting' = Evicting \cup {t}
            BY <1>10, <2>1, PhaseStep DEF CheckCapacity, Goto, Phases
        <3>2. Len(cache) >= Capacity /\ cache' = cache /\ call[t].pc = "check"
            BY <1>10, <2>1 DEF CheckCapacity, Full, At
        <3> QED
            BY <3>1, <3>2, <1>2, <1>3, <1>4, <1>5
    <2>2. CASE ~ Full
        <3>1. Storing' = Storing \cup {t} /\ Evicting' = Evicting \ {t}
            BY <1>10, <2>2, PhaseStep DEF CheckCapacity, Goto, Phases
        <3>2. Len(cache) < Capacity /\ cache' = cache /\ call[t].pc = "check"
            BY <1>10, <2>2, <1>2 DEF CheckCapacity, Full, At
        <3> QED
            BY <3>1, <3>2, <1>2, <1>3, <1>4, <1>5
    <2> QED
        BY <2>1, <2>2
<1>11. CASE Evict(t)
    <2>1. call[t].pc = "evict" /\ cache # <<>>
        BY <1>11, <1>2, <1>3, <1>4, <1>5, PhaseSets, FS_EmptySet DEF Evict, At, S, E
    <2>2. Goto(t, "store") /\ cache' = Tail(cache)
        BY <1>11, <2>1 DEF Evict, Evicted
    <2>3. Storing' = Storing \cup {t} /\ Evicting' = Evicting \ {t}
        BY <2>2, PhaseStep DEF Goto, Phases
    <2>4. Len(cache') = Len(cache) - 1
        BY <2>1, <2>2 DEF CacheOK
    <2> QED
        BY <2>1, <2>3, <2>4, <1>2, <1>3, <1>4, <1>5
<1>12. CASE Store(t)
    <2>1. Storing' = Storing \ {t} /\ Evicting' = Evicting \ {t}
        BY <1>12, PhaseStep DEF Store, Goto, Phases
    <2>2. call[t].pc = "store" /\ Len(cache') \in {Len(cache), Len(cache) + 1}
        BY <1>12 DEF Store, Stored, At, CacheOK
    <2> QED
        BY <2>1, <2>2, <1>2, <1>3, <1>4, <1>5
<1>13. CASE \E k \in Signatures : Call(t, k)
    BY <1>13, <1>6, <1>3 DEF S, E, N
<1> QED
    BY <1>8, <1>9, <1>10, <1>11, <1>12, <1>13

\* The cache exceeds its capacity by at most the number of threads less one.
THEOREM CacheSizeBounded == Spec => []SizeBounded
<1>1. Spec => []Bounds
    BY CacheHolds, InitBounds, NextBounds, PTL DEF Spec
<1>2. Bounds => SizeBounded
    BY DEF Bounds
<1> QED
    BY <1>1, <1>2, PTL

\* With at least one entry of capacity per thread, no eviction meets an empty
\* cache: popitem raises no KeyError.
THEOREM CacheEvictionsCovered == Spec => []EvictionsCovered
<1>1. Spec => []Bounds
    BY CacheHolds, InitBounds, NextBounds, PTL DEF Spec
<1>2. Bounds => EvictionsCovered
    BY DEF Bounds
<1> QED
    BY <1>1, <1>2, PTL
----------------------------------------------------------------------------
(***************************************************************************)
(* As long as calls never overlapped the cache is in the order of use.     *)
(***************************************************************************)
LastIn(s, k) ==
    IF \E i \in DOMAIN s : s[i] = k
    THEN CHOOSE i \in DOMAIN s : s[i] = k /\ \A j \in DOMAIN s : s[j] = k => j <= i
    ELSE 0
IsLastIn(s, k, n) ==
    n \in DOMAIN s /\ s[n] = k /\ \A j \in DOMAIN s : s[j] = k => j <= n

\* a signature that was used was used for a last time
LastsExist ==
    \A k \in Signatures :
        (\E i \in DOMAIN uses : uses[i] = k) => \E n \in DOMAIN uses : IsLastIn(uses, k, n)

Alone == \A t, u \in Threads : ~ At(t, "idle") /\ ~ At(u, "idle") => t = u

\* between the membership test and the store nobody else changed the cache
TestStands ==
    \A t \in Threads :
        /\ call[t].pc = "touch" => Cached(call[t].key)
        /\ call[t].pc \in {"embed", "check", "evict", "store"} => ~ Cached(call[t].key)

Ordered ==
    /\ \A i \in DOMAIN cache : LastIn(uses, cache[i]) >= 1
    /\ \A i, j \in DOMAIN cache : i < j => LastIn(uses, cache[i]) < LastIn(uses, cache[j])

Recent == \A k, l \in Signatures : Cached(k) /\ ~ Cached(l) => LastIn(uses, l) < LastIn(uses, k)

RecencyInv == LastsExist /\ (~ overlap => Alone /\ TestStands /\ Ordered /\ Recent)

LEMMA LastUseIs == \A k : LastUse(k) = LastIn(uses, k)
BY DEF LastUse, LastIn

LEMMA LastInIs ==
    ASSUME NEW s \in Seq(Signatures), NEW k, NEW n, IsLastIn(s, k, n)
    PROVE  LastIn(s, k) = n
<1>1. DOMAIN s \subseteq Nat
    OBVIOUS
<1>2. \E i \in DOMAIN s : s[i] = k
    BY DEF IsLastIn
<1> DEFINE m == CHOOSE i \in DOMAIN s : s[i] = k /\ \A j \in DOMAIN s : s[j] = k => j <= i
<1>3. m \in DOMAIN s /\ s[m] = k /\ \A j \in DOMAIN s : s[j] = k => j <= m
    BY DEF IsLastIn
<1>4. LastIn(s, k) = m
    BY <1>2 DEF LastIn
<1> HIDE DEF m
<1>5. m <= n /\ n <= m /\ m \in Nat /\ n \in Nat
    BY <1>1, <1>3 DEF IsLastIn
<1> QED
    BY <1>4, <1>5

\* A use makes its signature the last one, and changes no other's last use.
LEMMA UseIsLast ==
    ASSUME CacheOK, LastsExist, NEW k \in Signatures, uses' = Append(uses, k)
    PROVE  /\ LastsExist'
           /\ LastIn(uses', k) = Len(uses) + 1
           /\ \A l \in Signatures : LastIn(uses, l) \in 0..Len(uses)
           /\ \A l \in Signatures : l # k => LastIn(uses', l) = LastIn(uses, l)
<1>1. /\ uses \in Seq(Signatures) /\ uses' \in Seq(Signatures) /\ Len(uses) \in Nat
      /\ DOMAIN uses = 1..Len(uses) /\ DOMAIN uses' = 1..(Len(uses) + 1)
      /\ \A i \in DOMAIN uses : uses'[i] = uses[i]
      /\ uses'[Len(uses) + 1] = k
    BY DEF CacheOK
<1>2. IsLastIn(uses', k, Len(uses) + 1)
    BY <1>1 DEF IsLastIn
<1>3. \A l \in Signatures, n \in DOMAIN uses :
        l # k /\ IsLastIn(uses, l, n) => IsLastIn(uses', l, n)
    BY <1>1 DEF IsLastIn
<1>4. ASSUME NEW l \in Signatures
      PROVE  /\ LastIn(uses, l) \in 0..Len(uses)
             /\ l # k => LastIn(uses', l) = LastIn(uses, l)
    <2>1. CASE \E i \in DOMAIN uses : uses[i] = l
        <3>1. PICK n \in DOMAIN uses : IsLastIn(uses, l, n)
            BY <2>1 DEF LastsExist
        <3>2. LastIn(uses, l) = n
            BY <1>1, <3>1, LastInIs
        <3>3. l # k => LastIn(uses', l) = n
            BY <1>1, <1>3, <3>1, LastInIs
        <3> QED
            BY <1>1, <3>2, <3>3
    <2>2. CASE ~ \E i \in DOMAIN uses : uses[i] = l
        <3>1. l # k => ~ \E i \in DOMAIN uses' : uses'[i] = l
            BY <1>1, <2>2
        <3>2. LastIn(uses, l) = 0 /\ (l # k => LastIn(uses', l) = 0)
            BY <2>2, <3>1 DEF LastIn
        <3> QED
            BY <1>1, <3>2
    <2> QED
        BY <2>1, <2>2
<1>5. LastsExist'
    <2> SUFFICES ASSUME NEW l \in Signatures, \E i \in DOMAIN uses' : uses'[i] = l
                 PROVE  \E n \in DOMAIN uses' : IsLastIn(uses', l, n)
        BY DEF LastsExist
    <2>1. CASE l = k
        BY <1>1, <1>2, <2>1
    <2>2. CASE l # k
        <3>1. \E i \in DOMAIN uses : uses[i] = l
            BY <1>1, <2>2
        <3>2. PICK n \in DOMAIN uses : IsLastIn(uses, l, n)
            BY <3>1 DEF LastsExist
        <3> QED
            BY <1>1, <1>3, <2>2, <3>2
    <2> QED
        BY <2>1, <2>2
<1> QED
    BY <1>1, <1>2, <1>4, <1>5, LastInIs

\* move_to_end keeps the order of use: the signature is now the last one used.
LEMMA TouchOrders ==
    ASSUME CacheOK, LastsExist, Ordered, Recent, NEW k \in Signatures, Cached(k),
           cache' = Touched(k), uses' = Append(uses, k)
    PROVE  Ordered' /\ Recent'
<1> DEFINE at == CHOOSE i \in DOMAIN cache : cache[i] = k
           n == Len(cache)
<1>1. cache \in Seq(Signatures) /\ n \in Nat /\ DOMAIN cache = 1..n
    BY DEF CacheOK
<1>2. at \in 1..n /\ cache[at] = k
    BY <1>1 DEF Cached
<1>3. cache' = [i \in 1..n |-> IF i < at THEN cache[i]
                              ELSE IF i < n THEN cache[i + 1] ELSE k]
    BY <1>1 DEF Touched
<1> HIDE DEF at
<1>4. DOMAIN cache' = 1..n /\ cache'[n] = k
    BY <1>1, <1>2, <1>3
<1> DEFINE from == [i \in 1..n |-> IF i < at THEN i ELSE i + 1]
<1> HIDE DEF n
<1>5. \A i \in 1..n : i # n => /\ from[i] \in 1..n /\ cache'[i] = cache[from[i]]
                               /\ from[i] # at
    BY <1>1, <1>2, <1>3
<1>6. \A i, j \in 1..n : i < j /\ j # n => from[i] < from[j]
    BY <1>1, <1>2
<1> HIDE DEF from
<1>7. /\ LastIn(uses', k) = Len(uses) + 1 /\ Len(uses) \in Nat
      /\ \A l \in Signatures : LastIn(uses, l) \in 0..Len(uses)
      /\ \A l \in Signatures : l # k => LastIn(uses', l) = LastIn(uses, l)
    BY UseIsLast DEF CacheOK
<1>8. \A i \in 1..n : i # n => /\ cache'[i] \in Signatures /\ cache'[i] # k
                               /\ LastIn(uses', cache'[i]) = LastIn(uses, cache[from[i]])
                               /\ LastIn(uses, cache[from[i]]) \in 0..Len(uses)
    <2>1. \A i, j \in 1..n : cache[i] = cache[j] => i = j
        BY <1>1 DEF CacheOK
    <2>2. \A i \in 1..n : i # n => cache'[i] \in Signatures /\ cache'[i] # k
        BY <1>1, <1>2, <1>5, <2>1
    <2>3. \A l \in Signatures : l # k => LastIn(uses', l) = LastIn(uses, l) /\ LastIn(uses, l) \in 0..Len(uses)
        BY <1>7
    <2>4. ASSUME NEW i \in 1..n, i # n
          PROVE  LastIn(uses', cache'[i]) = LastIn(uses, cache'[i]) /\ LastIn(uses, cache'[i]) \in 0..Len(uses)
        BY <2>2, <2>3, <2>4
    <2> QED
        BY <1>5, <2>2, <2>4
<1>9. Ordered'
    <2>1. ASSUME NEW i \in 1..n PROVE LastIn(uses', cache'[i]) >= 1
        <3>1. CASE i = n
            BY <1>4, <1>7, <3>1
        <3>2. CASE i # n
            BY <1>1, <1>5, <1>8, <3>2 DEF Ordered
        <3> QED
            BY <3>1, <3>2
    <2>2. ASSUME NEW i \in 1..n, NEW j \in 1..n, i < j
          PROVE  LastIn(uses', cache'[i]) < LastIn(uses', cache'[j])
        <3>1. i # n
            BY <1>1, <2>2
        <3>2. CASE j = n
            BY <1>4, <1>7, <1>8, <3>1, <3>2
        <3>3. CASE j # n
            <4>1. LastIn(uses, cache[from[i]]) < LastIn(uses, cache[from[j]])
                BY <1>1, <1>5, <1>6, <2>2, <3>1, <3>3 DEF Ordered
            <4> QED
                BY <1>8, <3>1, <3>3, <4>1
        <3> QED
            BY <3>2, <3>3
    <2> QED
        BY <1>4, <2>1, <2>2 DEF Ordered
<1>10. \A l : Cached(l)' <=> Cached(l)
    <2>1. ASSUME NEW l, Cached(l)' PROVE Cached(l)
        <3>1. PICK i \in 1..n : cache'[i] = l
            BY <1>4, <2>1 DEF Cached
        <3> QED
            BY <1>1, <1>2, <1>4, <1>5, <3>1 DEF Cached
    <2>2. ASSUME NEW l, Cached(l) PROVE Cached(l)'
        <3>1. PICK i \in 1..n : cache[i] = l
            BY <1>1, <2>2 DEF Cached
        <3>2. CASE i < at
            BY <1>1, <1>2, <1>3, <1>4, <3>1, <3>2 DEF Cached
        <3>3. CASE i = at
            BY <1>1, <1>2, <1>4, <3>1, <3>3 DEF Cached
        <3>4. CASE i > at
            <4>1. i - 1 \in 1..n /\ cache'[i - 1] = cache[i]
                BY <1>1, <1>2, <1>3, <3>4
            <4> QED
                BY <1>4, <3>1, <4>1 DEF Cached
        <3> QED
            BY <1>2, <3>2, <3>3, <3>4
    <2> QED
        BY <2>1, <2>2
<1>11. Recent'
    <2> SUFFICES ASSUME NEW h \in Signatures, NEW l \in Signatures, Cached(h), ~ Cached(l)
                 PROVE  LastIn(uses', l) < LastIn(uses', h)
        BY <1>10 DEF Recent
    <2>1. l # k /\ LastIn(uses, l) < LastIn(uses, h)
        BY DEF Recent
    <2> QED
        BY <1>7, <2>1
<1> QED
    BY <1>9, <1>11

\* popitem(last=False) takes the signature that was used least recently.
LEMMA EvictOrders ==
    ASSUME CacheOK, Ordered, Recent, cache # <<>>, cache' = Tail(cache), uses' = uses
    PROVE  Ordered' /\ Recent' /\ \A l : Cached(l)' => Cached(l)
<1>1. /\ cache \in Seq(Signatures) /\ Len(cache) \in Nat \ {0} /\ DOMAIN cache = 1..Len(cache)
      /\ DOMAIN cache' = 1..(Len(cache) - 1)
      /\ \A i \in DOMAIN cache' : i + 1 \in DOMAIN cache /\ cache'[i] = cache[i + 1]
    BY DEF CacheOK
<1>2. \A l : LastIn(uses', l) = LastIn(uses, l)
    OBVIOUS
<1>3. Ordered'
    BY <1>1, <1>2 DEF Ordered
<1>4. \A l : Cached(l)' => \E j \in DOMAIN cache : 1 < j /\ cache[j] = l
    <2> SUFFICES ASSUME NEW l, Cached(l)' PROVE \E j \in DOMAIN cache : 1 < j /\ cache[j] = l
        OBVIOUS
    <2>1. PICK i \in DOMAIN cache' : cache'[i] = l
        BY DEF Cached
    <2>2. i + 1 \in DOMAIN cache /\ cache[i + 1] = l /\ 1 < i + 1
        BY <1>1, <2>1
    <2> QED
        BY <2>2
<1>5. \A l : Cached(l) /\ ~ Cached(l)' => l = cache[1]
    <2> SUFFICES ASSUME NEW l, Cached(l), l # cache[1] PROVE Cached(l)'
        OBVIOUS
    <2>1. PICK i \in DOMAIN cache : cache[i] = l
        BY DEF Cached
    <2>2. i - 1 \in DOMAIN cache' /\ cache'[i - 1] = l
        BY <1>1, <2>1
    <2> QED
        BY <2>2 DEF Cached
<1>6. Recent'
    <2> SUFFICES ASSUME NEW k \in Signatures, NEW l \in Signatures, Cached(k)', ~ Cached(l)'
                 PROVE  LastIn(uses, l) < LastIn(uses, k)
        BY <1>2 DEF Recent
    <2>1. PICK j \in DOMAIN cache : 1 < j /\ cache[j] = k
        BY <1>4
    <2>2. CASE ~ Cached(l)
        BY <2>1, <2>2 DEF Recent, Cached
    <2>3. CASE Cached(l)
        BY <1>1, <1>5, <2>1, <2>3 DEF Ordered
    <2> QED
        BY <2>2, <2>3
<1> QED
    BY <1>3, <1>4, <1>6 DEF Cached

\* Storing a new signature appends the one that was used last.
LEMMA StoreOrders ==
    ASSUME CacheOK, LastsExist, Ordered, Recent, NEW k \in Signatures, ~ Cached(k),
           cache' = Append(cache, k), uses' = Append(uses, k)
    PROVE  Ordered' /\ Recent'
<1>1. /\ cache \in Seq(Signatures) /\ Len(cache) \in Nat /\ DOMAIN cache = 1..Len(cache)
      /\ DOMAIN cache' = 1..(Len(cache) + 1) /\ cache'[Len(cache) + 1] = k
      /\ \A i \in DOMAIN cache : cache'[i] = cache[i] /\ cache[i] \in Signatures /\ cache[i] # k
    BY DEF CacheOK, Cached
<1>2. /\ LastIn(uses', k) = Len(uses) + 1 /\ Len(uses) \in Nat
      /\ \A l \in Signatures : LastIn(uses, l) \in 0..Len(uses)
      /\ \A l \in Signatures : l # k => LastIn(uses', l) = LastIn(uses, l)
    BY UseIsLast DEF CacheOK
<1>3. ASSUME NEW i \in DOMAIN cache
      PROVE  LastIn(uses', cache'[i]) = LastIn(uses, cache[i]) /\ LastIn(uses, cache[i]) \in 1..Len(uses)
    <2>1. cache[i] \in Signatures /\ cache[i] # k /\ cache'[i] = cache[i]
        BY <1>1
    <2>2. \A l \in Signatures : l # k => LastIn(uses', l) = LastIn(uses, l) /\ LastIn(uses, l) \in 0..Len(uses)
        BY <1>2
    <2>3. LastIn(uses', cache[i]) = LastIn(uses, cache[i]) /\ LastIn(uses, cache[i]) \in 0..Len(uses)
        BY <2>1, <2>2
    <2> QED
        BY <1>2, <2>1, <2>3 DEF Ordered
<1>4. Ordered'
    <2>1. ASSUME NEW i \in DOMAIN cache' PROVE LastIn(uses', cache'[i]) >= 1
        BY <1>1, <1>2, <1>3
    <2>2. ASSUME NEW i \in DOMAIN cache', NEW j \in DOMAIN cache', i < j
          PROVE  LastIn(uses', cache'[i]) < LastIn(uses', cache'[j])
        <3>1. i \in DOMAIN cache
            BY <1>1, <2>2
        <3>2. CASE j = Len(cache) + 1
            BY <1>1, <1>2, <1>3, <3>1, <3>2
        <3>3. CASE j \in DOMAIN cache
            BY <1>3, <2>2, <3>1, <3>3 DEF Ordered
        <3> QED
            BY <1>1, <3>2, <3>3
    <2> QED
        BY <2>1, <2>2 DEF Ordered
<1>5. \A l : Cached(l)' <=> Cached(l) \/ l = k
    BY <1>1 DEF Cached
<1>6. Recent'
    <2> SUFFICES ASSUME NEW h \in Signatures, NEW l \in Signatures, Cached(h) \/ h = k,
                        ~ Cached(l), l # k
                 PROVE  LastIn(uses', l) < LastIn(uses', h)
        BY <1>5 DEF Recent
    <2>1. CASE h = k
        BY <1>2, <2>1
    <2>2. CASE h # k /\ Cached(h)
        BY <1>2, <2>2 DEF Recent
    <2> QED
        BY <2>1, <2>2
<1> QED
    BY <1>4, <1>6

LEMMA InitRecency == Init => RecencyInv
BY DEF Init, RecencyInv, LastsExist, Alone, TestStands, Ordered, Recent, Cached, At

\* The uses have last ones whoever overlaps.
LEMMA NextLasts == CacheOK /\ LastsExist /\ [Next]_vars => LastsExist'
<1> SUFFICES ASSUME CacheOK, LastsExist, [Next]_vars PROVE LastsExist'
    OBVIOUS
<1>1. CASE uses' = uses
    BY <1>1 DEF LastsExist
<1>2. ASSUME NEW t \in Threads, uses' = Append(uses, call[t].key) PROVE LastsExist'
    <2>1. call[t].key \in Signatures
        BY DEF CacheOK
    <2> QED
        BY <1>2, <2>1, UseIsLast
<1> QED
    BY <1>1, <1>2 DEF vars, Next, Call, Lookup, Touch, Read, Raise, Embed, CheckCapacity,
                      Evict, Store

\* A step of the only thread in a call.
LEMMA SerialStep ==
    ASSUME CacheOK, Alone, NEW t \in Threads, NEW p \in Phases,
           call' = [call EXCEPT ![t].pc = p], ~ At(t, "idle"), NEW k, k = call[t].key,
           p = "touch" => Cached(k)',
           p \in {"embed", "check", "evict", "store"} => ~ Cached(k)'
    PROVE  Alone' /\ TestStands'
<1>1. \A u \in Threads : u # t => call'[u] = call[u] /\ call[u].pc = "idle"
    BY DEF CacheOK, Alone, At
<1>2. call'[t].pc = p /\ call'[t].key = k
    BY DEF CacheOK
<1>3. Alone'
    BY <1>1 DEF Alone, At
<1>4. TestStands'
    <2>1. \A u \in Threads : u # t => call'[u].pc = "idle"
        BY <1>1
    <2> QED
        BY <1>2, <2>1 DEF TestStands, Cached
<1> QED
    BY <1>3, <1>4

LEMMA NextSerial ==
    ASSUME CacheOK, LastsExist, Alone, TestStands, Ordered, Recent,
           NEW t \in Threads, NEW k \in Signatures, k = call[t].key,
           \/ \E h \in Signatures : Call(t, h) /\ \A u \in Threads : At(u, "idle")
           \/ Lookup(t) \/ Touch(t) \/ Read(t) \/ Raise(t)
           \/ Embed(t) \/ CheckCapacity(t) \/ Evict(t) \/ Store(t)
    PROVE  Alone' /\ TestStands' /\ Ordered' /\ Recent'
<1>1. cache' = cache /\ uses' = uses => Ordered' /\ Recent' /\ \A l : Cached(l)' <=> Cached(l)
    BY DEF Ordered, Recent, Cached
<1>2. /\ call[t].pc = "touch" => Cached(k)
      /\ call[t].pc \in {"embed", "check", "evict", "store"} => ~ Cached(k)
    BY DEF TestStands
<1>3. CASE \E h \in Signatures : Call(t, h) /\ \A u \in Threads : At(u, "idle")
    <2>1. PICK h \in Signatures : Call(t, h) /\ \A u \in Threads : At(u, "idle")
        BY <1>3
    <2>2. /\ call'[t].pc = "lookup"
          /\ \A u \in Threads : u # t => call'[u].pc = "idle"
        BY <2>1 DEF Call, At, CacheOK
    <2>3. Alone' /\ TestStands'
        BY <2>2 DEF Alone, TestStands, At
    <2> QED
        BY <1>1, <2>1, <2>3 DEF Call
<1>4. CASE Lookup(t)
    <2>1. /\ cache' = cache /\ uses' = uses /\ ~ At(t, "idle")
          /\ call' = [call EXCEPT ![t].pc = IF Cached(k) THEN "touch" ELSE "embed"]
        BY <1>4 DEF Lookup, Goto, At
    <2>2. CASE Cached(k)
        BY <1>1, <2>1, <2>2, SerialStep DEF Phases
    <2>3. CASE ~ Cached(k)
        BY <1>1, <2>1, <2>3, SerialStep DEF Phases
    <2> QED
        BY <2>2, <2>3
<1>5. CASE Touch(t)
    <2>1. Cached(k) /\ ~ At(t, "idle")
        BY <1>2, <1>5 DEF Touch, At
    <2>2. /\ cache' = Touched(k) /\ uses' = Append(uses, k)
          /\ call' = [call EXCEPT ![t].pc = "read"]
        BY <1>5, <2>1 DEF Touch, Goto
    <2>3. Alone' /\ TestStands'
        BY <2>1, <2>2, SerialStep DEF Phases
    <2> QED
        BY <2>1, <2>2, <2>3, TouchOrders
<1>6. CASE Read(t) \/ Raise(t)
    <2>1. PICK p \in {"idle", "hit_failed"} : call' = [call EXCEPT ![t].pc = p]
        BY <1>6 DEF Read, Raise, Goto
    <2>2. cache' = cache /\ uses' = uses /\ ~ At(t, "idle")
        BY <1>6 DEF Read, Raise, At
    <2>3. Alone' /\ TestStands'
        BY <2>1, <2>2, SerialStep DEF Phases
    <2> QED
        BY <1>1, <2>2, <2>3
<1>7. CASE Embed(t)
    <2>1. PICK p \in {"check", "idle"} : call' = [call EXCEPT ![t].pc = p]
        BY <1>7 DEF Embed, Goto
    <2>2. cache' = cache /\ uses' = uses /\ ~ At(t, "idle") /\ ~ Cached(k)
        BY <1>2, <1>7 DEF Embed, At
    <2>3. Alone' /\ TestStands'
        BY <1>1, <2>1, <2>2, SerialStep DEF Phases
    <2> QED
        BY <1>1, <2>2, <2>3
<1>8. CASE CheckCapacity(t)
    <2>1. PICK p \in {"evict", "store"} : call' = [call EXCEPT ![t].pc = p]
        BY <1>8 DEF CheckCapacity, Goto
    <2>2. cache' = cache /\ uses' = uses /\ ~ At(t, "idle") /\ ~ Cached(k)
        BY <1>2, <1>8 DEF CheckCapacity, At
    <2>3. Alone' /\ TestStands'
        BY <1>1, <2>1, <2>2, SerialStep DEF Phases
    <2> QED
        BY <1>1, <2>2, <2>3
<1>9. CASE Evict(t)
    <2>1. uses' = uses /\ ~ At(t, "idle") /\ ~ Cached(k)
        BY <1>2, <1>9 DEF Evict, At
    <2>2. CASE cache = <<>>
        <3>1. cache' = cache /\ call' = [call EXCEPT ![t].pc = "evict_failed"]
            BY <1>9, <2>2 DEF Evict, Goto
        <3>2. Alone' /\ TestStands'
            BY <2>1, <3>1, SerialStep DEF Phases
        <3> QED
            BY <1>1, <2>1, <3>1, <3>2
    <2>3. CASE cache # <<>>
        <3>1. cache' = Tail(cache) /\ call' = [call EXCEPT ![t].pc = "store"]
            BY <1>9, <2>3 DEF Evict, Evicted, Goto
        <3>2. Ordered' /\ Recent' /\ \A l : Cached(l)' => Cached(l)
            BY <2>1, <2>3, <3>1, EvictOrders
        <3>3. Alone' /\ TestStands'
            BY <2>1, <3>1, <3>2, SerialStep DEF Phases
        <3> QED
            BY <3>2, <3>3
    <2> QED
        BY <2>2, <2>3
<1>10. CASE Store(t)
    <2>1. ~ Cached(k) /\ ~ At(t, "idle")
        BY <1>2, <1>10 DEF Store, At
    <2>2. /\ cache' = Append(cache, k) /\ uses' = Append(uses, k)
          /\ call' = [call EXCEPT ![t].pc = "idle"]
        BY <1>10, <2>1 DEF Store, Stored, Goto
    <2>3. Alone' /\ TestStands'
        BY <2>1, <2>2, SerialStep DEF Phases
    <2> QED
        BY <2>1, <2>2, <2>3, StoreOrders
<1> QED
    BY <1>3, <1>4, <1>5, <1>6, <1>7, <1>8, <1>9, <1>10

LEMMA NextRecency == CacheOK /\ RecencyInv /\ [Next]_vars => RecencyInv'
<1> SUFFICES ASSUME CacheOK, RecencyInv, [Next]_vars PROVE RecencyInv'
    OBVIOUS
<1>1. LastsExist /\ LastsExist'
    BY NextLasts DEF RecencyInv
<1>2. CASE UNCHANGED vars
    BY <1>2 DEF vars, RecencyInv, LastsExist, Alone, TestStands, Ordered, Recent, Cached, At
<1>3. ASSUME NEW t \in Threads, ~ overlap',
             \/ \E k \in Signatures : Call(t, k)
             \/ Lookup(t) \/ Touch(t) \/ Read(t) \/ Raise(t)
             \/ Embed(t) \/ CheckCapacity(t) \/ Evict(t) \/ Store(t)
      PROVE  Alone' /\ TestStands' /\ Ordered' /\ Recent'
    <2>1. \A k \in Signatures : Call(t, k) => ~ overlap /\ \A u \in Threads : At(u, "idle")
        BY <1>3, Zenon DEF Call
    <2>2. ~ (\E k \in Signatures : Call(t, k)) => overlap' = overlap
        BY <1>3 DEF Lookup, Touch, Read, Raise, Embed, CheckCapacity, Evict, Store
    <2>3. ~ overlap
        BY <1>3, <2>1, <2>2, Zenon
    <2>4. Alone /\ TestStands /\ Ordered /\ Recent
        BY <2>3, Zenon DEF RecencyInv
    <2>5. PICK k \in Signatures : k = call[t].key
        BY DEF CacheOK
    <2> QED
        BY <1>1, <1>3, <2>1, <2>4, <2>5, NextSerial
<1>4. CASE Next
    <2>1. PICK t \in Threads :
            \/ \E k \in Signatures : Call(t, k)
            \/ Lookup(t) \/ Touch(t) \/ Read(t) \/ Raise(t)
            \/ Embed(t) \/ CheckCapacity(t) \/ Evict(t) \/ Store(t)
        BY <1>4 DEF Next
    <2>2. ~ overlap' => Alone' /\ TestStands' /\ Ordered' /\ Recent'
        BY <1>3, <2>1
    <2> QED
        BY <1>1, <2>2, Zenon DEF RecencyInv
<1> QED
    BY <1>2, <1>4

\* As long as the calls of get_or_compute_embedding (app/services/embeddings.py) never
\* overlapped, the cache keeps the signatures used last, in the order of their use.
THEOREM CacheKeepsRecent == Spec => []KeepsRecent
<1>1. Spec => []RecencyInv
    BY CacheHolds, InitRecency, NextRecency, PTL DEF Spec
<1>2. RecencyInv => KeepsRecent
    <2> SUFFICES ASSUME RecencyInv, ~ overlap
                 PROVE  \A k, l \in Signatures :
                            Cached(k) /\ ~ Cached(l) => LastUse(l) < LastUse(k)
        BY Zenon DEF KeepsRecent
    <2>1. Recent
        BY Zenon DEF RecencyInv
    <2> QED
        BY <2>1, LastUseIs DEF Recent
<1> QED
    BY <1>1, <1>2, PTL
============================================================================
