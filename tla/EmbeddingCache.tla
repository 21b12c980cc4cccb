--------------------------- MODULE EmbeddingCache ---------------------------
(***************************************************************************)
(* The LRU cache of embedding vectors.  Request handlers use it from the   *)
(* thread pool and the indexer from the event loop's thread, with no lock: *)
(* the interpreter makes each OrderedDict operation atomic, not the calls  *)
(* of get_or_compute_embedding.  A vector is determined by its signature,  *)
(* so the cache is its keys, least recently used first.                    *)
(***************************************************************************)
EXTENDS Naturals, Sequences, FiniteSets

CONSTANTS Threads,     \* the threads that share the service
          Signatures,  \* signature hashes
          Capacity,    \* cache_capacity
          MaxUses      \* bound: uses of the cache

ASSUME CacheAssumption ==
    /\ IsFiniteSet(Threads) /\ Threads # {} /\ Capacity \in Nat /\ MaxUses \in Nat
    /\ Cardinality(Threads) <= Capacity

VARIABLES
    cache,  \* keys of _cache, in the order of the OrderedDict
    call,   \* [Threads -> the call in progress]
    uses,   \* history: the keys in the order the cache saw them used
    overlap \* history: two calls have been in progress at a time

vars == <<cache, call, uses, overlap>>

Phases == {"idle", "lookup", "touch", "read", "embed", "check", "evict",
           "store", "hit_failed", "evict_failed"}
Cached(k) == \E i \in DOMAIN cache : cache[i] = k
Goto(t, p) == call' = [call EXCEPT ![t].pc = p]
At(t, p) == call[t].pc = p

Init == /\ cache = <<>> /\ uses = <<>> /\ overlap = FALSE
        /\ call \in [Threads -> [pc : {"idle"}, key : Signatures]]

Call(t, k) ==
    /\ At(t, "idle") /\ Len(uses) < MaxUses
    /\ call' = [call EXCEPT ![t] = [pc |-> "lookup", key |-> k]]
    /\ overlap' = (overlap \/ \E u \in Threads : ~ At(u, "idle"))
    /\ UNCHANGED <<cache, uses>>

Lookup(t) ==
    /\ At(t, "lookup")
    /\ Goto(t, IF Cached(call[t].key) THEN "touch" ELSE "embed")
    /\ UNCHANGED <<cache, uses, overlap>>
----------------------------------------------------------------------------
Touched_InPlace(k) == cache   \* mutant: first in, first out
Touched(k) ==
    LET at == CHOOSE i \in DOMAIN cache : cache[i] = k
    IN  [i \in DOMAIN cache |-> IF i < at THEN cache[i]
                               ELSE IF i < Len(cache) THEN cache[i + 1] ELSE k]

\* move_to_end raises KeyError when the key has been evicted since Lookup
Touch(t) ==
    /\ At(t, "touch")
    /\ IF Cached(call[t].key)
       THEN /\ cache' = Touched(call[t].key)
            /\ uses' = Append(uses, call[t].key)
            /\ Goto(t, "read")
       ELSE Goto(t, "hit_failed") /\ UNCHANGED <<cache, uses>>
    /\ UNCHANGED overlap

\* and so does the subscript
Read(t) ==
    /\ At(t, "read")
    /\ Goto(t, IF Cached(call[t].key) THEN "idle" ELSE "hit_failed")
    /\ UNCHANGED <<cache, uses, overlap>>
----------------------------------------------------------------------------
\* the model computes a vector, or raises
Embed(t) ==
    /\ At(t, "embed")
    /\ Goto(t, "check") \/ Goto(t, "idle")
    /\ UNCHANGED <<cache, uses, overlap>>

Full_OffByOne == Len(cache) > Capacity   \* mutant
Full == Len(cache) >= Capacity

CheckCapacity(t) ==
    /\ At(t, "check")
    /\ Goto(t, IF Full THEN "evict" ELSE "store")
    /\ UNCHANGED <<cache, uses, overlap>>

Evicted_All == <<>>   \* mutant: clears the cache
Evicted == Tail(cache)

\* popitem raises KeyError on an empty dictionary
Evict(t) ==
    /\ At(t, "evict")
    /\ IF cache = <<>>
       THEN Goto(t, "evict_failed") /\ UNCHANGED cache
       ELSE Goto(t, "store") /\ cache' = Evicted
    /\ UNCHANGED <<uses, overlap>>

\* a key that another thread stored meanwhile keeps its place
Stored_Twice(k) == Append(cache, k)   \* mutant
Stored(k) == IF Cached(k) THEN cache ELSE Append(cache, k)

Store(t) ==
    /\ At(t, "store")
    /\ cache' = Stored(call[t].key)
    /\ uses' = Append(uses, call[t].key)
    /\ Goto(t, "idle")
    /\ UNCHANGED overlap

\* the exception reaches the caller
Raise(t) ==
    /\ call[t].pc \in {"hit_failed", "evict_failed"}
    /\ Goto(t, "idle")
    /\ UNCHANGED <<cache, uses, overlap>>

Next == \E t \in Threads :
    \/ \E k \in Signatures : Call(t, k)
    \/ Lookup(t) \/ Touch(t) \/ Read(t) \/ Raise(t)
    \/ Embed(t) \/ CheckCapacity(t) \/ Evict(t) \/ Store(t)

Spec == Init /\ [][Next]_vars
----------------------------------------------------------------------------
CacheOK ==
    /\ cache \in Seq(Signatures) /\ uses \in Seq(Signatures)
    /\ call \in [Threads -> [pc : Phases, key : Signatures]]
    /\ \A i, j \in DOMAIN cache : cache[i] = cache[j] => i = j

\* The type invariant; an OrderedDict holds no key twice.
TypeOK == CacheOK /\ overlap \in BOOLEAN

Storing == {t \in Threads : At(t, "store")}
Evicting == {t \in Threads : At(t, "evict")}

\* The check of the capacity and the store are two steps, so the threads that
\* passed the check together overshoot the capacity, by all but one at most.
SizeBounded == Len(cache) + Cardinality(Storing) <= Capacity + Cardinality(Threads) - 1

\* No thread pops from an empty cache: every eviction that the capacity check
\* announced still finds an entry.
EvictionsCovered == Cardinality(Evicting) <= Len(cache)

\* As long as calls never overlapped, the cache holds the signatures used last:
\* one that is not cached was used before every one that is.
LastUse(k) == IF \E i \in DOMAIN uses : uses[i] = k
              THEN CHOOSE i \in DOMAIN uses :
                     uses[i] = k /\ \A j \in DOMAIN uses : uses[j] = k => j <= i
              ELSE 0
KeepsRecent ==
    ~ overlap => \A k, l \in Signatures :
        Cached(k) /\ ~ Cached(l) => LastUse(l) < LastUse(k)
============================================================================
