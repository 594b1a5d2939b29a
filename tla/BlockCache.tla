----------------------------- MODULE BlockCache -----------------------------
(***************************************************************************)
(* The cache of parsed blocks in Storage.get_block                         *)
(* (src/scarletcoin/core/storage.py), read by every peer, RPC and explorer *)
(* thread.  A miss reads the row under the store's lock, parses it without *)
(* the lock, and takes the lock again to remember it.                      *)
(***************************************************************************)
EXTENDS Integers, Sequences, FiniteSets, SequencesExt

CONSTANTS
    Thread,     \* threads that read blocks
    Stored,     \* stored blocks
    Size,       \* serialised size of a block
    MaxBlocks,  \* BLOCK_CACHE_SIZE
    MaxBytes    \* BLOCK_CACHE_MAX_BYTES

ASSUME CacheAssumption ==
    /\ Size \in [Stored -> Nat \ {0}]
    /\ MaxBlocks \in Nat \ {0} /\ MaxBytes \in Nat

VARIABLES
    cache,      \* _block_cache, least recently used first
    bytes,      \* _block_cache_bytes
    pruned,     \* blocks whose body is gone
    reader      \* what each thread is doing

cacheVars == <<cache, bytes, pruned, reader>>

NotCalled == [at |-> "done", block |-> "none", got |-> "none"]

Cached == ToSet(cache)

\* The bytes of some blocks, and how many those of a cache are.
BytesOf(S) == UNION {{b} \X (1..Size[b]) : b \in S}
CachedSize(s) == Cardinality(BytesOf(ToSet(s)))

CacheInit ==
    /\ cache = <<>> /\ bytes = 0 /\ pruned = {}
    /\ reader = [t \in Thread |-> NotCalled]

\* move_to_end, of an old or a new entry.
Touched(s, b) ==
    IF b \in ToSet(s) THEN Append(RemoveAt(s, CHOOSE i \in DOMAIN s : s[i] = b), b)
    ELSE Append(s, b)

Answers(t, b, got) == reader' = [reader EXCEPT ![t] = [at |-> "done", block |-> b, got |-> got]]

Hit(t, b) ==
    /\ reader[t].at = "done" /\ b \in Cached
    /\ cache' = Touched(cache, b)
    /\ Answers(t, b, "block")
    /\ UNCHANGED <<bytes, pruned>>

MissPruned(t, b) ==
    /\ reader[t].at = "done" /\ b \notin Cached /\ b \in pruned
    /\ Answers(t, b, "null")
    /\ UNCHANGED <<cache, bytes, pruned>>

\* The row has been read and the lock is released.
Miss(t, b) ==
    /\ reader[t].at = "done" /\ b \notin Cached /\ b \notin pruned
    /\ reader' = [reader EXCEPT ![t] = [at |-> "parse", block |-> b, got |-> "none"]]
    /\ UNCHANGED <<cache, bytes, pruned>>

\* The cache after n times popitem(last=False), and the byte count.
PoppedCache(s, n) == SubSeq(s, n + 1, Len(s))

\* Mutant: what is popped is not subtracted.
PoppedBytesKept(s, count, n) == count

PoppedBytes(s, count, n) == count - CachedSize(SubSeq(s, 1, n))

\* The condition of the eviction loop no longer holds.
Within(s, count) == Len(s) <= MaxBlocks /\ count <= MaxBytes

\* How often the loop pops: until the cache is within its bounds, or empty,
\* which is when popitem raises.
Pops(s, count) ==
    CHOOSE n \in 0..Len(s) :
        /\ Within(PoppedCache(s, n), PoppedBytes(s, count, n)) \/ n = Len(s)
        /\ \A m \in 0..(n - 1) :
             ~Within(PoppedCache(s, m), PoppedBytes(s, count, m))

\* The lock is taken again and the block remembered, whether or not another
\* thread has done so meanwhile.
Remember(t) ==
    /\ reader[t].at = "parse"
    /\ LET b == reader[t].block
           s == Touched(cache, b)
           count == bytes + Size[b]
           n == Pops(s, count)
       IN  /\ cache' = PoppedCache(s, n)
           /\ bytes' = PoppedBytes(s, count, n)
           /\ Answers(t, b, IF Within(cache', bytes') THEN "block" ELSE "KeyError")
    /\ UNCHANGED pruned

\* prune_to, inside Storage.write.
Prune(b) ==
    /\ b \notin pruned /\ pruned' = pruned \cup {b}
    /\ cache' = <<>> /\ bytes' = 0
    /\ UNCHANGED reader

CacheNext ==
    \/ \E t \in Thread : \E b \in Stored : Hit(t, b) \/ MissPruned(t, b) \/ Miss(t, b)
    \/ \E t \in Thread : Remember(t)
    \/ \E b \in Stored : Prune(b)

CacheSpec == CacheInit /\ [][CacheNext]_cacheVars

----------------------------------------------------------------------------

\* However the threads interleave, the cached blocks stay within both limits:
\* the byte count may be too high, never too low.  And get_block never raises:
\* although two threads that parse the same block count it twice, the surplus
\* never exceeds max_bytes, so the eviction loop stops before it pops from an
\* empty cache (get_block).
CacheIsSound ==
    /\ Len(cache) <= MaxBlocks /\ CachedSize(cache) <= bytes
    /\ CachedSize(cache) <= MaxBytes
    /\ \A t \in Thread : reader[t].got # "KeyError"

=============================================================================
