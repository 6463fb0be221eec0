--------------------------- MODULE JitCacheProofs ----------------------------
(***************************************************************************)
(* The cache hands out what was compiled, for any hash, any number of slots *)
(* and any size of arena.  What the cache points to, and what the loop last *)
(* entered, are whole blocks that lie below `used`, and the arena is only   *)
(* ever written from `used` on.                                             *)
(***************************************************************************)
EXTENDS JitCache, FiniteSetTheorems, TLAPS

-----------------------------------------------------------------------------
(* The inductive invariant.                                                *)

\* A whole block that later ones cannot reach.
SafeBlock(c, a, n) == BlockAt(c, a, n) /\ c \in Nat /\ c + arena[c].words <= used /\ n >= 2

CacheInv ==
  /\ CacheTypeOK
  /\ \A s \in Slots : cache[s].code # NULL =>
       /\ SafeBlock(cache[s].code, cache[s].tag, cache[s].count)
       /\ slot_of[cache[s].tag] = s
  /\ entered # None => SafeBlock(entered.code, entered.rip, entered.n)

-----------------------------------------------------------------------------
(* The steps.                                                              *)

LEMMA InitCacheInv == CacheInit => CacheInv
  <1> SUFFICES ASSUME CacheInit PROVE CacheInv
    OBVIOUS
  <1>1. Size \in Nat /\ Addrs \subseteq Nat
    BY CacheAssumption
  <1>2. cache \in [Slots -> [tag : Nat, code : 0 .. Size \cup {NULL}, count : Nat]]
    BY DEF CacheInit
  <1>3. arena \in [0 .. (Size - 1) -> Word]
    BY DEF CacheInit, Free, Word, NULL
  <1>4. CacheTypeOK
    BY <1>1, <1>2, <1>3 DEF CacheInit, CacheTypeOK
  <1> QED BY <1>4 DEF CacheInit, CacheInv, None

LEMMA InterpretKeeps ==
  ASSUME CacheTypeOK, Interpret, arena' = arena, used' = used,
         cache' \in [Slots -> [tag : Nat, code : 0 .. Size \cup {NULL}, count : Nat]]
  PROVE  CacheTypeOK' /\ entered' = None
  BY DEF CacheTypeOK, Interpret

LEMMA DeclinePreserves == CacheInv /\ Decline => CacheInv'
  <1> SUFFICES ASSUME CacheInv, Decline PROVE CacheInv'
    OBVIOUS
  <1>1. /\ cache \in [Slots -> [tag : Nat, code : 0 .. Size \cup {NULL}, count : Nat]]
        /\ Slot \in Slots /\ rip \in Nat
    BY CacheAssumption DEF CacheInv, CacheTypeOK, Slot
  <1>2. cache' = [cache EXCEPT ![Slot].tag = rip, ![Slot].code = NULL]
    BY DEF Decline, Declined
  <1>3. cache' \in [Slots -> [tag : Nat, code : 0 .. Size \cup {NULL}, count : Nat]]
    BY <1>1, <1>2
  <1>4. arena' = arena /\ used' = used /\ Interpret
    BY DEF Decline
  <1>5. CacheTypeOK' /\ entered' = None
    BY <1>3, <1>4, InterpretKeeps DEF CacheInv
  <1>6. ASSUME NEW s \in Slots, cache'[s].code # NULL
        PROVE  /\ SafeBlock(cache[s].code, cache[s].tag, cache[s].count)'
               /\ slot_of[cache'[s].tag] = s
    <2>1. s # Slot /\ cache'[s] = cache[s]
      BY <1>1, <1>2, <1>6
    <2>2. SafeBlock(cache[s].code, cache[s].tag, cache[s].count) /\ slot_of[cache[s].tag] = s
      BY <1>6, <2>1 DEF CacheInv
    <2> QED BY <1>4, <2>1, <2>2 DEF SafeBlock, BlockAt
  <1>7. None' = None
    BY DEF None
  <1> QED BY <1>5, <1>6, <1>7 DEF CacheInv

LEMMA CompilePreserves == CacheInv /\ Compile => CacheInv'
  <1> SUFFICES ASSUME CacheInv, Compile PROVE CacheInv'
    OBVIOUS
  <1>0. /\ Size \in Nat /\ MaxCount \in Nat /\ MaxWords \in Nat /\ Addrs \subseteq Nat
        /\ cache \in [Slots -> [tag : Nat, code : 0 .. Size \cup {NULL}, count : Nat]]
        /\ arena \in [0 .. (Size - 1) -> Word] /\ used \in 0 .. Size
        /\ Slot \in Slots /\ rip \in Addrs /\ rip \in Nat
    BY CacheAssumption DEF CacheInv, CacheTypeOK, Slot
  <1>1. PICK n \in 2 .. MaxCount, words \in 1 .. MaxWords :
          /\ Fits(words)
          /\ arena' = Copied([from |-> rip, insns |-> n, words |-> words])
          /\ used' = Advance(words)
          /\ cache' = [cache EXCEPT ![Slot] = [tag |-> rip, code |-> used, count |-> n]]
          /\ EnterBlock(used, n)
    BY DEF Compile
  <1>2. used + words <= Size /\ used' = used + words /\ n \in Nat /\ words \in Nat \ {0} /\ n >= 2
    BY <1>0, <1>1 DEF Fits, Advance
  <1>3. arena' = [w \in 0 .. (Size - 1) |->
                    IF w \in used .. (used + words - 1)
                    THEN [from |-> rip, insns |-> n, words |-> words, nth |-> w - used]
                    ELSE arena[w]]
    BY <1>1 DEF Copied
  <1>4. CacheTypeOK'
    <2>1. cache' \in [Slots -> [tag : Nat, code : 0 .. Size \cup {NULL}, count : Nat]]
      BY <1>0, <1>1, <1>2
    <2>2. arena' \in [0 .. (Size - 1) -> Word]
      <3>1. ASSUME NEW w \in 0 .. (Size - 1) PROVE arena'[w] \in Word
        <4>1. CASE w \in used .. (used + words - 1)
          <5>1. arena'[w] = [from |-> rip, insns |-> n, words |-> words, nth |-> w - used]
            BY <1>3, <4>1
          <5>2. w - used \in Nat /\ rip \in Int
            BY <1>0, <4>1
          <5> QED BY <1>2, <5>1, <5>2 DEF Word
        <4>2. CASE w \notin used .. (used + words - 1)
          BY <1>0, <1>3, <4>2
        <4> QED BY <4>1, <4>2
      <3> QED BY <1>3, <3>1
    <2>3. used' \in 0 .. Size
      BY <1>0, <1>2
    <2>4. exec' \subseteq Addrs /\ exec16' \subseteq exec' /\ rip' \in Addrs /\ running' \in BOOLEAN
      BY <1>1 DEF EnterBlock, CacheInv, CacheTypeOK
    <2> QED BY <2>1, <2>2, <2>3, <2>4 DEF CacheTypeOK
  <1>5. /\ used \in DOMAIN arena' /\ arena'[used].words = words
        /\ \A k \in 0 .. (words - 1) :
             /\ used + k \in DOMAIN arena'
             /\ arena'[used + k] = [from |-> rip, insns |-> n, words |-> words, nth |-> k]
    <2>1. ASSUME NEW k \in 0 .. (words - 1)
          PROVE  /\ used + k \in DOMAIN arena'
                 /\ arena'[used + k] = [from |-> rip, insns |-> n, words |-> words, nth |-> k]
      <3>1. used + k \in 0 .. (Size - 1) /\ used + k \in used .. (used + words - 1)
            /\ (used + k) - used = k
        BY <1>0, <1>2
      <3> QED BY <1>3, <3>1
    <2>2. used \in 0 .. (Size - 1) /\ used \in used .. (used + words - 1)
      BY <1>0, <1>2
    <2>3. used \in DOMAIN arena' /\ arena'[used].words = words
      BY <1>3, <2>2
    <2> QED BY <2>1, <2>3
  <1>6. ASSUME NEW c, NEW a, NEW q, SafeBlock(c, a, q)
        PROVE  /\ c \in DOMAIN arena' /\ c \in Nat /\ q >= 2 /\ arena'[c].words > 0
               /\ c + arena'[c].words <= used'
               /\ \A k \in 0 .. (arena'[c].words - 1) :
                    /\ c + k \in DOMAIN arena'
                    /\ arena'[c + k] = [from |-> a, insns |-> q, words |-> arena'[c].words, nth |-> k]
    <2>1. /\ c \in 0 .. (Size - 1) /\ c \in Nat /\ arena[c].words \in Nat /\ arena[c].words > 0
          /\ c + arena[c].words <= used /\ q >= 2
      BY <1>0, <1>6 DEF SafeBlock, BlockAt, Word
    <2>2. ASSUME NEW w \in 0 .. (Size - 1), w < used PROVE arena'[w] = arena[w]
      BY <1>0, <1>3, <2>2
    <2>3. arena'[c] = arena[c]
      BY <1>0, <2>1, <2>2
    <2>4. ASSUME NEW k \in 0 .. (arena[c].words - 1)
          PROVE  /\ c + k \in DOMAIN arena'
                 /\ arena'[c + k] = [from |-> a, insns |-> q, words |-> arena[c].words, nth |-> k]
      <3>1. c + k \in 0 .. (Size - 1) /\ c + k < used
        BY <1>0, <2>1
      <3>2. arena[c + k] = [from |-> a, insns |-> q, words |-> arena[c].words, nth |-> k]
        BY <1>6 DEF SafeBlock, BlockAt
      <3> QED BY <1>3, <2>2, <3>1, <3>2
    <2>5. c + arena[c].words <= used'
      BY <1>0, <1>2, <2>1
    <2> QED BY <1>3, <2>1, <2>3, <2>4, <2>5
  <1>7. ASSUME NEW s \in Slots, cache'[s].code # NULL
        PROVE  /\ SafeBlock(cache[s].code, cache[s].tag, cache[s].count)'
               /\ slot_of[cache'[s].tag] = s
    <2>1. CASE s = Slot
      <3>1. cache'[s] = [tag |-> rip, code |-> used, count |-> n]
        BY <1>0, <1>1, <2>1
      <3>2. used \in Nat /\ used + words <= used' /\ words > 0
        BY <1>0, <1>2
      <3> QED BY <1>2, <1>5, <2>1, <3>1, <3>2 DEF SafeBlock, BlockAt, Slot
    <2>2. CASE s # Slot
      <3>1. cache'[s] = cache[s]
        BY <1>0, <1>1, <2>2
      <3>2. SafeBlock(cache[s].code, cache[s].tag, cache[s].count) /\ slot_of[cache[s].tag] = s
        BY <1>7, <3>1 DEF CacheInv
      <3> DEFINE c == cache[s].code
                 a == cache[s].tag
                 q == cache[s].count
      <3>3. /\ c \in DOMAIN arena' /\ c \in Nat /\ q >= 2 /\ arena'[c].words > 0
            /\ c + arena'[c].words <= used'
            /\ \A k \in 0 .. (arena'[c].words - 1) :
                 /\ c + k \in DOMAIN arena'
                 /\ arena'[c + k] = [from |-> a, insns |-> q, words |-> arena'[c].words, nth |-> k]
        BY <1>6, <3>2
      <3> QED BY <3>1, <3>2, <3>3 DEF SafeBlock, BlockAt
    <2> QED BY <2>1, <2>2
  <1>8. SafeBlock(entered.code, entered.rip, entered.n)'
    <2>1. entered' = [rip |-> rip, code |-> used, n |-> n]
      BY <1>1 DEF EnterBlock
    <2>2. used \in Nat /\ used + words <= used' /\ words > 0
      BY <1>0, <1>2
    <2> QED BY <1>2, <1>5, <2>1, <2>2 DEF SafeBlock, BlockAt
  <1> QED BY <1>4, <1>7, <1>8 DEF CacheInv

LEMMA CacheInvPreserved == CacheInv /\ [CacheNext]_cacheVars => CacheInv'
  <1> SUFFICES ASSUME CacheInv, [CacheNext]_cacheVars PROVE CacheInv'
    OBVIOUS
  <1>1. ASSUME cache' = cache, arena' = arena, used' = used
        PROVE  \A s \in Slots : cache'[s].code # NULL =>
                 /\ SafeBlock(cache[s].code, cache[s].tag, cache[s].count)'
                 /\ slot_of[cache'[s].tag] = s
    BY <1>1 DEF CacheInv, SafeBlock, BlockAt
  <1>2. CASE RunCached
    <2>1. cache' = cache /\ arena' = arena /\ used' = used
      BY <1>2 DEF RunCached
    <2>2. CacheTypeOK'
      BY <1>2, <2>1 DEF RunCached, EnterBlock, CacheInv, CacheTypeOK
    <2>3. entered' = [rip |-> rip, code |-> cache[Slot].code, n |-> cache[Slot].count]
      BY <1>2 DEF RunCached, EnterBlock, rsd_jit_count, Cached
    <2>4. SafeBlock(cache[Slot].code, rip, cache[Slot].count)
      <3>1. Slot \in Slots
        BY CacheAssumption DEF CacheInv, CacheTypeOK, Slot
      <3> QED BY <1>2, <3>1 DEF RunCached, Cached, CacheInv
    <2>5. SafeBlock(entered.code, entered.rip, entered.n)'
      BY <2>1, <2>3, <2>4 DEF SafeBlock, BlockAt
    <2> QED BY <1>1, <2>1, <2>2, <2>5 DEF CacheInv
  <1>3. CASE RunUncached \/ ArenaFull
    <2>1. cache' = cache /\ arena' = arena /\ used' = used /\ Interpret
      BY <1>3 DEF RunUncached, ArenaFull
    <2>2. CacheTypeOK' /\ entered' = None
      BY <2>1, InterpretKeeps DEF CacheInv, CacheTypeOK
    <2> QED BY <1>1, <2>1, <2>2 DEF CacheInv, None
  <1>4. CASE Decline
    BY <1>4, DeclinePreserves
  <1>5. CASE Compile
    BY <1>5, CompilePreserves
  <1>6. CASE UNCHANGED cacheVars
    <2>1. CacheTypeOK'
      BY <1>6 DEF cacheVars, CacheInv, CacheTypeOK
    <2> QED BY <1>1, <1>6, <2>1 DEF cacheVars, CacheInv, SafeBlock, BlockAt, None
  <1> QED
    BY <1>2, <1>3, <1>4, <1>5, <1>6 DEF CacheNext

-----------------------------------------------------------------------------
(* The theorems.                                                           *)

LEMMA CacheInvAlways == CacheSpec => []CacheInv
  BY InitCacheInv, CacheInvPreserved, PTL DEF CacheSpec

\* What the cache offers for an address is the code compiled for it, intact,
\* whatever was compiled, declined or refused since.
THEOREM CacheSound == CacheSpec => []EntriesIntact
  <1>1. CacheInv => EntriesIntact
    BY DEF CacheInv, SafeBlock, EntriesIntact
  <1> QED
    BY <1>1, CacheInvAlways, PTL

\* The loop enters the block of the address it is at, with the number of
\* instructions that block has.
THEOREM BlockOfRip == CacheSpec => []EnteredRight
  <1>1. CacheInv => EnteredRight
    BY DEF CacheInv, SafeBlock, EnteredRight
  <1> QED
    BY <1>1, CacheInvAlways, PTL

-----------------------------------------------------------------------------
(* How much of the arena is used.                                          *)

\* The entries that have code: finitely many, since each was compiled.
Compiled == {s \in Slots : cache[s].code # NULL}
BoundInv == IsFiniteSet(Compiled) /\ used <= MaxWords * Cardinality(Compiled)

LEMMA BoundPreserved == CacheInv /\ BoundInv /\ [CacheNext]_cacheVars => BoundInv'
  <1> SUFFICES ASSUME CacheInv, BoundInv, [CacheNext]_cacheVars PROVE BoundInv'
    OBVIOUS
  <1>0. /\ Size \in Nat /\ MaxWords \in Nat /\ Slot \in Slots /\ used \in Nat
        /\ cache \in [Slots -> [tag : Nat, code : 0 .. Size \cup {NULL}, count : Nat]]
        /\ IsFiniteSet(Compiled) /\ Cardinality(Compiled) \in Nat
        /\ used <= MaxWords * Cardinality(Compiled)
    BY CacheAssumption, FS_CardinalityType DEF CacheInv, CacheTypeOK, Slot, BoundInv
  <1>1. CASE Compile
    <2>1. PICK n \in 2 .. MaxCount, words \in 1 .. MaxWords :
            /\ used' = used + words
            /\ cache' = [cache EXCEPT ![Slot] = [tag |-> rip, code |-> used, count |-> n]]
      BY <1>1 DEF Compile, Advance
    <2>2. Slot \notin Compiled
      BY <1>1 DEF Compile, Compilable, Vacant, Occupied, Compiled
    <2>3. Compiled' = Compiled \cup {Slot}
      <3>1. cache'[Slot].code # NULL
        BY <1>0, <2>1 DEF NULL
      <3>2. \A s \in Slots : s # Slot => cache'[s] = cache[s]
        BY <1>0, <2>1
      <3> QED BY <1>0, <3>1, <3>2 DEF Compiled, NULL
    <2>4. IsFiniteSet(Compiled') /\ Cardinality(Compiled') = Cardinality(Compiled) + 1
      BY <1>0, <2>2, <2>3, FS_AddElement
    <2>5. ASSUME NEW c \in Nat, used <= MaxWords * c
          PROVE  used + words <= MaxWords * (c + 1)
      <3>1. MaxWords * (c + 1) = MaxWords * c + MaxWords
        BY <1>0
      <3>2. words \in Nat /\ words <= MaxWords /\ MaxWords * c \in Nat
        BY <1>0
      <3> QED BY <1>0, <2>5, <3>1, <3>2
    <2>6. used + words <= MaxWords * (Cardinality(Compiled) + 1)
      BY <1>0, <2>5
    <2> QED BY <2>1, <2>4, <2>6 DEF BoundInv
  <1>2. CASE Decline
    <2>1. /\ cache' = [cache EXCEPT ![Slot].tag = rip, ![Slot].code = NULL] /\ used' = used
          /\ cache[Slot].code = NULL
      BY <1>2 DEF Decline, Declined, Compilable, Vacant, Occupied
    <2>2. \A s \in Slots : cache'[s].code = cache[s].code
      BY <1>0, <2>1
    <2>3. Compiled' = Compiled
      BY <2>2 DEF Compiled, NULL
    <2> QED BY <1>0, <2>1, <2>3 DEF BoundInv
  <1>3. CASE UNCHANGED <<cache, used>>
    <2>1. Compiled' = Compiled
      BY <1>3 DEF Compiled, NULL
    <2> QED BY <1>0, <1>3, <2>1 DEF BoundInv
  <1>4. RunCached \/ RunUncached \/ ArenaFull \/ UNCHANGED cacheVars => UNCHANGED <<cache, used>>
    BY DEF RunCached, RunUncached, ArenaFull, cacheVars
  <1> QED
    BY <1>1, <1>2, <1>3, <1>4 DEF CacheNext

\* Each slot of the cache costs the arena at most one block, however many
\* addresses take turns on it and whatever the arena's size.
THEOREM ArenaUseBounded == CacheSpec => []ArenaBounded
  <1>1. CacheInit => BoundInv
    <2> SUFFICES ASSUME CacheInit PROVE BoundInv
      OBVIOUS
    <2>1. Compiled = {}
      BY DEF CacheInit, Compiled
    <2>2. IsFiniteSet(Compiled) /\ Cardinality(Compiled) = 0
      BY <2>1, FS_EmptySet
    <2>3. MaxWords * 0 = 0
      BY CacheAssumption
    <2>4. used = 0
      BY DEF CacheInit
    <2> QED BY <2>2, <2>3, <2>4 DEF BoundInv
  <1>2. BoundInv => ArenaBounded
    BY DEF BoundInv, ArenaBounded, Compiled
  <1> QED
    BY <1>1, <1>2, BoundPreserved, CacheInvAlways, PTL DEF CacheSpec

=============================================================================
