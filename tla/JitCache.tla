------------------------------ MODULE JitCache ------------------------------
(***************************************************************************)
(* The compiled code of jit.c: the arena it is written to, the direct-      *)
(* mapped cache that finds it again, and the run loop of cpu.c that asks    *)
(* for the block at rip and falls back to the interpreter.                  *)
(*                                                                         *)
(* What a block does is the business of BlockCompiler; here it is the       *)
(* number of its instructions and of its words.  A word of the arena        *)
(* remembers the block it is part of, so that code written over other code, *)
(* or found under another block's address, would show.                      *)
(***************************************************************************)
EXTENDS Integers, FiniteSets

CONSTANTS
  Addrs,      \* addresses rip may hold, 0 among them
  Slots,      \* the entries of the cache
  slot_of,    \* the hash of an address
  Stubs,      \* addresses of import stubs
  Size,       \* words in the arena
  MaxCount,   \* MAX_INSNS
  MaxWords    \* MAX_BLOCK

ASSUME CacheAssumption ==
  /\ Addrs \subseteq Nat /\ slot_of \in [Addrs -> Slots] /\ Stubs \subseteq Addrs
  /\ Size \in Nat /\ MaxCount \in Nat /\ MaxWords \in Nat

NULL == -1
None == [rip |-> NULL, code |-> NULL, n |-> 0]
Word == [from : Int, insns : Nat, words : Nat, nth : Nat]
Free == [from |-> NULL, insns |-> 0, words |-> 0, nth |-> 0]

VARIABLES
  cache,    \* j->cache: tag, code (an offset into the arena) and count
  arena,    \* the words at j->arena
  used,     \* j->used, in words
  exec,     \* the addresses rsd_as_ok(.., 1, RSD_PROT_X) accepts, for step()
  exec16,   \* those it accepts for 16 bytes, for rsd_jit_lookup()
  rip,      \* c->rip
  running,  \* c->running
  entered   \* the last block run_block() was given: rip, body and ninsn

cacheVars == <<cache, arena, used, exec, exec16, rip, running, entered>>

Slot == slot_of[rip]

-----------------------------------------------------------------------------
(* rsd_jit_lookup(): what it finds in the cache, and what it refuses.      *)

Cached_AnyTag == cache[Slot].tag = rip \/ cache[Slot].code # NULL
Cached == cache[Slot].tag = rip
Occupied == ~ Cached /\ cache[Slot].code # NULL
Vacant_Untagged == ~ Cached
Vacant == ~ Cached /\ ~ Occupied
Compilable == Vacant /\ rip \notin Stubs /\ rip \in exec16

rsd_jit_count == IF cache[Slot].tag = rip THEN cache[Slot].count ELSE 0

\* run_block(): compiled code runs and leaves rip anywhere, or faults.
\* System calls are not compiled, so permissions stay as they are.
EnterBlock(code, n) ==
  /\ entered' = [rip |-> rip, code |-> code, n |-> n]
  /\ rip' \in Addrs /\ running' \in BOOLEAN
  /\ UNCHANGED <<exec, exec16>>

\* step(): the interpreter runs a stub's import, or an instruction, which may
\* be a system call that changes permissions; elsewhere it faults.
Interpret ==
  /\ entered' = None
  /\ rip' \in Addrs
  /\ IF rip \in Stubs \cup exec
     THEN running' \in BOOLEAN /\ exec' \in SUBSET (Addrs \ {0}) /\ exec16' \in SUBSET exec'
     ELSE running' = FALSE /\ UNCHANGED <<exec, exec16>>

\* The block of rip is in the cache.
RunCached ==
  /\ running /\ Cached /\ cache[Slot].code # NULL
  /\ EnterBlock(cache[Slot].code, rsd_jit_count)
  /\ UNCHANGED <<cache, arena, used>>

\* NULL: nothing compilable at rip, its slot is taken, a stub, or no code.
RunUncached ==
  /\ running /\ ~ Compilable /\ (Cached => cache[Slot].code = NULL)
  /\ Interpret
  /\ UNCHANGED <<cache, arena, used>>

\* Too short, or too long once its exits are there: remembered as NULL.
Declined == [cache EXCEPT ![Slot].tag = rip, ![Slot].code = NULL]
Decline ==
  /\ running /\ Compilable
  /\ cache' = Declined
  /\ Interpret
  /\ UNCHANGED <<arena, used>>

\* The memcpy to the arena.
Copied(b) ==
  [w \in 0 .. (Size - 1) |->
     IF w \in used .. (used + b.words - 1)
     THEN [from |-> b.from, insns |-> b.insns, words |-> b.words, nth |-> w - used]
     ELSE arena[w]]

\* Whether there is room for it, and what is used up after it.
Fits(words) == used + words <= Size
Advance_None(words) == used
Advance(words) == used + words

\* A block of n instructions is compiled and entered.
Compile ==
  /\ running /\ Compilable
  /\ \E n \in 2 .. MaxCount, words \in 1 .. MaxWords :
       /\ Fits(words)
       /\ arena' = Copied([from |-> rip, insns |-> n, words |-> words])
       /\ used' = Advance(words)
       /\ cache' = [cache EXCEPT ![Slot] = [tag |-> rip, code |-> used, count |-> n]]
       /\ EnterBlock(used, n)

\* It is compiled, but the arena is full: nothing is remembered.
ArenaFull ==
  /\ running /\ Compilable
  /\ \E words \in 1 .. MaxWords : ~ Fits(words)
  /\ Interpret
  /\ UNCHANGED <<cache, arena, used>>

-----------------------------------------------------------------------------
\* rsd_jit_init(): an entry that was never used has tag 0 and no code.
CacheInit ==
  /\ cache = [s \in Slots |-> [tag |-> 0, code |-> NULL, count |-> 0]]
  /\ arena = [w \in 0 .. (Size - 1) |-> Free] /\ used = 0
  /\ exec \in SUBSET (Addrs \ {0}) /\ exec16 \in SUBSET exec /\ rip \in Addrs
  /\ running = TRUE /\ entered = None

CacheNext == RunCached \/ RunUncached \/ Decline \/ Compile \/ ArenaFull

CacheSpec == CacheInit /\ [][CacheNext]_cacheVars

-----------------------------------------------------------------------------
(* Properties.                                                             *)

\* The variables have their types; the arena is never filled past its end.
CacheTypeOK ==
  /\ cache \in [Slots -> [tag : Nat, code : 0 .. Size \cup {NULL}, count : Nat]]
  /\ arena \in [0 .. (Size - 1) -> Word] /\ used \in 0 .. Size
  /\ exec \subseteq Addrs /\ exec16 \subseteq exec /\ rip \in Addrs /\ running \in BOOLEAN

\* The whole block of n instructions that was compiled for address a is at
\* arena offset c, and none of its words has been written over since.
BlockAt(c, a, n) ==
  /\ c \in DOMAIN arena
  /\ \A k \in 0 .. (arena[c].words - 1) :
       /\ c + k \in DOMAIN arena
       /\ arena[c + k] = [from |-> a, insns |-> n, words |-> arena[c].words, nth |-> k]
  /\ arena[c].words > 0

\* What the cache offers for an address is the code compiled for it, intact,
\* whatever was compiled, declined or refused for addresses sharing its slot.
EntriesIntact ==
  \A s \in Slots : cache[s].code # NULL =>
    BlockAt(cache[s].code, cache[s].tag, cache[s].count) /\ slot_of[cache[s].tag] = s

\* The loop enters the block of the address it is at, and counts as many
\* instructions as that block has: at least two, so that a run with a budget
\* moves towards its end.
EnteredRight ==
  entered # None => BlockAt(entered.code, entered.rip, entered.n) /\ entered.n >= 2

\* Arena use is bounded by the slots that are filled: a block stays for good once
\* compiled, so a slot costs the arena at most one, however addresses take turns.
ArenaBounded == used <= MaxWords * Cardinality({s \in Slots : cache[s].code # NULL})

=============================================================================
