-------------------------- MODULE CheckModeProofs ---------------------------
(***************************************************************************)
(* What -J promises, for every memory, window, program and translation of   *)
(* it: undoing is exact, agreement means equal memory, right code raises no *)
(* alarm but the known one, and checking is invisible to the guest.         *)
(***************************************************************************)
EXTENDS CheckMode, SequenceTheorems, TLAPS

-----------------------------------------------------------------------------
(* The inductive invariant.                                                *)

\* An entry of a log keeps at least the bytes of its own write.
LogEntry == {e \in [addr : Addr, size : Nat, val : Seq(Byte), before : Seq(Byte)] :
               e.size <= Len(e.before)}

Memory == [Addr -> Byte]
Emitted == {o \in Code : Contained(o)}

Types ==
  /\ mem \in Memory /\ mem0 \in Memory /\ mem1 \in Memory
  /\ reg \in Byte /\ before \in Byte /\ fault \in BOOLEAN
  /\ i \in Nat
  /\ insns \in Seq(Insns) /\ code \in Seq(Emitted)
  /\ Len(insns) = Len(code) /\ Len(code) <= MaxInsns
  /\ jit_log \in Seq(LogEntry) /\ int_log \in Seq(LogEntry)

\* The bytes an entry keeps, and those it was made for.
Keeps(e, b) == b \in Bytes(e.addr, Len(e.before))
Wrote(e, b) == b \in Bytes(e.addr, e.size)
KeptByte(e, b) == e.before[b - e.addr + 1]

\* Undoing the first j entries of log, from the last to the first, takes
\* memory m back to m0: a byte that none of them keeps is that of m0 now, and
\* the first that keeps a byte has the byte of m0.
Restores(log, j, m, m0) ==
  \A b \in Addr :
    /\ (\A k \in 1 .. j : ~ Keeps(log[k], b)) => m[b] = m0[b]
    /\ \A k \in 1 .. j :
         Keeps(log[k], b) /\ (\A l \in 1 .. (k - 1) : ~ Keeps(log[l], b)) => KeptByte(log[k], b) = m0[b]

\* Where the log has no write, memory m is m0 still.
Untouched(log, m, m0) ==
  \A b \in Addr : (\A k \in 1 .. Len(log) : ~ Wrote(log[k], b)) => m[b] = m0[b]

WindowsOf(log, m) == [k \in 1 .. Len(log) |-> Slice(m, log[k].addr, Len(log[k].before))]

\* Neither log overflows: it has room for two entries per instruction.
CheckInv ==
  /\ Types
  /\ phase \in {"idle", "compiled", "undo", "replay", "agree", "disagree"}
  /\ phase = "compiled" => /\ i <= Len(code) /\ Len(jit_log) <= 2 * i /\ ~ jit_over
                           /\ Restores(jit_log, Len(jit_log), mem, mem0)
  /\ phase \in {"undo", "replay"} => /\ ~ jit_over /\ windows = WindowsOf(jit_log, mem1)
                                     /\ Restores(jit_log, Len(jit_log), mem1, mem0)
  /\ phase = "undo" => i <= Len(jit_log) /\ Restores(jit_log, i, mem, mem0)
  /\ phase = "replay" => /\ i <= Len(insns) /\ Len(int_log) <= 2 * i /\ ~ int_over
                         /\ Untouched(int_log, mem, mem0)
  /\ phase = "agree" => mem = mem1

-----------------------------------------------------------------------------
(* Instructions and the log.                                               *)

\* What the instructions of guest and compiled code have in common.
Shaped(o) == /\ o.kind \in Kinds /\ o.addr \in Addr /\ o.size \in 1 .. (2 * Half)
             /\ o.kind = "put2" => o.size = 2 * Half

LEMMA Sizes ==
  /\ Top \in Nat \ {0} /\ Base \in Nat \ {0} /\ Half \in Nat \ {0}
  /\ Window \in Nat /\ Window >= 2 * Half /\ LogMax \in Nat /\ MaxInsns \in Nat
  /\ LogMax >= 2 * MaxInsns
  /\ readable \subseteq Addr /\ writable \subseteq Addr /\ guest \subseteq Addr
  BY InsnsAssumption, CheckAssumption

LEMMA InsnsShaped ==
  /\ \A o \in Insns : Shaped(o)
  /\ \A o \in Emitted : Shaped(o) /\ o.slip \in Nat /\ Contained(o)
  BY InsnsAssumption, CheckAssumption DEF Shaped, Emitted, Insn

\* The bytes of a store, one for each of its size.
LEMMA NewBytesType ==
  ASSUME NEW o, Shaped(o), NEW m \in Memory, NEW r \in Byte
  PROVE  /\ NewBytes(o, m, r) \in Seq(Byte) /\ Len(NewBytes(o, m, r)) = o.size
         /\ NewBytes(o, m, r) \in [1 .. o.size -> Byte]
  <1>0. /\ o.size \in Nat /\ o.addr \in Nat /\ Base \in Nat \ {0} /\ r \in Nat
        /\ \A b \in Addr : m[b] \in Nat
    BY Sizes DEF Shaped, Addr, Byte, Memory
  <1>1. ASSUME NEW k \in 1 .. o.size
        PROVE  NewBytes(o, m, r)[k] \in Byte
    <2>1. CASE o.kind = "rmw" /\ access_ok(o, readable)
      <3>1. o.addr + k - 1 \in Addr
        BY <1>0, <2>1, Sizes DEF access_ok, Bytes
      <3>2. m[o.addr + k - 1] + r \in Nat
        BY <1>0, <3>1
      <3>3. \A x \in Nat : x % Base \in 0 .. (Base - 1)
        BY <1>0
      <3>4. (m[o.addr + k - 1] + r) % Base \in Byte
        BY <3>2, <3>3 DEF Byte
      <3> QED BY <2>1, <3>4 DEF NewBytes
    <2>2. CASE ~ (o.kind = "rmw" /\ access_ok(o, readable))
      BY <2>2 DEF NewBytes
    <2> QED BY <2>1, <2>2
  <1>2. NewBytes(o, m, r) \in [1 .. o.size -> Byte]
    BY <1>1 DEF NewBytes
  <1> QED BY <1>0, <1>2

\* A store changes the bytes it is given, and no others.
LEMMA StoreType ==
  ASSUME NEW m \in Memory, NEW a \in Nat, NEW new \in Seq(Byte)
  PROVE  /\ st(m, a, new) \in Memory
         /\ \A b \in Addr : b \notin Bytes(a, Len(new)) => st(m, a, new)[b] = m[b]
         /\ \A b \in Addr : b \in Bytes(a, Len(new)) => st(m, a, new)[b] = new[b - a + 1]
  <1>1. ASSUME NEW b \in Addr, b \in Bytes(a, Len(new)) PROVE new[b - a + 1] \in Byte
    <2>1. b - a + 1 \in 1 .. Len(new)
      BY <1>1, Sizes DEF Bytes, Addr
    <2> QED BY <2>1
  <1> QED BY <1>1 DEF st, Memory

\* span() is at least the size of the write, and what it covers is memory.
LEMMA SpanCovers ==
  ASSUME NEW a \in Addr, NEW size \in 0 .. (2 * Half), Bytes(a, size) \subseteq Addr
  PROVE  /\ span(a, size) \in Nat /\ size <= span(a, size)
         /\ Bytes(a, span(a, size)) \subseteq Addr
  BY Sizes DEF span

\* An entry made for a write keeps the bytes that memory has.
LEMMA EntryKeeps ==
  ASSUME NEW m \in Memory, NEW a \in Addr, NEW size \in 1 .. (2 * Half), NEW val \in Seq(Byte),
         Bytes(a, size) \subseteq Addr
  PROVE  LET e == Entry(m, a, size, val)
         IN  /\ e \in LogEntry /\ e.addr = a /\ e.size = size /\ Len(e.before) = span(a, size)
             /\ \A b \in Addr : Keeps(e, b) => KeptByte(e, b) = m[b]
  <1> DEFINE w == span(a, size)
             e == Entry(m, a, size, val)
  <1>1. w \in Nat /\ size <= w /\ Bytes(a, w) \subseteq Addr /\ size \in Nat /\ a \in Nat
    BY Sizes, SpanCovers DEF Addr
  <1> HIDE DEF w
  <1>2. Slice(m, a, w) \in Seq(Byte) /\ Len(Slice(m, a, w)) = w
    <2>1. \A k \in 1 .. w : a + k - 1 \in Addr
      BY <1>1 DEF Bytes
    <2>2. Slice(m, a, w) \in [1 .. w -> Byte]
      BY <2>1 DEF Slice, Memory
    <2> QED BY <1>1, <2>2
  <1>3. e = [addr |-> a, size |-> size, val |-> val, before |-> Slice(m, a, w)]
    BY DEF Entry, w
  <1>4. ASSUME NEW b \in Addr, Keeps(e, b) PROVE KeptByte(e, b) = m[b]
    <2>1. b \in a .. (a + w - 1) /\ b \in Int
      BY <1>2, <1>3, <1>4, Sizes DEF Keeps, Bytes, Addr
    <2>2. b - a + 1 \in 1 .. w /\ a + (b - a + 1) - 1 = b
      BY <1>1, <2>1
    <2> QED BY <1>3, <2>2 DEF KeptByte, Slice
  <1> QED BY <1>1, <1>2, <1>3, <1>4 DEF LogEntry, w


\* Logging a store, where there is room: the entries are new ones at the end,
\* each keeps the bytes that memory has, and together they are the store.
LEMMA LoggedStore ==
  ASSUME NEW o, Shaped(o), NEW m \in Memory, NEW new \in Seq(Byte), Len(new) = o.size,
         NEW log \in Seq(LogEntry), Len(log) + 2 <= LogMax, Bytes(o.addr, o.size) \subseteq Addr
  PROVE  LET log2 == Logged(log, o, m, new)
         IN  /\ log2 \in Seq(LogEntry) /\ Len(log2) \in (Len(log) + 1) .. (Len(log) + 2)
             /\ \A k \in 1 .. Len(log) : log2[k] = log[k]
             /\ \A k \in (Len(log) + 1) .. Len(log2), b \in Addr :
                  Keeps(log2[k], b) => KeptByte(log2[k], b) = m[b]
             /\ \A b \in Bytes(o.addr, o.size) :
                  \E k \in (Len(log) + 1) .. Len(log2) : Wrote(log2[k], b)
             /\ o.kind # "put2" => /\ log2[Len(log) + 1].addr = o.addr
                                   /\ Len(log2[Len(log) + 1].before) = span(o.addr, o.size)
             /\ ~ Overflows(log, o)
  <1> DEFINE n == Len(log)
  <1>0. /\ n \in Nat /\ LogMax \in Nat /\ Half \in Nat \ {0} /\ n + 2 <= LogMax
        /\ o.addr \in Nat /\ o.size \in 1 .. (2 * Half) /\ o.addr \in Addr
    BY Sizes DEF Shaped, Addr
  <1>1. CASE o.kind = "put2"
    <2> DEFINE h == o.addr + Half
               lo == SubSeq(new, 1, Half)
               hi == SubSeq(new, Half + 1, 2 * Half)
               e1 == Entry(m, o.addr, Half, lo)
               e2 == Entry(m, h, Half, hi)
    <2>1. o.size = 2 * Half /\ h \in Nat /\ Len(new) = 2 * Half /\ Half \in 1 .. (2 * Half)
      BY <1>0, <1>1 DEF Shaped
    <2>2. lo \in Seq(Byte) /\ hi \in Seq(Byte)
      BY <1>0, <2>1, SubSeqProperties
    <2>3. h \in Addr /\ Bytes(o.addr, Half) \subseteq Addr /\ Bytes(h, Half) \subseteq Addr
      <3>1. \A b \in Bytes(o.addr, Half) \cup Bytes(h, Half) : b \in Bytes(o.addr, o.size)
        BY <1>0, <2>1, SMTT(30) DEF Bytes
      <3>2. h \in Bytes(h, Half)
        BY <1>0, <2>1 DEF Bytes
      <3> QED BY <3>1, <3>2
    <2> HIDE DEF lo, hi, h
    <2>4. /\ e1 \in LogEntry /\ e1.addr = o.addr /\ e1.size = Half
          /\ \A b \in Addr : Keeps(e1, b) => KeptByte(e1, b) = m[b]
      <3>1. o.addr \in Addr /\ Half \in 1 .. (2 * Half) /\ lo \in Seq(Byte) /\ Bytes(o.addr, Half) \subseteq Addr
        BY <1>0, <2>1, <2>2, <2>3
      <3> QED BY <3>1, EntryKeeps
    <2>5. /\ e2 \in LogEntry /\ e2.addr = h /\ e2.size = Half
          /\ \A b \in Addr : Keeps(e2, b) => KeptByte(e2, b) = m[b]
      BY <1>0, <2>1, <2>2, <2>3, EntryKeeps
    <2> HIDE DEF e1, e2
    <2>6. Logged(log, o, m, new) = Append(Append(log, e1), e2)
      <3>1. Len(Append(log, e1)) = n + 1
        BY <2>4
      <3>2. log_write(log, e1) = Append(log, e1)
        BY <1>0 DEF log_write
      <3>3. log_write(Append(log, e1), e2) = Append(Append(log, e1), e2)
        BY <1>0, <3>1 DEF log_write
      <3> QED BY <1>1, <3>2, <3>3 DEF Logged, e1, e2, lo, hi, h
    <2> DEFINE log2 == Append(Append(log, e1), e2)
    <2>7. /\ log2 \in Seq(LogEntry) /\ Len(log2) = n + 2
          /\ \A k \in 1 .. n : log2[k] = log[k]
          /\ log2[n + 1] = e1 /\ log2[n + 2] = e2
      BY <1>0, <2>4, <2>5
    <2> HIDE DEF log2
    <2>8. ASSUME NEW b \in Bytes(o.addr, o.size)
          PROVE  Wrote(e1, b) \/ Wrote(e2, b)
      BY <1>0, <2>1, <2>4, <2>5 DEF Wrote, Bytes, h
    <2>9. \A k \in (n + 1) .. (n + 2) : k = n + 1 \/ k = n + 2
      BY <1>0
    <2>10. n + 1 \in (n + 1) .. (n + 2) /\ n + 2 \in (n + 1) .. (n + 2)
      BY <1>0
    <2>11. ~ Overflows(log, o)
      BY <1>0, <1>1 DEF Overflows, Entries
    <2>12. /\ \A k \in (n + 1) .. (n + 2), b \in Addr :
                Keeps(log2[k], b) => KeptByte(log2[k], b) = m[b]
           /\ \A b \in Bytes(o.addr, o.size) : \E k \in (n + 1) .. (n + 2) : Wrote(log2[k], b)
      BY <2>4, <2>5, <2>7, <2>8, <2>9, <2>10
    <2> QED BY <1>0, <1>1, <2>6, <2>7, <2>10, <2>11, <2>12 DEF log2
  <1>2. CASE o.kind # "put2"
    <2> DEFINE e == Entry(m, o.addr, o.size, new)
               log2 == Append(log, e)
    <2>1. /\ e \in LogEntry /\ e.addr = o.addr /\ e.size = o.size
          /\ Len(e.before) = span(o.addr, o.size)
          /\ \A b \in Addr : Keeps(e, b) => KeptByte(e, b) = m[b]
      BY <1>0, EntryKeeps
    <2>2. Logged(log, o, m, new) = log2
      BY <1>0, <1>2 DEF Logged, log_write
    <2> HIDE DEF e
    <2>3. /\ log2 \in Seq(LogEntry) /\ Len(log2) = n + 1
          /\ \A k \in 1 .. n : log2[k] = log[k]
          /\ log2[n + 1] = e
      BY <1>0, <2>1
    <2> HIDE DEF log2
    <2>4. \A b \in Bytes(o.addr, o.size) : Wrote(e, b)
      BY <2>1 DEF Wrote
    <2>5. n + 1 \in (n + 1) .. (n + 1) /\ \A k \in (n + 1) .. (n + 1) : k = n + 1
      BY <1>0
    <2>6. n + 1 \in (n + 1) .. (n + 2) /\ ~ Overflows(log, o)
      BY <1>0, <1>2 DEF Overflows, Entries
    <2>7. /\ \A k \in (n + 1) .. (n + 1), b \in Addr :
               Keeps(log2[k], b) => KeptByte(log2[k], b) = m[b]
          /\ \A b \in Bytes(o.addr, o.size) : \E k \in (n + 1) .. (n + 1) : Wrote(log2[k], b)
      BY <2>1, <2>3, <2>4, <2>5
    <2> QED BY <1>2, <2>1, <2>2, <2>3, <2>6, <2>7
  <1> QED BY <1>1, <1>2

\* A write keeps its own bytes.
LEMMA WroteIsKept ==
  ASSUME NEW e \in LogEntry, NEW b, Wrote(e, b)
  PROVE  Keeps(e, b)
  BY DEF LogEntry, Wrote, Keeps, Bytes, Addr

\* New entries that keep what memory has, and the change that they cover.
LEMMA RestoresGrows ==
  ASSUME NEW log \in Seq(LogEntry), NEW log2 \in Seq(LogEntry), NEW m, NEW m2, NEW m0,
         Restores(log, Len(log), m, m0), Len(log) <= Len(log2),
         \A k \in 1 .. Len(log) : log2[k] = log[k],
         \A k \in (Len(log) + 1) .. Len(log2), b \in Addr :
           Keeps(log2[k], b) => KeptByte(log2[k], b) = m[b],
         \A b \in Addr : m2[b] # m[b] => \E k \in (Len(log) + 1) .. Len(log2) : Keeps(log2[k], b)
  PROVE  Restores(log2, Len(log2), m2, m0)
  <1> DEFINE n == Len(log)
             n2 == Len(log2)
  <1>0. n \in Nat /\ n2 \in Nat /\ n <= n2
    OBVIOUS
  <1>1. ASSUME NEW b \in Addr, \A k \in 1 .. n2 : ~ Keeps(log2[k], b)
        PROVE  m2[b] = m0[b]
    <2>1. \A k \in 1 .. n : ~ Keeps(log[k], b)
      BY <1>0, <1>1
    <2>2. m[b] = m0[b]
      BY <2>1 DEF Restores
    <2>3. m2[b] = m[b]
      BY <1>0, <1>1
    <2> QED BY <2>2, <2>3
  <1>2. ASSUME NEW b \in Addr, NEW k \in 1 .. n2, Keeps(log2[k], b),
               \A l \in 1 .. (k - 1) : ~ Keeps(log2[l], b)
        PROVE  KeptByte(log2[k], b) = m0[b]
    <2>1. CASE k <= n
      <3>1. k \in 1 .. n /\ \A l \in 1 .. (k - 1) : l \in 1 .. n
        BY <1>0, <2>1
      <3> QED BY <1>2, <3>1 DEF Restores
    <2>2. CASE k > n
      <3>1. k \in (n + 1) .. n2 /\ \A l \in 1 .. n : l \in 1 .. (k - 1)
        BY <1>0, <2>2
      <3>2. KeptByte(log2[k], b) = m[b]
        BY <1>2, <3>1
      <3>3. \A l \in 1 .. n : ~ Keeps(log[l], b)
        BY <1>2, <3>1
      <3> QED BY <3>2, <3>3 DEF Restores
    <2> QED BY <1>0, <2>1, <2>2
  <1> QED BY <1>1, <1>2 DEF Restores

\* Undoing one entry, the last of those still to undo.
LEMMA RestoresShrinks ==
  ASSUME NEW log \in Seq(LogEntry), NEW j \in 1 .. Len(log), NEW m \in Memory, NEW m0,
         Restores(log, j, m, m0)
  PROVE  Restores(log, j - 1, st(m, log[j].addr, log[j].before), m0)
  <1> DEFINE e == log[j]
             m2 == st(m, e.addr, e.before)
  <1>0. j \in Nat /\ j >= 1 /\ e \in LogEntry
    OBVIOUS
  <1>1. e.addr \in Nat /\ e.before \in Seq(Byte)
    BY <1>0, Sizes, SMTT(30) DEF LogEntry, Addr
  <1>2. \A b \in Addr : /\ ~ Keeps(e, b) => m2[b] = m[b]
                        /\ Keeps(e, b) => m2[b] = KeptByte(e, b)
    <2> HIDE DEF e
    <2> QED BY <1>1, StoreType, ZenonT(40) DEF Keeps, KeptByte
  <1>3. ASSUME NEW b \in Addr, \A k \in 1 .. (j - 1) : ~ Keeps(log[k], b)
        PROVE  m2[b] = m0[b]
    <2>1. CASE Keeps(e, b)
      BY <1>2, <1>3, <2>1 DEF Restores
    <2>2. CASE ~ Keeps(e, b)
      <3>1. \A k \in 1 .. j : ~ Keeps(log[k], b)
        BY <1>0, <1>3, <2>2
      <3> QED BY <1>2, <2>2, <3>1 DEF Restores
    <2> QED BY <2>1, <2>2
  <1>4. ASSUME NEW b \in Addr, NEW k \in 1 .. (j - 1), Keeps(log[k], b),
               \A l \in 1 .. (k - 1) : ~ Keeps(log[l], b)
        PROVE  KeptByte(log[k], b) = m0[b]
    <2>1. k \in 1 .. j
      BY <1>0
    <2> QED BY <1>4, <2>1 DEF Restores
  <1> QED BY <1>3, <1>4 DEF Restores


-----------------------------------------------------------------------------
(* The steps.                                                              *)

LEMMA InitCheckInv == Init => CheckInv
  <1> SUFFICES ASSUME Init PROVE CheckInv
    OBVIOUS
  <1>1. /\ <<>> \in Seq(Insns) /\ <<>> \in Seq(Emitted) /\ <<>> \in Seq(LogEntry)
        /\ Len(<<>>) = 0 /\ 0 <= MaxInsns
    BY Sizes
  <1>2. Types
    BY <1>1 DEF Init, Types, Memory
  <1> QED BY <1>2 DEF Init, CheckInv

\* The guest's instruction at hand, and the compiled one.
LEMMA AtHand ==
  ASSUME Types
  PROVE  /\ i < Len(insns) => insns[i + 1] \in Insns /\ Shaped(insns[i + 1])
         /\ i < Len(code) => /\ code[i + 1] \in Emitted /\ Shaped(code[i + 1])
                             /\ code[i + 1].slip \in Nat /\ Contained(code[i + 1])
  <1>1. i < Len(insns) => insns[i + 1] \in Insns
    BY DEF Types
  <1>2. i < Len(code) => code[i + 1] \in Emitted
    BY DEF Types
  <1> QED BY <1>1, <1>2, InsnsShaped

LEMMA RegType ==
  ASSUME NEW o, Shaped(o), NEW m \in Memory, NEW r \in Byte
  PROVE  RegAfter(o, m, r) \in Byte
  <1>1. 0 \in Byte
    BY Sizes DEF Byte
  <1>2. m[o.addr] \in Byte
    BY DEF Shaped, Memory
  <1> QED BY <1>1, <1>2 DEF RegAfter

LEMMA EnterPreserves == CheckInv /\ RunBlock => CheckInv'
  <1> SUFFICES ASSUME CheckInv, RunBlock PROVE CheckInv'
    OBVIOUS
  <1>0. PICK n \in 1 .. MaxInsns :
          \E block \in [1 .. n -> Insns], emitted \in [1 .. n -> {o \in Code : Contained(o)}] :
            Enter(block, emitted)
    BY DEF RunBlock
  <1>1. PICK block \in [1 .. n -> Insns], emitted \in [1 .. n -> {o \in Code : Contained(o)}] :
          Enter(block, emitted)
    BY <1>0
  <1>2. /\ block \in Seq(Insns) /\ emitted \in Seq(Emitted)
        /\ Len(block) = n /\ Len(emitted) = n /\ n <= MaxInsns /\ n \in Nat
    BY Sizes DEF Emitted
  <1>3. /\ phase' = "compiled" /\ insns' = block /\ code' = emitted /\ i' = 0
        /\ mem' = mem /\ mem0' = mem /\ mem1' = mem1 /\ reg' = reg /\ before' = reg
        /\ fault' = fault /\ jit_log' = <<>> /\ int_log' = int_log /\ jit_over' = FALSE
    BY <1>1 DEF Enter
  <1>4. Types'
    BY <1>2, <1>3 DEF CheckInv, Types
  <1>5. Restores(<<>>, 0, mem, mem)
    BY DEF Restores
  <1> QED BY <1>2, <1>3, <1>4, <1>5 DEF CheckInv

\* What compiled code stores is covered by what it logs.
LEMMA JitStore ==
  ASSUME NEW o \in Emitted, NEW m \in Memory, NEW r \in Byte, access_ok(o, writable),
         NEW log \in Seq(LogEntry), Len(log) + 2 <= LogMax
  PROVE  LET m2 == JitMem(o, m, r)
             log2 == Logged(log, o, m, NewBytes(o, m, r))
         IN  /\ m2 \in Memory
             /\ log2 \in Seq(LogEntry) /\ Len(log2) \in (Len(log) + 1) .. (Len(log) + 2)
             /\ \A k \in 1 .. Len(log) : log2[k] = log[k]
             /\ \A k \in (Len(log) + 1) .. Len(log2), b \in Addr :
                  Keeps(log2[k], b) => KeptByte(log2[k], b) = m[b]
             /\ \A b \in Addr : m2[b] # m[b] =>
                  \E k \in (Len(log) + 1) .. Len(log2) : Keeps(log2[k], b)
             /\ ~ Overflows(log, o)
  <1> DEFINE new == NewBytes(o, m, r)
             m2 == JitMem(o, m, r)
             log2 == Logged(log, o, m, new)
             wide == st(m, o.addr, new)
  <1>1. /\ Shaped(o) /\ o.slip \in Nat /\ Contained(o) /\ o.addr \in Nat /\ o.size \in Nat
        /\ Bytes(o.addr, o.size) \subseteq Addr /\ o.size \in 1 .. (2 * Half) /\ o.addr \in Addr
    <2>1. Shaped(o) /\ o.slip \in Nat /\ Contained(o)
      BY InsnsShaped
    <2>2. o.size \in 1 .. (2 * Half) /\ o.addr \in Addr
      BY <2>1 DEF Shaped
    <2>3. o.size \in Nat /\ o.addr \in Nat
      BY <2>2, Sizes DEF Addr
    <2>4. Bytes(o.addr, o.size) \subseteq Addr
      BY Sizes DEF access_ok
    <2> QED BY <2>1, <2>2, <2>3, <2>4
  <1>2. new \in Seq(Byte) /\ Len(new) = o.size
    BY <1>1, NewBytesType
  <1>3. /\ wide \in Memory
        /\ \A b \in Addr : b \notin Bytes(o.addr, o.size) => wide[b] = m[b]
    <2> HIDE DEF new
    <2> QED BY <1>1, <1>2, StoreType, ZenonT(40)
  <1>4. /\ m2 \in Memory
        /\ \A b \in Addr : m2[b] # m[b] =>
             b \in Bytes(o.addr, o.size) \/ b \in Bytes(o.addr + o.size, o.slip)
    <2>1. m2 = [b \in Addr |-> IF b \in Bytes(o.addr + o.size, o.slip) THEN r ELSE wide[b]]
      BY DEF JitMem
    <2> HIDE DEF wide, m2
    <2> QED BY <1>3, <2>1 DEF Memory
  <1> HIDE DEF m2, new, wide
  <1>5. /\ log2 \in Seq(LogEntry) /\ Len(log2) \in (Len(log) + 1) .. (Len(log) + 2)
        /\ \A k \in 1 .. Len(log) : log2[k] = log[k]
        /\ \A k \in (Len(log) + 1) .. Len(log2), b \in Addr :
             Keeps(log2[k], b) => KeptByte(log2[k], b) = m[b]
        /\ \A b \in Bytes(o.addr, o.size) :
             \E k \in (Len(log) + 1) .. Len(log2) : Wrote(log2[k], b)
        /\ o.kind # "put2" => /\ log2[Len(log) + 1].addr = o.addr
                              /\ Len(log2[Len(log) + 1].before) = span(o.addr, o.size)
        /\ ~ Overflows(log, o)
    BY <1>1, <1>2, LoggedStore
  <1> HIDE DEF log2
  <1>6. ASSUME NEW b \in Addr, m2[b] # m[b]
        PROVE  \E k \in (Len(log) + 1) .. Len(log2) : Keeps(log2[k], b)
    <2>1. CASE b \in Bytes(o.addr, o.size)
      <3>1. PICK k \in (Len(log) + 1) .. Len(log2) : Wrote(log2[k], b)
        BY <1>5, <2>1
      <3>2. log2[k] \in LogEntry
        BY <1>5, <3>1
      <3> QED BY <3>1, <3>2, WroteIsKept
    <2>2. CASE b \notin Bytes(o.addr, o.size)
      <3>1. b \in Bytes(o.addr + o.size, o.slip)
        BY <1>4, <1>6, <2>2
      <3>2. o.slip > 0
        BY <1>1, <3>1 DEF Bytes
      <3>3. o.kind # "put2" /\ o.size + o.slip <= span(o.addr, o.size)
        BY <1>1, <3>2 DEF Contained
      <3>4. span(o.addr, o.size) \in Nat
        BY <1>1, SpanCovers
      <3>5. b \in Bytes(o.addr, span(o.addr, o.size))
        BY <1>1, <3>1, <3>3, <3>4, SMTT(40) DEF Bytes
      <3>6. Keeps(log2[Len(log) + 1], b)
        BY <1>5, <3>3, <3>5 DEF Keeps
      <3>7. Len(log) + 1 \in (Len(log) + 1) .. Len(log2)
        BY <1>5
      <3> QED BY <3>6, <3>7
    <2> QED BY <2>1, <2>2
  <1> QED BY <1>4, <1>5, <1>6 DEF m2, log2, new

LEMMA JitStepPreserves == CheckInv /\ JitStep => CheckInv'
  <1> SUFFICES ASSUME CheckInv, JitStep PROVE CheckInv'
    OBVIOUS
  <1> DEFINE o == code[i + 1]
             writes == Writes(o) /\ ~ JitFaults(o)
  <1>1. /\ Types /\ i \in Nat /\ i < Len(code) /\ Len(code) <= MaxInsns /\ Len(code) \in Nat
        /\ Len(jit_log) <= 2 * i /\ Len(jit_log) \in Nat /\ ~ jit_over
        /\ Restores(jit_log, Len(jit_log), mem, mem0) /\ i' = i + 1 /\ phase' = "compiled"
        /\ UNCHANGED <<insns, code, int_log, before, mem0, mem1>>
    BY DEF JitStep, CheckInv, Types
  <1>2. o \in Emitted /\ Shaped(o)
    BY <1>1, AtHand
  <1>3. /\ fault' = JitFaults(o)
        /\ reg' = IF JitFaults(o) THEN reg ELSE RegAfter(o, mem, reg)
        /\ mem' = IF writes THEN JitMem(o, mem, reg) ELSE mem
        /\ jit_log' = IF writes THEN Logged(jit_log, o, mem, NewBytes(o, mem, reg)) ELSE jit_log
        /\ jit_over' = (jit_over \/ (writes /\ Overflows(jit_log, o)))
    BY DEF JitStep
  <1>4. mem \in Memory /\ reg \in Byte /\ jit_log \in Seq(LogEntry)
    BY <1>1 DEF Types
  <1> HIDE DEF o
  <1>5. fault' \in BOOLEAN /\ reg' \in Byte
    BY <1>2, <1>3, <1>4, RegType DEF JitFaults
  <1>6. /\ mem' \in Memory /\ jit_log' \in Seq(LogEntry) /\ Len(jit_log') <= 2 * i'
        /\ ~ jit_over' /\ Restores(jit_log', Len(jit_log'), mem', mem0)
    <2>1. CASE ~ writes
      <3>1. mem' = mem /\ jit_log' = jit_log
        BY <1>3, <2>1
      <3>2. ~ jit_over'
        BY <1>1, <1>3, <2>1
      <3>3. Len(jit_log) <= 2 * i'
        BY <1>1
      <3> QED BY <1>1, <1>4, <3>1, <3>2, <3>3
    <2>2. CASE writes
      <3>1. mem' = JitMem(o, mem, reg) /\ jit_log' = Logged(jit_log, o, mem, NewBytes(o, mem, reg))
        BY <1>3, <2>2
      <3>2. access_ok(o, writable)
        BY <2>2 DEF JitFaults
      <3>3. Len(jit_log) + 2 <= LogMax
        BY <1>1, Sizes
      <3>4. /\ mem' \in Memory
            /\ jit_log' \in Seq(LogEntry) /\ Len(jit_log') \in (Len(jit_log) + 1) .. (Len(jit_log) + 2)
            /\ \A k \in 1 .. Len(jit_log) : jit_log'[k] = jit_log[k]
            /\ \A k \in (Len(jit_log) + 1) .. Len(jit_log'), b \in Addr :
                 Keeps(jit_log'[k], b) => KeptByte(jit_log'[k], b) = mem[b]
            /\ \A b \in Addr : mem'[b] # mem[b] =>
                 \E k \in (Len(jit_log) + 1) .. Len(jit_log') : Keeps(jit_log'[k], b)
            /\ ~ Overflows(jit_log, o)
        BY <1>2, <1>4, <3>1, <3>2, <3>3, JitStore, ZenonT(40)
      <3>5. Restores(jit_log', Len(jit_log'), mem', mem0)
        <4>1. Len(jit_log) <= Len(jit_log')
          BY <1>1, <3>4
        <4> QED BY <1>1, <1>4, <3>4, <4>1, RestoresGrows
      <3>6. ~ jit_over'
        BY <1>1, <1>3, <3>4
      <3>7. Len(jit_log') <= 2 * i'
        BY <1>1, <3>4
      <3> QED BY <3>4, <3>5, <3>6, <3>7
    <2> QED BY <2>1, <2>2
  <1>7. Types'
    BY <1>1, <1>5, <1>6 DEF Types
  <1> QED BY <1>1, <1>6, <1>7 DEF CheckInv


LEMMA UndoPreserves == CheckInv /\ UndoWrite => CheckInv'
  <1> SUFFICES ASSUME CheckInv, UndoWrite PROVE CheckInv'
    OBVIOUS
  <1> DEFINE e == jit_log[i]
  <1>1. /\ Types /\ i \in 1 .. Len(jit_log) /\ Len(jit_log) \in Nat /\ i' = i - 1
        /\ phase = "undo" /\ phase' = "undo"
        /\ Restores(jit_log, i, mem, mem0) /\ ~ jit_over
        /\ Restores(jit_log, Len(jit_log), mem1, mem0) /\ windows = WindowsOf(jit_log, mem1)
        /\ mem' = st(mem, e.addr, e.before) /\ mem \in Memory /\ jit_log \in Seq(LogEntry)
        /\ UNCHANGED <<reg, fault, insns, code, jit_log, int_log, jit_over, before, windows, mem0, mem1>>
    BY DEF UndoWrite, Undone, CheckInv, Types
  <1>2. Restores(jit_log, i - 1, mem', mem0)
    BY <1>1, RestoresShrinks
  <1>3. mem' \in Memory
    <2>1. e \in LogEntry
      BY <1>1
    <2> HIDE DEF e
    <2>2. e.addr \in Nat /\ e.before \in Seq(Byte)
      BY <2>1, Sizes DEF LogEntry, Addr
    <2> QED BY <1>1, <2>2, StoreType
  <1>4. i' \in Nat /\ i' <= Len(jit_log)
    BY <1>1
  <1>5. Types'
    BY <1>1, <1>3, <1>4 DEF Types
  <1> QED BY <1>1, <1>2, <1>4, <1>5 DEF CheckInv

\* undo_writes() is done: nothing is left to restore.
LEMMA UndoneIsExact ==
  ASSUME CheckInv, phase = "undo", i = 0
  PROVE  mem = mem0
  <1>1. mem \in Memory /\ mem0 \in Memory /\ Restores(jit_log, 0, mem, mem0)
    BY DEF CheckInv, Types
  <1>2. \A b \in Addr : mem[b] = mem0[b]
    BY <1>1 DEF Restores
  <1> QED BY <1>1, <1>2 DEF Memory

LEMMA RewindPreserves == CheckInv /\ Rewind => CheckInv'
  <1> SUFFICES ASSUME CheckInv, Rewind PROVE CheckInv'
    OBVIOUS
  <1>1. /\ Types /\ i = 0 /\ phase = "undo" /\ phase' = "replay" /\ reg' = before /\ fault' = FALSE
        /\ int_log' = <<>> /\ int_over' = FALSE /\ ~ jit_over
        /\ Restores(jit_log, Len(jit_log), mem1, mem0) /\ windows = WindowsOf(jit_log, mem1)
        /\ UNCHANGED <<mem, insns, code, i, jit_log, jit_over, before, windows, mem0, mem1>>
    BY DEF Rewind, CheckInv
  <1>2. mem = mem0
    BY <1>1, UndoneIsExact
  <1>3. <<>> \in Seq(LogEntry) /\ Len(<<>>) = 0
    OBVIOUS
  <1>4. Types'
    BY <1>1, <1>3 DEF Types
  <1>5. Untouched(<<>>, mem, mem0)
    BY <1>2 DEF Untouched
  <1>6. i <= Len(insns) /\ Len(<<>>) <= 2 * i
    BY <1>1, <1>3 DEF Types
  <1> QED BY <1>1, <1>4, <1>5, <1>6 DEF CheckInv

LEMMA ReplayPreserves == CheckInv /\ Replay => CheckInv'
  <1> SUFFICES ASSUME CheckInv, Replay PROVE CheckInv'
    OBVIOUS
  <1> DEFINE o == insns[i + 1]
             new == NewBytes(o, mem, reg)
  <1>1. /\ Types /\ i \in Nat /\ i < Len(insns) /\ Len(insns) <= MaxInsns /\ Len(insns) \in Nat
        /\ phase = "replay" /\ phase' = "replay" /\ i' = i + 1
        /\ Len(int_log) <= 2 * i /\ Len(int_log) \in Nat /\ ~ int_over
        /\ ~ jit_over /\ windows = WindowsOf(jit_log, mem1)
        /\ Restores(jit_log, Len(jit_log), mem1, mem0) /\ Untouched(int_log, mem, mem0)
        /\ mem \in Memory /\ reg \in Byte /\ int_log \in Seq(LogEntry)
        /\ UNCHANGED <<insns, code, jit_log, jit_over, before, windows, mem0, mem1>>
    BY DEF Replay, CheckInv, Types
  <1>2. Shaped(o)
    BY <1>1, AtHand
  <1>3. /\ mem' = MemAfter(o, mem, reg) /\ reg' = RegAfter(o, mem, reg) /\ fault' = Faults(o)
        /\ int_log' = IF Stores(o) THEN Logged(int_log, o, mem, new) ELSE int_log
        /\ int_over' = (int_over \/ (Stores(o) /\ Overflows(int_log, o)))
    BY DEF Replay
  <1> HIDE DEF o
  <1>4. fault' \in BOOLEAN /\ reg' \in Byte
    BY <1>1, <1>2, <1>3, RegType DEF Faults
  <1>5. /\ mem' \in Memory /\ int_log' \in Seq(LogEntry) /\ Len(int_log') <= 2 * i'
        /\ ~ int_over' /\ Untouched(int_log', mem', mem0)
    <2>1. CASE ~ Stores(o)
      <3>1. mem' = mem /\ int_log' = int_log
        BY <1>3, <2>1 DEF MemAfter
      <3>2. ~ int_over'
        BY <1>1, <1>3, <2>1
      <3>3. Len(int_log) <= 2 * i'
        BY <1>1
      <3> QED BY <1>1, <3>1, <3>2, <3>3
    <2>2. CASE Stores(o)
      <3>1. mem' = st(mem, o.addr, new) /\ int_log' = Logged(int_log, o, mem, new)
        BY <1>3, <2>2 DEF MemAfter
      <3>2. Bytes(o.addr, o.size) \subseteq Addr /\ o.addr \in Nat
        <4>1. Bytes(o.addr, o.size) \subseteq Addr
          BY <2>2, Sizes DEF Stores, access_ok
        <4>2. o.addr \in Nat
          BY <1>2, Sizes DEF Shaped, Addr
        <4> QED BY <4>1, <4>2
      <3>3. new \in Seq(Byte) /\ Len(new) = o.size
        BY <1>1, <1>2, NewBytesType
      <3> HIDE DEF new
      <3>4. Len(int_log) + 2 <= LogMax
        BY <1>1, Sizes
      <3>5. /\ int_log' \in Seq(LogEntry) /\ Len(int_log') \in (Len(int_log) + 1) .. (Len(int_log) + 2)
            /\ \A k \in 1 .. Len(int_log) : int_log'[k] = int_log[k]
            /\ \A b \in Bytes(o.addr, o.size) :
                 \E k \in (Len(int_log) + 1) .. Len(int_log') : Wrote(int_log'[k], b)
            /\ ~ Overflows(int_log, o)
        <4> DEFINE log2 == Logged(int_log, o, mem, new)
        <4>1. mem \in Memory /\ int_log \in Seq(LogEntry)
          BY <1>1
        <4>2. /\ log2 \in Seq(LogEntry) /\ Len(log2) \in (Len(int_log) + 1) .. (Len(int_log) + 2)
              /\ \A k \in 1 .. Len(int_log) : log2[k] = int_log[k]
              /\ \A k \in (Len(int_log) + 1) .. Len(log2), b \in Addr :
                   Keeps(log2[k], b) => KeptByte(log2[k], b) = mem[b]
              /\ \A b \in Bytes(o.addr, o.size) :
                   \E k \in (Len(int_log) + 1) .. Len(log2) : Wrote(log2[k], b)
              /\ o.kind # "put2" => /\ log2[Len(int_log) + 1].addr = o.addr
                                    /\ Len(log2[Len(int_log) + 1].before) = span(o.addr, o.size)
              /\ ~ Overflows(int_log, o)
          BY <1>2, <3>2, <3>3, <3>4, <4>1, LoggedStore
        <4> QED BY <3>1, <4>2
      <3>6. /\ mem' \in Memory
            /\ \A b \in Addr : b \notin Bytes(o.addr, o.size) => mem'[b] = mem[b]
        BY <1>1, <3>1, <3>2, <3>3, StoreType
      <3>7. Untouched(int_log', mem', mem0)
        <4> SUFFICES ASSUME NEW b \in Addr, \A k \in 1 .. Len(int_log') : ~ Wrote(int_log'[k], b)
                     PROVE  mem'[b] = mem0[b]
          BY DEF Untouched
        <4>1. /\ \A k \in 1 .. Len(int_log) : k \in 1 .. Len(int_log')
              /\ \A k \in (Len(int_log) + 1) .. Len(int_log') : k \in 1 .. Len(int_log')
          BY <1>1, <3>5
        <4>2. b \notin Bytes(o.addr, o.size)
          BY <3>5, <4>1
        <4>3. \A k \in 1 .. Len(int_log) : ~ Wrote(int_log[k], b)
          BY <3>5, <4>1
        <4> QED BY <1>1, <3>6, <4>2, <4>3 DEF Untouched
      <3>8. ~ int_over'
        BY <1>1, <1>3, <3>5
      <3>9. Len(int_log') <= 2 * i'
        BY <1>1, <3>5
      <3> QED BY <3>5, <3>6, <3>7, <3>8, <3>9
    <2> QED BY <2>1, <2>2
  <1>6. Types' /\ i' <= Len(insns)
    BY <1>1, <1>4, <1>5 DEF Types
  <1> QED BY <1>1, <1>5, <1>6 DEF CheckInv

\* What the comparison concludes when it finds no difference.
LEMMA SameIsEqual ==
  ASSUME CheckInv, phase = "replay", SameWrites, SameWindows
  PROVE  mem = mem1
  <1>1. /\ mem \in Memory /\ mem1 \in Memory /\ jit_log \in Seq(LogEntry) /\ int_log \in Seq(LogEntry)
        /\ ~ jit_over /\ ~ int_over /\ windows = WindowsOf(jit_log, mem1)
        /\ Restores(jit_log, Len(jit_log), mem1, mem0) /\ Untouched(int_log, mem, mem0)
    BY DEF CheckInv, Types
  <1>2. /\ Len(jit_log) = Len(int_log)
        /\ \A k \in 1 .. Len(jit_log) : /\ jit_log[k].addr = int_log[k].addr
                                        /\ jit_log[k].size = int_log[k].size
    BY <1>1 DEF SameWrites
  <1>3. ASSUME NEW b \in Addr PROVE mem[b] = mem1[b]
    <2>1. CASE \E k \in 1 .. Len(jit_log) : Keeps(jit_log[k], b)
      <3>1. PICK k \in 1 .. Len(jit_log) : Keeps(jit_log[k], b)
        BY <2>1
      <3> DEFINE a == jit_log[k].addr
                 w == Len(jit_log[k].before)
      <3>2. jit_log[k] \in LogEntry
        BY <1>1, <3>1
      <3>3. a \in Nat /\ w \in Nat /\ b \in a .. (a + w - 1) /\ b \in Nat
        BY <3>1, <3>2, Sizes DEF LogEntry, Keeps, Bytes, Addr
      <3>4. windows[k] = Slice(mem1, a, w)
        BY <1>1, <3>1 DEF WindowsOf
      <3> HIDE DEF a, w
      <3>5. Len(Slice(mem1, a, w)) = w
        BY <3>3 DEF Slice
      <3>6. Slice(mem1, a, w) = Slice(mem, a, w)
        BY <1>1, <3>1, <3>4, <3>5 DEF SameWindows, a
      <3>7. b - a + 1 \in 1 .. w /\ a + (b - a + 1) - 1 = b
        BY <3>3
      <3>8. Slice(mem1, a, w)[b - a + 1] = mem1[b] /\ Slice(mem, a, w)[b - a + 1] = mem[b]
        BY <3>7 DEF Slice
      <3> QED BY <3>6, <3>8
    <2>2. CASE \A k \in 1 .. Len(jit_log) : ~ Keeps(jit_log[k], b)
      <3>1. mem1[b] = mem0[b]
        BY <1>1, <2>2 DEF Restores
      <3>2. ASSUME NEW k \in 1 .. Len(int_log) PROVE ~ Wrote(int_log[k], b)
        <4>1. k \in 1 .. Len(jit_log) /\ jit_log[k] \in LogEntry
          BY <1>1, <1>2, <3>2
        <4>2. ~ Wrote(jit_log[k], b)
          BY <2>2, <4>1, WroteIsKept
        <4> QED BY <1>2, <4>1, <4>2 DEF Wrote
      <3>3. mem[b] = mem0[b]
        BY <1>1, <3>2 DEF Untouched
      <3> QED BY <3>1, <3>3
    <2> QED BY <2>1, <2>2
  <1> QED BY <1>1, <1>3 DEF Memory

LEMMA CheckInvPreserved == CheckInv /\ [Next]_vars => CheckInv'
  <1> SUFFICES ASSUME CheckInv, [Next]_vars PROVE CheckInv'
    OBVIOUS
  <1>1. CASE RunBlock
    BY <1>1, EnterPreserves
  <1>2. CASE JitStep
    BY <1>2, JitStepPreserves
  <1>3. CASE JitLeave
    <2>1. /\ phase = "compiled" /\ phase' = "undo" /\ i' = Len(jit_log) /\ mem1' = mem
          /\ windows' = WindowsOf(jit_log, mem)
          /\ UNCHANGED <<mem, reg, fault, insns, code, jit_log, int_log, jit_over, before, mem0>>
      BY <1>3 DEF JitLeave, WindowsOf
    <2>2. Types'
      BY <2>1 DEF CheckInv, Types
    <2>3. Restores(jit_log, Len(jit_log), mem, mem0) /\ ~ jit_over /\ Len(jit_log) \in Nat
      BY <2>1 DEF CheckInv, Types
    <2> QED BY <2>1, <2>2, <2>3 DEF CheckInv, WindowsOf
  <1>4. CASE UndoWrite
    BY <1>4, UndoPreserves
  <1>5. CASE Rewind
    BY <1>5, RewindPreserves
  <1>6. CASE Replay
    BY <1>6, ReplayPreserves
  <1>7. CASE Compare
    <2>1. /\ phase = "replay" /\ phase' \in {"agree", "disagree"}
          /\ phase' = "agree" => SameWrites /\ SameWindows
          /\ UNCHANGED <<mem, reg, fault, insns, code, i, jit_log, int_log, jit_over, int_over,
                         before, windows, mem0, mem1>>
      BY <1>7 DEF Compare
    <2>2. Types'
      BY <2>1 DEF CheckInv, Types
    <2>3. phase' = "agree" => mem = mem1
      BY <2>1, SameIsEqual
    <2> QED BY <2>1, <2>2, <2>3 DEF CheckInv
  <1>8. CASE Return
    <2>1. /\ phase' = "idle" /\ insns' = <<>> /\ code' = <<>> /\ i' = 0
          /\ jit_log' = <<>> /\ int_log' = <<>> /\ before' = reg /\ mem0' = mem /\ mem1' = mem
          /\ UNCHANGED <<mem, reg, fault>>
      BY <1>8 DEF Return
    <2>2. /\ <<>> \in Seq(Insns) /\ <<>> \in Seq(Emitted) /\ <<>> \in Seq(LogEntry)
          /\ Len(<<>>) = 0 /\ 0 <= MaxInsns
      BY Sizes
    <2>3. Types'
      BY <2>1, <2>2 DEF CheckInv, Types
    <2> QED BY <2>1, <2>3 DEF CheckInv
  <1>9. CASE UNCHANGED vars
    <2>1. Types'
      BY <1>9 DEF CheckInv, Types, vars
    <2> QED BY <1>9, <2>1 DEF CheckInv, vars, Restores, Untouched, WindowsOf
  <1> QED BY <1>1, <1>2, <1>3, <1>4, <1>5, <1>6, <1>7, <1>8, <1>9 DEF Next

LEMMA CheckInvAlways == Spec => []CheckInv
  BY InitCheckInv, CheckInvPreserved, PTL DEF Spec

-----------------------------------------------------------------------------
(* The theorems.                                                           *)

\* undo_writes() gives the block's memory back byte for byte, for any number of
\* writes, overlapping or wider than their log entries.
THEOREM UndoIsExact == Spec => []UndoExact
  <1>1. CheckInv => UndoExact
    BY UndoneIsExact DEF UndoExact
  <1> QED BY <1>1, CheckInvAlways, PTL

\* A block that passes the comparison of run_block() left memory exactly as the
\* interpreter does: equal logs and equal windows are enough for that.
THEOREM AgreementMeansEqual == Spec => []AgreeMeansEqual
  <1>1. CheckInv => AgreeMeansEqual
    BY DEF CheckInv, AgreeMeansEqual
  <1> QED BY <1>1, CheckInvAlways, PTL

\* The abstract machine executes instructions as the replay does.
LEMMA SameInstructions ==
  /\ Interp!Addr = Addr /\ Interp!Byte = Byte
  /\ \A o, m, r : /\ Interp!MemAfter(o, m, r) = MemAfter(o, m, r)
                  /\ Interp!RegAfter(o, m, r) = RegAfter(o, m, r)
                  /\ Interp!Faults(o) = Faults(o)
  <1>1. Interp!Addr = Addr /\ Interp!Byte = Byte
    BY DEF Addr, Byte, Interp!Addr, Interp!Byte
  <1>2. ASSUME NEW o, NEW S PROVE Interp!access_ok(o, S) = access_ok(o, S)
    BY DEF access_ok, Bytes, Interp!access_ok, Interp!Bytes
  <1>3. ASSUME NEW o
        PROVE  Interp!Reads(o) = Reads(o) /\ Interp!Writes(o) = Writes(o)
    BY DEF Reads, Writes, Interp!Reads, Interp!Writes
  <1>4. ASSUME NEW o
        PROVE  Interp!Stores(o) = Stores(o) /\ Interp!Faults(o) = Faults(o)
    BY <1>2, <1>3 DEF Stores, Faults, Interp!Stores, Interp!Faults
  <1>5. ASSUME NEW o, NEW m, NEW r
        PROVE  Interp!NewBytes(o, m, r) = NewBytes(o, m, r)
    BY <1>2 DEF NewBytes, Interp!NewBytes
  <1>6. ASSUME NEW m, NEW a, NEW new
        PROVE  Interp!st(m, a, new) = st(m, a, new)
    BY <1>1 DEF st, Bytes, Interp!st, Interp!Bytes
  <1>7. ASSUME NEW o, NEW m, NEW r
        PROVE  /\ Interp!MemAfter(o, m, r) = MemAfter(o, m, r)
               /\ Interp!RegAfter(o, m, r) = RegAfter(o, m, r)
    BY <1>2, <1>4, <1>5, <1>6 DEF MemAfter, RegAfter, Interp!MemAfter, Interp!RegAfter
  <1> QED BY <1>1, <1>4, <1>7

\* But for stopping at a disagreement, -J runs the guest as the interpreter
\* does, one instruction at a time, whatever compiled code does in between.
THEOREM CheckingInvisible == Spec => Invisible
  <1>1. Init => Interp!Init
    BY SameInstructions DEF Init, Interp!Init, Checking
  <1>2. CheckInv /\ [Next]_vars => [Interp!Next]_(Interp!vars)
    <2> SUFFICES ASSUME CheckInv, [Next]_vars PROVE [Interp!Next]_(Interp!vars)
      OBVIOUS
    <2>0. fault \in BOOLEAN
      BY DEF CheckInv, Types
    <2>1. CASE RunBlock
      BY <2>1 DEF RunBlock, Enter, Interp!vars, Checking
    <2>2. CASE JitStep \/ JitLeave \/ UndoWrite
      BY <2>2 DEF JitStep, JitLeave, UndoWrite, Interp!vars, Checking
    <2>3. CASE Rewind
      <3>1. mem = mem0
        BY <2>3, UndoneIsExact DEF Rewind
      <3> QED BY <2>3, <3>1 DEF Rewind, Interp!vars, Checking
    <2>4. CASE Replay
      <3>1. insns[i + 1] \in Insns
        BY <2>4, AtHand DEF Replay, CheckInv
      <3>2. Interp!Step(insns[i + 1])
        <4>1. ~ Checking /\ ~ Checking' /\ phase' = phase /\ phase = "replay"
          BY <2>4 DEF Replay, Checking
        <4>2. /\ ~ fault /\ mem' = MemAfter(insns[i + 1], mem, reg)
              /\ reg' = RegAfter(insns[i + 1], mem, reg) /\ fault' = Faults(insns[i + 1])
          BY <2>4 DEF Replay
        <4>3. Faults(insns[i + 1]) \in BOOLEAN
          BY DEF Faults
        <4> QED BY <4>1, <4>2, <4>3, SameInstructions DEF Interp!Step
      <3> QED BY <3>1, <3>2 DEF Interp!Next
    <2>5. CASE Compare
      <3>1. CASE phase' = "disagree"
        BY <2>5, <3>1 DEF Compare, Interp!Next, Interp!Stop, Checking
      <3>2. CASE phase' # "disagree"
        BY <2>5, <3>2 DEF Compare, Interp!vars, Checking
      <3> QED BY <3>1, <3>2
    <2>6. CASE Return
      BY <2>6 DEF Return, Interp!vars, Checking
    <2>7. CASE UNCHANGED vars
      BY <2>7 DEF vars, Interp!vars, Checking
    <2> QED BY <2>1, <2>2, <2>3, <2>4, <2>5, <2>6, <2>7 DEF Next
  <1> QED BY <1>1, <1>2, CheckInvAlways, PTL DEF Spec, Invisible, Interp!Spec


-----------------------------------------------------------------------------
(* False alarms.  The compiled run is over, and undone, before the replay   *)
(* that is compared with it; the invariant therefore keeps it as a trace,   *)
(* which a replay of the same instructions follows state by state.          *)

\* Compiled code at an instruction: what JitStep makes of it.
CompiledState(m, r, ft, log) == [mem |-> m, reg |-> r, fault |-> ft, log |-> log]
After(o, s) ==
  LET writes == Writes(o) /\ ~ JitFaults(o)
  IN  CompiledState(IF writes THEN JitMem(o, s.mem, s.reg) ELSE s.mem,
                    IF JitFaults(o) THEN s.reg ELSE RegAfter(o, s.mem, s.reg),
                    JitFaults(o),
                    IF writes THEN Logged(s.log, o, s.mem, NewBytes(o, s.mem, s.reg)) ELSE s.log)

\* tr is the run of the compiled block over its first n instructions.
IsRun(tr, n) ==
  /\ tr[0] = CompiledState(mem0, before, FALSE, <<>>)
  /\ \A k \in 0 .. (n - 1) : ~ tr[k].fault /\ tr[k + 1] = After(code[k + 1], tr[k])

\* The code is right, and the block touches no memory that is write-only.
Innocent == RightCode /\ \A k \in 1 .. Len(insns) : ~ WriteOnly(insns[k])

\* The replay has reached the state of tr; a fault leaves reg to itself.
Follows(tr) ==
  /\ mem = tr[i].mem /\ int_log = tr[i].log /\ fault = tr[i].fault
  /\ fault \/ reg = tr[i].reg

TraceInv ==
  /\ phase = "compiled" => \E tr : IsRun(tr, i) /\ tr[i] = CompiledState(mem, reg, fault, jit_log)
  /\ phase \in {"undo", "replay"} => \E n \in 0 .. Len(code) : \E tr :
       /\ IsRun(tr, n) /\ (n = Len(code) \/ tr[n].fault)
       /\ tr[n] = CompiledState(mem1, after.reg, after.fault, jit_log)
       /\ phase = "replay" /\ Innocent => i <= n /\ Follows(tr)
  /\ phase = "disagree" => ~ Innocent

\* Right code for o does what the interpreter does, but to reg at a fault.
Right(o) == [kind |-> o.kind, addr |-> o.addr, size |-> o.size, slip |-> 0]
Matches(s, o, m, r, log) ==
  /\ s.fault = Faults(o)
  /\ s.mem = MemAfter(o, m, r)
  /\ s.log = IF Stores(o) THEN Logged(log, o, m, NewBytes(o, m, r)) ELSE log
  /\ Faults(o) \/ s.reg = RegAfter(o, m, r)

LEMMA RightInstruction ==
  ASSUME NEW o \in Insns, NEW m, NEW r, NEW log, ~ WriteOnly(o)
  PROVE  Matches(After(Right(o), CompiledState(m, r, FALSE, log)), o, m, r, log)
  <1> DEFINE c == Right(o)
  <1>0. /\ c.kind = o.kind /\ c.addr = o.addr /\ c.size = o.size /\ c.slip = 0
        /\ o.kind \in Kinds /\ o.addr \in Nat /\ o.size \in Nat
    <2>1. Shaped(o)
      BY InsnsShaped
    <2> QED BY <2>1, Sizes DEF Shaped, Addr, Right
  <1> HIDE DEF c
  <1>1. \A S : access_ok(c, S) = access_ok(o, S)
    BY <1>0 DEF access_ok
  <1>2. JitFaults(c) = Faults(o) /\ (Writes(c) /\ ~ JitFaults(c)) = Stores(o)
    <2>1. /\ Writes(c) = Writes(o) /\ Reads(o) = (JitReads(o) \/ o.kind = "mov")
          /\ JitReads(c) = JitReads(o)
      BY <1>0 DEF Writes, Reads, JitReads
    <2>2. (o.kind = "mov" \/ o.kind = "rmw") => Writes(o) /\ (access_ok(o, writable) => access_ok(o, readable))
      BY DEF WriteOnly, Writes
    <2>3. JitReads(o) /\ Writes(o) => o.kind = "rmw"
      BY DEF JitReads, Writes
    <2> QED BY <1>1, <2>1, <2>2, <2>3 DEF JitFaults, Faults, Stores
  <1>3. NewBytes(c, m, r) = NewBytes(o, m, r)
    BY <1>0, <1>1 DEF NewBytes
  <1>4. JitMem(c, m, r) = st(m, o.addr, NewBytes(o, m, r))
    <2>1. Bytes(c.addr + c.size, c.slip) = {}
      BY <1>0 DEF Bytes
    <2>2. JitMem(c, m, r) = [b \in Addr |-> st(m, o.addr, NewBytes(o, m, r))[b]]
      BY <1>0, <1>3, <2>1 DEF JitMem
    <2> QED BY <2>2 DEF st
  <1>5. Logged(log, c, m, NewBytes(c, m, r)) = Logged(log, o, m, NewBytes(o, m, r))
    BY <1>0, <1>3 DEF Logged
  <1>6. RegAfter(c, m, r) = RegAfter(o, m, r)
    BY <1>0, <1>1 DEF RegAfter
  <1> DEFINE s == After(c, CompiledState(m, r, FALSE, log))
  <1>7. /\ s.fault = JitFaults(c)
        /\ s.mem = IF Writes(c) /\ ~ JitFaults(c) THEN JitMem(c, m, r) ELSE m
        /\ s.log = IF Writes(c) /\ ~ JitFaults(c) THEN Logged(log, c, m, NewBytes(c, m, r)) ELSE log
        /\ s.reg = IF JitFaults(c) THEN r ELSE RegAfter(c, m, r)
    BY DEF After, CompiledState
  <1> HIDE DEF s
  <1>8. s.mem = MemAfter(o, m, r)
    BY <1>2, <1>4, <1>7 DEF MemAfter
  <1>9. s.log = IF Stores(o) THEN Logged(log, o, m, NewBytes(o, m, r)) ELSE log
    BY <1>2, <1>5, <1>7
  <1>10. Faults(o) \/ s.reg = RegAfter(o, m, r)
    BY <1>2, <1>6, <1>7
  <1> QED BY <1>2, <1>7, <1>8, <1>9, <1>10 DEF s, c, Matches

LEMMA JitStepTraced == CheckInv /\ TraceInv /\ JitStep => TraceInv'
  <1> SUFFICES ASSUME CheckInv, TraceInv, JitStep PROVE TraceInv'
    OBVIOUS
  <1>1. /\ i \in Nat /\ phase = "compiled" /\ phase' = "compiled" /\ i' = i + 1 /\ ~ fault
        /\ UNCHANGED <<code, mem0, before>>
    BY DEF JitStep, CheckInv, Types
  <1>2. PICK tr : IsRun(tr, i) /\ tr[i] = CompiledState(mem, reg, fault, jit_log)
    BY <1>1 DEF TraceInv
  <1>n. PICK now : now = CompiledState(mem', reg', fault', jit_log')
    OBVIOUS
  <1>t. PICK tr2 : tr2 = [k \in 0 .. (i + 1) |-> IF k = i + 1 THEN now ELSE tr[k]]
    OBVIOUS
  <1>3. now = After(code[i + 1], tr[i])
    BY <1>n, <1>2 DEF JitStep, After, CompiledState
  <1>4. /\ tr2[0] = tr[0] /\ tr2[i + 1] = now
        /\ \A k \in 0 .. i : tr2[k] = tr[k]
    BY <1>1, <1>t
  <1>5. ~ tr[i].fault
    BY <1>1, <1>2 DEF CompiledState
  <1>6. ASSUME NEW k \in 0 .. i
        PROVE  ~ tr2[k].fault /\ tr2[k + 1] = After(code[k + 1], tr2[k])
    <2>1. CASE k = i
      BY <1>3, <1>4, <1>5, <2>1
    <2>2. CASE k < i
      <3>1. k \in 0 .. (i - 1) /\ k + 1 \in 0 .. i
        BY <1>1, <2>2
      <3> QED BY <1>2, <1>4, <3>1 DEF IsRun
    <2> QED BY <1>1, <2>1, <2>2
  <1>7. tr2[0] = CompiledState(mem0, before, FALSE, <<>>)
    BY <1>2, <1>4 DEF IsRun
  <1>8. (i + 1) - 1 = i
    BY <1>1
  <1>9. IsRun(tr2, i)'
    BY <1>1, <1>6, <1>7, <1>8 DEF IsRun, After, CompiledState
  <1>10. tr2[i'] = CompiledState(mem, reg, fault, jit_log)'
    BY <1>1, <1>4, <1>n DEF CompiledState
  <1>11. \E t : IsRun(t, i)' /\ t[i'] = CompiledState(mem, reg, fault, jit_log)'
    BY <1>9, <1>10
  <1> QED BY <1>1, <1>11 DEF TraceInv

LEMMA ReplayTraced == CheckInv /\ TraceInv /\ Replay => TraceInv'
  <1> SUFFICES ASSUME CheckInv, TraceInv, Replay PROVE TraceInv'
    OBVIOUS
  <1> DEFINE o == insns[i + 1]
  <1>1. /\ phase = "replay" /\ phase' = "replay" /\ i' = i + 1 /\ ~ fault /\ i \in Nat /\ i < Len(insns)
        /\ UNCHANGED <<insns, code, jit_log, before, after, mem0, mem1>>
        /\ Len(insns) = Len(code) /\ Len(code) \in Nat /\ Types
    BY DEF Replay, CheckInv, Types
  <1>2. PICK n \in 0 .. Len(code) : \E tr :
          /\ IsRun(tr, n) /\ (n = Len(code) \/ tr[n].fault)
          /\ tr[n] = CompiledState(mem1, after.reg, after.fault, jit_log)
          /\ phase = "replay" /\ Innocent => i <= n /\ Follows(tr)
    BY <1>1 DEF TraceInv
  <1>3. PICK tr :
          /\ IsRun(tr, n) /\ (n = Len(code) \/ tr[n].fault)
          /\ tr[n] = CompiledState(mem1, after.reg, after.fault, jit_log)
          /\ phase = "replay" /\ Innocent => i <= n /\ Follows(tr)
    BY <1>2
  <1>4. Innocent' = Innocent
    BY <1>1 DEF Innocent, RightCode
  <1>5. ASSUME Innocent PROVE i + 1 <= n /\ Follows(tr)'
    <2>1. i <= n /\ Follows(tr)
      BY <1>1, <1>3, <1>5
    <2>2. ~ tr[i].fault /\ tr[i].mem = mem /\ tr[i].reg = reg /\ tr[i].log = int_log
      BY <1>1, <2>1 DEF Follows
    <2>3. i < n
      BY <1>1, <1>3, <2>1, <2>2
    <2>4. i \in 0 .. (n - 1) /\ i + 1 \in 1 .. Len(code)
      BY <1>1, <2>3
    <2>5. tr[i + 1] = After(code[i + 1], tr[i])
      BY <1>3, <2>4 DEF IsRun
    <2>6. After(code[i + 1], tr[i]) = After(code[i + 1], CompiledState(mem, reg, FALSE, int_log))
      BY <2>2 DEF After, CompiledState
    <2>7. /\ code[i + 1] = Right(o)
          /\ ~ WriteOnly(o) /\ o \in Insns
      BY <1>1, <1>5, <2>4, AtHand DEF Innocent, RightCode, Right
    <2> HIDE DEF o
    <2>8. /\ tr[i + 1].fault = Faults(o)
          /\ tr[i + 1].mem = MemAfter(o, mem, reg)
          /\ tr[i + 1].log = IF Stores(o) THEN Logged(int_log, o, mem, NewBytes(o, mem, reg)) ELSE int_log
          /\ Faults(o) \/ tr[i + 1].reg = RegAfter(o, mem, reg)
      <3> DEFINE s == After(Right(o), CompiledState(mem, reg, FALSE, int_log))
      <3>1. Matches(s, o, mem, reg, int_log)
        BY <2>7, RightInstruction
      <3>2. tr[i + 1] = s
        BY <2>5, <2>6, <2>7
      <3> HIDE DEF s
      <3> QED BY <3>1, <3>2 DEF Matches
    <2>9. /\ fault' = Faults(o) /\ mem' = MemAfter(o, mem, reg) /\ reg' = RegAfter(o, mem, reg)
          /\ int_log' = IF Stores(o) THEN Logged(int_log, o, mem, NewBytes(o, mem, reg)) ELSE int_log
      BY DEF Replay, o
    <2>10. i + 1 <= n
      BY <1>1, <2>3
    <2> QED BY <1>1, <2>8, <2>9, <2>10 DEF Follows
  <1>6. IsRun(tr, n)'
    BY <1>1, <1>3 DEF IsRun, After, CompiledState
  <1>7. CompiledState(mem1, after.reg, after.fault, jit_log)' = CompiledState(mem1, after.reg, after.fault, jit_log)
    BY <1>1 DEF CompiledState
  <1>8. \E t : /\ IsRun(t, n)' /\ (n = Len(code)' \/ t[n].fault)
               /\ t[n] = CompiledState(mem1, after.reg, after.fault, jit_log)'
               /\ phase' = "replay" /\ Innocent' => i' <= n /\ Follows(t)'
    BY <1>1, <1>3, <1>4, <1>5, <1>6, <1>7
  <1> QED BY <1>1, <1>8 DEF TraceInv

LEMMA InitTraced == Init => TraceInv
  BY DEF Init, TraceInv

LEMMA EnterTraced == CheckInv /\ RunBlock => TraceInv'
  <1> SUFFICES ASSUME CheckInv, RunBlock PROVE TraceInv'
    OBVIOUS
  <1>1. /\ phase' = "compiled" /\ i' = 0 /\ before' = reg /\ mem0' = mem /\ mem' = mem /\ reg' = reg
        /\ fault' = fault /\ ~ fault /\ fault \in BOOLEAN /\ jit_log' = <<>>
    BY DEF RunBlock, Enter, CheckInv, Types
  <1>2. PICK tr : tr = [k \in {0} |-> CompiledState(mem, reg, FALSE, <<>>)]
    OBVIOUS
  <1>3. tr[0] = CompiledState(mem, reg, FALSE, <<>>)
    BY <1>2
  <1>4. tr[0] = CompiledState(mem0', before', FALSE, <<>>)
    BY <1>1, <1>3
  <1>5. IsRun(tr, i)'
    BY <1>1, <1>4 DEF IsRun, CompiledState
  <1>6. fault' = FALSE
    BY <1>1
  <1>7. tr[i'] = CompiledState(mem, reg, fault, jit_log)'
    BY <1>1, <1>3, <1>6 DEF CompiledState
  <1> QED BY <1>1, <1>5, <1>7 DEF TraceInv

LEMMA LeaveTraced == CheckInv /\ TraceInv /\ JitLeave => TraceInv'
  <1> SUFFICES ASSUME CheckInv, TraceInv, JitLeave PROVE TraceInv'
    OBVIOUS
  <1>1. /\ phase = "compiled" /\ phase' = "undo" /\ UNCHANGED <<code, mem0, before, jit_log>>
        /\ mem1' = mem /\ after'.reg = reg /\ after'.fault = fault /\ (i = Len(code) \/ fault)
        /\ i \in 0 .. Len(code)
    BY DEF JitLeave, CheckInv, Types
  <1>2. PICK tr : IsRun(tr, i) /\ tr[i] = CompiledState(mem, reg, fault, jit_log)
    BY <1>1 DEF TraceInv
  <1>3. PICK n \in 0 .. Len(code) : n = i
    BY <1>1
  <1>4. IsRun(tr, n) /\ tr[n] = CompiledState(mem, reg, fault, jit_log)
    BY <1>2, <1>3
  <1>5. n = Len(code) \/ tr[n].fault
    BY <1>1, <1>3, <1>4 DEF CompiledState
  <1>6. IsRun(tr, n)'
    BY <1>1, <1>4 DEF IsRun, After, CompiledState
  <1>7. tr[n] = CompiledState(mem1, after.reg, after.fault, jit_log)'
    BY <1>1, <1>4 DEF CompiledState
  <1>8. n \in 0 .. Len(code)' /\ (n = Len(code)' \/ tr[n].fault)
    BY <1>1, <1>5
  <1> QED BY <1>1, <1>6, <1>7, <1>8 DEF TraceInv

\* What keeps the trace of the finished block keeps what is known of it.
LEMMA TraceKept ==
  ASSUME NEW n \in 0 .. Len(code), NEW tr,
         IsRun(tr, n) /\ (n = Len(code) \/ tr[n].fault),
         tr[n] = CompiledState(mem1, after.reg, after.fault, jit_log),
         UNCHANGED <<insns, code, jit_log, before, after, mem0, mem1>>
  PROVE  /\ n \in 0 .. Len(code)' /\ IsRun(tr, n)' /\ (n = Len(code)' \/ tr[n].fault)
         /\ tr[n] = CompiledState(mem1, after.reg, after.fault, jit_log)'
         /\ Innocent' = Innocent
  BY DEF IsRun, After, CompiledState, Innocent, RightCode

LEMMA UndoTraced == CheckInv /\ TraceInv /\ (UndoWrite \/ Rewind) => TraceInv'
  <1> SUFFICES ASSUME CheckInv, TraceInv, UndoWrite \/ Rewind PROVE TraceInv'
    OBVIOUS
  <1>1. /\ phase = "undo" /\ phase' \in {"undo", "replay"} /\ Types
        /\ UNCHANGED <<insns, code, jit_log, before, after, mem0, mem1>>
    BY DEF UndoWrite, Rewind, CheckInv
  <1>2. PICK n \in 0 .. Len(code) : \E tr :
          /\ IsRun(tr, n) /\ (n = Len(code) \/ tr[n].fault)
          /\ tr[n] = CompiledState(mem1, after.reg, after.fault, jit_log)
    BY <1>1 DEF TraceInv
  <1>3. PICK tr :
          /\ IsRun(tr, n) /\ (n = Len(code) \/ tr[n].fault)
          /\ tr[n] = CompiledState(mem1, after.reg, after.fault, jit_log)
    BY <1>2
  <1>4. /\ n \in 0 .. Len(code)' /\ IsRun(tr, n)' /\ (n = Len(code)' \/ tr[n].fault)
        /\ tr[n] = CompiledState(mem1, after.reg, after.fault, jit_log)'
    BY <1>1, <1>3, TraceKept
  <1>5. ASSUME phase' = "replay" PROVE i' <= n /\ Follows(tr)'
    <2>1. /\ Rewind /\ i' = 0 /\ i = 0 /\ mem' = mem /\ reg' = before /\ fault' = FALSE /\ int_log' = <<>>
      BY <1>1, <1>5 DEF UndoWrite, Rewind
    <2>2. mem = mem0
      BY <1>1, <2>1, UndoneIsExact DEF CheckInv
    <2>3. tr[0] = CompiledState(mem0, before, FALSE, <<>>)
      BY <1>3 DEF IsRun
    <2>4. tr[i'].mem = mem0 /\ tr[i'].log = <<>> /\ tr[i'].fault = FALSE /\ tr[i'].reg = before
      BY <2>1, <2>3 DEF CompiledState
    <2>5. Follows(tr)'
      BY <2>1, <2>2, <2>4 DEF Follows
    <2> QED BY <1>1, <2>1, <2>5 DEF Types
  <1>6. phase' # "disagree" /\ phase' # "compiled"
    BY <1>1
  <1> QED BY <1>1, <1>4, <1>5, <1>6 DEF TraceInv

\* A replay that is over, of a block that is innocent, has nothing to report.
LEMMA CompareTraced == CheckInv /\ TraceInv /\ Compare => TraceInv'
  <1> SUFFICES ASSUME CheckInv, TraceInv, Compare PROVE TraceInv'
    OBVIOUS
  <1>1. /\ phase = "replay" /\ (i = Len(insns) \/ fault) /\ phase' \in {"agree", "disagree"}
        /\ UNCHANGED <<insns, code>>
        /\ Types /\ i \in Nat /\ fault \in BOOLEAN /\ Len(insns) = Len(code) /\ Len(code) \in Nat
        /\ ~ jit_over /\ ~ int_over /\ windows = WindowsOf(jit_log, mem1)
    BY DEF Compare, CheckInv, Types
  <1>2. Innocent' = Innocent
    BY <1>1 DEF Innocent, RightCode
  <1>3. ASSUME Innocent PROVE phase' = "agree"
    <2>1. PICK n \in 0 .. Len(code) : \E tr :
            /\ IsRun(tr, n) /\ (n = Len(code) \/ tr[n].fault)
            /\ tr[n] = CompiledState(mem1, after.reg, after.fault, jit_log)
            /\ phase = "replay" /\ Innocent => i <= n /\ Follows(tr)
      BY <1>1 DEF TraceInv
    <2>2. PICK tr :
            /\ IsRun(tr, n) /\ (n = Len(code) \/ tr[n].fault)
            /\ tr[n] = CompiledState(mem1, after.reg, after.fault, jit_log)
            /\ phase = "replay" /\ Innocent => i <= n /\ Follows(tr)
      BY <2>1
    <2>3. i <= n /\ Follows(tr)
      BY <1>1, <1>3, <2>2
    <2>4. i = n
      <3>1. CASE i = Len(insns)
        BY <1>1, <2>3, <3>1
      <3>2. CASE fault
        <4>1. tr[i].fault
          BY <2>3, <3>2 DEF Follows
        <4>2. i \notin 0 .. (n - 1)
          BY <2>2, <4>1 DEF IsRun
        <4> QED BY <1>1, <2>3, <4>2
      <3> QED BY <1>1, <3>1, <3>2
    <2>5. /\ mem = mem1 /\ int_log = jit_log /\ fault = after.fault /\ (fault \/ reg = after.reg)
      BY <2>2, <2>3, <2>4 DEF Follows, CompiledState
    <2>6. SameRegisters
      BY <1>1, <2>5 DEF SameRegisters
    <2>7. SameWrites
      BY <1>1, <2>5 DEF SameWrites
    <2>8. SameWindows
      <3> SUFFICES ASSUME NEW k \in 1 .. Len(jit_log)
                   PROVE  windows[k] = Slice(mem, jit_log[k].addr, Len(windows[k]))
        BY <1>1 DEF SameWindows
      <3>1. jit_log[k] \in LogEntry
        BY <1>1 DEF Types
      <3>2. Len(jit_log[k].before) \in Nat
        BY <3>1 DEF LogEntry
      <3>3. windows[k] = Slice(mem, jit_log[k].addr, Len(jit_log[k].before))
        BY <1>1, <2>5 DEF WindowsOf
      <3>4. Len(windows[k]) = Len(jit_log[k].before)
        BY <3>2, <3>3 DEF Slice
      <3> QED BY <3>3, <3>4
    <2> QED BY <2>6, <2>7, <2>8 DEF Compare
  <1> QED BY <1>1, <1>2, <1>3 DEF TraceInv

LEMMA TraceInvPreserved == CheckInv /\ TraceInv /\ [Next]_vars => TraceInv'
  <1> SUFFICES ASSUME CheckInv, TraceInv, [Next]_vars PROVE TraceInv'
    OBVIOUS
  <1>1. CASE Return
    BY <1>1 DEF Return, TraceInv
  <1>2. CASE UNCHANGED vars
    <2>1. UNCHANGED <<phase, i, mem, reg, fault, insns, code, jit_log, int_log, before, after, mem0, mem1>>
      BY <1>2 DEF vars
    <2>2. \A tr, n : IsRun(tr, n)' = IsRun(tr, n)
      BY <2>1 DEF IsRun, After, CompiledState
    <2>3. \A tr : Follows(tr)' = Follows(tr)
      BY <2>1 DEF Follows
    <2>4. Innocent' = Innocent
      BY <2>1 DEF Innocent, RightCode
    <2>5. /\ CompiledState(mem1, after.reg, after.fault, jit_log)' = CompiledState(mem1, after.reg, after.fault, jit_log)
          /\ CompiledState(mem, reg, fault, jit_log)' = CompiledState(mem, reg, fault, jit_log)
      BY <2>1 DEF CompiledState
    <2>6. phase = "compiled" => \E tr : IsRun(tr, i)' /\ tr[i'] = CompiledState(mem, reg, fault, jit_log)'
      BY <2>1, <2>2, <2>5 DEF TraceInv
    <2>7. phase \in {"undo", "replay"} => \E n \in 0 .. Len(code)' : \E tr :
            /\ IsRun(tr, n)' /\ (n = Len(code)' \/ tr[n].fault)
            /\ tr[n] = CompiledState(mem1, after.reg, after.fault, jit_log)'
            /\ phase' = "replay" /\ Innocent' => i' <= n /\ Follows(tr)'
      BY <2>1, <2>2, <2>3, <2>4, <2>5 DEF TraceInv
    <2> QED BY <2>1, <2>4, <2>6, <2>7 DEF TraceInv
  <1> QED BY <1>1, <1>2, EnterTraced, JitStepTraced, LeaveTraced, UndoTraced, ReplayTraced,
             CompareTraced DEF Next

\* Right code raises no alarm: where rashid -J reports a block that was
\* compiled as its instructions say, whatever the block and the memory, the
\* block touches memory the guest may write and not read.
THEOREM NoFalseAlarms == Spec => []NoFalseAlarm
  <1>1. TraceInv => NoFalseAlarm
    BY DEF TraceInv, NoFalseAlarm, Innocent
  <1> QED BY <1>1, InitTraced, TraceInvPreserved, CheckInvAlways, PTL DEF Spec

=============================================================================
