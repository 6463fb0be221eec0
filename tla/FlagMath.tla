------------------------------ MODULE FlagMath ------------------------------
(***************************************************************************)
(* The arithmetic of the flags, in its two versions: the flags_*()          *)
(* functions and rsd_i_shift() of cpu.c, and what put_flags_inline() of     *)
(* jit.c emits, which reads them off arm64's own.  Both are compared with   *)
(* what the flags mean in numbers, also over two instructions that pass a   *)
(* carry on.                                                               *)
(*                                                                         *)
(* Words are scaled down: registers of RegBits bits, of which operations    *)
(* use the low 8, 32 or 64, here ByteBits or a member of Inline.  Registers *)
(* hold anything above the operand.                                        *)
(***************************************************************************)
EXTENDS Integers, Sequences, FiniteSets, Bitwise

CONSTANTS
  ByteBits,   \* bits of a byte: 8
  Nibble,     \* the auxiliary carry is out of this many low bits: 4
  Inline,     \* widths with flag-setting forms on arm64: 32 and 64
  RegBits,    \* bits of a register: 64
  Wide,       \* bound: widths of which two instructions in a row are taken
  Before      \* flags to start from

Widths == {ByteBits} \cup Inline
Reg == 0 .. (2^RegBits - 1)

ASSUME FlagMathAssumption ==
  /\ ByteBits \in Nat /\ Nibble \in 1 .. (ByteBits - 1)
  /\ Inline \subseteq Nat /\ RegBits \in Inline /\ \A w \in Widths : ByteBits <= w /\ w <= RegBits

FlagNames == {"CF", "PF", "AF", "ZF", "SF", "OF"}

VARIABLES
  last,    \* the instruction executed last, its operands and its result
  prev,    \* the one before it
  flags,   \* c->flags, as the set of flags that are on
  old      \* history: the flags before the last instruction

mathVars == <<last, prev, flags, old>>

-----------------------------------------------------------------------------
Bit(x, k) == (x \div 2^k) % 2
trunc_sz(v, w) == v % 2^w
sext(v, w) == IF Bit(v, w - 1) = 1 THEN trunc_sz(v, w) - 2^w ELSE trunc_sz(v, w)
If(p, f) == IF p THEN {f} ELSE {}
Ones(x, w) == Cardinality({k \in 0 .. (w - 1) : Bit(x, k) = 1})

(* The interpreter.  f is the flags word before; r is not yet truncated.    *)

set_pzs(f, r, w) ==
  (f \ {"ZF", "SF", "PF"})
    \cup If(trunc_sz(r, w) = 0, "ZF") \cup If(Bit(r, w - 1) = 1, "SF")
    \cup If(Ones(r, ByteBits) % 2 = 0, "PF")

flags_logic(f, r, w) == set_pzs(f \ {"CF", "OF"}, r, w)

\* What is common to adding and subtracting; sub tells them apart.
Arith(f, a, b, r, w, carry, sub) ==
  LET sign(x) == Bit(x, w - 1)
      of == IF sub THEN sign(a) # sign(b) /\ sign(a) # sign(r)
            ELSE sign(a) = sign(b) /\ sign(a) # sign(r)
      af == (Bit(a, Nibble) + Bit(b, Nibble) + Bit(r, Nibble)) % 2 = 1
  IN  set_pzs((f \ {"CF", "OF", "AF"}) \cup If(carry, "CF") \cup If(of, "OF") \cup If(af, "AF"), r, w)

flags_add(f, a, b, r, w) == Arith(f, a, b, r, w, trunc_sz(r, w) < trunc_sz(a, w), FALSE)
flags_sub(f, a, b, r, w) == Arith(f, a, b, r, w, trunc_sz(a, w) < trunc_sz(b, w), TRUE)

flags_adc_Plain(f, a, b, cf, r, w) == flags_add(f, a, b, r, w)
flags_adc(f, a, b, cf, r, w) ==
  Arith(f, a, b, r, w,
        \/ trunc_sz(r, w) < trunc_sz(a, w)
        \/ cf = 1 /\ trunc_sz(r, w) = trunc_sz(a, w), FALSE)
flags_sbb(f, a, b, cf, r, w) ==
  Arith(f, a, b, r, w,
        \/ trunc_sz(a, w) < trunc_sz(b, w)
        \/ cf = 1 /\ trunc_sz(a, w) = trunc_sz(b, w), TRUE)

rsd_i_flags_inc(f, a, r, w) == (flags_add(f, a, 1, r, w) \ {"CF"}) \cup (f \cap {"CF"})
rsd_i_flags_dec(f, a, r, w) == (flags_sub(f, a, 1, r, w) \ {"CF"}) \cup (f \cap {"CF"})

\* The count is not zero.  A byte is shifted by up to 31, more than it has.
Shl(a, n, w) ==
  LET ta == trunc_sz(a, w)
      cf == IF n <= w THEN Bit(ta, w - n) ELSE 0
      r == trunc_sz(ta * 2^n, w)
  IN  [r |-> r, cf |-> cf, of |-> (Bit(r, w - 1) + cf) % 2]
Shr(a, n, w) ==
  LET ta == trunc_sz(a, w)
  IN  [r |-> ta \div 2^n, cf |-> IF n <= w THEN Bit(ta, n - 1) ELSE 0, of |-> Bit(ta, w - 1)]
Sar(a, n, w) ==
  LET upto(k) == IF k >= w THEN w - 1 ELSE k
  IN  [r |-> trunc_sz(sext(a, w) \div 2^upto(n), w),
       cf |-> (sext(a, w) \div 2^upto(n - 1)) % 2, of |-> 0]

rsd_i_shift(f, s, w) ==
  set_pzs((f \ {"CF", "OF"}) \cup If(s.cf = 1, "CF") \cup If(s.of = 1, "OF"), s.r, w)

\* cond(), for the condition cc.
cond(f, cc) ==
  LET even == CASE cc \div 2 = 0 -> "OF" \in f
                [] cc \div 2 = 1 -> "CF" \in f
                [] cc \div 2 = 2 -> "ZF" \in f
                [] cc \div 2 = 3 -> "CF" \in f \/ "ZF" \in f
                [] cc \div 2 = 4 -> "SF" \in f
                [] cc \div 2 = 5 -> "PF" \in f
                [] cc \div 2 = 6 -> ("SF" \in f) # ("OF" \in f)
                [] cc \div 2 = 7 -> "ZF" \in f \/ ("SF" \in f) # ("OF" \in f)
  IN  IF cc % 2 = 1 THEN ~ even ELSE even

-----------------------------------------------------------------------------
(* Compiled code: arm64's N, Z, C and V of the flag-setting form, and       *)
(* parity and auxiliary carry by exclusive or.                             *)

\* A subtraction adds the complement and one, so a borrow is the carry clear.
NZCV(kind, a, b, r, w) ==
  LET ta == trunc_sz(a, w)
      tb == IF kind = "sub" THEN 2^w - 1 - trunc_sz(b, w) ELSE trunc_sz(b, w)
      one == IF kind = "sub" THEN 1 ELSE 0
      res == IF kind = "logic" THEN trunc_sz(r, w) ELSE trunc_sz(ta + tb + one, w)
  IN  [n |-> Bit(res, w - 1) = 1, z |-> res = 0,
       c |-> kind # "logic" /\ ta + tb + one >= 2^w,
       v |-> kind # "logic" /\ sext(ta, w) + sext(tb, w) + one # sext(res, w)]

Carry_Same(kind, nzcv) == nzcv.c
Carry(kind, nzcv) == IF kind = "sub" THEN ~ nzcv.c ELSE nzcv.c

\* Each half of a byte is folded onto the other until one bit is left.
Parity(r) ==
  LET Fold[s \in Nat] == IF s = ByteBits THEN r ELSE Fold[s * 2] ^^ (Fold[s * 2] \div 2^s)
  IN  Fold[1] % 2

put_flags_inline(f, kind, a, b, r, w, need) ==
  LET nzcv == NZCV(kind, a, b, r, w)
      arith == kind # "logic"
      on == If(arith /\ Carry(kind, nzcv), "CF") \cup If(nzcv.z, "ZF") \cup If(nzcv.n, "SF")
              \cup If(arith /\ nzcv.v, "OF") \cup If(Parity(r) = 0, "PF")
              \cup If(Bit((a ^^ b) ^^ r, Nibble) = 1, "AF")
  IN  (f \ need) \cup (on \cap need)

PutCondEven_SignOnly(f, cc) ==
  LET bit(x) == IF x \in f THEN 1 ELSE 0
  IN  CASE cc \div 2 = 0 -> bit("OF")
        [] cc \div 2 = 1 -> bit("CF")
        [] cc \div 2 = 2 -> bit("ZF")
        [] cc \div 2 = 3 -> bit("CF") | bit("ZF")
        [] cc \div 2 = 5 -> bit("PF")
        [] cc \div 2 \in {4, 6} -> bit("SF")
        [] cc \div 2 = 7 -> bit("SF") | bit("ZF")
\* put_cond_even() computes the even condition as a bit, and its users select
\* on the bit's inverse for the odd one.
PutCondEven(f, cc) ==
  LET bit(x) == IF x \in f THEN 1 ELSE 0
  IN  CASE cc \div 2 = 0 -> bit("OF")
        [] cc \div 2 = 1 -> bit("CF")
        [] cc \div 2 = 2 -> bit("ZF")
        [] cc \div 2 = 3 -> bit("CF") | bit("ZF")
        [] cc \div 2 = 4 -> bit("SF")
        [] cc \div 2 = 5 -> bit("PF")
        [] cc \div 2 = 6 -> bit("SF") ^^ bit("OF")
        [] cc \div 2 = 7 -> (bit("SF") ^^ bit("OF")) | bit("ZF")
CompiledCond(f, cc) == IF cc % 2 = 1 THEN PutCondEven(f, cc) = 0 ELSE PutCondEven(f, cc) # 0

-----------------------------------------------------------------------------
(* Instructions.                                                           *)

\* The result of an operation, before it is truncated to its width.
Result(op, a, b, cf) ==
  CASE op = "add" -> a + b       [] op = "sub" -> a + 2^RegBits - b
    [] op = "adc" -> a + b + cf  [] op = "sbb" -> a + 2^(RegBits + 1) - b - cf
    [] op = "and" -> a & b       [] op = "inc" -> a + 1
    [] op = "dec" -> a + 2^RegBits - 1

Interpreted(op, a, b, r, w) ==
  LET cf == IF "CF" \in flags THEN 1 ELSE 0
  IN  CASE op = "add" -> flags_add(flags, a, b, r, w)
        [] op = "sub" -> flags_sub(flags, a, b, r, w)
        [] op = "adc" -> flags_adc(flags, a, b, cf, r, w)
        [] op = "sbb" -> flags_sbb(flags, a, b, cf, r, w)
        [] op = "and" -> flags_logic(flags, r, w)
        [] op = "inc" -> rsd_i_flags_inc(flags, a, r, w)
        [] op = "dec" -> rsd_i_flags_dec(flags, a, r, w)

FlagsWritten(op) == CASE op \in {"inc", "dec"} -> FlagNames \ {"CF"}
                 [] op \in {"and", "shl", "shr", "sar"} -> FlagNames \ {"AF"}
                 [] OTHER -> FlagNames

Record(op, a, b, w, r, need, f) ==
  /\ last' = [op |-> op, a |-> a, b |-> b, w |-> w, r |-> trunc_sz(r, w), need |-> need]
  /\ prev' = last /\ old' = flags /\ flags' = f

\* An instruction of the interpreter.
InterpretInsn(op, a, b, w) ==
  LET r == Result(op, a, b, IF "CF" \in flags THEN 1 ELSE 0)
  IN  Record(op, a, b, w, r, FlagsWritten(op), Interpreted(op, a, b, r, w))

\* Widths has no 16 bits: the code shifts a word past its width as it does a byte.
Shift(op, a, n, w) ==
  LET s == CASE op = "shl" -> Shl(a, n, w) [] op = "shr" -> Shr(a, n, w) [] op = "sar" -> Sar(a, n, w)
  IN  Record(op, a, n, w, s.r, FlagsWritten(op), rsd_i_shift(flags, s, w))

\* A compiled instruction writes only the flags that are needed.
CompiledInsn(op, a, b, w, need) ==
  LET operand == IF op \in {"inc", "dec"} THEN 1 ELSE b
      kind == CASE op \in {"add", "inc"} -> "add" [] op \in {"sub", "dec"} -> "sub" [] OTHER -> "logic"
      r == trunc_sz(Result(op, a, b, 0), w)
  IN  Record(op, a, b, w, r, need, put_flags_inline(flags, kind, a, operand, r, w, need))

Nothing == [op |-> "none", a |-> 0, b |-> 0, w |-> ByteBits, r |-> 0, need |-> {}]
MathInit == last = Nothing /\ prev = Nothing /\ flags \in Before /\ old = flags

First ==
  /\ last.op = "none"
  /\ \/ \E op \in {"add", "sub", "adc", "sbb", "and", "inc", "dec"}, a, b \in Reg, w \in Widths :
          InterpretInsn(op, a, b, w)
     \/ \E op \in {"shl", "shr", "sar"}, a \in Reg, n \in 1 .. (2 * ByteBits + 1), w \in Widths :
          (n < w \/ w = ByteBits) /\ Shift(op, a, n, w)
     \/ \E op \in {"add", "sub", "and", "inc", "dec"}, a, b \in Reg, w \in Inline,
           need \in {{f} : f \in FlagNames} \cup {FlagNames} :
          CompiledInsn(op, a, b, w, need \cap FlagsWritten(op))

\* Of the second instructions those that use the carry of the first.
Second ==
  /\ prev.op = "none" /\ last.op \in {"add", "sub"} /\ last.w \in Wide /\ "CF" \in last.need
  /\ \E a, b \in 0 .. (2^last.w - 1) :
       InterpretInsn(IF last.op = "add" THEN "adc" ELSE "sbb", a, b, last.w)

MathNext == First \/ Second

MathSpec == MathInit /\ [][MathNext]_mathVars

-----------------------------------------------------------------------------
(* Properties.                                                             *)

\* What the flags mean: CF that the exact result is not a number of the width,
\* OF that it is not one as a signed number, AF the same as CF for the low
\* bits.  The last bit that a shift moves out is that of a number without end.
CarryIn(i) == IF i.op \in {"adc", "sbb"} /\ "CF" \in old THEN 1 ELSE 0
Exact(op, x, y, c) == IF op \in {"add", "adc", "inc"} THEN x + y + c ELSE x - y - c
Outside(x, lo, w) == x < lo \/ x >= lo + 2^w
SecondOperand(i) == IF i.op \in {"inc", "dec"} THEN 1 ELSE i.b
LastOut(i) ==
  CASE i.op = "shl" -> ((trunc_sz(i.a, i.w) * 2^i.b) \div 2^i.w) % 2
    [] i.op = "shr" -> (trunc_sz(i.a, i.w) \div 2^(i.b - 1)) % 2
    [] i.op = "sar" -> (sext(i.a, i.w) \div 2^(i.b - 1)) % 2
Signs(i) == If(i.r = 0, "ZF") \cup If(sext(i.r, i.w) < 0, "SF") \cup If(Ones(i.r, ByteBits) % 2 = 0, "PF")
Meaning(i) ==
  LET b == SecondOperand(i)
      exact(w) == Exact(i.op, trunc_sz(i.a, w), trunc_sz(b, w), CarryIn(i))
  IN  IF i.op = "and" THEN Signs(i)
      ELSE IF i.op \in {"shl", "shr", "sar"} THEN Signs(i) \cup If(LastOut(i) = 1, "CF") \cup If(Bit(i.r, i.w - 1) # Bit(i.a, i.w - 1), "OF")
      ELSE Signs(i) \cup If(Outside(exact(i.w), 0, i.w), "CF")
             \cup If(Outside(exact(Nibble), 0, Nibble), "AF")
             \cup If(Outside(Exact(i.op, sext(i.a, i.w), sext(b, i.w), CarryIn(i)), -(2^(i.w - 1)), i.w), "OF")

\* Both engines give each flag its meaning, and compiled code leaves the flags
\* nobody needs as they were.  A shift by one sets OF when it changes the sign;
\* by more than one, OF is undefined.
FlagsRight ==
  last.op # "none" =>
    LET defined == IF last.op \in {"shl", "shr", "sar"} /\ last.b > 1 THEN last.need \ {"OF"} ELSE last.need
    IN  /\ flags \cap defined = Meaning(last) \cap defined
        /\ flags \ last.need = old \ last.need

\* After a comparison the conditions order the operands, signed and unsigned,
\* in both engines.
ConditionsOrder ==
  last.op = "sub" /\ last.need = FlagNames /\ prev.op = "none" =>
    LET a == trunc_sz(last.a, last.w)
        b == trunc_sz(last.b, last.w)
        sa == sext(a, last.w)
        sb == sext(b, last.w)
        both(cc, p) == (cond(flags, cc) <=> p) /\ (CompiledCond(flags, cc) <=> p)
    IN  /\ both(2, a < b) /\ both(3, a >= b) /\ both(4, a = b) /\ both(5, a # b)
        /\ both(6, a <= b) /\ both(7, a > b) /\ both(12, sa < sb) /\ both(13, sa >= sb)
        /\ both(14, sa <= sb) /\ both(15, sa > sb)

\* A carry is passed on exactly: add and adc, or sub and sbb, on the two halves
\* of a number twice as wide are the sum or difference of the whole, with its
\* carry and its signed overflow.
Whole(hi, lo, w) == trunc_sz(hi, w) * 2^w + trunc_sz(lo, w)
CarryPassed ==
  /\ prev.op \in {"add", "sub"} /\ last.op = (IF prev.op = "add" THEN "adc" ELSE "sbb")
  /\ "CF" \in prev.need
  => LET w == last.w
         x == Whole(last.a, prev.a, w)
         y == Whole(last.b, prev.b, w)
         exact == Exact(prev.op, x, y, 0)
     IN  /\ Whole(last.r, prev.r, w) = exact % 2^(2 * w)
         /\ "CF" \in flags <=> Outside(exact, 0, 2 * w)
         /\ "OF" \in flags <=> Outside(Exact(prev.op, sext(x, 2 * w), sext(y, 2 * w), 0), -(2^(2 * w - 1)), 2 * w)
=============================================================================
