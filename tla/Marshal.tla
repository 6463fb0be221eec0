------------------------------ MODULE Marshal ------------------------------
(***************************************************************************)
(* Forwarding a variadic call: call_native_variadic() and marshal_format()  *)
(* of cpu.c.  The guest put its arguments where System V wants them, in     *)
(* integer registers, xmm registers and on the stack; a native function of  *)
(* macOS arm64 finds all variadic ones on the stack, in slots.  The format  *)
(* says how many there are and of which kind.                              *)
(*                                                                         *)
(* A character is its role in a format: "d" is a conversion of an integer,  *)
(* a pointer or an object, "f" one of a floating-point number, "x" anything *)
(* without a role, such as a digit, a dot or a letter outside of any        *)
(* directive.  An argument is the place it is read from.                   *)
(***************************************************************************)
EXTENDS Integers, Sequences, FiniteSets, FiniteSetsExt

CONSTANTS
  Gp,         \* integer registers: 6
  Sse,        \* xmm registers for arguments: 8
  MaxSlots,   \* the capacity of slots: 64
  StackRoom,  \* words that can be read above the return address
  Functions,  \* the variadic functions
  Texts       \* formats, and what follows them in memory

Chars == {"pct", "star", "L", "d", "f", "x", "[", "]", "nul"}

ASSUME MarshalAssumption ==
  /\ Gp \in Nat /\ Sse \in Nat /\ MaxSlots \in Nat /\ StackRoom \in Nat
  /\ Functions \subseteq [nfixed : 0 .. Gp, scan : BOOLEAN, nsformat : BOOLEAN]
  /\ \A t \in Texts : t \in Seq(Chars) /\ \E k \in 1 .. Len(t) : t[k] = "nul"

VARIABLES
  pc,           \* "call", "text" and "conv" (the two loops), "forwarded", "refused"
  fn, text,     \* the function called, and memory from its format on
  p,            \* the next character
  star, long_double,
  a,            \* the sysv_reader
  slots,
  running       \* c->running

vars == <<pc, fn, text, p, star, long_double, a, slots, running>>

-----------------------------------------------------------------------------
(* sysv_int() and sysv_sse()                                               *)

OnStack(r) == [src |-> <<"stack", r.stack>>, a |-> [r EXCEPT !.stack = @ + 1]]
sysv_int(r) == IF r.gp < Gp THEN [src |-> <<"gp", r.gp>>, a |-> [r EXCEPT !.gp = @ + 1]]
               ELSE OnStack(r)
sysv_sse_AsInt(r) == sysv_int(r)
sysv_sse(r) == IF r.sse < Sse THEN [src |-> <<"sse", r.sse>>, a |-> [r EXCEPT !.sse = @ + 1]]
               ELSE OnStack(r)

-----------------------------------------------------------------------------
(* call_native_variadic() up to marshal_format().  The fixed arguments are  *)
(* integers.  A selector that is not in rsd_objc_variadic_sel()'s list      *)
(* makes the call an ordinary one, which Engine has.                       *)

Call ==
  /\ pc = "call"
  /\ a' = [gp |-> fn.nfixed, sse |-> 0, stack |-> 0]
  /\ pc' = "text"
  /\ UNCHANGED <<fn, text, p, star, long_double, slots, running>>

\* The format is an NSString, and rsd_objc_cstring() gives nothing for it.
CallUnreadable ==
  /\ pc = "call" /\ fn.nsformat
  /\ pc' = "refused" /\ running' = FALSE
  /\ UNCHANGED <<fn, text, p, star, long_double, a, slots>>

-----------------------------------------------------------------------------
(* marshal_format().  Memory ends after text, so reading on is a fault.     *)

Readable == p <= Len(text)
Char == text[p]

\* The call is not made, and the guest stops.
Refuse == pc' = "refused" /\ running' = FALSE
            /\ UNCHANGED <<fn, text, p, star, long_double, a, slots>>

\* A fault shows at the next character, also one met in reading an argument.
TextFault == pc = "text" /\ (~ running \/ ~ Readable) /\ Refuse

TextEnd ==
  /\ pc = "text" /\ running /\ Readable /\ Char = "nul"
  /\ pc' = "forwarded"
  /\ UNCHANGED <<fn, text, p, star, long_double, a, slots, running>>

TextChar ==
  /\ pc = "text" /\ running /\ Readable /\ Char # "nul"
  /\ p' = p + 1
  /\ IF Char = "pct"
     THEN pc' = "conv" /\ star' = FALSE /\ long_double' = FALSE
     ELSE UNCHANGED <<pc, star, long_double>>
  /\ UNCHANGED <<fn, text, a, slots, running>>

InConv == pc = "conv" /\ Readable

\* Out of readable memory, or at the terminator: back to the outer loop, which
\* goes on with the character after it.
ConvCut ==
  /\ pc = "conv" /\ (~ Readable \/ Char = "nul")
  /\ running' = Readable
  /\ p' = p + 1 /\ pc' = "text"
  /\ UNCHANGED <<fn, text, star, long_double, a, slots>>

ConvModifier_Percent ==
  /\ InConv /\ Char \in {"star", "L", "x", "[", "]", "pct"}
  /\ star' = (star \/ Char = "star")
  /\ long_double' = (long_double \/ Char = "L")
  /\ p' = p + 1
  /\ UNCHANGED <<pc, fn, text, a, slots, running>>
ConvModifier_Stays ==
  /\ InConv /\ Char \in {"star", "L", "x", "[", "]"}
  /\ star' = (star \/ Char = "star")
  /\ long_double' = (long_double \/ Char = "L")
  /\ UNCHANGED <<pc, fn, text, p, a, slots, running>>
ConvModifier ==
  /\ InConv /\ Char \in {"star", "L", "x", "[", "]"}
  /\ star' = (star \/ Char = "star")
  /\ long_double' = (long_double \/ Char = "L")
  /\ p' = p + 1
  /\ UNCHANGED <<pc, fn, text, a, slots, running>>

\* %%, and a scanf conversion that is not assigned.
TakesNone == Char = "pct" \/ (Char \in {"d", "f"} /\ ~ long_double /\ star /\ fn.scan)

ConvNone ==
  /\ InConv /\ TakesNone
  /\ p' = p + 1 /\ pc' = "text"
  /\ UNCHANGED <<fn, text, star, long_double, a, slots, running>>

Converts == InConv /\ Char \in {"d", "f"} /\ ~ TakesNone

NoRoom_Early == Len(slots) + (IF star THEN 1 ELSE 0) + 1 >= MaxSlots
NoRoom == Len(slots) + (IF star THEN 1 ELSE 0) >= MaxSlots

ConvRefuse == Converts /\ (long_double \/ NoRoom) /\ Refuse

ConvTake ==
  /\ Converts /\ ~ long_double /\ ~ NoRoom
  /\ LET width == sysv_int(a)
         rest  == IF star THEN width.a ELSE a
         arg   == IF ~ fn.scan /\ Char = "f" THEN sysv_sse(rest) ELSE sysv_int(rest)
     IN  /\ slots' = slots \o (IF star THEN <<width.src>> ELSE <<>>) \o <<arg.src>>
         /\ a' = arg.a
         /\ running' = (running /\ arg.a.stack <= StackRoom)
  /\ p' = p + 1 /\ pc' = "text"
  /\ UNCHANGED <<fn, text, star, long_double>>

-----------------------------------------------------------------------------
Init ==
  /\ pc = "call"
  /\ fn \in Functions /\ text \in Texts /\ p = 1
  /\ star = FALSE /\ long_double = FALSE
  /\ a = [gp |-> 0, sse |-> 0, stack |-> 0] /\ slots = <<>> /\ running = TRUE

Next == \/ Call \/ CallUnreadable \/ TextFault \/ TextEnd \/ TextChar
        \/ ConvCut \/ ConvModifier \/ ConvNone \/ ConvRefuse \/ ConvTake

\* The loops are one thread of the host's, which runs them to their end.
Spec == Init /\ [][Next]_vars /\ WF_vars(Next)

-----------------------------------------------------------------------------
(* What the C standard says a format takes.                                *)

\* The last character of the directive whose % is at k: its conversion, or the
\* end of a scanf set.  A directive without an end is cut by the terminator.
IsSet(f, t, k) ==
  f.scan /\ \E j \in k + 1 .. Len(t) :
    t[j] = "[" /\ \A l \in k + 1 .. j - 1 : t[l] \in {"star", "L", "x"}
Ends(f, t, k) == IF IsSet(f, t, k) THEN {"]", "nul"} ELSE {"d", "f", "pct", "nul"}
LastOf(f, t, k) == Min({j \in k + 1 .. Len(t) : t[j] \in Ends(f, t, k)})

\* The directives of a format, each the position of its %: one that is before
\* the terminator and not part of a directive begun earlier.
InText(t, k) == \A j \in 1 .. k : t[j] # "nul"
IsReading(f, t, D) ==
  \A k \in 1 .. Len(t) :
    k \in D <=> t[k] = "pct" /\ InText(t, k) /\ \A d \in D : d < k => LastOf(f, t, d) < k
Directives(f, t) == CHOOSE D \in SUBSET {k \in 1 .. Len(t) : t[k] = "pct"} : IsReading(f, t, D)

\* The characters of directive d that take an argument: its stars and its
\* conversion.  Nothing is taken for %% or, in scanf, with a star.
StarsOf(f, t, d) == {j \in d + 1 .. LastOf(f, t, d) : t[j] = "star"}
TakenBy(f, t, d) ==
  IF t[LastOf(f, t, d)] = "pct" \/ (f.scan /\ StarsOf(f, t, d) # {}) THEN {}
  ELSE StarsOf(f, t, d) \cup {LastOf(f, t, d)}

\* All arguments, each the position of its character.
Args(f, t) == UNION {TakenBy(f, t, d) : d \in Directives(f, t)}
IsFp(f, t, k) == t[k] = "f" /\ ~ f.scan

\* Where System V puts argument k of the arguments as.
FpBefore(f, t, as, k) == Cardinality({j \in as : j < k /\ IsFp(f, t, j)})
IntBefore(f, t, as, k) == Cardinality({j \in as : j < k /\ ~ IsFp(f, t, j)})
InRegister(f, t, as, k) == IF IsFp(f, t, k) THEN FpBefore(f, t, as, k) < Sse
                           ELSE f.nfixed + IntBefore(f, t, as, k) < Gp
StackBefore(f, t, as, k) == Cardinality({j \in as : j < k /\ ~ InRegister(f, t, as, j)})
Placed(f, t, as, k) ==
  IF ~ InRegister(f, t, as, k) THEN <<"stack", StackBefore(f, t, as, k)>>
  ELSE IF IsFp(f, t, k) THEN <<"sse", FpBefore(f, t, as, k)>>
  ELSE <<"gp", f.nfixed + IntBefore(f, t, as, k)>>

Ordinary(f, t) ==
  \A d \in Directives(f, t) : /\ t[LastOf(f, t, d)] # "nul" /\ ~ IsSet(f, t, d)
                              /\ Cardinality(StarsOf(f, t, d)) <= 1
LongDouble(f, t, d) == /\ t[LastOf(f, t, d)] \in {"d", "f"}
                       /\ \E j \in d .. LastOf(f, t, d) : t[j] = "L"

-----------------------------------------------------------------------------
(* Properties.                                                             *)

\* A call that is forwarded has, slot by slot, the arguments its format takes
\* from where the guest put them: for a format of directives with at most one
\* star and, in scanf, without sets.
Index(as, k) == Cardinality({j \in as : j < k}) + 1
SlotsRight(f, t, as) ==
  /\ Len(slots) = Cardinality(as)
  /\ \A k \in as : slots[Index(as, k)] = Placed(f, t, as, k)
ForwardedRight ==
  pc = "forwarded" /\ Ordinary(fn, text) => SlotsRight(fn, text, Args(fn, text))

\* marshal_format() refuses a long double, more arguments than slots and
\* arguments beyond readable memory, and nothing else.
Done == pc = "forwarded" \/ (pc = "refused" /\ p > 1)
OnStackRoom(f, t, as) ==
  \A k \in as : ~ InRegister(f, t, as, k) => StackBefore(f, t, as, k) < StackRoom
Forwardable(f, t) ==
  /\ \A d \in Directives(f, t) : ~ LongDouble(f, t, d)
  /\ Cardinality(Args(f, t)) <= MaxSlots /\ OnStackRoom(f, t, Args(f, t))
RefusedRight ==
  Done /\ Ordinary(fn, text) => (pc = "refused" <=> ~ Forwardable(fn, text))

\* An ordinary format is not read past its terminator.
InString ==
  Done /\ Ordinary(fn, text) => \A j \in 1 .. p - 1 : text[j] # "nul"

\* Walking a format comes to an end, also when it has run past the terminator.
Ended == <>(pc \in {"forwarded", "refused"})
=============================================================================
