---------------------------- MODULE GuestMemory -----------------------------
(***************************************************************************)
(* How the two engines use the address space: access_ok() of cpu.c, which  *)
(* decides every access of the interpreter and the slow path of compiled   *)
(* code, and the comparison put_region_check() of jit.c compiles, which    *)
(* decides the rest without a call.  What makes the pair correct is stated *)
(* here about the regions, the hits and the memory that is really there.   *)
(***************************************************************************)
EXTENDS AddressSpace

CONSTANTS
  MinValid,   \* RSD_MIN_VALID: the null page ends here
  MaxValid    \* RSD_MAX_VALID: beyond any user address

ASSUME ValidAssumption == MinValid \in Nat /\ MaxValid \in Nat

Addresses == 0 .. (Word - 1)
Widths == 1 .. Span

\* access_ok(): allowed by the regions; else refused when they cover it all;
\* else left to the host, unless no process could have memory there.
access_ok_NoCeiling(s, a, n, prot) ==
  \/ rsd_as_ok(s, a, n, prot)
  \/ ~ rsd_as_mapped(s, a, n) /\ a >= MinValid /\ n <= Minus(MaxValid, a)
access_ok(s, a, n, prot) ==
  \/ rsd_as_ok(s, a, n, prot)
  \/ /\ ~ rsd_as_mapped(s, a, n)
     /\ a >= MinValid /\ a < MaxValid /\ n <= MaxValid - a

\* put_region_check(): one subtraction and one unsigned comparison per entry.
InlineHit_Signed(p, a) == \E k \in 0 .. 1 : a - hit[p][k].lo < hit[p][k].lim
InlineHit(p, a) == \E k \in 0 .. 1 : Minus(a, hit[p][k].lo) < hit[p][k].lim

-----------------------------------------------------------------------------
(* Properties.                                                             *)

\* The variables have their types: the list holds regions, each cache two
\* entries, and only user addresses are ever mapped (as.h, struct rsd_as).
TypeOK ==
  /\ reg \in Seq(Region) /\ cap \in Nat
  /\ hit \in [{"R", "W"} -> [0 .. 1 -> Hit]]
  /\ host \in SUBSET (0 .. (UserTop - 1))

\* A non-empty hit is a region of the present list, with its permission and
\* with the bound that keeps an access of Span bytes inside it: no operation
\* leaves an entry behind that describes a region which has changed.
EntryCurrent(h, p) ==
  h = NoHit \/ \E i \in 1 .. Len(reg) : /\ h.lo = reg[i].start
                                        /\ h.lim = reg[i].end - reg[i].start - (Span - 1)
                                        /\ h.lim > 0
                                        /\ p \in reg[i].prot
HitsCurrent == \A p \in {"R", "W"}, k \in 0 .. 1 : EntryCurrent(hit[p][k], p)

\* The array always has room for the list: what a protect cuts regions into
\* fits the array it allocated for it, and insert() grows it in time.
ListFits == Len(reg) <= cap

\* Regions are not empty, end below UserTop, and no two share a byte.
RegionsDisjoint ==
  /\ \A i \in 1 .. Len(reg) : reg[i].start < reg[i].end /\ reg[i].end <= UserTop
  /\ \A i, j \in 1 .. Len(reg) :
       i # j => reg[i].end <= reg[j].start \/ reg[j].end <= reg[i].start

\* Every byte of every region is mapped in the host.
RegionsHosted == \A i \in 1 .. Len(reg) : reg[i].start .. (reg[i].end - 1) \subseteq host

\* Compiled code and the interpreter agree: an access the in-line check lets
\* through is one rsd_as_ok() allows, for every width up to Span.
InlineSound ==
  \A p \in {"R", "W"}, a \in Addresses, n \in Widths :
    InlineHit(p, a) => rsd_as_ok(reg, a, n, {p})

\* The permissions the list gives a byte; none when no region holds it.
ProtAt(s, a) == IF find(s, a) = 0 THEN {} ELSE s[find(s, a)].prot

\* access_ok() on an access of any width and place, up to the 16 bytes of an SSE
\* register (2 * Span): one that lies in regions, however many, goes ahead exactly
\* when each of its bytes has the permission, and the host has them all; one that
\* touches no region, exactly when a process could have memory there.
AccessBytes(a, n) == a .. (a + n - 1)
AccessExact ==
  \A p \in {"R", "W"}, a \in Addresses, n \in 1 .. (2 * Span) :
    /\ (\A b \in AccessBytes(a, n) : find(reg, b) # 0)
         => (access_ok(reg, a, n, {p})
               <=> \A b \in AccessBytes(a, n) : p \in ProtAt(reg, b) /\ b \in host)
    /\ (\A b \in AccessBytes(a, n) : find(reg, b) = 0)
         => (access_ok(reg, a, n, {p})
               <=> AccessBytes(a, n) \subseteq MinValid .. (MaxValid - 1))

\* What as.c and cpu.c say of permissions: they are enforced on every access, so
\* one that goes ahead has the permission for each byte that is in a region.
\* False of an access that begins in a region and runs out of all of them.
AccessEnforced ==
  \A p \in {"R", "W"}, a \in Addresses, n \in 1 .. (2 * Span) :
    access_ok(reg, a, n, {p}) =>
      \A b \in AccessBytes(a, n) : find(reg, b) # 0 => p \in ProtAt(reg, b)

\* Protecting a range changes the bytes of the regions inside the range, to
\* the permissions asked for, and no others, whatever regions it cuts.
ProtectExact ==
  \A at \in Ats, len \in Lens, prot \in Prots :
    len > 0 /\ at + len < Word =>
      LET s == Protected(reg, at, at + len, prot)
      IN  \A a \in 0 .. (UserTop - 1) :
            /\ find(s, a) = 0 <=> find(reg, a) = 0
            /\ ProtAt(s, a) = IF find(reg, a) # 0 /\ at <= a /\ a < at + len
                              THEN prot ELSE ProtAt(reg, a)

=============================================================================
