---------------------------- MODULE UntypedProofs ----------------------------
(***************************************************************************)
(* What carve_place and topup_carve return, for every region, watermark,   *)
(* size and width of addresses.                                            *)
(***************************************************************************)
EXTENDS Untyped, TLAPS

\* The remainder that carve_place subtracts is below the alignment.
LEMMA Remainder == \A s \in Nat, a \in Nat \ {0} : s % a \in 0 .. a - 1
  OBVIOUS

\* Subtracting the remainder leaves a multiple of a page and of the small
\* alignment of the kernel's objects.
LEMMA Rounded == \A s \in Nat, a \in {16, 4096} : (s - (s % a)) % a = 0
  <1>1. \A s \in Nat : (s - (s % 16)) % 16 = 0
    BY Z3
  <1>2. \A s \in Nat : (s - (s % 4096)) % 4096 = 0
    BY Z3
  <1> QED
    BY <1>1, <1>2

\* carve_place, when it succeeds, returns bytes of the region that lie behind the
\* watermark, with a gap smaller than the alignment, and no sum it used has left
\* the address range.  With the kernel's alignments the first byte is aligned.
THEOREM CarveInRegion ==
  ASSUME MaxAddr \in Nat, None \notin Int, None # "NoMemory",
         NEW base \in Nat, NEW size \in Nat, NEW watermark \in Nat,
         NEW align \in Nat \ {0}, NEW bytes \in Nat,
         CarvePlace(base, size, watermark, align, bytes).error = None
  PROVE  LET c == CarvePlace(base, size, watermark, align, bytes)
         IN  /\ c.start \in Nat /\ c.end = c.start + bytes
             /\ base + watermark <= c.start /\ c.start < base + watermark + align
             /\ c.end <= base + size /\ base + size <= MaxAddr
             /\ align \in {16, 4096} => c.start % align = 0
  <1> DEFINE s == base + watermark + (align - 1)
             r == CarvePlace(base, size, watermark, align, bytes)
  <1>a. s \in Nat
    OBVIOUS
  <1>1. s % align \in 0 .. align - 1
    <2> HIDE DEF s
    <2> QED BY <1>a, Remainder
  <1>2. r = Failed("NoMemory") \/ /\ r = Placed(s - (s % align), s - (s % align) + bytes)
                                  /\ s - (s % align) + bytes <= base + size
                                  /\ base + size <= MaxAddr
    BY <1>a, <1>1 DEF CarvePlace, Sum
  <1>3. Failed("NoMemory").error = "NoMemory"
    BY DEF Failed
  <1>4. s - (s % align) \in Nat /\ base + watermark <= s - (s % align)
        /\ s - (s % align) < base + watermark + align
    BY <1>a, <1>1
  <1>5. r.error = None
    OBVIOUS
  <1>6. r = Placed(s - (s % align), s - (s % align) + bytes)
        /\ s - (s % align) + bytes <= base + size /\ base + size <= MaxAddr
    <2> HIDE DEF r
    <2> QED BY <1>2, <1>3, <1>5
  <1>7. r.start = s - (s % align) /\ r.end = s - (s % align) + bytes
    <2> HIDE DEF r, s
    <2> QED BY <1>6 DEF Placed
  <1> QED
    <2> HIDE DEF s
    <2>1. align \in {16, 4096} => r.start % align = 0
      BY <1>a, <1>7, Rounded
    <2> HIDE DEF r
    <2>2. /\ r.start \in Nat /\ r.end = r.start + bytes
          /\ base + watermark <= r.start /\ r.start < base + watermark + align
          /\ r.end <= base + size /\ base + size <= MaxAddr
      BY <1>4, <1>6, <1>7
    <2> QED BY <2>1, <2>2 DEF r
=============================================================================
