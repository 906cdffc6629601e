---------------------------- MODULE QueueProofs ----------------------------
(***************************************************************************)
(* Theorems of the Queue and its evaluator, for any entries, Slices,       *)
(* Printers, Spools, profiles and bounds.                                  *)
(***************************************************************************)
EXTENDS Queue, FiniteSetTheorems, SequenceTheorems, WellFoundedInduction, TLAPS

(***************************************************************************)
(* Sums.                                                                   *)
(***************************************************************************)
\* The least number of a set of numbers.
LEMMA Smallest ==
  ASSUME NEW S, S \subseteq Nat, S # {}
  PROVE  \E x \in S : \A y \in S : x <= y
<1> DEFINE R == OpToRel(<, Nat)
<1>1. PICK x \in S : \A y \in S : <<y, x>> \notin R
  <2>1. IsWellFoundedOn(R, Nat)
    BY NatLessThanWellFounded
  <2> HIDE DEF R
  <2> QED  BY <2>1, WFMin
<1>2. R = {ss \in Nat \X Nat : ss[1] < ss[2]}
  BY Zenon DEF OpToRel
<1> HIDE DEF R
<1>3. ASSUME NEW y \in S  PROVE x <= y
  <2>1. x \in Nat /\ y \in Nat /\ <<y, x>> \notin R
    BY <1>1
  <2> QED  BY <1>2, <2>1
<1> QED  BY <1>3

Drawn(S) == CHOOSE x \in S : TRUE
Adds(g, f, s) == IF s = {} THEN 0 ELSE f[Drawn(s)] + g[s \ {Drawn(s)}]
Summing(f, S) == CHOOSE g : g = [s \in SUBSET S |-> Adds(g, f, s)]

LEMMA SumIs ==
  ASSUME NEW f
  PROVE  SumFunction(f) = Summing(f, DOMAIN f)[DOMAIN f]
BY Zenon DEF SumFunction, SumFunctionOnSet, FoldFunctionOnSet, MapThenFoldSet, Summing, Adds, Drawn

LEMMA DrawnIn ==
  ASSUME NEW S, IsFiniteSet(S), NEW s \in SUBSET S, s # {}
  PROVE  /\ Drawn(s) \in s /\ s \ {Drawn(s)} \in SUBSET S /\ Cardinality(s) \in Nat \ {0}
         /\ Cardinality(s \ {Drawn(s)}) = Cardinality(s) - 1
<1>1. Drawn(s) \in s
  BY DEF Drawn
<1>2. IsFiniteSet(s)
  BY FS_Subset
<1>3. Cardinality(s) \in Nat /\ Cardinality(s) # 0
  BY <1>2, FS_CardinalityType, FS_EmptySet
<1>4. Cardinality(s \ {Drawn(s)}) = Cardinality(s) - 1
  BY <1>1, <1>2, FS_RemoveElement
<1> QED  BY <1>1, <1>3, <1>4

\* The sums of the subsets of a finite set exist: level by level.
LEMMA SummingIs ==
  ASSUME NEW S, IsFiniteSet(S), NEW f
  PROVE  Summing(f, S) = [s \in SUBSET S |-> Adds(Summing(f, S), f, s)]
<1> DEFINE Level(n) == {s \in SUBSET S : Cardinality(s) <= n}
           Some(n) == \E g : g = [s \in Level(n) |-> Adds(g, f, s)]
           Bad == {n \in Nat : ~Some(n)}
<1>1. Bad = {}
  <2> SUFFICES ASSUME Bad # {}  PROVE FALSE
    OBVIOUS
  <2>1. PICK n \in Bad : \A m \in Bad : n <= m
    <3>1. Bad \subseteq Nat
      OBVIOUS
    <3> HIDE DEF Bad
    <3> QED  BY <3>1, Smallest
  <2>2. n \in Nat /\ ~Some(n)
    OBVIOUS
  <2>3. CASE n = 0
    <3>1. \A s \in Level(0) : s = {}
      <4> SUFFICES ASSUME NEW s \in SUBSET S, Cardinality(s) <= 0, s # {}  PROVE FALSE
        OBVIOUS
      <4>1. Cardinality(s) \in Nat \ {0}
        BY DrawnIn
      <4> QED  BY <4>1
    <3> DEFINE g == [s \in Level(0) |-> 0]
    <3>2. g = [s \in Level(0) |-> Adds(g, f, s)]
      BY <3>1 DEF Adds
    <3> QED  BY <2>2, <2>3, <3>2
  <2>4. CASE n # 0
    <3>1. n - 1 \in Nat /\ n - 1 \notin Bad
      <4> HIDE DEF Bad
      <4> QED  BY <2>1, <2>2, <2>4
    <3>2. PICK g : g = [s \in Level(n - 1) |-> Adds(g, f, s)]
      BY <3>1
    <3> DEFINE h == [s \in Level(n) |-> Adds(g, f, s)]
    <3>3. ASSUME NEW s \in Level(n)  PROVE Adds(g, f, s) = Adds(h, f, s)
      <4>1. CASE s = {}
        BY <4>1 DEF Adds
      <4>2. CASE s # {}
        <5> DEFINE t == s \ {Drawn(s)}
        <5>1. t \in SUBSET S /\ Cardinality(t) = Cardinality(s) - 1 /\ Cardinality(s) \in Nat /\ Cardinality(s) <= n
          BY <4>2, DrawnIn
        <5>2. t \in Level(n - 1) /\ t \in Level(n)
          BY <2>2, <5>1
        <5> HIDE DEF t
        <5>3. g[t] = Adds(g, f, t) /\ h[t] = Adds(g, f, t)
          BY <3>2, <5>2
        <5> QED  BY <4>2, <5>3 DEF Adds, t
      <4> QED  BY <4>1, <4>2
    <3>4. h = [s \in Level(n) |-> Adds(h, f, s)]
      <4> HIDE DEF Level
      <4> QED  BY <3>3
    <3> QED  BY <2>2, <3>4
  <2> QED  BY <2>3, <2>4
<1>2. Cardinality(S) \in Nat /\ \A s \in SUBSET S : Cardinality(s) <= Cardinality(S)
  BY FS_CardinalityType, FS_Subset
<1>3. Level(Cardinality(S)) = SUBSET S
  BY <1>2
<1>4. Some(Cardinality(S))
  BY <1>1, <1>2
<1>5. PICK g : g = [s \in SUBSET S |-> Adds(g, f, s)]
  <2> HIDE DEF Level
  <2> QED  BY <1>3, <1>4
<1> QED  BY <1>5 DEF Summing

\* Two ways of drawing sum the same: the elements both know count alike.
LEMMA SumsAgree ==
  ASSUME NEW S, IsFiniteSet(S), NEW T \in SUBSET S, NEW f \in [S -> Nat], NEW k \in [T -> Nat],
         \A x \in T : k[x] = f[x]
  PROVE  \A s \in SUBSET T : Summing(k, T)[s] = Summing(f, S)[s] /\ Summing(f, S)[s] \in Nat
<1> DEFINE g == Summing(f, S)
           h == Summing(k, T)
           Bad == {n \in Nat : \E s \in SUBSET T : Cardinality(s) = n /\ ~(h[s] = g[s] /\ g[s] \in Nat)}
<1>1. IsFiniteSet(T)
  BY FS_Subset
<1>2. /\ \A s \in SUBSET S : g[s] = Adds(g, f, s)
      /\ \A s \in SUBSET T : h[s] = Adds(h, k, s)
  <2>1. g = [s \in SUBSET S |-> Adds(g, f, s)]
    BY SummingIs
  <2>2. h = [s \in SUBSET T |-> Adds(h, k, s)]
    BY <1>1, SummingIs
  <2> HIDE DEF g, h
  <2> QED  BY <2>1, <2>2
<1> HIDE DEF g, h
<1>3. Bad = {}
  <2> SUFFICES ASSUME Bad # {}  PROVE FALSE
    OBVIOUS
  <2>1. PICK n \in Bad : \A m \in Bad : n <= m
    <3>1. Bad \subseteq Nat
      OBVIOUS
    <3> HIDE DEF Bad
    <3> QED  BY <3>1, Smallest
  <2>2. PICK s \in SUBSET T : Cardinality(s) = n /\ ~(h[s] = g[s] /\ g[s] \in Nat)
    BY <2>1
  <2>3. h[s] = Adds(h, k, s) /\ g[s] = Adds(g, f, s)
    BY <1>2
  <2>4. CASE s = {}
    BY <2>2, <2>3, <2>4 DEF Adds
  <2>5. CASE s # {}
    <3> DEFINE t == s \ {Drawn(s)}
    <3>1. Drawn(s) \in s /\ t \in SUBSET T /\ n \in Nat \ {0} /\ Cardinality(t) = n - 1
      BY <1>1, <2>2, <2>5, DrawnIn
    <3>2. n - 1 \notin Bad /\ n - 1 \in Nat
      BY <2>1, <3>1
    <3>3. h[t] = g[t] /\ g[t] \in Nat
      BY <3>1, <3>2
    <3>4. k[Drawn(s)] = f[Drawn(s)] /\ f[Drawn(s)] \in Nat
      BY <3>1
    <3>5. h[s] = k[Drawn(s)] + h[t] /\ g[s] = f[Drawn(s)] + g[t]
      BY <2>3, <2>5 DEF Adds
    <3> HIDE DEF t
    <3> QED  BY <2>2, <3>3, <3>4, <3>5
  <2> QED  BY <2>4, <2>5
<1>4. ASSUME NEW s \in SUBSET T  PROVE h[s] = g[s] /\ g[s] \in Nat
  <2>1. Cardinality(s) \in Nat
    BY <1>1, FS_Subset, FS_CardinalityType
  <2> QED  BY <1>3, <2>1
<1> QED  BY <1>4 DEF g, h

\* Whichever element is taken out, the rest and it make the sum.
LEMMA SumSplits ==
  ASSUME NEW S, IsFiniteSet(S), NEW f \in [S -> Nat]
  PROVE  \A s \in SUBSET S : \A x \in s : Summing(f, S)[s] = f[x] + Summing(f, S)[s \ {x}]
<1> DEFINE g == Summing(f, S)
           Bad == {n \in Nat : \E s \in SUBSET S : Cardinality(s) = n /\ \E x \in s : g[s] # f[x] + g[s \ {x}]}
<1>1. /\ \A s \in SUBSET S : g[s] = Adds(g, f, s)
      /\ \A s \in SUBSET S : g[s] \in Nat
  <2>1. g = [s \in SUBSET S |-> Adds(g, f, s)]
    BY SummingIs
  <2>2. \A s \in SUBSET S : g[s] \in Nat
    BY SumsAgree
  <2> HIDE DEF g
  <2> QED  BY <2>1, <2>2
<1> HIDE DEF g
<1>2. Bad = {}
  <2> SUFFICES ASSUME Bad # {}  PROVE FALSE
    OBVIOUS
  <2>1. PICK n \in Bad : \A m \in Bad : n <= m
    <3>1. Bad \subseteq Nat
      OBVIOUS
    <3> HIDE DEF Bad
    <3> QED  BY <3>1, Smallest
  <2>2. PICK s \in SUBSET S : Cardinality(s) = n /\ \E x \in s : g[s] # f[x] + g[s \ {x}]
    BY <2>1
  <2>3. PICK x \in s : g[s] # f[x] + g[s \ {x}]
    BY <2>2
  <2> DEFINE y == Drawn(s)
             a == s \ {y}
             b == s \ {x}
             both == s \ {x, y}
  <2>4. y \in s /\ a \in SUBSET S /\ n \in Nat \ {0} /\ Cardinality(a) = n - 1
    BY <2>2, DrawnIn
  <2>5. g[s] = f[y] + g[a]
    BY <1>1, <2>3 DEF Adds
  <2>6. y # x
    BY <2>3, <2>5
  <2>7. b \in SUBSET S /\ Cardinality(b) = n - 1
    <3>1. IsFiniteSet(s)
      BY FS_Subset
    <3> QED  BY <2>2, <3>1, FS_RemoveElement
  <2>8. n - 1 \in Nat /\ n - 1 \notin Bad
    BY <2>1, <2>4
  <2>9. x \in a /\ y \in b /\ a \ {x} = both /\ b \ {y} = both /\ both \in SUBSET S
    BY <2>4, <2>6
  <2>10. g[a] = f[x] + g[both] /\ g[b] = f[y] + g[both]
    <3>1. \A t \in SUBSET S : Cardinality(t) = n - 1 => \A z \in t : g[t] = f[z] + g[t \ {z}]
      BY <2>8
    <3> HIDE DEF Bad
    <3>2. g[a] = f[x] + g[a \ {x}] /\ g[b] = f[y] + g[b \ {y}]
      <4> HIDE DEF a, b
      <4> QED  BY <2>4, <2>7, <2>9, <3>1
    <3> QED  BY <2>9, <3>2
  <2>11. f[x] \in Nat /\ f[y] \in Nat /\ g[both] \in Nat
    BY <1>1, <2>4, <2>9
  <2> HIDE DEF a, b, both
  <2>12. g[s] # f[x] + g[b]
    BY <2>3 DEF b
  <2> QED  BY <2>5, <2>10, <2>11, <2>12
<1>3. ASSUME NEW s \in SUBSET S, NEW x \in s  PROVE g[s] = f[x] + g[s \ {x}]
  <2>1. Cardinality(s) \in Nat
    BY FS_Subset, FS_CardinalityType
  <2> QED  BY <1>2, <2>1
<1> QED  BY <1>3 DEF g

\* One more element adds what it counts for.
LEMMA SumWithOneMore ==
  ASSUME NEW S, IsFiniteSet(S), NEW e, e \notin S, NEW f \in [S \cup {e} -> Nat], NEW k \in [S -> Nat],
         \A x \in S : k[x] = f[x]
  PROVE  SumFunction(f) = SumFunction(k) + f[e]
<1> DEFINE T == S \cup {e}
<1>1. IsFiniteSet(T) /\ S \in SUBSET T /\ T \in SUBSET T /\ S \in SUBSET S /\ T \ {e} = S /\ e \in T /\ f \in [T -> Nat]
  BY FS_AddElement
<1>2. SumFunction(f) = Summing(f, T)[T] /\ SumFunction(k) = Summing(k, S)[S]
  BY SumIs
<1> HIDE DEF T
<1>3. Summing(f, T)[T] = f[e] + Summing(f, T)[S]
  BY <1>1, SumSplits
<1>4. Summing(k, S)[S] = Summing(f, T)[S] /\ Summing(f, T)[S] \in Nat
  BY <1>1, SumsAgree
<1>5. f[e] \in Nat
  BY <1>1
<1> QED  BY <1>2, <1>3, <1>4, <1>5

(***************************************************************************)
(* Positions.                                                              *)
(***************************************************************************)
\* pos puts the n elements of D in the positions 1..n.
InOrder(pos, D, n) ==
    /\ \A x \in D : pos[x] \in 1..n
    /\ \A x, y \in D : pos[x] = pos[y] => x = y
    /\ \A k \in 1..n : \E x \in D : pos[x] = k

LEMMA LargestIs ==
  ASSUME NEW S, NEW m \in S, S \subseteq Nat, \A y \in S : m >= y
  PROVE  Max(S) = m
<1>1. Max(S) = CHOOSE x \in S : \A y \in S : x >= y
  BY DEF Max
<1>2. \A x \in S : (\A y \in S : x >= y) => x = m
  <2> SUFFICES ASSUME NEW x \in S, \A y \in S : x >= y  PROVE x = m
    OBVIOUS
  <2>1. x \in Nat /\ m \in Nat /\ x >= m /\ m >= x
    OBVIOUS
  <2> QED  BY <2>1
<1> QED  BY <1>1, <1>2

\* A range of distinct positions with a free place beside it shifts over in two statements,
\* neither of which meets a position that is taken.
ParkedRange(pos, lo, hi) == [x \in DOMAIN pos |-> IF pos[x] \in lo..hi THEN pos[x] + Park ELSE pos[x]]
ShiftedRange(pos, lo, hi, up) ==
    [x \in DOMAIN pos |-> IF pos[x] \in lo..hi THEN IF up THEN pos[x] + 1 ELSE pos[x] - 1 ELSE pos[x]]

LEMMA RangeShifts ==
  ASSUME NEW D, NEW pos \in [D -> Nat], NEW lo \in Nat, NEW hi \in Nat, NEW up \in BOOLEAN,
         1 <= lo, lo <= hi, hi < Park,
         \A x \in D : pos[x] < Park \/ pos[x] > 2 * Park,
         \A x, y \in D : pos[x] = pos[y] => x = y,
         \A x \in D : pos[x] # IF up THEN hi + 1 ELSE lo - 1
  PROVE  LET parked == ParkedRange(pos, lo, hi)
             shifted == ShiftedRange(pos, lo, hi, up)
         IN /\ ShiftRange(pos, lo, hi, up) = <<parked, shifted>>
            /\ parked \in [D -> Nat] /\ shifted \in [D -> Nat]
            /\ ~Collides(pos, parked) /\ ~Collides(parked, shifted)
<1> DEFINE parked == ParkedRange(pos, lo, hi)
           shifted == ShiftedRange(pos, lo, hi, up)
           written == [x \in DOMAIN pos |-> IF parked[x] \in Park + 1..2 * Park - 1
                                            THEN IF up THEN parked[x] - Park + 1 ELSE parked[x] - Park - 1
                                            ELSE parked[x]]
<1>1. Park \in Nat /\ DOMAIN pos = D
  BY QueueAssumption
<1>2. \A x \in D : /\ pos[x] \in Nat
                   /\ parked[x] = IF pos[x] \in lo..hi THEN pos[x] + Park ELSE pos[x]
                   /\ shifted[x] = IF pos[x] \in lo..hi THEN IF up THEN pos[x] + 1 ELSE pos[x] - 1 ELSE pos[x]
  BY <1>1 DEF ParkedRange, ShiftedRange
<1>3. ShiftRange(pos, lo, hi, up) = <<parked, written>>
  <2>1. ~(lo > hi)
    OBVIOUS
  <2> QED  BY <2>1, Zenon DEF ShiftRange, ParkedRange
<1>4. parked \in [D -> Nat] /\ shifted \in [D -> Nat]
  <2>1. \A x \in D : parked[x] \in Nat /\ shifted[x] \in Nat
    BY <1>1, <1>2
  <2>2. parked = [x \in D |-> parked[x]] /\ shifted = [x \in D |-> shifted[x]]
    BY <1>1 DEF ParkedRange, ShiftedRange
  <2> HIDE DEF parked, shifted
  <2> QED  BY <2>1, <2>2
<1>5. written = shifted
  <2>1. ASSUME NEW x \in D
        PROVE  (IF parked[x] \in Park + 1..2 * Park - 1
                THEN IF up THEN parked[x] - Park + 1 ELSE parked[x] - Park - 1 ELSE parked[x]) = shifted[x]
    <3>1. /\ pos[x] \in Nat /\ (pos[x] < Park \/ pos[x] > 2 * Park)
          /\ parked[x] = IF pos[x] \in lo..hi THEN pos[x] + Park ELSE pos[x]
          /\ shifted[x] = IF pos[x] \in lo..hi THEN IF up THEN pos[x] + 1 ELSE pos[x] - 1 ELSE pos[x]
      BY <1>2
    <3> HIDE DEF parked, shifted
    <3> QED  BY <1>1, <3>1
  <2>2. shifted = [x \in D |-> shifted[x]]
    BY <1>1 DEF ShiftedRange
  <2> HIDE DEF parked, shifted
  <2> QED  BY <1>1, <2>1, <2>2
<1> HIDE DEF parked, shifted, written
<1>6. ~Collides(pos, parked)
  <2> SUFFICES ASSUME NEW x \in D, NEW y \in D, x # y, parked[x] # pos[x], parked[x] \in {pos[y], parked[y]}
               PROVE  FALSE
    BY <1>1 DEF Collides
  <2>1. pos[x] \in lo..hi /\ parked[x] = pos[x] + Park /\ pos[x] # pos[y]
    BY <1>2
  <2>2. pos[y] \in Nat /\ pos[x] \in Nat /\ (pos[y] < Park \/ pos[y] > 2 * Park)
    BY <1>2
  <2>3. parked[y] = IF pos[y] \in lo..hi THEN pos[y] + Park ELSE pos[y]
    BY <1>2
  <2> QED  BY <1>1, <2>1, <2>2, <2>3
<1>7. ~Collides(parked, shifted)
  <2> SUFFICES ASSUME NEW x \in D, NEW y \in D, x # y, shifted[x] # parked[x], shifted[x] \in {parked[y], shifted[y]}
               PROVE  FALSE
    BY <1>1, <1>4 DEF Collides
  <2>1. pos[x] \in lo..hi /\ shifted[x] = (IF up THEN pos[x] + 1 ELSE pos[x] - 1) /\ pos[x] # pos[y]
    BY <1>2
  <2>2. /\ pos[y] \in Nat /\ pos[x] \in Nat /\ (pos[y] < Park \/ pos[y] > 2 * Park)
        /\ pos[y] # IF up THEN hi + 1 ELSE lo - 1
    BY <1>2
  <2>3. /\ parked[y] = IF pos[y] \in lo..hi THEN pos[y] + Park ELSE pos[y]
        /\ shifted[y] = IF pos[y] \in lo..hi THEN IF up THEN pos[y] + 1 ELSE pos[y] - 1 ELSE pos[y]
    BY <1>2
  <2> QED  BY <1>1, <2>1, <2>2, <2>3
<1> QED  BY <1>3, <1>4, <1>5, <1>6, <1>7 DEF parked, shifted

(***************************************************************************)
(* The rows.                                                               *)
(***************************************************************************)
Row == [state : {"absent", "queued", "assigned", "closed"}, pos : Nat, policy : Policies,
        pin : Printers \cup {None}, slice : Slices \cup {None}, origin : Entries \cup {0},
        printer : Printers \cup {None}, spool : Spools \cup {None},
        end : {"none", "removed", "ended", "released"}]

\* The rows of the Queue: an entry that exists is of a Slice, an assigned one has a Printer and
\* a Spool, and the open ones hold the positions 1..n.
RowsTyped ==
    /\ entry \in [Entries -> Row]
    /\ \A e \in Entries : /\ entry[e].state # "absent" => entry[e].slice \in Slices
                          /\ entry[e].state = "assigned" => entry[e].printer \in Printers /\ entry[e].spool \in Spools
Ordered == InOrder(Positions, Open, Cardinality(Open))

LEMMA OpenCounts ==
  /\ IsFiniteSet(Entries) /\ IsFiniteSet(Open) /\ Open \subseteq Entries
  /\ Cardinality(Open) \in Nat /\ Cardinality(Open) <= MaxEntries /\ Cardinality(Open) < Park
  /\ MaxEntries \in Nat /\ Park \in Nat
<1>1. MaxEntries \in Nat /\ Park \in Nat /\ Park > MaxEntries
  BY QueueAssumption
<1>2. IsFiniteSet(Entries) /\ Cardinality(Entries) = MaxEntries
  <2>1. 1 \in Int /\ MaxEntries \in Int /\ MaxEntries >= 0
    BY <1>1
  <2>2. IsFiniteSet(1..MaxEntries) /\ Cardinality(1..MaxEntries) = (IF 1 > MaxEntries THEN 0 ELSE MaxEntries - 1 + 1)
    BY <2>1, FS_Interval
  <2> QED  BY <1>1, <2>2 DEF Entries
<1>3. Open \in SUBSET Entries
  BY DEF Open
<1>4. IsFiniteSet(Open) /\ Cardinality(Open) <= Cardinality(Entries)
  BY <1>2, <1>3, FS_Subset
<1>5. Cardinality(Open) \in Nat
  BY <1>4, FS_CardinalityType
<1> QED  BY <1>1, <1>2, <1>3, <1>4, <1>5

LEMMA FourSteps == ASSUME NEW a, NEW b, NEW c, NEW d  PROVE <<a>> \o <<b, c>> \o <<d>> = <<a, b, c, d>>
<1> DEFINE S == {a, b, c, d}
           three == <<a>> \o <<b, c>>
           four == three \o <<d>>
<1>1. <<a>> \in Seq(S) /\ <<b, c>> \in Seq(S) /\ <<d>> \in Seq(S) /\ <<a, b, c, d>> \in Seq(S)
  OBVIOUS
<1>2. three \in Seq(S) /\ Len(three) = 3 /\ three[1] = a /\ three[2] = b /\ three[3] = c
  <2> HIDE DEF S
  <2> QED  BY <1>1
<1> HIDE DEF three
<1>3. four \in Seq(S) /\ Len(four) = 4 /\ four[1] = a /\ four[2] = b /\ four[3] = c /\ four[4] = d
  <2> DEFINE one == <<d>>
  <2>1. one \in Seq(S) /\ Len(one) = 1 /\ one[1] = d
    BY <1>1
  <2> HIDE DEF S, one
  <2>2. /\ four \in Seq(S) /\ Len(four) = Len(three) + Len(one)
        /\ \A i \in 1 .. Len(three) + Len(one) : four[i] = IF i <= Len(three) THEN three[i] ELSE one[i - Len(three)]
    BY <1>2, <2>1, ConcatProperties DEF one
  <2>3. four[1] = three[1] /\ four[2] = three[2] /\ four[3] = three[3] /\ four[4] = one[1]
    <3> HIDE DEF four
    <3> QED  BY <1>2, <2>1, <2>2
  <2> QED  BY <1>2, <2>1, <2>2, <2>3
<1> HIDE DEF four, S
<1>4. four = <<a, b, c, d>>
  <2> DEFINE t == <<a, b, c, d>>
  <2>1. Len(t) = 4 /\ t[1] = a /\ t[2] = b /\ t[3] = c /\ t[4] = d /\ t \in Seq(S)
    BY <1>1
  <2> HIDE DEF t
  <2>2. \A i \in 1..4 : four[i] = t[i]
    BY <1>3, <2>1
  <2>3. four = t
    BY <1>3, <2>1, <2>2, SeqEqual
  <2> QED  BY <2>3 DEF t
<1> QED  BY <1>4 DEF four, three

\* What a move makes of the positions: the mover is at its target, those between close up.
LEMMA MoveShifts ==
  ASSUME Ordered, NEW e \in Open, NEW to \in 1..Cardinality(Open)
  PROVE  LET final == Final(Positions, MoveSteps(e, to))
         IN /\ final \in [Open -> Nat]
            /\ \A x \in Open : final[x] =
                 IF x = e THEN to
                 ELSE IF entry[x].pos \in entry[e].pos + 1..to THEN entry[x].pos - 1
                 ELSE IF entry[x].pos \in to..entry[e].pos - 1 THEN entry[x].pos + 1
                 ELSE entry[x].pos
            /\ ~StepsCollide(Positions, MoveSteps(e, to))
<1> DEFINE n == Cardinality(Open)
           from == entry[e].pos
           first == [Positions EXCEPT ![e] = @ + 2 * Park]
           lo == IF to > from THEN from + 1 ELSE to
           hi == IF to > from THEN to ELSE from - 1
           up == ~(to > from)
           parked == ParkedRange(first, lo, hi)
           shifted == ShiftedRange(first, lo, hi, up)
           final == [shifted EXCEPT ![e] = to]
<1>1. /\ n \in Nat /\ n < Park /\ Park \in Nat /\ to \in Nat /\ 1 <= to /\ to <= n
      /\ Positions \in [Open -> Nat]
      /\ \A x \in Open : /\ Positions[x] = entry[x].pos /\ entry[x].pos \in Nat
                         /\ 1 <= entry[x].pos /\ entry[x].pos <= n
      /\ \A x, y \in Open : entry[x].pos = entry[y].pos => x = y
  <2>1. \A x \in Open : Positions[x] = entry[x].pos
    BY DEF Positions
  <2>2. \A x \in Open : entry[x].pos \in 1..n
    BY <2>1 DEF Ordered, InOrder
  <2>3. \A x, y \in Open : entry[x].pos = entry[y].pos => x = y
    BY <2>1 DEF Ordered, InOrder
  <2>4. Positions \in [Open -> Nat]
    BY <2>2, OpenCounts DEF Positions
  <2> QED  BY <2>1, <2>2, <2>3, <2>4, OpenCounts
<1>2. CASE to = from
  <2>1. MoveSteps(e, to) = <<>>
    BY <1>2 DEF MoveSteps
  <2>2. Final(Positions, MoveSteps(e, to)) = Positions
    BY <2>1 DEF Final
  <2>3. ~StepsCollide(Positions, MoveSteps(e, to))
    BY <2>1 DEF StepsCollide
  <2>4. \A x \in Open : /\ entry[x].pos \notin from + 1..to /\ entry[x].pos \notin to..from - 1
                        /\ x = e => entry[x].pos = to
    BY <1>1, <1>2
  <2> QED  BY <1>1, <2>2, <2>3, <2>4
<1>3. CASE to # from
  <2>1. first \in [Open -> Nat] /\ \A x \in Open : first[x] = IF x = e THEN entry[x].pos + 2 * Park ELSE entry[x].pos
    BY <1>1
  <2> HIDE DEF first
  <2>2. lo \in Nat /\ hi \in Nat /\ up \in BOOLEAN /\ 1 <= lo /\ lo <= hi /\ hi < Park
    BY <1>1, <1>3
  <2>3. /\ \A x \in Open : first[x] < Park \/ first[x] > 2 * Park
        /\ \A x, y \in Open : first[x] = first[y] => x = y
        /\ \A x \in Open : first[x] # IF up THEN hi + 1 ELSE lo - 1
    <3>1. \A x \in Open : first[x] < Park \/ first[x] > 2 * Park
      BY <1>1, <2>1
    <3>2. ASSUME NEW x \in Open, NEW y \in Open, first[x] = first[y]  PROVE x = y
      <4>1. entry[x].pos \in Nat /\ entry[y].pos \in Nat /\ entry[x].pos < Park /\ entry[y].pos < Park
        BY <1>1
      <4> QED  BY <1>1, <2>1, <3>2, <4>1
    <3>3. ASSUME NEW x \in Open  PROVE first[x] # IF up THEN hi + 1 ELSE lo - 1
      <4>1. (IF up THEN hi + 1 ELSE lo - 1) = from
        BY <1>1, <1>3
      <4>2. first[x] # from
        BY <1>1, <2>1
      <4> QED  BY <4>1, <4>2
    <3> QED  BY <3>1, <3>2, <3>3
  <2>4. ShiftRange(first, lo, hi, up) = <<parked, shifted>>
    <3> HIDE DEF lo, hi, up
    <3> QED  BY <2>1, <2>2, <2>3, RangeShifts
  <2>5. /\ parked \in [Open -> Nat] /\ shifted \in [Open -> Nat]
        /\ ~Collides(first, parked) /\ ~Collides(parked, shifted)
    <3> HIDE DEF lo, hi, up
    <3> QED  BY <2>1, <2>2, <2>3, RangeShifts
  <2>6. \A x \in Open : shifted[x] = IF first[x] \in lo..hi THEN IF up THEN first[x] + 1 ELSE first[x] - 1 ELSE first[x]
    <3> HIDE DEF lo, hi, up
    <3> QED  BY <2>1 DEF ShiftedRange
  <2>7. MoveSteps(e, to) = <<first, parked, shifted, final>>
    <3>1. (IF to > from THEN ShiftRange(first, from + 1, to, FALSE) ELSE ShiftRange(first, to, from - 1, TRUE))
             = ShiftRange(first, lo, hi, up)
      BY <1>1
    <3>2. Final(first, <<parked, shifted>>) = shifted
      BY DEF Final
    <3>3. MoveSteps(e, to) = <<first>> \o <<parked, shifted>> \o <<final>>
      <4> HIDE DEF lo, hi, up, parked, shifted
      <4>1. MoveSteps(e, to) = <<first>> \o ShiftRange(first, lo, hi, up)
                                 \o <<[Final(first, ShiftRange(first, lo, hi, up)) EXCEPT ![e] = to]>>
        BY <1>3, <3>1, Zenon DEF MoveSteps, first
      <4> QED  BY <2>4, <3>2, <4>1
    <3> HIDE DEF parked, shifted, final
    <3> QED  BY <3>3, FourSteps
  <2> HIDE DEF parked
  <2>8. final \in [Open -> Nat] /\ \A x \in Open : final[x] = IF x = e THEN to ELSE shifted[x]
    <3> HIDE DEF shifted
    <3> QED  BY <1>1, <2>5
  <2> HIDE DEF shifted, final
  <2>9. \A x \in Open : final[x] =
                 IF x = e THEN to
                 ELSE IF entry[x].pos \in from + 1..to THEN entry[x].pos - 1
                 ELSE IF entry[x].pos \in to..from - 1 THEN entry[x].pos + 1
                 ELSE entry[x].pos
    <3> SUFFICES ASSUME NEW x \in Open, x # e
                 PROVE  final[x] = IF entry[x].pos \in from + 1..to THEN entry[x].pos - 1
                                  ELSE IF entry[x].pos \in to..from - 1 THEN entry[x].pos + 1
                                  ELSE entry[x].pos
      BY <2>8
    <3>1. final[x] = (IF entry[x].pos \in lo..hi THEN IF up THEN entry[x].pos + 1 ELSE entry[x].pos - 1 ELSE entry[x].pos)
      BY <2>1, <2>6, <2>8
    <3> QED  BY <1>1, <3>1
  <2>10. ~Collides(Positions, first)
    <3> SUFFICES ASSUME NEW x \in Open, NEW y \in Open, x # y, first[x] # Positions[x],
                        first[x] \in {Positions[y], first[y]}
                 PROVE  FALSE
      BY <1>1 DEF Collides
    <3>1. x = e /\ first[x] = entry[x].pos + 2 * Park /\ first[y] = entry[y].pos /\ Positions[y] = entry[y].pos
      BY <1>1, <2>1
    <3> QED  BY <1>1, <3>1
  <2>11. ~Collides(shifted, final)
    <3> SUFFICES ASSUME NEW x \in Open, NEW y \in Open, x # y, final[x] # shifted[x],
                        final[x] \in {shifted[y], final[y]}
                 PROVE  FALSE
      BY <2>5 DEF Collides
    <3>1. x = e /\ final[x] = to /\ final[y] = shifted[y] /\ y # e
      BY <2>8
    <3>2. final[y] # to
      <4>1. entry[y].pos # from /\ entry[y].pos \in Nat /\ from \in Nat
        BY <1>1, <3>1
      <4> QED  BY <1>1, <2>9, <3>1, <4>1
    <3> QED  BY <3>1, <3>2
  <2>12. ~StepsCollide(Positions, MoveSteps(e, to))
    <3> DEFINE steps == <<first, parked, shifted, final>>
    <3>1. DOMAIN steps = 1..4 /\ steps[1] = first /\ steps[2] = parked /\ steps[3] = shifted /\ steps[4] = final
      OBVIOUS
    <3> HIDE DEF steps
    <3>2. ~StepsCollide(Positions, steps)
      <4> SUFFICES ASSUME NEW i \in 1..4, Collides(IF i = 1 THEN Positions ELSE steps[i - 1], steps[i])
                   PROVE  FALSE
        BY <3>1 DEF StepsCollide
      <4>1. CASE i = 1
        BY <2>10, <3>1, <4>1
      <4>2. CASE i = 2
        BY <2>5, <3>1, <4>2
      <4>3. CASE i = 3
        BY <2>5, <3>1, <4>3
      <4>4. CASE i = 4
        BY <2>11, <3>1, <4>4
      <4> QED  BY <4>1, <4>2, <4>3, <4>4
    <3> QED  BY <2>7, <3>2 DEF steps
  <2>13. Final(Positions, MoveSteps(e, to)) = final
    BY <2>7 DEF Final
  <2> QED  BY <2>8, <2>9, <2>12, <2>13
<1> QED  BY <1>2, <1>3

\* What the end of an entry makes of the others' positions: those behind it close up.
LEMMA CloseShifts ==
  ASSUME Ordered, NEW e \in Open
  PROVE  LET left == [x \in Open \ {e} |-> entry[x].pos]
             final == Final(left, CloseSteps(e))
         IN /\ final \in [Open \ {e} -> Nat]
            /\ \A x \in Open \ {e} : final[x] = IF entry[x].pos > entry[e].pos THEN entry[x].pos - 1 ELSE entry[x].pos
            /\ ~StepsCollide(left, CloseSteps(e))
<1> DEFINE n == Cardinality(Open)
           D == Open \ {e}
           from == entry[e].pos
           left == [x \in D |-> entry[x].pos]
           places == {left[x] : x \in DOMAIN left} \cup {0}
           top == Max(places)
           final == Final(left, CloseSteps(e))
<1>1. /\ n \in Nat /\ n < Park /\ Park \in Nat
      /\ \A x \in Open : entry[x].pos \in Nat /\ 1 <= entry[x].pos /\ entry[x].pos <= n
      /\ \A x, y \in Open : entry[x].pos = entry[y].pos => x = y
      /\ \A k \in 1..n : \E x \in Open : entry[x].pos = k
  <2>1. \A x \in Open : Positions[x] = entry[x].pos
    BY DEF Positions
  <2>2. \A x \in Open : entry[x].pos \in 1..n
    BY <2>1 DEF Ordered, InOrder
  <2>3. \A x, y \in Open : entry[x].pos = entry[y].pos => x = y
    BY <2>1 DEF Ordered, InOrder
  <2>4. \A k \in 1..n : \E x \in Open : entry[x].pos = k
    BY <2>1 DEF Ordered, InOrder
  <2> QED  BY <2>2, <2>3, <2>4, OpenCounts
<1>2. left \in [D -> Nat] /\ DOMAIN left = D /\ \A x \in D : left[x] = entry[x].pos
  BY <1>1
<1>3. CloseSteps(e) = IF from < top THEN ShiftRange(left, from + 1, top, FALSE) ELSE <<>>
  BY Zenon DEF CloseSteps
<1>4. CASE from = n
  <2>1. top <= n /\ top \in Nat
    <3>1. places \subseteq Nat /\ \A y \in places : y <= n
      BY <1>1, <1>2
    <3>2. \E m \in places : \A y \in places : m >= y
      <4> DEFINE below == {n - y : y \in places}
      <4>1. below \subseteq Nat /\ below # {}
        BY <1>1, <3>1
      <4>2. PICK b \in below : \A c \in below : b <= c
        <5> HIDE DEF below
        <5> QED  BY <4>1, Smallest
      <4>3. PICK m \in places : b = n - m
        BY <4>2
      <4>4. ASSUME NEW y \in places  PROVE m >= y
        <5>1. n - m <= n - y
          BY <4>2, <4>3
        <5>2. m \in Nat /\ y \in Nat
          BY <3>1
        <5> HIDE DEF places
        <5> QED  BY <1>1, <5>1, <5>2
      <4> QED  BY <4>4
    <3>3. PICK m \in places : \A y \in places : m >= y
      BY <3>2
    <3>4. top = m
      <4> HIDE DEF places
      <4> QED  BY <3>1, <3>3, LargestIs
    <3> QED  BY <3>1, <3>4
  <2>2. CloseSteps(e) = <<>>
    <3> HIDE DEF left, top
    <3>1. ~(from < top)
      BY <1>1, <1>4, <2>1
    <3> QED  BY <1>3, <3>1
  <2>3. final = left /\ ~StepsCollide(left, CloseSteps(e))
    BY <2>2 DEF Final, StepsCollide
  <2>4. \A x \in D : ~(entry[x].pos > entry[e].pos)
    BY <1>1, <1>4
  <2> HIDE DEF left, final
  <2>5. final \in [D -> Nat] /\ \A x \in D : final[x] = IF entry[x].pos > entry[e].pos THEN entry[x].pos - 1 ELSE entry[x].pos
    BY <1>2, <2>3, <2>4
  <2> QED  BY <2>3, <2>5 DEF left, final
<1>5. CASE from # n
  <2>1. from \in Nat /\ 1 <= from /\ from < n
    BY <1>1, <1>5
  <2>2. top = n
    <3>1. places \subseteq Nat /\ \A y \in places : n >= y
      BY <1>1, <1>2
    <3>2. n \in places
      <4>1. PICK x \in Open : entry[x].pos = n
        BY <1>1, <2>1
      <4>2. x \in D /\ left[x] = n
        BY <1>2, <1>5, <4>1
      <4> QED  BY <1>2, <4>2
    <3> HIDE DEF places
    <3> QED  BY <3>1, <3>2, LargestIs
  <2> HIDE DEF left, top
  <2> DEFINE parked == ParkedRange(left, from + 1, n)
             shifted == ShiftedRange(left, from + 1, n, FALSE)
  <2>3. CloseSteps(e) = ShiftRange(left, from + 1, n, FALSE)
    BY <1>3, <2>1, <2>2
  <2>4. /\ from + 1 \in Nat /\ 1 <= from + 1 /\ from + 1 <= n
        /\ \A x \in D : left[x] < Park \/ left[x] > 2 * Park
        /\ \A x, y \in D : left[x] = left[y] => x = y
        /\ \A x \in D : left[x] # IF FALSE THEN n + 1 ELSE (from + 1) - 1
    <3>1. \A x \in D : left[x] < Park
      BY <1>1, <1>2
    <3>2. \A x, y \in D : left[x] = left[y] => x = y
      BY <1>1, <1>2
    <3>3. \A x \in D : left[x] # from
      BY <1>1, <1>2
    <3>4. (IF FALSE THEN n + 1 ELSE (from + 1) - 1) = from
      BY <2>1
    <3>5. from + 1 \in Nat /\ 1 <= from + 1 /\ from + 1 <= n
      BY <1>1, <2>1
    <3> HIDE DEF D, from
    <3> QED  BY <3>1, <3>2, <3>3, <3>4, <3>5
  <2>5. /\ ShiftRange(left, from + 1, n, FALSE) = <<parked, shifted>>
        /\ shifted \in [D -> Nat] /\ ~Collides(left, parked) /\ ~Collides(parked, shifted)
    <3> DEFINE up == FALSE
               lo == from + 1
    <3>1. /\ up \in BOOLEAN /\ n \in Nat /\ left \in [D -> Nat] /\ n < Park
          /\ \A x \in D : left[x] # IF up THEN n + 1 ELSE lo - 1
      BY <1>1, <1>2, <2>4
    <3>2. lo \in Nat /\ 1 <= lo /\ lo <= n
      BY <2>4
    <3> HIDE DEF D, from, n, up, lo, parked, shifted
    <3>3. ShiftRange(left, lo, n, up) = <<ParkedRange(left, lo, n), ShiftedRange(left, lo, n, up)>>
      BY <2>4, <3>1, <3>2, RangeShifts
    <3>4. /\ ShiftedRange(left, lo, n, up) \in [D -> Nat]
          /\ ~Collides(left, ParkedRange(left, lo, n))
          /\ ~Collides(ParkedRange(left, lo, n), ShiftedRange(left, lo, n, up))
      BY <2>4, <3>1, <3>2, RangeShifts
    <3> QED  BY <3>3, <3>4, Zenon DEF lo, up, parked, shifted
  <2>7. final = shifted
    <3> HIDE DEF parked, shifted
    <3>1. CloseSteps(e) = <<parked, shifted>>
      BY <2>3, <2>5
    <3> QED  BY <3>1 DEF Final
  <2>8. \A x \in D : shifted[x] = IF entry[x].pos > from THEN entry[x].pos - 1 ELSE entry[x].pos
    <3>1. \A x \in D : shifted[x] = IF left[x] \in from + 1..n THEN left[x] - 1 ELSE left[x]
      BY <1>2 DEF ShiftedRange
    <3> HIDE DEF shifted
    <3> QED  BY <1>1, <1>2, <2>1, <3>1
  <2> HIDE DEF parked, shifted
  <2>9. ~StepsCollide(left, CloseSteps(e))
    <3> DEFINE steps == <<parked, shifted>>
    <3>1. DOMAIN steps = 1..2 /\ steps[1] = parked /\ steps[2] = shifted
      OBVIOUS
    <3> HIDE DEF steps
    <3>2. ~StepsCollide(left, steps)
      <4> SUFFICES ASSUME NEW i \in 1..2, Collides(IF i = 1 THEN left ELSE steps[i - 1], steps[i])
                   PROVE  FALSE
        BY <3>1 DEF StepsCollide
      <4>1. CASE i = 1
        BY <2>5, <3>1, <4>1
      <4>2. CASE i = 2
        BY <2>5, <3>1, <4>2
      <4> QED  BY <4>1, <4>2
    <3> QED  BY <2>3, <2>5, <3>2 DEF steps
  <2> HIDE DEF final
  <2> QED  BY <2>5, <2>7, <2>8, <2>9 DEF left, final
<1> QED  BY <1>4, <1>5

(***************************************************************************)
(* What a step makes of the rows.                                          *)
(***************************************************************************)
Picks == Entries \X Printers \X Spools
Pcs == {"off", "subscribing", "gated", "idle", "draining", "reading", "passing", "assigning", "committing"}
EvaluatorTyped ==
    /\ ev \in [pc : Pcs, claimed : SUBSET Printers, refused : SUBSET Entries, pick : Picks \cup {<<>>},
               repoked : BOOLEAN, shown : [Printers -> Statuses]]
    /\ ev.pc \in {"assigning", "committing"} => ev.pick \in Picks
FactsTyped ==
    /\ printer \in [Printers -> [archived : BOOLEAN, status : Statuses, foreign : BOOLEAN]]
    /\ spool \in [Spools -> [at : Printers \cup {Storage}, mg : Nat, active : BOOLEAN]]
AskedTyped == asked \in [printer : Printers \cup {None}, status : Statuses]
TypesHold == RowsTyped /\ EvaluatorTyped /\ FactsTyped /\ AskedTyped

\* The rows keep everything but their policies.
Keeps ==
    /\ entry' \in [Entries -> Row]
    /\ \A x \in Entries : \E policy \in Policies : entry'[x] = [entry[x] EXCEPT !.policy = policy]
\* A new row takes the last place, for a Slice or for an entry whose Job ended.
Takes(k, row) ==
    /\ entry[k].state = "absent" /\ row \in Row
    /\ row.state = "queued" /\ row.slice \in Slices /\ row.pos = Cardinality(Open) + 1
    /\ \/ row.origin = 0
       \/ row.origin \in Entries /\ entry[row.origin].state = "closed" /\ entry[row.origin].end = "ended"
    /\ entry' = [entry EXCEPT ![k] = row]
\* A new row takes the place of an assigned one, which closes.
Replaces(e, k, row) ==
    /\ entry[e].state = "assigned" /\ entry[k].state = "absent" /\ row \in Row
    /\ row.state = "queued" /\ row.slice \in Slices /\ row.pos = entry[e].pos /\ row.origin = e
    /\ entry' = [entry EXCEPT ![e] = Closed(e, "released"), ![k] = row]
Moves(e, to) == e \in Open /\ to \in 1..Cardinality(Open) /\ entry' = At(Final(Positions, MoveSteps(e, to)))
Leaves(e, end) == e \in Open /\ end \in {"removed", "ended"} /\ entry' = CloseAndRenumber(e, end)
By(automatic) == IF automatic THEN "evaluator" ELSE "operator"
Assigns(e, p, s, automatic, acknowledged) ==
    /\ Assignable(e, p, s, Copied(By(automatic), p), automatic, acknowledged) /\ entry' = Assigned(e, p, s)
    /\ UNCHANGED <<printer, spool>> /\ (~automatic => asked.printer = p)
    /\ last' = [entry |-> e, by |-> By(automatic), policy |-> entry[e].policy]

LEMMA RowOf ==
  ASSUME RowsTyped, NEW e \in Entries
  PROVE  /\ entry[e] \in Row /\ entry[e].state \in {"absent", "queued", "assigned", "closed"}
         /\ entry[e].pos \in Nat /\ entry[e].policy \in Policies /\ entry[e].pin \in Printers \cup {None}
         /\ entry[e].slice \in Slices \cup {None} /\ entry[e].origin \in Entries \cup {0}
BY DEF RowsTyped, Row

LEMMA NewIsFree ==
  ASSUME CanCreate
  PROVE  New \in Entries /\ entry[New].state = "absent"
<1> DEFINE Free == Entries \ {e \in Entries : entry[e].state # "absent"}
<1>1. Free \subseteq Nat /\ Free # {}
  BY OpenCounts DEF CanCreate, Entries
<1>2. PICK m \in Free : \A y \in Free : m <= y
  <2> HIDE DEF Free
  <2> QED  BY <1>1, Smallest
<1>3. New = CHOOSE x \in Free : \A y \in Free : x <= y
  BY Zenon DEF New, Min
<1>4. New \in Free
  <2> HIDE DEF Free
  <2> QED  BY <1>2, <1>3
<1> QED  BY <1>4

LEMMA TopIsLast == ASSUME Ordered  PROVE Top = Cardinality(Open)
<1> DEFINE n == Cardinality(Open)
           places == {entry[e].pos : e \in Open} \cup {0}
<1>1. n \in Nat
  BY OpenCounts
<1>2. \A x \in Open : entry[x].pos \in 1..n
  BY DEF Ordered, InOrder, Positions
<1>3. \A k \in 1..n : \E x \in Open : entry[x].pos = k
  BY DEF Ordered, InOrder, Positions
<1>4. places \subseteq Nat /\ \A y \in places : n >= y
  BY <1>1, <1>2
<1>5. n \in places
  <2>1. CASE n = 0
    BY <2>1
  <2>2. CASE n # 0
    <3>1. n \in 1..n
      BY <1>1, <2>2
    <3>2. PICK x \in Open : entry[x].pos = n
      BY <1>3, <3>1
    <3> QED  BY <3>2
  <2> QED  BY <2>1, <2>2
<1>6. Top = Max(places)
  BY Zenon DEF Top
<1> HIDE DEF places, n
<1>7. Max(places) = n
  BY <1>4, <1>5, LargestIs
<1> QED  BY <1>6, <1>7 DEF n

LEMMA ClosedIs ==
  ASSUME RowsTyped, NEW e \in Entries, NEW end \in {"removed", "ended", "released"}
  PROVE  /\ Closed(e, end) \in Row /\ Closed(e, end).state = "closed" /\ Closed(e, end).end = end
         /\ Closed(e, end).slice = entry[e].slice
<1> DEFINE r1 == [entry[e] EXCEPT !.state = "closed"]
           r2 == [r1 EXCEPT !.pos = 0]
           r3 == [r2 EXCEPT !.end = end]
<1>1. entry[e] \in Row
  BY RowOf
<1>2. r1 \in Row /\ r1.state = "closed" /\ r1.slice = entry[e].slice
  BY <1>1 DEF Row
<1> HIDE DEF r1
<1>3. r2 \in Row /\ r2.state = "closed" /\ r2.slice = entry[e].slice
  BY <1>2 DEF Row
<1> HIDE DEF r2
<1>4. r3 \in Row /\ r3.state = "closed" /\ r3.slice = entry[e].slice /\ r3.end = end
  BY <1>3 DEF Row
<1>5. Closed(e, end) = r3
  BY <1>1 DEF Closed, r1, r2, Row
<1> QED  BY <1>4, <1>5

NewRow(pos, policy, pin, slice) ==
    [NoEntry EXCEPT !.state = "queued", !.pos = pos, !.policy = policy, !.pin = pin, !.slice = slice]

LEMMA NewRowIs ==
  ASSUME NEW pos \in Nat, NEW policy \in Policies, NEW pin \in Printers \cup {None}, NEW slice \in Slices
  PROVE  LET row == NewRow(pos, policy, pin, slice)
         IN row \in Row /\ row.state = "queued" /\ row.pos = pos /\ row.slice = slice /\ row.origin = 0
<1> DEFINE r0 == NoEntry
           r1 == [r0 EXCEPT !.state = "queued"]
           r2 == [r1 EXCEPT !.pos = pos]
           r3 == [r2 EXCEPT !.policy = policy]
           r4 == [r3 EXCEPT !.pin = pin]
           r5 == [r4 EXCEPT !.slice = slice]
<1>1. r0 \in Row /\ r0.origin = 0
  BY DEF NoEntry, Row, Policies
<1> HIDE DEF r0
<1>2. r1 \in Row /\ r1.origin = 0 /\ r1.state = "queued"
  BY <1>1 DEF Row
<1> HIDE DEF r1
<1>3. r2 \in Row /\ r2.origin = 0 /\ r2.state = "queued" /\ r2.pos = pos
  BY <1>2 DEF Row
<1> HIDE DEF r2
<1>4. r3 \in Row /\ r3.origin = 0 /\ r3.state = "queued" /\ r3.pos = pos
  BY <1>3 DEF Row
<1> HIDE DEF r3
<1>5. r4 \in Row /\ r4.origin = 0 /\ r4.state = "queued" /\ r4.pos = pos
  BY <1>4 DEF Row
<1> HIDE DEF r4
<1>6. r5 \in Row /\ r5.origin = 0 /\ r5.state = "queued" /\ r5.pos = pos /\ r5.slice = slice
  BY <1>5 DEF Row
<1>7. NewRow(pos, policy, pin, slice) = r5
  BY Zenon DEF NewRow, r0, r1, r2, r3, r4, r5
<1> QED  BY <1>6, <1>7

LEMMA LinkedIs ==
  ASSUME RowsTyped, NEW e \in Entries, entry[e].slice \in Slices, NEW pos \in Nat
  PROVE  /\ Linked(e, pos) \in Row /\ Linked(e, pos).state = "queued" /\ Linked(e, pos).pos = pos
         /\ Linked(e, pos).slice \in Slices /\ Linked(e, pos).origin = e
<1> DEFINE row == NewRow(pos, entry[e].policy, entry[e].pin, entry[e].slice)
<1>1. row \in Row /\ row.state = "queued" /\ row.pos = pos /\ row.slice = entry[e].slice
  BY RowOf, NewRowIs
<1> HIDE DEF row
<1>2. /\ [row EXCEPT !.origin = e] \in Row /\ [row EXCEPT !.origin = e].state = "queued"
      /\ [row EXCEPT !.origin = e].pos = pos /\ [row EXCEPT !.origin = e].slice = entry[e].slice
      /\ [row EXCEPT !.origin = e].origin = e
  BY <1>1 DEF Row
<1>3. Linked(e, pos) = [row EXCEPT !.origin = e]
  BY Zenon DEF Linked, NewRow, row
<1> QED  BY <1>2, <1>3

RowsStep ==
    \/ Keeps
    \/ \E k \in Entries : \E row \in Row : Takes(k, row)
    \/ \E e, k \in Entries : \E row \in Row : Replaces(e, k, row)
    \/ \E e \in Open : \E to \in 1..Cardinality(Open) : Moves(e, to)
    \/ \E e \in Open : \E end \in {"removed", "ended"} : Leaves(e, end)
    \/ \E e \in Entries : \E p \in Printers : \E s \in Spools : \E automatic, acknowledged \in BOOLEAN :
         Assigns(e, p, s, automatic, acknowledged)

LEMMA UnchangedKeeps == ASSUME RowsTyped, entry' = entry  PROVE Keeps
<1>1. ASSUME NEW x \in Entries
      PROVE  \E policy \in Policies : entry'[x] = [entry[x] EXCEPT !.policy = policy]
  <2>1. entry[x] \in Row /\ entry[x].policy \in Policies
    BY RowOf
  <2>2. entry[x] = [entry[x] EXCEPT !.policy = entry[x].policy]
    BY <2>1 DEF Row
  <2> QED  BY <2>1, <2>2
<1> QED  BY <1>1 DEF Keeps, RowsTyped

LEMMA EveryRowsStep == ASSUME TypesHold, Ordered, [Next]_vars  PROVE RowsStep
<1> USE DEF TypesHold
<1>1. ASSUME NEW ask \in Asked, AddToQueue(ask[1], ask[2], ask[3])  PROVE RowsStep
  <2> DEFINE row == NewRow(Top + 1, ask[2], ask[3], ask[1])
  <2>1. ask[1] \in Slices /\ ask[2] \in Policies /\ ask[3] \in Printers \cup {None}
    BY QueueAssumption
  <2>2. Top + 1 \in Nat /\ Top = Cardinality(Open)
    BY TopIsLast, OpenCounts
  <2>3. row \in Row /\ row.state = "queued" /\ row.slice \in Slices /\ row.pos = Cardinality(Open) + 1 /\ row.origin = 0
    BY <2>1, <2>2, NewRowIs
  <2>4. New \in Entries /\ entry[New].state = "absent"
    BY <1>1, NewIsFree DEF AddToQueue
  <2>5. entry' = [entry EXCEPT ![New] = row]
    BY <1>1, Zenon DEF AddToQueue, NewRow, row
  <2> HIDE DEF row
  <2>6. Takes(New, row)
    BY <2>3, <2>4, <2>5 DEF Takes
  <2> QED  BY <2>3, <2>4, <2>6 DEF RowsStep
<1>2. ASSUME NEW e \in Entries, NEW policy \in Policies, UpdateQueueEntry(e, policy)  PROVE RowsStep
  <2>1. entry' = [entry EXCEPT ![e] = [entry[e] EXCEPT !.policy = policy]]
    BY <1>2 DEF UpdateQueueEntry
  <2>2. entry[e] \in Row
    BY RowOf
  <2>3. [entry[e] EXCEPT !.policy = policy] \in Row
    BY <2>2 DEF Row
  <2>4. entry' \in [Entries -> Row]
    BY <2>1, <2>3 DEF RowsTyped
  <2>5. ASSUME NEW x \in Entries
        PROVE  \E new \in Policies : entry'[x] = [entry[x] EXCEPT !.policy = new]
    <3>1. CASE x = e
      BY <2>1, <3>1 DEF RowsTyped
    <3>2. CASE x # e
      <4>1. entry'[x] = entry[x] /\ entry[x] \in Row /\ entry[x].policy \in Policies
        BY <2>1, <3>2, RowOf DEF RowsTyped
      <4>2. entry[x] = [entry[x] EXCEPT !.policy = entry[x].policy]
        BY <4>1 DEF Row
      <4> QED  BY <4>1, <4>2
    <3> QED  BY <3>1, <3>2
  <2> QED  BY <2>4, <2>5 DEF RowsStep, Keeps
<1>3. ASSUME NEW e \in Entries, NEW to \in Entries, MoveQueueEntry(e, to)  PROVE RowsStep
  <2>1. e \in Open /\ to \in 1..Cardinality(Open) /\ entry' = At(Final(Positions, MoveSteps(e, to)))
    BY <1>3, Zenon DEF MoveQueueEntry
  <2> QED  BY <2>1 DEF RowsStep, Moves
<1>4. ASSUME NEW e \in Entries, RemoveQueueEntry(e)  PROVE RowsStep
  <2>1. e \in Open
    BY <1>4 DEF RemoveQueueEntry, Open
  <2>2. entry' = CloseAndRenumber(e, "removed")
    BY <1>4, Zenon DEF RemoveQueueEntry
  <2>3. \E end \in {"removed", "ended"} : Leaves(e, end)
    BY <2>1, <2>2 DEF Leaves
  <2> QED  BY <2>1, <2>3 DEF RowsStep
<1>5. ASSUME NEW e \in Entries, ReleaseJob(e)  PROVE RowsStep
  <2> DEFINE row == Linked(e, entry[e].pos)
  <2>1. entry[e].state = "assigned" /\ entry[e].slice \in Slices /\ entry[e].pos \in Nat
    BY <1>5, RowOf DEF ReleaseJob, RowsTyped
  <2>2. row \in Row /\ row.state = "queued" /\ row.pos = entry[e].pos /\ row.slice \in Slices /\ row.origin = e
    BY <2>1, LinkedIs
  <2>3. New \in Entries /\ entry[New].state = "absent"
    BY <1>5, NewIsFree DEF ReleaseJob
  <2>4. entry' = [entry EXCEPT ![e] = Closed(e, "released"), ![New] = row]
    BY <1>5, Zenon DEF ReleaseJob, row
  <2> HIDE DEF row
  <2>5. Replaces(e, New, row)
    BY <2>1, <2>2, <2>3, <2>4 DEF Replaces
  <2> QED  BY <2>2, <2>3, <2>5 DEF RowsStep
<1>6. ASSUME NEW e \in Entries, RetryJob(e)  PROVE RowsStep
  <2> DEFINE row == Linked(e, Top + 1)
  <2>1. entry[e].state = "closed" /\ entry[e].end = "ended" /\ entry[e].slice \in Slices
    BY <1>6 DEF RetryJob, RowsTyped
  <2>2. Top + 1 \in Nat /\ Top = Cardinality(Open)
    BY TopIsLast, OpenCounts
  <2>3. row \in Row /\ row.state = "queued" /\ row.pos = Cardinality(Open) + 1 /\ row.slice \in Slices /\ row.origin = e
    BY <2>1, <2>2, LinkedIs
  <2>4. New \in Entries /\ entry[New].state = "absent"
    BY <1>6, NewIsFree DEF RetryJob
  <2>5. entry' = [entry EXCEPT ![New] = row]
    BY <1>6, Zenon DEF RetryJob, row
  <2> HIDE DEF row
  <2>6. Takes(New, row)
    BY <2>1, <2>3, <2>4, <2>5 DEF Takes
  <2> QED  BY <2>3, <2>4, <2>6 DEF RowsStep
<1>7. ASSUME NEW e \in Entries, NEW used \in {0} \cup Range(Estimate), JobEnds(e, used)  PROVE RowsStep
  <2>1. e \in Open
    BY <1>7 DEF JobEnds, Open
  <2>2. entry' = CloseAndRenumber(e, "ended")
    BY <1>7, Zenon DEF JobEnds
  <2>3. \E end \in {"removed", "ended"} : Leaves(e, end)
    BY <2>1, <2>2 DEF Leaves
  <2> QED  BY <2>1, <2>3 DEF RowsStep
<1>8. ASSUME NEW e \in Entries, NEW p \in Printers, NEW s \in Spools, NEW acknowledged \in BOOLEAN,
             AssignQueueEntry(e, p, s, acknowledged)
      PROVE  RowsStep
  <2>1. Assigns(e, p, s, FALSE, acknowledged)
    <3>1. By(FALSE) = "operator" /\ Copied("operator", p) = asked.status
      BY DEF By, Copied
    <3> QED  BY <1>8, <3>1, Zenon DEF AssignQueueEntry, Assigns
  <2> QED  BY <2>1 DEF RowsStep
<1>9. CASE AssignProposal
  <2> DEFINE e == ev.pick[1]
             p == ev.pick[2]
             s == ev.pick[3]
  <2>1. e \in Entries /\ p \in Printers /\ s \in Spools
    BY <1>9 DEF AssignProposal, EvaluatorTyped, Picks
  <2>2. CASE Assignable(e, p, s, ev.shown[p], TRUE, FALSE)
    <3>1. /\ entry' = Assigned(e, p, s) /\ UNCHANGED <<printer, spool>>
          /\ last' = [entry |-> e, by |-> "evaluator", policy |-> entry[e].policy]
      <4> HIDE DEF EvaluatorTyped, RowsTyped
      <4> QED  BY <1>9, <2>2 DEF AssignProposal
    <3> HIDE DEF e, p, s
    <3>2. By(TRUE) = "evaluator" /\ Copied("evaluator", p) = ev.shown[p]
      BY DEF By, Copied
    <3>3. Assigns(e, p, s, TRUE, FALSE)
      BY <2>2, <3>1, <3>2, Zenon DEF Assigns
    <3> QED  BY <2>1, <3>3 DEF RowsStep
  <2>3. CASE ~Assignable(e, p, s, ev.shown[p], TRUE, FALSE)
    <3>1. entry' = entry
      BY <1>9, <2>3 DEF AssignProposal
    <3> QED  BY <3>1, UnchangedKeeps DEF RowsStep
  <2> QED  BY <2>2, <2>3
<1>10. CASE entry' = entry
  BY <1>10, UnchangedKeeps DEF RowsStep
<1>11. ASSUME World  PROVE entry' = entry
  BY <1>11 DEF World, StatusChanges, ForeignOperation, ArchivePrinter, SpoolChanges
<1>12. ASSUME Evaluator, ~AssignProposal  PROVE entry' = entry
  BY <1>12 DEF Evaluator, Inside, rows, ReadStatuses, Subscribe, GatesOpen, Take, Drain, LookAround,
                          Pass, LookAgain, StatusTrigger
<1>13. ASSUME Asking \/ Deliver \/ RunFails \/ Restart \/ UNCHANGED vars  PROVE entry' = entry
  BY <1>13 DEF Asking, AskToAssign, RefuseToAssign, Deliver, RunFails, Restart, vars, rows
<1> HIDE DEF TypesHold
<1> QED  BY <1>1, <1>2, <1>3, <1>4, <1>5, <1>6, <1>7, <1>8, <1>9, <1>10, <1>11, <1>12, <1>13 DEF Next, Operator

\* The first half of OrderKept's action, and the second.
OthersKeepOrder ==
    \E m \in Entries : \A x, y \in (Open \cap Open') \ {m} :
        entry[x].pos < entry[y].pos => entry'[x].pos < entry'[y].pos
ReplacementsInPlace ==
    \A x \in Open' \ Open : entry'[x].origin # 0 /\ entry'[entry'[x].origin].end = "released" =>
        \A y \in Open \cap Open' :
           entry[entry'[x].origin].pos < entry[y].pos <=> entry'[x].pos < entry'[y].pos
NoneAssigned == \A x \in Entries : entry'[x].state = "assigned" => entry[x].state = "assigned"

LEMMA PlacesAre ==
  ASSUME RowsTyped, Ordered
  PROVE  /\ \A x \in Open : /\ x \in Entries /\ Positions[x] = entry[x].pos /\ entry[x].pos \in Nat
                            /\ 1 <= entry[x].pos /\ entry[x].pos <= Cardinality(Open)
         /\ \A x, y \in Open : entry[x].pos = entry[y].pos => x = y
         /\ \A k \in 1..Cardinality(Open) : \E x \in Open : entry[x].pos = k
<1>1. \A x \in Open : Positions[x] = entry[x].pos /\ x \in Entries /\ entry[x].pos \in Nat
  BY RowOf DEF Positions, Open
<1> QED  BY <1>1, OpenCounts DEF Ordered, InOrder

\* The n open entries of the next state are in order when their positions are.
LEMMA InOrderNext ==
  ASSUME \A x \in Open' : entry'[x].pos \in 1..Cardinality(Open'),
         \A x, y \in Open' : entry'[x].pos = entry'[y].pos => x = y,
         \A k \in 1..Cardinality(Open') : \E x \in Open' : entry'[x].pos = k
  PROVE  Ordered'
BY DEF Ordered, InOrder, Positions

LEMMA KeepsPlaces ==
  ASSUME RowsTyped, Ordered, Keeps
  PROVE  RowsTyped' /\ Ordered' /\ OthersKeepOrder /\ ReplacementsInPlace /\ NoneAssigned
<1>1. ASSUME NEW x \in Entries
      PROVE  /\ entry'[x].state = entry[x].state /\ entry'[x].pos = entry[x].pos /\ entry'[x].slice = entry[x].slice
             /\ entry'[x].printer = entry[x].printer /\ entry'[x].spool = entry[x].spool
  <2>1. PICK policy \in Policies : entry'[x] = [entry[x] EXCEPT !.policy = policy]
    BY DEF Keeps
  <2>2. entry[x] \in Row
    BY RowOf
  <2> QED  BY <2>1, <2>2 DEF Row
<1>2. RowsTyped'
  BY <1>1 DEF Keeps, RowsTyped
<1>3. Open' = Open
  BY <1>1 DEF Open
<1>4. Ordered'
  <2>1. \A x \in Open : entry'[x].pos = entry[x].pos
    BY <1>1 DEF Open
  <2>2. \A x \in Open : entry'[x].pos \in 1..Cardinality(Open)
    BY <2>1, PlacesAre, OpenCounts
  <2>3. \A x, y \in Open : entry'[x].pos = entry'[y].pos => x = y
    BY <2>1, PlacesAre
  <2>4. \A k \in 1..Cardinality(Open) : \E x \in Open : entry'[x].pos = k
    BY <2>1, PlacesAre
  <2> QED  BY <1>3, <2>2, <2>3, <2>4, InOrderNext
<1>5. OthersKeepOrder
  <2>1. 1 \in Entries
    BY QueueAssumption DEF Entries
  <2>2. \A x \in Open : entry'[x].pos = entry[x].pos
    BY <1>1 DEF Open
  <2> QED  BY <2>1, <2>2 DEF OthersKeepOrder
<1>6. ReplacementsInPlace
  BY <1>3 DEF ReplacementsInPlace
<1>7. NoneAssigned
  BY <1>1 DEF NoneAssigned
<1> QED  BY <1>2, <1>4, <1>5, <1>6, <1>7

LEMMA TakesLast ==
  ASSUME RowsTyped, Ordered, NEW k \in Entries, NEW row \in Row, Takes(k, row)
  PROVE  RowsTyped' /\ Ordered' /\ OthersKeepOrder /\ ReplacementsInPlace /\ NoneAssigned
<1> DEFINE n == Cardinality(Open)
<1>1. entry' \in [Entries -> Row] /\ \A x \in Entries : entry'[x] = IF x = k THEN row ELSE entry[x]
  BY DEF Takes, RowsTyped
<1>2. row.state = "queued" /\ row.slice \in Slices /\ row.pos = n + 1 /\ entry[k].state = "absent"
  BY DEF Takes
<1>3. RowsTyped'
  BY <1>1, <1>2 DEF RowsTyped
<1>4. Open' = Open \cup {k} /\ k \notin Open
  BY <1>1, <1>2 DEF Open
<1>5. Cardinality(Open') = n + 1 /\ n \in Nat
  BY <1>4, OpenCounts, FS_AddElement
<1>6. /\ \A x \in Open : entry'[x].pos = entry[x].pos
      /\ entry'[k].pos = n + 1
  BY <1>1, <1>2, <1>4 DEF Open
<1> HIDE DEF n
<1>7. Ordered'
  <2>0. \A x \in Open : entry[x].pos \in Nat /\ 1 <= entry[x].pos /\ entry[x].pos <= n
    BY PlacesAre DEF n
  <2>1. \A x \in Open' : entry'[x].pos \in 1..Cardinality(Open')
    BY <1>4, <1>5, <1>6, <2>0
  <2>2. ASSUME NEW x \in Open', NEW y \in Open', entry'[x].pos = entry'[y].pos  PROVE x = y
    <3>1. \A z \in Open : entry'[z].pos # entry'[k].pos
      BY <1>5, <1>6, <2>0
    <3>2. CASE x = k \/ y = k
      BY <1>4, <2>2, <3>1, <3>2
    <3>3. CASE x # k /\ y # k
      BY <1>4, <1>6, <2>2, <3>3, PlacesAre
    <3> QED  BY <3>2, <3>3
  <2>3. ASSUME NEW i \in 1..Cardinality(Open')  PROVE \E x \in Open' : entry'[x].pos = i
    <3>1. CASE i = n + 1
      BY <1>4, <1>6, <3>1
    <3>2. CASE i # n + 1
      <4>1. i \in 1..n
        BY <1>5, <3>2
      <4>2. PICK x \in Open : entry[x].pos = i
        BY <4>1, PlacesAre DEF n
      <4> QED  BY <1>4, <1>6, <4>2
    <3> QED  BY <3>1, <3>2
  <2> QED  BY <2>1, <2>2, <2>3, InOrderNext
<1>8. OthersKeepOrder
  BY <1>6 DEF OthersKeepOrder
<1>9. ReplacementsInPlace
  <2> SUFFICES ASSUME entry'[k].origin # 0, entry'[entry'[k].origin].end = "released"
               PROVE  FALSE
    BY <1>4 DEF ReplacementsInPlace
  <2>1. /\ row.origin \in Entries /\ entry[row.origin].state = "closed" /\ entry[row.origin].end = "ended"
        /\ entry'[k] = row
    BY <1>1 DEF Takes
  <2>2. row.origin # k
    BY <1>2, <2>1
  <2> QED  BY <1>1, <2>1, <2>2
<1>10. NoneAssigned
  BY <1>1, <1>2 DEF NoneAssigned
<1> QED  BY <1>3, <1>7, <1>8, <1>9, <1>10

LEMMA ReplacesInPlace ==
  ASSUME RowsTyped, Ordered, NEW e \in Entries, NEW k \in Entries, NEW row \in Row, Replaces(e, k, row)
  PROVE  RowsTyped' /\ Ordered' /\ OthersKeepOrder /\ ReplacementsInPlace /\ NoneAssigned
<1> DEFINE n == Cardinality(Open)
           gone == Closed(e, "released")
<1>1. gone \in Row /\ gone.state = "closed"
  BY ClosedIs
<1>2. /\ row.state = "queued" /\ row.slice \in Slices /\ row.pos = entry[e].pos /\ row.origin = e
      /\ entry[k].state = "absent" /\ entry[e].state = "assigned" /\ e # k
  BY DEF Replaces
<1>3. entry' = [entry EXCEPT ![e] = gone, ![k] = row]
  BY DEF Replaces
<1> HIDE DEF gone
<1>4. entry' \in [Entries -> Row] /\ \A x \in Entries : entry'[x] = IF x = k THEN row ELSE IF x = e THEN gone ELSE entry[x]
  BY <1>1, <1>2, <1>3 DEF RowsTyped
<1>5. gone.slice = entry[e].slice
  BY ClosedIs DEF gone
<1>6. RowsTyped'
  BY <1>1, <1>2, <1>4, <1>5 DEF RowsTyped
<1>7. e \in Open /\ k \notin Open /\ Open' = (Open \ {e}) \cup {k}
  BY <1>1, <1>2, <1>4 DEF Open
<1>8. Cardinality(Open') = n
  <2>1. Cardinality(Open \ {e}) = n - 1 /\ IsFiniteSet(Open \ {e})
    BY <1>7, OpenCounts, FS_RemoveElement
  <2>2. k \notin Open \ {e}
    BY <1>7
  <2>3. Cardinality((Open \ {e}) \cup {k}) = Cardinality(Open \ {e}) + 1
    BY <2>1, <2>2, FS_AddElement
  <2> QED  BY <1>7, <2>1, <2>3, OpenCounts
<1>9. entry'[k].pos = entry[e].pos /\ \A x \in Open \ {e} : entry'[x].pos = entry[x].pos
  BY <1>2, <1>4, <1>7 DEF Open
<1>10. Ordered'
  <2>1. \A x \in Open' : entry'[x].pos \in 1..Cardinality(Open')
    BY <1>7, <1>8, <1>9, PlacesAre, OpenCounts
  <2>2. ASSUME NEW x \in Open', NEW y \in Open', entry'[x].pos = entry'[y].pos  PROVE x = y
    <3>1. \A z \in Open \ {e} : entry'[z].pos # entry'[k].pos
      BY <1>7, <1>9, PlacesAre
    <3>2. CASE x = k \/ y = k
      BY <1>7, <2>2, <3>1, <3>2
    <3>3. CASE x # k /\ y # k
      BY <1>7, <1>9, <2>2, <3>3, PlacesAre
    <3> QED  BY <3>2, <3>3
  <2>3. ASSUME NEW i \in 1..Cardinality(Open')  PROVE \E x \in Open' : entry'[x].pos = i
    <3>1. PICK x \in Open : entry[x].pos = i
      BY <1>8, PlacesAre
    <3>2. CASE x = e
      BY <1>7, <1>9, <3>1, <3>2
    <3>3. CASE x # e
      BY <1>7, <1>9, <3>1, <3>3
    <3> QED  BY <3>2, <3>3
  <2> QED  BY <2>1, <2>2, <2>3, InOrderNext
<1>11. OthersKeepOrder
  BY <1>7, <1>9 DEF OthersKeepOrder
<1>12. ReplacementsInPlace
  <2> SUFFICES ASSUME NEW y \in Open \cap Open'
               PROVE  entry[entry'[k].origin].pos < entry[y].pos <=> entry'[k].pos < entry'[y].pos
    BY <1>7 DEF ReplacementsInPlace
  <2>1. entry'[k].origin = e /\ y \in Open \ {e}
    BY <1>2, <1>4, <1>7
  <2> QED  BY <1>9, <2>1
<1>13. NoneAssigned
  BY <1>1, <1>2, <1>4 DEF NoneAssigned
<1> QED  BY <1>6, <1>10, <1>11, <1>12, <1>13

\* Writing positions leaves the rest of each row alone.
LEMMA AtIs ==
  ASSUME RowsTyped, NEW D \in SUBSET Entries, NEW pos \in [D -> Nat]
  PROVE  /\ At(pos) \in [Entries -> Row]
         /\ \A x \in Entries :
              /\ At(pos)[x].state = entry[x].state /\ At(pos)[x].slice = entry[x].slice
              /\ At(pos)[x].printer = entry[x].printer /\ At(pos)[x].spool = entry[x].spool
              /\ At(pos)[x].pos = IF x \in D THEN pos[x] ELSE entry[x].pos
<1>1. ASSUME NEW x \in Entries
      PROVE  /\ At(pos)[x] \in Row
             /\ At(pos)[x].state = entry[x].state /\ At(pos)[x].slice = entry[x].slice
             /\ At(pos)[x].printer = entry[x].printer /\ At(pos)[x].spool = entry[x].spool
             /\ At(pos)[x].pos = IF x \in D THEN pos[x] ELSE entry[x].pos
  <2>1. entry[x] \in Row
    BY RowOf
  <2>2. At(pos)[x] = IF x \in D THEN [entry[x] EXCEPT !.pos = pos[x]] ELSE entry[x]
    BY DEF At
  <2>3. CASE x \in D
    BY <2>1, <2>2, <2>3 DEF Row
  <2>4. CASE x \notin D
    BY <2>1, <2>2, <2>4
  <2> QED  BY <2>3, <2>4
<1>2. At(pos) = [x \in Entries |-> At(pos)[x]]
  BY DEF At
<1>3. \A x \in Entries : At(pos)[x] \in Row
  BY <1>1
<1>4. At(pos) \in [Entries -> Row]
  BY <1>2, <1>3, Zenon
<1> QED  BY <1>1, <1>4

LEMMA MovesInOrder ==
  ASSUME RowsTyped, Ordered, NEW e \in Open, NEW to \in 1..Cardinality(Open), Moves(e, to)
  PROVE  RowsTyped' /\ Ordered' /\ OthersKeepOrder /\ ReplacementsInPlace /\ NoneAssigned
<1> DEFINE n == Cardinality(Open)
           from == entry[e].pos
           final == Final(Positions, MoveSteps(e, to))
<1>1. /\ final \in [Open -> Nat]
      /\ \A x \in Open : final[x] =
           IF x = e THEN to
           ELSE IF entry[x].pos \in from + 1..to THEN entry[x].pos - 1
           ELSE IF entry[x].pos \in to..from - 1 THEN entry[x].pos + 1
           ELSE entry[x].pos
  BY MoveShifts, Zenon
<1>2. entry' = At(final) /\ Open \in SUBSET Entries /\ e \in Entries /\ n \in Nat
  BY OpenCounts DEF Moves
<1> HIDE DEF final
<1>3. /\ entry' \in [Entries -> Row]
      /\ \A x \in Entries :
              /\ entry'[x].state = entry[x].state /\ entry'[x].slice = entry[x].slice
              /\ entry'[x].printer = entry[x].printer /\ entry'[x].spool = entry[x].spool
              /\ entry'[x].pos = IF x \in Open THEN final[x] ELSE entry[x].pos
  <2> DEFINE D == Open
  <2>1. D \in SUBSET Entries /\ final \in [D -> Nat]
    BY <1>1, <1>2
  <2> HIDE DEF D
  <2>2. At(final) \in [Entries -> Row]
    BY <2>1, AtIs
  <2>3. \A x \in Entries :
              /\ At(final)[x].state = entry[x].state /\ At(final)[x].slice = entry[x].slice
              /\ At(final)[x].printer = entry[x].printer /\ At(final)[x].spool = entry[x].spool
              /\ At(final)[x].pos = IF x \in D THEN final[x] ELSE entry[x].pos
    BY <2>1, AtIs
  <2> QED  BY <1>2, <2>2, <2>3 DEF D
<1>4. RowsTyped'
  BY <1>3 DEF RowsTyped
<1>5. Open' = Open
  BY <1>3 DEF Open
<1>6. \A x \in Open : entry'[x].pos = final[x]
  BY <1>2, <1>3
<1>7. /\ from \in Nat /\ 1 <= from /\ from <= n /\ to \in Nat /\ 1 <= to /\ to <= n
      /\ \A x \in Open : entry[x].pos \in Nat /\ 1 <= entry[x].pos /\ entry[x].pos <= n
      /\ \A x \in Open : x # e => entry[x].pos # from
  BY <1>2, PlacesAre
<1> HIDE DEF n, from
<1>8. Ordered'
  <2>1. ASSUME NEW x \in Open  PROVE final[x] \in 1..n
    BY <1>1, <1>2, <1>7
  <2>2. ASSUME NEW x \in Open, NEW y \in Open, final[x] = final[y]  PROVE x = y
    <3>1. /\ entry[x].pos \in Nat /\ entry[y].pos \in Nat
          /\ x # e => entry[x].pos # from
          /\ y # e => entry[y].pos # from
      BY <1>7
    <3>2. final[x] = final[y] => (x = e <=> y = e) /\ entry[x].pos = entry[y].pos
      BY <1>1, <1>7, <3>1 DEF from
    <3> QED  BY <2>2, <3>2, PlacesAre
  <2>3. ASSUME NEW k \in 1..n  PROVE \E x \in Open : final[x] = k
    <3> DEFINE was == IF k = to THEN from
                      ELSE IF from <= k /\ k < to THEN k + 1
                      ELSE IF to < k /\ k <= from THEN k - 1
                      ELSE k
    <3>1. was \in 1..n /\ (k = to <=> was = from)
      BY <1>2, <1>7
    <3>2. PICK x \in Open : entry[x].pos = was
      BY <3>1, PlacesAre DEF n
    <3>3. x = e <=> k = to
      BY <1>7, <3>1, <3>2, PlacesAre DEF from
    <3>4. k \in Nat /\ entry[x].pos \in Nat
      BY <1>7
    <3>5. final[x] = k
      <4>1. CASE k = to
        BY <1>1, <3>3, <4>1
      <4>2. CASE k # to
        <5>1. final[x] = (IF was \in from + 1..to THEN was - 1 ELSE IF was \in to..from - 1 THEN was + 1 ELSE was)
          BY <1>1, <3>2, <3>3, <4>2
        <5> QED  BY <1>7, <3>4, <4>2, <5>1
      <4> QED  BY <4>1, <4>2
    <3> QED  BY <3>5
  <2>4. \A x \in Open' : entry'[x].pos \in 1..Cardinality(Open')
    BY <1>5, <1>6, <2>1 DEF n
  <2>5. \A x, y \in Open' : entry'[x].pos = entry'[y].pos => x = y
    BY <1>5, <1>6, <2>2
  <2>6. \A k \in 1..Cardinality(Open') : \E x \in Open' : entry'[x].pos = k
    BY <1>5, <1>6, <2>3 DEF n
  <2> QED  BY <2>4, <2>5, <2>6, InOrderNext
<1>9. OthersKeepOrder
  <2>1. ASSUME NEW x \in Open \ {e}, NEW y \in Open \ {e}, entry[x].pos < entry[y].pos
        PROVE  final[x] < final[y]
    <3>1. /\ entry[x].pos \in Nat /\ entry[y].pos \in Nat /\ entry[x].pos # from /\ entry[y].pos # from
          /\ final[x] = (IF entry[x].pos \in from + 1..to THEN entry[x].pos - 1
                         ELSE IF entry[x].pos \in to..from - 1 THEN entry[x].pos + 1 ELSE entry[x].pos)
          /\ final[y] = (IF entry[y].pos \in from + 1..to THEN entry[y].pos - 1
                         ELSE IF entry[y].pos \in to..from - 1 THEN entry[y].pos + 1 ELSE entry[y].pos)
      BY <1>1, <1>7
    <3> QED  BY <1>7, <2>1, <3>1
  <2> QED  BY <1>2, <1>5, <1>6, <2>1 DEF OthersKeepOrder
<1>10. ReplacementsInPlace
  BY <1>5 DEF ReplacementsInPlace
<1>11. NoneAssigned
  BY <1>3 DEF NoneAssigned
<1> QED  BY <1>4, <1>8, <1>9, <1>10, <1>11

LEMMA LeavesInOrder ==
  ASSUME RowsTyped, Ordered, NEW e \in Open, NEW end \in {"removed", "ended"}, Leaves(e, end)
  PROVE  RowsTyped' /\ Ordered' /\ OthersKeepOrder /\ ReplacementsInPlace /\ NoneAssigned
<1> DEFINE n == Cardinality(Open)
           from == entry[e].pos
           D == Open \ {e}
           final == Final([x \in D |-> entry[x].pos], CloseSteps(e))
           gone == Closed(e, end)
<1>1. /\ final \in [D -> Nat]
      /\ \A x \in D : final[x] = IF entry[x].pos > from THEN entry[x].pos - 1 ELSE entry[x].pos
  BY CloseShifts, Zenon
<1>2. entry' = [At(final) EXCEPT ![e] = gone]
  BY Zenon DEF Leaves, CloseAndRenumber, final, gone
<1>3. D \in SUBSET Entries /\ e \in Entries /\ e \notin D /\ n \in Nat
  BY OpenCounts
<1>4. gone \in Row /\ gone.state = "closed" /\ gone.slice = entry[e].slice
  BY <1>3, ClosedIs
<1> HIDE DEF final, gone
<1>5. /\ entry' \in [Entries -> Row]
      /\ entry'[e] = gone
      /\ \A x \in Entries \ {e} :
              /\ entry'[x].state = entry[x].state /\ entry'[x].slice = entry[x].slice
              /\ entry'[x].printer = entry[x].printer /\ entry'[x].spool = entry[x].spool
              /\ entry'[x].pos = IF x \in D THEN final[x] ELSE entry[x].pos
  <2> DEFINE base == At(final)
  <2>1. base \in [Entries -> Row]
    BY <1>1, <1>3, AtIs
  <2>2. \A x \in Entries :
              /\ base[x].state = entry[x].state /\ base[x].slice = entry[x].slice
              /\ base[x].printer = entry[x].printer /\ base[x].spool = entry[x].spool
              /\ base[x].pos = IF x \in D THEN final[x] ELSE entry[x].pos
    BY <1>1, <1>3, AtIs
  <2> HIDE DEF base, D
  <2>3. entry' = [base EXCEPT ![e] = gone]
    BY <1>2 DEF base
  <2>4. entry' \in [Entries -> Row] /\ entry'[e] = gone /\ \A x \in Entries \ {e} : entry'[x] = base[x]
    BY <1>3, <1>4, <2>1, <2>3
  <2> QED  BY <2>2, <2>4
<1>6. RowsTyped'
  <2>1. ASSUME NEW x \in Entries
        PROVE  /\ entry'[x].state # "absent" => entry'[x].slice \in Slices
               /\ entry'[x].state = "assigned" => entry'[x].printer \in Printers /\ entry'[x].spool \in Spools
    <3>1. CASE x = e
      BY <1>3, <1>4, <1>5, <3>1 DEF RowsTyped, Open
    <3>2. CASE x # e
      BY <1>5, <3>2 DEF RowsTyped
    <3> QED  BY <3>1, <3>2
  <2> QED  BY <1>5, <2>1 DEF RowsTyped
<1>7. Open' = D
  BY <1>3, <1>4, <1>5 DEF Open
<1>8. Cardinality(Open') = n - 1
  BY <1>7, OpenCounts, FS_RemoveElement
<1>9. \A x \in D : entry'[x].pos = final[x]
  BY <1>3, <1>5
<1>10. /\ from \in Nat /\ 1 <= from /\ from <= n
       /\ \A x \in D : entry[x].pos \in Nat /\ 1 <= entry[x].pos /\ entry[x].pos <= n /\ entry[x].pos # from
       /\ \A x, y \in D : entry[x].pos = entry[y].pos => x = y
  BY PlacesAre
<1>11. \A k \in 1..n : k # from => \E x \in D : entry[x].pos = k
  BY PlacesAre
<1> HIDE DEF n, from, D
<1>12. Ordered'
  <2>1. ASSUME NEW x \in D  PROVE final[x] \in 1..n - 1
    BY <1>1, <1>3, <1>10
  <2>2. ASSUME NEW x \in D, NEW y \in D, final[x] = final[y]  PROVE x = y
    <3>1. entry[x].pos \in Nat /\ entry[y].pos \in Nat /\ entry[x].pos # from /\ entry[y].pos # from
      BY <1>10
    <3>2. entry[x].pos = entry[y].pos
      BY <1>1, <1>10, <2>2, <3>1
    <3> QED  BY <1>10, <3>2
  <2>3. ASSUME NEW k \in 1..n - 1  PROVE \E x \in D : final[x] = k
    <3>1. CASE k < from
      <4>1. k \in 1..n /\ k # from
        BY <1>3, <1>10, <3>1
      <4>2. PICK x \in D : entry[x].pos = k
        BY <1>11, <4>1
      <4>3. final[x] = k
        BY <1>1, <1>10, <3>1, <4>2
      <4> QED  BY <4>3
    <3>2. CASE k >= from
      <4>1. k + 1 \in 1..n /\ k + 1 # from
        BY <1>3, <1>10, <3>2
      <4>2. PICK x \in D : entry[x].pos = k + 1
        BY <1>11, <4>1
      <4>3. final[x] = k
        BY <1>1, <1>10, <3>2, <4>2
      <4> QED  BY <4>3
    <3>3. k \in Int
      OBVIOUS
    <3> QED  BY <1>10, <3>1, <3>2, <3>3
  <2>4. \A x \in Open' : entry'[x].pos \in 1..Cardinality(Open')
    BY <1>7, <1>8, <1>9, <2>1
  <2>5. \A x, y \in Open' : entry'[x].pos = entry'[y].pos => x = y
    BY <1>7, <1>9, <2>2
  <2>6. \A k \in 1..Cardinality(Open') : \E x \in Open' : entry'[x].pos = k
    BY <1>7, <1>8, <1>9, <2>3
  <2> QED  BY <2>4, <2>5, <2>6, InOrderNext
<1>13. OthersKeepOrder
  <2>1. ASSUME NEW x \in D, NEW y \in D, entry[x].pos < entry[y].pos  PROVE final[x] < final[y]
    BY <1>1, <1>10, <2>1
  <2> QED  BY <1>3, <1>7, <1>9, <2>1 DEF OthersKeepOrder
<1>14. ReplacementsInPlace
  BY <1>7 DEF ReplacementsInPlace, D
<1>15. NoneAssigned
  BY <1>4, <1>5 DEF NoneAssigned
<1> QED  BY <1>6, <1>12, <1>13, <1>14, <1>15

\* What AssignedSoundly says of one step.
SoundAssignment ==
    \A e \in Entries, p \in Printers, s \in Spools :
         /\ entry[e].state = "queued" /\ entry'[e].state = "assigned"
         /\ p = entry'[e].printer /\ s = entry'[e].spool
         =>
         /\ {x \in Entries : entry'[x].state = "assigned" /\ entry'[x].printer = p} = {e}
         /\ Reserved(s)' <= spool[s].mg /\ spool[s].active /\ spool[s].at \in {p, Storage}
         /\ ~printer[p].archived /\ ~printer[p].foreign
         /\ Copied(last'.by, p) \in IF last'.by = "evaluator" THEN {"ready"} ELSE {"ready", "stale"}
         /\ last'.by = "evaluator" => spool[s].at = p /\ entry[e].slice \notin Absent
         /\ last'.by = "operator" => asked.printer = p
         /\ entry[e].pin \in {None, p}

LEMMA NoneAssignedSound == ASSUME NoneAssigned  PROVE SoundAssignment
BY DEF NoneAssigned, SoundAssignment

LEMMA AssignedIs ==
  ASSUME RowsTyped, NEW e \in Entries, NEW p \in Printers, NEW s \in Spools
  PROVE  /\ Assigned(e, p, s) \in [Entries -> Row]
         /\ \A x \in Entries : x # e => Assigned(e, p, s)[x] = entry[x]
         /\ Assigned(e, p, s)[e].state = "assigned" /\ Assigned(e, p, s)[e].printer = p
         /\ Assigned(e, p, s)[e].spool = s /\ Assigned(e, p, s)[e].pos = entry[e].pos
         /\ Assigned(e, p, s)[e].slice = entry[e].slice
<1> DEFINE r0 == entry[e]
           r1 == [r0 EXCEPT !.state = "assigned"]
           r2 == [r1 EXCEPT !.printer = p]
           r3 == [r2 EXCEPT !.spool = s]
<1>1. r0 \in Row
  BY RowOf
<1>2. Assigned(e, p, s) = [entry EXCEPT ![e] = r3]
  BY <1>1 DEF Assigned, r1, r2, r3
<1> HIDE DEF r0
<1>3. r1 \in Row /\ r1.state = "assigned" /\ r1.pos = r0.pos /\ r1.slice = r0.slice
  BY <1>1 DEF Row
<1> HIDE DEF r1
<1>4. r2 \in Row /\ r2.state = "assigned" /\ r2.pos = r0.pos /\ r2.slice = r0.slice /\ r2.printer = p
  BY <1>3 DEF Row
<1> HIDE DEF r2
<1>5. /\ r3 \in Row /\ r3.state = "assigned" /\ r3.pos = r0.pos /\ r3.slice = r0.slice
      /\ r3.printer = p /\ r3.spool = s
  BY <1>4 DEF Row
<1> HIDE DEF r3
<1>6. /\ Assigned(e, p, s) \in [Entries -> Row] /\ Assigned(e, p, s)[e] = r3
      /\ \A x \in Entries : x # e => Assigned(e, p, s)[x] = entry[x]
  BY <1>2, <1>5 DEF RowsTyped
<1> QED  BY <1>5, <1>6 DEF r0

LEMMA AssignsSoundly ==
  ASSUME TypesHold, Ordered, NEW e \in Entries, NEW p \in Printers, NEW s \in Spools,
         NEW automatic \in BOOLEAN, NEW acknowledged \in BOOLEAN,
         Assigns(e, p, s, automatic, acknowledged)
  PROVE  RowsTyped' /\ Ordered' /\ OthersKeepOrder /\ ReplacementsInPlace /\ SoundAssignment
<1> DEFINE need == Estimate[entry[e].slice]
           copied == Copied(By(automatic), p)
<1>1. /\ entry' \in [Entries -> Row]
      /\ \A x \in Entries : x # e => entry'[x] = entry[x]
      /\ entry'[e].state = "assigned" /\ entry'[e].printer = p /\ entry'[e].spool = s
      /\ entry'[e].pos = entry[e].pos /\ entry'[e].slice = entry[e].slice
  BY AssignedIs DEF Assigns, TypesHold
<1>2. entry[e].state = "queued" /\ CheckAssignment(e, p, s, copied, automatic, acknowledged)
  BY Zenon DEF Assigns, Assignable
<1>3. RowsTyped'
  BY <1>1, <1>2 DEF RowsTyped, TypesHold
<1>4. Open' = Open /\ e \in Open
  BY <1>1, <1>2 DEF Open
<1>5. \A x \in Open : entry'[x].pos = entry[x].pos
  BY <1>1 DEF Open
<1>6. Ordered'
  <2>1. \A x \in Open : entry'[x].pos \in 1..Cardinality(Open)
    BY <1>5, PlacesAre, OpenCounts DEF TypesHold
  <2>2. \A x, y \in Open : entry'[x].pos = entry'[y].pos => x = y
    BY <1>5, PlacesAre DEF TypesHold
  <2>3. \A k \in 1..Cardinality(Open) : \E x \in Open : entry'[x].pos = k
    BY <1>5, PlacesAre DEF TypesHold
  <2> QED  BY <1>4, <2>1, <2>2, <2>3, InOrderNext
<1>7. OthersKeepOrder
  BY <1>5 DEF OthersKeepOrder
<1>8. ReplacementsInPlace
  BY <1>4 DEF ReplacementsInPlace
<1>9. /\ entry[e].pin \in {None, p} /\ Schedulable(p, copied, automatic, {})
      /\ Compatible(entry[e].slice, p, automatic, entry[e].policy = "manual" /\ ~automatic /\ acknowledged)
      /\ Relevant(p, s) /\ Usable(entry[e].slice, s)
      /\ Enough(s, need)
      /\ automatic => spool[s].at = p
  BY <1>2, Zenon DEF CheckAssignment
<1>10. /\ ~printer[p].archived /\ copied # "offline" /\ ~HasJob(p) /\ ~printer[p].foreign
       /\ copied # "printing" /\ (automatic => copied = "ready")
  <2> HIDE DEF copied
  <2> QED  BY <1>9 DEF Schedulable
<1>11. copied \in {"ready", "stale"}
  <2>1. copied \in Statuses
    BY DEF TypesHold, EvaluatorTyped, AskedTyped, Copied
  <2> HIDE DEF copied
  <2> QED  BY <1>10, <2>1 DEF Statuses
<1>12. /\ last'.by = IF automatic THEN "evaluator" ELSE "operator"
       /\ Copied(last'.by, p) = copied /\ (~automatic => asked.printer = p)
  BY DEF Assigns, By
<1> HIDE DEF copied
<1>13. {x \in Entries : entry'[x].state = "assigned" /\ entry'[x].printer = p} = {e}
  BY <1>1, <1>10 DEF HasJob
<1>14. Reserved(s)' <= spool[s].mg
  <2> DEFINE S == Holders(s)
             f == [x \in S \cup {e} |-> Estimate[entry'[x].slice]]
             k == [x \in S |-> Estimate[entry[x].slice]]
  <2>1. S \in SUBSET Entries /\ IsFiniteSet(S) /\ e \notin S
    <3>1. S \in SUBSET Entries /\ e \notin S
      BY <1>2 DEF Holders
    <3> QED  BY <3>1, OpenCounts, FS_Subset
  <2>2. Holders(s)' = S \cup {e}
    BY <1>1, <1>2 DEF Holders
  <2>3. \A x \in S \cup {e} : entry[x].slice \in Slices /\ entry'[x].slice = entry[x].slice
    BY <1>1, <1>2, <2>1 DEF Holders, TypesHold, RowsTyped
  <2>4. \A sl \in Slices : Estimate[sl] \in Nat
    BY QueueAssumption
  <2>5. f \in [S \cup {e} -> Nat] /\ k \in [S -> Nat] /\ \A x \in S : k[x] = f[x]
    BY <2>3, <2>4
  <2>6. f[e] = need
    BY <2>3
  <2>7. SumFunction(f) = Reserved(s)'
    <3>1. Reserved(s)' = SumFunction([x \in Holders(s)' |-> Estimate[entry'[x].slice]])
      BY Zenon DEF Reserved
    <3> QED  BY <2>2, <3>1, Zenon DEF f
  <2>8. SumFunction(k) = Reserved(s)
    BY Zenon DEF Reserved, k
  <2> HIDE DEF f, k, S
  <2>9. SumFunction(f) = SumFunction(k) + f[e]
    BY <2>1, <2>5, SumWithOneMore
  <2>10. spool[s].mg >= Reserved(s) + need
    BY <1>9, Zenon DEF Enough
  <2> QED  BY <2>6, <2>7, <2>8, <2>9, <2>10
<1>15. spool[s].active /\ spool[s].at \in {p, Storage}
  BY <1>9 DEF Relevant, Usable
<1>16. automatic => entry[e].slice \notin Absent
  BY <1>9 DEF Compatible
<1>17. SoundAssignment
  <2> SUFFICES ASSUME NEW x \in Entries, NEW q \in Printers, NEW t \in Spools,
                      entry[x].state = "queued", entry'[x].state = "assigned",
                      q = entry'[x].printer, t = entry'[x].spool
               PROVE  /\ {y \in Entries : entry'[y].state = "assigned" /\ entry'[y].printer = q} = {x}
                      /\ Reserved(t)' <= spool[t].mg /\ spool[t].active /\ spool[t].at \in {q, Storage}
                      /\ ~printer[q].archived /\ ~printer[q].foreign
                      /\ Copied(last'.by, q) \in IF last'.by = "evaluator" THEN {"ready"} ELSE {"ready", "stale"}
                      /\ last'.by = "evaluator" => spool[t].at = q /\ entry[x].slice \notin Absent
                      /\ last'.by = "operator" => asked.printer = q
                      /\ entry[x].pin \in {None, q}
    BY Zenon DEF SoundAssignment
  <2>1. x = e /\ q = p /\ t = s
    BY <1>1
  <2>2. last'.by = "evaluator" <=> automatic
    BY <1>12
  <2> QED  BY <1>9, <1>10, <1>11, <1>12, <1>13, <1>14, <1>15, <1>16, <2>1, <2>2
<1> QED  BY <1>3, <1>6, <1>7, <1>8, <1>17

LEMMA RowsHold ==
  ASSUME TypesHold, Ordered, [Next]_vars
  PROVE  RowsTyped' /\ Ordered' /\ OthersKeepOrder /\ ReplacementsInPlace /\ SoundAssignment
<1>1. RowsStep
  BY EveryRowsStep
<1>2. RowsTyped
  BY DEF TypesHold
<1>3. CASE Keeps
  BY <1>2, <1>3, KeepsPlaces, NoneAssignedSound
<1>4. ASSUME NEW k \in Entries, NEW row \in Row, Takes(k, row)
      PROVE  RowsTyped' /\ Ordered' /\ OthersKeepOrder /\ ReplacementsInPlace /\ SoundAssignment
  BY <1>2, <1>4, TakesLast, NoneAssignedSound
<1>5. ASSUME NEW e \in Entries, NEW k \in Entries, NEW row \in Row, Replaces(e, k, row)
      PROVE  RowsTyped' /\ Ordered' /\ OthersKeepOrder /\ ReplacementsInPlace /\ SoundAssignment
  BY <1>2, <1>5, ReplacesInPlace, NoneAssignedSound
<1>6. ASSUME NEW e \in Open, NEW to \in 1..Cardinality(Open), Moves(e, to)
      PROVE  RowsTyped' /\ Ordered' /\ OthersKeepOrder /\ ReplacementsInPlace /\ SoundAssignment
  BY <1>2, <1>6, MovesInOrder, NoneAssignedSound
<1>7. ASSUME NEW e \in Open, NEW end \in {"removed", "ended"}, Leaves(e, end)
      PROVE  RowsTyped' /\ Ordered' /\ OthersKeepOrder /\ ReplacementsInPlace /\ SoundAssignment
  BY <1>2, <1>7, LeavesInOrder, NoneAssignedSound
<1>8. ASSUME NEW e \in Entries, NEW p \in Printers, NEW s \in Spools, NEW automatic \in BOOLEAN,
             NEW acknowledged \in BOOLEAN, Assigns(e, p, s, automatic, acknowledged)
      PROVE  RowsTyped' /\ Ordered' /\ OthersKeepOrder /\ ReplacementsInPlace /\ SoundAssignment
  BY <1>8, AssignsSoundly
<1> QED  BY <1>1, <1>3, <1>4, <1>5, <1>6, <1>7, <1>8, Zenon DEF RowsStep

LEMMA FactsHold == ASSUME TypesHold, [Next]_vars  PROVE FactsTyped'
<1> USE DEF TypesHold, FactsTyped
<1>1. ASSUME UNCHANGED <<printer, spool>>  PROVE FactsTyped'
  BY <1>1
<1>2. ASSUME NEW e \in Entries, NEW used \in {0} \cup Range(Estimate), JobEnds(e, used)  PROVE FactsTyped'
  <2> DEFINE s == entry[e].spool
             left == IF spool[s].mg < used THEN 0 ELSE spool[s].mg - used
  <2>1. s \in Spools /\ entry[e].slice \in Slices /\ used \in {0, Estimate[entry[e].slice]}
    BY <1>2 DEF JobEnds, RowsTyped
  <2>2. used \in Nat
    BY <2>1, QueueAssumption
  <2>3. spool[s] \in [at : Printers \cup {Storage}, mg : Nat, active : BOOLEAN]
    BY <2>1
  <2>4. spool' = [spool EXCEPT ![s] = [spool[s] EXCEPT !.mg = left]] /\ UNCHANGED printer
    BY <1>2 DEF JobEnds
  <2>5. left \in Nat
    BY <2>2, <2>3
  <2> HIDE DEF left, s
  <2>6. [spool[s] EXCEPT !.mg = left] \in [at : Printers \cup {Storage}, mg : Nat, active : BOOLEAN]
    BY <2>3, <2>5
  <2> QED  BY <2>1, <2>4, <2>6
<1>3. ASSUME NEW p \in Printers, NEW status \in Statuses, StatusChanges(p, status)  PROVE FactsTyped'
  BY <1>3 DEF StatusChanges
<1>4. ASSUME NEW p \in Printers, ForeignOperation(p)  PROVE FactsTyped'
  BY <1>4 DEF ForeignOperation
<1>5. ASSUME NEW p \in Printers, ArchivePrinter(p)  PROVE FactsTyped'
  <2> DEFINE r1 == [printer[p] EXCEPT !.archived = ~printer[p].archived]
             r2 == [r1 EXCEPT !.status = "offline"]
  <2>1. r1 \in [archived : BOOLEAN, status : Statuses, foreign : BOOLEAN]
    OBVIOUS
  <2>2. printer' = [printer EXCEPT ![p] = r2]
    BY <1>5 DEF ArchivePrinter
  <2> HIDE DEF r1
  <2>3. r2 \in [archived : BOOLEAN, status : Statuses, foreign : BOOLEAN]
    BY <2>1 DEF Statuses
  <2> HIDE DEF r2
  <2>4. printer' \in [Printers -> [archived : BOOLEAN, status : Statuses, foreign : BOOLEAN]]
    BY <2>2, <2>3
  <2>5. \A s \in Spools : [spool[s] EXCEPT !.at = Storage] \in [at : Printers \cup {Storage}, mg : Nat, active : BOOLEAN]
    OBVIOUS
  <2>6. spool' = [s \in Spools |-> IF spool[s].at = p THEN [spool[s] EXCEPT !.at = Storage] ELSE spool[s]]
    BY <1>5 DEF ArchivePrinter
  <2>7. spool' \in [Spools -> [at : Printers \cup {Storage}, mg : Nat, active : BOOLEAN]]
    BY <2>5, <2>6
  <2> QED  BY <2>4, <2>7
<1>6. ASSUME NEW s \in Spools, NEW at \in Printers \cup {Storage}, NEW mg \in 0..MaxMg, NEW active \in BOOLEAN,
             SpoolChanges(s, [at |-> at, mg |-> mg, active |-> active])
      PROVE  FactsTyped'
  BY <1>6, QueueAssumption DEF SpoolChanges
<1>7. ASSUME Evaluator \/ Asking \/ Deliver \/ RunFails \/ Restart \/ UNCHANGED vars  PROVE UNCHANGED <<printer, spool>>
  BY <1>7 DEF Evaluator, Inside, rows, vars, ReadStatuses, Subscribe, GatesOpen, Take, Drain, LookAround, Pass, LookAgain,
              StatusTrigger, Asking, AskToAssign, RefuseToAssign,
              AssignProposal, Deliver, RunFails, Restart
<1>8. ASSUME Operator  PROVE UNCHANGED <<printer, spool>> \/ \E e \in Entries : \E used \in {0} \cup Range(Estimate) : JobEnds(e, used)
  BY <1>8 DEF Operator, AddToQueue, UpdateQueueEntry, MoveQueueEntry, RemoveQueueEntry, ReleaseJob, RetryJob,
              AssignQueueEntry, Queueing
<1> HIDE DEF TypesHold, FactsTyped
<1> QED  BY <1>1, <1>2, <1>3, <1>4, <1>5, <1>6, <1>7, <1>8 DEF Next, World

Turns == [pc : Pcs, claimed : SUBSET Printers, refused : SUBSET Entries, pick : Picks \cup {<<>>},
          repoked : BOOLEAN, shown : [Printers -> Statuses]]

LEMMA EndRunIs ==
  ASSUME ev \in Turns, NEW needed \in BOOLEAN, EndRun(needed)
  PROVE  /\ ev' \in Turns /\ ev'.pc = "idle" /\ ev'.repoked = needed /\ ev'.claimed = {} /\ ev'.refused = {}
<1> DEFINE t1 == [Off EXCEPT !.pc = "idle"]
           t2 == [t1 EXCEPT !.repoked = needed]
<1>1. Off \in Turns /\ Off.claimed = {} /\ Off.refused = {}
  BY DEF Off, Turns, Pcs, Statuses
<1>2. ev' = t2
  BY <1>1 DEF EndRun, Turns
<1>3. t1 \in Turns /\ t1.pc = "idle" /\ t1.claimed = {} /\ t1.refused = {}
  BY <1>1 DEF Turns, Pcs
<1> HIDE DEF t1
<1>4. t2 \in Turns /\ t2.pc = "idle" /\ t2.repoked = needed /\ t2.claimed = {} /\ t2.refused = {}
  BY <1>3 DEF Turns
<1> QED  BY <1>2, <1>4

LEMMA TakeIs ==
  ASSUME ev \in Turns, Take
  PROVE  ev' \in Turns /\ ev'.pc = "draining" /\ ev'.claimed = {} /\ ev'.refused = {} /\ ev'.repoked = ev.repoked
<1> DEFINE t1 == [ev EXCEPT !.pc = "draining"]
           t2 == [t1 EXCEPT !.claimed = {}]
           t3 == [t2 EXCEPT !.refused = {}]
<1>1. ev' = t3
  BY DEF Take, Turns
<1>2. t1 \in Turns /\ t1.pc = "draining" /\ t1.repoked = ev.repoked
  BY DEF Turns, Pcs
<1> HIDE DEF t1
<1>3. t2 \in Turns /\ t2.pc = "draining" /\ t2.repoked = ev.repoked /\ t2.claimed = {}
  BY <1>2 DEF Turns
<1> HIDE DEF t2
<1>4. t3 \in Turns /\ t3.pc = "draining" /\ t3.repoked = ev.repoked /\ t3.claimed = {} /\ t3.refused = {}
  BY <1>3 DEF Turns
<1> QED  BY <1>1, <1>4

\* Copying the statuses, before a pass and before an assignment.
LEMMA LookIs ==
  ASSUME TypesHold, LookAround \/ LookAgain
  PROVE  /\ ev' \in Turns /\ ev'.shown = LiveWorld /\ ev'.pick = ev.pick
         /\ ev'.claimed = ev.claimed /\ ev'.refused = ev.refused /\ ev'.repoked = ev.repoked
         /\ \/ ev.pc = "reading" /\ ev'.pc = "passing"
            \/ ev.pc = "assigning" /\ ev'.pc = "committing"
         /\ UNCHANGED <<rows, last, asked, budget, chan, due, heard, seen, strikes>>
<1>1. PICK pc \in {"passing", "committing"} : /\ ev' = [ev EXCEPT !.pc = pc, !.shown = LiveWorld]
                                               /\ ev.pc = IF pc = "passing" THEN "reading" ELSE "assigning"
  BY DEF LookAround, LookAgain
<1>2. LiveWorld \in [Printers -> Statuses]
  BY DEF LiveWorld, TypesHold, FactsTyped
<1> DEFINE t1 == [ev EXCEPT !.pc = pc]
           t2 == [t1 EXCEPT !.shown = LiveWorld]
<1>3. ev' = t2 /\ ev \in Turns
  BY <1>1 DEF TypesHold, EvaluatorTyped, Turns
<1>4. /\ t1 \in Turns /\ t1.pc = pc /\ t1.claimed = ev.claimed /\ t1.refused = ev.refused
      /\ t1.repoked = ev.repoked /\ t1.pick = ev.pick
  BY <1>3 DEF Turns, Pcs
<1> HIDE DEF t1
<1>5. /\ t2 \in Turns /\ t2.pc = pc /\ t2.claimed = ev.claimed /\ t2.refused = ev.refused
      /\ t2.repoked = ev.repoked /\ t2.pick = ev.pick /\ t2.shown = LiveWorld
  BY <1>2, <1>4 DEF Turns
<1> QED  BY <1>1, <1>3, <1>5 DEF LookAround, LookAgain, Inside

\* A pass ends its run, or picks a Printer and a Spool for one entry.
LEMMA PassIs ==
  ASSUME ev \in Turns, Pass
  PROVE  /\ ev.pc = "passing"
         /\ \/ Proposals = {} /\ EndRun(ev.refused # {})
            \/ /\ ev' \in Turns /\ ev'.pc = "assigning" /\ ev'.pick \in Picks /\ UNCHANGED <<chan, strikes>>
               /\ ev'.claimed = ev.claimed /\ ev'.refused = ev.refused /\ ev'.repoked = ev.repoked
               /\ Proposals # {}
<1>1. CASE Proposals = {}
  BY <1>1 DEF Pass
<1>2. CASE Proposals # {}
  <2>1. PICK pick \in Proposals : ev' = [ev EXCEPT !.pc = "assigning", !.pick = pick]
    BY <1>2 DEF Pass
  <2>2. pick \in Picks
    BY DEF Proposals, Proposable, Queued, Picks
  <2> DEFINE t1 == [ev EXCEPT !.pc = "assigning"]
             t2 == [t1 EXCEPT !.pick = pick]
  <2>3. ev' = t2
    BY <2>1 DEF Turns
  <2>4. t1 \in Turns /\ t1.pc = "assigning" /\ t1.claimed = ev.claimed /\ t1.refused = ev.refused /\ t1.repoked = ev.repoked
    BY DEF Turns, Pcs
  <2> HIDE DEF t1
  <2>5. /\ t2 \in Turns /\ t2.pc = "assigning" /\ t2.claimed = ev.claimed /\ t2.refused = ev.refused
        /\ t2.repoked = ev.repoked /\ t2.pick \in Picks
    BY <2>2, <2>4 DEF Turns
  <2> QED  BY <1>2, <2>3, <2>5 DEF Pass
<1>3. ev.pc = "passing"
  BY DEF Pass
<1> QED  BY <1>1, <1>2, <1>3

LEMMA AssignProposalIs ==
  ASSUME TypesHold, AssignProposal
  PROVE  /\ ev.pc = "committing" /\ ev' \in Turns /\ ev'.pc = "reading" /\ ev'.repoked = ev.repoked
         /\ UNCHANGED <<chan, heard, seen, strikes>>
         /\ \/ due' = TRUE
            \/ ev'.claimed = ev.claimed /\ UNCHANGED <<entry, printer, spool, due>>
<1> DEFINE e == ev.pick[1]
           p == ev.pick[2]
           s == ev.pick[3]
           t1 == [ev EXCEPT !.pc = "reading"]
           next == [t1 EXCEPT !.pick = <<>>]
<1>1. ev \in Turns /\ e \in Entries /\ p \in Printers
  BY DEF TypesHold, EvaluatorTyped, AssignProposal, Picks, Turns
<1>2. [ev EXCEPT !.pc = "reading", !.pick = <<>>] = next
  BY <1>1 DEF Turns
<1> HIDE DEF e, p, s
<1>3. t1 \in Turns /\ t1.pc = "reading" /\ t1.repoked = ev.repoked /\ t1.claimed = ev.claimed
  BY <1>1 DEF Turns, Pcs
<1> HIDE DEF t1
<1>4. next \in Turns /\ next.pc = "reading" /\ next.repoked = ev.repoked /\ next.claimed = ev.claimed
  BY <1>3 DEF Turns
<1> HIDE DEF next
<1>5. ev.pc = "committing" /\ UNCHANGED <<printer, spool, chan, heard, seen, strikes>>
  BY DEF AssignProposal
<1>6. CASE Assignable(e, p, s, ev.shown[p], TRUE, FALSE)
  <2>1. ev' = [next EXCEPT !.claimed = next.claimed \cup {p}] /\ due' = TRUE
    BY <1>2, <1>6 DEF AssignProposal, e, p, s
  <2>2. ev' \in Turns /\ ev'.pc = "reading" /\ ev'.repoked = ev.repoked
    BY <1>1, <1>4, <2>1 DEF Turns
  <2> QED  BY <1>5, <2>1, <2>2
<1>7. CASE ~Assignable(e, p, s, ev.shown[p], TRUE, FALSE)
  <2>1. /\ ev' = IF entry[e].state = "queued" THEN [next EXCEPT !.refused = next.refused \cup {e}] ELSE next
        /\ UNCHANGED <<entry, due>>
    BY <1>2, <1>7 DEF AssignProposal, e, p, s
  <2>2. ev' \in Turns /\ ev'.pc = "reading" /\ ev'.repoked = ev.repoked /\ ev'.claimed = ev.claimed
    BY <1>1, <1>4, <2>1 DEF Turns
  <2> QED  BY <1>5, <2>1, <2>2
<1> QED  BY <1>6, <1>7

LEMMA EvaluatorHolds == ASSUME TypesHold, [Next]_vars  PROVE EvaluatorTyped'
<1>1. ev \in Turns
  BY DEF TypesHold, EvaluatorTyped, Turns
<1>2. ASSUME ev' \in Turns, ev'.pc \notin {"assigning", "committing"} \/ ev'.pick \in Picks  PROVE EvaluatorTyped'
  BY <1>2 DEF EvaluatorTyped, Turns
<1>3. CASE ev' = ev
  BY <1>3 DEF TypesHold, EvaluatorTyped
<1>4. ASSUME Operator \/ Asking \/ World \/ Deliver \/ UNCHANGED vars \/ (\E p \in Printers : StatusTrigger(p))
      PROVE  ev' = ev
  BY <1>4 DEF Asking, AskToAssign, RefuseToAssign, Operator, AddToQueue, UpdateQueueEntry, MoveQueueEntry, RemoveQueueEntry, ReleaseJob, RetryJob, JobEnds,
              AssignQueueEntry, Queueing, Command, Quiet, World, StatusChanges, ForeignOperation, ArchivePrinter,
              SpoolChanges, Elsewhere, Deliver, vars, StatusTrigger
<1>5. CASE ReadStatuses \/ Subscribe \/ GatesOpen \/ Drain
  <2>1. PICK pc \in {"subscribing", "gated", "idle", "reading"} : ev' = [ev EXCEPT !.pc = pc]
    BY <1>5 DEF ReadStatuses, Subscribe, GatesOpen, Drain
  <2>2. ev' \in Turns /\ ev'.pc = pc
    BY <1>1, <2>1 DEF Turns, Pcs
  <2> QED  BY <1>2, <2>2
<1>6. CASE Take
  BY <1>1, <1>2, <1>6, TakeIs
<1>7. CASE Pass
  <2>1. (ev.refused # {}) \in BOOLEAN
    OBVIOUS
  <2> QED  BY <1>1, <1>2, <1>7, <2>1, PassIs, EndRunIs
<1>8. CASE AssignProposal
  BY <1>2, <1>8, AssignProposalIs
<1>9. CASE RunFails
  <2>1. EndRun(TRUE)
    BY <1>9 DEF RunFails
  <2> QED  BY <1>1, <1>2, <2>1, EndRunIs
<1>10. CASE Restart
  BY <1>2, <1>10 DEF Restart, Off, Turns, Pcs, Statuses
<1>11. CASE LookAround \/ LookAgain
  <2>1. ev.pc = "assigning" => ev.pick \in Picks
    BY DEF TypesHold, EvaluatorTyped
  <2> QED  BY <1>2, <1>11, <2>1, LookIs
<1> QED  BY <1>3, <1>4, <1>5, <1>6, <1>7, <1>8, <1>9, <1>10, <1>11 DEF Next, Evaluator

LEMMA AskedHolds == ASSUME TypesHold, [Next]_vars  PROVE AskedTyped'
<1> USE DEF AskedTyped
<1>1. Nobody \in [printer : Printers \cup {None}, status : Statuses]
  BY DEF Nobody, Statuses
<1>2. CASE asked' = asked \/ asked' = Nobody
  BY <1>1, <1>2 DEF TypesHold
<1>3. ASSUME NEW p \in Printers, AskToAssign(p)  PROVE AskedTyped'
  BY <1>3 DEF AskToAssign, LiveWorld, TypesHold, FactsTyped
<1>4. ASSUME Operator  PROVE asked' = asked \/ asked' = Nobody
  BY <1>4 DEF Operator, AddToQueue, UpdateQueueEntry, MoveQueueEntry, RemoveQueueEntry, ReleaseJob, RetryJob, JobEnds,
              AssignQueueEntry, Queueing, Command
<1>5. ASSUME RefuseToAssign \/ World \/ Evaluator \/ Deliver \/ RunFails \/ Restart \/ UNCHANGED vars
      PROVE  asked' = asked \/ asked' = Nobody
  BY <1>5 DEF RefuseToAssign, World, StatusChanges, ForeignOperation, ArchivePrinter, SpoolChanges, Elsewhere, Command,
              Evaluator, ReadStatuses, Subscribe, GatesOpen, Take, Drain, LookAround, Pass, LookAgain, AssignProposal,
              StatusTrigger, Inside, Deliver, RunFails, Restart, vars
<1> QED  BY <1>2, <1>3, <1>4, <1>5, Zenon DEF Next, Asking

\* What PositionsDense rests on.
QueueInv == TypesHold /\ Ordered

LEMMA QueueInvInit == ASSUME Init  PROVE QueueInv
<1>1. NoEntry \in Row
  BY DEF NoEntry, Row, Policies
<1>2. RowsTyped
  BY <1>1 DEF Init, RowsTyped, NoEntry
<1>3. EvaluatorTyped
  BY DEF Init, EvaluatorTyped, Off, Pcs, Statuses
<1>4. FactsTyped
  <2>1. printer \in [Printers -> [archived : BOOLEAN, status : Statuses, foreign : BOOLEAN]]
    BY DEF Init, Statuses
  <2>2. \A s \in Spools : spool[s] \in [at : Printers \cup {Storage}, mg : Nat, active : BOOLEAN]
    BY QueueAssumption DEF Init
  <2>3. spool = [s \in Spools |-> spool[s]]
    BY DEF Init
  <2> QED  BY <2>1, <2>2, <2>3 DEF FactsTyped
<1>5. Ordered
  <2>1. Open = {}
    BY DEF Init, NoEntry, Open
  <2>2. Cardinality(Open) = 0
    BY <2>1, FS_EmptySet
  <2> QED  BY <2>1, <2>2 DEF Ordered, InOrder
<1>6. AskedTyped
  BY DEF Init, Nobody, AskedTyped, Statuses
<1> QED  BY <1>2, <1>3, <1>4, <1>5, <1>6 DEF QueueInv, TypesHold

LEMMA QueueInvStep == ASSUME QueueInv, [Next]_vars  PROVE QueueInv'
<1>1. TypesHold /\ Ordered
  BY DEF QueueInv
<1> QED  BY <1>1, RowsHold, FactsHold, EvaluatorHolds, AskedHolds DEF QueueInv, TypesHold

\* In every behaviour the rows are typed and the open entries hold the places 1..n, each one
\* place (queue/repository.rs: apply, move_entry, close_and_renumber, create_linked).
THEOREM QueueOrdered == Spec => []QueueInv
BY QueueInvInit, QueueInvStep, PTL DEF Spec

\* The open entries are numbered 1..n and no move or close that may come next meets the UNIQUE
\* constraint half way: parking by 1 000 000 keeps every statement clear of the others' places
\* (queue/repository.rs: shift_range, move_entry, close_and_renumber), whatever the number of
\* entries up to the parking offset.
THEOREM QueuePositionsDense == Spec => []PositionsDense
<1>1. ASSUME QueueInv  PROVE PositionsDense
  <2>1. RowsTyped /\ Ordered
    BY <1>1 DEF QueueInv, TypesHold
  <2>2. {entry[e].pos : e \in Open} = 1..Cardinality(Open)
    <3>1. \A x \in Open : entry[x].pos \in 1..Cardinality(Open)
      BY <2>1, PlacesAre, OpenCounts
    <3>2. \A k \in 1..Cardinality(Open) : \E x \in Open : entry[x].pos = k
      BY <2>1, PlacesAre
    <3> QED  BY <3>1, <3>2
  <2>3. ASSUME NEW e \in Open, NEW to \in 1..Cardinality(Open)  PROVE ~StepsCollide(Positions, MoveSteps(e, to))
    BY <2>1, MoveShifts, Zenon
  <2>4. ASSUME NEW e \in Open  PROVE ~StepsCollide([x \in Open \ {e} |-> entry[x].pos], CloseSteps(e))
    BY <2>1, CloseShifts, Zenon
  <2> QED  BY <2>2, <2>3, <2>4 DEF PositionsDense
<1>2. QueueInv => PositionsDense
  BY <1>1
<1> QED  BY <1>2, QueueOrdered, PTL

\* A command changes the place of at most one entry, and a released entry's replacement
\* stands where it stood (queue/repository.rs: move_entry, close_and_renumber, create_linked).
THEOREM QueueOrderKept == Spec => OrderKept
<1>1. ASSUME QueueInv, [Next]_vars  PROVE OthersKeepOrder /\ ReplacementsInPlace
  BY <1>1, RowsHold DEF QueueInv
<1>2. QueueInv /\ [Next]_vars =>
        [/\ \E m \in Entries : \A x, y \in (Open \cap Open') \ {m} :
                entry[x].pos < entry[y].pos => entry'[x].pos < entry'[y].pos
         /\ \A x \in Open' \ Open : entry'[x].origin # 0 /\ entry'[entry'[x].origin].end = "released" =>
                \A y \in Open \cap Open' :
                   entry[entry'[x].origin].pos < entry[y].pos <=> entry'[x].pos < entry'[y].pos]_vars
  BY <1>1 DEF OthersKeepOrder, ReplacementsInPlace
<1> QED  BY <1>2, QueueOrdered, PTL DEF Spec, OrderKept

\* An assignment, by the operator or by the evaluator on whatever it read before, leaves its
\* Printer, not archived and free of writes of its own as the transaction reads the rows, with
\* one active Job; reserves no more of its Spool than is there; and rests on a status, copied
\* under the Printer's lock before the transaction, in which the Printer can be scheduled: for
\* any estimates and any set of Slices, Printers and Spools (jobs/assign.rs: assign;
\* queue/world.rs: LiveWorld, World::read; queue/eligibility.rs: check_assignment).
THEOREM QueueAssignedSoundly == Spec => AssignedSoundly
<1>1. ASSUME QueueInv, [Next]_vars  PROVE SoundAssignment
  BY <1>1, RowsHold DEF QueueInv
<1>2. QueueInv /\ [Next]_vars => [SoundAssignment]_vars
  BY <1>1
<1>3. AssignedSoundly <=> [][SoundAssignment]_vars
  BY Zenon DEF AssignedSoundly, SoundAssignment
<1> QED  BY <1>2, <1>3, QueueOrdered, PTL DEF Spec

\* What evaluate offers passes every gate of check_assignment, in any state: the two read the
\* same facts and differ in no condition (queue/eligibility.rs: evaluate_printer,
\* check_assignment).
THEOREM QueueOffersHold == Spec => []OffersHold
<1>1. ASSUME NEW e \in Queued, NEW p \in Candidates(e, LiveWorld, {}), NEW s \in Options(e, p)
      PROVE  /\ CheckAssignment(e, p, s, LiveWorld[p], FALSE, TRUE)
             /\ entry[e].policy = "automatic" => CheckAssignment(e, p, s, LiveWorld[p], TRUE, FALSE)
  <2> DEFINE automatic == entry[e].policy = "automatic"
             tolerant == entry[e].policy = "manual"
  <2>1. /\ entry[e].pin \in {None, p} /\ Schedulable(p, LiveWorld[p], automatic, {})
        /\ Compatible(entry[e].slice, p, automatic, tolerant)
    BY DEF Candidates
  <2>2. /\ Relevant(p, s) /\ Usable(entry[e].slice, s) /\ Enough(s, Estimate[entry[e].slice])
        /\ automatic => spool[s].at = p
    BY DEF Options
  <2>3. Schedulable(p, LiveWorld[p], FALSE, {}) /\ (automatic => Schedulable(p, LiveWorld[p], TRUE, {}))
    BY <2>1 DEF Schedulable
  <2>4. /\ Compatible(entry[e].slice, p, FALSE, tolerant /\ ~FALSE /\ TRUE)
        /\ automatic => Compatible(entry[e].slice, p, TRUE, tolerant /\ ~TRUE /\ FALSE)
    BY <2>1 DEF Compatible
  <2> QED  BY <2>1, <2>2, <2>3, <2>4 DEF CheckAssignment
<1>2. OffersHold
  BY <1>1, Zenon DEF OffersHold
<1> QED  BY <1>2, PTL

(***************************************************************************)
(* No entry is stranded.                                                   *)
(***************************************************************************)
\* The turns of the task: it has claims only while it runs, with a poke on its way for each; it
\* starts with a trigger waiting; a run that asked for another is on record.
TurnsSound ==
    /\ chan \in {0, 1} /\ strikes \in 0..2 /\ (ev.repoked => strikes >= 1)
    /\ ev.pc = "gated" => chan = 1
    /\ ev.claimed # {} => ev.pc \in {"reading", "passing", "assigning", "committing"} /\ (due \/ chan = 1)
\* The facts of the pump: it has yet to hear exactly of the Printers whose status is not the one
\* it compares with, or that have just come back.
PumpSound ==
    /\ heard \subseteq Printers /\ seen \in [Printers -> Statuses]
    /\ ev.pc \in {"off", "subscribing"} => heard = {}
    /\ ev.pc # "off" => \A p \in Printers :
         /\ p \notin heard /\ ~printer[p].archived => seen[p] = printer[p].status
         /\ p \in heard => seen[p] # printer[p].status \/ printer[p].status = "offline"
\* With nothing on its way, an Automatic entry has candidates only where a status is unheard.
Waits == \A e \in Queued : entry[e].policy = "automatic" => Candidates(e, LiveWorld, {}) \subseteq heard
\* With nothing on its way to wake another run, a pass has the present status of every Printer
\* whose status is not unheard, but for the offline ones.
ShownSound == ev.pc = "passing" /\ chan = 0 /\ ~due =>
    \A p \in Printers : p \notin heard => ev.shown[p] = printer[p].status \/ printer[p].status = "offline"
Woken == ev.pc = "idle" /\ chan = 0 /\ ~due /\ strikes < 2 => Waits
WakeInv == TurnsSound /\ PumpSound /\ ShownSound /\ Woken

LEMMA NoneProposable ==
  ASSUME RowsTyped, Proposals = {}
  PROVE  Proposable = {}
<1> SUFFICES ASSUME Proposable # {}  PROVE FALSE
  OBVIOUS
<1> DEFINE places == {entry[x].pos : x \in Proposable}
<1>1. Proposable \subseteq Entries
  BY DEF Proposable, Queued
<1>2. places \subseteq Nat /\ places # {}
  BY <1>1, RowOf
<1>3. PICK m \in places : \A y \in places : m <= y
  <2> HIDE DEF places
  <2> QED  BY <1>2, Smallest
<1>4. PICK e \in Proposable : entry[e].pos = m
  BY <1>3
<1>5. \A x \in Proposable : entry[e].pos <= entry[x].pos
  BY <1>3, <1>4
<1>6. PICK p \in Printers : p \in Offered(e)
  BY <1>4 DEF Proposable, Offered, Candidates
<1>7. PICK s \in Spools : s \in Options(e, p)
  BY <1>6 DEF Offered, Candidates, Options
<1> DEFINE pick == <<e, p, s>>
<1>8. pick \in Proposable \X Printers \X Spools /\ pick[1] = e /\ pick[2] = p /\ pick[3] = s
  OBVIOUS
<1> HIDE DEF pick
<1>9. pick \in Proposals
  BY <1>5, <1>6, <1>7, <1>8 DEF Proposals
<1> QED  BY <1>9

\* The candidates other than p are the same when no other Printer, no entry and no Spool changes.
LEMMA OthersOffered ==
  ASSUME NEW p, UNCHANGED <<entry, spool>>, \A q \in Printers : q # p => printer'[q] = printer[q], NEW e \in Entries
  PROVE  \A q \in Printers : q # p => (q \in Candidates(e, LiveWorld, {})' <=> q \in Candidates(e, LiveWorld, {}))
<1> SUFFICES ASSUME NEW q \in Printers, q # p  PROVE q \in Candidates(e, LiveWorld, {})' <=> q \in Candidates(e, LiveWorld, {})
  OBVIOUS
<1>1. printer'[q] = printer[q] /\ entry' = entry /\ spool' = spool
  OBVIOUS
<1>2. Options(e, q)' = Options(e, q)
  BY <1>1 DEF Options, Relevant, Usable, Enough, Reserved, Holders
<1>3. LiveWorld'[q] = LiveWorld[q]
  BY <1>1 DEF LiveWorld
<1>4. \A automatic \in BOOLEAN :
        Schedulable(q, LiveWorld[q], automatic, {})' <=> Schedulable(q, LiveWorld[q], automatic, {})
  BY <1>1, <1>3 DEF Schedulable, HasJob
<1> QED  BY <1>1, <1>2, <1>4 DEF Candidates, Compatible

LEMMA OfflineNotOffered ==
  ASSUME NEW p, NEW e, printer[p].status = "offline" \/ printer[p].foreign
  PROVE  p \notin Candidates(e, LiveWorld, {})
BY DEF Candidates, Schedulable, LiveWorld

\* The steps of the Queue that neither turn the evaluator nor touch what wakes it, but for a
\* change that is committed and not yet told.
LEMMA OperatorSteps ==
  ASSUME Operator
  PROVE  due' = TRUE /\ Quiet /\ UNCHANGED printer
BY DEF Operator, AddToQueue, UpdateQueueEntry, MoveQueueEntry, RemoveQueueEntry, ReleaseJob, RetryJob, JobEnds,
       AssignQueueEntry, Queueing, Command, PokeAfter, Quiet

LEMMA SpoolSteps ==
  ASSUME NEW s, NEW to, SpoolChanges(s, to)
  PROVE  due' = TRUE /\ Quiet /\ UNCHANGED printer
BY DEF SpoolChanges, Command, PokeAfter, Quiet

LEMMA RunEnds ==
  ASSUME TurnsSound, ev \in Turns, NEW needed \in BOOLEAN, EndRun(needed), due' = due
  PROVE  TurnsSound' /\ ev'.pc = "idle" /\ (needed => chan' = 1 \/ strikes' = 2) /\ (~needed => UNCHANGED chan)
<1>1. ev'.pc = "idle" /\ ev'.repoked = needed /\ ev'.claimed = {}
  BY EndRunIs
<1>2. /\ chan' = IF needed /\ ~ev.repoked THEN 1 ELSE chan
      /\ strikes' = IF needed THEN Min({strikes + 1, 2}) ELSE 0
  BY DEF EndRun
<1>3. strikes \in Nat => Min({strikes + 1, 2}) = IF strikes + 1 <= 2 THEN strikes + 1 ELSE 2
  <2> SUFFICES ASSUME strikes \in Nat  PROVE Min({strikes + 1, 2}) = IF strikes + 1 <= 2 THEN strikes + 1 ELSE 2
    OBVIOUS
  <2> DEFINE S == {strikes + 1, 2}
             m == IF strikes + 1 <= 2 THEN strikes + 1 ELSE 2
  <2>1. m \in S /\ \A y \in S : m <= y
    OBVIOUS
  <2>2. \A x \in S : (\A y \in S : x <= y) => x = m
    OBVIOUS
  <2>3. Min(S) = CHOOSE x \in S : \A y \in S : x <= y
    BY Zenon DEF Min
  <2> HIDE DEF S, m
  <2>4. Min(S) = m
    BY <2>1, <2>2, <2>3
  <2> QED  BY <2>4 DEF S, m
<1>4. strikes' \in 0..2 /\ (needed => strikes' >= 1)
  BY <1>2, <1>3 DEF TurnsSound
<1>5. needed /\ ev.repoked => strikes' = 2
  BY <1>2, <1>3 DEF TurnsSound
<1>6. chan' \in {0, 1}
  BY <1>2 DEF TurnsSound
<1> QED  BY <1>1, <1>2, <1>4, <1>5, <1>6 DEF TurnsSound

LEMMA TurnsStep ==
  ASSUME TypesHold, TurnsSound, [Next]_vars
  PROVE  TurnsSound'
<1>1. ev \in Turns
  BY DEF TypesHold, EvaluatorTyped, Turns
<1>2. ASSUME UNCHANGED <<chan, ev, strikes>>, due => due'  PROVE TurnsSound'
  BY <1>2 DEF TurnsSound
<1>3. CASE Operator
  BY <1>2, <1>3, OperatorSteps DEF Quiet
<1>4. CASE World
  BY <1>2, <1>4, SpoolSteps DEF World, StatusChanges, ForeignOperation, ArchivePrinter, Elsewhere, Quiet, PokeAfter
<1>5. ASSUME NEW p \in Printers, StatusTrigger(p)  PROVE TurnsSound'
  BY <1>2, <1>5 DEF StatusTrigger
<1>6. CASE Deliver
  BY <1>6 DEF Deliver, TurnsSound
<1>7. CASE UNCHANGED vars
  BY <1>2, <1>7 DEF vars
<1>8. CASE ReadStatuses
  BY <1>1, <1>8 DEF ReadStatuses, TurnsSound, Turns
<1>9. CASE Subscribe
  BY <1>1, <1>9 DEF Subscribe, TurnsSound, Turns
<1>10. CASE GatesOpen
  BY <1>1, <1>10 DEF GatesOpen, TurnsSound, Turns
<1>11. CASE Take
  <2>1. ev'.pc = "draining" /\ ev'.claimed = {} /\ ev'.repoked = ev.repoked
    BY <1>1, <1>11, TakeIs
  <2> QED  BY <1>11, <2>1 DEF Take, TurnsSound
<1>12. CASE Drain
  BY <1>1, <1>12 DEF Drain, TurnsSound, Turns
<1>13. CASE Pass
  <2>1. (ev.refused # {}) \in BOOLEAN /\ UNCHANGED due
    BY <1>13 DEF Pass
  <2>2. CASE EndRun(ev.refused # {})
    BY <1>1, <2>1, <2>2, RunEnds
  <2>3. CASE ~EndRun(ev.refused # {})
    <3>1. /\ ev'.pc = "assigning" /\ ev.pc = "passing" /\ UNCHANGED <<chan, strikes>>
          /\ ev'.claimed = ev.claimed /\ ev'.repoked = ev.repoked
      BY <1>1, <1>13, <2>3, PassIs
    <3> QED  BY <2>1, <3>1 DEF TurnsSound
  <2> QED  BY <2>2, <2>3
<1>14. CASE AssignProposal
  <2>1. /\ ev.pc = "committing" /\ ev'.pc = "reading" /\ ev'.repoked = ev.repoked /\ UNCHANGED <<chan, strikes>>
        /\ due' = TRUE \/ (ev'.claimed = ev.claimed /\ UNCHANGED due)
    BY <1>14, AssignProposalIs
  <2> QED  BY <2>1 DEF TurnsSound
<1>15. CASE RunFails
  BY <1>1, <1>15, RunEnds DEF RunFails
<1>17. CASE Asking
  BY <1>2, <1>17 DEF Asking, AskToAssign, RefuseToAssign, Quiet
<1>18. CASE LookAround \/ LookAgain
  BY <1>18, LookIs DEF TurnsSound
<1>16. CASE Restart
  BY <1>16 DEF Restart, Off, TurnsSound
<1> QED  BY <1>3, <1>4, <1>5, <1>6, <1>7, <1>8, <1>9, <1>10, <1>11, <1>12, <1>13, <1>14, <1>15, <1>16, <1>17, <1>18 DEF Next, Evaluator

LEMMA PumpStep ==
  ASSUME PumpKeepsUp, TypesHold, PumpSound, [Next]_vars
  PROVE  PumpSound'
<1>1. ev \in Turns /\ printer \in [Printers -> [archived : BOOLEAN, status : Statuses, foreign : BOOLEAN]]
  BY DEF TypesHold, EvaluatorTyped, FactsTyped, Turns
<1>2. ASSUME UNCHANGED <<heard, seen, printer, ev>>  PROVE PumpSound'
  BY <1>2 DEF PumpSound
<1>3. CASE Operator
  BY <1>2, <1>3, OperatorSteps DEF Quiet
<1>4. ASSUME NEW s, NEW to, SpoolChanges(s, to)  PROVE PumpSound'
  BY <1>2, <1>4, SpoolSteps DEF Quiet
<1>5. ASSUME NEW p \in Printers, NEW status \in Statuses, StatusChanges(p, status)  PROVE PumpSound'
  <2>1. /\ p \notin heard /\ ev.pc # "subscribing" /\ ~printer[p].archived /\ status # printer[p].status
        /\ UNCHANGED <<seen, ev>> /\ heard' = IF Ready THEN heard \cup {p} ELSE heard
        /\ \A q \in Printers : q # p => printer'[q] = printer[q]
        /\ printer'[p].status = status
    BY <1>1, <1>5 DEF StatusChanges, Elsewhere
  <2>2. CASE Ready
    <3>1. heard' = heard \cup {p} /\ ev.pc # "off"
      BY <2>1, <2>2 DEF Ready
    <3> QED  BY <2>1, <2>2, <3>1 DEF PumpSound, Ready
  <2>3. CASE ~Ready
    <3>1. heard' = heard /\ ev.pc = "off"
      BY <2>1, <2>3 DEF Ready
    <3> QED  BY <2>1, <3>1 DEF PumpSound
  <2> QED  BY <2>2, <2>3
<1>6. ASSUME NEW p \in Printers, ForeignOperation(p)  PROVE PumpSound'
  <2>1. /\ UNCHANGED <<heard, seen, ev>>
        /\ \A q \in Printers : printer'[q].status = printer[q].status /\ printer'[q].archived = printer[q].archived
    BY <1>1, <1>6 DEF ForeignOperation, Quiet
  <2> QED  BY <2>1 DEF PumpSound
<1>7. ASSUME NEW p \in Printers, ArchivePrinter(p)  PROVE PumpSound'
  <2>1. /\ p \notin heard /\ Ready /\ UNCHANGED <<seen, ev>>
        /\ heard' = IF printer[p].archived THEN heard \cup {p} ELSE heard
        /\ \A q \in Printers : q # p => printer'[q] = printer[q]
    BY <1>1, <1>7 DEF ArchivePrinter
  <2>2. printer'[p].status = "offline" /\ printer'[p].archived = ~printer[p].archived
    <3> DEFINE r1 == [printer[p] EXCEPT !.archived = ~printer[p].archived]
               r2 == [r1 EXCEPT !.status = "offline"]
    <3>1. printer' = [printer EXCEPT ![p] = r2]
      BY <1>7 DEF ArchivePrinter
    <3>2. r1 \in [archived : BOOLEAN, status : Statuses, foreign : BOOLEAN] /\ r1.archived = ~printer[p].archived
      BY <1>1
    <3> HIDE DEF r1
    <3>3. r2.status = "offline" /\ r2.archived = ~printer[p].archived
      BY <3>2
    <3> HIDE DEF r2
    <3> QED  BY <1>1, <3>1, <3>3
  <2>3. CASE printer[p].archived
    <3>1. heard' = heard \cup {p}
      BY <2>1, <2>3
    <3> QED  BY <2>1, <2>2, <3>1 DEF PumpSound, Ready
  <2>4. CASE ~printer[p].archived
    <3>1. heard' = heard
      BY <2>1, <2>4
    <3> QED  BY <2>1, <2>2, <2>4, <3>1 DEF PumpSound, Ready
  <2> QED  BY <2>3, <2>4
<1>8. ASSUME NEW p \in Printers, StatusTrigger(p)  PROVE PumpSound'
  <2>1. printer[p].status \in Statuses
    BY <1>1
  <2> QED  BY <1>8, <2>1 DEF StatusTrigger, Inside, rows, PumpSound
<1>9. CASE ReadStatuses
  <2>1. /\ seen' = [p \in Printers |-> printer[p].status] /\ ev'.pc = "subscribing" /\ ev.pc = "off"
        /\ UNCHANGED <<heard, printer>>
    BY <1>1, <1>9 DEF ReadStatuses, Inside, rows, Turns
  <2>2. heard = {}
    BY <2>1 DEF PumpSound
  <2> QED  BY <1>1, <2>1, <2>2 DEF PumpSound
<1>10. ASSUME ev.pc # "off", ev'.pc \notin {"off", "subscribing"}, UNCHANGED <<heard, seen, printer>>  PROVE PumpSound'
  BY <1>10 DEF PumpSound
<1>11. CASE Subscribe \/ GatesOpen \/ Drain
  BY <1>1, <1>10, <1>11 DEF Subscribe, GatesOpen, Drain, Inside, rows, Turns
<1>12. CASE Take
  BY <1>1, <1>10, <1>12, TakeIs DEF Take, Inside, rows
<1>13. CASE Pass
  <2>1. (ev.refused # {}) \in BOOLEAN
    OBVIOUS
  <2>2. ev.pc = "passing" /\ ev'.pc \in {"idle", "assigning"}
    BY <1>1, <1>13, <2>1, PassIs, EndRunIs
  <2> QED  BY <1>10, <1>13, <2>2 DEF Pass, Inside, rows
<1>14. CASE AssignProposal
  <2>1. ev.pc = "committing" /\ ev'.pc = "reading"
    BY <1>14, AssignProposalIs
  <2> QED  BY <1>10, <1>14, <2>1 DEF AssignProposal
<1>15. CASE RunFails
  <2>1. ev.pc # "off" /\ EndRun(TRUE) /\ UNCHANGED <<heard, seen, printer>>
    BY <1>15 DEF RunFails, rows
  <2>2. ev'.pc = "idle"
    BY <1>1, <2>1, EndRunIs
  <2> QED  BY <1>10, <2>1, <2>2
<1>16. CASE Restart
  BY <1>16 DEF Restart, Off, PumpSound
<1>17. CASE Asking \/ Deliver \/ UNCHANGED vars
  BY <1>2, <1>17 DEF Asking, AskToAssign, RefuseToAssign, Quiet, Deliver, vars, rows
<1>18. CASE LookAround \/ LookAgain
  BY <1>10, <1>18, LookIs DEF rows
<1> QED  BY <1>3, <1>4, <1>5, <1>6, <1>7, <1>8, <1>9, <1>11, <1>12, <1>13, <1>14, <1>15, <1>16, <1>17, <1>18
         DEF Next, World, Evaluator

\* A status changes unheard only where it becomes offline, or with a poke on its way.
LEMMA ShownStep ==
  ASSUME TypesHold, PumpSound, ShownSound, [Next]_vars
  PROVE  ShownSound'
<1> SUFFICES ASSUME ev'.pc = "passing", chan' = 0, ~due', NEW p \in Printers, p \notin heard'
             PROVE  ev'.shown[p] = printer'[p].status \/ printer'[p].status = "offline"
  BY DEF ShownSound
<1> DEFINE Kept == ev.shown[p] = printer[p].status \/ printer[p].status = "offline"
<1>1. ev \in Turns /\ printer \in [Printers -> [archived : BOOLEAN, status : Statuses, foreign : BOOLEAN]]
  BY DEF TypesHold, EvaluatorTyped, FactsTyped, Turns
<1>2. ASSUME ev' = ev, ~due, chan = 0, p \notin heard  PROVE Kept
  BY <1>2 DEF ShownSound
<1>3. ~Operator
  BY OperatorSteps
<1>4. CASE Asking \/ UNCHANGED vars
  BY <1>2, <1>4 DEF Asking, AskToAssign, RefuseToAssign, Quiet, rows, vars
<1>5. CASE World
  <2>1. ASSUME NEW q \in Printers, NEW status \in Statuses, StatusChanges(q, status)  PROVE p # q /\ Kept /\ UNCHANGED <<ev, printer[p]>>
    <3>1. /\ UNCHANGED <<chan, due, ev>> /\ heard' = IF Ready THEN heard \cup {q} ELSE heard
          /\ \A t \in Printers : t # q => printer'[t] = printer[t]
      BY <1>1, <2>1 DEF StatusChanges, Elsewhere
    <3>2. Ready
      BY <3>1 DEF Ready
    <3> QED  BY <1>2, <3>1, <3>2
  <2>2. ASSUME NEW q \in Printers, ForeignOperation(q)  PROVE Kept /\ ev' = ev /\ printer'[p].status = printer[p].status
    <3>1. /\ UNCHANGED <<chan, ev, heard>>
          /\ \A t \in Printers : printer'[t].status = printer[t].status
      BY <1>1, <2>2 DEF ForeignOperation, Quiet
    <3>2. due' = (due \/ printer[q].foreign)
      BY <2>2, Zenon DEF ForeignOperation
    <3>3. ~due
      BY <3>2, Zenon
    <3> QED  BY <1>2, <3>1, <3>3
  <2>3. ASSUME NEW q \in Printers, ArchivePrinter(q)  PROVE FALSE
    BY <2>3 DEF ArchivePrinter, PokeAfter
  <2> QED  BY <1>5, <2>1, <2>2, <2>3, SpoolSteps DEF World
<1>6. ASSUME NEW q \in Printers, StatusTrigger(q)
      PROVE  ev'.shown[p] = printer'[p].status \/ printer'[p].status = "offline"
  <2>1. /\ UNCHANGED <<chan, ev, printer>> /\ heard' = heard \ {q} /\ q \in heard
    BY <1>6 DEF StatusTrigger, Inside, rows
  <2>2. ~due /\ printer[q].status = seen[q]
    <3>1. due' = (due \/ printer[q].status # seen[q])
      BY <1>6, Zenon DEF StatusTrigger
    <3> QED  BY <3>1, Zenon
  <2>3. printer[q].status = "offline"
    <3>1. ev.pc = "passing"
      BY <2>1
    <3> QED  BY <2>1, <2>2, <3>1 DEF PumpSound
  <2>4. CASE p = q
    BY <2>1, <2>3, <2>4
  <2>5. CASE p # q
    BY <1>2, <2>1, <2>2, <2>5
  <2> QED  BY <2>4, <2>5
<1>7. CASE LookAround \/ LookAgain
  BY <1>7, LookIs DEF LiveWorld, rows
<1>8. ~Deliver /\ ~Restart
  BY DEF Deliver, Restart, Off
<1>9. ~Take /\ ~ReadStatuses /\ ~Subscribe /\ ~GatesOpen /\ ~Drain
  BY <1>1, TakeIs DEF ReadStatuses, Subscribe, GatesOpen, Drain, Turns
<1>10. ~Pass /\ ~AssignProposal
  <2>1. (ev.refused # {}) \in BOOLEAN
    OBVIOUS
  <2> QED  BY <1>1, <2>1, PassIs, EndRunIs, AssignProposalIs
<1>11. ~RunFails
  BY <1>1, EndRunIs DEF RunFails
<1> QED  BY <1>3, <1>4, <1>5, <1>6, <1>7, <1>8, <1>9, <1>10, <1>11 DEF Next, Evaluator

LEMMA WokenStep ==
  ASSUME TypesHold, WakeInv, [Next]_vars
  PROVE  Woken'
<1> SUFFICES ASSUME ev'.pc = "idle", chan' = 0, ~due', strikes' < 2  PROVE Waits'
  BY DEF Woken
<1>1. ev \in Turns /\ TurnsSound /\ PumpSound /\ ShownSound /\ Woken /\ RowsTyped
  BY DEF TypesHold, EvaluatorTyped, Turns, WakeInv
<1>2. ~Operator
  BY OperatorSteps
<1>3. ASSUME ev' = ev, UNCHANGED <<chan, strikes>>, ~due  PROVE Waits
  BY <1>1, <1>3 DEF Woken
\* Only what is said of p changes, and p is now unheard or offered nothing.
<1>4. ASSUME NEW p \in Printers, Waits, UNCHANGED <<entry, spool>>,
             \A q \in Printers : q # p => printer'[q] = printer[q], heard \ {p} \subseteq heard',
             p \in heard' \/ printer'[p].status = "offline" \/ printer'[p].foreign
      PROVE  Waits'
  <2> SUFFICES ASSUME NEW e \in Queued', entry'[e].policy = "automatic", NEW q \in Printers, q \in Candidates(e, LiveWorld, {})'
               PROVE  q \in heard'
    BY DEF Waits, Candidates
  <2>1. e \in Queued /\ entry[e].policy = "automatic" /\ e \in Entries
    BY <1>4 DEF Queued
  <2>2. CASE q = p
    <3>1. ~(printer'[p].status = "offline" \/ printer'[p].foreign)
      BY <2>2 DEF Candidates, Schedulable, LiveWorld
    <3> QED  BY <1>4, <2>2, <3>1
  <2>3. CASE q # p
    <3>1. q \in Candidates(e, LiveWorld, {})
      BY <1>4, <2>1, <2>3, OthersOffered
    <3>2. q \in heard
      BY <1>4, <2>1, <3>1 DEF Waits
    <3> QED  BY <1>4, <2>3, <3>2
  <2> QED  BY <2>2, <2>3
<1>5. CASE World
  <2>1. ASSUME NEW p \in Printers, NEW status \in Statuses, StatusChanges(p, status)  PROVE Waits'
    <3>1. /\ UNCHANGED <<chan, due, ev, strikes, entry, spool>> /\ heard' = IF Ready THEN heard \cup {p} ELSE heard
          /\ \A q \in Printers : q # p => printer'[q] = printer[q]
      BY <2>1 DEF StatusChanges, Elsewhere, TypesHold, FactsTyped
    <3>2. Ready
      BY <3>1 DEF Ready
    <3>3. Waits
      BY <1>3, <3>1
    <3> QED  BY <1>4, <3>1, <3>2, <3>3
  <2>2. ASSUME NEW p \in Printers, ForeignOperation(p)  PROVE Waits'
    <3>1. /\ UNCHANGED <<chan, ev, strikes, heard, entry, spool>>
          /\ \A q \in Printers : q # p => printer'[q] = printer[q]
          /\ printer'[p].foreign = ~printer[p].foreign
      BY <2>2 DEF ForeignOperation, Quiet, TypesHold, FactsTyped
    <3>2. ~due /\ ~printer[p].foreign
      <4>1. due' = (due \/ printer[p].foreign)
        BY <2>2, Zenon DEF ForeignOperation
      <4> QED  BY <4>1, Zenon
    <3>3. Waits
      BY <1>3, <3>1, <3>2
    <3> QED  BY <1>4, <3>1, <3>2, <3>3
  <2>3. ASSUME NEW p \in Printers, ArchivePrinter(p)  PROVE FALSE
    BY <2>3 DEF ArchivePrinter, PokeAfter
  <2> QED  BY <1>5, <2>1, <2>2, <2>3, SpoolSteps DEF World
<1>6. ASSUME NEW p \in Printers, StatusTrigger(p)  PROVE Waits'
  <2>1. /\ UNCHANGED <<chan, ev, strikes, printer, entry, spool>> /\ heard' = heard \ {p} /\ p \in heard
    BY <1>6 DEF StatusTrigger, Inside, rows
  <2>2. ~due /\ printer[p].status = seen[p]
    <3>1. due' = (due \/ printer[p].status # seen[p])
      BY <1>6, Zenon DEF StatusTrigger
    <3> QED  BY <3>1, Zenon
  <2>3. Waits
    BY <1>3, <2>1, <2>2
  <2>4. printer[p].status = "offline"
    <3>1. ev.pc = "idle"
      BY <2>1
    <3> QED  BY <1>1, <2>1, <2>2, <3>1 DEF PumpSound
  <2> QED  BY <1>4, <2>1, <2>3, <2>4
<1>7. CASE GatesOpen
  BY <1>1, <1>7 DEF GatesOpen, TurnsSound
<1>8. CASE Pass
  <2> DEFINE needed == ev.refused # {}
  <2>0. needed \in BOOLEAN
    OBVIOUS
  <2>1. Proposals = {} /\ EndRun(needed)
    BY <1>1, <1>8, PassIs
  <2>2. UNCHANGED <<due, heard, entry, printer, spool>>
    BY <1>8 DEF Pass, Inside, rows
  <2>3. ~needed /\ UNCHANGED chan
    <3> HIDE DEF needed
    <3> QED  BY <1>1, <2>0, <2>1, <2>2, RunEnds
  <2>4. ev.claimed = {}
    BY <1>1, <2>2, <2>3 DEF TurnsSound
  <2>5. Proposable = {}
    BY <1>1, <2>1, NoneProposable
  <2>6. ASSUME NEW e \in Queued, entry[e].policy = "automatic", NEW p \in Candidates(e, LiveWorld, {}), p \notin heard
        PROVE  FALSE
    <3>1. p \in Printers /\ printer[p].status # "offline"
      BY <2>6 DEF Candidates, Schedulable, LiveWorld
    <3>2. ev.pc = "passing" /\ chan = 0 /\ ~due
      BY <1>1, <1>8, <2>2, <2>3, PassIs
    <3>3. ev.shown[p] = LiveWorld[p]
      BY <1>1, <2>6, <3>1, <3>2 DEF ShownSound, LiveWorld
    <3>4. p \in Candidates(e, ev.shown, {})
      BY <2>6, <3>1, <3>3 DEF Candidates
    <3>5. e \in Proposable
      BY <2>3, <2>4, <2>6, <3>4 DEF Proposable, Offered
    <3> QED  BY <2>5, <3>5
  <2>7. Waits
    BY <2>6 DEF Waits
  <2> QED  BY <2>2, <2>7 DEF Waits, Queued, Candidates, Schedulable, LiveWorld, HasJob, Compatible, Options, Relevant, Usable,
                             Enough, Reserved, Holders
<1>9. CASE RunFails
  <2>1. EndRun(TRUE) /\ UNCHANGED due
    BY <1>9 DEF RunFails
  <2>2. chan' = 1 \/ strikes' = 2
    BY <1>1, <2>1, RunEnds
  <2> QED  BY <2>2
<1>10. CASE ReadStatuses \/ Subscribe \/ Take \/ Drain \/ LookAround \/ LookAgain \/ AssignProposal \/ Restart \/ Deliver
  <2>1. ~Take
    BY <1>1, TakeIs
  <2>2. ~AssignProposal
    BY AssignProposalIs
  <2>3. ~Restart /\ ~Deliver
    BY DEF Restart, Off, Deliver
  <2>4. ~ReadStatuses /\ ~Subscribe /\ ~Drain
    BY <1>1 DEF ReadStatuses, Subscribe, Drain, Turns
  <2>5. ~LookAround /\ ~LookAgain
    BY LookIs
  <2> QED  BY <1>10, <2>1, <2>2, <2>3, <2>4, <2>5
<1>11. CASE Asking \/ UNCHANGED vars
  <2>1. UNCHANGED <<chan, due, ev, strikes, heard, entry, printer, spool>>
    BY <1>11 DEF Asking, AskToAssign, RefuseToAssign, Quiet, vars, rows
  <2>2. Waits
    BY <1>3, <2>1
  <2> QED  BY <2>1, <2>2 DEF Waits, Queued, Candidates, Schedulable, LiveWorld, HasJob, Compatible, Options, Relevant, Usable,
                             Enough, Reserved, Holders
<1> QED  BY <1>2, <1>5, <1>6, <1>7, <1>8, <1>9, <1>10, <1>11 DEF Next, Evaluator

\* No ready Automatic entry waits for an unrelated change: when the evaluator is idle and
\* nothing is on its way to it, every queued Automatic entry has no candidate, unless two runs in
\* a row failed or were refused (queue/evaluator.rs: pump, status_trigger, run_task, Retry).  It
\* rests on the pump handling each status before the next one of the same Printer, and before a
\* status changes while it subscribes; without that it is false.
THEOREM QueueUnstranded == PumpKeepsUp => (Spec => []Unstranded)
<1> SUFFICES ASSUME PumpKeepsUp  PROVE Spec => []Unstranded
  OBVIOUS
<1>1. Init => WakeInv
  <2> SUFFICES ASSUME Init  PROVE WakeInv
    OBVIOUS
  <2>1. TurnsSound /\ Woken
    BY DEF Init, Off, TurnsSound, Woken
  <2>2. PumpSound
    BY DEF Init, Off, PumpSound, Statuses
  <2>3. ShownSound
    BY DEF Init, Off, ShownSound
  <2> QED  BY <2>1, <2>2, <2>3 DEF WakeInv
<1>2. QueueInv /\ WakeInv /\ [Next]_vars => WakeInv'
  <2> SUFFICES ASSUME QueueInv, WakeInv, [Next]_vars  PROVE WakeInv'
    OBVIOUS
  <2>1. TypesHold /\ TurnsSound /\ PumpSound /\ ShownSound
    BY DEF QueueInv, WakeInv
  <2> QED  BY <2>1, TurnsStep, PumpStep, ShownStep, WokenStep DEF WakeInv
<1>3. WakeInv => Unstranded
  BY DEF WakeInv, Woken, Waits, Unstranded
<1> QED  BY <1>1, <1>2, <1>3, QueueOrdered, PTL DEF Spec
=============================================================================
