---------------------------- MODULE SpoolsProofs ----------------------------
(***************************************************************************)
(* Theorems of the Spools, for any Spools, Printers, slots, shelves, Jobs, *)
(* operation ids and bounds.                                               *)
(***************************************************************************)
EXTENDS Spools, FiniteSetTheorems, WellFoundedInduction, TLAPS

(***************************************************************************)
(* Moves that follow one another.                                          *)
(***************************************************************************)
\* What holds at 0 and goes on from each number to the next holds up to n.
LEMMA UpTo ==
  ASSUME NEW n \in Nat, NEW S, S \subseteq 0..n, 0 \in S, \A i \in 0..(n - 1) : i \in S => i + 1 \in S
  PROVE  S = 0..n
<1> DEFINE R == OpToRel(<, Nat)
           T == (0..n) \ S
<1> SUFFICES ASSUME T # {}  PROVE FALSE
  OBVIOUS
<1>1. PICK x \in T : \A y \in T : <<y, x>> \notin R
  <2>1. IsWellFoundedOn(R, Nat)
    BY NatLessThanWellFounded
  <2>2. T \subseteq Nat
    OBVIOUS
  <2> HIDE DEF R, T
  <2> QED  BY <2>1, <2>2, WFMin
<1>2. R = {ss \in Nat \X Nat : ss[1] < ss[2]}
  BY Zenon DEF OpToRel
<1> HIDE DEF R
<1>3. x # 0 /\ x \in 0..n /\ x - 1 \in 0..(n - 1)
  OBVIOUS
<1>4. <<x - 1, x>> \in R
  BY <1>2, <1>3
<1>5. x - 1 \in S
  BY <1>1, <1>3, <1>4
<1> QED  BY <1>3, <1>5

\* What every single move keeps, a sequence of moves keeps: G is any set of tables that no
\* move of ms leaves.
LEMMA MovesStay ==
  ASSUME NEW G, NEW t \in G, NEW ms, Len(ms) \in Nat,
         \A u \in G, i \in 1..Len(ms) : ApplyOneMove(u, ms[i]) = <<>> \/ \E v \in G : ApplyOneMove(u, ms[i]) = <<v>>
  PROVE  ApplyMoves(t, ms) = <<>> \/ \E v \in G : ApplyMoves(t, ms) = <<v>>
<1> DEFINE n == Len(ms)
           R == {<<>>} \cup {<<u>> : u \in G}
           After(x, i) == IF x = <<>> THEN <<>> ELSE ApplyOneMove(x[1], ms[i])
           At(f, i) == IF i = 0 THEN <<t>> ELSE After(f[i - 1], i)
<1>1. \A x \in R, i \in 1..n : After(x, i) \in R
  OBVIOUS
<1>2. n \in Nat /\ <<t>> \in R
  OBVIOUS
<1> HIDE DEF n, R, After
<1>3. \E g \in [0..n -> R] : \A i \in 0..n : g[i] = At(g, i)
  <2> DEFINE S == {k \in 0..n : \E g \in [0..k -> R] : \A i \in 0..k : g[i] = At(g, i)}
  <2>1. 0 \in S
    <3> DEFINE g == [i \in 0..0 |-> <<t>>]
    <3>1. g \in [0..0 -> R] /\ \A i \in 0..0 : g[i] = At(g, i)
      BY <1>2
    <3> HIDE DEF g
    <3>2. \E z \in [0..0 -> R] : \A i \in 0..0 : z[i] = At(z, i)
      BY <3>1
    <3> HIDE DEF At
    <3> QED  BY <1>2, <3>2
  <2>2. ASSUME NEW k \in 0..(n - 1), k \in S  PROVE k + 1 \in S
    <3>1. PICK g \in [0..k -> R] : \A i \in 0..k : g[i] = At(g, i)
      BY <2>2
    <3> DEFINE h == [i \in 0..(k + 1) |-> IF i = k + 1 THEN After(g[k], k + 1) ELSE g[i]]
    <3>2. k + 1 \in 1..n /\ k \in Nat
      BY <1>2
    <3>3. g[k] \in R /\ After(g[k], k + 1) \in R
      BY <1>1, <3>1, <3>2
    <3>4. h \in [0..(k + 1) -> R]
      BY <3>2, <3>3
    <3>5. ASSUME NEW i \in 0..(k + 1)  PROVE h[i] = At(h, i)
      <4>1. CASE i = k + 1
        BY <3>2, <4>1
      <4>2. CASE i # k + 1
        <5>1. i \in 0..k /\ (i # 0 => i - 1 \in 0..k)
          BY <3>2, <4>2
        <5>2. h[i] = g[i] /\ (i # 0 => h[i - 1] = g[i - 1])
          BY <3>2, <5>1
        <5> QED  BY <3>1, <5>1, <5>2
      <4> QED  BY <4>1, <4>2
    <3> HIDE DEF h
    <3> QED  BY <3>2, <3>4, <3>5
  <2>3. S \subseteq 0..n
    OBVIOUS
  <2> HIDE DEF S
  <2>4. S = 0..n
    BY <1>2, <2>1, <2>2, <2>3, UpTo
  <2>5. n \in S
    BY <1>2, <2>4
  <2> QED  BY <2>5 DEF S
<1> DEFINE f == CHOOSE f : f = [i \in 0..n |-> At(f, i)]
<1>4. f = [i \in 0..n |-> At(f, i)]
  <2>1. PICK g \in [0..n -> R] : \A i \in 0..n : g[i] = At(g, i)
    BY <1>3
  <2>2. g = [i \in 0..n |-> At(g, i)]
    BY <2>1
  <2> HIDE DEF At
  <2> QED  BY <2>2
<1>5. ApplyMoves(t, ms) = f[n]
  BY DEF ApplyMoves, n, After
<1> HIDE DEF f
<1>6. ASSUME NEW i \in 0..n  PROVE f[i] \in R
  <2> DEFINE S == {k \in 0..n : f[k] \in R}
  <2>1. 0 \in S
    BY <1>2, <1>4
  <2>2. ASSUME NEW k \in 0..(n - 1), k \in S  PROVE k + 1 \in S
    <3>1. k + 1 \in 1..n /\ k + 1 # 0 /\ (k + 1) - 1 = k
      BY <1>2
    <3>2. f[k + 1] = At(f, k + 1)
      <4> HIDE DEF At
      <4>1. \A x \in 0..n : f[x] = At(f, x)
        BY <1>4, Zenon
      <4>2. k + 1 \in 0..n
        BY <1>2
      <4> QED  BY <4>1, <4>2, Zenon
    <3>3. f[k + 1] = After(f[k], k + 1)
      BY <3>1, <3>2
    <3> QED  BY <1>1, <2>2, <3>1, <3>3
  <2> HIDE DEF S
  <2>3. S = 0..n
    BY <1>2, <2>1, <2>2, UpTo DEF S
  <2> QED  BY <2>3 DEF S
<1>7. f[n] \in R
  BY <1>2, <1>6
<1> QED  BY <1>5, <1>7 DEF R

(***************************************************************************)
(* The rows and the requests.                                              *)
(***************************************************************************)
Row == [lifecycle : {"active", "empty", "archived"}, was : {"active", "empty"}, loc : Places, rev : Nat, mg : Nat]
PrinterRow == [state : {"unmade", "active", "archived"}, rev : Nat]
SpoolRows == [Spools -> Row]
SlotRows == [Slots -> {"unmade", "live", "removed"}]
PrinterRows == [Printers -> PrinterRow]
JobRow == [rsv : {"none", "active", "released", "unresolved", "consumed"}, spool : Spools,
           how : {"none", "estimated", "measured"}, completed : BOOLEAN, corrected : BOOLEAN]
Table == [spool : SpoolRows, slot : SlotRows, printer : PrinterRows]

Asked == [spool : Spools, rev : Nat, to : Places, spare : Places, empties : BOOLEAN, occupant : SUBSET Spools]
Asks == {m \in Asked : m.spare \in Shelves}
Requests == [kind : Kinds, id : Ids \cup {NoId}, printer : Printers, rev : Nat, slots : SUBSET Slots,
             moves : Seq(Asks), move : Asked, action : LifecycleActions \cup {"none"}, mg : Nat,
             saw : SUBSET (Places \cup Spools)]

RowsTyped == spool \in SpoolRows /\ slot \in SlotRows /\ printer \in PrinterRows /\ job \in [Jobs -> JobRow]
SentTyped == DOMAIN sent \subseteq Requests /\ sent \in [DOMAIN sent -> Nat]

\* What a request names, and how it names it.
Fits(r) ==
    /\ r.kind \in {"move", "lifecycle"} => r.move.spare \in Shelves
    /\ r.kind = "lifecycle" => r.move.to \in Shelves /\ r.action \in LifecycleActions
    /\ r.kind \in {"move", "lifecycle", "archive"} => r.id # NoId

\* As long as a row has the revision a request saw, it is as the request saw it.
Seen(r) ==
    /\ r.kind \in {"move", "lifecycle", "amount"} =>
          LET row == spool[r.move.spool] IN
          r.move.rev <= row.rev /\ (r.move.rev = row.rev => {row.loc} = r.saw)
    /\ r.kind = "archive" =>
          r.rev <= printer[r.printer].rev /\ (r.rev = printer[r.printer].rev => Loaded(r.printer) = r.saw)

\* A request that took effect cannot do so again: its id is taken, or the row has gone on.
Spent(r) ==
    /\ r.id # NoId => r.id \in claimed
    /\ r.kind = "amount" => r.move.rev < spool[r.move.spool].rev
    /\ r.kind \in {"unarchive", "layout"} => r.rev < printer[r.printer].rev
    /\ r.kind = "create" => printer[r.printer].state # "unmade"

RequestsInv == SentTyped /\ \A r \in DOMAIN sent : Fits(r) /\ Seen(r) /\ (sent[r] > 0 => Spent(r))

\* A reservation is of a Spool in use.
Promises == \A j \in Jobs : Open(j) => spool[job[j].spool].lifecycle = "active"

\* The inductive invariant behind StillUsable, NoSurprise and NeverOverPromised.
SpoolsInv == RowsTyped /\ LoadedSoundly /\ Promises /\ RequestsInv

(***************************************************************************)
(* One move.                                                               *)
(***************************************************************************)
LoadedIn(t, p) == {s \in Spools : t.spool[s].loc \in Slots /\ PrinterOf[t.spool[s].loc] = p}

SoundIn(t) == \A s \in Spools : t.spool[s].loc \in Slots =>
    /\ t.slot[t.spool[s].loc] = "live" /\ t.printer[PrinterOf[t.spool[s].loc]].state = "active"
    /\ t.spool[s].lifecycle # "archived"
    /\ \A x \in Spools : t.spool[x].loc = t.spool[s].loc => x = s

\* Moves change where Spools are, and the revision of all they touch.
Keeps(old, new) == new.lifecycle = old.lifecycle /\ new.was = old.was /\ new.mg = old.mg
Follows(t, u) ==
    /\ u.slot = t.slot
    /\ \A p \in Printers :
          /\ u.printer[p].state = t.printer[p].state /\ t.printer[p].rev <= u.printer[p].rev
          /\ u.printer[p].rev = t.printer[p].rev => LoadedIn(u, p) = LoadedIn(t, p)
    /\ \A s \in Spools :
          /\ Keeps(t.spool[s], u.spool[s]) /\ t.spool[s].rev <= u.spool[s].rev
          /\ u.spool[s].rev = t.spool[s].rev => u.spool[s].loc = t.spool[s].loc

LEMMA FollowsOn ==
  ASSUME NEW t \in Table, NEW u \in Table, NEW v \in Table, Follows(t, u), Follows(u, v)
  PROVE  Follows(t, v)
<1>1. ASSUME NEW p \in Printers
      PROVE  /\ v.printer[p].state = t.printer[p].state /\ t.printer[p].rev <= v.printer[p].rev
             /\ v.printer[p].rev = t.printer[p].rev => LoadedIn(v, p) = LoadedIn(t, p)
  <2>1. t.printer[p].rev \in Nat /\ u.printer[p].rev \in Nat /\ v.printer[p].rev \in Nat
    BY DEF Table, PrinterRows, PrinterRow
  <2> QED  BY <2>1 DEF Follows
<1>2. ASSUME NEW s \in Spools
      PROVE  /\ Keeps(t.spool[s], v.spool[s]) /\ t.spool[s].rev <= v.spool[s].rev
             /\ v.spool[s].rev = t.spool[s].rev => v.spool[s].loc = t.spool[s].loc
  <2>1. t.spool[s].rev \in Nat /\ u.spool[s].rev \in Nat /\ v.spool[s].rev \in Nat
    BY DEF Table, SpoolRows, Row
  <2> QED  BY <2>1 DEF Follows, Keeps
<1> QED  BY <1>1, <1>2 DEF Follows

LEMMA Displaced ==
  ASSUME NEW r \in Row, NEW l \in Places
  PROVE  /\ Displace(r, l) \in Row /\ Keeps(r, Displace(r, l))
         /\ Displace(r, l).loc = l /\ Displace(r, l).rev = r.rev + 1
<1> DEFINE there == [r EXCEPT !.loc = l]
<1>1. there \in Row /\ Keeps(r, there) /\ there.loc = l /\ there.rev = r.rev
  BY DEF Row, Keeps
<1>2. Displace(r, l) = [there EXCEPT !.rev = r.rev + 1]
  BY <1>1 DEF Displace, Row
<1> HIDE DEF there
<1> QED  BY <1>1, <1>2 DEF Row, Keeps

LEMMA OneMove ==
  ASSUME NEW t \in Table, SoundIn(t), NEW m \in Asks, ApplyOneMove(t, m) # <<>>
  PROVE  \E u \in Table :
           /\ ApplyOneMove(t, m) = <<u>> /\ SoundIn(u) /\ Follows(t, u)
           /\ m.rev = t.spool[m.spool].rev /\ u.spool[m.spool].loc = m.to
           /\ u.spool[m.spool].rev = t.spool[m.spool].rev + 1
           /\ m.to \in Slots => {o \in Spools : t.spool[o].loc = m.to} = m.occupant
<1> DEFINE row == t.spool[m.spool]
           there == {o \in Spools : t.spool[o].loc = m.to}
           intoSlot == m.to \in Slots
           touched == {PrinterOf[l] : l \in {row.loc, m.to} \cap Slots}
           refused == \/ row.rev # m.rev \/ row.loc = m.to
                      \/ /\ intoSlot
                         /\ row.lifecycle = "archived" \/ there # m.occupant \/ ~Loadable(t, m.to)
           moved(s) == IF s = m.spool THEN [row EXCEPT !.loc = m.to, !.rev = @ + 1]
                       ELSE IF intoSlot /\ s \in there THEN Displace(t.spool[s], m.spare) ELSE t.spool[s]
           went == [s \in Spools |-> moved(s)]
           bumped == [p \in Printers |-> IF p \in touched THEN [t.printer[p] EXCEPT !.rev = @ + 1] ELSE t.printer[p]]
           u == [t EXCEPT !.spool = went, !.printer = bumped]
<1>1. /\ ApplyOneMove(t, m) = <<u>> /\ row.rev = m.rev /\ row.loc # m.to
      /\ intoSlot => row.lifecycle # "archived" /\ there = m.occupant /\ Loadable(t, m.to)
  <2>1. ApplyOneMove(t, m) = IF refused THEN <<>> ELSE <<u>>
    BY Zenon DEF ApplyOneMove
  <2> HIDE DEF u
  <2> QED  BY <2>1
<1>2. m.spool \in Spools /\ m.to \in Places /\ m.spare \in Shelves /\ Slots \cap Shelves = {} /\ PrinterOf \in [Slots -> Printers]
  BY SpoolsAssumption DEF Asks, Asked
<1>3. t.spool \in SpoolRows /\ t.slot \in SlotRows /\ t.printer \in PrinterRows /\ \A s \in Spools : t.spool[s] \in Row
  BY DEF Table, SpoolRows
<1>4. ASSUME NEW s \in Spools
      PROVE  /\ moved(s) \in Row /\ Keeps(t.spool[s], moved(s))
             /\ s = m.spool => moved(s).loc = m.to /\ moved(s).rev = t.spool[s].rev + 1
             /\ s # m.spool /\ intoSlot /\ s \in there => moved(s).loc = m.spare /\ moved(s).rev = t.spool[s].rev + 1
             /\ s # m.spool /\ ~(intoSlot /\ s \in there) => moved(s) = t.spool[s]
  <2>1. moved(s) = IF s = m.spool THEN Displace(t.spool[s], m.to)
                   ELSE IF intoSlot /\ s \in there THEN Displace(t.spool[s], m.spare) ELSE t.spool[s]
    BY Zenon DEF Displace
  <2>2. Keeps(t.spool[s], t.spool[s])
    BY DEF Keeps
  <2> HIDE DEF moved
  <2> QED  BY <1>2, <1>3, <2>1, <2>2, Displaced DEF Places
<1>5. went \in SpoolRows /\ \A s \in Spools : went[s] = moved(s)
  BY <1>4 DEF SpoolRows
<1>6. ASSUME NEW p \in Printers
      PROVE  /\ bumped[p] \in PrinterRow /\ bumped[p].state = t.printer[p].state
             /\ bumped[p].rev = IF p \in touched THEN t.printer[p].rev + 1 ELSE t.printer[p].rev
  BY <1>3 DEF PrinterRows, PrinterRow
<1>7. bumped \in PrinterRows
  BY <1>6 DEF PrinterRows
<1>8. u \in Table /\ u.spool = went /\ u.printer = bumped /\ u.slot = t.slot
  BY <1>3, <1>5, <1>7 DEF Table
<1> HIDE DEF went, bumped, u, moved
<1>9. SoundIn(u)
  <2> SUFFICES ASSUME NEW s \in Spools, u.spool[s].loc \in Slots
               PROVE  /\ u.slot[u.spool[s].loc] = "live" /\ u.printer[PrinterOf[u.spool[s].loc]].state = "active"
                      /\ u.spool[s].lifecycle # "archived"
                      /\ \A x \in Spools : u.spool[x].loc = u.spool[s].loc => x = s
    BY DEF SoundIn
  <2>1. CASE s = m.spool
    BY <1>1, <1>2, <1>4, <1>5, <1>6, <1>8, <2>1 DEF Loadable, Keeps
  <2>2. CASE s # m.spool
    <3>1. u.spool[s] = t.spool[s] /\ u.spool[s].loc # m.to
      BY <1>2, <1>4, <1>5, <1>8, <2>2
    <3>2. \A x \in Spools : u.spool[x].loc = u.spool[s].loc => u.spool[x] = t.spool[x]
      BY <1>2, <1>4, <1>5, <1>8, <3>1
    <3>3. PrinterOf[u.spool[s].loc] \in Printers
      BY <1>2
    <3> QED  BY <1>6, <1>8, <3>1, <3>2, <3>3 DEF SoundIn
  <2> QED  BY <2>1, <2>2
<1>10. Follows(t, u)
  <2>1. ASSUME NEW p \in Printers, u.printer[p].rev = t.printer[p].rev  PROVE LoadedIn(u, p) = LoadedIn(t, p)
    <3>1. p \notin touched
      BY <1>3, <1>6, <1>8, <2>1 DEF PrinterRows, PrinterRow
    <3>2. ASSUME NEW s \in Spools
          PROVE  s \in LoadedIn(u, p) <=> s \in LoadedIn(t, p)
      <4>1. CASE s = m.spool
        BY <1>2, <1>4, <1>5, <1>8, <3>1, <4>1 DEF LoadedIn
      <4>2. CASE s # m.spool /\ intoSlot /\ s \in there
        BY <1>2, <1>4, <1>5, <1>8, <3>1, <4>2 DEF LoadedIn
      <4>3. CASE s # m.spool /\ ~(intoSlot /\ s \in there)
        BY <1>4, <1>5, <1>8, <4>3 DEF LoadedIn
      <4> QED  BY <4>1, <4>2, <4>3
    <3> QED  BY <3>2 DEF LoadedIn
  <2>2. ASSUME NEW s \in Spools
        PROVE  /\ Keeps(t.spool[s], u.spool[s]) /\ t.spool[s].rev <= u.spool[s].rev
               /\ u.spool[s].rev = t.spool[s].rev => u.spool[s].loc = t.spool[s].loc
    <3>1. t.spool[s].rev \in Nat
      BY <1>3 DEF Row
    <3> QED  BY <1>4, <1>5, <1>8, <3>1
  <2>3. ASSUME NEW p \in Printers  PROVE u.printer[p].state = t.printer[p].state /\ t.printer[p].rev <= u.printer[p].rev
    <3>1. t.printer[p].rev \in Nat
      BY <1>3 DEF PrinterRows, PrinterRow
    <3> QED  BY <1>6, <1>8, <3>1
  <2> QED  BY <1>8, <2>1, <2>2, <2>3 DEF Follows
<1>11. u.spool[m.spool].loc = m.to /\ u.spool[m.spool].rev = t.spool[m.spool].rev + 1
  BY <1>2, <1>4, <1>5, <1>8
<1> QED  BY <1>1, <1>8, <1>9, <1>10, <1>11

\* Several moves, as a layout's loads or an archive's dispositions are applied.
LEMMA SomeMoves ==
  ASSUME NEW t \in Table, SoundIn(t), NEW ms \in Seq(Asks), ApplyMoves(t, ms) # <<>>
  PROVE  \E u \in Table : ApplyMoves(t, ms) = <<u>> /\ SoundIn(u) /\ Follows(t, u)
<1> DEFINE G == {u \in Table : SoundIn(u) /\ Follows(t, u)}
<1>1. t \in G
  <2>1. \A p \in Printers : t.printer[p].rev \in Nat
    BY DEF Table, PrinterRows, PrinterRow
  <2>2. \A s \in Spools : t.spool[s].rev \in Nat
    BY DEF Table, SpoolRows, Row
  <2> QED  BY <2>1, <2>2 DEF Follows, Keeps
<1>2. ASSUME NEW u \in G, NEW i \in 1..Len(ms), ApplyOneMove(u, ms[i]) # <<>>
      PROVE  \E v \in G : ApplyOneMove(u, ms[i]) = <<v>>
  <2>1. ms[i] \in Asks
    OBVIOUS
  <2>2. PICK v \in Table : ApplyOneMove(u, ms[i]) = <<v>> /\ SoundIn(v) /\ Follows(u, v)
    BY <1>2, <2>1, OneMove
  <2> QED  BY <2>2, FollowsOn
<1>3. Len(ms) \in Nat
  OBVIOUS
<1> HIDE DEF G
<1>4. ApplyMoves(t, ms) = <<>> \/ \E v \in G : ApplyMoves(t, ms) = <<v>>
  BY <1>1, <1>2, <1>3, MovesStay
<1> QED  BY <1>4 DEF G

(***************************************************************************)
(* What a command may do to the rows.                                      *)
(***************************************************************************)
SpoolGoes(s) ==
    spool[s].rev <= spool'[s].rev /\ (spool'[s].rev = spool[s].rev => spool'[s].loc = spool[s].loc)
PrinterGoes(p) ==
    /\ printer[p].rev <= printer'[p].rev /\ (printer'[p].rev = printer[p].rev => Loaded(p)' = Loaded(p))
    /\ printer[p].state # "unmade" => printer'[p].state # "unmade"
Goes == (\A s \in Spools : SpoolGoes(s)) /\ \A p \in Printers : PrinterGoes(p)

\* No request is surprised by what goes on so, and none that is spent comes back.
LEMMA RequestsStay ==
  ASSUME RowsTyped, RowsTyped', Goes, claimed \subseteq claimed', NEW r \in Requests
  PROVE  (Seen(r) => Seen(r)') /\ (Spent(r) => Spent(r)')
<1>1. r.printer \in Printers /\ r.move.spool \in Spools /\ r.rev \in Nat /\ r.move.rev \in Nat
  BY DEF Requests, Asked
<1>2. /\ spool[r.move.spool].rev \in Nat /\ spool'[r.move.spool].rev \in Nat
      /\ printer[r.printer].rev \in Nat /\ printer'[r.printer].rev \in Nat
  BY <1>1 DEF RowsTyped, SpoolRows, Row, PrinterRows, PrinterRow
<1>3. SpoolGoes(r.move.spool) /\ PrinterGoes(r.printer)
  BY <1>1 DEF Goes
<1>4. Seen(r) => Seen(r)'
  BY <1>1, <1>2, <1>3 DEF Seen, SpoolGoes, PrinterGoes
<1>5. Spent(r) => Spent(r)'
  BY <1>1, <1>2, <1>3 DEF Spent, SpoolGoes, PrinterGoes
<1> QED  BY <1>4, <1>5

\* Nothing is promised of a Spool without reservations.
LEMMA NonePromised ==
  ASSUME NEW s \in Spools, Unreserved(s), NEW j \in Jobs, job[j].spool = s  PROVE ~Open(j)
<1> DEFINE S == {k \in Jobs : job[k].spool = s /\ Open(k)}
<1>1. IsFiniteSet(S)
  BY SpoolsAssumption, FS_Subset
<1>2. Cardinality(S) \in Nat
  BY <1>1, FS_CardinalityType
<1>3. Estimate \in Nat \ {0} /\ Estimate * Cardinality(S) = 0
  BY SpoolsAssumption DEF Unreserved, Reserved
<1> HIDE DEF S
<1>4. Cardinality(S) = 0
  BY <1>2, <1>3
<1>5. S = {}
  BY <1>1, <1>4, FS_EmptySet
<1> QED  BY <1>5 DEF S

LEMMA PromisesStay ==
  ASSUME Promises, RowsTyped, job' = job,
         \A s \in Spools : spool[s].lifecycle = "active" => spool'[s].lifecycle = "active" \/ Unreserved(s)
  PROVE  Promises'
<1> SUFFICES ASSUME NEW j \in Jobs, Open(j)'  PROVE spool'[job'[j].spool].lifecycle = "active"
  BY DEF Promises
<1>1. Open(j) /\ job[j].spool \in Spools
  BY DEF Open, RowsTyped, JobRow
<1> QED  BY <1>1, NonePromised DEF Promises

LEMMA TablesFit ==
  ASSUME RowsTyped
  PROVE  /\ Tables \in Table /\ (LoadedSoundly => SoundIn(Tables)) /\ Follows(Tables, Tables)
         /\ Tables.spool = spool /\ Tables.slot = slot /\ Tables.printer = printer
<1>1. Tables \in Table /\ Tables.spool = spool /\ Tables.slot = slot /\ Tables.printer = printer
  BY DEF Tables, Table, RowsTyped
<1>2. LoadedSoundly => SoundIn(Tables)
  <2> SUFFICES ASSUME LoadedSoundly, NEW s \in Spools, spool[s].loc \in Slots, NEW x \in Spools,
                      spool[x].loc = spool[s].loc
               PROVE  x = s
    BY <1>1 DEF SoundIn, LoadedSoundly
  <2> QED  BY DEF LoadedSoundly, Occupants
<1>3. \A s \in Spools : spool[s].rev \in Nat
  BY DEF RowsTyped, SpoolRows, Row
<1>4. \A p \in Printers : printer[p].rev \in Nat
  BY DEF RowsTyped, PrinterRows, PrinterRow
<1> QED  BY <1>1, <1>2, <1>3, <1>4 DEF Follows, Keeps

\* After the moves from tables t, with the rows' Spools where the moves left them.
LEMMA GoesOn ==
  ASSUME RowsTyped, RowsTyped', NEW t \in Table, NEW u \in Table, Follows(t, u), t.spool = spool,
         \A s \in Spools : spool'[s].loc = u.spool[s].loc /\ u.spool[s].rev <= spool'[s].rev,
         \A p \in Printers : /\ t.printer[p].rev = printer[p].rev /\ u.printer[p].rev <= printer'[p].rev
                             /\ printer[p].state # "unmade" => printer'[p].state # "unmade"
  PROVE  Goes
<1>1. ASSUME NEW s \in Spools  PROVE SpoolGoes(s)
  <2>1. spool[s].rev \in Nat /\ u.spool[s].rev \in Nat /\ spool'[s].rev \in Nat
    BY DEF RowsTyped, Table, SpoolRows, Row
  <2> QED  BY <2>1 DEF Follows, SpoolGoes
<1>2. ASSUME NEW p \in Printers  PROVE PrinterGoes(p)
  <2>1. printer[p].rev \in Nat /\ u.printer[p].rev \in Nat /\ printer'[p].rev \in Nat
    BY DEF RowsTyped, Table, PrinterRows, PrinterRow
  <2>2. Loaded(p) = LoadedIn(t, p) /\ Loaded(p)' = LoadedIn(u, p)
    BY DEF Loaded, LoadedIn
  <2> QED  BY <2>1, <2>2 DEF Follows, PrinterGoes
<1> QED  BY <1>1, <1>2 DEF Goes

LEMMA SoundLands ==
  ASSUME NEW u \in Table, SoundIn(u), \A s \in Spools : spool'[s].loc = u.spool[s].loc,
         \A s \in Spools : spool'[s].loc \in Slots =>
            /\ slot'[spool'[s].loc] = "live" /\ printer'[PrinterOf[spool'[s].loc]].state = "active"
            /\ spool'[s].lifecycle # "archived"
  PROVE  LoadedSoundly'
BY DEF SoundIn, LoadedSoundly, Occupants

(***************************************************************************)
(* Each command, as it takes effect.                                       *)
(***************************************************************************)
Lands == RowsTyped' /\ LoadedSoundly' /\ Promises' /\ Goes

\* The rows a request changes have the revision it saw, and those it carries no id for go on.
Fresh(r) ==
    /\ r.kind \in {"move", "lifecycle", "amount"} => r.move.rev = spool[r.move.spool].rev
    /\ r.kind = "archive" => r.rev = printer[r.printer].rev
    /\ r.kind \in {"unarchive", "layout"} =>
          r.rev = printer[r.printer].rev /\ r.rev < printer'[r.printer].rev
    /\ r.kind = "create" => printer[r.printer].state = "unmade" /\ printer'[r.printer].state # "unmade"
    /\ r.kind = "amount" => r.move.rev < spool'[r.move.spool].rev
    /\ r.kind = "move" /\ r.move.to \in Slots => Occupants(r.move.to) = r.move.occupant

\* What a command does to amounts: a Spool is marked empty if nothing is reserved of it, and
\* only a recorded amount changes one otherwise.
Amounts(r) ==
    /\ job' = job
    /\ \A s \in Spools :
          \/ spool'[s].mg = spool[s].mg
          \/ Unreserved(s) /\ spool'[s].mg = 0
          \/ r.kind = "amount" /\ r.move.spool = s

\* A command of one move.
LEMMA OneApplied ==
  ASSUME NEW t \in Table, NEW m
  PROVE  ApplyMoves(t, <<m>>) = ApplyOneMove(t, m)
<1> DEFINE Of(f, i) == IF i = 0 THEN <<t>>
                       ELSE IF f[i - 1] = <<>> THEN <<>> ELSE ApplyOneMove(f[i - 1][1], <<m>>[i])
           g == [i \in 0..1 |-> IF i = 0 THEN <<t>> ELSE ApplyOneMove(t, m)]
           f == CHOOSE f : f = [i \in 0..1 |-> Of(f, i)]
<1>1. g = [i \in 0..1 |-> Of(g, i)]
  OBVIOUS
<1>2. f = [i \in 0..1 |-> Of(f, i)]
  <2> HIDE DEF g, Of
  <2> QED  BY <1>1
<1>3. ApplyMoves(t, <<m>>) = f[1]
  BY DEF ApplyMoves
<1> HIDE DEF f
<1>4. f[0] = <<t>> /\ f[1] = Of(f, 1)
  <2> HIDE DEF Of
  <2>1. \A i \in 0..1 : f[i] = Of(f, i)
    BY <1>2, Zenon
  <2>2. f[0] = Of(f, 0) /\ f[1] = Of(f, 1)
    BY <2>1
  <2> QED  BY <2>2 DEF Of
<1>5. f[1] = ApplyOneMove(t, m)
  BY <1>4
<1> QED  BY <1>3, <1>5

LEMMA MoveLands ==
  ASSUME RowsTyped, LoadedSoundly, Promises, NEW r \in Requests, Fits(r), r.kind = "move", Move(r)
  PROVE  Lands /\ Fresh(r) /\ Amounts(r)
<1>1. r.move \in Asks
  BY DEF Requests, Fits, Asks
<1>2. PICK u \in Table :
        /\ ApplyMoves(Tables, <<r.move>>) = <<u>> /\ SoundIn(u) /\ Follows(Tables, u)
        /\ r.move.rev = spool[r.move.spool].rev
        /\ r.move.to \in Slots => Occupants(r.move.to) = r.move.occupant
  BY <1>1, TablesFit, OneApplied, OneMove DEF Move, Occupants
<1>3. spool' = u.spool /\ slot' = u.slot /\ printer' = u.printer /\ job' = job
  BY <1>2, TablesFit DEF Move, Follows
<1>4. RowsTyped'
  BY <1>3 DEF RowsTyped, Table
<1>5. LoadedSoundly'
  BY <1>2, <1>3, SoundLands DEF SoundIn
<1>6. Promises'
  BY <1>2, <1>3, PromisesStay, TablesFit DEF Follows, Keeps
<1>7. Goes
  <2>1. \A s \in Spools : u.spool[s].rev \in Nat
    BY DEF Table, SpoolRows, Row
  <2>2. \A p \in Printers : u.printer[p].rev \in Nat /\ u.printer[p].state = printer[p].state
    BY <1>2, TablesFit DEF Table, PrinterRows, PrinterRow, Follows
  <2> QED  BY <1>2, <1>3, <1>4, <2>1, <2>2, TablesFit, GoesOn
<1>8. Fresh(r)
  BY <1>2 DEF Fresh
<1>9. Amounts(r)
  BY <1>2, <1>3, TablesFit DEF Amounts, Follows, Keeps
<1> QED  BY <1>4, <1>5, <1>6, <1>7, <1>8, <1>9 DEF Lands

LEMMA EmptiedTyped ==
  ASSUME NEW row \in Row
  PROVE  /\ Emptied(row) \in Row /\ Emptied(row).loc = row.loc /\ Emptied(row).rev = row.rev
         /\ Emptied(row).lifecycle = "empty" /\ Emptied(row).mg = 0
BY DEF Emptied, Row

\* What becomes of a row of its own, wherever the Spool is.
LEMMA AgedTyped ==
  ASSUME NEW row \in Row, NEW action \in LifecycleActions,
         action = "archive" => row.lifecycle \in {"active", "empty"}
  PROVE  /\ Aged(row, action) \in Row /\ Aged(row, action).loc = row.loc /\ Aged(row, action).rev = row.rev + 1
         /\ action = "reactivate" => Aged(row, action).lifecycle = "active"
         /\ action = "markEmpty" => Aged(row, action).lifecycle = "empty" /\ Aged(row, action).mg = 0
         /\ action # "markEmpty" => Aged(row, action).mg = row.mg
<1> DEFINE next == [row EXCEPT !.rev = @ + 1]
<1>1. /\ next \in Row /\ next.loc = row.loc /\ next.rev = row.rev + 1 /\ next.was = row.was /\ next.mg = row.mg
      /\ row.lifecycle \in {"active", "empty", "archived"}
  BY DEF Row
<1> HIDE DEF next
<1>2. CASE action = "reactivate"
  <2>1. Aged(row, action) = [next EXCEPT !.lifecycle = "active"]
    BY <1>2 DEF Aged, next
  <2> QED  BY <1>1, <1>2, <2>1 DEF Row
<1>3. CASE action = "archive"
  <2>1. Aged(row, action) = [next EXCEPT !.lifecycle = "archived", !.was = row.lifecycle]
    BY <1>3 DEF Aged, next
  <2> QED  BY <1>1, <1>3, <2>1 DEF Row
<1>4. CASE action = "unarchive"
  <2>1. Aged(row, action) = [next EXCEPT !.lifecycle = row.was, !.was = "active"]
    BY <1>4 DEF Aged, next
  <2> QED  BY <1>1, <1>4, <2>1 DEF Row
<1>5. CASE action = "markEmpty"
  <2>1. Aged(row, action) = Emptied(next)
    BY <1>5 DEF Aged, next
  <2> QED  BY <1>1, <1>5, <2>1, EmptiedTyped
<1> QED  BY <1>2, <1>3, <1>4, <1>5 DEF LifecycleActions

\* A Spool in a slot that is marked empty goes to a shelf first.
LEMMA UnloadLands ==
  ASSUME RowsTyped, LoadedSoundly, Promises, NEW r \in Requests, Fits(r), r.kind = "lifecycle", SetLifecycle(r),
         r.action = "markEmpty", spool[r.move.spool].loc \in Slots
  PROVE  Lands /\ Amounts(r)
<1> DEFINE s == r.move.spool
<1>1. r.move \in Asks /\ s \in Spools /\ r.move.to \in Shelves /\ r.move.to \notin Slots
  BY SpoolsAssumption DEF Requests, Fits, Asks, Asked
<1>2. spool[s].rev = r.move.rev /\ CanMarkEmpty(s)
  BY DEF SetLifecycle, Allowed
<1>3. ApplyOneMove(Tables, r.move) # <<>>
  BY <1>1, <1>2, TablesFit DEF ApplyOneMove
<1>4. PICK u \in Table :
        ApplyMoves(Tables, <<r.move>>) = <<u>> /\ SoundIn(u) /\ Follows(Tables, u) /\ u.spool[s].loc = r.move.to
  BY <1>1, <1>3, TablesFit, OneApplied, OneMove
<1>5. spool' = [u.spool EXCEPT ![s] = Emptied(@)] /\ printer' = u.printer /\ slot' = slot /\ job' = job
  BY <1>4 DEF SetLifecycle
<1>6. u.spool \in SpoolRows /\ u.slot = slot
  BY <1>4, TablesFit DEF Table, Follows
<1>7. \A x \in Spools : u.spool[x] \in Row
  BY <1>6 DEF SpoolRows
<1>8. /\ \A x \in Spools \ {s} : spool'[x] = u.spool[x]
      /\ spool'[s] = Emptied(u.spool[s]) /\ spool' \in SpoolRows
  BY <1>1, <1>5, <1>6, <1>7, EmptiedTyped DEF SpoolRows
<1>9. \A x \in Spools : spool'[x].loc = u.spool[x].loc /\ spool'[x].rev = u.spool[x].rev
  BY <1>7, <1>8, EmptiedTyped
<1>10. RowsTyped'
  BY <1>5, <1>8 DEF RowsTyped, Table
<1>11. LoadedSoundly'
  <2>1. ASSUME NEW x \in Spools, spool'[x].loc \in Slots
        PROVE  /\ slot'[spool'[x].loc] = "live" /\ printer'[PrinterOf[spool'[x].loc]].state = "active"
               /\ spool'[x].lifecycle # "archived"
    <3>1. spool'[x] = u.spool[x] /\ slot' = u.slot /\ printer' = u.printer
      BY <1>1, <1>4, <1>5, <1>6, <1>8, <1>9, <2>1
    <3> QED  BY <1>4, <2>1, <3>1 DEF SoundIn
  <2> QED  BY <1>4, <1>9, <2>1, SoundLands
<1>12. Promises'
  BY <1>1, <1>2, <1>4, <1>5, <1>8, PromisesStay, TablesFit DEF Follows, Keeps, CanMarkEmpty
<1>13. Goes
  <2>1. \A p \in Printers : u.printer[p].rev \in Nat /\ u.printer[p].state = printer[p].state
    BY <1>4, TablesFit DEF Table, PrinterRows, PrinterRow, Follows
  <2>2. \A x \in Spools : u.spool[x].rev \in Nat
    BY <1>7 DEF Row
  <2> QED  BY <1>4, <1>5, <1>9, <1>10, <2>1, <2>2, TablesFit, GoesOn
<1>14. Amounts(r)
  <2>1. \A x \in Spools : u.spool[x].mg = spool[x].mg
    BY <1>4, TablesFit DEF Follows, Keeps
  <2>2. spool'[s].mg = 0 /\ Unreserved(s)
    BY <1>1, <1>2, <1>7, <1>8, EmptiedTyped DEF CanMarkEmpty
  <2> QED  BY <1>5, <1>8, <2>1, <2>2 DEF Amounts
<1> QED  BY <1>10, <1>11, <1>12, <1>13, <1>14 DEF Lands

LEMMA LifecycleLands ==
  ASSUME RowsTyped, LoadedSoundly, Promises, NEW r \in Requests, Fits(r), r.kind = "lifecycle", SetLifecycle(r)
  PROVE  Lands /\ Fresh(r) /\ Amounts(r)
<1> DEFINE s == r.move.spool
<1>1. s \in Spools /\ r.action \in LifecycleActions /\ spool[s] \in Row /\ spool \in SpoolRows
  BY DEF Requests, Fits, Asked, RowsTyped, SpoolRows
<1>2. Fresh(r)
  BY DEF Fresh, SetLifecycle
<1>3. CASE r.action = "markEmpty" /\ spool[s].loc \in Slots
  BY <1>2, <1>3, UnloadLands
<1>4. CASE ~(r.action = "markEmpty" /\ spool[s].loc \in Slots)
  <2>1. spool' = [spool EXCEPT ![s] = Aged(@, r.action)] /\ UNCHANGED <<slot, printer, job>> /\ Allowed(s, r.action)
    BY <1>4 DEF SetLifecycle
  <2>2. /\ \A x \in Spools \ {s} : spool'[x] = spool[x]
        /\ spool'[s] = Aged(spool[s], r.action)
    BY <1>1, <2>1 DEF SpoolRows
  <2>3. /\ r.action = "archive" => spool[s].lifecycle \in {"active", "empty"} /\ Unreserved(s) /\ spool[s].loc \in Shelves
        /\ r.action = "markEmpty" => Unreserved(s)
        /\ r.action = "reactivate" => spool[s].lifecycle = "empty"
        /\ r.action = "unarchive" => spool[s].lifecycle = "archived"
    BY <2>1 DEF Allowed, CanMarkEmpty
  <2>4. /\ spool'[s] \in Row /\ spool'[s].loc = spool[s].loc /\ spool'[s].rev = spool[s].rev + 1
        /\ r.action \in {"reactivate", "markEmpty"} => spool'[s].lifecycle # "archived"
    BY <1>1, <2>2, <2>3, AgedTyped
  <2>5. RowsTyped'
    BY <1>1, <2>1, <2>4 DEF RowsTyped, SpoolRows
  <2>6. LoadedSoundly'
    <3>1. spool[s].loc \in Slots => spool[s].lifecycle # "archived" /\ spool[s].loc \notin Shelves
      BY <1>1, SpoolsAssumption DEF LoadedSoundly
    <3>2. spool[s].loc \in Slots => r.action \in {"reactivate", "markEmpty"}
      BY <1>1, <2>3, <3>1 DEF LifecycleActions
    <3>3. \A x \in Spools : spool'[x].loc = spool[x].loc
      BY <2>2, <2>4
    <3>4. ASSUME NEW x \in Spools, spool'[x].loc \in Slots
          PROVE  /\ slot'[spool'[x].loc] = "live" /\ printer'[PrinterOf[spool'[x].loc]].state = "active"
                 /\ spool'[x].lifecycle # "archived"
      BY <2>1, <2>2, <2>4, <3>2, <3>3, <3>4 DEF LoadedSoundly
    <3> QED  BY <3>3, <3>4, TablesFit, SoundLands
  <2>7. Promises'
    BY <1>1, <2>1, <2>2, <2>3, PromisesStay DEF LifecycleActions
  <2>8. Goes
    <3>1. \A x \in Spools : spool[x].rev \in Nat
      BY <1>1 DEF SpoolRows, Row
    <3>2. \A p \in Printers : printer[p].rev \in Nat
      BY DEF RowsTyped, PrinterRows, PrinterRow
    <3> QED  BY <2>1, <2>2, <2>4, <2>5, <3>1, <3>2, TablesFit, GoesOn
  <2>9. spool'[s].mg = spool[s].mg \/ (r.action = "markEmpty" /\ spool'[s].mg = 0)
    <3>1. r.action = "archive" => spool[s].lifecycle \in {"active", "empty"}
      BY <2>3
    <3>2. /\ r.action = "markEmpty" => Aged(spool[s], r.action).mg = 0
          /\ r.action # "markEmpty" => Aged(spool[s], r.action).mg = spool[s].mg
      BY <1>1, <3>1, AgedTyped
    <3>3. spool'[s] = Aged(spool[s], r.action)
      BY <2>2
    <3>4. CASE r.action = "markEmpty"
      BY <3>2, <3>3, <3>4, Zenon
    <3>5. CASE r.action # "markEmpty"
      <4>1. Aged(spool[s], r.action).mg = spool[s].mg
        BY <3>2, <3>5
      <4> QED  BY <3>3, <4>1, Zenon
    <3> QED  BY <3>4, <3>5
  <2>10. Amounts(r)
    BY <1>1, <2>1, <2>2, <2>3, <2>9 DEF Amounts
  <2> QED  BY <1>2, <2>5, <2>6, <2>7, <2>8, <2>10 DEF Lands
<1> QED  BY <1>3, <1>4

LEMMA AmountLands ==
  ASSUME RowsTyped, LoadedSoundly, Promises, NEW r \in Requests, r.kind = "amount", RecordAmount(r)
  PROVE  Lands /\ Fresh(r) /\ Amounts(r)
<1> DEFINE s == r.move.spool
<1>1. s \in Spools /\ r.mg \in Nat /\ spool[s] \in Row /\ spool \in SpoolRows
  BY DEF Requests, Asked, RowsTyped, SpoolRows
<1>2. /\ UNCHANGED <<slot, printer, job>> /\ \A x \in Spools \ {s} : spool'[x] = spool[x]
      /\ spool'[s] \in Row /\ spool'[s].loc = spool[s].loc /\ spool'[s].rev = spool[s].rev + 1
      /\ spool'[s].lifecycle = spool[s].lifecycle /\ spool' \in SpoolRows
  <2> DEFINE weighed == [spool[s] EXCEPT !.mg = r.mg]
             next == Weighed(spool[s], r.mg)
  <2>1. /\ weighed \in Row /\ weighed.loc = spool[s].loc /\ weighed.rev = spool[s].rev
        /\ weighed.lifecycle = spool[s].lifecycle
    BY <1>1 DEF Row
  <2>2. spool' = [spool EXCEPT ![s] = next] /\ UNCHANGED <<slot, printer, job>>
    BY DEF RecordAmount
  <2>3. next \in Row /\ next.loc = spool[s].loc /\ next.rev = spool[s].rev + 1 /\ next.lifecycle = spool[s].lifecycle
    <3>1. next = [weighed EXCEPT !.rev = spool[s].rev + 1]
      BY <1>1 DEF Weighed, Row
    <3> HIDE DEF weighed, next
    <3> QED  BY <1>1, <2>1, <3>1 DEF Row
  <2> HIDE DEF next
  <2> QED  BY <1>1, <2>2, <2>3 DEF SpoolRows
<1>3. RowsTyped'
  BY <1>2 DEF RowsTyped
<1>4. LoadedSoundly'
  BY <1>1, <1>2, TablesFit, SoundLands DEF SoundIn
<1>5. Promises'
  BY <1>1, <1>2, PromisesStay
<1>6. \A x \in Spools : spool[x].rev \in Nat
  BY <1>1 DEF SpoolRows, Row
<1>7. Goes
  <2>1. \A p \in Printers : printer[p].rev \in Nat
    BY DEF RowsTyped, PrinterRows, PrinterRow
  <2> QED  BY <1>2, <1>3, <1>6, <2>1, TablesFit, GoesOn
<1>8. Fresh(r)
  BY <1>1, <1>2, <1>6 DEF Fresh, RecordAmount
<1>9. Amounts(r)
  BY <1>1, <1>2 DEF Amounts
<1> QED  BY <1>3, <1>4, <1>5, <1>7, <1>8, <1>9 DEF Lands

LEMMA UnarchiveLands ==
  ASSUME RowsTyped, LoadedSoundly, Promises, NEW r \in Requests, r.kind = "unarchive", UnarchivePrinter(r)
  PROVE  Lands /\ Fresh(r) /\ Amounts(r)
<1> DEFINE p == r.printer
<1>1. p \in Printers /\ printer \in PrinterRows /\ \A q \in Printers : printer[q] \in PrinterRow
  BY DEF Requests, RowsTyped, PrinterRows
<1>2. /\ UNCHANGED <<spool, slot, job>> /\ \A q \in Printers \ {p} : printer'[q] = printer[q]
      /\ printer'[p] = [state |-> "active", rev |-> printer[p].rev + 1] /\ printer' \in PrinterRows
  BY <1>1 DEF UnarchivePrinter, PrinterRows, PrinterRow
<1>3. \A q \in Printers : printer[q].rev \in Nat /\ printer[q].rev <= printer'[q].rev
  BY <1>1, <1>2 DEF PrinterRow
<1>4. RowsTyped'
  BY <1>2 DEF RowsTyped
<1>5. LoadedSoundly'
  <2>1. \A s \in Spools : spool[s].loc \in Slots => PrinterOf[spool[s].loc] \in Printers
    BY SpoolsAssumption
  <2>2. ASSUME NEW q \in Printers, printer[q].state = "active"  PROVE printer'[q].state = "active"
    BY <1>2, <2>2
  <2> QED  BY <1>2, <2>1, <2>2, TablesFit, SoundLands DEF SoundIn
<1>6. Promises'
  BY <1>2, PromisesStay
<1>7. Goes
  <2>1. \A s \in Spools : spool[s].rev \in Nat
    BY DEF RowsTyped, SpoolRows, Row
  <2> QED  BY <1>2, <1>3, <1>4, <2>1, TablesFit, GoesOn
<1>8. Fresh(r)
  BY <1>1, <1>2, <1>3 DEF Fresh, UnarchivePrinter
<1> QED  BY <1>2, <1>4, <1>5, <1>6, <1>7, <1>8 DEF Lands, Amounts

LEMMA LayoutLands ==
  ASSUME RowsTyped, LoadedSoundly, Promises, NEW r \in Requests, r.kind = "layout", SetLayout(r)
  PROVE  Lands /\ Fresh(r) /\ Amounts(r)
<1> DEFINE p == r.printer
           dropped == Live(p) \ r.slots
<1>1. p \in Printers /\ printer \in PrinterRows /\ \A q \in Printers : printer[q] \in PrinterRow
  BY DEF Requests, RowsTyped, PrinterRows
<1>2. /\ UNCHANGED <<spool, job>> /\ \A l \in dropped : Occupants(l) = {}
      /\ slot' = [l \in Slots |-> IF l \in dropped THEN "removed" ELSE IF l \in r.slots THEN "live" ELSE slot[l]]
      /\ printer' = [printer EXCEPT ![p].rev = @ + 1] /\ printer[p].rev = r.rev
  BY DEF SetLayout
<1>3. /\ \A q \in Printers \ {p} : printer'[q] = printer[q]
      /\ printer'[p].state = printer[p].state /\ printer'[p].rev = printer[p].rev + 1 /\ printer' \in PrinterRows
  BY <1>1, <1>2 DEF PrinterRows, PrinterRow
<1>4. slot' \in SlotRows
  BY <1>2 DEF RowsTyped, SlotRows
<1>5. \A q \in Printers : printer[q].rev \in Nat /\ printer[q].rev <= printer'[q].rev /\ printer'[q].state = printer[q].state
  BY <1>1, <1>3 DEF PrinterRow
<1>6. RowsTyped'
  BY <1>2, <1>3, <1>4 DEF RowsTyped
<1>7. LoadedSoundly'
  <2>1. ASSUME NEW s \in Spools, spool[s].loc \in Slots
        PROVE  slot'[spool[s].loc] = "live" /\ PrinterOf[spool[s].loc] \in Printers
    <3>1. slot[spool[s].loc] = "live" /\ s \in Occupants(spool[s].loc)
      BY <2>1 DEF LoadedSoundly, Occupants
    <3> QED  BY <1>2, <2>1, <3>1, SpoolsAssumption
  <2> QED  BY <1>2, <1>5, <2>1, TablesFit, SoundLands DEF SoundIn
<1>8. Promises'
  BY <1>2, PromisesStay
<1>9. Goes
  <2>1. \A s \in Spools : spool[s].rev \in Nat
    BY DEF RowsTyped, SpoolRows, Row
  <2> QED  BY <1>2, <1>5, <1>6, <2>1, TablesFit, GoesOn
<1>10. Fresh(r)
  <2>1. r.rev < printer'[p].rev
    BY <1>1, <1>2, <1>3, <1>5
  <2> QED  BY <1>2, <2>1 DEF Fresh
<1> QED  BY <1>2, <1>6, <1>7, <1>8, <1>9, <1>10 DEF Lands, Amounts

LEMMA CreateLands ==
  ASSUME RowsTyped, LoadedSoundly, Promises, NEW r \in Requests, r.kind = "create", CreatePrinter(r)
  PROVE  Lands /\ Fresh(r) /\ Amounts(r)
<1> DEFINE p == r.printer
           slots == [l \in Slots |-> IF l \in r.slots THEN "live" ELSE slot[l]]
           opened == [printer EXCEPT ![p].state = "active"]
           made == [Tables EXCEPT !.slot = slots, !.printer = opened]
<1>1. p \in Printers /\ r.moves \in Seq(Asks) /\ printer \in PrinterRows /\ \A q \in Printers : printer[q] \in PrinterRow
  BY DEF Requests, RowsTyped, PrinterRows
<1>2. slots \in SlotRows /\ \A l \in Slots : slot[l] = "live" => slots[l] = "live"
  BY DEF RowsTyped, SlotRows
<1>3. /\ opened \in PrinterRows /\ \A q \in Printers : opened[q].rev = printer[q].rev
      /\ \A q \in Printers \ {p} : opened[q].state = printer[q].state
      /\ opened[p].state = "active"
  BY <1>1 DEF PrinterRows, PrinterRow
<1> HIDE DEF slots, opened
<1>4. made \in Table /\ made.spool = spool /\ made.slot = slots /\ made.printer = opened
  BY <1>2, <1>3, TablesFit DEF Table
<1>5. printer[p].state = "unmade" /\ job' = job /\ LET after == ApplyMoves(made, r.moves) IN
        after # <<>> /\ spool' = after[1].spool /\ slot' = made.slot /\ printer' = after[1].printer
  BY DEF CreatePrinter, slots, opened
<1> HIDE DEF made
<1>6. SoundIn(made)
  <2>1. SoundIn(Tables) /\ \A s \in Spools : spool[s].loc \in Slots => PrinterOf[spool[s].loc] \in Printers
    BY TablesFit, SpoolsAssumption
  <2>2. \A q \in Printers : printer[q].state = "active" => opened[q].state = "active"
    BY <1>3
  <2> QED  BY <1>2, <1>4, <2>1, <2>2, TablesFit DEF SoundIn
<1>7. PICK u \in Table : ApplyMoves(made, r.moves) = <<u>> /\ SoundIn(u) /\ Follows(made, u)
  BY <1>1, <1>4, <1>5, <1>6, SomeMoves
<1>8. spool' = u.spool /\ slot' = u.slot /\ printer' = u.printer
  BY <1>5, <1>7 DEF Follows
<1>9. RowsTyped'
  BY <1>5, <1>8 DEF RowsTyped, Table
<1>10. LoadedSoundly'
  BY <1>7, <1>8, SoundLands DEF SoundIn
<1>11. Promises'
  BY <1>4, <1>5, <1>7, <1>8, PromisesStay DEF Follows, Keeps
<1>12. \A q \in Printers : u.printer[q].rev \in Nat /\ u.printer[q].state = opened[q].state
  BY <1>4, <1>7 DEF Table, PrinterRows, PrinterRow, Follows
<1>13. Goes
  <2>1. \A s \in Spools : u.spool[s].rev \in Nat
    BY DEF Table, SpoolRows, Row
  <2>2. \A q \in Printers : printer[q].state # "unmade" => opened[q].state # "unmade"
    BY <1>3
  <2> QED  BY <1>3, <1>4, <1>7, <1>8, <1>9, <1>12, <2>1, <2>2, GoesOn
<1>14. Fresh(r)
  BY <1>1, <1>3, <1>5, <1>8, <1>12 DEF Fresh
<1>15. Amounts(r)
  BY <1>4, <1>5, <1>7, <1>8 DEF Amounts, Follows, Keeps
<1> QED  BY <1>9, <1>10, <1>11, <1>13, <1>14, <1>15 DEF Lands

LEMMA ArchiveLands ==
  ASSUME RowsTyped, LoadedSoundly, Promises, NEW r \in Requests, r.kind = "archive", ArchivePrinter(r)
  PROVE  Lands /\ Fresh(r) /\ Amounts(r)
<1> DEFINE p == r.printer
           ms == r.moves
           inside(l) == l \in Slots /\ PrinterOf[l] = p
           emptied == {ms[i].spool : i \in {k \in DOMAIN ms : ms[k].empties}}
<1>1. p \in Printers /\ ms \in Seq(Asks) /\ printer \in PrinterRows /\ \A q \in Printers : printer[q] \in PrinterRow
  BY DEF Requests, RowsTyped, PrinterRows
<1>2. printer[p].rev = r.rev /\ printer[p].state = "active" /\ ApplyMoves(Tables, ms) # <<>>
  BY DEF ArchivePrinter
<1>3. PICK u \in Table : ApplyMoves(Tables, ms) = <<u>> /\ SoundIn(u) /\ Follows(Tables, u)
  BY <1>1, <1>2, TablesFit, SomeMoves
<1>4. /\ \A s \in Spools : ~inside(u.spool[s].loc)
      /\ spool' = [s \in Spools |-> IF s \in emptied THEN Emptied(u.spool[s]) ELSE u.spool[s]]
      /\ printer' = [u.printer EXCEPT ![p] = [state |-> "archived", rev |-> u.printer[p].rev + 1]]
      /\ UNCHANGED <<slot, job>>
      /\ \A i \in DOMAIN ms : ms[i].empties => CanMarkEmpty(ms[i].spool)
  BY <1>3 DEF ArchivePrinter
<1>5. /\ u.slot = slot /\ \A s \in Spools : u.spool[s] \in Row /\ u.spool[s].rev \in Nat
      /\ \A q \in Printers : u.printer[q].rev \in Nat /\ u.printer[q] \in PrinterRow
      /\ u.printer \in PrinterRows
  BY <1>3, TablesFit DEF Table, SpoolRows, Row, PrinterRows, PrinterRow, Follows
<1>6. \A s \in emptied : CanMarkEmpty(s)
  BY <1>4
<1> HIDE DEF emptied
<1>7. ASSUME NEW s \in Spools
      PROVE  /\ spool'[s] \in Row /\ spool'[s].loc = u.spool[s].loc /\ spool'[s].rev = u.spool[s].rev
             /\ s \in emptied => spool'[s].lifecycle = "empty" /\ spool'[s].mg = 0
             /\ s \notin emptied => spool'[s].lifecycle = u.spool[s].lifecycle /\ spool'[s].mg = u.spool[s].mg
  <2>1. spool'[s] = IF s \in emptied THEN Emptied(u.spool[s]) ELSE u.spool[s]
    BY <1>4
  <2> QED  BY <1>5, <2>1, EmptiedTyped
<1>8. spool' \in SpoolRows
  BY <1>4, <1>7 DEF SpoolRows
<1>9. /\ printer' \in PrinterRows /\ \A q \in Printers \ {p} : printer'[q] = u.printer[q]
      /\ printer'[p] = [state |-> "archived", rev |-> u.printer[p].rev + 1]
  BY <1>1, <1>4, <1>5 DEF PrinterRows, PrinterRow
<1>10. RowsTyped'
  BY <1>4, <1>8, <1>9 DEF RowsTyped
<1>11. LoadedSoundly'
  <2>1. ASSUME NEW s \in Spools, spool'[s].loc \in Slots
        PROVE  /\ slot'[spool'[s].loc] = "live" /\ printer'[PrinterOf[spool'[s].loc]].state = "active"
               /\ spool'[s].lifecycle # "archived"
    <3>1. /\ spool'[s].loc = u.spool[s].loc /\ PrinterOf[u.spool[s].loc] \in Printers \ {p} /\ slot' = u.slot
          /\ spool'[s].lifecycle \in {"empty", u.spool[s].lifecycle}
      BY <1>4, <1>5, <1>7, <2>1, SpoolsAssumption
    <3> QED  BY <1>3, <1>9, <2>1, <3>1 DEF SoundIn
  <2> QED  BY <1>3, <1>7, <2>1, SoundLands
<1>12. Promises'
  <2>1. \A s \in Spools : u.spool[s].lifecycle = spool[s].lifecycle
    BY <1>3, TablesFit DEF Follows, Keeps
  <2> QED  BY <1>4, <1>6, <1>7, <2>1, PromisesStay DEF CanMarkEmpty
<1>13. Goes
  <2>1. \A q \in Printers : /\ u.printer[q].rev <= printer'[q].rev /\ u.printer[q].state = printer[q].state
                            /\ printer[q].state # "unmade" => printer'[q].state # "unmade"
    <3>1. \A q \in Printers : u.printer[q].state = printer[q].state
      BY <1>3, TablesFit DEF Follows
    <3>2. u.printer[p].rev <= printer'[p].rev /\ printer'[p].state # "unmade"
      BY <1>1, <1>5, <1>9
    <3>3. ASSUME NEW q \in Printers \ {p}
          PROVE  u.printer[q].rev <= printer'[q].rev /\ printer'[q].state = u.printer[q].state
      BY <1>5, <1>9, <3>3
    <3> QED  BY <3>1, <3>2, <3>3
  <2>2. \A s \in Spools : u.spool[s].rev <= spool'[s].rev
    BY <1>5, <1>7
  <2> QED  BY <1>3, <1>7, <1>10, <2>1, <2>2, TablesFit, GoesOn
<1>14. Fresh(r)
  BY <1>2 DEF Fresh
<1>15. Amounts(r)
  <2>1. \A s \in Spools : u.spool[s].mg = spool[s].mg
    BY <1>3, TablesFit DEF Follows, Keeps
  <2> QED  BY <1>4, <1>6, <1>7, <2>1 DEF Amounts, CanMarkEmpty
<1> QED  BY <1>10, <1>11, <1>12, <1>13, <1>14, <1>15 DEF Lands

(***************************************************************************)
(* Requests on their way.                                                  *)
(***************************************************************************)
LEMMA DeliverKeeps ==
  ASSUME SpoolsInv, NEW r \in DOMAIN sent, Deliver(r)
  PROVE  SpoolsInv' /\ Fresh(r) /\ Amounts(r)
<1>1. r \in Requests /\ Fits(r) /\ RowsTyped /\ LoadedSoundly /\ Promises /\ r.kind \in Kinds /\ r.id \notin claimed
  BY DEF SpoolsInv, RequestsInv, SentTyped, Requests, Deliver, Claim
<1>2. Lands /\ Fresh(r) /\ Amounts(r)
  <2>1. CASE r.kind = "move"
    BY <1>1, <2>1, MoveLands DEF Deliver
  <2>2. CASE r.kind = "lifecycle"
    BY <1>1, <2>2, LifecycleLands DEF Deliver
  <2>3. CASE r.kind = "archive"
    BY <1>1, <2>3, ArchiveLands DEF Deliver
  <2>4. CASE r.kind = "unarchive"
    BY <1>1, <2>4, UnarchiveLands DEF Deliver
  <2>5. CASE r.kind = "create"
    BY <1>1, <2>5, CreateLands DEF Deliver
  <2>6. CASE r.kind = "layout"
    BY <1>1, <2>6, LayoutLands DEF Deliver
  <2>7. CASE r.kind = "amount"
    BY <1>1, <2>7, AmountLands DEF Deliver
  <2> QED  BY <1>1, <2>1, <2>2, <2>3, <2>4, <2>5, <2>6, <2>7 DEF Kinds
<1>3. claimed' = claimed \cup ({r.id} \ {NoId}) /\ sent' = [sent EXCEPT ![r] = @ + 1]
  BY DEF Deliver
<1>4. /\ DOMAIN sent' = DOMAIN sent /\ sent' \in [DOMAIN sent' -> Nat]
      /\ \A q \in DOMAIN sent \ {r} : sent'[q] = sent[q]
  BY <1>3 DEF SpoolsInv, RequestsInv, SentTyped
<1>5. ASSUME NEW q \in DOMAIN sent'  PROVE Fits(q) /\ Seen(q)' /\ (sent'[q] > 0 => Spent(q)')
  <2>1. q \in DOMAIN sent /\ q \in Requests /\ Fits(q) /\ Seen(q) /\ (sent[q] > 0 => Spent(q))
    BY <1>4 DEF SpoolsInv, RequestsInv, SentTyped
  <2>2. Seen(q)' /\ (Spent(q) => Spent(q)')
    BY <1>1, <1>2, <1>3, <2>1, RequestsStay DEF Lands
  <2>3. Spent(r)'
    BY <1>2, <1>3 DEF Fresh, Spent
  <2> QED  BY <1>4, <2>1, <2>2, <2>3
<1>6. RequestsInv'
  BY <1>4, <1>5 DEF RequestsInv, SentTyped, SpoolsInv, Fits
<1> QED  BY <1>2, <1>6 DEF SpoolsInv, Lands

LEMMA ComposeKeeps ==
  ASSUME SpoolsInv, NEW r \in Requests, Fits(r), Seen(r), Compose(r)
  PROVE  SpoolsInv'
<1>1. /\ UNCHANGED rows /\ DOMAIN sent' = DOMAIN sent \cup {r} /\ sent'[r] = 0
      /\ \A q \in DOMAIN sent : q # r /\ sent'[q] = sent[q]
      /\ sent' = [q \in DOMAIN sent \cup {r} |-> IF q = r THEN 0 ELSE sent[q]]
  BY DEF Compose
<1>2. RowsTyped' /\ LoadedSoundly' /\ Promises' /\ Seen(r)' /\ \A q : (Seen(q) <=> Seen(q)') /\ (Spent(q) <=> Spent(q)')
  BY <1>1 DEF rows, SpoolsInv, RowsTyped, LoadedSoundly, Occupants, Promises, Open, Seen, Spent, Loaded
<1>3. SentTyped'
  BY <1>1 DEF SpoolsInv, RequestsInv, SentTyped
<1>4. ASSUME NEW q \in DOMAIN sent'  PROVE Fits(q)' /\ Seen(q)' /\ (sent'[q] > 0 => Spent(q)')
  BY <1>1, <1>2 DEF SpoolsInv, RequestsInv, Fits
<1> QED  BY <1>2, <1>3, <1>4 DEF SpoolsInv, RequestsInv

LEMMA ToTyped ==
  ASSUME RowsTyped, NEW s \in Spools, NEW place \in Places, NEW shelf \in Places
  PROVE  /\ To(s, place, shelf) \in Asked /\ (shelf \in Shelves => To(s, place, shelf) \in Asks)
         /\ To(s, place, shelf).spool = s /\ To(s, place, shelf).rev = spool[s].rev
         /\ To(s, place, shelf).to = place /\ To(s, place, shelf).spare = shelf
<1>1. spool[s].rev \in Nat
  BY DEF RowsTyped, SpoolRows, Row
<1> QED  BY <1>1 DEF To, Asked, Asks, Occupants

LEMMA RequestTyped ==
  ASSUME RowsTyped, NEW kind \in Kinds, NEW id \in Ids \cup {NoId}, NEW p \in Printers, NEW s \in Spools
  PROVE  /\ Request(kind, id, p, s) \in Requests
         /\ Request(kind, id, p, s).kind = kind /\ Request(kind, id, p, s).id = id
         /\ Request(kind, id, p, s).printer = p /\ Request(kind, id, p, s).rev = printer[p].rev
         /\ Request(kind, id, p, s).saw = {spool[s].loc}
         /\ Request(kind, id, p, s).move.spool = s /\ Request(kind, id, p, s).move.rev = spool[s].rev
<1>1. printer[p].rev \in Nat /\ spool[s].loc \in Places /\ <<>> \in Seq(Asks)
  BY DEF RowsTyped, PrinterRows, PrinterRow, SpoolRows, Row
<1> DEFINE m == To(s, spool[s].loc, spool[s].loc)
<1>2. m \in Asked /\ m.spool = s /\ m.rev = spool[s].rev
  BY <1>1, ToTyped
<1> HIDE DEF m
<1>3. Request(kind, id, p, s) =
        [kind |-> kind, id |-> id, printer |-> p, rev |-> printer[p].rev, slots |-> {}, moves |-> <<>>,
         move |-> m, action |-> "none", mg |-> 0, saw |-> {spool[s].loc}]
  BY DEF Request, m
<1> QED  BY <1>1, <1>2, <1>3 DEF Requests

LEMMA AskSpoolKeeps ==
  ASSUME SpoolsInv, NEW p \in Printers, NEW s \in Spools, AskSpool(p, s)
  PROVE  SpoolsInv'
<1>1. /\ RowsTyped /\ spool[s].rev \in Nat /\ spool[s].loc \in Places /\ NoId \notin Ids /\ Slots \cap Shelves = {}
      /\ Kinds = {"move", "lifecycle", "archive", "unarchive", "create", "layout", "amount"}
  BY SpoolsAssumption DEF SpoolsInv, RowsTyped, SpoolRows, Row, Kinds
<1>2. ASSUME NEW id \in Ids, NEW place \in Shelves \cup Slots, NEW shelf \in Shelves,
             Compose([Request("move", id, p, s) EXCEPT !.move = To(s, place, shelf)])
      PROVE  SpoolsInv'
  <2> DEFINE q == Request("move", id, p, s)
             m == To(s, place, shelf)
             r == [q EXCEPT !.move = m]
  <2>1. /\ q \in Requests /\ q.kind = "move" /\ q.id = id /\ q.saw = {spool[s].loc}
        /\ m \in Asked /\ m.spool = s /\ m.rev = spool[s].rev /\ m.spare \in Shelves
    BY <1>1, RequestTyped, ToTyped DEF Places
  <2> HIDE DEF q, m
  <2>2. r \in Requests /\ r.kind = "move" /\ r.id = id /\ r.saw = {spool[s].loc} /\ r.move = m
    BY <2>1 DEF Requests
  <2>3. Compose(r)
    BY <1>2 DEF q, m
  <2> HIDE DEF r
  <2>4. Fits(r) /\ Seen(r)
    BY <1>1, <2>1, <2>2 DEF Fits, Seen
  <2> QED  BY <2>2, <2>3, <2>4, ComposeKeeps
<1>3. ASSUME NEW id \in Ids, NEW action \in LifecycleActions, NEW shelf \in Shelves,
             Compose([Request("lifecycle", id, p, s) EXCEPT !.action = action, !.move = To(s, shelf, shelf)])
      PROVE  SpoolsInv'
  <2> DEFINE q == Request("lifecycle", id, p, s)
             m == To(s, shelf, shelf)
             half == [q EXCEPT !.action = action]
             r == [half EXCEPT !.move = m]
  <2>1. /\ q \in Requests /\ q.kind = "lifecycle" /\ q.id = id /\ q.saw = {spool[s].loc}
        /\ m \in Asked /\ m.spool = s /\ m.rev = spool[s].rev /\ m.spare \in Shelves /\ m.to \in Shelves
    BY <1>1, RequestTyped, ToTyped DEF Places
  <2>2. Compose(r)
    BY <1>3
  <2> HIDE DEF q, m
  <2>3. half \in Requests /\ half.kind = "lifecycle" /\ half.id = id /\ half.saw = {spool[s].loc} /\ half.action = action
    BY <2>1 DEF Requests
  <2> HIDE DEF half
  <2>4. /\ r \in Requests /\ r.kind = "lifecycle" /\ r.id = id /\ r.saw = {spool[s].loc} /\ r.action = action
        /\ r.move = m
    BY <2>1, <2>3 DEF Requests
  <2> HIDE DEF r
  <2>5. Fits(r) /\ Seen(r)
    BY <1>1, <2>1, <2>4 DEF Fits, Seen
  <2> QED  BY <2>2, <2>4, <2>5, ComposeKeeps
<1>4. ASSUME NEW mg \in 0..MaxMg, Compose([Request("amount", NoId, p, s) EXCEPT !.mg = mg])
      PROVE  SpoolsInv'
  <2> DEFINE q == Request("amount", NoId, p, s)
             r == [q EXCEPT !.mg = mg]
  <2>1. /\ q \in Requests /\ q.kind = "amount" /\ q.id = NoId /\ q.saw = {spool[s].loc}
        /\ q.move.spool = s /\ q.move.rev = spool[s].rev
    BY <1>1, RequestTyped
  <2>2. Compose(r)
    BY <1>4
  <2> HIDE DEF q
  <2>3. mg \in Nat
    BY SpoolsAssumption
  <2>4. r \in Requests /\ r.kind = "amount" /\ r.id = NoId /\ r.saw = {spool[s].loc} /\ r.move = q.move
    BY <2>1, <2>3 DEF Requests
  <2> HIDE DEF r
  <2>5. Fits(r) /\ Seen(r)
    BY <1>1, <2>1, <2>4 DEF Fits, Seen
  <2> QED  BY <2>2, <2>4, <2>5, ComposeKeeps
<1> QED  BY <1>2, <1>3, <1>4 DEF AskSpool

\* The dispositions a client names put Spools on shelves, or send the occupant of a slot there.
LEMMA DispositionsTyped ==
  ASSUME RowsTyped, NEW p \in Printers, NEW ms \in Dispositions(p)  PROVE ms \in Seq(Asks)
<1> DEFINE all == UNION {Disposals(p, s) : s \in Loaded(p)}
<1>1. (CHOOSE x \in Shelves : TRUE) \in Shelves
  BY SpoolsAssumption
<1>2. ASSUME NEW s \in Spools, NEW place \in Places, NEW e \in BOOLEAN
      PROVE  [To(s, place, CHOOSE x \in Shelves : TRUE) EXCEPT !.empties = e] \in Asks
  <2> DEFINE m == To(s, place, CHOOSE x \in Shelves : TRUE)
  <2>1. m \in Asked /\ m.spare \in Shelves
    BY <1>1, ToTyped DEF Places
  <2> HIDE DEF m
  <2>2. [m EXCEPT !.empties = e] \in Asked /\ [m EXCEPT !.empties = e].spare = m.spare
    BY <2>1 DEF Asked
  <2> QED  BY <2>1, <2>2, Zenon DEF Asks, m
<1>3. all \subseteq Asks
  <2> SUFFICES ASSUME NEW s \in Spools, NEW m \in Disposals(p, s)  PROVE m \in Asks
    BY DEF Loaded
  <2>1. PICK place \in Places, e \in BOOLEAN : m = [To(s, place, CHOOSE x \in Shelves : TRUE) EXCEPT !.empties = e]
    BY DEF Disposals, Places
  <2> QED  BY <1>2, <2>1, Zenon
<1>4. ms \in [1..Cardinality(Loaded(p)) -> all]
  BY DEF Dispositions
<1>5. Cardinality(Loaded(p)) \in Nat
  <2>1. Loaded(p) \subseteq Spools
    BY DEF Loaded
  <2> QED  BY <2>1, SpoolsAssumption, FS_Subset, FS_CardinalityType
<1> HIDE DEF all
<1>6. ms \in [1..Cardinality(Loaded(p)) -> Asks]
  BY <1>3, <1>4
<1> QED  BY <1>5, <1>6

LEMMA AskPrinterKeeps ==
  ASSUME SpoolsInv, NEW p \in Printers, NEW s \in Spools, AskPrinter(p, s)
  PROVE  SpoolsInv'
<1>1. /\ RowsTyped /\ printer[p].rev \in Nat /\ NoId \notin Ids /\ NoId \in Ids \cup {NoId}
      /\ {"archive", "unarchive", "layout", "create"} \subseteq Kinds
  BY SpoolsAssumption DEF SpoolsInv, RowsTyped, PrinterRows, PrinterRow, Kinds
<1>2. ASSUME NEW id \in Ids, NEW ms \in Dispositions(p),
             Compose([Request("archive", id, p, s) EXCEPT !.moves = ms, !.saw = Loaded(p)])
      PROVE  SpoolsInv'
  <2> DEFINE q == Request("archive", id, p, s)
             half == [q EXCEPT !.moves = ms]
             r == [half EXCEPT !.saw = Loaded(p)]
  <2>1. /\ q \in Requests /\ q.kind = "archive" /\ q.id = id /\ q.printer = p /\ q.rev = printer[p].rev
        /\ ms \in Seq(Asks) /\ Loaded(p) \subseteq Spools
    BY <1>1, RequestTyped, DispositionsTyped DEF Loaded
  <2>2. Compose(r)
    BY <1>2
  <2> HIDE DEF q
  <2>3. /\ half \in Requests /\ half.kind = "archive" /\ half.id = id /\ half.printer = p /\ half.rev = printer[p].rev
    BY <2>1 DEF Requests
  <2> HIDE DEF half
  <2>4. /\ r \in Requests /\ r.kind = "archive" /\ r.id = id /\ r.printer = p /\ r.rev = printer[p].rev
        /\ r.saw = Loaded(p)
    BY <2>1, <2>3 DEF Requests
  <2> HIDE DEF r
  <2>5. Fits(r) /\ Seen(r)
    BY <1>1, <2>4 DEF Fits, Seen
  <2> QED  BY <2>2, <2>4, <2>5, ComposeKeeps
<1>3. ASSUME Compose([Request("unarchive", NoId, p, s) EXCEPT !.saw = {}])  PROVE SpoolsInv'
  <2> DEFINE q == Request("unarchive", NoId, p, s)
             r == [q EXCEPT !.saw = {}]
  <2>1. q \in Requests /\ q.kind = "unarchive"
    BY <1>1, RequestTyped
  <2>2. Compose(r)
    BY <1>3
  <2> HIDE DEF q
  <2>3. r \in Requests /\ r.kind = "unarchive"
    BY <2>1 DEF Requests
  <2> HIDE DEF r
  <2> QED  BY <2>2, <2>3, ComposeKeeps DEF Fits, Seen
<1>4. ASSUME NEW new \in SUBSET Slots, Compose([Request("layout", NoId, p, s) EXCEPT !.slots = new, !.saw = {}])
      PROVE  SpoolsInv'
  <2> DEFINE q == Request("layout", NoId, p, s)
             half == [q EXCEPT !.slots = new]
             r == [half EXCEPT !.saw = {}]
  <2>1. q \in Requests /\ q.kind = "layout"
    BY <1>1, RequestTyped
  <2>2. Compose(r)
    BY <1>4
  <2> HIDE DEF q
  <2>3. half \in Requests /\ half.kind = "layout"
    BY <2>1 DEF Requests
  <2> HIDE DEF half
  <2>4. r \in Requests /\ r.kind = "layout"
    BY <2>3 DEF Requests
  <2> HIDE DEF r
  <2> QED  BY <2>2, <2>4, ComposeKeeps DEF Fits, Seen
<1>5. ASSUME NEW l \in Slots, NEW t \in Spools,
             Compose([Request("create", NoId, p, s) EXCEPT !.slots = {l}, !.saw = {},
                        !.moves = <<[To(t, l, CHOOSE x \in Shelves : TRUE) EXCEPT !.occupant = {}]>>])
      PROVE  SpoolsInv'
  <2> DEFINE q == Request("create", NoId, p, s)
             m == To(t, l, CHOOSE x \in Shelves : TRUE)
             bare == [m EXCEPT !.occupant = {}]
             some == [q EXCEPT !.slots = {l}]
             more == [some EXCEPT !.saw = {}]
             r == [more EXCEPT !.moves = <<bare>>]
  <2>1. q \in Requests /\ q.kind = "create" /\ m \in Asks
    <3>1. (CHOOSE x \in Shelves : TRUE) \in Shelves
      BY SpoolsAssumption
    <3>2. m \in Asks
      BY <1>1, <3>1, ToTyped DEF Places
    <3> QED  BY <1>1, <3>2, RequestTyped
  <2>2. Compose(r)
    BY <1>5
  <2> HIDE DEF q, m
  <2>3. bare \in Asks
    BY <2>1 DEF Asks, Asked
  <2> HIDE DEF bare
  <2>4. <<bare>> \in Seq(Asks)
    BY <2>3
  <2>5. some \in Requests /\ some.kind = "create"
    BY <2>1 DEF Requests
  <2> HIDE DEF some
  <2>6. more \in Requests /\ more.kind = "create"
    BY <2>5 DEF Requests
  <2> HIDE DEF more
  <2>7. r \in Requests /\ r.kind = "create"
    BY <2>4, <2>6 DEF Requests
  <2> HIDE DEF r
  <2> QED  BY <2>2, <2>7, ComposeKeeps DEF Fits, Seen
<1> QED  BY <1>2, <1>3, <1>4, <1>5 DEF AskPrinter

(***************************************************************************)
(* Jobs.                                                                   *)
(***************************************************************************)
LEMMA LargerIn == ASSUME NEW v \in Int  PROVE /\ Max({0, v}) \in Nat /\ Max({0, v}) >= v
                                              /\ Max({0, v}) \in {0, v}
<1>1. \E x \in {0, v} : \A y \in {0, v} : x >= y
  <2>1. CASE v >= 0
    BY <2>1
  <2>2. CASE v < 0
    BY <2>2
  <2> QED  BY <2>1, <2>2
<1>2. Max({0, v}) \in {0, v} /\ \A y \in {0, v} : Max({0, v}) >= y
  BY <1>1, Zenon DEF Max
<1> QED  BY <1>2

\* What a Job's step writes: its own reservation, and the amount of the Spool it is of.
LEMMA JobKeeps ==
  ASSUME SpoolsInv, UNCHANGED <<slot, printer, claimed, sent, usage>>, NEW j \in Jobs, NEW row \in JobRow,
         job' = [job EXCEPT ![j] = row],
         row.rsv \in {"active", "unresolved"} => spool[row.spool].lifecycle = "active",
         spool' = spool \/ \E s \in Spools, mg \in Nat : AppendAmount(s, mg)
  PROVE  SpoolsInv'
<1>1. RowsTyped /\ spool \in SpoolRows
  BY DEF SpoolsInv, RowsTyped
<1>2. spool' \in SpoolRows /\ \A s \in Spools : /\ spool'[s].loc = spool[s].loc /\ spool'[s].rev = spool[s].rev
                                                /\ spool'[s].lifecycle = spool[s].lifecycle
  <2>1. CASE spool' = spool
    BY <1>1, <2>1
  <2>2. ASSUME NEW t \in Spools, NEW mg \in Nat, AppendAmount(t, mg)
        PROVE  spool' \in SpoolRows /\ \A s \in Spools : /\ spool'[s].loc = spool[s].loc
                 /\ spool'[s].rev = spool[s].rev /\ spool'[s].lifecycle = spool[s].lifecycle
    BY <1>1, <2>2 DEF AppendAmount, SpoolRows, Row
  <2> QED  BY <2>1, <2>2
<1>3. RowsTyped'
  BY <1>1, <1>2 DEF RowsTyped
<1>4. LoadedSoundly'
  BY <1>2 DEF SpoolsInv, LoadedSoundly, Occupants
<1>5. Promises'
  <2>1. \A i \in Jobs \ {j} : job'[i] = job[i]
    BY <1>1 DEF RowsTyped
  <2>2. job'[j] = row /\ row.spool \in Spools
    BY <1>1 DEF RowsTyped, JobRow
  <2>3. \A i \in Jobs : job[i].spool \in Spools
    BY <1>1 DEF RowsTyped, JobRow
  <2> QED  BY <1>2, <2>1, <2>2, <2>3 DEF SpoolsInv, Promises, Open
<1>6. RequestsInv'
  <2>1. \A q \in Requests : (Seen(q) => Seen(q)') /\ (Spent(q) => Spent(q)')
    <3>1. Goes
      <4>1. \A s \in Spools : SpoolGoes(s)
        BY <1>1, <1>2 DEF SpoolGoes, SpoolRows, Row
      <4>2. \A p \in Printers : Loaded(p)' = Loaded(p)
        BY <1>2 DEF Loaded
      <4>3. \A p \in Printers : PrinterGoes(p)
        BY <1>1, <4>2 DEF PrinterGoes, RowsTyped, PrinterRows, PrinterRow
      <4> QED  BY <4>1, <4>3 DEF Goes
    <3> QED  BY <1>1, <1>3, <3>1, RequestsStay
  <2> QED  BY <2>1 DEF SpoolsInv, RequestsInv, SentTyped, Fits
<1> QED  BY <1>3, <1>4, <1>5, <1>6 DEF SpoolsInv

LEMMA ConsumeKeeps ==
  ASSUME SpoolsInv, NEW j \in Jobs, NEW used \in Nat, NEW ended \in BOOLEAN, Consume(j, used, ended)
  PROVE  SpoolsInv'
<1> DEFINE old == job[j]
           spent == [old EXCEPT !.rsv = "consumed"]
           told == [spent EXCEPT !.how = "estimated"]
           row == [told EXCEPT !.completed = ended]
           left == Max({0, spool[job[j].spool].mg - used})
<1>1. old \in JobRow /\ spool[old.spool].mg \in Nat
  BY DEF SpoolsInv, RowsTyped, SpoolRows, Row, JobRow
<1>2. left \in Nat
  BY <1>1, LargerIn
<1>3. job' = [job EXCEPT ![j] = row] /\ AppendAmount(old.spool, left) /\ UNCHANGED <<slot, printer, claimed, sent, usage>>
  BY DEF Consume
<1> HIDE DEF old, left
<1>4. spent \in JobRow /\ spent.rsv = "consumed" /\ spent.spool = old.spool
  BY <1>1 DEF JobRow
<1> HIDE DEF spent
<1>5. told \in JobRow /\ told.rsv = "consumed" /\ told.spool = old.spool
  BY <1>4 DEF JobRow
<1> HIDE DEF told
<1>6. row \in JobRow /\ row.rsv = "consumed" /\ old.spool \in Spools
  BY <1>1, <1>5 DEF JobRow
<1> HIDE DEF row
<1> QED  BY <1>2, <1>3, <1>6, JobKeeps

LEMMA JobStepKeeps ==
  ASSUME SpoolsInv, JobStep
  PROVE  SpoolsInv'
<1>1. PICK j \in Jobs :
        \/ \E s \in Spools : Reserve(j, s)
        \/ Release(j) \/ MarkUnresolved(j) \/ Completed(j)
        \/ \E used \in 0..Estimate : SettleEstimated(j, used)
        \/ \E mg \in 0..MaxMg : SettleMeasured(j, mg) \/ Correct(j, mg)
  BY DEF JobStep
<1> DEFINE old == job[j]
<1>2. old \in JobRow /\ job \in [Jobs -> JobRow] /\ Promises /\ Estimate \in Nat /\ MaxMg \in Nat
  BY SpoolsAssumption DEF SpoolsInv, RowsTyped
<1> HIDE DEF old
<1>3. ASSUME NEW s \in Spools, Reserve(j, s)  PROVE SpoolsInv'
  <2> DEFINE taken == [old EXCEPT !.rsv = "active"]
             row == [taken EXCEPT !.spool = s]
  <2>1. taken \in JobRow /\ taken.rsv = "active"
    BY <1>2 DEF JobRow
  <2>2. job' = [job EXCEPT ![j] = row] /\ UNCHANGED <<spool, slot, printer, claimed, sent, usage>>
        /\ spool[s].lifecycle = "active"
    BY <1>3 DEF Reserve, old
  <2> HIDE DEF taken
  <2>3. row \in JobRow /\ row.spool = s
    BY <2>1 DEF JobRow
  <2> HIDE DEF row
  <2> QED  BY <2>2, <2>3, JobKeeps
<1>4. CASE Release(j)
  <2> DEFINE row == [old EXCEPT !.rsv = "released"]
  <2>1. job' = [job EXCEPT ![j] = row] /\ UNCHANGED <<spool, slot, printer, claimed, sent, usage>>
    BY <1>4, Zenon DEF Release, old
  <2>2. row \in JobRow /\ row.rsv = "released"
    BY <1>2 DEF JobRow
  <2> HIDE DEF row
  <2> QED  BY <2>1, <2>2, JobKeeps
<1>5. CASE MarkUnresolved(j)
  <2> DEFINE row == [old EXCEPT !.rsv = "unresolved"]
  <2>1. job' = [job EXCEPT ![j] = row] /\ UNCHANGED <<spool, slot, printer, claimed, sent, usage>>
    BY <1>5, Zenon DEF MarkUnresolved, old
  <2>2. row \in JobRow /\ row.spool = old.spool /\ spool[old.spool].lifecycle = "active"
    BY <1>2, <1>5 DEF JobRow, MarkUnresolved, Promises, Open, old
  <2> HIDE DEF row
  <2> QED  BY <2>1, <2>2, JobKeeps
<1>6. CASE Completed(j)
  BY <1>2, <1>6, ConsumeKeeps DEF Completed
<1>7. ASSUME NEW used \in 0..Estimate, SettleEstimated(j, used)  PROVE SpoolsInv'
  <2>1. used \in Nat /\ FALSE \in BOOLEAN
    BY <1>2
  <2>2. Consume(j, used, FALSE)
    BY <1>7 DEF SettleEstimated
  <2> QED  BY <2>1, <2>2, ConsumeKeeps
<1>8. ASSUME NEW mg \in 0..MaxMg, SettleMeasured(j, mg)  PROVE SpoolsInv'
  <2> DEFINE spent == [old EXCEPT !.rsv = "consumed"]
             row == [spent EXCEPT !.how = "measured"]
  <2>1. spent \in JobRow /\ spent.rsv = "consumed"
    BY <1>2 DEF JobRow
  <2>2. job' = [job EXCEPT ![j] = row] /\ UNCHANGED <<slot, printer, claimed, sent, usage>> /\ AppendAmount(old.spool, mg)
    BY <1>8 DEF SettleMeasured, old
  <2> HIDE DEF spent
  <2>3. row \in JobRow /\ row.rsv = "consumed" /\ old.spool \in Spools /\ mg \in Nat
    BY <1>2, <2>1 DEF JobRow
  <2> HIDE DEF row
  <2> QED  BY <2>2, <2>3, JobKeeps
<1>9. ASSUME NEW mg \in 0..MaxMg, Correct(j, mg)  PROVE SpoolsInv'
  <2> DEFINE row == [old EXCEPT !.corrected = TRUE]
  <2>1. job' = [job EXCEPT ![j] = row] /\ UNCHANGED <<slot, printer, claimed, sent, usage>> /\ AppendAmount(old.spool, mg)
    BY <1>9, Zenon DEF Correct, old
  <2>2. row \in JobRow /\ row.rsv = old.rsv /\ row.spool = old.spool
    <3>1. TRUE \in BOOLEAN
      OBVIOUS
    <3> QED  BY <1>2, <3>1 DEF JobRow
  <2>4. old.spool \in Spools /\ mg \in Nat
    BY <1>2 DEF JobRow
  <2>3. old.rsv \in {"active", "unresolved"} => spool[old.spool].lifecycle = "active"
    BY <1>2 DEF Promises, Open, old
  <2> HIDE DEF row
  <2> QED  BY <2>1, <2>2, <2>3, <2>4, JobKeeps
<1> QED  BY <1>1, <1>3, <1>4, <1>5, <1>6, <1>7, <1>8, <1>9

(***************************************************************************)
(* The theorems.                                                           *)
(***************************************************************************)
LEMMA SpoolsStart == Init => SpoolsInv
<1> SUFFICES ASSUME Init  PROVE SpoolsInv
  OBVIOUS
<1>1. (CHOOSE s \in Spools : TRUE) \in Spools
  BY SpoolsAssumption
<1>2. RowsTyped
  <2>1. spool \in SpoolRows
    BY SpoolsAssumption DEF Init, SpoolRows, Row
  <2>2. job \in [Jobs -> JobRow]
    BY <1>1 DEF Init, JobRow
  <2>3. slot \in SlotRows /\ printer \in PrinterRows
    BY DEF Init, SlotRows, PrinterRows, PrinterRow
  <2> QED  BY <2>1, <2>2, <2>3 DEF RowsTyped
<1>3. LoadedSoundly
  BY DEF Init, LoadedSoundly, Occupants
<1>4. Promises
  BY DEF Init, Promises, Open
<1>5. RequestsInv
  BY DEF Init, RequestsInv, SentTyped
<1> QED  BY <1>2, <1>3, <1>4, <1>5 DEF SpoolsInv

LEMMA SpoolsKeep == SpoolsInv /\ [Next]_vars => SpoolsInv'
<1> SUFFICES ASSUME SpoolsInv, [Next]_vars  PROVE SpoolsInv'
  OBVIOUS
<1>1. CASE UNCHANGED vars
  BY <1>1 DEF vars, rows, SpoolsInv, RowsTyped, LoadedSoundly, Occupants, Promises, Open, RequestsInv, SentTyped,
              Fits, Seen, Spent, Loaded
<1>2. CASE Client
  <2>1. (CHOOSE p \in Printers : TRUE) \in Printers /\ (CHOOSE s \in Spools : TRUE) \in Spools
    BY SpoolsAssumption
  <2> QED  BY <1>2, <2>1, AskSpoolKeeps, AskPrinterKeeps DEF Client
<1>3. CASE JobStep
  BY <1>3, JobStepKeeps
<1>4. ASSUME NEW r \in DOMAIN sent, Deliver(r)  PROVE SpoolsInv'
  BY <1>4, DeliverKeeps
<1> QED  BY <1>1, <1>2, <1>3, <1>4 DEF Next

\* Rows are well typed, loaded Spools are in their slots, reservations are of Spools in use and
\* no request is ahead of the rows it saw: the inductive invariant behind the theorems below.
THEOREM SpoolsOrdered == Spec => []SpoolsInv
<1> QED  BY SpoolsStart, SpoolsKeep, PTL DEF Spec

\* A loaded Spool is in a live slot of a Printer in use, alone there and not archived, and a
\* Spool that a Job holds filament on is active (spools/movement.rs, lifecycle.rs,
\* dispositions.rs, printers/repository.rs archive_with_outcome, slots.rs set_layout).
THEOREM SpoolsStillUsable == Spec => []StillUsable
<1>1. SpoolsInv => StillUsable
  <2> SUFFICES ASSUME SpoolsInv, NEW s \in Spools, Promised(s) > 0  PROVE spool[s].lifecycle = "active"
    BY DEF SpoolsInv, StillUsable, ReservedStaysActive
  <2> DEFINE S == {j \in Jobs : job[j].spool = s /\ job[j].rsv \in {"active", "unresolved"}}
  <2>1. S # {}
    <3>1. S = {} => Promised(s) = 0
      <4>1. Promised(s) = Estimate * Cardinality(S)
        BY DEF Promised
      <4> HIDE DEF S
      <4> QED  BY <4>1, FS_EmptySet, SpoolsAssumption
    <3> QED  BY <3>1
  <2>2. PICK j \in Jobs : job[j].spool = s /\ Open(j)
    BY <2>1 DEF Open
  <2> QED  BY <2>2 DEF SpoolsInv, Promises
<1> QED  BY <1>1, SpoolsOrdered, PTL

\* A request takes effect once at most, no two with one id do, and only on Spools and Printers
\* as its requester saw them (spools/operations.rs claim, movement.rs apply_one_move,
\* repository.rs check_and_bump_revision).
THEOREM SpoolsNoSurprise == Spec => NoSurprise
<1> DEFINE Seldom == \A r \in DOMAIN sent : sent'[r] > sent[r] =>
             /\ \A q \in DOMAIN sent : q = r \/ (q.id = r.id /\ r.id # NoId) => sent[q] = 0
             /\ r.kind \in {"move", "lifecycle", "amount"} => {spool[r.move.spool].loc} = r.saw
             /\ r.kind = "move" /\ r.move.to \in Slots => Occupants(r.move.to) = r.move.occupant
             /\ r.kind = "archive" => Loaded(r.printer) = r.saw
<1>1. ASSUME SpoolsInv, NEW r \in DOMAIN sent, NEW x \in DOMAIN sent, Deliver(x), sent'[r] > sent[r]
      PROVE  /\ \A q \in DOMAIN sent : q = r \/ (q.id = r.id /\ r.id # NoId) => sent[q] = 0
             /\ r.kind \in {"move", "lifecycle", "amount"} => {spool[r.move.spool].loc} = r.saw
             /\ r.kind = "move" /\ r.move.to \in Slots => Occupants(r.move.to) = r.move.occupant
             /\ r.kind = "archive" => Loaded(r.printer) = r.saw
  <2>1. /\ sent \in [DOMAIN sent -> Nat] /\ r \in Requests /\ Fits(r) /\ Seen(r)
        /\ \A q \in DOMAIN sent : sent[q] > 0 => Spent(q)
    BY <1>1 DEF SpoolsInv, RequestsInv, SentTyped
  <2>2. r = x
    BY <1>1, <2>1 DEF Deliver
  <2>3. Fresh(r) /\ r.id \notin claimed
    BY <1>1, <2>2, DeliverKeeps DEF Deliver, Claim
  <2>4. ASSUME NEW q \in DOMAIN sent, q = r \/ (q.id = r.id /\ r.id # NoId)  PROVE sent[q] = 0
    <3>1. ~Spent(q)
      <4>1. CASE r.id # NoId
        BY <2>3, <2>4, <4>1 DEF Spent
      <4>2. CASE r.id = NoId
        <5>1. q = r /\ r.kind \in {"amount", "unarchive", "layout", "create"} /\ r.rev \in Nat /\ r.move.rev \in Nat
          BY <2>1, <2>4, <4>2 DEF Fits, Requests, Kinds, Asked
        <5> QED  BY <2>3, <5>1 DEF Fresh, Spent
      <4> QED  BY <4>1, <4>2
    <3> QED  BY <2>1, <3>1
  <2> QED  BY <2>1, <2>3, <2>4 DEF Fresh, Seen
<1>2. SpoolsInv /\ [Next]_vars => Seldom
  <2> SUFFICES ASSUME SpoolsInv, [Next]_vars, NEW r \in DOMAIN sent, sent'[r] > sent[r]
               PROVE  \E x \in DOMAIN sent : Deliver(x)
    BY <1>1
  <2>1. sent[r] \in Nat
    BY DEF SpoolsInv, RequestsInv, SentTyped
  <2>2. sent'[r] # sent[r]
    BY <2>1
  <2>3. ASSUME NEW q, Compose(q)  PROVE FALSE
    BY <2>2, <2>3 DEF Compose
  <2>4. ~Client
    BY <2>3 DEF Client, AskSpool, AskPrinter
  <2>5. ~JobStep
    BY <2>2 DEF JobStep, Reserve, Release, MarkUnresolved, Completed, Consume, SettleEstimated, SettleMeasured, Correct
  <2> QED  BY <2>2, <2>4, <2>5 DEF Next, vars
<1> QED  BY <1>2, SpoolsOrdered, PTL DEF Spec, NoSurprise

(***************************************************************************)
(* What is promised of a Spool.                                            *)
(***************************************************************************)
Held(f, s) == {j \in Jobs : f[j].spool = s /\ f[j].rsv \in {"active", "unresolved"}}
Owed(f, s) == Estimate * Cardinality(Held(f, s))

LEMMA HeldFinite ==
  ASSUME NEW f, NEW s
  PROVE  IsFiniteSet(Held(f, s)) /\ Cardinality(Held(f, s)) \in Nat /\ Estimate \in Nat /\ Owed(f, s) \in Nat
<1>1. IsFiniteSet(Held(f, s))
  BY SpoolsAssumption, FS_Subset DEF Held
<1>2. Cardinality(Held(f, s)) \in Nat /\ Estimate \in Nat
  BY <1>1, FS_CardinalityType, SpoolsAssumption
<1> QED  BY <1>1, <1>2 DEF Owed

LEMMA TimesOrder == ASSUME NEW e \in Nat, NEW a \in Nat, NEW b \in Nat, a <= b  PROVE e * a <= e * b
OBVIOUS

\* Fewer reservations promise less.
LEMMA HeldFewer ==
  ASSUME NEW f, NEW g, NEW s, Held(g, s) \subseteq Held(f, s)
  PROVE  Owed(g, s) <= Owed(f, s)
<1>1. Cardinality(Held(g, s)) <= Cardinality(Held(f, s))
  BY HeldFinite, FS_Subset
<1> QED  BY <1>1, HeldFinite, TimesOrder DEF Owed

\* One more reservation promises one estimate more.
LEMMA HeldMore ==
  ASSUME NEW f, NEW g, NEW s, NEW j, j \notin Held(f, s), Held(g, s) = Held(f, s) \cup {j}
  PROVE  Owed(g, s) = Owed(f, s) + Estimate
<1>1. Cardinality(Held(g, s)) = Cardinality(Held(f, s)) + 1
  BY HeldFinite, FS_AddElement
<1>2. \A e, a \in Nat : e * (a + 1) = e * a + e
  OBVIOUS
<1> QED  BY <1>1, <1>2, HeldFinite DEF Owed

LEMMA PromisedIs ==
  ASSUME NEW s
  PROVE  Promised(s) = Owed(job, s) /\ Promised(s)' = Owed(job', s) /\ Reserved(s) = Promised(s)
BY DEF Promised, Owed, Held, Reserved, Open

LEMMA AfterJob ==
  ASSUME RowsTyped, NEW j \in Jobs, NEW row, job' = [job EXCEPT ![j] = row], NEW s
  PROVE  /\ job'[j] = row
         /\ row.rsv \notin {"active", "unresolved"} => Held(job', s) \subseteq Held(job, s)
         /\ row.rsv \notin {"active", "unresolved"} /\ j \in Held(job, s) =>
               j \notin Held(job', s) /\ Held(job, s) = Held(job', s) \cup {j}
         /\ row.spool = job[j].spool /\ j \in Held(job, job[j].spool) => Held(job', s) \subseteq Held(job, s)
         /\ row.rsv = job[j].rsv /\ row.spool = job[j].spool => Held(job', s) \subseteq Held(job, s)
         /\ row.spool # s => Held(job', s) \subseteq Held(job, s)
         /\ row.spool = s /\ row.rsv = "active" /\ job[j].rsv = "none" =>
               j \notin Held(job, s) /\ Held(job', s) = Held(job, s) \cup {j}
<1>1. job \in [Jobs -> JobRow]
  BY DEF RowsTyped
<1>2. job'[j] = row /\ \A i \in Jobs \ {j} : job'[i] = job[i]
  BY <1>1
<1> QED  BY <1>2 DEF Held

Short(s) == spool[s].mg >= Promised(s) /\ spool'[s].mg < Promised(s)'

\* A Job's step leaves no Spool short, but for what is measured or corrected.
LEMMA JobStepsPay ==
  ASSUME SpoolsInv, JobStep, NEW s \in Spools, Short(s)
  PROVE  \E j \in Jobs : job[j].spool = s /\ job'[j] # job[j] /\ (job'[j].how = "measured" \/ job'[j].corrected)
<1>1. PICK j \in Jobs :
        \/ \E x \in Spools : Reserve(j, x)
        \/ Release(j) \/ MarkUnresolved(j) \/ Completed(j)
        \/ \E used \in 0..Estimate : SettleEstimated(j, used)
        \/ \E mg \in 0..MaxMg : SettleMeasured(j, mg) \/ Correct(j, mg)
  BY DEF JobStep
<1> DEFINE old == job[j]
<1>2. /\ RowsTyped /\ old \in JobRow /\ Estimate \in Nat
      /\ Owed(job, s) \in Nat /\ Owed(job', s) \in Nat
      /\ Promised(s) = Owed(job, s) /\ Promised(s)' = Owed(job', s)
      /\ spool \in SpoolRows /\ \A x \in Spools : spool[x].mg \in Nat
  BY SpoolsAssumption, HeldFinite, PromisedIs DEF SpoolsInv, RowsTyped, SpoolRows, Row
<1>3. spool[s].mg >= Owed(job, s) /\ spool'[s].mg < Owed(job', s)
  BY <1>2 DEF Short
<1>4. ~(spool'[s].mg = spool[s].mg /\ Held(job', s) \subseteq Held(job, s))
  BY <1>2, <1>3, HeldFewer
<1>5. ASSUME NEW x \in Spools, Reserve(j, x)  PROVE FALSE
  <2> DEFINE taken == [old EXCEPT !.rsv = "active"]
             row == [taken EXCEPT !.spool = x]
  <2>1. job' = [job EXCEPT ![j] = row] /\ spool' = spool /\ old.rsv = "none" /\ Estimate <= Available(x)
    BY <1>5 DEF Reserve
  <2>2. row.spool = x /\ row.rsv = "active"
    BY <1>2 DEF JobRow
  <2> HIDE DEF row
  <2>3. x = s
    BY <1>2, <1>4, <2>1, <2>2, AfterJob
  <2>4. Owed(job', s) = Owed(job, s) + Estimate
    <3>1. j \notin Held(job, s) /\ Held(job', s) = Held(job, s) \cup {j}
      <4>1. row.spool = s /\ row.rsv = "active" /\ job[j].rsv = "none"
        BY <2>1, <2>2, <2>3
      <4> HIDE DEF old
      <4> QED  BY <1>2, <2>1, <4>1, AfterJob
    <3> QED  BY <3>1, HeldMore
  <2>5. Estimate <= spool[s].mg - Owed(job, s)
    BY <2>1, <2>3, PromisedIs DEF Available
  <2> QED  BY <1>2, <1>3, <2>1, <2>4, <2>5
<1>6. CASE Release(j)
  <2> DEFINE row == [old EXCEPT !.rsv = "released"]
  <2>1. job' = [job EXCEPT ![j] = row] /\ spool' = spool
    BY <1>6, Zenon DEF Release
  <2>2. row.rsv = "released"
    BY <1>2 DEF JobRow
  <2> HIDE DEF row
  <2> QED  BY <1>2, <1>4, <2>1, <2>2, AfterJob
<1>7. CASE MarkUnresolved(j)
  <2> DEFINE row == [old EXCEPT !.rsv = "unresolved"]
  <2>1. job' = [job EXCEPT ![j] = row] /\ spool' = spool /\ old.rsv = "active"
    BY <1>7, Zenon DEF MarkUnresolved
  <2>2. row.spool = old.spool /\ old.spool \in Spools
    BY <1>2 DEF JobRow
  <2>3. j \in Held(job, job[j].spool)
    BY <2>1 DEF Held
  <2> HIDE DEF row
  <2> QED  BY <1>2, <1>4, <2>1, <2>2, <2>3, AfterJob
<1>8. ASSUME NEW used \in 0..Estimate, NEW ended \in BOOLEAN, Consume(j, used, ended)  PROVE FALSE
  <2> DEFINE left == Max({0, spool[old.spool].mg - used})
             row == [old EXCEPT !.rsv = "consumed", !.how = "estimated", !.completed = ended]
  <2>1. job' = [job EXCEPT ![j] = row] /\ spool' = [spool EXCEPT ![old.spool].mg = left] /\ Open(j)
    BY <1>8 DEF Consume, AppendAmount
  <2>2. row.rsv = "consumed" /\ old.spool \in Spools
    BY <1>2 DEF JobRow
  <2>3. left \in Nat /\ left >= spool[old.spool].mg - used /\ used \in Nat /\ used <= Estimate
    <3>1. spool[old.spool].mg \in Nat /\ used \in Nat /\ used <= Estimate
      BY <1>2, <2>2
    <3>2. spool[old.spool].mg - used \in Int
      BY <3>1
    <3> QED  BY <3>1, <3>2, LargerIn
  <2> HIDE DEF left, row
  <2>4. spool'[s].mg = IF s = old.spool THEN left ELSE spool[s].mg
    BY <1>2, <2>1, <2>2 DEF SpoolRows, Row
  <2>5. s = old.spool
    BY <1>2, <1>4, <2>1, <2>2, <2>4, AfterJob
  <2>6. j \in Held(job, s)
    BY <2>1, <2>5 DEF Held, Open
  <2>7. Owed(job, s) = Owed(job', s) + Estimate
    <3>1. j \notin Held(job', s) /\ Held(job, s) = Held(job', s) \cup {j}
      BY <1>2, <2>1, <2>2, <2>6, AfterJob
    <3> QED  BY <3>1, HeldMore
  <2> QED  BY <1>2, <1>3, <2>3, <2>4, <2>5, <2>7
<1>9. CASE Completed(j)
  <2>1. Estimate \in 0..Estimate /\ TRUE \in BOOLEAN
    BY <1>2
  <2> QED  BY <1>8, <1>9, <2>1 DEF Completed
<1>10. ASSUME NEW used \in 0..Estimate, SettleEstimated(j, used)  PROVE FALSE
  <2>1. FALSE \in BOOLEAN
    OBVIOUS
  <2>2. Consume(j, used, FALSE)
    BY <1>10 DEF SettleEstimated
  <2> QED  BY <1>8, <2>1, <2>2
<1>11. ASSUME NEW mg \in 0..MaxMg, SettleMeasured(j, mg)
       PROVE  job[j].spool = s /\ job'[j] # job[j] /\ job'[j].how = "measured"
  <2> DEFINE row == [old EXCEPT !.rsv = "consumed", !.how = "measured"]
  <2>1. job' = [job EXCEPT ![j] = row] /\ spool' = [spool EXCEPT ![old.spool].mg = mg] /\ old.rsv = "unresolved"
    BY <1>11 DEF SettleMeasured, AppendAmount
  <2>2. row.rsv = "consumed" /\ row.how = "measured" /\ old.spool \in Spools
    BY <1>2 DEF JobRow
  <2> HIDE DEF row
  <2>3. s # old.spool => spool'[s].mg = spool[s].mg
    BY <1>2, <2>1, <2>2 DEF SpoolRows, Row
  <2> QED  BY <1>2, <1>4, <2>1, <2>2, <2>3, AfterJob
<1>12. ASSUME NEW mg \in 0..MaxMg, Correct(j, mg)
       PROVE  job[j].spool = s /\ job'[j] # job[j] /\ job'[j].corrected
  <2> DEFINE row == [old EXCEPT !.corrected = TRUE]
  <2>1. job' = [job EXCEPT ![j] = row] /\ spool' = [spool EXCEPT ![old.spool].mg = mg] /\ ~old.corrected
    BY <1>12, Zenon DEF Correct, AppendAmount
  <2>2. row.rsv = old.rsv /\ row.spool = old.spool /\ old.spool \in Spools
    BY <1>2 DEF JobRow
  <2>3. row.corrected
    BY <1>2 DEF JobRow
  <2> HIDE DEF row
  <2>4. s # old.spool => spool'[s].mg = spool[s].mg
    BY <1>2, <2>1, <2>2 DEF SpoolRows, Row
  <2>5. s = old.spool
    BY <1>2, <1>4, <2>1, <2>2, <2>4, AfterJob
  <2>6. job'[j] = row
    BY <1>2, <2>1, AfterJob
  <2> QED  BY <2>1, <2>3, <2>5, <2>6
<1> QED  BY <1>1, <1>5, <1>6, <1>7, <1>9, <1>10, <1>11, <1>12

\* Jobs never promise more of a Spool than it holds: only an amount that a person records,
\* measures or corrects leaves one short (spools/reservations.rs reserve, consume, release,
\* lifecycle.rs and dispositions.rs, which empty no Spool with a reservation).
THEOREM SpoolsNeverOverPromised == Spec => NeverOverPromised
<1> DEFINE Told(s) ==
             \/ \E r \in DOMAIN sent : r.kind = "amount" /\ r.move.spool = s /\ sent'[r] > sent[r]
             \/ \E j \in Jobs : /\ job[j].spool = s /\ job'[j] # job[j]
                                /\ (job'[j].how = "measured" \/ job'[j].corrected)
           Seldom == \A s \in Spools : spool[s].mg >= Promised(s) /\ spool'[s].mg < Promised(s)' => Told(s)
<1>1. SpoolsInv /\ [Next]_vars => Seldom
  <2> SUFFICES ASSUME SpoolsInv, [Next]_vars, NEW s \in Spools, Short(s)  PROVE Told(s)
    BY Zenon DEF Short
  <2>1. /\ Promised(s) = Owed(job, s) /\ Promised(s)' = Owed(job', s) /\ Owed(job, s) \in Nat
        /\ spool[s].mg \in Nat
        /\ Unreserved(s) => Owed(job, s) = 0
    BY HeldFinite, PromisedIs DEF SpoolsInv, RowsTyped, SpoolRows, Row, Unreserved
  <2>2. job' = job => spool'[s].mg # spool[s].mg /\ ~(Unreserved(s) /\ spool'[s].mg = 0)
    <3> SUFFICES ASSUME job' = job  PROVE spool'[s].mg # spool[s].mg /\ ~(Unreserved(s) /\ spool'[s].mg = 0)
      OBVIOUS
    <3>1. Promised(s)' = Promised(s) /\ Promised(s) \in Nat
      BY <2>1, Zenon
    <3>2. spool[s].mg >= Promised(s) /\ spool'[s].mg < Promised(s)
      BY <3>1 DEF Short
    <3>3. Unreserved(s) => Promised(s) = 0
      BY <2>1
    <3> QED  BY <2>1, <3>1, <3>2, <3>3
  <2>3. ASSUME UNCHANGED rows  PROVE FALSE
    BY <2>2, <2>3 DEF rows
  <2>4. CASE Client
    <3>1. ASSUME NEW q, Compose(q)  PROVE FALSE
      BY <2>3, <3>1 DEF Compose
    <3> QED  BY <2>4, <3>1 DEF Client, AskSpool, AskPrinter
  <2>5. CASE JobStep
    BY <2>5, JobStepsPay
  <2>6. ASSUME NEW r \in DOMAIN sent, Deliver(r)  PROVE Told(s)
    <3>1. r.kind = "amount" /\ r.move.spool = s
      BY <2>2, <2>6, DeliverKeeps DEF Amounts
    <3>2. sent'[r] > sent[r]
      BY <2>6 DEF Deliver, SpoolsInv, RequestsInv, SentTyped
    <3> QED  BY <3>1, <3>2
  <2> QED  BY <2>3, <2>4, <2>5, <2>6 DEF Next, vars
<1> QED  BY <1>1, SpoolsOrdered, PTL DEF Spec, NeverOverPromised

=============================================================================
